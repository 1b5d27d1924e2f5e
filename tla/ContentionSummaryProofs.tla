---------------------- MODULE ContentionSummaryProofs -----------------------
(***************************************************************************)
(* Proofs about ContentionSummary, for every set of slots and any number   *)
(* of builds at a time.                                                    *)
(***************************************************************************)
EXTENDS ContentionSummary, SetFacts

(* The committed tables hold whole blocks, the summary lists only blocks   *)
(* that are there.                                                         *)
Whole == /\ disk.blocks \subseteq disk.txns /\ disk.blocks \subseteq disk.locks
         /\ disk.summary.blocks \subseteq disk.blocks

(* What the open transaction of the writer has changed so far.             *)
WriterDraft ==
  writer # "idle" =>
    /\ draft.summary = disk.summary
    /\ draft.blocks = disk.blocks \cup {slot}
    /\ disk.txns \subseteq draft.txns /\ disk.locks \subseteq draft.locks
    /\ writer \in {"locks", "commit"} => slot \in draft.txns
    /\ writer = "commit" => slot \in draft.locks

(* The report so far counts its blocks in full; with what is left to read  *)
(* it covers the summary its build has found.                              *)
Building(b) ==
  builder[b] # "idle" =>
    /\ report[b] = Summary(report[b].blocks)
    /\ todo[b] \cap report[b].blocks = {}
    /\ todo[b] \cup report[b].blocks \subseteq disk.blocks
    /\ known[b] \subseteq todo[b] \cup report[b].blocks
    /\ builder[b] = "locks" => seen[b]

(* What the open transaction of a builder has changed so far.              *)
BuilderDraft(b) ==
  builder[b] \in Storing =>
    /\ todo[b] = {}
    /\ draft.blocks = disk.blocks /\ draft.txns = disk.txns
    /\ draft.locks = disk.locks
    /\ builder[b] # "blocks" => draft.summary.blocks = report[b].blocks
    /\ builder[b] \in {"programs", "commit"} =>
         draft.summary.accounts = report[b].accounts
    /\ builder[b] = "commit" => draft.summary.programs = report[b].programs

Builds == \A b \in Builders : Building(b) /\ BuilderDraft(b)

Inv == /\ TypeOK /\ SummaryConsistent
       /\ Whole /\ WriterDraft /\ Builds

(* Only a commit of a builder changes the summary, and only so.            *)
Rebuilt ==
  disk'.summary # disk.summary =>
    \E b \in Builders : owner = b /\ known[b] \subseteq disk'.summary.blocks

-----------------------------------------------------------------------------
LEMMA SummaryType ==
  ASSUME NEW S \in SUBSET Slots
  PROVE  /\ Summary(S) \in Summaries
         /\ Summary(S).blocks = S
         /\ Summary(S).accounts = Once(S) /\ Summary(S).programs = Once(S)
BY DEF Summary, Summaries, Once

(* Two summaries with the same tables are the same.                        *)
LEMMA SameSummary ==
  ASSUME NEW r \in Summaries, NEW q \in Summaries,
         r.blocks = q.blocks, r.accounts = q.accounts, r.programs = q.programs
  PROVE  r = q
BY DEF Summaries

(* Counting a new slot in full gives the summary of one more block.        *)
LEMMA CountedOnce ==
  ASSUME NEW S \in SUBSET Slots, NEW s \in Slots \ S
  PROVE  [Once(S) EXCEPT ![s] = @ + 1] = Once(S \cup {s})
<1>1. Once(S)[s] = 0
  BY DEF Once
<1>2. [Once(S) EXCEPT ![s] = 1] = Once(S \cup {s})
  BY DEF Once
<1> QED BY <1>1, <1>2

LEMMA EmptySummary ==
  Empty \in Summaries /\ Empty = Summary(Empty.blocks) /\ Empty.blocks = {}
BY SummaryType DEF Empty, Summary

LEMMA SummaryInit == Init => Inv
<1> SUFFICES ASSUME Init PROVE Inv
  OBVIOUS
<1>1. TypeOK
  BY EmptySummary, SummaryAssumption DEF Init, TypeOK, Tables, Storing
<1>2. Builds
  BY DEF Init, Builds, Building, BuilderDraft, Storing
<1> QED
  BY <1>1, <1>2, EmptySummary DEF Init, Inv, SummaryConsistent, Whole, WriterDraft

(* Every step of the writer preserves the invariant.                       *)
LEMMA WriterStep == Inv /\ Write => Inv' /\ disk'.summary = disk.summary
<1> SUFFICES ASSUME Inv, Write PROVE Inv' /\ disk'.summary = disk.summary
  OBVIOUS
<1> USE DEF Storing
<1>0. UNCHANGED <<todo, seen, report, builder, known, page, reader>>
  BY DEF Write, InsertBlock, InsertTxns, InsertLocks, CommitBlock, WriteFails,
         builderVars, readerVars
<1>b. ASSUME disk.blocks \subseteq disk'.blocks,
             \A b \in Builders : builder[b] \notin Storing
      PROVE  Builds'
  <2>1. ASSUME NEW b \in Builders PROVE Building(b)' /\ BuilderDraft(b)'
    BY <1>0, <1>b, <2>1 DEF Inv, Builds, Building, BuilderDraft
  <2> QED BY <2>1 DEF Builds
<1>1. ASSUME NEW s \in Slots, InsertBlock(s) PROVE Inv' /\ disk'.summary = disk.summary
  <2>1. /\ writer = "idle" /\ writer' = "txns" /\ slot' = s
        /\ owner = "none" /\ owner' = "writer" /\ disk' = disk
        /\ draft' = [disk EXCEPT !.blocks = @ \cup {s}]
    BY <1>1 DEF InsertBlock, Begin, Execute
  <2>2. /\ draft' \in Tables /\ draft'.blocks = disk.blocks \cup {s}
        /\ draft'.txns = disk.txns /\ draft'.locks = disk.locks
        /\ draft'.summary = disk.summary
    BY <2>1 DEF Inv, TypeOK, Tables
  <2>3. \A b \in Builders : builder[b] \notin Storing
    BY <2>1, SummaryAssumption DEF Inv, TypeOK
  <2>4. TypeOK'
    BY <1>0, <2>1, <2>2, <2>3, SummaryAssumption DEF Inv, TypeOK
  <2>5. Builds'
    BY <1>b, <2>1, <2>3
  <2> QED
    BY <2>1, <2>2, <2>4, <2>5 DEF Inv, SummaryConsistent, Whole, WriterDraft
<1>2. CASE InsertTxns \/ InsertLocks
  <2>1. /\ UNCHANGED <<disk, owner, slot>> /\ writer # "idle" /\ slot \in Slots
        /\ \/ /\ writer = "txns" /\ writer' = "locks"
              /\ draft' = [draft EXCEPT !.txns = @ \cup {slot}]
           \/ /\ writer = "locks" /\ writer' = "commit"
              /\ draft' = [draft EXCEPT !.locks = @ \cup {slot}]
    BY <1>2 DEF InsertTxns, InsertLocks, Execute, Inv, TypeOK
  <2>2. /\ draft' \in Tables /\ draft'.blocks = draft.blocks
        /\ draft'.summary = draft.summary
        /\ draft.txns \subseteq draft'.txns /\ draft.locks \subseteq draft'.locks
        /\ writer' = "locks" => slot \in draft'.txns
        /\ writer' = "commit" => slot \in draft'.locks
    BY <2>1 DEF Inv, TypeOK, Tables
  <2>3. \A b \in Builders : builder[b] \notin Storing
    BY <2>1, SummaryAssumption DEF Inv, TypeOK
  <2>4. TypeOK'
    BY <1>0, <2>1, <2>2 DEF Inv, TypeOK
  <2>5. WriterDraft'
    BY <2>1, <2>2 DEF Inv, WriterDraft
  <2>6. Builds'
    BY <1>b, <2>1, <2>3
  <2> QED
    BY <2>1, <2>4, <2>5, <2>6 DEF Inv, SummaryConsistent, Whole
<1>3. CASE CommitBlock
  <2>1. /\ writer = "commit" /\ writer' = "idle" /\ slot' = NoSlot
        /\ disk' = draft /\ owner' = "none" /\ draft' = draft
    BY <1>3 DEF CommitBlock, Commit
  <2>2. \A b \in Builders : builder[b] \notin Storing
    BY <2>1, SummaryAssumption DEF Inv, TypeOK
  <2>3. TypeOK'
    BY <1>0, <2>1, <2>2, SummaryAssumption DEF Inv, TypeOK
  <2>4. disk.blocks \subseteq disk'.blocks /\ disk'.summary = disk.summary
    BY <2>1 DEF Inv, WriterDraft
  <2>5. Whole'
    BY <2>1, <2>4 DEF Inv, WriterDraft, Whole
  <2>6. Builds'
    BY <1>b, <2>2, <2>4
  <2> QED
    BY <2>1, <2>3, <2>4, <2>5, <2>6 DEF Inv, SummaryConsistent, WriterDraft
<1>4. CASE WriteFails
  <2>1. /\ writer # "idle" /\ writer' = "idle" /\ slot' = NoSlot
        /\ owner' = "none" /\ UNCHANGED <<disk, draft>>
    BY <1>4 DEF WriteFails, Rollback
  <2>2. \A b \in Builders : builder[b] \notin Storing
    BY <2>1, SummaryAssumption DEF Inv, TypeOK
  <2>3. TypeOK'
    BY <1>0, <2>1, <2>2, SummaryAssumption DEF Inv, TypeOK
  <2>4. Builds'
    BY <1>b, <2>1, <2>2
  <2> QED
    BY <2>1, <2>3, <2>4 DEF Inv, SummaryConsistent, Whole, WriterDraft
<1> QED BY <1>1, <1>2, <1>3, <1>4 DEF Write

(* Every step of a builder preserves it; its commit keeps the blocks of    *)
(* the summary the build has found.                                        *)
LEMMA BuilderStep ==
  ASSUME Inv, NEW b \in Builders, Build(b)
  PROVE  Inv' /\ Rebuilt
<1> USE DEF Storing
<1>0. UNCHANGED <<slot, writer, page, reader>>
  BY DEF Build, BuildStart, LoadTxns, LoadLocks, DeleteSummary, InsertSummary,
         Insert, CommitSummary, BuildFails, writerVars, readerVars
<1>t. TypeOK
  BY DEF Inv
\* The other builders notice nothing while the blocks only grow.
<1>o. ASSUME NEW c \in Builders, c # b, builder[c] \notin Storing,
             builder'[c] = builder[c], todo'[c] = todo[c],
             report'[c] = report[c], seen'[c] = seen[c], known'[c] = known[c],
             disk'.blocks = disk.blocks
      PROVE  Building(c)' /\ BuilderDraft(c)'
  BY <1>o DEF Inv, Builds, Building, BuilderDraft
<1>i. ASSUME UNCHANGED <<disk, draft>>, builder'[b] \notin Storing, Building(b)',
             \A c \in Builders \ {b} :
               /\ builder'[c] = builder[c] /\ todo'[c] = todo[c]
               /\ report'[c] = report[c] /\ seen'[c] = seen[c]
               /\ known'[c] = known[c],
             TypeOK'
      PROVE  Inv' /\ Rebuilt
  <2>1. ASSUME NEW c \in Builders PROVE Building(c)' /\ BuilderDraft(c)'
    <3>1. CASE c = b
      BY <1>i, <3>1 DEF BuilderDraft
    <3>2. CASE c # b
      BY <1>i, <3>2 DEF Inv, Builds, Building, BuilderDraft
    <3> QED BY <3>1, <3>2
  <2>2. Builds'
    BY <2>1 DEF Builds
  <2> QED
    BY <1>0, <1>i, <2>2
    DEF Inv, SummaryConsistent, Whole, WriterDraft, Rebuilt
<1>1. CASE BuildStart(b)
  <2>1. /\ builder' = [builder EXCEPT ![b] = "load"]
        /\ todo' = [todo EXCEPT ![b] = disk.blocks]
        /\ report' = [report EXCEPT ![b] = Empty]
        /\ known' = [known EXCEPT ![b] = disk.summary.blocks]
        /\ builder[b] = "idle" /\ UNCHANGED <<disk, draft, owner, seen>>
    BY <1>1 DEF BuildStart, Step, ProducedSlots
  <2>2. /\ disk.blocks \in SUBSET Slots /\ disk.summary.blocks \in SUBSET Slots
    BY <1>t DEF TypeOK, Tables, Summaries
  <2>3. TypeOK'
    BY <1>0, <1>t, <2>1, <2>2, EmptySummary DEF TypeOK
  <2>4. /\ builder'[b] = "load" /\ todo'[b] = disk.blocks /\ report'[b] = Empty
        /\ known'[b] = disk.summary.blocks
    BY <1>t, <2>1 DEF TypeOK
  <2>5. Building(b)'
    BY <2>1, <2>4, EmptySummary DEF Inv, Whole, Building
  <2> QED BY <1>i, <1>t, <2>1, <2>3, <2>4, <2>5 DEF TypeOK
<1>2. CASE LoadTxns(b)
  <2>1. /\ builder[b] = "load" /\ builder' = [builder EXCEPT ![b] = "locks"]
        /\ todo[b] # {} /\ seen' = [seen EXCEPT ![b] = Min(todo[b]) \in disk.txns]
        /\ UNCHANGED <<disk, draft, owner, todo, report, known>>
    BY <1>2 DEF LoadTxns, Step
  <2>2. Min(todo[b]) \in todo[b]
    BY <1>t, <2>1, MinMember, SummaryAssumption DEF TypeOK
  <2>3. builder'[b] = "locks" /\ seen'[b] = (Min(todo[b]) \in disk.txns)
    BY <1>t, <2>1 DEF TypeOK
  <2>4. seen'[b]
    BY <2>1, <2>2, <2>3 DEF Inv, Builds, Building, Whole
  <2>5. TypeOK'
    BY <1>0, <1>t, <2>1 DEF TypeOK
  <2>6. Building(b)'
    BY <2>1, <2>3, <2>4 DEF Inv, Builds, Building
  <2> QED BY <1>i, <1>t, <2>1, <2>3, <2>5, <2>6 DEF TypeOK
<1>3. CASE LoadLocks(b)
  <2> DEFINE s == Min(todo[b])
             r == report[b]
  <2>1. /\ builder[b] = "locks" /\ builder' = [builder EXCEPT ![b] = "load"]
        /\ report' = [report EXCEPT ![b] = Counted(b, s)]
        /\ todo' = [todo EXCEPT ![b] = @ \ {s}]
        /\ UNCHANGED <<disk, draft, owner, seen, known>>
    BY <1>3 DEF LoadLocks, NextSlot, Step
  <2>2. s \in todo[b] /\ todo[b] \subseteq Slots
    BY <1>t, <2>1, MinMember, SummaryAssumption DEF TypeOK
  <2>3. Building(b)
    BY DEF Inv, Builds
  <2>4. r = Summary(r.blocks) /\ r.blocks \in SUBSET Slots /\ s \in Slots \ r.blocks
    BY <1>t, <2>1, <2>2, <2>3 DEF Building, TypeOK, Summaries
  <2>5. Count(b, s) = 1
    BY <2>1, <2>2, <2>3 DEF Inv, Building, Whole, Count
  <2>6. r.accounts = Once(r.blocks) /\ r.programs = Once(r.blocks)
    BY <2>4, SummaryType
  <2>7. Counted(b, s) = Summary(r.blocks \cup {s})
    BY <2>4, <2>5, <2>6, CountedOnce DEF Counted, Summary
  <2>8. /\ builder'[b] = "load" /\ todo'[b] = todo[b] \ {s}
        /\ report'[b] = Summary(r.blocks \cup {s})
    BY <1>t, <2>1, <2>7 DEF TypeOK
  <2> HIDE DEF s
  <2>9. /\ report'[b] \in Summaries /\ report'[b] = Summary(report'[b].blocks)
        /\ report'[b].blocks = r.blocks \cup {s}
    BY <2>2, <2>4, <2>8, SummaryType
  <2>10. TypeOK'
    BY <1>0, <1>t, <2>1, <2>8, <2>9 DEF TypeOK
  <2>11. Building(b)'
    BY <2>1, <2>2, <2>3, <2>8, <2>9 DEF Building
  <2> QED BY <1>i, <1>t, <2>1, <2>8, <2>10, <2>11 DEF TypeOK
<1>4. CASE DeleteSummary(b)
  <2>1. /\ builder[b] = "load" /\ builder' = [builder EXCEPT ![b] = "blocks"]
        /\ todo[b] = {} /\ owner = "none" /\ owner' = b /\ disk' = disk
        /\ draft' = [disk EXCEPT !.summary = Empty]
        /\ UNCHANGED <<todo, seen, report, known>>
    BY <1>4 DEF DeleteSummary, Step, Begin, Execute
  <2>2. /\ draft' \in Tables /\ draft'.blocks = disk.blocks
        /\ draft'.txns = disk.txns /\ draft'.locks = disk.locks
    BY <1>t, <2>1, EmptySummary DEF TypeOK, Tables
  <2>3. /\ writer = "idle" /\ builder'[b] = "blocks"
        /\ \A c \in Builders : builder[c] \notin Storing
        /\ \A c \in Builders \ {b} : builder'[c] = builder[c]
    BY <1>t, <2>1, SummaryAssumption DEF TypeOK
  <2>4. TypeOK'
    <3>1. owner' \in Builders /\ owner' # "writer"
      BY <2>1, SummaryAssumption
    <3>2. \A c \in Builders : owner' = c <=> builder'[c] \in Storing
      BY <2>1, <2>3
    <3> QED BY <1>0, <1>t, <2>1, <2>2, <2>3, <3>1, <3>2 DEF TypeOK
  <2>5. ASSUME NEW c \in Builders PROVE Building(c)' /\ BuilderDraft(c)'
    <3>1. CASE c = b
      BY <2>1, <2>2, <2>3, <3>1 DEF Inv, Builds, Building, BuilderDraft
    <3>2. CASE c # b
      BY <1>o, <2>1, <2>3, <3>2
    <3> QED BY <3>1, <3>2
  <2>6. Builds'
    BY <2>5 DEF Builds
  <2> QED
    BY <1>0, <2>1, <2>3, <2>4, <2>6
    DEF Inv, SummaryConsistent, Whole, WriterDraft, Rebuilt
<1>5. CASE InsertSummary(b)
  <2>1. PICK t \in {"blocks", "accounts", "programs"} :
          /\ builder[b] = t
          /\ builder' = [builder EXCEPT ![b] =
                           CASE t = "blocks" -> "accounts"
                             [] t = "accounts" -> "programs"
                             [] t = "programs" -> "commit"]
          /\ draft' = [draft EXCEPT !.summary = [@ EXCEPT ![t] = report[b][t]]]
          /\ UNCHANGED <<disk, owner, todo, seen, report, known>>
    BY <1>5 DEF InsertSummary, Insert, Step, Execute
  <2>2. draft \in Tables /\ draft.summary \in Summaries /\ report[b] \in Summaries
    BY <1>t DEF TypeOK, Tables
  <2>3. draft'.summary = [draft.summary EXCEPT ![t] = report[b][t]]
    BY <2>1, <2>2 DEF Tables
  <2>4. /\ draft' \in Tables /\ draft'.blocks = draft.blocks
        /\ draft'.txns = draft.txns /\ draft'.locks = draft.locks
    BY <2>1, <2>2 DEF Tables, Summaries
  <2>5. /\ owner = b /\ writer = "idle" /\ builder'[b] \in Storing
        /\ builder'[b] = CASE t = "blocks" -> "accounts"
                           [] t = "accounts" -> "programs"
                           [] t = "programs" -> "commit"
        /\ \A c \in Builders \ {b} : /\ builder[c] \notin Storing
                                     /\ builder'[c] = builder[c]
    BY <1>t, <2>1, SummaryAssumption DEF TypeOK
  <2>6. TypeOK'
    BY <1>0, <1>t, <2>1, <2>4, <2>5 DEF TypeOK
  <2>7. Building(b)' /\ BuilderDraft(b)'
    BY <2>1, <2>2, <2>3, <2>4, <2>5
    DEF Inv, Builds, Building, BuilderDraft, Summaries
  <2>8. ASSUME NEW c \in Builders PROVE Building(c)' /\ BuilderDraft(c)'
    BY <1>o, <2>1, <2>5, <2>7
  <2>9. Builds'
    BY <2>8 DEF Builds
  <2> QED
    BY <1>0, <2>1, <2>5, <2>6, <2>9
    DEF Inv, SummaryConsistent, Whole, WriterDraft, Rebuilt
<1>6. CASE CommitSummary(b)
  <2>1. /\ builder[b] = "commit" /\ builder' = [builder EXCEPT ![b] = "idle"]
        /\ disk' = draft /\ owner' = "none"
        /\ UNCHANGED <<draft, todo, seen, report, known>>
    BY <1>6 DEF CommitSummary, Step, Commit
  <2>2. Building(b) /\ BuilderDraft(b)
    BY DEF Inv, Builds
  <2>3. /\ owner = b /\ writer = "idle" /\ builder'[b] = "idle"
        /\ \A c \in Builders \ {b} : /\ builder[c] \notin Storing
                                     /\ builder'[c] = builder[c]
    BY <1>t, <2>1, SummaryAssumption DEF TypeOK
  <2>4. draft.summary \in Summaries /\ report[b] \in Summaries
    BY <1>t DEF TypeOK, Tables
  <2>5. disk'.summary = report[b] /\ disk'.blocks = disk.blocks
    BY <2>1, <2>2, <2>4, SameSummary DEF BuilderDraft
  <2>6. TypeOK'
    BY <1>0, <1>t, <2>1, <2>3, SummaryAssumption DEF TypeOK
  <2>7. Whole'
    BY <2>1, <2>2, <2>5 DEF Inv, Whole, Building, BuilderDraft
  <2>8. SummaryConsistent'
    BY <2>1, <2>2, <2>5 DEF Building, SummaryConsistent
  <2>9. Rebuilt
    BY <2>1, <2>2, <2>3, <2>5 DEF Building, BuilderDraft, Rebuilt
  <2>10. ASSUME NEW c \in Builders PROVE Building(c)' /\ BuilderDraft(c)'
    <3>1. CASE c = b
      BY <2>3, <3>1 DEF Building, BuilderDraft
    <3>2. CASE c # b
      BY <1>o, <2>1, <2>3, <2>5, <3>2
    <3> QED BY <3>1, <3>2
  <2>11. Builds'
    BY <2>10 DEF Builds
  <2> QED
    BY <1>0, <2>3, <2>6, <2>7, <2>8, <2>9, <2>11 DEF Inv, WriterDraft
<1>7. CASE BuildFails(b)
  <2>1. /\ builder[b] # "idle" /\ builder' = [builder EXCEPT ![b] = "idle"]
        /\ UNCHANGED <<disk, draft, todo, seen, report, known>>
        /\ owner' = IF builder[b] \in Storing THEN "none" ELSE owner
    BY <1>7 DEF BuildFails, Step, Rollback
  <2>2. /\ builder'[b] = "idle"
        /\ \A c \in Builders \ {b} : builder'[c] = builder[c]
    BY <1>t, <2>1 DEF TypeOK
  <2>3. TypeOK'
    <3>1. CASE builder[b] \in Storing
      <4>1. /\ owner = b /\ owner' = "none" /\ writer = "idle"
            /\ \A c \in Builders : builder'[c] \notin Storing
        BY <1>t, <2>1, <2>2, <3>1, SummaryAssumption DEF TypeOK
      <4> QED BY <1>0, <1>t, <2>1, <2>2, <4>1, SummaryAssumption DEF TypeOK
    <3>2. CASE builder[b] \notin Storing
      <4>1. owner' = owner /\ owner # b
        BY <1>t, <2>1, <3>2 DEF TypeOK
      <4> QED BY <1>0, <1>t, <2>1, <2>2, <4>1 DEF TypeOK
    <3> QED BY <3>1, <3>2
  <2>4. Building(b)'
    BY <2>2 DEF Building
  <2> QED BY <1>i, <2>1, <2>2, <2>3, <2>4
<1> QED BY <1>1, <1>2, <1>3, <1>4, <1>5, <1>6, <1>7 DEF Build

(* A reader changes nothing but its own page.                              *)
LEMMA ReaderStep == Inv /\ GetContention => Inv' /\ disk' = disk
<1> SUFFICES ASSUME Inv, GetContention PROVE Inv' /\ disk' = disk
  OBVIOUS
<1>1. /\ UNCHANGED <<disk, draft, owner, slot, writer>>
      /\ UNCHANGED <<todo, seen, report, builder, known>>
      /\ reader' \in {"blocks", "accounts", "programs", "done"}
  BY DEF GetContention, Select, Respond, writerVars, builderVars
<1>2. page' \in Summaries
  <2>1. page \in Summaries /\ disk.summary \in Summaries /\ Empty \in Summaries
    BY EmptySummary DEF Inv, TypeOK, Tables
  <2>2. \/ page' = Empty
        \/ \E t \in {"blocks", "accounts", "programs"} :
             page' = [page EXCEPT ![t] = disk.summary[t]]
    BY DEF GetContention, Select, Respond
  <2> QED BY <2>1, <2>2 DEF Summaries
<1>3. TypeOK'
  BY <1>1, <1>2 DEF Inv, TypeOK
<1>4. Builds'
  BY <1>1 DEF Inv, Builds, Building, BuilderDraft
<1> QED
  BY <1>1, <1>3, <1>4 DEF Inv, SummaryConsistent, Whole, WriterDraft

LEMMA SummaryStep == Inv /\ [Next]_vars => Inv' /\ Rebuilt
<1> SUFFICES ASSUME Inv, [Next]_vars PROVE Inv' /\ Rebuilt
  OBVIOUS
<1>1. CASE UNCHANGED vars
  <2>1. /\ UNCHANGED <<disk, draft, owner, slot, writer, page, reader>>
        /\ UNCHANGED <<todo, seen, report, builder, known>>
    BY <1>1 DEF vars, writerVars, builderVars, readerVars
  <2>2. TypeOK'
    BY <2>1 DEF Inv, TypeOK
  <2>3. Builds'
    BY <2>1 DEF Inv, Builds, Building, BuilderDraft
  <2> QED
    BY <2>1, <2>2, <2>3 DEF Inv, SummaryConsistent, Whole, WriterDraft, Rebuilt
<1>2. CASE Write
  BY <1>2, WriterStep DEF Rebuilt
<1>3. ASSUME NEW b \in Builders, Build(b) PROVE Inv' /\ Rebuilt
  BY <1>3, BuilderStep
<1>4. CASE GetContention
  BY <1>4, ReaderStep DEF Rebuilt
<1> QED BY <1>1, <1>2, <1>3, <1>4 DEF Next

LEMMA InvAlways == Spec => []Inv
<1>1. Init => Inv
  BY SummaryInit
<1>2. Inv /\ [Next]_vars => Inv'
  BY SummaryStep
<1> QED BY <1>1, <1>2, PTL DEF Spec

(* Every variable has its type, no slot is counted twice, and at most one  *)
(* transaction is open, for every set of slots and of builders.            *)
THEOREM SummaryTyped == Spec => []TypeOK
<1>1. Inv => TypeOK
  BY DEF Inv
<1> QED BY <1>1, InvAlways, PTL

(* The three tables hold one report of whole blocks at any time, whatever  *)
(* is committed, rolled back or killed meanwhile.                          *)
THEOREM SummaryIsOneReport == Spec => []SummaryConsistent
<1>1. Inv => SummaryConsistent
  BY DEF Inv
<1> QED BY <1>1, InvAlways, PTL

(* A rebuild keeps every block of the summary it found when it began, and  *)
(* nothing else changes the summary, for any number of builds at a time.   *)
THEOREM SummaryNeverShrinks == Spec => SummaryGrows
<1>1. Inv /\ [Next]_vars =>
        [disk'.summary # disk.summary =>
           \E b \in Builders : /\ owner = b
                               /\ known[b] \subseteq disk'.summary.blocks]_disk
  BY SummaryStep DEF Rebuilt
<1> QED BY <1>1, InvAlways, PTL DEF Spec, SummaryGrows
=============================================================================
