------------------------- MODULE LockScheduleProofs -------------------------
(* Theorems about LockSchedule, for every block over every account set.    *)
EXTENDS LockSchedule, TLAPS

(* The two hash sets of a step are the locks of its members.               *)
SetsExact ==
  \A k \in DOMAIN steps, a \in Accounts :
    /\ a \in steps[k].written <=> \E j \in steps[k].members : a \in txns[j].writes
    /\ a \in steps[k].touched <=> \E j \in steps[k].members : a \in Locks(txns[j])

Inv == TypeOK /\ SetsExact /\ ConflictFree /\ FirstFit /\ AttributionExact

LEMMA StepsAreSequence ==
  ASSUME TypeOK
  PROVE  /\ Len(steps) \in Nat /\ DOMAIN steps = 1 .. Len(steps)
         /\ Len(txns) \in Nat /\ DOMAIN txns = 1 .. Len(txns)
         /\ \A i \in 1 .. Len(txns) : txns[i] \in Txn
         /\ cur \in Nat /\ probe \in Nat
         /\ \A k \in DOMAIN steps : steps[k].members \subseteq 1 .. cur - 1
<1>1. PICK n \in 0 .. MaxTxns : txns \in [1 .. n -> Txn]
  BY DEF TypeOK, Blocks
<1>2. Len(txns) = n /\ n \in Nat
  BY <1>1, ScheduleAssumption
<1>3. \A k \in DOMAIN steps : steps[k].members \subseteq 1 .. cur - 1
  <2> DEFINE Step == [written : SUBSET Accounts, touched : SUBSET Accounts,
                      members : SUBSET (1 .. cur - 1)]
  <2>1. \A k \in DOMAIN steps : steps[k] \in Step
    <3>1. steps \in Seq(Step)
      BY DEF TypeOK
    <3> HIDE DEF Step
    <3> QED BY <3>1
  <2> QED BY <2>1
<1> QED BY <1>1, <1>2, <1>3 DEF TypeOK

LEMMA ScheduleInit == Init => Inv
<1> SUFFICES ASSUME Init PROVE Inv
  OBVIOUS
<1>1. PICK n \in 0 .. MaxTxns : txns \in [1 .. n -> Txn]
  BY DEF Init, Blocks
<1>2. Len(txns) = n /\ n \in Nat
  BY <1>1, ScheduleAssumption
<1>3. TypeOK
  BY <1>2 DEF Init, TypeOK
<1>4. SetsExact /\ ConflictFree /\ FirstFit
  BY DEF Init, SetsExact, ConflictFree, FirstFit
<1>5. AttributionExact
  BY DEF Init, AttributionExact
<1> QED BY <1>3, <1>4, <1>5 DEF Inv

(* The sets give the pairwise answer.                                      *)
LEMMA ConflictsArePairwise ==
  ASSUME TypeOK, SetsExact, NEW k \in DOMAIN steps, cur \in 1 .. Len(txns)
  PROVE  ConflictingLocks(steps[k], txns[cur])
           = {a \in Accounts : \E j \in steps[k].members : a \in ConflictOn(cur, j)}
<1>1. \A i \in steps[k].members \cup {cur} :
        /\ txns[i].writes \subseteq Accounts /\ txns[i].reads \subseteq Accounts
  <2>1. \A i \in 1 .. Len(txns) : txns[i].writes \subseteq Accounts /\ txns[i].reads \subseteq Accounts
    BY StepsAreSequence DEF Txn
  <2>2. \A i \in steps[k].members \cup {cur} : i \in 1 .. Len(txns)
    BY StepsAreSequence
  <2> QED BY <2>1, <2>2
<1>2. \A a \in Accounts : a \in steps[k].written <=> \E j \in steps[k].members : a \in txns[j].writes
  BY DEF SetsExact
<1>3. \A a \in Accounts : a \in steps[k].touched <=> \E j \in steps[k].members : a \in Locks(txns[j])
  BY DEF SetsExact
<1> QED BY <1>1, <1>2, <1>3 DEF ConflictingLocks, ConflictOn, Locks

(* The first step that fits, or a new one, takes the transaction: what is  *)
(* common to Place and Open.                                               *)
LEMMA Placed ==
  ASSUME Inv, cur \in 1 .. Len(txns), UNCHANGED <<txns, conflicts>>, NextTxn,
         NEW p \in 1 .. Len(steps) + 1, p = probe,
         \A j \in 1 .. cur - 1 : p <= Len(steps) /\ j \in steps[p].members
                                 => ConflictOn(cur, j) = {},
         DOMAIN steps' = DOMAIN steps \cup {p},
         \A k \in DOMAIN steps : k # p => steps'[k] = steps[k],
         steps'[p].members = (IF p \in DOMAIN steps THEN steps[p].members ELSE {}) \cup {cur}
  PROVE  ConflictFree' /\ FirstFit' /\ AttributionExact'
<1> USE StepsAreSequence DEF Inv
<1>0. /\ TypeOK /\ DOMAIN steps = 1 .. Len(steps) /\ Len(steps) \in Nat
      /\ \A k \in DOMAIN steps : steps[k].members \subseteq 1 .. cur - 1
      /\ cur' = cur + 1 /\ probe' = 1 /\ cur \in Nat
  BY DEF NextTxn
<1>1. /\ \A k \in DOMAIN steps : steps[k].members \subseteq 1 .. cur - 1
      /\ \A k \in DOMAIN steps : steps'[k].members
           = IF k = p THEN steps[k].members \cup {cur} ELSE steps[k].members
      /\ p \notin DOMAIN steps => steps'[p].members = {cur} /\ p = Len(steps) + 1
      /\ cur' = cur + 1 /\ probe' = 1 /\ cur \in Nat
      /\ p \in DOMAIN steps'
  <2>1. p \in DOMAIN steps' /\ (p \notin DOMAIN steps => p = Len(steps) + 1)
    BY <1>0
  <2>2. p \notin DOMAIN steps => steps'[p].members = {cur}
    OBVIOUS
  <2>3. ASSUME NEW k \in DOMAIN steps
        PROVE  steps'[k].members
                 = IF k = p THEN steps[k].members \cup {cur} ELSE steps[k].members
    OBVIOUS
  <2> QED BY <1>0, <2>1, <2>2, <2>3
<1>2. \A i, j : ConflictOn(i, j)' = ConflictOn(i, j) /\ ConflictOn(i, j) = ConflictOn(j, i)
  BY DEF ConflictOn, Locks
<1>3. ConflictFree'
  <2>1. \A i \in 1 .. cur' - 1 : \E k \in DOMAIN steps' : i \in steps'[k].members
    <3> SUFFICES ASSUME NEW i \in 1 .. cur PROVE \E k \in DOMAIN steps' : i \in steps'[k].members
      BY <1>1
    <3>1. CASE i = cur
      BY <1>1, <3>1
    <3>2. CASE i # cur
      <4>1. PICK k \in DOMAIN steps : i \in steps[k].members
        BY <1>1, <3>2 DEF ConflictFree
      <4> QED BY <1>1, <4>1
    <3> QED BY <3>1, <3>2
  <2>2. ASSUME NEW k \in DOMAIN steps', NEW l \in DOMAIN steps', k # l
        PROVE  steps'[k].members \cap steps'[l].members = {}
    <3>1. \A m \in DOMAIN steps' : m # p => /\ m \in DOMAIN steps
                                           /\ steps'[m].members = steps[m].members
                                           /\ cur \notin steps'[m].members
      BY <1>0
    <3>2. ASSUME NEW m \in DOMAIN steps', m # p
          PROVE  steps'[p].members \cap steps'[m].members = {}
      <4>1. m \in DOMAIN steps /\ steps'[m].members = steps[m].members
            /\ cur \notin steps'[m].members
        BY <3>1, <3>2
      <4>2. CASE p \in DOMAIN steps
        <5>1. steps[p].members \cap steps[m].members = {}
          BY <3>2, <4>1, <4>2 DEF ConflictFree
        <5> QED BY <4>1, <4>2, <5>1
      <4>3. CASE p \notin DOMAIN steps
        BY <4>1, <4>3
      <4> QED BY <4>2, <4>3
    <3>3. CASE k # p /\ l # p
      <4>1. steps[k].members \cap steps[l].members = {}
        BY <2>2, <3>1, <3>3 DEF ConflictFree
      <4> QED BY <3>1, <3>3, <4>1
    <3>4. CASE k = p
      BY <2>2, <3>2, <3>4
    <3>5. CASE l = p
      BY <2>2, <3>2, <3>5
    <3> QED BY <3>3, <3>4, <3>5
  <2>3. ASSUME NEW k \in DOMAIN steps', NEW i \in steps'[k].members,
               NEW j \in steps'[k].members, i # j
        PROVE  ConflictOn(i, j) = {}
    BY <1>1, <1>2, <2>3 DEF ConflictFree
  <2> QED BY <1>2, <2>1, <2>2, <2>3 DEF ConflictFree
<1>4. \A i : \A l \in DOMAIN steps : Blocked(i, l) => Blocked(i, l)'
  BY <1>1, <1>2 DEF Blocked
<1>5. FirstFit'
  <2>1. ASSUME NEW k \in DOMAIN steps', NEW i \in steps'[k].members, NEW l \in 1 .. k - 1
        PROVE  Blocked(i, l)'
    <3>1. l \in DOMAIN steps /\ l \in 1 .. Len(steps)
      BY <1>1
    <3>2. CASE i = cur
      <4>1. k = p /\ l \in 1 .. probe - 1
        BY <1>1, <3>2
      <4> QED BY <1>4, <3>1, <3>2, <4>1 DEF FirstFit
    <3>3. CASE i # cur
      <4>1. k \in DOMAIN steps /\ i \in steps[k].members
        BY <1>1, <3>3
      <4> QED BY <1>4, <3>1, <4>1 DEF FirstFit
    <3> QED BY <3>2, <3>3
  <2> QED BY <1>1, <2>1 DEF FirstFit
<1>6. AttributionExact'
  <2> SUFFICES ASSUME NEW i \in 1 .. cur + 1, NEW l \in DOMAIN steps', NEW a \in Accounts
               PROVE  <<i, l, a>> \in conflicts
                        <=> /\ Passed(i, l)'
                            /\ \E j \in steps'[l].members : j < i /\ a \in ConflictOn(i, j)
    BY <1>1, <1>2 DEF AttributionExact
  <2>1. CASE i = cur + 1 \/ l \notin DOMAIN steps
    <3>1. <<i, l, a>> \notin conflicts
      BY <2>1 DEF TypeOK
    <3>2. ~Passed(i, l)'
      BY <1>1, <2>1 DEF Passed
    <3> QED BY <3>1, <3>2
  <2>2. CASE i \in 1 .. cur /\ l \in DOMAIN steps
    <3>1. Passed(i, l)' <=> Passed(i, l)
      <4>1. CASE i = cur
        BY <1>1, <2>2, <4>1 DEF Passed
      <4>2. CASE i # cur
        BY <1>1, <2>2, <4>2 DEF Passed
      <4> QED BY <4>1, <4>2
    <3>2. (\E j \in steps'[l].members : j < i /\ a \in ConflictOn(i, j))
            <=> \E j \in steps[l].members : j < i /\ a \in ConflictOn(i, j)
      BY <1>1, <2>2
    <3> QED BY <2>2, <3>1, <3>2 DEF AttributionExact
  <2> QED BY <1>1, <2>1, <2>2
<1> QED BY <1>3, <1>5, <1>6

LEMMA AddedStep ==
  ASSUME TypeOK, cur \in 1 .. Len(txns),
         NEW st \in [written : SUBSET Accounts, touched : SUBSET Accounts,
                     members : SUBSET (1 .. cur)]
  PROVE  Add(st, cur) \in [written : SUBSET Accounts, touched : SUBSET Accounts,
                           members : SUBSET (1 .. cur)]
<1>1. txns[cur] \in Txn /\ cur \in Nat
  BY StepsAreSequence
<1>2. txns[cur].writes \subseteq Accounts /\ Locks(txns[cur]) \subseteq Accounts
  BY <1>1 DEF Txn, Locks
<1> QED BY <1>1, <1>2 DEF Add

LEMMA StepsWiden ==
  ASSUME TypeOK
  PROVE  steps \in Seq([written : SUBSET Accounts, touched : SUBSET Accounts,
                        members : SUBSET (1 .. cur)])
<1> DEFINE Old == [written : SUBSET Accounts, touched : SUBSET Accounts,
                   members : SUBSET (1 .. cur - 1)]
           New == [written : SUBSET Accounts, touched : SUBSET Accounts,
                   members : SUBSET (1 .. cur)]
<1>1. 1 .. cur - 1 \subseteq 1 .. cur
  BY StepsAreSequence
<1>2. Old \subseteq New
  BY <1>1
<1>3. steps \in Seq(Old)
  BY DEF TypeOK
<1> HIDE DEF Old, New
<1>4. steps \in Seq(New)
  BY <1>2, <1>3
<1> QED BY <1>4 DEF New

LEMMA RejectStep == Inv /\ Reject => Inv'
<1> SUFFICES ASSUME Inv, Reject PROVE Inv'
  OBVIOUS
<1> USE StepsAreSequence DEF Inv
<1>1. /\ cur \in 1 .. Len(txns) /\ probe \in DOMAIN steps /\ probe \in Nat
      /\ UNCHANGED <<txns, cur, steps>> /\ probe' = probe + 1
      /\ conflicts' = conflicts \cup {<<cur, probe, a>> : a \in Conflicting}
  BY DEF Reject, TypeOK
<1>2. Conflicting = {a \in Accounts : \E j \in steps[probe].members : a \in ConflictOn(cur, j)}
  BY <1>1, ConflictsArePairwise DEF Conflicting
<1>3. TypeOK'
  BY <1>1, <1>2 DEF TypeOK
<1>4. SetsExact' /\ ConflictFree'
  <2>1. SetsExact'
    BY <1>1 DEF SetsExact, Locks
  <2>2. ConflictFree'
    BY <1>1 DEF ConflictFree, ConflictOn, Locks
  <2> QED BY <2>1, <2>2
<1>5. FirstFit'
  <2>1. Blocked(cur, probe)
    <3>1. PICK a \in Conflicting : TRUE
      BY DEF Reject
    <3>2. PICK j \in steps[probe].members : a \in ConflictOn(cur, j)
      BY <1>2, <3>1
    <3>3. j < cur
      BY <1>1
    <3> QED BY <3>2, <3>3 DEF Blocked
  <2>2. \A l \in 1 .. probe' - 1 : l \in 1 .. probe - 1 \/ l = probe
    BY <1>1
  <2>3. \A i, l : Blocked(i, l)' = Blocked(i, l)
    BY <1>1 DEF Blocked, ConflictOn, Locks
  <2> QED BY <1>1, <2>1, <2>2, <2>3 DEF FirstFit
<1>6. AttributionExact'
  <2>0. /\ cur' = cur /\ steps' = steps
        /\ \A i, j : ConflictOn(i, j)' = ConflictOn(i, j)
    BY <1>1 DEF ConflictOn, Locks
  <2> SUFFICES ASSUME NEW i \in 1 .. cur, NEW l \in DOMAIN steps, NEW a \in Accounts
               PROVE  <<i, l, a>> \in conflicts'
                        <=> /\ Passed(i, l)'
                            /\ \E j \in steps[l].members : j < i /\ a \in ConflictOn(i, j)
    BY <2>0 DEF AttributionExact
  <2>1. CASE i = cur /\ l = probe
    <3>1. Passed(i, l)'
      BY <1>1, <2>1 DEF Passed
    <3>2. \A j \in steps[l].members : j < i
      BY <1>1, <2>1
    <3>3. ~Passed(i, l)
      BY <1>1, <2>1 DEF Passed
    <3>4. <<i, l, a>> \notin conflicts
      BY <3>3 DEF AttributionExact
    <3> QED BY <1>1, <1>2, <2>1, <3>1, <3>2, <3>4
  <2>2. CASE ~(i = cur /\ l = probe)
    <3>1. Passed(i, l)' <=> Passed(i, l)
      BY <1>1, <2>2 DEF Passed
    <3>2. <<i, l, a>> \in conflicts' <=> <<i, l, a>> \in conflicts
      BY <1>1, <2>2
    <3> QED BY <3>1, <3>2 DEF AttributionExact
  <2> QED BY <2>1, <2>2
<1> QED BY <1>3, <1>4, <1>5, <1>6

LEMMA PlaceStep == Inv /\ Place => Inv'
<1> SUFFICES ASSUME Inv, Place PROVE Inv'
  OBVIOUS
<1> USE StepsAreSequence DEF Inv
<1> DEFINE New == [written : SUBSET Accounts, touched : SUBSET Accounts,
                   members : SUBSET (1 .. cur)]
           st == Add(steps[probe], cur)
<1>1. /\ cur \in 1 .. Len(txns) /\ probe \in DOMAIN steps /\ probe \in 1 .. Len(steps)
      /\ UNCHANGED <<txns, conflicts>> /\ NextTxn
      /\ steps' = [steps EXCEPT ![probe] = st]
  BY DEF Place, TypeOK
<1>2. steps \in Seq(New) /\ steps[probe] \in New
  <2>1. steps \in Seq(New)
    BY StepsWiden
  <2> HIDE DEF New
  <2> QED BY <1>1, <2>1
<1>3. st \in New
  BY <1>1, <1>2, AddedStep
<1>4. /\ DOMAIN steps' = DOMAIN steps /\ Len(steps') = Len(steps)
      /\ steps'[probe] = st
      /\ \A k \in DOMAIN steps : k # probe => steps'[k] = steps[k]
      /\ steps' \in Seq(New)
  <2> HIDE DEF st, New
  <2> QED BY <1>1, <1>2, <1>3
<1>5. /\ st.members = steps[probe].members \cup {cur}
      /\ st.written = steps[probe].written \cup txns[cur].writes
      /\ st.touched = steps[probe].touched \cup Locks(txns[cur])
  BY DEF Add
<1>6. TypeOK'
  <2>1. cur' \in 1 .. Len(txns) + 1 /\ probe' \in 1 .. Len(steps') + 1 /\ cur' - 1 = cur
    <3>1. /\ cur \in 1 .. Len(txns) /\ cur' = cur + 1 /\ probe' = 1
          /\ Len(txns) \in Nat /\ Len(steps') \in Nat
      BY <1>1, <1>4 DEF NextTxn
    <3> QED BY <3>1
  <2>2. conflicts' \subseteq (1 .. cur') \X (1 .. Len(steps')) \X Accounts
    BY <1>1, <1>4 DEF TypeOK, NextTxn
  <2> QED BY <1>1, <1>4, <2>1, <2>2 DEF TypeOK
<1>7. SetsExact'
  <2> SUFFICES ASSUME NEW k \in DOMAIN steps, NEW a \in Accounts
               PROVE  /\ a \in steps'[k].written
                           <=> \E j \in steps'[k].members : a \in txns[j].writes
                      /\ a \in steps'[k].touched
                           <=> \E j \in steps'[k].members : a \in Locks(txns[j])
    BY <1>1, <1>4 DEF SetsExact, Locks
  <2>1. CASE k = probe
    <3> HIDE DEF st
    <3> QED BY <1>4, <1>5, <2>1 DEF SetsExact
  <2>2. CASE k # probe
    BY <1>4, <2>2 DEF SetsExact
  <2> QED BY <2>1, <2>2
<1>8. ConflictFree' /\ FirstFit' /\ AttributionExact'
  <2>1. \A a \in Accounts : \A j \in steps[probe].members : a \notin ConflictOn(cur, j)
    BY <1>1, ConflictsArePairwise DEF Place, Conflicting
  <2>2. \A j : ConflictOn(cur, j) \subseteq Accounts
    BY <1>1 DEF ConflictOn, Locks, Txn
  <2>3. \A j \in steps[probe].members : ConflictOn(cur, j) = {}
    BY <2>1, <2>2
  <2>4. steps'[probe].members
          = (IF probe \in DOMAIN steps THEN steps[probe].members ELSE {}) \cup {cur}
    BY <1>1, <1>4, <1>5
  <2>5. probe \in 1 .. Len(steps) + 1 /\ DOMAIN steps' = DOMAIN steps \cup {probe}
    BY <1>1, <1>4
  <2> QED BY <1>1, <1>4, <2>3, <2>4, <2>5, Placed
<1> QED BY <1>6, <1>7, <1>8

LEMMA OpenStep == Inv /\ Open => Inv'
<1> SUFFICES ASSUME Inv, Open PROVE Inv'
  OBVIOUS
<1> USE StepsAreSequence DEF Inv
<1> DEFINE New == [written : SUBSET Accounts, touched : SUBSET Accounts,
                   members : SUBSET (1 .. cur)]
           st == Add(EmptyStep, cur)
<1>1. /\ cur \in 1 .. Len(txns) /\ probe = Len(steps) + 1 /\ probe \notin DOMAIN steps
      /\ UNCHANGED <<txns, conflicts>> /\ NextTxn
      /\ steps' = Append(steps, st)
  BY DEF Open, TypeOK
<1>2. steps \in Seq(New)
  BY StepsWiden
<1>3. st \in New
  <2>1. EmptyStep \in New
    BY DEF EmptyStep
  <2> QED BY <1>1, <2>1, AddedStep
<1>4. /\ DOMAIN steps' = DOMAIN steps \cup {probe} /\ Len(steps') = Len(steps) + 1
      /\ steps'[probe] = st
      /\ \A k \in DOMAIN steps : k # probe => steps'[k] = steps[k]
      /\ steps' \in Seq(New)
  <2> HIDE DEF st, New
  <2> QED BY <1>1, <1>2, <1>3
<1>5. /\ st.members = {cur} /\ st.written = txns[cur].writes
      /\ st.touched = Locks(txns[cur])
  BY DEF Add, EmptyStep
<1>6. TypeOK'
  <2>1. cur' \in 1 .. Len(txns) + 1 /\ probe' \in 1 .. Len(steps') + 1 /\ cur' - 1 = cur
    <3>1. /\ cur \in 1 .. Len(txns) /\ cur' = cur + 1 /\ probe' = 1
          /\ Len(txns) \in Nat /\ Len(steps') \in Nat
      BY <1>1, <1>4 DEF NextTxn
    <3> QED BY <3>1
  <2>2. conflicts' \subseteq (1 .. cur') \X (1 .. Len(steps')) \X Accounts
    BY <1>1, <1>4 DEF TypeOK, NextTxn
  <2> QED BY <1>1, <1>4, <2>1, <2>2 DEF TypeOK
<1>7. SetsExact'
  <2> SUFFICES ASSUME NEW k \in DOMAIN steps \cup {probe}, NEW a \in Accounts
               PROVE  /\ a \in steps'[k].written
                           <=> \E j \in steps'[k].members : a \in txns[j].writes
                      /\ a \in steps'[k].touched
                           <=> \E j \in steps'[k].members : a \in Locks(txns[j])
    BY <1>1, <1>4 DEF SetsExact, Locks
  <2>1. CASE k = probe
    <3> HIDE DEF st
    <3> QED BY <1>4, <1>5, <2>1
  <2>2. CASE k # probe
    BY <1>4, <2>2 DEF SetsExact
  <2> QED BY <2>1, <2>2
<1>8. ConflictFree' /\ FirstFit' /\ AttributionExact'
  <2>1. steps'[probe].members
          = (IF probe \in DOMAIN steps THEN steps[probe].members ELSE {}) \cup {cur}
    BY <1>1, <1>4, <1>5
  <2>2. probe \in 1 .. Len(steps) + 1 /\ ~(probe <= Len(steps))
    BY <1>1
  <2> QED BY <1>1, <1>4, <2>1, <2>2, Placed
<1> QED BY <1>6, <1>7, <1>8

LEMMA InvAlways == Spec => []Inv
<1>1. ASSUME Inv, UNCHANGED vars PROVE Inv'
  <2>1. TypeOK'
    BY <1>1 DEF vars, Inv, TypeOK
  <2>2. SetsExact'
    BY <1>1 DEF vars, Inv, SetsExact, Locks
  <2>3. ConflictFree'
    BY <1>1 DEF vars, Inv, ConflictFree, ConflictOn, Locks
  <2>4. FirstFit'
    BY <1>1 DEF vars, Inv, FirstFit, Blocked, ConflictOn, Locks
  <2>5. AttributionExact'
    <3>1. /\ \A i, l : Passed(i, l)' <=> Passed(i, l)
          /\ \A i, j : ConflictOn(i, j)' = ConflictOn(i, j)
      BY <1>1 DEF vars, Passed, ConflictOn, Locks
    <3> QED BY <1>1, <3>1 DEF vars, Inv, AttributionExact
  <2> QED BY <2>1, <2>2, <2>3, <2>4, <2>5 DEF Inv
<1>2. Inv /\ [Next]_vars => Inv'
  BY <1>1, RejectStep, PlaceStep, OpenStep DEF Next, Done
<1> QED BY <1>2, ScheduleInit, PTL DEF Spec

(* Every step holds only transactions that were reached, and its lock sets *)
(* only accounts of the block.                                             *)
THEOREM ScheduleTyped == Spec => []TypeOK
BY InvAlways, PTL DEF Inv

(* No two transactions of a step conflict, and none is lost or placed twice.*)
THEOREM StepsConflictFree == Spec => []ConflictFree
BY InvAlways, PTL DEF Inv

(* Every transaction is in the earliest step it can be in.                 *)
THEOREM PlacementIsFirstFit == Spec => []FirstFit
BY InvAlways, PTL DEF Inv

(* The conflicts counted are the pairwise conflicts behind the rejections. *)
THEOREM AttributionIsExact == Spec => []AttributionExact
BY InvAlways, PTL DEF Inv
=============================================================================
