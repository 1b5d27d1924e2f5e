------------------------- MODULE ContentionSummary --------------------------
(***************************************************************************)
(* The contention summary while ingestion goes on: the writer commits      *)
(* blocks (write_block), runs of build_contention_summary read them one by *)
(* one and replace the three summary tables (build_range_report,           *)
(* store_range_report), and GET /api/contention reads the tables.          *)
(*                                                                         *)
(* A summary is the slots it has a row for and, for each kind of conflict  *)
(* count, how often the events of each slot went into it: what a count     *)
(* adds up to is a function of that.                                       *)
(***************************************************************************)
EXTENDS Sqlite, Integers, FiniteSetsExt

CONSTANTS Slots,     \* produced slots ingestion may write, in any order
          NoSlot,
          Builders   \* processes of build_contention_summary

ASSUME SummaryAssumption ==
  /\ Slots \subseteq Nat /\ NoSlot \notin Slots
  /\ Builders \cap {"none", "writer"} = {}

VARIABLES slot, writer,           \* write_block: the block, the next statement
          todo, seen, report, builder,  \* build_contention_summary, each run
          known,         \* history: the blocks of the summary when it began
          page, reader            \* get_contention: the response

writerVars  == <<slot, writer>>
builderVars == <<todo, seen, report, builder, known>>
readerVars  == <<page, reader>>
vars == <<disk, draft, owner, writerVars, builderVars, readerVars>>

Once(S) == [s \in Slots |-> IF s \in S THEN 1 ELSE 0]
Summary(S) == [blocks |-> S, accounts |-> Once(S), programs |-> Once(S)]
Empty == Summary({})

(* disk.txns and disk.locks: the slots whose rows of transactions and of   *)
(* account_locks are there.                                                *)
Init == /\ disk = [blocks |-> {}, txns |-> {}, locks |-> {}, summary |-> Empty]
        /\ draft = disk /\ owner = "none"
        /\ slot = NoSlot /\ writer = "idle"
        /\ todo = [b \in Builders |-> {}] /\ seen = [b \in Builders |-> FALSE]
        /\ report = [b \in Builders |-> Empty]
        /\ builder = [b \in Builders |-> "idle"]
        /\ known = [b \in Builders |-> {}]
        /\ page = Empty /\ reader = "blocks"

-----------------------------------------------------------------------------
(* write_block; a slot may be written again by a later run.                *)
InsertBlock(s) == /\ writer = "idle"
                  /\ Begin("writer", [disk EXCEPT !.blocks = @ \cup {s}])
                  /\ slot' = s /\ writer' = "txns"
                  /\ UNCHANGED <<builderVars, readerVars>>

InsertTxns == /\ writer = "txns" /\ writer' = "locks"
              /\ Execute([draft EXCEPT !.txns = @ \cup {slot}])
              /\ UNCHANGED <<owner, slot, builderVars, readerVars>>

InsertLocks == /\ writer = "locks" /\ writer' = "commit"
               /\ Execute([draft EXCEPT !.locks = @ \cup {slot}])
               /\ UNCHANGED <<owner, slot, builderVars, readerVars>>

CommitBlock == /\ writer = "commit" /\ writer' = "idle" /\ slot' = NoSlot
               /\ Commit
               /\ UNCHANGED <<builderVars, readerVars>>

(* A statement fails, or ingestion is killed.                              *)
WriteFails == /\ writer # "idle" /\ writer' = "idle" /\ slot' = NoSlot
              /\ Rollback
              /\ UNCHANGED <<builderVars, readerVars>>

-----------------------------------------------------------------------------
(* SELECT slot FROM blocks WHERE skipped = 0                               *)
(* mutant: the experiment's build_range_report_limited(Some(1))            *)
LimitedSlots == IF disk.blocks = {} THEN {} ELSE {Min(disk.blocks)}
ProducedSlots == disk.blocks

Step(b, from, to) == /\ builder[b] = from
                     /\ builder' = [builder EXCEPT ![b] = to]

BuildStart(b) == /\ Step(b, "idle", "load")
                 /\ todo' = [todo EXCEPT ![b] = ProducedSlots]
                 /\ report' = [report EXCEPT ![b] = Empty]
                 /\ known' = [known EXCEPT ![b] = disk.summary.blocks]
                 /\ UNCHANGED <<disk, draft, owner, seen, writerVars, readerVars>>

(* load_block_transactions: two SELECTs, each of its own snapshot.         *)
LoadTxns(b) == /\ todo[b] # {} /\ Step(b, "load", "locks")
               /\ seen' = [seen EXCEPT ![b] = Min(todo[b]) \in disk.txns]
               /\ UNCHANGED <<disk, draft, owner, todo, report, known,
                              writerVars, readerVars>>

(* schedule_block runs on what was read: a transaction without its locks   *)
(* has no conflicts.                                                       *)
Count(b, s) == IF seen[b] /\ s \in disk.locks THEN 1 ELSE 0
Counted(b, s) ==
  [blocks |-> report[b].blocks \cup {s},
   accounts |-> [report[b].accounts EXCEPT ![s] = @ + Count(b, s)],
   programs |-> [report[b].programs EXCEPT ![s] = @ + Count(b, s)]]
(* mutant: the loop does not move on                                       *)
SameSlot(b, s) == UNCHANGED todo
NextSlot(b, s) == todo' = [todo EXCEPT ![b] = @ \ {s}]

LoadLocks(b) == /\ Step(b, "locks", "load")
                /\ report' = [report EXCEPT ![b] = Counted(b, Min(todo[b]))]
                /\ NextSlot(b, Min(todo[b]))
                /\ UNCHANGED <<disk, draft, owner, seen, known, writerVars,
                               readerVars>>

(* store_range_report: three DELETEs, then the rows of each table.         *)
DeleteSummary(b) ==
  /\ todo[b] = {} /\ Step(b, "load", "blocks")
  /\ Begin(b, [disk EXCEPT !.summary = Empty])
  /\ UNCHANGED <<todo, seen, report, known, writerVars, readerVars>>

Insert(b, table, next) ==
  /\ Step(b, table, next)
  /\ Execute([draft EXCEPT !.summary = [@ EXCEPT ![table] = report[b][table]]])
  /\ UNCHANGED <<owner, todo, seen, report, known, writerVars, readerVars>>

InsertSummary(b) == \/ Insert(b, "blocks", "accounts")
                    \/ Insert(b, "accounts", "programs")
                    \/ Insert(b, "programs", "commit")

CommitSummary(b) ==
  /\ Step(b, "commit", "idle")
  /\ Commit
  /\ UNCHANGED <<todo, seen, report, known, writerVars, readerVars>>

Storing == {"blocks", "accounts", "programs", "commit"}

(* An error ends the program, or it is killed; the busy timeout, too.      *)
BuildFails(b) ==
  /\ builder[b] # "idle" /\ Step(b, builder[b], "idle")
  /\ IF builder[b] \in Storing THEN Rollback
                               ELSE UNCHANGED <<disk, draft, owner>>
  /\ UNCHANGED <<todo, seen, report, known, writerVars, readerVars>>

-----------------------------------------------------------------------------
(* get_contention over the whole range: three SELECTs on a connection of   *)
(* its own, without a transaction.                                         *)
Select(table, next) ==
  /\ reader = table /\ reader' = next
  /\ page' = [page EXCEPT ![table] = disk.summary[table]]
  /\ UNCHANGED <<disk, draft, owner, writerVars, builderVars>>

Respond == /\ reader = "done" /\ reader' = "blocks" /\ page' = Empty
           /\ UNCHANGED <<disk, draft, owner, writerVars, builderVars>>

GetContention == \/ Select("blocks", "accounts")
                 \/ Select("accounts", "programs")
                 \/ Select("programs", "done")
                 \/ Respond

Write == \/ \E s \in Slots : InsertBlock(s)
         \/ InsertTxns \/ InsertLocks \/ CommitBlock \/ WriteFails
Build(b) == \/ BuildStart(b) \/ LoadTxns(b) \/ LoadLocks(b)
            \/ DeleteSummary(b) \/ InsertSummary(b) \/ CommitSummary(b)
            \/ BuildFails(b)

Next == Write \/ (\E b \in Builders : Build(b)) \/ GetContention

Spec == Init /\ [][Next]_vars

-----------------------------------------------------------------------------
Summaries == [blocks : SUBSET Slots, accounts : [Slots -> 0 .. 1],
              programs : [Slots -> 0 .. 1]]
Tables == [blocks : SUBSET Slots, txns : SUBSET Slots, locks : SUBSET Slots,
           summary : Summaries]

(* Every variable has its type; no count takes in a slot's events twice;   *)
(* the write lock is held by whoever is inside a transaction.              *)
TypeOK == /\ disk \in Tables /\ draft \in Tables
          /\ slot \in Slots \cup {NoSlot}
          /\ writer \in {"idle", "txns", "locks", "commit"}
          /\ todo \in [Builders -> SUBSET Slots]
          /\ seen \in [Builders -> BOOLEAN]
          /\ report \in [Builders -> Summaries]
          /\ builder \in [Builders -> {"idle", "load", "locks"} \cup Storing]
          /\ known \in [Builders -> SUBSET Slots]
          /\ \A b \in Builders : builder[b] = "locks" => todo[b] # {}
          /\ page \in Summaries
          /\ reader \in {"blocks", "accounts", "programs", "done"}
          /\ owner \in Builders \cup {"none", "writer"}
          /\ owner = "writer" <=> writer # "idle"
          /\ \A b \in Builders : owner = b <=> builder[b] \in Storing
          /\ writer # "idle" => slot # NoSlot

(* The three tables always hold one report, and that report counts every   *)
(* block it lists in full: neither a build that overlaps ingestion nor one *)
(* that dies half-way leaves counts that do not belong to the blocks       *)
(* (ADR-0003, ADR-0005).                                                   *)
SummaryConsistent == disk.summary = Summary(disk.summary.blocks)

(* A rebuild never loses a block of the summary it found when it began.    *)
(* (Of two that overlap, the one that began first may finish last, and     *)
(* what the other added in between is gone until the next rebuild.)        *)
SummaryGrows ==
  [][disk'.summary # disk.summary =>
       \E b \in Builders : /\ owner = b
                           /\ known[b] \subseteq disk'.summary.blocks]_disk

(* ADR-0005: the counts a response gives belong to the schedules "in the   *)
(* same report".                                                           *)
ResponseIsOneReport == reader = "done" => page = Summary(page.blocks)
=============================================================================
