---------------------------- MODULE LockSchedule ----------------------------
(***************************************************************************)
(* schedule_block of src/contention.rs: greedy first-fit placement of the  *)
(* transactions of a block, in order, into steps without lock conflicts.   *)
(* One action per turn of the inner loop, which scans the steps.           *)
(***************************************************************************)
EXTENDS Integers, Sequences

CONSTANTS Accounts,
          MaxTxns    \* bound on the length of a block

ASSUME ScheduleAssumption == MaxTxns \in Nat

(* account_locks has one row per transaction and account.                  *)
Txn == {t \in [writes : SUBSET Accounts, reads : SUBSET Accounts] :
          t.writes \cap t.reads = {}}
Locks(t) == t.writes \cup t.reads

Blocks == UNION {[1 .. n -> Txn] : n \in 0 .. MaxTxns}

VARIABLES txns,       \* the argument: the block's transactions by tx_index
          cur,        \* the outer loop: next transaction to place
          probe,      \* the inner loop: next step to try
          steps,      \* sequence of StepState
          conflicts   \* recorded ConflictEvents: <<transaction, step, account>>

vars == <<txns, cur, probe, steps, conflicts>>

Init == /\ txns \in Blocks
        /\ cur = 1 /\ probe = 1
        /\ steps = <<>> /\ conflicts = {}

(* A write needs an account nobody in the step touches, a read one nobody  *)
(* in it writes.                                                           *)
(* mutants: a write checked against the writes only; a read against all    *)
(* that is touched; `find' in place of `filter'                            *)
AgainstWritten(step, t) == Locks(t) \cap step.written
AgainstTouched(step, t) == Locks(t) \cap step.touched
FirstFound(step, t) ==
  LET all == (t.writes \cap step.touched) \cup (t.reads \cap step.written)
  IN  IF all = {} THEN {} ELSE {CHOOSE a \in all : TRUE}
ConflictingLocks(step, t) ==
  (t.writes \cap step.touched) \cup (t.reads \cap step.written)

EmptyStep == [written |-> {}, touched |-> {}, members |-> {}]

(* StepState::add                                                          *)
Add(step, i) == [written |-> step.written \cup txns[i].writes,
                 touched |-> step.touched \cup Locks(txns[i]),
                 members |-> step.members \cup {i}]

Conflicting == ConflictingLocks(steps[probe], txns[cur])

(* mutant: the scan starts one step too early                              *)
NextFromZero == cur' = cur + 1 /\ probe' = 0
NextTxn == cur' = cur + 1 /\ probe' = 1

Reject == /\ cur <= Len(txns) /\ probe <= Len(steps)
          /\ Conflicting # {}
          /\ conflicts' = conflicts \cup {<<cur, probe, a>> : a \in Conflicting}
          /\ probe' = probe + 1
          /\ UNCHANGED <<txns, cur, steps>>

Place == /\ cur <= Len(txns) /\ probe <= Len(steps)
         /\ Conflicting = {}
         /\ steps' = [steps EXCEPT ![probe] = Add(@, cur)]
         /\ NextTxn
         /\ UNCHANGED <<txns, conflicts>>

(* No step fits.                                                           *)
Open == /\ cur <= Len(txns) /\ probe > Len(steps)
        /\ steps' = Append(steps, Add(EmptyStep, cur))
        /\ NextTxn
        /\ UNCHANGED <<txns, conflicts>>

Done == cur > Len(txns) /\ UNCHANGED vars

Next == Reject \/ Place \/ Open \/ Done

Spec == Init /\ [][Next]_vars

-----------------------------------------------------------------------------
(* Every variable has its type: both loops stay inside the block and the   *)
(* steps, and steps and events name only transactions already seen.        *)
TypeOK == /\ txns \in Blocks
          /\ cur \in 1 .. Len(txns) + 1
          /\ probe \in 1 .. Len(steps) + 1
          /\ steps \in Seq([written : SUBSET Accounts, touched : SUBSET Accounts,
                           members : SUBSET (1 .. cur - 1)])
          /\ conflicts \subseteq (1 .. cur) \X (1 .. Len(steps)) \X Accounts

(* README, "Conflict": one of the two locks on the account is a write.     *)
ConflictOn(i, j) == {a \in Locks(txns[i]) \cap Locks(txns[j]) :
                       a \in txns[i].writes \cup txns[j].writes}

(* README, "Step": the transactions placed so far are partitioned into     *)
(* steps, and no two of the same step conflict.                            *)
ConflictFree ==
  /\ \A i \in 1 .. cur - 1 : \E k \in DOMAIN steps : i \in steps[k].members
  /\ \A k, l \in DOMAIN steps : k # l => steps[k].members \cap steps[l].members = {}
  /\ \A k \in DOMAIN steps : \A i, j \in steps[k].members :
       i # j => ConflictOn(i, j) = {}

(* "earliest step where none of their account locks conflict with anything *)
(* already placed there": each step before a transaction's own, or before  *)
(* the one it is tried in, holds an earlier transaction it conflicts with. *)
Blocked(i, k) == \E j \in steps[k].members : j < i /\ ConflictOn(i, j) # {}
FirstFit == /\ \A k \in DOMAIN steps : \A i \in steps[k].members :
                 \A l \in 1 .. k - 1 : Blocked(i, l)
            /\ \A l \in 1 .. probe - 1 : Blocked(cur, l)

(* ADR-0005: one event per step that rejects a transaction and account it  *)
(* is rejected for, as the pairwise definition of a conflict has them.     *)
Passed(i, l) == \/ i = cur /\ l < probe
                \/ \E k \in DOMAIN steps : i \in steps[k].members /\ l < k
AttributionExact ==
  \A i \in 1 .. cur, l \in DOMAIN steps, a \in Accounts :
    <<i, l, a>> \in conflicts
      <=> /\ Passed(i, l)
          /\ \E j \in steps[l].members : j < i /\ a \in ConflictOn(i, j)
=============================================================================
