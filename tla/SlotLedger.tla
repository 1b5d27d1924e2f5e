----------------------------- MODULE SlotLedger -----------------------------
(***************************************************************************)
(* What ingestion promises about a slot range, without channels or tasks:  *)
(* in one run each slot is settled at most once, either by one transaction *)
(* that adds the rows of the whole block, or by a line on stderr, or it is *)
(* dropped unreported; rows survive every restart and are never rewritten. *)
(***************************************************************************)
CONSTANT Slots

VARIABLES blocks,   \* slot -> its row in table blocks: none, skipped, produced
          txSlots,  \* slots with rows in transactions, account_locks, ...
          fate      \* slot -> how this run ended for it

ledger == <<blocks, txSlots, fate>>

Init == /\ blocks = [s \in Slots |-> "none"]
        /\ txSlots = {}
        /\ fate = [s \in Slots |-> "open"]

(* One commit: OR IGNORE keeps the row an earlier run wrote.               *)
Store(s) ==
  /\ fate[s] = "open"
  /\ \E kind \in {"skipped", "produced"} :
       /\ blocks' = IF blocks[s] = "none" THEN [blocks EXCEPT ![s] = kind]
                                          ELSE blocks
       /\ txSlots' = IF kind = "produced" THEN txSlots \cup {s} ELSE txSlots
  /\ fate' = [fate EXCEPT ![s] = "stored"]

Report(s) == /\ fate[s] = "open"
             /\ fate' = [fate EXCEPT ![s] = "reported"]
             /\ UNCHANGED <<blocks, txSlots>>

(* A stage died: everything it held or had queued goes at once.            *)
Drop(S) == /\ \A s \in S : fate[s] = "open"
           /\ fate' = [s \in Slots |-> IF s \in S THEN "dropped" ELSE fate[s]]
           /\ UNCHANGED <<blocks, txSlots>>

Restart == /\ fate' = [s \in Slots |-> "open"]
           /\ UNCHANGED <<blocks, txSlots>>

Next == \/ \E s \in Slots : Store(s) \/ Report(s)
        \/ \E S \in SUBSET Slots : Drop(S)
        \/ Restart

Spec == Init /\ [][Next]_ledger
=============================================================================
