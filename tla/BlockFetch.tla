----------------------------- MODULE BlockFetch -----------------------------
(***************************************************************************)
(* get_block as its callers see it (ADR-0001): one final outcome per call, *)
(* never an attempt.                                                       *)
(***************************************************************************)
CONSTANT Calls

VARIABLE result

Final == {"Skipped", "Fetched", "Failed"}

Init == result = [c \in Calls |-> "pending"]

Return(c) == /\ result[c] = "pending"
             /\ \E o \in Final : result' = [result EXCEPT ![c] = o]

Next == \E c \in Calls : Return(c)

Spec == Init /\ [][Next]_result /\ \A c \in Calls : WF_result(Return(c))
=============================================================================
