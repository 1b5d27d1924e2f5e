----------------------------- MODULE MCPipeline -----------------------------
(* Values for the constants of Pipeline.                                   *)
EXTENDS Pipeline

(* Anything can come back for any slot.  The parser has one branch for     *)
(* Failed and Malformed, so each slot has one of the two.                  *)
AnyAnswer == [s \in Slots |-> Outcome \ {IF s = 2 THEN "Failed" ELSE "Malformed"}]

(* A chain whose odd slots were produced; the RPC answers truthfully.      *)
Truthful == [s \in Slots |-> IF s % 2 = 1 THEN {"Fetched"} ELSE {"Skipped"}]

(* A provider that has a gap: "skipped, or missing in long-term storage".  *)
WithGaps == [s \in Slots |-> {"Skipped", "Fetched"}]

(* Produced slots whose fetch may also fail for good.                      *)
Flaky == [s \in Slots |-> {"Fetched", "Failed"}]
=============================================================================
