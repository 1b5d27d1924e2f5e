------------------------ MODULE MCContentionSummary -------------------------
(* Values for the constants of ContentionSummary.  The runs of the build   *)
(* program are interchangeable.                                            *)
EXTENDS ContentionSummary, TLC

Interchangeable == Permutations(Builders)
=============================================================================
