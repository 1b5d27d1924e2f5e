---------------------------- MODULE MCBlockStore ----------------------------
(* Values for the constants of BlockStore: a block of three transactions   *)
(* and one of one, both stored by an earlier version or not.               *)
EXTENDS BlockStore, TLC

MCChain == 1 :> <<"a", "b", "c">> @@ 2 :> <<"d">>

(* The provider misses slot 2 at times.                                    *)
MCAnswers == 1 :> {"Fetched"} @@ 2 :> {"Skipped", "Fetched"}

(* The first two transactions of slot 1 may come in a shape that is        *)
(* rejected.                                                               *)
MCUndecodable == 1 :> {1, 2} @@ 2 :> {}

Key(k, w) == [account_pubkey |-> k, is_writable |-> w]
MCKeys == [t \in {"a", "b", "c", "d"} |->
             IF t = "a" THEN {Key("x", TRUE), Key("y", FALSE)}
                        ELSE {Key("x", FALSE)}]

Of(mint, amount) == [mint |-> mint, amount |-> amount]
None == [a \in {} |-> Of("m", 0)]

(* Account 1 of transaction a is opened, filled, closed or given another   *)
(* mint, or never there; account 2 is closed.  Transaction c opens an      *)
(* account, the others hold none.                                          *)
Before1 == {None, 1 :> Of("m", 1)}
After1 == {None, 1 :> Of("m", 3), 1 :> Of("n", 1)}
MCMovements ==
  {[t \in {"a", "b", "c", "d"} |->
      CASE t = "a" -> [pre |-> from @@ 2 :> Of("m", 2), post |-> to]
        [] t = "c" -> [pre |-> None, post |-> 1 :> Of("n", 4)]
        [] OTHER   -> [pre |-> None, post |-> None]] :
     from \in Before1, to \in After1}
=============================================================================
