------------------------------ MODULE MCOhlcv ------------------------------
(* Values of the constants of Ohlcv for TLC.                               *)
EXTENDS Ohlcv

Sol(d) == [mint |-> "SOL", delta |-> d]
A(d) == [mint |-> "A", delta |-> d]
B(d) == [mint |-> "B", delta |-> d]

(* A million tokens of A are 4 raw units.                                  *)
MCUnit == ("A" :> 4) @@ ("B" :> 4)

(* Two transactions of block 1, one each of blocks 2, 3 and 4; 3 has no    *)
(* block time.  Blocks 1 and 2 lie in two short buckets of a long one.     *)
FiveTxs == <<1, 1, 2, 3, 4>>
FivePositions == <<0, 1, 0, 0, 0>>
FiveTimes == <<1, 2, 2, 5>>

Fixed == [r \in ({1} \X (0 .. 2)) \cup ((2 .. 5) \X {0, 1}) |->
            CASE r[2] = 0 -> Sol(-2) [] r[2] = 1 -> A(1) [] r[2] = 2 -> A(0)]

(* The first two transactions mix dust, round amounts, two tokens, sales,  *)
(* purchases and changes that cancel.                                      *)
MixedBalances ==
  {(<<1, 0>> :> a) @@ (<<1, 1>> :> b) @@ (<<1, 2>> :> c) @@ (<<2, 0>> :> d)
     @@ (<<2, 1>> :> e) @@ Fixed :
     a \in {Sol(-2), Sol(1), A(4)}, b \in {A(1), A(-1), B(1), Sol(1)},
     c \in {A(-1), A(1), A(3), B(1), Sol(-2), A(0)},
     d \in {Sol(-2), Sol(1), B(3)}, e \in {A(1), A(4), B(1)}}

(* The first three transactions trade one token at different prices.       *)
PriceBalances ==
  {[r \in (1 .. 3) \X {0, 1} |-> IF r[2] = 0 THEN sol[r[1]] ELSE base[r[1]]]
     @@ Fixed :
     sol \in [1 .. 3 -> {Sol(-2), Sol(-4), Sol(0)}],
     base \in [1 .. 3 -> {A(1), A(3)}]}

MCBalances == MixedBalances \cup PriceBalances

(* Two transactions whose positions are unknown, with up to four accounts. *)
SwapTxs == <<1, 1>>
SwapPositions == <<0, 1>>
SwapTimes == <<3>>
SwapBalances == [({1} \X (0 .. 3)) \cup {<<2, 1>>} -> {Sol(-2), A(1)}]
=============================================================================
