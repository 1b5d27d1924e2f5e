------------------------------ MODULE SetFacts ------------------------------
(***************************************************************************)
(* Facts about finite sets that the proofs of several components rest on:  *)
(* smallest and largest members, induction, the sums of MapThenSumSet, in  *)
(* which RpcClient, BlockStore and Ohlcv count, and the list of a set in   *)
(* an order.  A sum does not depend on the order of its terms, so a term   *)
(* may be taken out, and the rest follows by induction.  A property of     *)
(* sets is given as the set of those that have it, and an induction is a   *)
(* smallest counterexample.                                                *)
(***************************************************************************)
EXTENDS Integers, FiniteSetsExt, FiniteSetTheorems, WellFoundedInduction, TLAPS

(* The smallest member of a set of numbers.                                *)
LEMMA Smallest ==
  ASSUME NEW S, S \subseteq Nat, S # {}
  PROVE  \E x \in S : \A y \in S : x <= y
<1> DEFINE R == OpToRel(<, Nat)
<1>1. PICK x \in S : \A y \in S : ~(<<y, x>> \in R)
  <2>1. IsWellFoundedOn(R, Nat)
    BY NatLessThanWellFounded
  <2> HIDE DEF R
  <2> QED BY <2>1, WFMin
<1>2. ASSUME NEW y \in S PROVE x <= y
  <2>1. ~(<<y, x>> \in {ss \in Nat \X Nat : ss[1] < ss[2]})
    BY <1>1 DEF OpToRel
  <2> QED BY <2>1
<1> QED BY <1>2

LEMMA MinMember ==
  ASSUME NEW S, S \subseteq Nat, S # {}
  PROVE  Min(S) \in S /\ \A y \in S : Min(S) <= y
BY Smallest DEF Min

LEMMA WithinInterval ==
  ASSUME NEW n \in Nat, NEW S, S \subseteq 1 .. n
  PROVE  IsFiniteSet(S) /\ S \in SUBSET Int
<1>1. IsFiniteSet(1 .. n)
  BY FS_Interval
<1>2. IsFiniteSet(S)
  BY <1>1, FS_Subset
<1> QED BY <1>2

(* Induction over the numbers in F.                                        *)
LEMMA CountUp ==
  ASSUME NEW F, 0 \in F, \A n \in Nat : n \in F => n + 1 \in F
  PROVE  Nat \subseteq F
<1> SUFFICES ASSUME Nat \ F # {} PROVE FALSE
  OBVIOUS
<1>1. PICK n \in Nat \ F : \A m \in Nat \ F : n <= m
  BY Smallest
<1>2. n # 0 /\ n - 1 \in Nat /\ n - 1 < n /\ (n - 1) + 1 = n
  BY <1>1
<1>3. n - 1 \in F
  BY <1>1, <1>2
<1> QED BY <1>2, <1>3

(* Induction over the subsets of a finite set, those in F.                 *)
LEMMA SubsetInduction ==
  ASSUME NEW S, IsFiniteSet(S), NEW F, {} \in F,
         \A T \in SUBSET S : T # {} /\ (\A x \in T : T \ {x} \in F) => T \in F
  PROVE  SUBSET S \subseteq F
<1> DEFINE Counters == {n \in Nat : \E T \in SUBSET S : T \notin F /\ Cardinality(T) = n}
<1> SUFFICES ASSUME NEW U \in SUBSET S, U \notin F PROVE FALSE
  OBVIOUS
<1>1. Cardinality(U) \in Counters
  BY FS_Subset, FS_CardinalityType
<1>2. PICK n \in Counters : \A m \in Counters : n <= m
  <2> HIDE DEF Counters
  <2>1. Counters \subseteq Nat
    BY DEF Counters
  <2> QED BY <1>1, <2>1, Smallest
<1>3. PICK T \in SUBSET S : T \notin F /\ Cardinality(T) = n
  OBVIOUS
<1>4. IsFiniteSet(T) /\ n \in Nat
  BY FS_Subset
<1>5. ASSUME NEW x \in T PROVE T \ {x} \in F
  <2>1. Cardinality(T \ {x}) = n - 1 /\ IsFiniteSet(T \ {x})
    BY <1>3, <1>4, FS_RemoveElement
  <2>2. n - 1 \in Nat
    BY <2>1, FS_CardinalityType
  <2>3. n - 1 \notin Counters
    BY <1>2, <1>4
  <2> QED BY <2>1, <2>2, <2>3
<1> QED BY <1>3, <1>5

-----------------------------------------------------------------------------
Pick(s) == CHOOSE x \in s : TRUE

(* h adds up g over the subsets of S, as MapThenFoldSet does.              *)
AddsUp(h, g, S) ==
  h = [s \in SUBSET S |-> IF s = {} THEN 0 ELSE g[Pick(s)] + h[s \ {Pick(s)}]]

(* There is such an h.                                                     *)
LEMMA AddsUpExists ==
  ASSUME NEW g, NEW S, IsFiniteSet(S)
  PROVE  \E h : AddsUp(h, g, S)
<1> DEFINE UpTo(h, n) == \A s \in SUBSET S : Cardinality(s) <= n =>
             h[s] = IF s = {} THEN 0 ELSE g[Pick(s)] + h[s \ {Pick(s)}]
           F == {n \in Nat : \E h : UpTo(h, n)}
<1>0. ASSUME NEW s \in SUBSET S
      PROVE  /\ Cardinality(s) \in Nat /\ (Cardinality(s) = 0 <=> s = {})
             /\ Cardinality(s) <= Cardinality(S)
             /\ s # {} => /\ Pick(s) \in s
                          /\ Cardinality(s \ {Pick(s)}) = Cardinality(s) - 1
  <2>1. IsFiniteSet(s)
    BY FS_Subset
  <2>2. Cardinality(s) \in Nat /\ (Cardinality(s) = 0 <=> s = {})
    BY <2>1, FS_CardinalityType, FS_EmptySet
  <2>3. Cardinality(s) <= Cardinality(S)
    BY FS_Subset
  <2>4. ASSUME s # {} PROVE Pick(s) \in s
    BY <2>4 DEF Pick
  <2>5. ASSUME s # {} PROVE Cardinality(s \ {Pick(s)}) = Cardinality(s) - 1
    BY <2>1, <2>4, <2>5, FS_RemoveElement
  <2> QED BY <2>2, <2>3, <2>4, <2>5
<1>1. 0 \in F
  <2> DEFINE z == [s \in SUBSET S |-> 0]
  <2>1. ASSUME NEW s \in SUBSET S, Cardinality(s) <= 0
        PROVE  s = {} /\ z[s] = 0
    <3>1. Cardinality(s) \in Nat /\ (Cardinality(s) = 0 <=> s = {})
      BY <1>0
    <3>2. Cardinality(s) = 0
      BY <2>1, <3>1
    <3> QED BY <3>1, <3>2
  <2>2. UpTo(z, 0)
    BY <2>1
  <2> HIDE DEF z, UpTo
  <2> QED BY <2>2
<1>2. ASSUME NEW n \in Nat, n \in F PROVE n + 1 \in F
  <2>1. PICK h : UpTo(h, n)
    BY <1>2
  <2> DEFINE k == [s \in SUBSET S |->
                     IF Cardinality(s) <= n THEN h[s]
                     ELSE g[Pick(s)] + h[s \ {Pick(s)}]]
  <2>2. ASSUME NEW s \in SUBSET S, Cardinality(s) <= n + 1
        PROVE  k[s] = IF s = {} THEN 0 ELSE g[Pick(s)] + k[s \ {Pick(s)}]
    <3>1. CASE s = {}
      <4>1. Cardinality(s) = 0
        BY <1>0, <3>1
      <4>2. k[s] = h[s] /\ h[s] = 0
        BY <2>1, <3>1, <4>1
      <4> QED BY <3>1, <4>2
    <3>2. CASE s # {}
      <4>1. /\ Pick(s) \in s /\ Cardinality(s) \in Nat
            /\ Cardinality(s \ {Pick(s)}) <= n
        BY <1>0, <2>2, <3>2
      <4>2. k[s \ {Pick(s)}] = h[s \ {Pick(s)}]
        BY <4>1
      <4>3. k[s] = g[Pick(s)] + h[s \ {Pick(s)}]
        BY <2>1, <3>2
      <4> QED BY <3>2, <4>2, <4>3
    <3> QED BY <3>1, <3>2
  <2>3. UpTo(k, n + 1)
    BY <2>2
  <2> HIDE DEF k, UpTo
  <2> QED BY <2>3
<1>3. Cardinality(S) \in F
  <2> HIDE DEF F
  <2>1. Nat \subseteq F
    BY <1>1, <1>2, CountUp
  <2> QED BY <1>0, <2>1
<1>4. PICK h : UpTo(h, Cardinality(S))
  BY <1>3
<1> DEFINE k == [s \in SUBSET S |-> h[s]]
<1>5. \A s \in SUBSET S :
        k[s] = IF s = {} THEN 0 ELSE g[Pick(s)] + k[s \ {Pick(s)}]
  BY <1>0, <1>4
<1>6. AddsUp(k, g, S)
  BY <1>5 DEF AddsUp
<1> QED BY <1>6

LEMMA AddsUpAt ==
  ASSUME NEW h, NEW g, NEW S, AddsUp(h, g, S)
  PROVE  /\ h[{}] = 0
         /\ \A s \in (SUBSET S) \ {{}} :
              Pick(s) \in s /\ h[s] = g[Pick(s)] + h[s \ {Pick(s)}]
<1>1. h = [s \in SUBSET S |->
             IF s = {} THEN 0 ELSE g[Pick(s)] + h[s \ {Pick(s)}]]
  BY DEF AddsUp
<1>2. \A s \in SUBSET S :
        h[s] = IF s = {} THEN 0 ELSE g[Pick(s)] + h[s \ {Pick(s)}]
  BY <1>1
<1>3. ASSUME NEW s \in (SUBSET S) \ {{}} PROVE Pick(s) \in s
  BY DEF Pick
<1> QED BY <1>2, <1>3

LEMMA AddsUpInt ==
  ASSUME NEW h, NEW g, NEW S, IsFiniteSet(S), AddsUp(h, g, S),
         \A x \in S : g[x] \in Int
  PROVE  \A T \in SUBSET S : h[T] \in Int
<1>0. /\ h[{}] = 0
      /\ \A T \in (SUBSET S) \ {{}} :
           Pick(T) \in T /\ h[T] = g[Pick(T)] + h[T \ {Pick(T)}]
  BY AddsUpAt
<1> DEFINE F == {T \in SUBSET S : h[T] \in Int}
<1>1. {} \in F
  BY <1>0
<1>2. ASSUME NEW T \in SUBSET S, T # {}, \A x \in T : T \ {x} \in F
      PROVE  T \in F
  <2>1. Pick(T) \in T /\ h[T] = g[Pick(T)] + h[T \ {Pick(T)}]
    BY <1>0, <1>2
  <2>2. h[T \ {Pick(T)}] \in Int /\ g[Pick(T)] \in Int
    BY <1>2, <2>1
  <2> QED BY <2>1, <2>2
<1> HIDE DEF F
<1>3. SUBSET S \subseteq F
  BY <1>1, <1>2, SubsetInduction
<1> QED BY <1>3 DEF F

(* Any element may be the last to be added.                                *)
LEMMA AnyOrder ==
  ASSUME NEW h, NEW g, NEW S, IsFiniteSet(S), AddsUp(h, g, S),
         \A x \in S : g[x] \in Int
  PROVE  \A T \in SUBSET S : /\ h[T] \in Int
                             /\ \A x \in T : h[T] = g[x] + h[T \ {x}]
<1> DEFINE F == {T \in SUBSET S : /\ h[T] \in Int
                                  /\ \A x \in T : h[T] = g[x] + h[T \ {x}]}
<1>0. /\ h[{}] = 0
      /\ \A T \in (SUBSET S) \ {{}} :
           Pick(T) \in T /\ h[T] = g[Pick(T)] + h[T \ {Pick(T)}]
  BY AddsUpAt
<1>1. {} \in F
  BY <1>0
<1>2. ASSUME NEW T \in SUBSET S, T # {}, \A x \in T : T \ {x} \in F
      PROVE  T \in F
  <2> DEFINE p == Pick(T)
  <2>1. p \in T /\ h[T] = g[p] + h[T \ {p}]
    BY <1>0, <1>2
  <2>2. h[T \ {p}] \in Int /\ g[p] \in Int
    BY <1>2, <2>1
  <2>3. ASSUME NEW x \in T PROVE h[T] = g[x] + h[T \ {x}]
    <3>1. CASE x = p
      BY <2>1, <3>1
    <3>2. CASE x # p
      <4>1. h[T \ {p}] = g[x] + h[(T \ {p}) \ {x}]
        BY <1>2, <2>1, <3>2
      <4>2. h[T \ {x}] = g[p] + h[(T \ {x}) \ {p}]
        BY <1>2, <2>1, <3>2
      <4>3. (T \ {p}) \ {x} = (T \ {x}) \ {p} /\ T \ {x} \in F
        BY <1>2
      <4>4. h[(T \ {x}) \ {p}] \in Int /\ g[x] \in Int
        BY <1>2, AddsUpInt
      <4> DEFINE r == h[(T \ {x}) \ {p}]
      <4>5. /\ h[T] = g[p] + h[T \ {p}] /\ h[T \ {p}] = g[x] + r
            /\ h[T \ {x}] = g[p] + r
        BY <2>1, <4>1, <4>2, <4>3
      <4>6. r \in Int /\ g[x] \in Int /\ g[p] \in Int
        BY <2>2, <4>4
      <4> HIDE DEF r, p, F
      <4> QED BY <4>5, <4>6
    <3> QED BY <3>1, <3>2
  <2> QED BY <2>1, <2>2, <2>3
<1> HIDE DEF F
<1>3. SUBSET S \subseteq F
  BY <1>1, <1>2, SubsetInduction
<1> QED BY <1>3 DEF F

-----------------------------------------------------------------------------
(* The sum of g over S.                                                    *)
Sum(g, S) == MapThenSumSet(LAMBDA x : g[x], S)

LEMMA SumIs ==
  ASSUME NEW g, NEW S, IsFiniteSet(S)
  PROVE  \E h : AddsUp(h, g, S) /\ Sum(g, S) = h[S]
<1> DEFINE h == CHOOSE f : f = [s \in SUBSET S |->
                  IF s = {} THEN 0 ELSE LET x == CHOOSE x \in s : TRUE
                                        IN  g[x] + f[s \ {x}]]
<1>1. \E f : AddsUp(f, g, S)
  BY AddsUpExists
<1>2. AddsUp(h, g, S)
  BY <1>1, Zenon DEF AddsUp, Pick
<1>3. Sum(g, S) = h[S]
  BY Zenon DEF Sum, MapThenSumSet, MapThenFoldSet
<1> QED BY <1>2, <1>3

(* Two functions that agree on T have the same sum over it.                *)
LEMMA SumWithin ==
  ASSUME NEW h, NEW f, NEW g, NEW S, NEW T \in SUBSET S, IsFiniteSet(S),
         AddsUp(h, g, S), \A x \in T : f[x] = g[x]
  PROVE  Sum(f, T) = h[T]
<1>1. IsFiniteSet(T)
  BY FS_Subset
<1>2. PICK k : AddsUp(k, f, T) /\ Sum(f, T) = k[T]
  BY <1>1, SumIs
<1>3. /\ h[{}] = 0
      /\ \A s \in (SUBSET S) \ {{}} :
           Pick(s) \in s /\ h[s] = g[Pick(s)] + h[s \ {Pick(s)}]
  BY AddsUpAt
<1>4. /\ k[{}] = 0
      /\ \A s \in (SUBSET T) \ {{}} :
           Pick(s) \in s /\ k[s] = f[Pick(s)] + k[s \ {Pick(s)}]
  BY <1>2, AddsUpAt
<1> DEFINE F == {U \in SUBSET T : k[U] = h[U]}
<1>5. {} \in F
  BY <1>3, <1>4
<1>6. ASSUME NEW U \in SUBSET T, U # {}, \A x \in U : U \ {x} \in F
      PROVE  U \in F
  <2>1. Pick(U) \in U /\ k[U] = f[Pick(U)] + k[U \ {Pick(U)}]
    BY <1>4, <1>6
  <2>2. U \in SUBSET S /\ h[U] = g[Pick(U)] + h[U \ {Pick(U)}]
    BY <1>3, <1>6
  <2>3. k[U \ {Pick(U)}] = h[U \ {Pick(U)}] /\ f[Pick(U)] = g[Pick(U)]
    BY <1>6, <2>1
  <2> QED BY <2>1, <2>2, <2>3
<1> HIDE DEF F
<1>7. SUBSET T \subseteq F
  BY <1>1, <1>5, <1>6, SubsetInduction
<1> QED BY <1>2, <1>7 DEF F

(* The sum of no terms.                                                    *)
LEMMA SumEmpty == ASSUME NEW g PROVE Sum(g, {}) = 0
<1>1. IsFiniteSet({})
  BY FS_EmptySet
<1>2. PICK h : AddsUp(h, g, {}) /\ Sum(g, {}) = h[{}]
  BY <1>1, SumIs
<1> QED BY <1>2, AddsUpAt

(* A sum depends on the terms alone.                                       *)
LEMMA SumSame ==
  ASSUME NEW f, NEW g, NEW S, IsFiniteSet(S), \A x \in S : f[x] = g[x]
  PROVE  Sum(f, S) = Sum(g, S)
<1>1. PICK h : AddsUp(h, g, S) /\ Sum(g, S) = h[S]
  BY SumIs
<1> QED BY <1>1, SumWithin

(* Taking one term out.                                                    *)
LEMMA SumRemove ==
  ASSUME NEW g, NEW S, IsFiniteSet(S), \A x \in S : g[x] \in Int, NEW x \in S
  PROVE  Sum(g, S) = g[x] + Sum(g, S \ {x})
<1>1. PICK h : AddsUp(h, g, S) /\ Sum(g, S) = h[S]
  BY SumIs
<1>2. h[S] = g[x] + h[S \ {x}]
  BY <1>1, AnyOrder
<1>3. Sum(g, S \ {x}) = h[S \ {x}]
  BY <1>1, SumWithin
<1> QED BY <1>1, <1>2, <1>3

LEMMA SumInt ==
  ASSUME NEW g, NEW S, IsFiniteSet(S), \A x \in S : g[x] \in Int
  PROVE  Sum(g, S) \in Int
<1>1. PICK h : AddsUp(h, g, S) /\ Sum(g, S) = h[S]
  BY SumIs
<1> QED BY <1>1, AnyOrder

(* Adding one term.                                                        *)
LEMMA SumAdd ==
  ASSUME NEW g, NEW S, NEW x, x \notin S, IsFiniteSet(S),
         \A y \in S \cup {x} : g[y] \in Int
  PROVE  Sum(g, S \cup {x}) = g[x] + Sum(g, S)
<1>1. IsFiniteSet(S \cup {x}) /\ (S \cup {x}) \ {x} = S
  BY FS_AddElement
<1> QED BY <1>1, SumRemove

LEMMA SumNat ==
  ASSUME NEW g, NEW S, IsFiniteSet(S), \A x \in S : g[x] \in Nat
  PROVE  Sum(g, S) \in Nat
<1> DEFINE F == {T \in SUBSET S : Sum(g, T) \in Nat}
<1>1. {} \in F
  BY SumEmpty
<1>2. ASSUME NEW T \in SUBSET S, T # {}, \A x \in T : T \ {x} \in F
      PROVE  T \in F
  <2>1. PICK x \in T : TRUE
    BY <1>2
  <2>2. Sum(g, T) = g[x] + Sum(g, T \ {x})
    BY FS_Subset, SumRemove
  <2>3. Sum(g, T \ {x}) \in Nat
    BY <1>2
  <2> QED BY <2>2, <2>3
<1> HIDE DEF F
<1>3. SUBSET S \subseteq F
  BY <1>1, <1>2, SubsetInduction
<1> QED BY <1>3 DEF F

(* Terms that are zero add nothing.                                        *)
LEMMA SumSupport ==
  ASSUME NEW g, NEW S, IsFiniteSet(S), \A x \in S : g[x] \in Int,
         NEW P \in SUBSET S, \A x \in S \ P : g[x] = 0
  PROVE  Sum(g, S) = Sum(g, P)
<1> DEFINE F == {T \in SUBSET S : Sum(g, T) = Sum(g, T \cap P)}
<1>1. {} \in F
  BY SumEmpty
<1>2. ASSUME NEW T \in SUBSET S, T # {}, \A x \in T : T \ {x} \in F
      PROVE  T \in F
  <2>0. IsFiniteSet(T) /\ IsFiniteSet(T \cap P)
    BY FS_Subset
  <2>1. CASE T \subseteq P
    BY <2>1, Zenon
  <2>2. CASE ~(T \subseteq P)
    <3>1. PICK x \in T : x \notin P
      BY <2>2
    <3>2. Sum(g, T) = 0 + Sum(g, T \ {x})
      BY <2>0, <3>1, SumRemove
    <3>3. Sum(g, T \ {x}) \in Int
      <4>1. IsFiniteSet(T \ {x})
        BY FS_Subset
      <4> QED BY <4>1, SumInt
    <3>4. Sum(g, T \ {x}) = Sum(g, (T \ {x}) \cap P)
      BY <1>2, <3>1
    <3>5. (T \ {x}) \cap P = T \cap P
      BY <3>1
    <3>6. Sum(g, T) = Sum(g, T \ {x})
      BY <3>2, <3>3
    <3>7. Sum(g, T) = Sum(g, T \cap P)
      BY <3>4, <3>5, <3>6, Zenon
    <3> QED BY <3>7
  <2> QED BY <2>1, <2>2
<1> HIDE DEF F
<1>3. SUBSET S \subseteq F
  BY <1>1, <1>2, SubsetInduction
<1>4. S \cap P = P /\ S \in F
  BY <1>3
<1> QED BY <1>4, Zenon DEF F

(* The sum of differences.                                                 *)
LEMMA SumMinus ==
  ASSUME NEW d, NEW f, NEW g, NEW S, IsFiniteSet(S),
         \A x \in S : f[x] \in Int /\ g[x] \in Int /\ d[x] = f[x] - g[x]
  PROVE  Sum(d, S) = Sum(f, S) - Sum(g, S)
<1> DEFINE F == {T \in SUBSET S : Sum(d, T) = Sum(f, T) - Sum(g, T)}
<1>1. {} \in F
  BY SumEmpty
<1>2. ASSUME NEW T \in SUBSET S, T # {}, \A x \in T : T \ {x} \in F
      PROVE  T \in F
  <2>1. PICK x \in T : TRUE
    BY <1>2
  <2>2. IsFiniteSet(T) /\ IsFiniteSet(T \ {x})
    BY FS_Subset
  <2>3. \A y \in T : f[y] \in Int /\ g[y] \in Int /\ d[y] \in Int
    OBVIOUS
  <2>4. /\ Sum(d, T) = d[x] + Sum(d, T \ {x})
        /\ Sum(f, T) = f[x] + Sum(f, T \ {x})
        /\ Sum(g, T) = g[x] + Sum(g, T \ {x})
    BY <2>2, <2>3, SumRemove
  <2>5. Sum(f, T \ {x}) \in Int /\ Sum(g, T \ {x}) \in Int
    BY <2>2, <2>3, SumInt
  <2>6. Sum(d, T \ {x}) = Sum(f, T \ {x}) - Sum(g, T \ {x})
    BY <1>2
  <2> QED BY <2>3, <2>4, <2>5, <2>6
<1> HIDE DEF F
<1>3. SUBSET S \subseteq F
  BY <1>1, <1>2, SubsetInduction
<1> QED BY <1>3 DEF F

LEMMA FiniteImage ==
  ASSUME NEW n, NEW S, IsFiniteSet(S)
  PROVE  IsFiniteSet({n[x] : x \in S})
<1> DEFINE N == {n[x] : x \in S}
           f == [x \in S |-> n[x]]
<1>1. f \in Surjection(S, N)
  BY DEF Surjection
<1> HIDE DEF f, N
<1>2. IsFiniteSet(N)
  BY <1>1, FS_Surjection
<1> QED BY <1>2 DEF N

(* Naming the terms anew.                                                  *)
LEMMA SumImage ==
  ASSUME NEW f, NEW g, NEW n, NEW S, IsFiniteSet(S),
         \A x \in S : f[x] \in Int /\ g[n[x]] = f[x],
         \A x, y \in S : n[x] = n[y] => x = y
  PROVE  Sum(g, {n[x] : x \in S}) = Sum(f, S)
<1> DEFINE F == {T \in SUBSET S : Sum(g, {n[x] : x \in T}) = Sum(f, T)}
<1>1. {} \in F
  <2>1. {n[x] : x \in {}} = {}
    OBVIOUS
  <2> QED BY <2>1, SumEmpty
<1>2. ASSUME NEW T \in SUBSET S, T # {}, \A x \in T : T \ {x} \in F
      PROVE  T \in F
  <2>1. PICK x \in T : TRUE
    BY <1>2
  <2> DEFINE N == {n[y] : y \in T}
  <2>2. IsFiniteSet(T) /\ IsFiniteSet(N)
    <3>1. IsFiniteSet(T)
      BY FS_Subset
    <3> QED BY <3>1, FiniteImage
  <2>3. Sum(f, T) = f[x] + Sum(f, T \ {x})
    BY <2>2, SumRemove
  <2>4. \A y \in N : g[y] \in Int
    OBVIOUS
  <2>5. Sum(g, N) = g[n[x]] + Sum(g, N \ {n[x]})
    <3>1. n[x] \in N
      OBVIOUS
    <3> HIDE DEF N
    <3> QED BY <2>2, <2>4, <3>1, SumRemove
  <2>6. N \ {n[x]} = {n[y] : y \in T \ {x}}
    OBVIOUS
  <2>7. Sum(g, {n[y] : y \in T \ {x}}) = Sum(f, T \ {x})
    BY <1>2
  <2>8. Sum(g, N) = Sum(f, T)
    BY <2>3, <2>5, <2>6, <2>7, Zenon
  <2> QED BY <2>8
<1> HIDE DEF F
<1>3. SUBSET S \subseteq F
  BY <1>1, <1>2, SubsetInduction
<1> QED BY <1>3 DEF F

(* Adding up in two parts ..                                               *)
LEMMA SumSplit ==
  ASSUME NEW f, NEW S, IsFiniteSet(S), \A x \in S : f[x] \in Int, NEW A \in SUBSET S
  PROVE  Sum(f, S) = Sum(f, A) + Sum(f, S \ A)
<1> DEFINE p == [x \in S |-> IF x \in A THEN f[x] ELSE 0]
           q == [x \in S |-> IF x \in A THEN 0 ELSE f[x]]
           B == S \ A
<1>1. \A x \in S : /\ p[x] \in Int /\ q[x] \in Int /\ q[x] = f[x] - p[x]
                   /\ x \in A => p[x] = f[x]
                   /\ x \notin A => p[x] = 0 /\ q[x] = f[x]
                   /\ x \in A => q[x] = 0
  OBVIOUS
<1>2. /\ B \in SUBSET S /\ IsFiniteSet(A) /\ IsFiniteSet(B)
      /\ \A x \in S \ A : x \notin A /\ x \in S
      /\ \A x \in S \ B : x \in A
  BY FS_Subset
<1> HIDE DEF p, q, B
<1>3. Sum(q, S) = Sum(f, S) - Sum(p, S)
  BY <1>1, SumMinus
<1>4. Sum(p, S) = Sum(f, A)
  <2>1. Sum(p, S) = Sum(p, A)
    BY <1>1, <1>2, SumSupport
  <2>2. Sum(p, A) = Sum(f, A)
    BY <1>1, <1>2, SumSame
  <2> QED BY <2>1, <2>2
<1>5. Sum(q, S) = Sum(f, B)
  <2>1. \A x \in B : q[x] = f[x]
    BY <1>1, <1>2 DEF B
  <2>2. \A x \in S \ B : q[x] = 0
    BY <1>1, <1>2
  <2>3. \A x \in S : q[x] \in Int
    BY <1>1
  <2>4. Sum(q, S) = Sum(q, B)
    BY <1>2, <2>2, <2>3, SumSupport
  <2>5. Sum(q, B) = Sum(f, B)
    BY <1>2, <2>1, SumSame
  <2> QED BY <2>4, <2>5
<1>6. Sum(f, S) \in Int /\ Sum(f, A) \in Int
  <2>1. \A x \in A : f[x] \in Int
    OBVIOUS
  <2> QED BY <1>2, <2>1, SumInt
<1> QED BY <1>3, <1>4, <1>5, <1>6 DEF B

(* .. and in groups, named by n.                                           *)
Grouped(group, n, S) ==
  \A x \in S : group[n[x]] = {y \in S : n[y] = n[x]}

LEMMA SumGroups ==
  ASSUME NEW f, NEW S, IsFiniteSet(S), \A x \in S : f[x] \in Int, NEW n, NEW g,
         NEW B, B = {n[x] : x \in S},
         NEW group, Grouped(group, n, S), \A b \in B : g[b] = Sum(f, group[b])
  PROVE  Sum(g, B) = Sum(f, S)
<1> DEFINE In(T) == {x \in S : n[x] \in T}
           F == {T \in SUBSET B : Sum(g, T) = Sum(f, In(T))}
<1>1. IsFiniteSet(B)
  BY FiniteImage
<1>2. ASSUME NEW b \in B
      PROVE  g[b] \in Int
  <2> DEFINE A == {x \in S : n[x] = b}
  <2>1. A \in SUBSET S /\ \A x \in A : f[x] \in Int
    OBVIOUS
  <2>2. g[b] = Sum(f, group[b])
    OBVIOUS
  <2>3. group[b] = A
    BY DEF Grouped
  <2> HIDE DEF A
  <2> QED BY <2>1, <2>2, <2>3, FS_Subset, SumInt
<1>3. {} \in F
  <2>1. In({}) = {}
    OBVIOUS
  <2> HIDE DEF In
  <2> QED BY <2>1, SumEmpty
<1>4. ASSUME NEW T \in SUBSET B, T # {}, \A b \in T : T \ {b} \in F
      PROVE  T \in F
  <2>1. PICK b \in T : TRUE
    BY <1>4
  <2> DEFINE A == {x \in S : n[x] = b}
             W == In(T)
  <2>2. /\ W \in SUBSET S /\ A \in SUBSET W /\ W \ A = In(T \ {b})
        /\ \A x \in W : f[x] \in Int
    BY <2>1
  <2>3. g[b] = Sum(f, A)
    <3>1. group[b] = A /\ g[b] = Sum(f, group[b])
      BY <2>1 DEF Grouped
    <3> HIDE DEF A
    <3> QED BY <3>1
  <2>4. Sum(g, T \ {b}) = Sum(f, In(T \ {b}))
    BY <1>4, <2>1
  <2> HIDE DEF A, W, In, F
  <2>5. Sum(f, W) = Sum(f, A) + Sum(f, W \ A)
    <3>1. IsFiniteSet(W)
      BY <2>2, FS_Subset
    <3> QED BY <2>2, <3>1, SumSplit
  <2>6. Sum(g, T) = g[b] + Sum(g, T \ {b})
    <3>1. IsFiniteSet(T) /\ \A x \in T : g[x] \in Int
      BY <1>1, <1>2, FS_Subset
    <3> QED BY <2>1, <3>1, SumRemove
  <2>7. Sum(g, T) = Sum(f, W)
    BY <2>2, <2>3, <2>4, <2>5, <2>6
  <2> QED BY <2>7 DEF F, W
<1> HIDE DEF F
<1>5. SUBSET B \subseteq F
  BY <1>1, <1>3, <1>4, SubsetInduction
<1>6. Sum(g, B) = Sum(f, In(B))
  BY <1>5 DEF F
<1>7. In(B) = S
  OBVIOUS
<1> QED BY <1>6, <1>7

(* The largest member of a finite set of integers.                         *)
LEMMA MaxMember ==
  ASSUME NEW S, IsFiniteSet(S), S # {}, S \subseteq Int
  PROVE  Max(S) \in S /\ \A y \in S : y <= Max(S)
<1> DEFINE F == {T \in SUBSET S : T # {} => \E x \in T : \A y \in T : y <= x}
<1>1. {} \in F
  OBVIOUS
<1>2. ASSUME NEW T \in SUBSET S, T # {}, \A x \in T : T \ {x} \in F
      PROVE  T \in F
  <2>1. PICK x \in T : TRUE
    BY <1>2
  <2>2. CASE T \ {x} = {}
    BY <2>1, <2>2
  <2>3. CASE T \ {x} # {}
    <3>1. PICK z \in T \ {x} : \A y \in T \ {x} : y <= z
      BY <1>2, <2>1, <2>3
    <3>2. CASE x <= z
      BY <3>1, <3>2
    <3>3. CASE z <= x
      BY <3>1, <3>3
    <3> QED BY <2>1, <3>1, <3>2, <3>3
  <2> QED BY <2>2, <2>3
<1> HIDE DEF F
<1>3. SUBSET S \subseteq F
  BY <1>1, <1>2, SubsetInduction
<1>4. \E x \in S : \A y \in S : y <= x
  BY <1>3 DEF F
<1>5. \E x \in S : \A y \in S : x >= y
  BY <1>4
<1> QED BY <1>5 DEF Max

-----------------------------------------------------------------------------
(* A strict total order L of S, as a set of pairs, and the number of       *)
(* members below one of them.                                              *)
Orders(L, S) == /\ \A x \in S : <<x, x>> \notin L
                /\ \A x, y, z \in S : <<x, y>> \in L /\ <<y, z>> \in L => <<x, z>> \in L
                /\ \A x, y \in S : x = y \/ <<x, y>> \in L \/ <<y, x>> \in L
Rank(x, L, S) == Cardinality({y \in S : <<y, x>> \in L})

(* e lists S in the order L.                                               *)
Lists(e, L, S) == /\ \E k \in Nat : e = [n \in 1 .. k |-> e[n]]
                  /\ \A n \in DOMAIN e : e[n] \in S
                  /\ \A x \in S : \E n \in DOMAIN e : e[n] = x
                  /\ \A m, n \in DOMAIN e : m < n => <<e[m], e[n]>> \in L

LEMMA RankOrder ==
  ASSUME NEW S, IsFiniteSet(S), NEW L, Orders(L, S)
  PROVE  /\ \A x \in S : Rank(x, L, S) \in 0 .. Cardinality(S) - 1
         /\ \A x, y \in S : <<x, y>> \in L => Rank(x, L, S) < Rank(y, L, S)
         /\ \A x, y \in S : Rank(x, L, S) = Rank(y, L, S) => x = y
<1> DEFINE B(x) == {y \in S : <<y, x>> \in L}
<1>1. \A x \in S : /\ IsFiniteSet(B(x)) /\ Cardinality(B(x)) \in Nat
                   /\ B(x) \in SUBSET S /\ x \notin B(x)
  <2> SUFFICES ASSUME NEW x \in S
               PROVE  /\ IsFiniteSet(B(x)) /\ Cardinality(B(x)) \in Nat
                      /\ B(x) \in SUBSET S /\ x \notin B(x)
    OBVIOUS
  <2>1. B(x) \in SUBSET S /\ x \notin B(x)
    BY DEF Orders
  <2> HIDE DEF B
  <2> QED BY <2>1, FS_Subset, FS_CardinalityType
<1>2. ASSUME NEW x \in S PROVE Cardinality(B(x)) < Cardinality(S)
  <2>1. B(x) # S
    BY <1>1
  <2> HIDE DEF B
  <2>2. Cardinality(S) \in Nat /\ Cardinality(B(x)) <= Cardinality(S)
        /\ (Cardinality(S) = Cardinality(B(x)) => S = B(x))
    BY <1>1, FS_Subset, FS_CardinalityType
  <2> QED BY <1>1, <2>1, <2>2
<1>3. ASSUME NEW x \in S, NEW y \in S, <<x, y>> \in L
      PROVE  Cardinality(B(x)) < Cardinality(B(y))
  <2>1. B(x) \in SUBSET B(y) /\ x \in B(y)
    BY <1>3 DEF Orders
  <2>2. B(x) # B(y)
    BY <1>1, <2>1
  <2> HIDE DEF B
  <2>3. /\ Cardinality(B(x)) <= Cardinality(B(y))
        /\ (Cardinality(B(y)) = Cardinality(B(x)) => B(y) = B(x))
    BY <1>1, <2>1, FS_Subset
  <2> QED BY <1>1, <2>2, <2>3
<1>4. \A x \in S : Rank(x, L, S) = Cardinality(B(x))
  BY DEF Rank
<1>5. Cardinality(S) \in Nat
  BY FS_CardinalityType
<1> HIDE DEF B
<1>6. \A x \in S : Rank(x, L, S) \in 0 .. Cardinality(S) - 1
  BY <1>1, <1>2, <1>4, <1>5
<1>7. \A x, y \in S : <<x, y>> \in L => Rank(x, L, S) < Rank(y, L, S)
  BY <1>3, <1>4
<1>8. \A x, y \in S : Rank(x, L, S) = Rank(y, L, S) => x = y
  <2> SUFFICES ASSUME NEW x \in S, NEW y \in S, Rank(x, L, S) = Rank(y, L, S), x # y
               PROVE  FALSE
    OBVIOUS
  <2>1. <<x, y>> \in L \/ <<y, x>> \in L
    BY DEF Orders
  <2>2. Rank(x, L, S) \in Int /\ Rank(y, L, S) \in Int
    BY <1>6
  <2> QED BY <1>7, <2>1, <2>2
<1> QED BY <1>6, <1>7, <1>8

(* The n-th member is the one with n - 1 below it.                         *)
LEMMA Listed ==
  ASSUME NEW S, IsFiniteSet(S), NEW L, Orders(L, S), NEW e,
         e = [n \in 1 .. Cardinality(S) |-> CHOOSE x \in S : Rank(x, L, S) = n - 1]
  PROVE  Lists(e, L, S) /\ DOMAIN e = 1 .. Cardinality(S)
<1> DEFINE N == Cardinality(S)
           r == [x \in S |-> Rank(x, L, S) + 1]
<1>1. N \in Nat /\ IsFiniteSet(1 .. N) /\ Cardinality(1 .. N) = N
  BY FS_CardinalityType, FS_Interval
<1>2. /\ \A x \in S : r[x] \in 1 .. N /\ r[x] = Rank(x, L, S) + 1
      /\ \A x, y \in S : r[x] = r[y] => x = y
  BY <1>1, RankOrder
<1>3. \A n \in 1 .. N : \E x \in S : r[x] = n
  <2>1. r \in Injection(S, 1 .. N)
    BY <1>2 DEF Injection, IsInjective
  <2> HIDE DEF r
  <2>2. r \in Surjection(S, 1 .. N)
    BY <1>1, <2>1, FS_Injection
  <2> QED BY <2>2 DEF Surjection
<1>4. ASSUME NEW n \in 1 .. N
      PROVE  e[n] \in S /\ Rank(e[n], L, S) = n - 1
  <2>1. PICK x \in S : r[x] = n
    BY <1>3
  <2>2. Rank(x, L, S) = n - 1
    <3>1. Rank(x, L, S) \in Int
      BY <1>1, RankOrder
    <3> QED BY <1>2, <2>1, <3>1
  <2>3. e[n] = CHOOSE y \in S : Rank(y, L, S) = n - 1
    OBVIOUS
  <2> QED BY <2>2, <2>3
<1>5. DOMAIN e = 1 .. N
  OBVIOUS
<1>6. \A x \in S : \E n \in 1 .. N : e[n] = x
  <2> SUFFICES ASSUME NEW x \in S PROVE e[r[x]] = x
    BY <1>2
  <2>1. Rank(e[r[x]], L, S) = Rank(x, L, S) /\ e[r[x]] \in S
    <3>1. Rank(x, L, S) \in Int
      BY <1>1, RankOrder
    <3> QED BY <1>2, <1>4, <3>1
  <2> QED BY <2>1, RankOrder
<1>7. ASSUME NEW m \in 1 .. N, NEW n \in 1 .. N, m < n
      PROVE  <<e[m], e[n]>> \in L
  <2>1. /\ e[m] \in S /\ Rank(e[m], L, S) = m - 1
        /\ e[n] \in S /\ Rank(e[n], L, S) = n - 1
    BY <1>4
  <2>2. e[m] # e[n] /\ ~(<<e[n], e[m]>> \in L)
    BY <1>7, <2>1, RankOrder
  <2> QED BY <2>1, <2>2 DEF Orders
<1>8. e = [n \in 1 .. N |-> e[n]]
  OBVIOUS
<1> HIDE DEF N
<1> QED BY <1>1, <1>4, <1>5, <1>6, <1>7, <1>8 DEF Lists, N

LEMMA ListRank ==
  ASSUME NEW S, NEW L, Orders(L, S), NEW e, Lists(e, L, S), NEW n \in DOMAIN e
  PROVE  n \in Nat \ {0} /\ Rank(e[n], L, S) = n - 1
<1>1. PICK k \in Nat : e = [m \in 1 .. k |-> e[m]]
  BY DEF Lists
<1>2. DOMAIN e = 1 .. k /\ n \in 1 .. k
  BY <1>1
<1> DEFINE I == 1 .. (n - 1)
           B == {y \in S : <<y, e[n]>> \in L}
           g == [m \in I |-> e[m]]
<1>3. IsFiniteSet(I) /\ Cardinality(I) = n - 1
  BY <1>2, FS_Interval
<1>4. \A m \in I : m \in DOMAIN e /\ m < n
  BY <1>2
<1>5. ASSUME NEW m \in I PROVE g[m] \in B
  BY <1>4 DEF Lists
<1>6. ASSUME NEW y \in B PROVE \E m \in I : g[m] = y
  <2>1. PICK m \in DOMAIN e : e[m] = y
    BY DEF Lists
  <2>2. m # n
    BY <2>1 DEF Orders
  <2>3. ~(n < m)
    <3>1. ~(<<e[n], y>> \in L)
      BY DEF Orders, Lists
    <3> QED BY <2>1, <3>1 DEF Lists
  <2>4. m \in I
    BY <1>2, <2>2, <2>3
  <2> QED BY <2>1, <2>4
<1>7. ASSUME NEW i \in I, NEW j \in I, g[i] = g[j] PROVE i = j
  <2>1. i \in DOMAIN e /\ j \in DOMAIN e /\ e[i] = e[j] /\ e[i] \in S /\ i \in Int /\ j \in Int
    BY <1>4, <1>7, <1>2 DEF Lists
  <2>2. ~(i < j) /\ ~(j < i)
    BY <2>1 DEF Lists, Orders
  <2> QED BY <2>1, <2>2
<1>8. g \in Bijection(I, B)
  <2>1. g \in [I -> B]
    BY <1>5
  <2> HIDE DEF B, I, g
  <2> QED BY <1>6, <1>7, <2>1 DEF Bijection, Injection, Surjection, IsInjective
<1> HIDE DEF I, g
<1>9. Cardinality(B) = n - 1
  <2> HIDE DEF B
  <2> QED BY <1>3, <1>8, FS_Bijection DEF ExistsBijection
<1> QED BY <1>2, <1>9 DEF Rank

(* There is one list in the order.                                         *)
LEMMA ListUnique ==
  ASSUME NEW S, IsFiniteSet(S), NEW L, Orders(L, S),
         NEW e, Lists(e, L, S), NEW f, Lists(f, L, S)
  PROVE  e = f
<1>1. PICK k \in Nat : e = [m \in 1 .. k |-> e[m]]
  BY DEF Lists
<1>2. PICK l \in Nat : f = [m \in 1 .. l |-> f[m]]
  BY DEF Lists
<1>3. DOMAIN e = 1 .. k /\ DOMAIN f = 1 .. l
  BY <1>1, <1>2
<1>4. ASSUME NEW n \in DOMAIN e PROVE n \in DOMAIN f /\ f[n] = e[n]
  <2>1. PICK m \in DOMAIN f : f[m] = e[n]
    BY DEF Lists
  <2>2. n - 1 = m - 1 /\ n \in Int /\ m \in Int
    BY <2>1, ListRank
  <2> QED BY <2>1, <2>2
<1>5. ASSUME NEW n \in DOMAIN f PROVE n \in DOMAIN e
  <2>1. PICK m \in DOMAIN e : e[m] = f[n]
    BY DEF Lists
  <2>2. n - 1 = m - 1 /\ n \in Int /\ m \in Int
    BY <2>1, ListRank
  <2> QED BY <2>1, <2>2
<1>6. DOMAIN e = DOMAIN f
  BY <1>4, <1>5
<1>7. e = [m \in DOMAIN e |-> e[m]] /\ f = [m \in DOMAIN f |-> f[m]]
  <2>1. e = [m \in DOMAIN e |-> e[m]]
    BY <1>1, <1>3, Zenon
  <2>2. f = [m \in DOMAIN f |-> f[m]]
    BY <1>2, <1>3, Zenon
  <2> QED BY <2>1, <2>2
<1> QED BY <1>4, <1>6, <1>7
=============================================================================
