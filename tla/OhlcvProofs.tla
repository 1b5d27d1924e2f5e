---------------------------- MODULE OhlcvProofs ----------------------------
(***************************************************************************)
(* Theorems about Ohlcv, for every chain, every set of balances it may     *)
(* have, and any order of commits, backfills and builds.                   *)
(***************************************************************************)
EXTENDS Ohlcv, SetFacts, SequenceTheorems

(* Lexicographic order of pairs, triples and the keys of rows.             *)
LEMMA BeforePair ==
  ASSUME NEW a, NEW b, NEW c, NEW d
  PROVE  Before(<<a, b>>, <<c, d>>) <=> a < c \/ (a = c /\ b < d)
BY DEF Before

LEMMA BeforeTriple ==
  ASSUME NEW a, NEW b, NEW c, NEW d, NEW e, NEW f
  PROVE  Before(<<a, b, c>>, <<d, e, f>>)
           <=> a < d \/ (a = d /\ b < e) \/ (a = d /\ b = e /\ c < f)
BY DEF Before

LEMMA BeforeFour ==
  ASSUME NEW a, NEW b, NEW c, NEW d, NEW e, NEW f, NEW g, NEW h
  PROVE  Before(<<a, b, c, d>>, <<e, f, g, h>>)
           <=> \/ a < e \/ (a = e /\ b < f) \/ (a = e /\ b = f /\ c < g)
               \/ (a = e /\ b = f /\ c = g /\ d < h)
BY DEF Before

Key(r, visit) == <<SlotOf[r[1]], index[r[1]], r[2],
                   IF r[1] \in Unknown THEN visit[r[1]] ELSE 0>>
RowOrder(R, visit) ==
  {p \in R \X R : Before(Key(p[1], visit), Key(p[2], visit))}

LEMMA SortedUnfold ==
  ASSUME NEW R, NEW visit
  PROVE  Sorted(R, visit) =
           [n \in 1 .. Cardinality(R) |->
              CHOOSE x \in R : Rank(x, RowOrder(R, visit), R) = n - 1]
<1>1. Sorted(R, visit) =
        [n \in 1 .. Cardinality(R) |->
           CHOOSE x \in R :
             Cardinality({y \in R : Before(Key(y, visit), Key(x, visit))}) = n - 1]
  BY Zenon DEF Sorted, InOrder, Key
<1>2. ASSUME NEW x \in R
      PROVE  {y \in R : Before(Key(y, visit), Key(x, visit))}
               = {y \in R : <<y, x>> \in RowOrder(R, visit)}
  BY DEF RowOrder
<1>3. \A x \in R : Cardinality({y \in R : Before(Key(y, visit), Key(x, visit))})
                     = Rank(x, RowOrder(R, visit), R)
  BY <1>2, Zenon DEF Rank
<1> QED BY <1>1, <1>3

-----------------------------------------------------------------------------
(* The order of rows.                                                      *)

(* A position is the one in the block, or that of an earlier version.      *)
Placed == \A t \in Txs : \/ index[t] = Position[t]
                         \/ index[t] = -1 /\ SlotOf[t] \in Unindexed

Visits == Bijection(Unknown, 1 .. Cardinality(Unknown))

LEMMA TxFacts ==
  ASSUME Placed, NEW t \in Txs
  PROVE  SlotOf[t] \in Nat /\ Position[t] \in Nat /\ index[t] \in Int
<1>1. SlotOf[t] \in Nat /\ Position[t] \in Nat
  BY OhlcvAssumption
<1>2. CASE index[t] = Position[t]
  BY <1>1, <1>2
<1>3. CASE index[t] = -1
  BY <1>1, <1>3
<1> QED BY <1>1, <1>2, <1>3 DEF Placed

LEMMA RowFacts ==
  ASSUME balance \in Balances, Placed, NEW visit \in Visits, NEW r \in DOMAIN balance
  PROVE  /\ r[1] \in Txs /\ r[2] \in Nat /\ r = <<r[1], r[2]>>
         /\ SlotOf[r[1]] \in Nat /\ index[r[1]] \in Int
         /\ (IF r[1] \in Unknown THEN visit[r[1]] ELSE 0) \in Int
<1>1. r[1] \in Txs /\ r[2] \in Nat /\ r = <<r[1], r[2]>>
  BY OhlcvAssumption
<1>2. SlotOf[r[1]] \in Nat /\ index[r[1]] \in Int
  BY <1>1, TxFacts
<1>3. IsFiniteSet(Unknown)
  BY OhlcvAssumption, FS_Subset DEF Unknown
<1>4. Cardinality(Unknown) \in Nat
  BY <1>3, FS_CardinalityType
<1>5. visit \in [Unknown -> 1 .. Cardinality(Unknown)]
  BY DEF Visits, Bijection, Injection
<1> QED BY <1>1, <1>2, <1>4, <1>5

LEMMA RowsOrdered ==
  ASSUME balance \in Balances, Placed, NEW visit \in Visits, NEW R \in SUBSET DOMAIN balance
  PROVE  Orders(RowOrder(R, visit), R) /\ IsFiniteSet(R)
<1> DEFINE L == RowOrder(R, visit)
           V(r) == IF r[1] \in Unknown THEN visit[r[1]] ELSE 0
           s(r) == SlotOf[r[1]]
           i(r) == index[r[1]]
<1>1. ASSUME NEW r \in R
      PROVE  /\ r[1] \in Txs /\ r[2] \in Int /\ r = <<r[1], r[2]>>
             /\ s(r) \in Int /\ i(r) \in Int /\ V(r) \in Int
  BY RowFacts
<1>2. ASSUME NEW r \in R, NEW q \in R
      PROVE  <<r, q>> \in L <=>
               \/ s(r) < s(q) \/ (s(r) = s(q) /\ i(r) < i(q))
               \/ (s(r) = s(q) /\ i(r) = i(q) /\ r[2] < q[2])
               \/ (s(r) = s(q) /\ i(r) = i(q) /\ r[2] = q[2] /\ V(r) < V(q))
  <2>1. <<r, q>> \in L <=> Before(Key(r, visit), Key(q, visit))
    BY DEF RowOrder
  <2>2. Key(r, visit) = <<s(r), i(r), r[2], V(r)>> /\ Key(q, visit) = <<s(q), i(q), q[2], V(q)>>
    BY DEF Key
  <2> HIDE DEF L, V, s, i
  <2> QED BY <2>1, <2>2, BeforeFour
<1>3. ASSUME NEW r \in R, NEW q \in R, s(r) = s(q), i(r) = i(q), r[2] = q[2], V(r) = V(q)
      PROVE  r = q
  <2>1. r[1] \in Txs /\ q[1] \in Txs /\ SlotOf[r[1]] = SlotOf[q[1]] /\ index[r[1]] = index[q[1]]
    BY <1>1, <1>3
  <2>2. CASE index[r[1]] = -1
    <3>1. r[1] \in Unknown /\ q[1] \in Unknown
      BY <2>1, <2>2 DEF Unknown
    <3>2. visit[r[1]] = visit[q[1]]
      BY <1>3, <3>1
    <3>3. r[1] = q[1]
      BY <3>1, <3>2 DEF Visits, Bijection, Injection, IsInjective
    <3> QED BY <1>1, <1>3, <3>3
  <2>3. CASE index[r[1]] # -1
    <3>1. Position[r[1]] = Position[q[1]]
      BY <2>1, <2>3 DEF Placed
    <3>2. r[1] = q[1]
      BY <2>1, <3>1, OhlcvAssumption
    <3> QED BY <1>1, <1>3, <3>2
  <2> QED BY <2>2, <2>3
<1> HIDE DEF L, V, s, i
<1>4. \A r \in R : <<r, r>> \notin L
  BY <1>1, <1>2
<1>5. \A x, y, z \in R : <<x, y>> \in L /\ <<y, z>> \in L => <<x, z>> \in L
  <2> SUFFICES ASSUME NEW x \in R, NEW y \in R, NEW z \in R,
                      <<x, y>> \in L, <<y, z>> \in L
               PROVE  <<x, z>> \in L
    OBVIOUS
  <2>1. s(x) < s(y) \/ s(x) = s(y)
    BY <1>2
  <2>2. s(y) < s(z) \/ s(y) = s(z)
    BY <1>2
  <2>3. CASE s(x) < s(y) \/ s(y) < s(z)
    BY <1>1, <1>2, <2>1, <2>2, <2>3
  <2>4. CASE s(x) = s(y) /\ s(y) = s(z)
    BY <1>1, <1>2, <2>4
  <2> QED BY <2>1, <2>2, <2>3, <2>4
<1>6. \A x, y \in R : x = y \/ <<x, y>> \in L \/ <<y, x>> \in L
  <2> SUFFICES ASSUME NEW x \in R, NEW y \in R, <<x, y>> \notin L, <<y, x>> \notin L
               PROVE  x = y
    OBVIOUS
  <2>1. s(x) = s(y) /\ i(x) = i(y) /\ x[2] = y[2] /\ V(x) = V(y)
    BY <1>1, <1>2
  <2> QED BY <1>3, <2>1
<1>7. IsFiniteSet(R)
  BY OhlcvAssumption, FS_Subset
<1> QED BY <1>4, <1>5, <1>6, <1>7 DEF Orders, L

LEMMA SequenceLength ==
  ASSUME NEW k \in Nat, NEW e, e = [n \in 1 .. k |-> e[n]]
  PROVE  Len(e) = k /\ DOMAIN e = 1 .. k
<1> DEFINE S == {e[n] : n \in 1 .. k}
<1>1. e \in [1 .. k -> S]
  <2> DEFINE f == [n \in 1 .. k |-> e[n]]
  <2>1. f \in [1 .. k -> S]
    OBVIOUS
  <2> QED BY <2>1
<1> HIDE DEF S
<1>2. e \in Seq(S)
  BY <1>1, SeqDef
<1>3. DOMAIN e = 1 .. k /\ DOMAIN e = 1 .. Len(e) /\ Len(e) \in Nat
  BY <1>1, <1>2, LenProperties
<1> QED BY <1>3

-----------------------------------------------------------------------------
(* The rows of a transaction follow one another.                           *)

(* Blocks stored without positions have one transaction.                   *)
KnownOrder == \A t, u \in Txs :
                SlotOf[t] = SlotOf[u] /\ SlotOf[t] \in Unindexed => t = u

(* At this moment a transaction without position is alone in its block.    *)
PositionsKnown == \A t, u \in Txs : SlotOf[t] = SlotOf[u] /\ index[t] = -1 => t = u

LEMMA OrderKnown == KnownOrder /\ Placed => PositionsKnown
<1> SUFFICES ASSUME KnownOrder, Placed, NEW t \in Txs, NEW u \in Txs,
                    SlotOf[t] = SlotOf[u], index[t] = -1
             PROVE  t = u
  BY DEF PositionsKnown
<1>1. Position[t] \in Nat
  BY OhlcvAssumption
<1>2. SlotOf[t] \in Unindexed
  BY <1>1 DEF Placed
<1> QED BY <1>2 DEF KnownOrder

Earlier(t, u) == \/ SlotOf[t] < SlotOf[u]
                 \/ SlotOf[t] = SlotOf[u] /\ Position[t] < Position[u]

LEMMA EarlierOrder ==
  /\ \A t \in Txs : ~Earlier(t, t)
  /\ \A t, u \in Txs : ~(Earlier(t, u) /\ Earlier(u, t))
  /\ \A t, u, v \in Txs : Earlier(t, u) /\ Earlier(u, v) => Earlier(t, v)
  /\ \A t, u \in Txs : t = u \/ Earlier(t, u) \/ Earlier(u, t)
<1>1. ASSUME NEW t \in Txs PROVE SlotOf[t] \in Int /\ Position[t] \in Int
  <2>1. SlotOf[t] \in Nat /\ Position[t] \in Nat
    BY OhlcvAssumption
  <2> QED BY <2>1
<1>2. \A t, u \in Txs : SlotOf[t] = SlotOf[u] /\ Position[t] = Position[u] => t = u
  BY OhlcvAssumption
<1> QED BY <1>1, <1>2 DEF Earlier

LEMMA SortedLists ==
  ASSUME balance \in Balances, Placed, NEW visit \in Visits, NEW R \in SUBSET DOMAIN balance,
         NEW rows, rows = Sorted(R, visit)
  PROVE  /\ Lists(rows, RowOrder(R, visit), R) /\ Orders(RowOrder(R, visit), R)
         /\ Len(rows) \in Nat /\ DOMAIN rows = 1 .. Len(rows) /\ IsFiniteSet(R)
<1>1. Orders(RowOrder(R, visit), R) /\ IsFiniteSet(R)
  BY RowsOrdered
<1>2. rows = [n \in 1 .. Cardinality(R) |->
                CHOOSE x \in R : Rank(x, RowOrder(R, visit), R) = n - 1]
  BY SortedUnfold, Zenon
<1>3. Lists(rows, RowOrder(R, visit), R) /\ DOMAIN rows = 1 .. Cardinality(R)
  BY <1>1, <1>2, Listed, Zenon
<1>4. Cardinality(R) \in Nat /\ rows = [n \in 1 .. Cardinality(R) |-> rows[n]]
  <2>1. Cardinality(R) \in Nat
    BY <1>1, FS_CardinalityType
  <2>2. PICK k \in Nat : rows = [n \in 1 .. k |-> rows[n]]
    BY <1>3 DEF Lists
  <2>3. DOMAIN rows = 1 .. k
    BY <2>2
  <2>4. rows = [n \in DOMAIN rows |-> rows[n]]
    BY <2>2, <2>3, Zenon
  <2> QED BY <1>3, <2>1, <2>4, Zenon
<1>5. Len(rows) = Cardinality(R)
  BY <1>4, SequenceLength, Zenon
<1> QED BY <1>1, <1>3, <1>4, <1>5

(* What the list of rows is to the transactions.                           *)
Sequence(rows, R) ==
  /\ Len(rows) \in Nat /\ DOMAIN rows = 1 .. Len(rows)
  /\ R \in SUBSET DOMAIN balance
  /\ \A n \in 1 .. Len(rows) : rows[n] \in R /\ rows[n][1] \in Txs
  /\ \A r \in R : \E n \in 1 .. Len(rows) : rows[n] = r
  /\ \A m, n \in 1 .. Len(rows) :
       m < n => /\ rows[m] # rows[n]
                /\ rows[m][1] = rows[n][1] \/ Earlier(rows[m][1], rows[n][1])

LEMMA SortedSequence ==
  ASSUME balance \in Balances, Placed, PositionsKnown, NEW visit \in Visits,
         NEW R \in SUBSET DOMAIN balance
  PROVE  Sequence(Sorted(R, visit), R)
<1> DEFINE rows == Sorted(R, visit)
           L == RowOrder(R, visit)
<1>1. /\ Lists(rows, L, R) /\ Orders(L, R)
      /\ Len(rows) \in Nat /\ DOMAIN rows = 1 .. Len(rows)
  BY SortedLists
<1>2. \A r \in R : r[1] \in Txs
  BY RowFacts
<1>3. ASSUME NEW r \in R, NEW q \in R, <<r, q>> \in L, r[1] # q[1]
      PROVE  Earlier(r[1], q[1])
  <2>1. r[1] \in Txs /\ q[1] \in Txs
    BY <1>2
  <2> DEFINE V(x) == IF x[1] \in Unknown THEN visit[x[1]] ELSE 0
  <2>2. Before(<<SlotOf[r[1]], index[r[1]], r[2], V(r)>>,
               <<SlotOf[q[1]], index[q[1]], q[2], V(q)>>)
    BY <1>3 DEF RowOrder, Key
  <2> HIDE DEF V
  <2>3. \/ SlotOf[r[1]] < SlotOf[q[1]]
        \/ /\ SlotOf[r[1]] = SlotOf[q[1]]
           /\ index[r[1]] < index[q[1]] \/ index[r[1]] = index[q[1]]
    BY <2>2, BeforeFour
  <2>4. CASE SlotOf[r[1]] = SlotOf[q[1]]
    <3>1. index[r[1]] # -1 /\ index[q[1]] # -1
      BY <1>3, <2>1, <2>4 DEF PositionsKnown
    <3>2. index[r[1]] = Position[r[1]] /\ index[q[1]] = Position[q[1]]
      BY <2>1, <3>1 DEF Placed
    <3>3. Position[r[1]] # Position[q[1]]
      BY <1>3, <2>1, <2>4, OhlcvAssumption
    <3>4. SlotOf[r[1]] \in Int
      BY <2>1, TxFacts
    <3> QED BY <2>3, <2>4, <3>2, <3>3, <3>4 DEF Earlier
  <2> QED BY <2>3, <2>4 DEF Earlier
<1> HIDE DEF rows, L
<1>4. ASSUME NEW m \in 1 .. Len(rows), NEW n \in 1 .. Len(rows), m < n
      PROVE  /\ rows[m] # rows[n]
             /\ rows[m][1] = rows[n][1] \/ Earlier(rows[m][1], rows[n][1])
  <2>1. rows[m] \in R /\ rows[n] \in R /\ <<rows[m], rows[n]>> \in L
    BY <1>1, <1>4 DEF Lists
  <2> QED BY <1>1, <1>3, <2>1 DEF Orders
<1>5. /\ \A n \in 1 .. Len(rows) : rows[n] \in R
      /\ \A r \in R : \E n \in 1 .. Len(rows) : rows[n] = r
  BY <1>1 DEF Lists
<1>6. Sequence(rows, R)
  BY <1>1, <1>2, <1>4, <1>5 DEF Sequence
<1> QED BY <1>6 DEF rows

(* Between two rows of a transaction there is no row of another.           *)
LEMMA Between ==
  ASSUME NEW R, NEW rows, Sequence(rows, R),
         NEW i \in 1 .. Len(rows), NEW j \in 1 .. Len(rows), NEW k \in 1 .. Len(rows),
         i <= k, k <= j, rows[i][1] = rows[j][1]
  PROVE  rows[k][1] = rows[i][1]
<1>1. rows[i][1] \in Txs /\ rows[j][1] \in Txs /\ rows[k][1] \in Txs
  BY DEF Sequence
<1>2. CASE i = k \/ k = j
  BY <1>2
<1>3. CASE i < k /\ k < j
  <2>1. /\ rows[i][1] = rows[k][1] \/ Earlier(rows[i][1], rows[k][1])
        /\ rows[k][1] = rows[j][1] \/ Earlier(rows[k][1], rows[j][1])
    BY <1>3 DEF Sequence
  <2> QED BY <1>1, <2>1, EarlierOrder
<1> QED BY <1>2, <1>3

(* A group is all rows of a transaction.                                   *)
LEMMA GroupIs ==
  ASSUME NEW R, NEW rows, Sequence(rows, R), NEW i \in Starts(rows)
  PROVE  Group(rows, i) = {r \in R : r[1] = rows[i][1]}
<1> DEFINE N == Len(rows)
           t == rows[i][1]
<1>1. /\ N \in Nat /\ DOMAIN rows = 1 .. N /\ i \in 1 .. N
      /\ i = 1 \/ rows[i][1] # rows[i - 1][1]
  BY DEF Sequence, Starts, SameGroup
<1>2. \A k \in 1 .. N : k \in Starts(rows) <=> k = 1 \/ rows[k][1] # rows[k - 1][1]
  BY <1>1 DEF Starts, SameGroup
<1>3. ASSUME NEW k \in i .. N, Starts(rows) \cap ((i + 1) .. k) = {}
      PROVE  rows[k][1] = t
  <2> DEFINE bad == {m \in i .. k : rows[m][1] # t}
  <2> SUFFICES ASSUME bad # {} PROVE FALSE
    BY <1>1, <1>3
  <2>1. PICK m \in bad : \A n \in bad : m <= n
    <3>1. bad \subseteq Nat
      BY <1>1
    <3> HIDE DEF bad
    <3> QED BY <3>1, Smallest
  <2>2. m \in i .. k /\ m # i /\ m \in Int /\ i \in Int /\ rows[m][1] # t
    BY <1>1, <2>1
  <2>3. m - 1 \in i .. k /\ m - 1 \notin bad
    BY <1>1, <2>1, <2>2
  <2>4. rows[m - 1][1] = t
    BY <2>3
  <2>5. m \in Starts(rows)
    BY <1>1, <1>2, <2>2, <2>4
  <2>6. m \in (i + 1) .. k
    BY <1>1, <2>2
  <2> QED BY <1>3, <2>5, <2>6
<1>4. ASSUME NEW r \in R, r[1] = t
      PROVE  \E k \in i .. N : Starts(rows) \cap ((i + 1) .. k) = {} /\ rows[k] = r
  <2>1. PICK k \in 1 .. N : rows[k] = r
    BY DEF Sequence
  <2>2. k >= i
    <3> SUFFICES ASSUME k < i PROVE FALSE
      BY <1>1
    <3>1. i # 1 /\ i - 1 \in 1 .. N /\ k <= i - 1 /\ i - 1 <= i
      BY <1>1
    <3>2. rows[i - 1][1] = rows[k][1]
      BY <1>1, <1>4, <2>1, <3>1, Between
    <3> QED BY <1>1, <1>4, <2>1, <3>1, <3>2
  <2>3. ASSUME NEW m \in (i + 1) .. k PROVE m \notin Starts(rows)
    <3>1. /\ m \in 1 .. N /\ m - 1 \in 1 .. N /\ i <= m /\ m <= k
          /\ i <= m - 1 /\ m - 1 <= k /\ m # 1
      BY <1>1, <2>2
    <3>2. rows[m][1] = t /\ rows[m - 1][1] = t
      BY <1>1, <1>4, <2>1, <3>1, Between
    <3> QED BY <1>2, <3>1, <3>2
  <2> QED BY <1>1, <2>1, <2>2, <2>3
<1>5. \A k \in i .. N : rows[k] \in R
  BY <1>1 DEF Sequence
<1>6. Group(rows, i) =
        {rows[j] : j \in {k \in i .. N : Starts(rows) \cap ((i + 1) .. k) = {}}}
  BY DEF Group
<1> HIDE DEF N, t
<1>7. \A x : x \in Group(rows, i) <=> x \in {r \in R : r[1] = t}
  <2>1. ASSUME NEW x \in Group(rows, i) PROVE x \in R /\ x[1] = t
    BY <1>3, <1>5, <1>6
  <2>2. ASSUME NEW x \in R, x[1] = t PROVE x \in Group(rows, i)
    <3>1. PICK k \in i .. N : Starts(rows) \cap ((i + 1) .. k) = {} /\ rows[k] = x
      BY <1>4, <2>2
    <3> QED BY <1>6, <3>1
  <2> QED BY <2>1, <2>2
<1>8. Group(rows, i) = {r \in R : r[1] = t}
  BY <1>7
<1> QED BY <1>8 DEF t

(* Each transaction starts once, in the order of the chain.                *)
LEMMA StartOf ==
  ASSUME NEW R, NEW rows, Sequence(rows, R), NEW r \in R
  PROVE  \E i \in Starts(rows) : rows[i][1] = r[1]
<1> DEFINE own == {k \in 1 .. Len(rows) : rows[k][1] = r[1]}
<1>1. Len(rows) \in Nat /\ DOMAIN rows = 1 .. Len(rows) /\ own # {} /\ own \subseteq Nat
  BY DEF Sequence
<1>2. PICK k \in own : \A m \in own : k <= m
  <2> HIDE DEF own
  <2> QED BY <1>1, Smallest
<1>3. k \in 1 .. Len(rows) /\ rows[k][1] = r[1] /\ k \in Int
  BY <1>1
<1>4. CASE k = 1
  BY <1>1, <1>3, <1>4 DEF Starts
<1>5. CASE k # 1
  <2>1. k - 1 \in 1 .. Len(rows) /\ k - 1 \notin own
    BY <1>1, <1>2, <1>3, <1>5
  <2>2. rows[k - 1][1] # r[1]
    BY <2>1
  <2> QED BY <1>1, <1>3, <2>2 DEF Starts, SameGroup
<1> QED BY <1>4, <1>5

LEMMA StartsInOrder ==
  ASSUME NEW R, NEW rows, Sequence(rows, R),
         NEW i \in Starts(rows), NEW j \in Starts(rows), i < j
  PROVE  Earlier(rows[i][1], rows[j][1])
<1>1. /\ Len(rows) \in Nat /\ DOMAIN rows = 1 .. Len(rows)
      /\ i \in 1 .. Len(rows) /\ j \in 1 .. Len(rows) /\ j # 1
      /\ rows[j][1] # rows[j - 1][1]
  BY DEF Sequence, Starts, SameGroup
<1>2. j - 1 \in 1 .. Len(rows) /\ i <= j - 1 /\ j - 1 <= j
  BY <1>1
<1>3. rows[i][1] # rows[j][1]
  <2> SUFFICES ASSUME rows[i][1] = rows[j][1] PROVE FALSE
    OBVIOUS
  <2>1. rows[j - 1][1] = rows[i][1]
    BY <1>1, <1>2, Between
  <2> QED BY <1>1, <2>1
<1> QED BY <1>1, <1>3 DEF Sequence

-----------------------------------------------------------------------------
(* Sums of the fields of records.                                          *)
(* The net change of a mint in a group of rows ..                          *)
LEMMA DeltaTotal ==
  ASSUME NEW b, NEW A, IsFiniteSet(A), NEW d, \A a \in A : d[a] = b[a].delta
  PROVE  MapThenSumSet(LAMBDA a : b[a].delta, A) = Sum(d, A)
<1> DEFINE Step(f) == [s \in SUBSET A |->
             IF s = {} THEN 0 ELSE LET a == CHOOSE x \in s : TRUE
                                   IN  b[a].delta + f[s \ {a}]]
           h == CHOOSE f : f = Step(f)
<1>1. PICK k : AddsUp(k, d, A)
  BY AddsUpExists
<1>2. ASSUME NEW f
      PROVE  Step(f) = [s \in SUBSET A |->
                          IF s = {} THEN 0 ELSE d[Pick(s)] + f[s \ {Pick(s)}]]
  <2>1. ASSUME NEW s \in SUBSET A, s # {}
        PROVE  d[Pick(s)] = b[Pick(s)].delta
    BY <2>1 DEF Pick
  <2>2. Step(f) = [s \in SUBSET A |->
          IF s = {} THEN 0 ELSE b[Pick(s)].delta + f[s \ {Pick(s)}]]
    BY DEF Pick
  <2> HIDE DEF Step
  <2> QED BY <2>1, <2>2
<1>3. k = Step(k)
  <2> HIDE DEF Step
  <2> QED BY <1>1, <1>2 DEF AddsUp
<1>4. h = Step(h)
  <2> HIDE DEF Step
  <2> QED BY <1>3, Zenon
<1>5. AddsUp(h, d, A)
  <2> HIDE DEF Step, h
  <2> QED BY <1>2, <1>4 DEF AddsUp
<1>6. MapThenSumSet(LAMBDA a : b[a].delta, A) = h[A]
  BY Zenon DEF MapThenSumSet, MapThenFoldSet
<1>7. Sum(d, A) = h[A]
  <2> HIDE DEF h
  <2> QED BY <1>5, SumWithin
<1> QED BY <1>6, <1>7, Zenon

(* .. and the volume of a candle.                                          *)
LEMMA VolumeTotal ==
  ASSUME NEW b, NEW A, IsFiniteSet(A), NEW d, \A a \in A : d[a] = b[a].volume
  PROVE  MapThenSumSet(LAMBDA a : b[a].volume, A) = Sum(d, A)
<1> DEFINE Step(f) == [s \in SUBSET A |->
             IF s = {} THEN 0 ELSE LET a == CHOOSE x \in s : TRUE
                                   IN  b[a].volume + f[s \ {a}]]
           h == CHOOSE f : f = Step(f)
<1>1. PICK k : AddsUp(k, d, A)
  BY AddsUpExists
<1>2. ASSUME NEW f
      PROVE  Step(f) = [s \in SUBSET A |->
                          IF s = {} THEN 0 ELSE d[Pick(s)] + f[s \ {Pick(s)}]]
  <2>1. ASSUME NEW s \in SUBSET A, s # {}
        PROVE  d[Pick(s)] = b[Pick(s)].volume
    BY <2>1 DEF Pick
  <2>2. Step(f) = [s \in SUBSET A |->
          IF s = {} THEN 0 ELSE b[Pick(s)].volume + f[s \ {Pick(s)}]]
    BY DEF Pick
  <2> HIDE DEF Step
  <2> QED BY <2>1, <2>2
<1>3. k = Step(k)
  <2> HIDE DEF Step
  <2> QED BY <1>1, <1>2 DEF AddsUp
<1>4. h = Step(h)
  <2> HIDE DEF Step
  <2> QED BY <1>3, Zenon
<1>5. AddsUp(h, d, A)
  <2> HIDE DEF Step, h
  <2> QED BY <1>2, <1>4 DEF AddsUp
<1>6. MapThenSumSet(LAMBDA a : b[a].volume, A) = h[A]
  BY Zenon DEF MapThenSumSet, MapThenFoldSet
<1>7. Sum(d, A) = h[A]
  <2> HIDE DEF h
  <2> QED BY <1>5, SumWithin
<1> QED BY <1>6, <1>7, Zenon


Delta == [r \in DOMAIN balance |-> balance[r].delta]
Mine(group, mint) == {r \in group : balance[r].mint = mint}

LEMMA NetIs ==
  ASSUME NEW group, NEW mint
  PROVE  balance \in Balances /\ group \subseteq DOMAIN balance
           => /\ IsFiniteSet(Mine(group, mint))
              /\ \A r \in Mine(group, mint) : Delta[r] \in Int
              /\ Net(group, mint) = Sum(Delta, Mine(group, mint))
<1> SUFFICES ASSUME balance \in Balances, group \subseteq DOMAIN balance
             PROVE  /\ IsFiniteSet(Mine(group, mint))
                    /\ \A r \in Mine(group, mint) : Delta[r] \in Int
                    /\ Net(group, mint) = Sum(Delta, Mine(group, mint))
  OBVIOUS
<1>1. /\ IsFiniteSet(DOMAIN balance)
      /\ \A r \in DOMAIN balance : balance[r].delta \in Int
  BY OhlcvAssumption
<1>2. Mine(group, mint) \in SUBSET DOMAIN balance
  BY DEF Mine
<1>3. IsFiniteSet(Mine(group, mint))
  BY <1>1, <1>2, FS_Subset
<1>4. \A r \in Mine(group, mint) : Delta[r] = balance[r].delta /\ Delta[r] \in Int
  BY <1>1, <1>2 DEF Delta
<1>5. Net(group, mint) = MapThenSumSet(LAMBDA r : balance[r].delta, Mine(group, mint))
  BY Zenon DEF Net, Mine
<1>6. MapThenSumSet(LAMBDA r : balance[r].delta, Mine(group, mint))
        = Sum(Delta, Mine(group, mint))
  BY <1>3, <1>4, DeltaTotal
<1>7. Net(group, mint) = Sum(Delta, Mine(group, mint))
  BY <1>5, <1>6, Zenon
<1> QED BY <1>3, <1>4, <1>7

LEMMA NetFacts ==
  ASSUME balance \in Balances, NEW group \in SUBSET DOMAIN balance, NEW mint
  PROVE  Net(group, mint) \in Int /\ Net({}, mint) = 0
<1>1. Net(group, mint) \in Int
  BY NetIs, SumInt
<1>2. Net({}, mint) = Sum(Delta, Mine({}, mint)) /\ Mine({}, mint) = {}
  BY NetIs DEF Mine
<1>3. Net({}, mint) = 0
  BY <1>2, SumEmpty
<1> QED BY <1>1, <1>3

(* No rows, no trade; the amounts of a trade.                              *)
LEMMA TradeFacts ==
  ASSUME balance \in Balances, NEW group \in SUBSET DOMAIN balance, IsTrade(group),
         NEW tx \in Txs
  PROVE  /\ group # {}
         /\ Trade(group, tx).price \in Nat /\ Trade(group, tx).volume \in Nat \ {0}
         /\ Trade(group, tx).mint \in Mints
<1>1. PICK m \in Mints : Bases(group) = {m}
  BY DEF IsTrade
<1> DEFINE n == CHOOSE q \in Mints : Bases(group) = {q}
<1>2. n \in Mints /\ Bases(group) = {n}
  BY <1>1
<1>3. Net(group, WSOL) \in Int /\ Net(group, n) \in Int /\ Net(group, n) # 0
  <2>1. Net(group, n) # 0
    BY <1>2, Zenon DEF Bases
  <2> HIDE DEF n
  <2> QED BY <2>1, NetFacts
<1>4. Net(group, WSOL) # 0
  BY DEF IsTrade
<1>5. group # {}
  BY <1>4, NetFacts
<1>6. Amount(Net(group, WSOL)) \in Nat /\ Amount(Net(group, n)) \in Nat \ {0}
  <2> HIDE DEF n
  <2> QED BY <1>3 DEF Amount
<1>7. PriceScale \in Nat
  BY OhlcvAssumption
<1>8. (Amount(Net(group, WSOL)) * PriceScale) \div Amount(Net(group, n)) \in Nat
  <2> DEFINE x == Amount(Net(group, WSOL))
             y == Amount(Net(group, n))
  <2> HIDE DEF x, y, n
  <2>1. x \in Nat /\ y \in Nat \ {0}
    BY <1>6 DEF x, y
  <2>2. x * PriceScale \in Nat
    BY <1>7, <2>1
  <2>3. (x * PriceScale) \div y \in Nat
    BY <2>1, <2>2
  <2> QED BY <2>3 DEF x, y
<1>9. /\ Trade(group, tx).price = (Amount(Net(group, WSOL)) * PriceScale) \div Amount(Net(group, n))
      /\ Trade(group, tx).volume = Amount(Net(group, n))
      /\ Trade(group, tx).mint = n
  BY DEF Trade
<1> HIDE DEF n
<1> QED BY <1>2, <1>5, <1>6, <1>8, <1>9

-----------------------------------------------------------------------------
(* The orders of groups and of whole transactions.                         *)
Rising(S) == {p \in S \X S : p[1] < p[2]}

LEMMA RisingOrder ==
  ASSUME NEW S \in SUBSET Int
  PROVE  Orders(Rising(S), S)
BY DEF Orders, Rising

LEMMA RisingUnfold ==
  ASSUME NEW S
  PROVE  InOrder(S, LAMBDA i, j : i < j) =
           [n \in 1 .. Cardinality(S) |->
              CHOOSE x \in S : Rank(x, Rising(S), S) = n - 1]
<1>1. InOrder(S, LAMBDA i, j : i < j) =
        [n \in 1 .. Cardinality(S) |->
           CHOOSE x \in S : Cardinality({y \in S : y < x}) = n - 1]
  BY Zenon DEF InOrder
<1>2. ASSUME NEW x \in S
      PROVE  {y \in S : y < x} = {y \in S : <<y, x>> \in Rising(S)}
  BY DEF Rising
<1>3. \A x \in S : Cardinality({y \in S : y < x}) = Rank(x, Rising(S), S)
  BY <1>2, Zenon DEF Rank
<1> QED BY <1>1, <1>3

Trading(rows) == {i \in Starts(rows) : IsTrade(Group(rows, i))}

LEMMA TradesUnfold ==
  ASSUME NEW rows, IsFiniteSet(Trading(rows)), Trading(rows) \in SUBSET Int
  PROVE  \E e : /\ Lists(e, Rising(Trading(rows)), Trading(rows))
                /\ TradesFromRows(rows) =
                     [n \in DOMAIN e |-> Trade(Group(rows, e[n]), rows[e[n]][1])]
<1> DEFINE S == Trading(rows)
           e == InOrder(S, LAMBDA i, j : i < j)
<1>1. e = [n \in 1 .. Cardinality(S) |-> CHOOSE x \in S : Rank(x, Rising(S), S) = n - 1]
  BY RisingUnfold, Zenon
<1>2. TradesFromRows(rows) = [n \in DOMAIN e |-> Trade(Group(rows, e[n]), rows[e[n]][1])]
  BY Zenon DEF TradesFromRows, Trading
<1> HIDE DEF e, S
<1>3. Lists(e, Rising(S), S)
  BY <1>1, RisingOrder, Listed DEF S
<1> QED BY <1>2, <1>3 DEF S

Due(S) == {t \in Txs : IsTrade({r \in RowsOf(S) : r[1] = t})}
ChainOrder(D) == {p \in D \X D : Earlier(p[1], p[2])}

LEMMA ChainOrders ==
  ASSUME NEW D \in SUBSET Txs
  PROVE  Orders(ChainOrder(D), D) /\ IsFiniteSet(D)
<1>1. IsFiniteSet(D)
  BY OhlcvAssumption, FS_Subset
<1>2. Orders(ChainOrder(D), D)
  <2>1. \A t, u \in D : <<t, u>> \in ChainOrder(D) <=> Earlier(t, u)
    BY DEF ChainOrder
  <2>2. \A t \in D : t \in Txs
    OBVIOUS
  <2> QED BY <2>1, <2>2, EarlierOrder DEF Orders
<1> QED BY <1>1, <1>2

LEMMA ChainUnfold ==
  ASSUME NEW S
  PROVE  \E e : /\ Lists(e, ChainOrder(Due(S)), Due(S))
                /\ ChainTrades(S) =
                     [n \in DOMAIN e |-> Trade({r \in RowsOf(S) : r[1] = e[n]}, e[n])]
<1> DEFINE D == Due(S)
           K(t) == <<SlotOf[t], Position[t]>>
           e == InOrder(D, LAMBDA t, u : Before(K(t), K(u)))
<1>1. e = [n \in 1 .. Cardinality(D) |->
             CHOOSE x \in D : Cardinality({y \in D : Before(K(y), K(x))}) = n - 1]
  BY Zenon DEF InOrder
<1>2. ChainTrades(S) = [n \in DOMAIN e |-> Trade({r \in RowsOf(S) : r[1] = e[n]}, e[n])]
  BY Zenon DEF ChainTrades, Due
<1>3. \A t, u \in D : Before(K(t), K(u)) <=> Earlier(t, u)
  BY BeforePair DEF Earlier
<1>4. D \in SUBSET Txs
  BY DEF Due
<1> HIDE DEF e, D, K
<1>5. ASSUME NEW x \in D
      PROVE  {y \in D : Before(K(y), K(x))} = {y \in D : <<y, x>> \in ChainOrder(D)}
  BY <1>3 DEF ChainOrder
<1>6. \A x \in D : Cardinality({y \in D : Before(K(y), K(x))}) = Rank(x, ChainOrder(D), D)
  BY <1>5, Zenon DEF Rank
<1>7. e = [n \in 1 .. Cardinality(D) |-> CHOOSE x \in D : Rank(x, ChainOrder(D), D) = n - 1]
  BY <1>1, <1>6
<1>8. Lists(e, ChainOrder(D), D)
  BY <1>4, <1>7, ChainOrders, Listed
<1> QED BY <1>2, <1>8 DEF D

(* Rows in order give the trades of the transactions in order.             *)
LEMMA RowsGiveChain ==
  ASSUME balance \in Balances, Placed, PositionsKnown, NEW visit \in Visits, NEW S
  PROVE  TradesFromRows(Sorted(RowsOf(S), visit)) = ChainTrades(S)
<1> DEFINE R == RowsOf(S)
           rows == Sorted(R, visit)
           T == Trading(rows)
           D == Due(S)
           own(t) == {r \in R : r[1] = t}
<1>1. R \in SUBSET DOMAIN balance
  BY DEF RowsOf
<1>2. Sequence(rows, R)
  <2> HIDE DEF R
  <2> QED BY <1>1, SortedSequence
<1> HIDE DEF rows, R
<1>3. \A i \in T : Group(rows, i) = own(rows[i][1])
  BY <1>2, GroupIs DEF Trading
<1>4. /\ T \in SUBSET Int /\ IsFiniteSet(T) /\ \A i \in T : i \in Starts(rows) /\ rows[i][1] \in Txs
  <2>1. Len(rows) \in Nat /\ T \subseteq 1 .. Len(rows) /\ \A i \in T : rows[i][1] \in Txs
    BY <1>2 DEF Sequence, Trading, Starts
  <2>2. \A i \in T : i \in Starts(rows)
    BY DEF Trading
  <2> HIDE DEF T
  <2> QED BY <2>1, <2>2, WithinInterval
<1>5. PICK e : /\ Lists(e, Rising(T), T)
               /\ TradesFromRows(rows) =
                    [n \in DOMAIN e |-> Trade(Group(rows, e[n]), rows[e[n]][1])]
  BY <1>4, TradesUnfold
<1>6. PICK f : /\ Lists(f, ChainOrder(D), D)
               /\ ChainTrades(S) = [n \in DOMAIN f |-> Trade(own(f[n]), f[n])]
  <2>1. \E f : /\ Lists(f, ChainOrder(Due(S)), Due(S))
               /\ ChainTrades(S) =
                    [n \in DOMAIN f |-> Trade({r \in RowsOf(S) : r[1] = f[n]}, f[n])]
    BY ChainUnfold
  <2> QED BY <2>1, Zenon DEF R
<1>7. \A t : t \in D <=> t \in Txs /\ IsTrade(own(t))
  BY DEF Due, R
<1> DEFINE g == [n \in DOMAIN e |-> rows[e[n]][1]]
<1>8. /\ DOMAIN g = DOMAIN e
      /\ \A n \in DOMAIN e : g[n] = rows[e[n]][1] /\ e[n] \in T
  BY <1>5 DEF Lists
<1>9. \A i \in T : rows[i][1] \in D
  <2>1. \A i \in T : IsTrade(Group(rows, i))
    BY DEF Trading
  <2> HIDE DEF own, T
  <2> QED BY <1>3, <1>4, <1>7, <2>1
<1>10. ASSUME NEW t \in D
       PROVE  \E n \in DOMAIN e : g[n] = t
  <2>1. t \in Txs /\ IsTrade(own(t)) /\ own(t) \in SUBSET DOMAIN balance
    <3>1. own(t) \in SUBSET DOMAIN balance
      BY <1>1
    <3> HIDE DEF own
    <3> QED BY <1>7, <3>1
  <2>2. PICK r \in R : r[1] = t
    <3>1. own(t) # {}
      <4> HIDE DEF own
      <4> QED BY <2>1, TradeFacts
    <3> QED BY <3>1
  <2>3. PICK i \in Starts(rows) : rows[i][1] = t
    BY <1>2, <2>2, StartOf
  <2>4. i \in T
    <3>1. Group(rows, i) = own(t)
      BY <1>2, <2>3, GroupIs
    <3> HIDE DEF own
    <3> QED BY <2>1, <2>3, <3>1 DEF Trading
  <2>5. PICK n \in DOMAIN e : e[n] = i
    BY <1>5, <2>4 DEF Lists
  <2> QED BY <1>8, <2>3, <2>5
<1>11. ASSUME NEW m \in DOMAIN e, NEW n \in DOMAIN e, m < n
       PROVE  <<g[m], g[n]>> \in ChainOrder(D)
  <2>1. e[m] \in T /\ e[n] \in T /\ e[m] < e[n]
    BY <1>5, <1>11 DEF Lists, Rising
  <2>2. Earlier(rows[e[m]][1], rows[e[n]][1])
    BY <1>2, <1>4, <2>1, StartsInOrder
  <2>3. g[m] = rows[e[m]][1] /\ g[n] = rows[e[n]][1] /\ g[m] \in D /\ g[n] \in D
    BY <1>8, <1>9, <2>1
  <2> HIDE DEF g, D
  <2> QED BY <2>2, <2>3 DEF ChainOrder
<1>12. \E k \in Nat : g = [n \in 1 .. k |-> g[n]]
  <2>1. PICK k \in Nat : e = [n \in 1 .. k |-> e[n]]
    BY <1>5 DEF Lists
  <2>2. DOMAIN e = 1 .. k
    BY <2>1
  <2>3. g = [n \in DOMAIN e |-> g[n]]
    OBVIOUS
  <2> QED BY <2>2, <2>3, Zenon
<1>13. Lists(g, ChainOrder(D), D)
  <2>1. \A n \in DOMAIN e : g[n] \in D
    BY <1>8, <1>9
  <2> HIDE DEF g, D, T
  <2> QED BY <1>8, <1>10, <1>11, <1>12, <2>1 DEF Lists
<1>14. g = f
  <2>1. D \in SUBSET Txs
    BY <1>7
  <2> HIDE DEF g, D
  <2> QED BY <1>6, <1>13, <2>1, ChainOrders, ListUnique
<1>15. ASSUME NEW n \in DOMAIN e
       PROVE  Trade(Group(rows, e[n]), rows[e[n]][1]) = Trade(own(g[n]), g[n])
  <2> HIDE DEF own, g
  <2> QED BY <1>3, <1>8
<1>16. [n \in DOMAIN e |-> Trade(Group(rows, e[n]), rows[e[n]][1])]
         = [n \in DOMAIN f |-> Trade(own(f[n]), f[n])]
  <2> HIDE DEF own, g
  <2> QED BY <1>8, <1>14, <1>15
<1> HIDE DEF own, T, D, g
<1> QED BY <1>5, <1>6, <1>16 DEF rows, R

(* The trades of any order of rows.                                        *)
Genuine(trade) == /\ trade.price \in Nat /\ trade.volume \in Nat \ {0}
                  /\ trade.slot \in Nat /\ trade.index \in Int

LEMMA TradesTyped ==
  ASSUME balance \in Balances, Placed, NEW visit \in Visits, NEW S,
         NEW ts, ts = TradesFromRows(Sorted(RowsOf(S), visit))
  PROVE  /\ \E k \in Nat : DOMAIN ts = 1 .. k
         /\ \A n \in DOMAIN ts : Genuine(ts[n])
<1> DEFINE R == RowsOf(S)
           rows == Sorted(R, visit)
           T == Trading(rows)
<1>1. R \in SUBSET DOMAIN balance
  BY DEF RowsOf
<1>2. Lists(rows, RowOrder(R, visit), R) /\ Len(rows) \in Nat /\ DOMAIN rows = 1 .. Len(rows)
  <2> HIDE DEF R
  <2> QED BY <1>1, SortedLists
<1>3. ts = TradesFromRows(rows)
  BY DEF rows, R
<1> HIDE DEF rows, R
<1>4. \A n \in 1 .. Len(rows) : rows[n] \in R /\ rows[n][1] \in Txs
  BY <1>1, <1>2, RowFacts DEF Lists
<1>5. T \in SUBSET Int /\ IsFiniteSet(T) /\ T \subseteq 1 .. Len(rows)
  <2>1. Len(rows) \in Nat /\ T \subseteq 1 .. Len(rows)
    BY <1>2 DEF Trading, Starts
  <2> HIDE DEF T
  <2> QED BY <2>1, WithinInterval
<1>6. PICK e : /\ Lists(e, Rising(T), T)
               /\ ts = [n \in DOMAIN e |-> Trade(Group(rows, e[n]), rows[e[n]][1])]
  BY <1>3, <1>5, TradesUnfold
<1>7. ASSUME NEW i \in T
      PROVE  /\ Group(rows, i) \in SUBSET DOMAIN balance /\ IsTrade(Group(rows, i))
             /\ rows[i][1] \in Txs
  <2>1. \A j \in i .. Len(rows) : j \in 1 .. Len(rows)
    BY <1>2, <1>5
  <2>2. \A x \in Group(rows, i) : x \in R
    BY <1>4, <2>1 DEF Group
  <2> QED BY <1>1, <1>4, <1>5, <2>2 DEF Trading
<1>8. ASSUME NEW i \in T
      PROVE  Genuine(Trade(Group(rows, i), rows[i][1]))
  <2> DEFINE t == rows[i][1]
             G == Group(rows, i)
  <2>1. G \in SUBSET DOMAIN balance /\ IsTrade(G) /\ t \in Txs
    BY <1>7
  <2> HIDE DEF t, G
  <2>2. Trade(G, t).price \in Nat /\ Trade(G, t).volume \in Nat \ {0}
    BY <2>1, TradeFacts
  <2>3. Trade(G, t).slot = SlotOf[t] /\ Trade(G, t).index = index[t]
    BY DEF Trade
  <2>4. Genuine(Trade(G, t))
    BY <2>1, <2>2, <2>3, TxFacts DEF Genuine
  <2> QED BY <2>4 DEF t, G
<1>9. \A n \in DOMAIN e : e[n] \in T
  BY <1>6 DEF Lists
<1>10. \E k \in Nat : DOMAIN e = 1 .. k
  BY <1>6 DEF Lists
<1>11. DOMAIN ts = DOMAIN e
  BY <1>6
<1>12. \A n \in DOMAIN e : Genuine(ts[n])
  <2> HIDE DEF T
  <2> QED BY <1>6, <1>8, <1>9
<1> QED BY <1>10, <1>11, <1>12

-----------------------------------------------------------------------------
(* Candles.                                                                *)
Prices(ts, P) == {ts[i].price : i \in P}
Volume(ts, P) == MapThenSumSet(LAMBDA i : ts[i].volume, P)

After(ts, i, j) == \/ ts[i].slot < ts[j].slot
                   \/ ts[i].slot = ts[j].slot /\ ts[i].index < ts[j].index
                   \/ ts[i].slot = ts[j].slot /\ ts[i].index = ts[j].index /\ i < j
TradeOrder(ts, P) == {p \in P \X P : After(ts, p[1], p[2])}

LEMMA TradeOrders ==
  ASSUME NEW ts, NEW P \in SUBSET Nat, \A i \in P : Genuine(ts[i])
  PROVE  Orders(TradeOrder(ts, P), P)
<1>1. ASSUME NEW i \in P
      PROVE  ts[i].slot \in Int /\ ts[i].index \in Int /\ i \in Int
  <2>1. Genuine(ts[i]) /\ i \in Nat
    OBVIOUS
  <2>2. ts[i].slot \in Nat /\ ts[i].index \in Int
    BY <2>1, Zenon DEF Genuine
  <2> QED BY <2>1, <2>2
<1>2. \A i, j \in P : <<i, j>> \in TradeOrder(ts, P) <=> After(ts, i, j)
  BY DEF TradeOrder
<1> DEFINE s(i) == ts[i].slot
           n(i) == ts[i].index
<1>3. \A i, j \in P : <<i, j>> \in TradeOrder(ts, P)
                        <=> \/ s(i) < s(j)
                            \/ s(i) = s(j) /\ n(i) < n(j)
                            \/ s(i) = s(j) /\ n(i) = n(j) /\ i < j
  BY <1>2 DEF After
<1>4. \A i \in P : s(i) \in Int /\ n(i) \in Int /\ i \in Int
  BY <1>1
<1> HIDE DEF s, n
<1>5. \A i \in P : <<i, i>> \notin TradeOrder(ts, P)
  BY <1>3, <1>4
<1>6. \A i, j, k \in P : <<i, j>> \in TradeOrder(ts, P) /\ <<j, k>> \in TradeOrder(ts, P)
                           => <<i, k>> \in TradeOrder(ts, P)
  BY <1>3, <1>4
<1>7. \A i, j \in P : i = j \/ <<i, j>> \in TradeOrder(ts, P) \/ <<j, i>> \in TradeOrder(ts, P)
  <2> SUFFICES ASSUME NEW i \in P, NEW j \in P,
                      <<i, j>> \notin TradeOrder(ts, P), <<j, i>> \notin TradeOrder(ts, P)
               PROVE  i = j
    OBVIOUS
  <2>1. ~(s(i) < s(j)) /\ ~(s(j) < s(i))
    BY <1>3
  <2>2. s(i) = s(j)
    BY <1>4, <2>1
  <2>3. n(i) = n(j)
    BY <1>3, <1>4, <2>2
  <2> QED BY <1>3, <1>4, <2>2, <2>3
<1> QED BY <1>5, <1>6, <1>7 DEF Orders

(* A candle opens with the first of its trades and closes with the last.   *)
LEMMA CandleUnfold ==
  ASSUME NEW ts, NEW P \in SUBSET Nat, IsFiniteSet(P), P # {}, \A i \in P : Genuine(ts[i])
  PROVE  \E f, l \in P :
           /\ \A i \in P : (i = f \/ After(ts, f, i)) /\ (i = l \/ After(ts, i, l))
           /\ Candle(ts, P) =
                [open |-> ts[f].price, close |-> ts[l].price,
                 high |-> Max(Prices(ts, P)), low |-> Min(Prices(ts, P)),
                 volume |-> Volume(ts, P)]
<1> DEFINE K(i) == <<ts[i].slot, ts[i].index, i>>
           g == InOrder(P, LAMBDA i, j : Before(K(i), K(j)))
           L == TradeOrder(ts, P)
<1>1. g = [n \in 1 .. Cardinality(P) |->
             CHOOSE x \in P : Cardinality({y \in P : Before(K(y), K(x))}) = n - 1]
  BY Zenon DEF InOrder
<1>2. Candle(ts, P) = [open |-> ts[Head(g)].price, close |-> ts[Last(g)].price,
                       high |-> Max(Prices(ts, P)), low |-> Min(Prices(ts, P)),
                       volume |-> Volume(ts, P)]
  BY Zenon DEF Candle, Prices, Volume
<1>3. \A i, j \in P : Before(K(i), K(j)) <=> After(ts, i, j)
  BY BeforeTriple DEF After
<1>4. Orders(L, P)
  BY TradeOrders
<1>5. \A i, j \in P : <<i, j>> \in L <=> After(ts, i, j)
  BY DEF TradeOrder
<1> HIDE DEF g, K, L
<1>6. ASSUME NEW x \in P
      PROVE  {y \in P : Before(K(y), K(x))} = {y \in P : <<y, x>> \in L}
  BY <1>3, <1>5
<1>7. \A x \in P : Cardinality({y \in P : Before(K(y), K(x))}) = Rank(x, L, P)
  BY <1>6, Zenon DEF Rank
<1>8. g = [n \in 1 .. Cardinality(P) |-> CHOOSE x \in P : Rank(x, L, P) = n - 1]
  <2>1. ASSUME NEW n
        PROVE  (CHOOSE x \in P : Cardinality({y \in P : Before(K(y), K(x))}) = n - 1)
                 = (CHOOSE x \in P : Rank(x, L, P) = n - 1)
    BY <1>7
  <2> DEFINE a(n) == CHOOSE x \in P : Cardinality({y \in P : Before(K(y), K(x))}) = n - 1
             b(n) == CHOOSE x \in P : Rank(x, L, P) = n - 1
  <2>2. g = [n \in 1 .. Cardinality(P) |-> a(n)] /\ \A n : a(n) = b(n)
    BY <1>1, <2>1
  <2>3. g = [n \in 1 .. Cardinality(P) |-> b(n)]
    <3> HIDE DEF a, b
    <3> QED BY <2>2
  <2> QED BY <2>3
<1>9. Lists(g, L, P) /\ DOMAIN g = 1 .. Cardinality(P)
  BY <1>4, <1>8, Listed
<1> DEFINE k == Cardinality(P)
<1>10. k \in Nat \ {0}
  BY FS_CardinalityType, FS_EmptySet
<1> HIDE DEF k
<1>11. Len(g) = k /\ DOMAIN g = 1 .. k /\ g = [n \in 1 .. k |-> g[n]]
  <2>1. DOMAIN g = 1 .. k
    BY <1>9 DEF k
  <2>2. g = [n \in 1 .. k |-> g[n]]
    <3>1. PICK m \in Nat : g = [n \in 1 .. m |-> g[n]]
      BY <1>9 DEF Lists
    <3>2. DOMAIN g = 1 .. m
      BY <3>1
    <3> QED BY <2>1, <3>1, <3>2, Zenon
  <2>3. k \in Nat
    BY <1>10
  <2> QED BY <2>1, <2>2, <2>3, SequenceLength, Zenon
<1>12. Head(g) = g[1] /\ Last(g) = g[k]
  <2>1. Last(g) = g[k]
    BY <1>11, Zenon DEF Last
  <2>2. Head(g) = g[1]
    <3>1. g \in [1 .. k -> P]
      <4>1. \A n \in 1 .. k : g[n] \in P
        BY <1>9, <1>11 DEF Lists
      <4> QED BY <1>11, <4>1
    <3>2. g \in Seq(P)
      BY <1>10, <3>1, SeqDef
    <3> QED BY <3>2
  <2> QED BY <2>1, <2>2
<1>13. g[1] \in P /\ g[k] \in P
  BY <1>9, <1>10, <1>11 DEF Lists
<1>14. ASSUME NEW i \in P
       PROVE  (i = g[1] \/ After(ts, g[1], i)) /\ (i = g[k] \/ After(ts, i, g[k]))
  <2>1. PICK n \in 1 .. k : g[n] = i
    BY <1>9, <1>11 DEF Lists
  <2>2. \A a, b \in 1 .. k : a < b => <<g[a], g[b]>> \in L
    BY <1>9, <1>11, Zenon DEF Lists
  <2>3. n = 1 \/ <<g[1], g[n]>> \in L
    BY <1>10, <2>2
  <2>4. n = k \/ <<g[n], g[k]>> \in L
    BY <1>10, <2>2
  <2> QED BY <1>5, <1>13, <2>1, <2>3, <2>4
<1> QED BY <1>2, <1>12, <1>13, <1>14

(* The types of a candle.                                                  *)
Sound(candle) ==
  /\ candle \in CandleType
  /\ {candle.open, candle.close} \subseteq candle.low .. candle.high

LEMMA PriceFacts ==
  ASSUME NEW ts, NEW P, IsFiniteSet(P), P # {}, \A i \in P : Genuine(ts[i])
  PROVE  /\ Prices(ts, P) \subseteq Nat /\ IsFiniteSet(Prices(ts, P)) /\ Prices(ts, P) # {}
         /\ Max(Prices(ts, P)) \in Prices(ts, P) /\ Min(Prices(ts, P)) \in Prices(ts, P)
         /\ \A x \in Prices(ts, P) : Min(Prices(ts, P)) <= x /\ x <= Max(Prices(ts, P))
<1> DEFINE S == Prices(ts, P)
           n == [i \in P |-> ts[i].price]
<1>1. S \subseteq Nat /\ S # {}
  BY DEF Prices, Genuine
<1>2. IsFiniteSet(S)
  <2>1. S = {n[i] : i \in P}
    BY DEF Prices
  <2>2. IsFiniteSet({n[i] : i \in P})
    <3> HIDE DEF n
    <3> QED BY FiniteImage
  <2> QED BY <2>1, <2>2
<1> HIDE DEF S
<1>3. Max(S) \in S /\ \A y \in S : y <= Max(S)
  <2>1. S \subseteq Int
    BY <1>1
  <2> QED BY <1>1, <1>2, <2>1, MaxMember
<1>4. Min(S) \in S /\ \A y \in S : Min(S) <= y
  BY <1>1, MinMember
<1> QED BY <1>1, <1>2, <1>3, <1>4 DEF S

LEMMA VolumeIs ==
  ASSUME NEW ts, NEW P, IsFiniteSet(P), NEW v, \A i \in P : v[i] = ts[i].volume
  PROVE  Volume(ts, P) = Sum(v, P)
<1>1. Volume(ts, P) = MapThenSumSet(LAMBDA i : ts[i].volume, P)
  BY Zenon DEF Volume
<1>2. MapThenSumSet(LAMBDA i : ts[i].volume, P) = Sum(v, P)
  BY VolumeTotal
<1> QED BY <1>1, <1>2, Zenon

LEMMA CandleSound ==
  ASSUME NEW ts, NEW P \in SUBSET Nat, IsFiniteSet(P), P # {}, \A i \in P : Genuine(ts[i])
  PROVE  Sound(Candle(ts, P))
<1>1. PICK f \in P, l \in P :
        Candle(ts, P) = [open |-> ts[f].price, close |-> ts[l].price,
                         high |-> Max(Prices(ts, P)), low |-> Min(Prices(ts, P)),
                         volume |-> Volume(ts, P)]
  BY CandleUnfold
<1>2. ts[f].price \in Prices(ts, P) /\ ts[l].price \in Prices(ts, P)
  BY DEF Prices
<1>3. Volume(ts, P) \in Nat
  <2> DEFINE v == [i \in P |-> ts[i].volume]
  <2>1. \A i \in P : v[i] = ts[i].volume /\ v[i] \in Nat
    BY DEF Genuine
  <2> HIDE DEF v
  <2>2. Volume(ts, P) = Sum(v, P)
    BY <2>1, VolumeIs
  <2> QED BY <2>1, <2>2, SumNat
<1> DEFINE hi == Max(Prices(ts, P))
           lo == Min(Prices(ts, P))
<1>4. /\ ts[f].price \in Nat /\ ts[l].price \in Nat /\ hi \in Nat /\ lo \in Nat
      /\ lo <= ts[f].price /\ ts[f].price <= hi /\ lo <= ts[l].price /\ ts[l].price <= hi
  BY <1>2, PriceFacts
<1> HIDE DEF hi, lo
<1>5. Candle(ts, P) = [open |-> ts[f].price, close |-> ts[l].price,
                       high |-> hi, low |-> lo, volume |-> Volume(ts, P)]
  BY <1>1 DEF hi, lo
<1> QED BY <1>3, <1>4, <1>5 DEF Sound, CandleType

KeyOf(t, n) == <<t.mint, n, Bucket(t.time, n)>>
Keys(ts) == {KeyOf(ts[i], n) : i \in DOMAIN ts, n \in {Short, Long}}
Members(ts, k) == {i \in DOMAIN ts : KeyOf(ts[i], k[2]) = k}

LEMMA CandlesUnfold ==
  ASSUME NEW ts
  PROVE  /\ Candles(ts) = [k \in Keys(ts) |-> Candle(ts, Members(ts, k))]
         /\ \A k \in Keys(ts) : Members(ts, k) # {} /\ Members(ts, k) \subseteq DOMAIN ts
<1>1. Candles(ts) = [k \in Keys(ts) |-> Candle(ts, Members(ts, k))]
  BY DEF Candles, Keys, Members, KeyOf
<1>2. ASSUME NEW k \in Keys(ts)
      PROVE  Members(ts, k) # {} /\ Members(ts, k) \subseteq DOMAIN ts
  <2>1. PICK i \in DOMAIN ts, n \in {Short, Long} : k = KeyOf(ts[i], n)
    BY DEF Keys
  <2>2. k[2] = n
    BY <2>1 DEF KeyOf
  <2> QED BY <2>1, <2>2 DEF Members
<1> QED BY <1>1, <1>2

LEMMA CandlesSound ==
  ASSUME NEW ts, NEW n \in Nat, DOMAIN ts = 1 .. n, \A i \in 1 .. n : Genuine(ts[i])
  PROVE  \A k \in DOMAIN Candles(ts) : Sound(Candles(ts)[k])
<1> SUFFICES ASSUME NEW k \in Keys(ts)
             PROVE  Sound(Candle(ts, Members(ts, k)))
  BY CandlesUnfold
<1> DEFINE P == Members(ts, k)
<1>1. P # {} /\ P \subseteq 1 .. n
  BY CandlesUnfold
<1> HIDE DEF P
<1>2. IsFiniteSet(P) /\ P \in SUBSET Nat /\ \A i \in P : Genuine(ts[i])
  <2>1. IsFiniteSet(P)
    BY <1>1, WithinInterval
  <2> QED BY <1>1, <2>1
<1>3. Sound(Candle(ts, P))
  BY <1>1, <1>2, CandleSound
<1> QED BY <1>3 DEF P

-----------------------------------------------------------------------------
(* Types.  A candle is what Candle makes of genuine trades, so trades are   *)
(* genuine while a build holds them.                                       *)
Types == /\ TypeOK
         /\ balance \in Balances /\ Placed
         /\ \E k \in Nat : DOMAIN trades = 1 .. k
         /\ \A i \in DOMAIN trades : Genuine(trades[i])

AllSound(candles) == \A k \in DOMAIN candles : Sound(candles[k])

LEMMA TablesSound == TypeOK => AllSound(table) /\ AllSound(draft)
BY DEF TypeOK, AllSound, Sound

LEMMA UpsertSound ==
  ASSUME NEW f, NEW g, NEW n, AllSound(f), AllSound(g)
  PROVE  AllSound(Upsert(OfInterval(f, n), g))
<1> DEFINE h == OfInterval(f, n)
<1>1. AllSound(h)
  BY DEF AllSound, OfInterval
<1> HIDE DEF h
<1> QED BY <1>1 DEF AllSound, Upsert, Over, h

LEMMA TypesInit == Init => Types
<1> SUFFICES ASSUME Init PROVE Types
  OBVIOUS
<1>1. /\ balance \in Balances /\ stored = Unindexed /\ read = {} /\ kept = {}
      /\ phase = "idle" /\ trades = <<>> /\ table = <<>> /\ draft = <<>>
      /\ index = [t \in Txs |-> IF SlotOf[t] \in Unindexed THEN -1 ELSE Position[t]]
  BY DEF Init
<1>2. /\ Unindexed \subseteq Slots /\ \A t \in Txs : Position[t] \in Nat
  BY OhlcvAssumption
<1>3. index \in [Txs -> Nat \cup {-1}] /\ Placed
  BY <1>1, <1>2 DEF Placed
<1>4. DOMAIN trades = 1 .. 0 /\ DOMAIN table = {} /\ DOMAIN draft = {}
  BY <1>1
<1> QED BY <1>1, <1>2, <1>3, <1>4 DEF Types, TypeOK

LEMMA TypesNext == Types /\ [Next]_vars => Types'
<1> SUFFICES ASSUME Types, [Next]_vars PROVE Types'
  OBVIOUS
<1> USE DEF Types, chain, build
<1>0. AllSound(table) /\ AllSound(draft)
  BY TablesSound
<1>1. ASSUME NEW s \in Slots, WriteBlock(s) PROVE Types'
  <2>1. /\ stored' = stored \cup {s} /\ balance' = balance /\ index' = index
        /\ phase' = phase /\ read' = read /\ trades' = trades /\ table' = table
        /\ draft' = draft /\ kept' = kept
    BY <1>1 DEF WriteBlock
  <2> QED BY <2>1 DEF TypeOK, Placed
<1>2. ASSUME NEW s \in Slots, Backfill(s) PROVE Types'
  <2>1. /\ stored' = stored /\ balance' = balance
        /\ phase' = phase /\ read' = read /\ trades' = trades /\ table' = table
        /\ draft' = draft /\ kept' = kept
        /\ index' = [t \in Txs |-> IF SlotOf[t] = s THEN Position[t] ELSE index[t]]
    BY <1>2 DEF Backfill
  <2>2. \A t \in Txs : Position[t] \in Nat
    BY OhlcvAssumption
  <2>3. index' \in [Txs -> Nat \cup {-1}] /\ Placed'
    BY <2>1, <2>2 DEF TypeOK, Placed
  <2> QED BY <2>1, <2>3 DEF TypeOK
<1>3. ASSUME ExtractTrades PROVE Types'
  <2>1. /\ stored' = stored /\ balance' = balance /\ index' = index
        /\ table' = table /\ draft' = draft /\ kept' = kept
        /\ phase' = "built" /\ read' = stored
    BY <1>3 DEF ExtractTrades
  <2>2. PICK visit \in Visits : trades' = TradesFromRows(Sorted(RowsOf(stored), visit))
    BY <1>3, Zenon DEF ExtractTrades, Visits
  <2>3. /\ \E k \in Nat : DOMAIN trades' = 1 .. k
        /\ \A i \in DOMAIN trades' : Genuine(trades'[i])
    BY <2>2, TradesTyped
  <2>4. Placed'
    BY <2>1 DEF Placed
  <2>5. TypeOK'
    BY <2>1, <2>3 DEF TypeOK, Genuine
  <2> QED BY <2>1, <2>3, <2>4, <2>5
<1>4. AllSound(Candles(trades))
  BY CandlesSound DEF AllSound
<1>5. ASSUME StoreOneMinute PROVE Types'
  <2>1. /\ stored' = stored /\ balance' = balance /\ index' = index
        /\ read' = read /\ trades' = trades /\ kept' = kept /\ table' = table
        /\ phase' = "storing"
        /\ draft' = Upsert(OfInterval(Candles(trades), Short), table)
    BY <1>5 DEF StoreOneMinute, Execute
  <2>2. AllSound(draft') /\ AllSound(table')
    BY <1>0, <1>4, <2>1, UpsertSound
  <2>3. TypeOK'
    BY <2>1, <2>2 DEF TypeOK, AllSound, Sound
  <2> QED BY <2>1, <2>3 DEF Placed
<1>6. ASSUME Finish, AllSound(table'), kept' \in {read, kept} PROVE Types'
  <2>1. /\ stored' = stored /\ balance' = balance /\ index' = index
        /\ phase' = "idle" /\ read' = {} /\ trades' = <<>> /\ draft' = <<>>
    BY <1>6 DEF Finish
  <2>2. Placed' /\ DOMAIN trades' = 1 .. 0 /\ DOMAIN draft' = {}
    BY <2>1 DEF Placed
  <2>3. TypeOK'
    BY <1>6, <2>1, <2>2 DEF TypeOK, AllSound, Sound
  <2> QED BY <2>1, <2>2, <2>3
<1>7. ASSUME StoreFiveMinutes PROVE Types'
  <2>1. /\ table' = Upsert(OfInterval(Candles(trades), Long), draft)
        /\ Finish /\ kept' = read
    BY <1>7 DEF StoreFiveMinutes
  <2>2. AllSound(table')
    BY <1>0, <1>4, <2>1, UpsertSound
  <2> QED BY <1>6, <2>1, <2>2
<1>8. ASSUME BuildFails PROVE Types'
  <2>1. Finish /\ table' = table /\ kept' = kept
    BY <1>8 DEF BuildFails
  <2> QED BY <1>0, <1>6, <2>1
<1>9. CASE UNCHANGED vars
  BY <1>9 DEF TypeOK, Placed, vars
<1> QED BY <1>1, <1>2, <1>3, <1>5, <1>7, <1>8, <1>9 DEF Next

LEMMA SpecTypes == Spec => []Types
<1> QED BY TypesInit, TypesNext, PTL DEF Spec

(* Amounts and prices are never negative, and a candle's price range holds *)
(* its first and last price, in whatever order equal keys of the SELECT    *)
(* come (ohlcv.rs: trade_from_group, build_candles_for_interval).          *)
THEOREM TypeCorrect == Spec => []TypeOK
<1>1. Types => TypeOK
  BY DEF Types
<1> QED BY <1>1, SpecTypes, PTL

-----------------------------------------------------------------------------
(* The trades of the chain, whatever the positions known when they were    *)
(* found.                                                                  *)
Own(t) == {r \in DOMAIN balance : r[1] = t}
Sale(t, i) == [Trade(Own(t), t) EXCEPT !.index = i]

IsChain(ts, S) ==
  \E e : /\ Lists(e, ChainOrder(Due(S)), Due(S))
         /\ ts = [n \in DOMAIN e |-> ts[n]]
         /\ \A n \in DOMAIN e :
              \E i \in Int : /\ ts[n] = Sale(e[n], i)
                             /\ \/ i = Position[e[n]]
                                \/ i = -1 /\ SlotOf[e[n]] \in Unindexed

LEMMA OwnRows ==
  ASSUME balance \in Balances, NEW S, NEW t
  PROVE  t \in Due(S) <=> t \in Txs /\ SlotOf[t] \in S \ Untimed /\ IsTrade(Own(t))
<1> DEFINE G == {r \in RowsOf(S) : r[1] = t}
<1>1. t \in Due(S) <=> t \in Txs /\ IsTrade(G)
  BY DEF Due
<1>2. CASE SlotOf[t] \in S \ Untimed
  <2>1. G = Own(t)
    BY <1>2 DEF RowsOf, Own
  <2> HIDE DEF G
  <2> QED BY <1>1, <1>2, <2>1
<1>3. CASE SlotOf[t] \notin S \ Untimed
  <2>1. G = {}
    BY <1>3 DEF RowsOf
  <2>2. G \in SUBSET DOMAIN balance
    BY DEF RowsOf
  <2>3. t \notin Due(S)
    <3> HIDE DEF G
    <3> QED BY <1>1, <2>1, <2>2, TradeFacts
  <2> QED BY <1>3, <2>3
<1> QED BY <1>2, <1>3

LEMMA OwnOf ==
  ASSUME balance \in Balances, NEW S, NEW t \in Due(S)
  PROVE  /\ {r \in RowsOf(S) : r[1] = t} = Own(t)
         /\ Own(t) \in SUBSET DOMAIN balance /\ IsTrade(Own(t)) /\ t \in Txs
<1>1. t \in Txs /\ SlotOf[t] \in S \ Untimed /\ IsTrade(Own(t))
  BY OwnRows
<1>2. {r \in RowsOf(S) : r[1] = t} = Own(t)
  BY <1>1 DEF RowsOf, Own
<1>3. Own(t) \in SUBSET DOMAIN balance
  BY DEF Own
<1> QED BY <1>1, <1>2, <1>3

LEMMA SaleFields ==
  ASSUME balance \in Balances, NEW S, NEW t \in Due(S), NEW i
  PROVE  /\ Sale(t, i).price \in Nat /\ Sale(t, i).volume \in Nat \ {0}
         /\ Sale(t, i).slot = SlotOf[t] /\ Sale(t, i).index = i
         /\ Sale(t, i).time = Time[SlotOf[t]] /\ Sale(t, i).tx = t
         /\ Sale(t, index[t]) = Trade(Own(t), t)
         /\ \A j : /\ Sale(t, i) = [Sale(t, j) EXCEPT !.index = i]
                   /\ Sale(t, i).mint = Sale(t, j).mint
                   /\ Sale(t, i).price = Sale(t, j).price
                   /\ Sale(t, i).volume = Sale(t, j).volume
<1> DEFINE G == Own(t)
<1>1. G \in SUBSET DOMAIN balance /\ IsTrade(G) /\ t \in Txs
  BY OwnOf
<1>2. PICK mint, volume, price :
        Trade(G, t) = [mint |-> mint, tx |-> t, time |-> Time[SlotOf[t]], slot |-> SlotOf[t],
                       index |-> index[t], volume |-> volume, price |-> price]
  BY Zenon DEF Trade
<1> HIDE DEF G
<1>3. Trade(G, t).price \in Nat /\ Trade(G, t).volume \in Nat \ {0}
  BY <1>1, TradeFacts
<1>4. \A j : Sale(t, j) = [mint |-> mint, tx |-> t, time |-> Time[SlotOf[t]], slot |-> SlotOf[t],
                           index |-> j, volume |-> volume, price |-> price]
  <2>1. \A j : Sale(t, j) = [Trade(G, t) EXCEPT !.index = j]
    BY Zenon DEF Sale, G
  <2> QED BY <1>2, <2>1
<1>5. Sale(t, index[t]) = Trade(Own(t), t)
  BY <1>2, <1>4 DEF G
<1> QED BY <1>2, <1>3, <1>4, <1>5

LEMMA ChainIsChain ==
  ASSUME balance \in Balances, Placed, NEW S
  PROVE  IsChain(ChainTrades(S), S)
<1>1. PICK e : /\ Lists(e, ChainOrder(Due(S)), Due(S))
               /\ ChainTrades(S) =
                    [n \in DOMAIN e |-> Trade({r \in RowsOf(S) : r[1] = e[n]}, e[n])]
  BY ChainUnfold
<1>2. \A n \in DOMAIN e : e[n] \in Due(S)
  BY <1>1 DEF Lists
<1>3. ASSUME NEW n \in DOMAIN e
      PROVE  \E i \in Int : /\ ChainTrades(S)[n] = Sale(e[n], i)
                            /\ \/ i = Position[e[n]]
                               \/ i = -1 /\ SlotOf[e[n]] \in Unindexed
  <2> DEFINE t == e[n]
  <2>1. t \in Due(S)
    BY <1>2
  <2>2. ChainTrades(S)[n] = Trade({r \in RowsOf(S) : r[1] = t}, t)
    BY <1>1
  <2> HIDE DEF t
  <2>3. {r \in RowsOf(S) : r[1] = t} = Own(t) /\ t \in Txs
    BY <2>1, OwnOf
  <2>4. Trade(Own(t), t) = Sale(t, index[t])
    BY <2>1, SaleFields
  <2>5. /\ index[t] \in Int
        /\ \/ index[t] = Position[t]
           \/ index[t] = -1 /\ SlotOf[t] \in Unindexed
    BY <2>3, TxFacts DEF Placed
  <2>6. ChainTrades(S)[n] = Sale(t, index[t])
    BY <2>2, <2>3, <2>4, Zenon
  <2> QED BY <2>5, <2>6, Zenon DEF t
<1>4. ChainTrades(S) = [n \in DOMAIN e |-> ChainTrades(S)[n]]
  <2> DEFINE sale == [n \in DOMAIN e |-> Trade({r \in RowsOf(S) : r[1] = e[n]}, e[n])]
  <2>1. sale = [n \in DOMAIN e |-> sale[n]]
    OBVIOUS
  <2>2. sale = ChainTrades(S)
    BY <1>1
  <2> HIDE DEF sale
  <2> QED BY <2>1, <2>2
<1> QED BY <1>1, <1>3, <1>4, Zenon DEF IsChain

(* Two such sequences differ in known positions alone.                     *)
LEMMA ChainsAlike ==
  ASSUME balance \in Balances, NEW S, NEW ts, IsChain(ts, S), NEW us, IsChain(us, S)
  PROVE  /\ DOMAIN ts = DOMAIN us /\ Len(ts) = Len(us)
         /\ \A i \in DOMAIN ts :
              /\ ts[i] = [us[i] EXCEPT !.index = ts[i].index]
              /\ ts[i].mint = us[i].mint /\ ts[i].time = us[i].time
              /\ ts[i].price = us[i].price /\ ts[i].volume = us[i].volume
<1> DEFINE D == Due(S)
<1>1. PICK e : /\ Lists(e, ChainOrder(D), D) /\ DOMAIN ts = DOMAIN e
               /\ ts = [n \in DOMAIN e |-> ts[n]]
               /\ \A n \in DOMAIN e : \E i \in Int : ts[n] = Sale(e[n], i)
  BY DEF IsChain
<1>2. PICK f : /\ Lists(f, ChainOrder(D), D) /\ DOMAIN us = DOMAIN f
               /\ us = [n \in DOMAIN f |-> us[n]]
               /\ \A n \in DOMAIN f : \E i \in Int : us[n] = Sale(f[n], i)
  BY DEF IsChain
<1>3. e = f
  <2>1. D \in SUBSET Txs
    BY DEF Due
  <2> HIDE DEF D
  <2> QED BY <1>1, <1>2, <2>1, ChainOrders, ListUnique
<1>4. ASSUME NEW n \in DOMAIN e
      PROVE  /\ ts[n] = [us[n] EXCEPT !.index = ts[n].index]
             /\ ts[n].mint = us[n].mint /\ ts[n].time = us[n].time
             /\ ts[n].price = us[n].price /\ ts[n].volume = us[n].volume
  <2>1. e[n] \in Due(S)
    BY <1>1 DEF Lists
  <2>2. PICK i \in Int : ts[n] = Sale(e[n], i)
    BY <1>1
  <2>3. PICK j \in Int : us[n] = Sale(e[n], j)
    BY <1>2, <1>3
  <2>4. /\ Sale(e[n], i).index = i
        /\ Sale(e[n], i) = [Sale(e[n], j) EXCEPT !.index = i]
        /\ Sale(e[n], i).mint = Sale(e[n], j).mint
        /\ Sale(e[n], i).price = Sale(e[n], j).price
        /\ Sale(e[n], i).volume = Sale(e[n], j).volume
        /\ Sale(e[n], i).time = Sale(e[n], j).time
    BY <2>1, SaleFields
  <2> QED BY <2>2, <2>3, <2>4
<1>5. Len(ts) = Len(us)
  <2>1. PICK k \in Nat : DOMAIN e = 1 .. k
    BY <1>1 DEF Lists
  <2>2. ts = [n \in 1 .. k |-> ts[n]] /\ us = [n \in 1 .. k |-> us[n]]
    BY <1>1, <1>2, <1>3, <2>1, Zenon
  <2>3. Len(ts) = k
    BY <2>2, SequenceLength, Zenon
  <2>4. Len(us) = k
    BY <2>2, SequenceLength, Zenon
  <2> QED BY <2>3, <2>4
<1> QED BY <1>1, <1>2, <1>3, <1>4, <1>5

(* They are in the order in which a candle sorts its trades.               *)
Straight(ts) == /\ \E k \in Nat : DOMAIN ts = 1 .. k
                /\ \A i \in DOMAIN ts : Genuine(ts[i])
                /\ \A i, j \in DOMAIN ts : i < j => After(ts, i, j)

LEMMA ChainStraight ==
  ASSUME balance \in Balances, KnownOrder, NEW S, NEW ts, IsChain(ts, S)
  PROVE  Straight(ts)
<1> DEFINE D == Due(S)
<1>1. PICK e : /\ Lists(e, ChainOrder(D), D) /\ DOMAIN ts = DOMAIN e
               /\ \A n \in DOMAIN e :
                    \E i \in Int : /\ ts[n] = Sale(e[n], i)
                                   /\ \/ i = Position[e[n]]
                                      \/ i = -1 /\ SlotOf[e[n]] \in Unindexed
  BY DEF IsChain
<1>2. ASSUME NEW n \in DOMAIN e
      PROVE  /\ Genuine(ts[n]) /\ e[n] \in Txs
             /\ ts[n].slot = SlotOf[e[n]]
             /\ SlotOf[e[n]] \notin Unindexed => ts[n].index = Position[e[n]]
  <2>1. e[n] \in Due(S)
    BY <1>1 DEF Lists
  <2>2. PICK i \in Int : /\ ts[n] = Sale(e[n], i)
                         /\ \/ i = Position[e[n]]
                            \/ i = -1 /\ SlotOf[e[n]] \in Unindexed
    BY <1>1
  <2>3. e[n] \in Txs /\ SlotOf[e[n]] \in Nat
    <3>1. e[n] \in Txs
      BY <2>1, OwnOf
    <3> QED BY <3>1, OhlcvAssumption
  <2>4. /\ Sale(e[n], i).price \in Nat /\ Sale(e[n], i).volume \in Nat \ {0}
        /\ Sale(e[n], i).slot = SlotOf[e[n]] /\ Sale(e[n], i).index = i
    BY <2>1, SaleFields
  <2> QED BY <2>2, <2>3, <2>4 DEF Genuine
<1>3. ASSUME NEW m \in DOMAIN e, NEW n \in DOMAIN e, m < n
      PROVE  After(ts, m, n)
  <2>1. Earlier(e[m], e[n])
    BY <1>1, <1>3 DEF Lists, ChainOrder
  <2>2. e[m] # e[n]
    BY <1>2, <2>1, EarlierOrder
  <2>3. CASE SlotOf[e[m]] < SlotOf[e[n]]
    BY <1>2, <2>3 DEF After
  <2>4. CASE SlotOf[e[m]] = SlotOf[e[n]] /\ Position[e[m]] < Position[e[n]]
    <3>1. SlotOf[e[m]] \notin Unindexed
      BY <1>2, <2>2, <2>4 DEF KnownOrder
    <3> QED BY <1>2, <2>4, <3>1 DEF After
  <2> QED BY <2>1, <2>3, <2>4 DEF Earlier
<1>4. \E k \in Nat : DOMAIN ts = 1 .. k
  BY <1>1 DEF Lists
<1> QED BY <1>1, <1>2, <1>3, <1>4 DEF Straight

LEMMA StraightCandle ==
  ASSUME NEW ts, Straight(ts), NEW P, P \subseteq DOMAIN ts, P # {}
  PROVE  /\ Candle(ts, P) =
              [open |-> ts[Min(P)].price, close |-> ts[Max(P)].price,
               high |-> Max(Prices(ts, P)), low |-> Min(Prices(ts, P)),
               volume |-> Volume(ts, P)]
         /\ IsFiniteSet(P) /\ P \in SUBSET Nat
         /\ Min(P) \in P /\ Max(P) \in P /\ \A i \in P : Min(P) <= i /\ i <= Max(P)
<1>1. PICK k \in Nat : DOMAIN ts = 1 .. k
  BY DEF Straight
<1>2. IsFiniteSet(P) /\ P \in SUBSET Nat
  <2>1. IsFiniteSet(P)
    BY <1>1, WithinInterval
  <2> QED BY <1>1, <2>1
<1>3. \A i \in P : Genuine(ts[i]) /\ i \in DOMAIN ts
  BY DEF Straight
<1>4. PICK f \in P, l \in P :
        /\ \A i \in P : (i = f \/ After(ts, f, i)) /\ (i = l \/ After(ts, i, l))
        /\ Candle(ts, P) = [open |-> ts[f].price, close |-> ts[l].price,
                            high |-> Max(Prices(ts, P)), low |-> Min(Prices(ts, P)),
                            volume |-> Volume(ts, P)]
  BY <1>2, <1>3, CandleUnfold
<1>5. ASSUME NEW i \in P, NEW j \in P, i < j
      PROVE  After(ts, i, j) /\ ~After(ts, j, i)
  <2>1. After(ts, i, j)
    BY <1>3, <1>5 DEF Straight
  <2>2. /\ ts[i].slot \in Int /\ ts[j].slot \in Int /\ i \in Int /\ j \in Int
        /\ ts[i].index \in Int /\ ts[j].index \in Int
    BY <1>2, <1>3 DEF Genuine
  <2> QED BY <2>1, <2>2 DEF After
<1>6. Min(P) \in P /\ \A i \in P : Min(P) <= i
  BY <1>2, MinMember
<1>7. Max(P) \in P /\ \A i \in P : i <= Max(P)
  <2>1. P \subseteq Int
    BY <1>2
  <2> QED BY <1>2, <2>1, MaxMember
<1>8. f = Min(P)
  <2>1. Min(P) \in Int /\ f \in Int /\ Min(P) <= f
    BY <1>2, <1>6
  <2>2. ~(Min(P) < f)
    <3> SUFFICES ASSUME Min(P) < f PROVE FALSE
      OBVIOUS
    <3>1. Min(P) # f /\ After(ts, f, Min(P))
      BY <1>4, <1>6, <2>1
    <3> QED BY <1>5, <1>6, <3>1
  <2> QED BY <2>1, <2>2
<1>9. l = Max(P)
  <2>1. Max(P) \in Int /\ l \in Int /\ l <= Max(P)
    BY <1>2, <1>7
  <2>2. ~(l < Max(P))
    <3> SUFFICES ASSUME l < Max(P) PROVE FALSE
      OBVIOUS
    <3>1. Max(P) # l /\ After(ts, Max(P), l)
      BY <1>4, <1>7, <2>1
    <3> QED BY <1>5, <1>7, <3>1
  <2> QED BY <2>1, <2>2
<1> QED BY <1>2, <1>4, <1>6, <1>7, <1>8, <1>9

(* So candles depend on prices, volumes, mints and times alone.            *)
LEMMA AlikeCandles ==
  ASSUME NEW ts, NEW us, Straight(ts), Straight(us), DOMAIN ts = DOMAIN us,
         \A i \in DOMAIN ts :
           /\ ts[i].mint = us[i].mint /\ ts[i].time = us[i].time
           /\ ts[i].price = us[i].price /\ ts[i].volume = us[i].volume
  PROVE  Candles(ts) = Candles(us)
<1>1. \A i \in DOMAIN ts : \A n : KeyOf(ts[i], n) = KeyOf(us[i], n)
  BY DEF KeyOf
<1>2. Keys(ts) = Keys(us)
  BY <1>1 DEF Keys
<1>3. ASSUME NEW k \in Keys(ts)
      PROVE  Candle(ts, Members(ts, k)) = Candle(us, Members(us, k))
  <2> DEFINE P == Members(ts, k)
  <2>1. P = Members(us, k)
    BY <1>1 DEF Members
  <2>2. P # {} /\ P \subseteq DOMAIN ts
    BY CandlesUnfold
  <2> HIDE DEF P
  <2>3. /\ Candle(ts, P) =
              [open |-> ts[Min(P)].price, close |-> ts[Max(P)].price,
               high |-> Max(Prices(ts, P)), low |-> Min(Prices(ts, P)),
               volume |-> Volume(ts, P)]
        /\ IsFiniteSet(P) /\ Min(P) \in P /\ Max(P) \in P
    BY <2>2, StraightCandle
  <2>4. Candle(us, P) =
              [open |-> us[Min(P)].price, close |-> us[Max(P)].price,
               high |-> Max(Prices(us, P)), low |-> Min(Prices(us, P)),
               volume |-> Volume(us, P)]
    BY <2>2, StraightCandle
  <2>5. Prices(ts, P) = Prices(us, P)
    BY <2>2 DEF Prices
  <2>6. Volume(ts, P) = Volume(us, P)
    <3> DEFINE v == [i \in P |-> ts[i].volume]
    <3>1. \A i \in P : v[i] = ts[i].volume /\ v[i] = us[i].volume
      BY <2>2
    <3> HIDE DEF v
    <3>2. Volume(ts, P) = Sum(v, P)
      BY <2>3, <3>1, VolumeIs
    <3>3. Volume(us, P) = Sum(v, P)
      BY <2>3, <3>1, VolumeIs
    <3> QED BY <3>2, <3>3
  <2>7. ts[Min(P)].price = us[Min(P)].price /\ ts[Max(P)].price = us[Max(P)].price
    BY <2>2, <2>3
  <2>8. Candle(ts, P) = Candle(us, P)
    BY <2>3, <2>4, <2>5, <2>6, <2>7
  <2> QED BY <2>1, <2>8 DEF P
<1>4. /\ Candles(ts) = [k \in Keys(ts) |-> Candle(ts, Members(ts, k))]
      /\ Candles(us) = [k \in Keys(us) |-> Candle(us, Members(us, k))]
  BY CandlesUnfold
<1> QED BY <1>2, <1>3, <1>4

LEMMA ChainCandles ==
  ASSUME balance \in Balances, KnownOrder,
         NEW S, NEW ts, IsChain(ts, S), NEW us, IsChain(us, S)
  PROVE  Candles(ts) = Candles(us)
<1>1. Straight(ts) /\ Straight(us)
  BY ChainStraight
<1>2. /\ DOMAIN ts = DOMAIN us
      /\ \A i \in DOMAIN ts :
           /\ ts[i].mint = us[i].mint /\ ts[i].time = us[i].time
           /\ ts[i].price = us[i].price /\ ts[i].volume = us[i].volume
  BY ChainsAlike
<1> QED BY <1>1, <1>2, AlikeCandles

(* More blocks, no fewer candles.                                          *)
LEMMA CandlesGrow ==
  ASSUME balance \in Balances, NEW T, NEW S \in SUBSET T,
         NEW ts, IsChain(ts, S), NEW us, IsChain(us, T)
  PROVE  DOMAIN Candles(ts) \subseteq DOMAIN Candles(us)
<1>1. PICK e : /\ Lists(e, ChainOrder(Due(S)), Due(S)) /\ DOMAIN ts = DOMAIN e
               /\ \A n \in DOMAIN e : \E i \in Int : ts[n] = Sale(e[n], i)
  BY DEF IsChain
<1>2. PICK f : /\ Lists(f, ChainOrder(Due(T)), Due(T)) /\ DOMAIN us = DOMAIN f
               /\ \A n \in DOMAIN f : \E i \in Int : us[n] = Sale(f[n], i)
  BY DEF IsChain
<1>3. ASSUME NEW m \in DOMAIN e
      PROVE  \E n \in DOMAIN f : ts[m].mint = us[n].mint /\ ts[m].time = us[n].time
  <2> DEFINE t == e[m]
  <2>1. t \in Due(S)
    BY <1>1 DEF Lists
  <2> HIDE DEF t
  <2>2. t \in Due(T)
    <3>1. t \in Txs /\ SlotOf[t] \in S \ Untimed /\ IsTrade(Own(t))
      BY <2>1, OwnRows
    <3>2. SlotOf[t] \in T \ Untimed
      BY <3>1
    <3> QED BY <3>1, <3>2, OwnRows
  <2>3. PICK n \in DOMAIN f : f[n] = t
    BY <1>2, <2>2 DEF Lists
  <2>4. PICK i \in Int : ts[m] = Sale(t, i)
    BY <1>1 DEF t
  <2>5. PICK j \in Int : us[n] = Sale(t, j)
    BY <1>2, <2>3
  <2>6. Sale(t, i).mint = Sale(t, j).mint /\ Sale(t, i).time = Sale(t, j).time
    BY <2>1, SaleFields
  <2> QED BY <2>4, <2>5, <2>6
<1>4. Keys(ts) \subseteq Keys(us)
  <2> SUFFICES ASSUME NEW m \in DOMAIN ts, NEW s \in {Short, Long}
               PROVE  KeyOf(ts[m], s) \in Keys(us)
    BY DEF Keys
  <2>1. PICK n \in DOMAIN us : ts[m].mint = us[n].mint /\ ts[m].time = us[n].time
    BY <1>1, <1>2, <1>3
  <2>2. KeyOf(ts[m], s) = KeyOf(us[n], s)
    BY <2>1 DEF KeyOf
  <2> QED BY <2>2 DEF Keys
<1>5. DOMAIN Candles(ts) = Keys(ts) /\ DOMAIN Candles(us) = Keys(us)
  BY CandlesUnfold
<1> QED BY <1>4, <1>5

-----------------------------------------------------------------------------
(* None of this changes while balances do not.                             *)
LEMMA NetIsNext ==
  ASSUME NEW G, NEW mint
  PROVE  (balance \in Balances /\ G \subseteq DOMAIN balance
            => /\ IsFiniteSet(Mine(G, mint))
               /\ \A r \in Mine(G, mint) : Delta[r] \in Int
               /\ Net(G, mint) = Sum(Delta, Mine(G, mint)))'
<1>1. balance \in Balances /\ G \subseteq DOMAIN balance
        => /\ IsFiniteSet(Mine(G, mint))
           /\ \A r \in Mine(G, mint) : Delta[r] \in Int
           /\ Net(G, mint) = Sum(Delta, Mine(G, mint))
  BY NetIs
<1> QED BY <1>1, PTL

LEMMA NetStays ==
  ASSUME balance \in Balances, balance' = balance,
         NEW G \in SUBSET DOMAIN balance, NEW mint
  PROVE  Net(G, mint)' = Net(G, mint)
<1>1. Net(G, mint) = Sum(Delta, Mine(G, mint))
  BY NetIs
<1>2. Net(G, mint)' = Sum(Delta, Mine(G, mint))'
  BY NetIsNext
<1>3. Delta' = Delta /\ Mine(G, mint)' = Mine(G, mint)
  BY DEF Delta, Mine
<1> QED BY <1>1, <1>2, <1>3

LEMMA DueStays ==
  ASSUME balance \in Balances, balance' = balance
  PROVE  /\ \A S : Due(S)' = Due(S)
         /\ \A t, i : Sale(t, i)' = Sale(t, i)
<1>1. ASSUME NEW G \in SUBSET DOMAIN balance
      PROVE  /\ \A m : Net(G, m)' = Net(G, m)
             /\ Bases(G)' = Bases(G)
             /\ IsTrade(G)' <=> IsTrade(G)
  <2>1. \A m : Net(G, m)' = Net(G, m)
    BY NetStays
  <2>2. Bases(G)' = Bases(G)
    BY <2>1 DEF Bases
  <2>3. Net(G, WSOL)' = Net(G, WSOL)
    BY <2>1
  <2>4. IsTrade(G)' <=> IsTrade(G)
    BY <2>1, <2>2, <2>3 DEF IsTrade
  <2> QED BY <2>1, <2>2, <2>4
<1>2. \A t : Own(t)' = Own(t)
  BY DEF Own
<1>3. ASSUME NEW S
      PROVE  Due(S)' = Due(S)
  <2>1. RowsOf(S)' = RowsOf(S)
    BY DEF RowsOf
  <2>2. ASSUME NEW t
        PROVE  IsTrade({r \in RowsOf(S) : r[1] = t})' <=> IsTrade({r \in RowsOf(S) : r[1] = t})
    <3> DEFINE G == {r \in RowsOf(S) : r[1] = t}
    <3>1. G \in SUBSET DOMAIN balance /\ G' = G
      BY <2>1 DEF RowsOf
    <3>2. PICK H \in SUBSET DOMAIN balance : H = G
      BY <3>1
    <3>3. IsTrade(H)' <=> IsTrade(H)
      BY <1>1
    <3> HIDE DEF G
    <3>4. IsTrade(G)' <=> IsTrade(G)
      BY <3>1, <3>2, <3>3
    <3> QED BY <3>4 DEF G
  <2> QED BY <2>2 DEF Due
<1>4. ASSUME NEW t, NEW i
      PROVE  Sale(t, i)' = Sale(t, i)
  <2> DEFINE G == Own(t)
  <2>1. PICK H \in SUBSET DOMAIN balance : H = G /\ H = G'
    BY <1>2 DEF Own
  <2>2. /\ Net(H, WSOL)' = Net(H, WSOL) /\ Bases(H)' = Bases(H)
        /\ \A m : Net(H, m)' = Net(H, m)
    BY <1>1
  <2> DEFINE m == CHOOSE m \in Mints : Bases(H) = {m}
             entry(x) == [mint |-> m, tx |-> t, time |-> Time[SlotOf[t]], slot |-> SlotOf[t],
                          index |-> x, volume |-> Amount(Net(H, m)),
                          price |-> (Amount(Net(H, WSOL)) * PriceScale) \div Amount(Net(H, m))]
  <2>3. Trade(H, t) = entry(index[t])
    BY Zenon DEF Trade
  <2>4. Trade(H, t)' = entry(index'[t])
    <3>1. \A q : (Bases(H) = {q})' <=> Bases(H) = {q}
      BY <2>2
    <3> QED BY <2>2, <3>1 DEF Trade
  <2>5. \A x : [entry(x) EXCEPT !.index = i] = entry(i)
    <3> HIDE DEF m
    <3> QED OBVIOUS
  <2> HIDE DEF entry, G
  <2>6. Sale(t, i) = [Trade(H, t) EXCEPT !.index = i]
    BY <2>1 DEF Sale, G
  <2>7. Sale(t, i)' = [Trade(H, t)' EXCEPT !.index = i]
    BY <2>1 DEF Sale, G
  <2> QED BY <2>3, <2>4, <2>5, <2>6, <2>7
<1> QED BY <1>3, <1>4

LEMMA ChainStays ==
  ASSUME balance \in Balances, balance' = balance, NEW S, NEW ts, IsChain(ts, S)
  PROVE  IsChain(ts, S)'
<1>1. Due(S)' = Due(S) /\ \A t, i : Sale(t, i)' = Sale(t, i)
  BY DueStays
<1>2. PICK e : /\ Lists(e, ChainOrder(Due(S)), Due(S))
               /\ ts = [n \in DOMAIN e |-> ts[n]]
               /\ \A n \in DOMAIN e :
                    \E i \in Int : /\ ts[n] = Sale(e[n], i)
                                   /\ \/ i = Position[e[n]]
                                      \/ i = -1 /\ SlotOf[e[n]] \in Unindexed
  BY DEF IsChain
<1>3. Lists(e, ChainOrder(Due(S)'), Due(S)')
  BY <1>1, <1>2
<1>4. \A n \in DOMAIN e :
        \E i \in Int : /\ ts[n] = Sale(e[n], i)'
                       /\ \/ i = Position[e[n]]
                          \/ i = -1 /\ SlotOf[e[n]] \in Unindexed
  BY <1>1, <1>2
<1> QED BY <1>2, <1>3, <1>4 DEF IsChain

-----------------------------------------------------------------------------
(* What a build holds are the trades of the blocks it read, and the table  *)
(* has the candles of the blocks behind it and no other, which works       *)
(* because committed blocks stay: the next build reads these and more.     *)
(* Inside the transaction the 1m candles are there already.                *)
Exact == /\ Types /\ KnownOrder
         /\ phase # "idle" => IsChain(trades, read) /\ kept \subseteq read
         /\ phase = "idle" => trades = <<>>
         /\ phase = "storing" =>
              draft = Upsert(OfInterval(Candles(trades), Short), table)
         /\ \E us : IsChain(us, kept) /\ table = Candles(us)

LEMMA BuiltExact ==
  ASSUME balance \in Balances, Placed, IsChain(trades, read)
  PROVE  TradesExact
<1> SUFFICES Len(trades) = Len(ChainTrades(read))
             /\ \A i \in DOMAIN ChainTrades(read) :
                  trades[i] = [ChainTrades(read)[i] EXCEPT !.index = trades[i].index]
  BY Zenon DEF TradesExact
<1> DEFINE due == ChainTrades(read)
<1>1. IsChain(due, read)
  BY ChainIsChain
<1> HIDE DEF due
<1>2. /\ DOMAIN trades = DOMAIN due /\ Len(trades) = Len(due)
      /\ \A i \in DOMAIN trades : trades[i] = [due[i] EXCEPT !.index = trades[i].index]
  BY <1>1, ChainsAlike
<1> QED BY <1>2 DEF due

LEMMA BuiltOnce ==
  ASSUME balance \in Balances, IsChain(trades, read)
  PROVE  AtMostOneTrade
<1> SUFFICES ASSUME NEW i \in DOMAIN trades, NEW j \in DOMAIN trades,
                    trades[i].tx = trades[j].tx
             PROVE  i = j
  BY DEF AtMostOneTrade
<1>1. PICK e : /\ Lists(e, ChainOrder(Due(read)), Due(read)) /\ DOMAIN trades = DOMAIN e
               /\ \A n \in DOMAIN e : \E k \in Int : trades[n] = Sale(e[n], k)
  BY DEF IsChain
<1>2. ASSUME NEW n \in DOMAIN e
      PROVE  trades[n].tx = e[n]
  <2>1. e[n] \in Due(read)
    BY <1>1 DEF Lists
  <2>2. PICK k \in Int : trades[n] = Sale(e[n], k)
    BY <1>1
  <2> QED BY <2>1, <2>2, SaleFields
<1>3. e[i] = e[j] /\ i \in DOMAIN e /\ j \in DOMAIN e
  BY <1>1, <1>2
<1>4. Orders(ChainOrder(Due(read)), Due(read))
  <2> DEFINE D == Due(read)
  <2>1. D \in SUBSET Txs
    BY DEF Due
  <2> HIDE DEF D
  <2>2. Orders(ChainOrder(D), D)
    BY <2>1, ChainOrders
  <2> QED BY <2>2 DEF D
<1>5. i \in Int /\ j \in Int
  BY <1>1, <1>3 DEF Lists
<1>6. ~(i < j) /\ ~(j < i)
  BY <1>1, <1>3, <1>4, Zenon DEF Lists, Orders
<1> QED BY <1>5, <1>6

LEMMA BuiltNext == (balance \in Balances /\ Placed /\ IsChain(trades, read)
                      => TradesExact /\ AtMostOneTrade)'
<1>1. balance \in Balances /\ Placed /\ IsChain(trades, read)
        => TradesExact /\ AtMostOneTrade
  BY BuiltExact, BuiltOnce
<1> QED BY <1>1, PTL

LEMMA ExactMeans == Exact => TradesExact /\ CandlesCurrent
<1> SUFFICES ASSUME Exact PROVE TradesExact /\ CandlesCurrent
  OBVIOUS
<1>1. balance \in Balances /\ Placed /\ KnownOrder
  BY DEF Exact, Types
<1>2. TradesExact
  <2>1. phase # "idle" => IsChain(trades, read)
    BY DEF Exact
  <2>2. phase = "idle" => TradesExact
    BY DEF TradesExact
  <2> QED BY <1>1, <2>1, <2>2, BuiltExact
<1>3. CandlesCurrent
  <2>1. PICK us : IsChain(us, kept) /\ table = Candles(us)
    BY DEF Exact
  <2>2. IsChain(ChainTrades(kept), kept)
    BY <1>1, ChainIsChain
  <2> QED BY <1>1, <2>1, <2>2, ChainCandles DEF CandlesCurrent
<1> QED BY <1>2, <1>3

LEMMA ExactInit == KnownOrder /\ Init => Exact
<1> SUFFICES ASSUME KnownOrder, Init PROVE Exact
  OBVIOUS
<1>1. Types /\ balance \in Balances
  BY TypesInit DEF Types
<1>2. phase = "idle" /\ trades = <<>> /\ kept = {} /\ table = <<>>
  BY DEF Init
<1>3. Due({}) = {}
  BY <1>1, OwnRows
<1> DEFINE e == [n \in 1 .. 0 |-> n]
<1>4. Lists(e, ChainOrder(Due({})), Due({}))
  <2>1. DOMAIN e = {} /\ e = [n \in 1 .. 0 |-> e[n]]
    OBVIOUS
  <2> HIDE DEF e
  <2> QED BY <1>3, <2>1 DEF Lists
<1>5. IsChain(e, {})
  <2>1. DOMAIN e = {} /\ e = [n \in DOMAIN e |-> e[n]]
    OBVIOUS
  <2> HIDE DEF e
  <2> QED BY <1>4, <2>1 DEF IsChain
<1>6. Candles(e) = <<>>
  <2>1. DOMAIN e = {}
    OBVIOUS
  <2> HIDE DEF e
  <2>2. Keys(e) = {}
    BY <2>1 DEF Keys
  <2>3. Candles(e) = [k \in Keys(e) |-> Candle(e, Members(e, k))]
    BY CandlesUnfold
  <2> QED BY <2>2, <2>3
<1> HIDE DEF e
<1> QED BY <1>1, <1>2, <1>5, <1>6 DEF Exact

(* The upserts of the two intervals, one after the other, are the upserts  *)
(* of all candles.                                                         *)
LEMMA TwoIntervals ==
  ASSUME NEW ts, NEW old,
         DOMAIN old \subseteq DOMAIN Candles(ts)
  PROVE  Upsert(OfInterval(Candles(ts), Long),
                Upsert(OfInterval(Candles(ts), Short), old)) = Candles(ts)
<1> DEFINE C == Candles(ts)
           S == {k \in DOMAIN C : k[2] = Short}
           L == {k \in DOMAIN C : k[2] = Long}
<1>1. C = [k \in DOMAIN C |-> C[k]] /\ S \cup L = DOMAIN C
  <2>1. C = [k \in Keys(ts) |-> Candle(ts, Members(ts, k))]
    BY CandlesUnfold
  <2>2. \A k \in Keys(ts) : k[2] \in {Short, Long}
    BY DEF Keys, KeyOf
  <2> QED BY <2>1, <2>2
<1>2. /\ OfInterval(C, Short) = [k \in S |-> C[k]]
      /\ OfInterval(C, Long) = [k \in L |-> C[k]]
  BY DEF OfInterval
<1>3. S \subseteq DOMAIN C /\ L \subseteq DOMAIN C /\ DOMAIN old \subseteq DOMAIN C
  OBVIOUS
<1> HIDE DEF C, S, L
<1>4. Upsert([k \in S |-> C[k]], old)
        = [k \in S \cup DOMAIN old |-> IF k \in S THEN C[k] ELSE old[k]]
  BY DEF Upsert, Over
<1> DEFINE half == [k \in S \cup DOMAIN old |-> IF k \in S THEN C[k] ELSE old[k]]
<1>5. Upsert([k \in L |-> C[k]], half)
        = [k \in L \cup (S \cup DOMAIN old) |-> IF k \in L THEN C[k] ELSE half[k]]
  BY DEF Upsert, Over
<1>6. \A k \in DOMAIN C : (IF k \in L THEN C[k] ELSE half[k]) = C[k]
  BY <1>1
<1>7. L \cup (S \cup DOMAIN old) = DOMAIN C
  BY <1>1, <1>3
<1> HIDE DEF half
<1>8. Upsert([k \in L |-> C[k]], half) = C
  BY <1>1, <1>5, <1>6, <1>7
<1> QED BY <1>2, <1>4, <1>8 DEF C, half

LEMMA ExactNext == Exact /\ [Next]_vars => Exact'
<1> SUFFICES ASSUME Exact, [Next]_vars PROVE Exact'
  OBVIOUS
<1> USE DEF chain, build
<1>1. /\ Types /\ Types' /\ balance \in Balances /\ Placed /\ KnownOrder
      /\ balance' = balance /\ KnownOrder'
  <2>1. Types /\ Types' /\ balance \in Balances /\ Placed /\ KnownOrder
    BY TypesNext DEF Exact, Types
  <2>2. balance' = balance
    BY DEF Next, WriteBlock, Backfill, ExtractTrades, StoreOneMinute,
           StoreFiveMinutes, BuildFails, Finish, vars
  <2>3. KnownOrder'
    BY <2>1 DEF KnownOrder
  <2> QED BY <2>1, <2>2, <2>3
<1>2. PICK us : IsChain(us, kept) /\ table = Candles(us)
  BY DEF Exact
<1>3. \A S, ts : IsChain(ts, S) => IsChain(ts, S)'
  BY <1>1, ChainStays
<1>4. kept' = kept /\ table' = table
        => \E w : IsChain(w, kept)' /\ table' = Candles(w)
  <2> SUFFICES ASSUME kept' = kept, table' = table
               PROVE  IsChain(us, kept)' /\ table' = Candles(us)
    OBVIOUS
  <2> QED BY <1>2, <1>3
<1>5. ASSUME phase' = phase, trades' = trades, read' = read, kept' = kept,
             table' = table, draft' = draft
      PROVE  Exact'
  <2>1. phase' # "idle" => IsChain(trades, read)' /\ kept' \subseteq read'
    BY <1>3, <1>5 DEF Exact
  <2>2. phase' = "idle" => trades' = <<>>
    BY <1>5 DEF Exact
  <2>3. phase' = "storing"
          => draft' = Upsert(OfInterval(Candles(trades'), Short), table')
    BY <1>5 DEF Exact
  <2> QED BY <1>1, <1>4, <1>5, <2>1, <2>2, <2>3 DEF Exact
<1>6. CASE \E s \in Slots : WriteBlock(s) \/ Backfill(s)
  BY <1>5, <1>6 DEF WriteBlock, Backfill
<1>7. CASE ExtractTrades
  <2>1. phase' = "built" /\ read' = stored /\ kept' = kept /\ table' = table
    BY <1>7 DEF ExtractTrades
  <2>2. PICK visit \in Visits : trades' = TradesFromRows(Sorted(RowsOf(stored), visit))
    BY <1>7, Zenon DEF ExtractTrades, Visits
  <2>3. trades' = ChainTrades(stored)
    BY <1>1, <2>2, OrderKnown, RowsGiveChain
  <2>4. IsChain(ChainTrades(stored), stored)
    BY <1>1, ChainIsChain
  <2>5. IsChain(trades, read)'
    <3>1. PICK ts, S : ts = ChainTrades(stored) /\ S = stored
      OBVIOUS
    <3>2. IsChain(ts, S)'
      BY <1>3, <2>4, <3>1
    <3> QED BY <2>1, <2>3, <3>1, <3>2
  <2>6. kept' \subseteq read'
    BY <1>1, <2>1 DEF Types, TypeOK
  <2> QED BY <1>1, <1>4, <2>1, <2>5, <2>6 DEF Exact
<1>8. CASE StoreOneMinute
  <2>1. /\ phase = "built" /\ phase' = "storing" /\ trades' = trades
        /\ read' = read /\ kept' = kept /\ table' = table
        /\ draft' = Upsert(OfInterval(Candles(trades), Short), table)
    BY <1>8 DEF StoreOneMinute, Execute
  <2>2. IsChain(trades, read)' /\ kept' \subseteq read'
    <3>1. IsChain(trades, read) /\ kept \subseteq read
      BY <2>1 DEF Exact
    <3>2. PICK ts, S : ts = trades /\ S = read
      OBVIOUS
    <3>3. IsChain(ts, S)'
      BY <1>3, <3>1, <3>2
    <3> QED BY <2>1, <3>1, <3>2, <3>3
  <2>3. draft' = Upsert(OfInterval(Candles(trades'), Short), table')
    BY <2>1
  <2> QED BY <1>1, <1>4, <2>1, <2>2, <2>3 DEF Exact
<1>9. CASE StoreFiveMinutes
  <2>1. /\ phase = "storing" /\ phase' = "idle" /\ trades' = <<>> /\ kept' = read
        /\ table' = Upsert(OfInterval(Candles(trades), Long), draft)
    BY <1>9 DEF StoreFiveMinutes, Finish
  <2>2. /\ IsChain(trades, read) /\ kept \in SUBSET read
        /\ draft = Upsert(OfInterval(Candles(trades), Short), table)
    BY <2>1 DEF Exact
  <2>3. DOMAIN Candles(us) \subseteq DOMAIN Candles(trades)
    BY <1>1, <1>2, <2>2, CandlesGrow
  <2>4. table' = Candles(trades)
    BY <1>2, <2>1, <2>2, <2>3, TwoIntervals
  <2>5. \E w : IsChain(w, kept)' /\ table' = Candles(w)
    <3>1. PICK ts, S : ts = trades /\ S = read
      OBVIOUS
    <3>2. IsChain(ts, S)'
      BY <1>3, <2>2, <3>1
    <3> QED BY <2>1, <2>4, <3>1, <3>2
  <2> QED BY <1>1, <2>1, <2>5 DEF Exact
<1>10. CASE BuildFails
  <2>1. phase' = "idle" /\ trades' = <<>> /\ kept' = kept /\ table' = table
    BY <1>10 DEF BuildFails, Finish
  <2> QED BY <1>1, <1>4, <2>1 DEF Exact
<1>11. CASE UNCHANGED vars
  BY <1>5, <1>11 DEF vars
<1> QED BY <1>6, <1>7, <1>8, <1>9, <1>10, <1>11 DEF Next

LEMMA ExactOnce == Exact => AtMostOneTrade
<1> SUFFICES ASSUME Exact PROVE AtMostOneTrade
  OBVIOUS
<1>1. CASE phase = "idle"
  <2>1. trades = <<>>
    BY <1>1 DEF Exact
  <2> QED BY <2>1 DEF AtMostOneTrade
<1>2. CASE phase # "idle"
  <2>1. IsChain(trades, read) /\ balance \in Balances
    BY <1>2 DEF Exact, Types
  <2> QED BY <2>1, BuiltOnce
<1> QED BY <1>1, <1>2

LEMMA SpecExact == KnownOrder => (Spec => []Exact)
<1> QED BY ExactInit, ExactNext, PTL DEF Spec

(* Where positions are known in blocks of several transactions, cutting    *)
(* the sorted rows of all blocks into groups finds the trades of whole     *)
(* transactions, each once and in the order of the chain, in whatever      *)
(* order blocks were committed and backfilled (ohlcv.rs: extract_trades,   *)
(* group_token_balances, trade_from_group).                                *)
THEOREM TradesFound == KnownOrder => (Spec => []TradesExact)
<1> QED BY SpecExact, ExactMeans, PTL

(* There a transaction gives at most one trade, as trade_from_group's      *)
(* comment says; blocks of several transactions without positions break    *)
(* that (the run unknown_order).                                           *)
THEOREM OneTradeEach == KnownOrder => (Spec => []AtMostOneTrade)
<1> QED BY SpecExact, ExactOnce, PTL

(* Where blocks of several transactions were stored without positions, a   *)
(* build that starts once the backfill (bin/backfill_order.rs) has set     *)
(* them finds the trades of the chain, each transaction's at most once,    *)
(* whatever earlier builds found.                                          *)
THEOREM RebuildRepairs ==
  Spec => [][ExtractTrades /\ PositionsKnown => TradesExact' /\ AtMostOneTrade']_vars
<1>1. ASSUME Types, Types', ExtractTrades, PositionsKnown
      PROVE  TradesExact' /\ AtMostOneTrade'
  <2>1. /\ balance \in Balances /\ Placed /\ balance' = balance
        /\ (balance \in Balances)' /\ Placed'
    BY <1>1 DEF Types, ExtractTrades, chain
  <2>2. PICK visit \in Visits : trades' = TradesFromRows(Sorted(RowsOf(stored), visit))
    BY <1>1, Zenon DEF ExtractTrades, Visits
  <2>3. trades' = ChainTrades(stored) /\ read' = stored
    BY <1>1, <2>1, <2>2, RowsGiveChain DEF ExtractTrades
  <2>4. PICK ts, S : ts = ChainTrades(stored) /\ S = stored
    OBVIOUS
  <2>5. IsChain(ts, S)
    BY <2>1, <2>4, ChainIsChain
  <2>6. IsChain(ts, S)'
    BY <2>1, <2>5, ChainStays
  <2>7. IsChain(trades, read)'
    BY <2>3, <2>4, <2>6
  <2> QED BY <2>1, <2>7, BuiltNext
<1>2. Types /\ Types' /\ [Next]_vars
        => [ExtractTrades /\ PositionsKnown => TradesExact' /\ AtMostOneTrade']_vars
  BY <1>1
<1> QED BY <1>2, SpecTypes, PTL DEF Spec

(* Where positions are known in blocks of several transactions, the        *)
(* candles in the table are those of one build, of the blocks behind them, *)
(* into an empty table: a rebuild leaves nothing of the build before it,   *)
(* though rows are only upserted (build_and_store_candles).                *)
THEOREM TableCurrent == KnownOrder => (Spec => []CandlesCurrent)
<1> QED BY SpecExact, ExactMeans, PTL

-----------------------------------------------------------------------------
(* The two intervals.  Of two multiples of a length, the larger one is     *)
(* larger by that length at least.                                         *)
LEMMA Multiples ==
  ASSUME NEW p \in Int, NEW q \in Int, NEW s \in Nat \ {0}, p * s < q * s
  PROVE  p * s + s <= q * s
<1>1. p < q
  <2> SUFFICES ASSUME q <= p PROVE FALSE
    OBVIOUS
  <2>1. p - q \in Nat
    OBVIOUS
  <2>2. (p - q) * s >= 0
    BY <2>1
  <2>3. (p - q) * s = p * s - q * s
    OBVIOUS
  <2> QED BY <2>2, <2>3
<1>2. q - p - 1 \in Nat
  BY <1>1
<1>3. (q - p - 1) * s >= 0
  BY <1>2
<1>4. (q - p - 1) * s = q * s - p * s - s
  OBVIOUS
<1> QED BY <1>3, <1>4
LEMMA BucketFacts ==
  ASSUME NEW s \in Nat \ {0}, NEW t \in Nat
  PROVE  /\ Bucket(t, s) \in Nat /\ Bucket(t, s) <= t /\ t < Bucket(t, s) + s
         /\ \E q \in Int : Bucket(t, s) = q * s
<1>1. t % s \in Nat /\ t % s < s /\ t % s <= t /\ t \div s \in Int
  OBVIOUS
<1>2. t = s * (t \div s) + (t % s)
  OBVIOUS
<1>3. t - (t % s) = (t \div s) * s
  BY <1>1, <1>2
<1> QED BY <1>1, <1>3 DEF Bucket

(* A bucket of Short seconds lies in one of Long seconds.                  *)
LEMMA BucketsNest ==
  ASSUME NEW t \in Nat, NEW u \in Nat, NEW b, b = Bucket(u, Long)
  PROVE  Bucket(t, Long) = b <=> Bucket(t, Short) \in b .. b + Long - 1
<1> DEFINE c == Bucket(t, Short)
           d == Bucket(t, Long)
<1>1. Short \in Nat \ {0} /\ Long \in Nat \ {0}
  BY OhlcvAssumption
<1>2. PICK r \in Int : Long = r * Short
  <2>1. Long = Short * (Long \div Short) + (Long % Short)
    BY <1>1
  <2>2. Long \div Short \in Int /\ Long = (Long \div Short) * Short
    BY <1>1, <2>1, OhlcvAssumption
  <2> QED BY <2>2
<1>3. /\ c \in Nat /\ c <= t /\ t < c + Short
      /\ \E p \in Int : c = p * Short
  BY <1>1, BucketFacts
<1>4. /\ d \in Nat /\ d <= t /\ t < d + Long
      /\ \E p \in Int : d = p * Long
  BY <1>1, BucketFacts
<1>5. b \in Nat /\ \E p \in Int : b = p * Long
  BY <1>1, BucketFacts
<1> HIDE DEF c, d
<1>6. PICK p \in Int : c = p * Short
  BY <1>3
<1>7. PICK q \in Int : b = q * Long
  BY <1>5
<1>8. PICK e \in Int : d = e * Long
  BY <1>4
<1>9. /\ q * r \in Int /\ b = (q * r) * Short
      /\ (q + 1) * r \in Int /\ b + Long = ((q + 1) * r) * Short
  <2>1. q * Long = (q * r) * Short
    BY <1>1, <1>2
  <2>2. (q + 1) * Long = ((q + 1) * r) * Short
    BY <1>1, <1>2
  <2>3. (q + 1) * Long = q * Long + Long
    BY <1>1
  <2> QED BY <1>7, <2>1, <2>2, <2>3
<1>10. c < b => c + Short <= b
  <2> DEFINE y == q * r
  <2>1. y \in Int /\ b = y * Short
    BY <1>9
  <2> HIDE DEF y
  <2> QED BY <1>1, <1>6, <2>1, Multiples
<1>11. c < b + Long => c + Short <= b + Long
  <2> DEFINE y == (q + 1) * r
  <2>1. y \in Int /\ b + Long = y * Short
    BY <1>9
  <2> HIDE DEF y
  <2> QED BY <1>1, <1>6, <2>1, Multiples
<1>12. (b < d => b + Long <= d) /\ (d < b => d + Long <= b)
  BY <1>1, <1>7, <1>8, Multiples
<1>13. d = b => c \in b .. b + Long - 1
  BY <1>1, <1>3, <1>4, <1>5, <1>10
<1>14. c \in b .. b + Long - 1 => d = b
  BY <1>1, <1>3, <1>4, <1>5, <1>11, <1>12
<1> QED BY <1>13, <1>14 DEF c, d

LEMMA BucketsRise ==
  ASSUME NEW s \in Nat \ {0}, NEW t \in Nat, NEW u \in Nat, t <= u
  PROVE  Bucket(t, s) <= Bucket(u, s)
<1> DEFINE c == Bucket(t, s)
           d == Bucket(u, s)
<1>1. c \in Nat /\ c <= t /\ \E p \in Int : c = p * s
  BY BucketFacts
<1>2. d \in Nat /\ u < d + s /\ \E p \in Int : d = p * s
  BY BucketFacts
<1> HIDE DEF c, d
<1>3. d < c => d + s <= c
  BY <1>1, <1>2, Multiples
<1>4. c <= d
  BY <1>1, <1>2, <1>3
<1> QED BY <1>4 DEF c, d

(* The 1m candles within the 5m candle k, the trades of the one of bucket  *)
(* c, and the buckets of the trades P.                                     *)
Parts(ts, k) == {l \in Keys(ts) : /\ l[1] = k[1] /\ l[2] = Short
                                  /\ l[3] \in k[3] .. k[3] + Long - 1}
Part(ts, m, c) == Members(ts, <<m, Short, c>>)
Begins(ts, P) == {Bucket(ts[i].time, Short) : i \in P}

LEMMA PartsOf ==
  ASSUME NEW ts, \A i \in DOMAIN ts : ts[i].time \in Nat,
         NEW k \in Keys(ts), k[2] = Long, NEW P, P = Members(ts, k)
  PROVE  /\ Parts(ts, k) = {<<k[1], Short, c>> : c \in Begins(ts, P)}
         /\ \A c \in Begins(ts, P) :
              /\ <<k[1], Short, c>> \in Keys(ts)
              /\ Part(ts, k[1], c) = {i \in P : Bucket(ts[i].time, Short) = c}
<1> DEFINE C == Begins(ts, P)
           m == k[1]
           b == k[3]
           parts == {l \in Keys(ts) : l[1] = m /\ l[2] = Short /\ l[3] \in b .. b + Long - 1}
<1>0. parts = Parts(ts, k)
  BY DEF Parts
<1>1. PICK j \in DOMAIN ts : k = <<ts[j].mint, Long, Bucket(ts[j].time, Long)>>
  BY DEF Keys, KeyOf
<1>2. k = <<m, Long, b>> /\ b = Bucket(ts[j].time, Long) /\ ts[j].time \in Nat
  BY <1>1
<1>3. \A i : i \in P <=> i \in DOMAIN ts /\ ts[i].mint = m /\ Bucket(ts[i].time, Long) = b
  BY <1>2 DEF Members, KeyOf
<1>4. \A i, c : i \in Part(ts, m, c)
                  <=> i \in DOMAIN ts /\ ts[i].mint = m /\ Bucket(ts[i].time, Short) = c
  BY DEF Part, Members, KeyOf
<1> HIDE DEF m, b
<1>5. \A i \in DOMAIN ts :
        Bucket(ts[i].time, Long) = b <=> Bucket(ts[i].time, Short) \in b .. b + Long - 1
  BY <1>2, BucketsNest
<1>6. ASSUME NEW c \in C
      PROVE  /\ <<m, Short, c>> \in Keys(ts) /\ c \in b .. b + Long - 1
             /\ Part(ts, m, c) = {i \in P : Bucket(ts[i].time, Short) = c}
  <2>1. PICK i \in P : c = Bucket(ts[i].time, Short)
    BY DEF Begins
  <2>2. i \in DOMAIN ts /\ ts[i].mint = m /\ c \in b .. b + Long - 1
    BY <1>3, <1>5, <2>1
  <2>3. <<m, Short, c>> \in Keys(ts)
    <3>1. KeyOf(ts[i], Short) = <<m, Short, c>>
      BY <2>1, <2>2 DEF KeyOf
    <3> QED BY <2>2, <3>1 DEF Keys
  <2>4. \A x : x \in Part(ts, m, c) <=> x \in P /\ Bucket(ts[x].time, Short) = c
    BY <1>3, <1>4, <1>5, <2>2
  <2>5. Part(ts, m, c) = {x \in P : Bucket(ts[x].time, Short) = c}
    BY <2>4 DEF Part, Members
  <2> QED BY <2>2, <2>3, <2>5
<1>7. ASSUME NEW l \in parts
      PROVE  \E c \in C : l = <<m, Short, c>>
  <2>1. PICK i \in DOMAIN ts : l = <<ts[i].mint, Short, Bucket(ts[i].time, Short)>>
    BY DEF Keys, KeyOf
  <2>2. /\ ts[i].mint = m /\ l = <<m, Short, Bucket(ts[i].time, Short)>>
        /\ Bucket(ts[i].time, Short) \in b .. b + Long - 1
    BY <2>1
  <2>3. i \in P
    BY <1>3, <1>5, <2>2
  <2> QED BY <2>2, <2>3 DEF Begins
<1>8. \A c \in C : <<m, Short, c>> \in parts
  BY <1>6
<1> HIDE DEF C
<1>9. parts = {<<m, Short, c>> : c \in C}
  <2>1. \A l : l \in parts => l \in {<<m, Short, c>> : c \in C}
    BY <1>7
  <2>2. \A l : l \in {<<m, Short, c>> : c \in C} => l \in parts
    BY <1>8
  <2> QED BY <2>1, <2>2
<1> QED BY <1>0, <1>6, <1>9 DEF C, m, b

(* What the parts P falls into make of a candle of P.                      *)
InTime(ts) == \A i, j \in DOMAIN ts : i <= j => ts[i].time <= ts[j].time

LEMMA BeginsFacts ==
  ASSUME NEW ts, Straight(ts), \A i \in DOMAIN ts : ts[i].time \in Nat,
         NEW P, P \subseteq DOMAIN ts, P # {}, NEW C, C = Begins(ts, P)
  PROVE  /\ IsFiniteSet(C) /\ C \subseteq Nat /\ C # {}
         /\ Min(C) \in C /\ Max(C) \in C /\ \A c \in C : Min(C) <= c /\ c <= Max(C)
<1> DEFINE n == [i \in P |-> Bucket(ts[i].time, Short)]
<1>1. IsFiniteSet(P)
  BY StraightCandle
<1>2. Short \in Nat \ {0}
  BY OhlcvAssumption
<1>3. C = {n[i] : i \in P} /\ C # {}
  BY DEF Begins
<1>4. C \subseteq Nat
  <2>1. \A i \in P : Bucket(ts[i].time, Short) \in Nat
    BY <1>2, BucketFacts
  <2> QED BY <2>1 DEF Begins
<1> HIDE DEF n
<1>5. IsFiniteSet(C)
  BY <1>1, <1>3, FiniteImage
<1>6. C \subseteq Int
  BY <1>4
<1> QED BY <1>3, <1>4, <1>5, <1>6, MinMember, MaxMember

LEMMA MergeEnds ==
  ASSUME NEW ts, Straight(ts), InTime(ts), \A i \in DOMAIN ts : ts[i].time \in Nat,
         NEW P, P \subseteq DOMAIN ts, P # {}, NEW C, C = Begins(ts, P),
         NEW W, \A c \in C : W[c] = {i \in P : Bucket(ts[i].time, Short) = c}
  PROVE  Min(W[Min(C)]) = Min(P) /\ Max(W[Max(C)]) = Max(P)
<1> DEFINE f == Min(P)
           l == Max(P)
           n(i) == Bucket(ts[i].time, Short)
<1>1. /\ P \in SUBSET Nat /\ f \in P /\ l \in P /\ \A i \in P : f <= i /\ i <= l
  BY StraightCandle
<1>2. /\ C \subseteq Nat /\ Min(C) \in C /\ Max(C) \in C
      /\ \A c \in C : Min(C) <= c /\ c <= Max(C)
  BY BeginsFacts
<1>3. \A i \in P : n(i) \in C
  BY DEF Begins
<1>4. \A c \in C : \E i \in P : n(i) = c
  BY DEF Begins
<1> HIDE DEF f, l
<1>5. ASSUME NEW i \in P
      PROVE  n(f) <= n(i) /\ n(i) <= n(l)
  <2>1. ts[f].time <= ts[i].time /\ ts[i].time <= ts[l].time
    BY <1>1 DEF InTime
  <2>2. ts[f].time \in Nat /\ ts[i].time \in Nat /\ ts[l].time \in Nat /\ Short \in Nat \ {0}
    BY <1>1, OhlcvAssumption
  <2> QED BY <2>1, <2>2, BucketsRise
<1> HIDE DEF n
<1>6. n(f) = Min(C) /\ n(l) = Max(C)
  <2>1. PICK i \in P, j \in P : n(i) = Min(C) /\ n(j) = Max(C)
    BY <1>2, <1>4
  <2>2. n(f) <= n(i) /\ n(j) <= n(l)
    BY <1>5
  <2>3. n(f) \in C /\ n(l) \in C
    BY <1>1, <1>3
  <2>4. Min(C) <= n(f) /\ n(l) <= Max(C) /\ n(f) \in Int /\ n(l) \in Int
        /\ Min(C) \in Int /\ Max(C) \in Int
    BY <1>2, <2>3
  <2> QED BY <2>1, <2>2, <2>4
<1>7. /\ W[Min(C)] \subseteq P /\ f \in W[Min(C)]
      /\ W[Max(C)] \subseteq P /\ l \in W[Max(C)]
  BY <1>1, <1>2, <1>6 DEF n
<1>8. Min(W[Min(C)]) = f
  <2> DEFINE S == W[Min(C)]
  <2>1. S \subseteq P /\ f \in S /\ S \subseteq Nat
    BY <1>1, <1>7
  <2> HIDE DEF S
  <2>2. Min(S) \in S /\ Min(S) <= f
    BY <2>1, MinMember
  <2>3. f <= Min(S) /\ f \in Int /\ Min(S) \in Int
    BY <1>1, <2>1, <2>2
  <2>4. Min(S) = f
    BY <2>2, <2>3
  <2> QED BY <2>4 DEF S
<1>9. Max(W[Max(C)]) = l
  <2> DEFINE S == W[Max(C)]
  <2>1. S \subseteq P /\ l \in S /\ S \subseteq Int
    BY <1>1, <1>7
  <2> HIDE DEF S
  <2>2. IsFiniteSet(S)
    BY <2>1, StraightCandle, FS_Subset
  <2>3. Max(S) \in S /\ l <= Max(S)
    BY <2>1, <2>2, MaxMember
  <2>4. Max(S) <= l /\ l \in Int /\ Max(S) \in Int
    BY <1>1, <2>1, <2>3
  <2>5. Max(S) = l
    BY <2>3, <2>4
  <2> QED BY <2>5 DEF S
<1> QED BY <1>8, <1>9 DEF f, l

Extremes(hi, lo, ts, W, C) ==
  \A c \in C : hi[c] = Max(Prices(ts, W[c])) /\ lo[c] = Min(Prices(ts, W[c]))
Gathers(S, f, C) == S = {f[c] : c \in C}

LEMMA MergePrices ==
  ASSUME NEW ts, Straight(ts), \A i \in DOMAIN ts : ts[i].time \in Nat,
         NEW P, P \subseteq DOMAIN ts, P # {}, NEW C, C = Begins(ts, P),
         NEW W, \A c \in C : W[c] = {i \in P : Bucket(ts[i].time, Short) = c},
         NEW hi, NEW lo, Extremes(hi, lo, ts, W, C),
         NEW H, Gathers(H, hi, C), NEW L, Gathers(L, lo, C)
  PROVE  Max(H) = Max(Prices(ts, P)) /\ Min(L) = Min(Prices(ts, P))
<1> DEFINE A == Prices(ts, P)
<1>1. IsFiniteSet(P) /\ \A i \in P : Genuine(ts[i])
  <2>1. \A i \in P : Genuine(ts[i])
    BY DEF Straight
  <2> QED BY <2>1, StraightCandle
<1>2. /\ A \subseteq Nat /\ Max(A) \in A /\ Min(A) \in A
      /\ \A x \in A : Min(A) <= x /\ x <= Max(A) /\ x \in Int
  <2>1. /\ A \subseteq Nat /\ Max(A) \in A /\ Min(A) \in A
        /\ \A x \in A : Min(A) <= x /\ x <= Max(A)
    BY <1>1, PriceFacts
  <2> HIDE DEF A
  <2> QED BY <2>1
<1>3. IsFiniteSet(C) /\ C # {}
  BY BeginsFacts
<1>4. ASSUME NEW c \in C
      PROVE  /\ hi[c] \in A /\ lo[c] \in A
             /\ \A i \in W[c] : lo[c] <= ts[i].price /\ ts[i].price <= hi[c]
  <2> DEFINE V == W[c]
  <2>1. V \subseteq P /\ V # {}
    BY DEF Begins
  <2> HIDE DEF V
  <2>2. IsFiniteSet(V) /\ \A i \in V : Genuine(ts[i])
    BY <1>1, <2>1, FS_Subset
  <2>3. /\ Max(Prices(ts, V)) \in Prices(ts, V) /\ Min(Prices(ts, V)) \in Prices(ts, V)
        /\ \A x \in Prices(ts, V) : Min(Prices(ts, V)) <= x /\ x <= Max(Prices(ts, V))
    BY <2>1, <2>2, PriceFacts
  <2>4. Prices(ts, V) \subseteq A /\ \A i \in V : ts[i].price \in Prices(ts, V)
    BY <2>1 DEF Prices
  <2>5. hi[c] = Max(Prices(ts, V)) /\ lo[c] = Min(Prices(ts, V))
    BY DEF V, Extremes
  <2> QED BY <2>3, <2>4, <2>5 DEF V
<1>5. ASSUME NEW i \in P
      PROVE  \E c \in C : i \in W[c]
  <2>1. Bucket(ts[i].time, Short) \in C
    BY DEF Begins
  <2>2. i \in W[Bucket(ts[i].time, Short)]
    BY <2>1
  <2> QED BY <2>1, <2>2
<1>6. ASSUME NEW x \in A
      PROVE  \E c \in C : lo[c] <= x /\ x <= hi[c]
  <2>1. PICK i \in P : x = ts[i].price
    BY DEF Prices
  <2> QED BY <1>4, <1>5, <2>1
<1> HIDE DEF A
<1>7. H \subseteq A /\ L \subseteq A /\ H # {} /\ L # {}
  BY <1>3, <1>4 DEF Gathers
<1>8. IsFiniteSet(H)
  BY <1>3, FiniteImage DEF Gathers
<1>9. \A c \in C : hi[c] \in H /\ lo[c] \in L
  BY DEF Gathers
<1>10. Max(H) = Max(A)
  <2>1. H \subseteq Int
    BY <1>2, <1>7
  <2>2. Max(H) \in H /\ \A y \in H : y <= Max(H)
    BY <1>7, <1>8, <2>1, MaxMember
  <2>3. PICK c \in C : Max(A) <= hi[c]
    BY <1>2, <1>6
  <2>4. hi[c] <= Max(H) /\ Max(H) \in A /\ hi[c] \in A
    BY <1>4, <1>7, <1>9, <2>2
  <2>5. Max(H) <= Max(A) /\ Max(A) \in Int /\ Max(H) \in Int /\ hi[c] \in Int
    BY <1>2, <2>4
  <2> QED BY <2>3, <2>4, <2>5
<1>11. Min(L) = Min(A)
  <2>1. L \subseteq Nat
    BY <1>2, <1>7
  <2>2. Min(L) \in L /\ \A y \in L : Min(L) <= y
    BY <1>7, <2>1, MinMember
  <2>3. PICK c \in C : lo[c] <= Min(A)
    BY <1>2, <1>6
  <2>4. Min(L) <= lo[c] /\ Min(L) \in A /\ lo[c] \in A
    BY <1>4, <1>7, <1>9, <2>2
  <2>5. Min(A) <= Min(L) /\ Min(A) \in Int /\ Min(L) \in Int /\ lo[c] \in Int
    BY <1>2, <2>4
  <2> QED BY <2>3, <2>4, <2>5
<1> QED BY <1>10, <1>11 DEF A

LEMMA MergeVolumes ==
  ASSUME NEW ts, Straight(ts), \A i \in DOMAIN ts : ts[i].time \in Nat,
         NEW P, P \subseteq DOMAIN ts, P # {}, NEW C, C = Begins(ts, P),
         NEW W, \A c \in C : W[c] = {i \in P : Bucket(ts[i].time, Short) = c},
         NEW g, \A c \in C : g[c] = Volume(ts, W[c])
  PROVE  Sum(g, C) = Volume(ts, P) /\ \A c \in C : g[c] \in Int
<1> DEFINE v == [i \in P |-> ts[i].volume]
           n == [i \in P |-> Bucket(ts[i].time, Short)]
<1>1. IsFiniteSet(P) /\ \A i \in P : v[i] = ts[i].volume /\ v[i] \in Int
  <2>1. \A i \in P : ts[i].volume \in Int
    BY DEF Straight, Genuine
  <2>2. IsFiniteSet(P)
    BY StraightCandle
  <2> QED BY <2>1, <2>2
<1>2. C = {n[i] : i \in P} /\ \A i \in P : n[i] = Bucket(ts[i].time, Short)
  BY DEF Begins
<1> HIDE DEF v, n
<1>3. ASSUME NEW c \in C
      PROVE  g[c] = Sum(v, W[c]) /\ g[c] \in Int
  <2> DEFINE V == W[c]
  <2>1. V \subseteq P
    OBVIOUS
  <2>2. g[c] = Volume(ts, V)
    OBVIOUS
  <2> HIDE DEF V
  <2>3. IsFiniteSet(V) /\ \A i \in V : v[i] = ts[i].volume /\ v[i] \in Int
    BY <1>1, <2>1, FS_Subset
  <2>4. Volume(ts, V) = Sum(v, V)
    BY <2>3, VolumeIs
  <2>5. Sum(v, V) \in Int
    BY <2>3, SumInt
  <2>6. g[c] = Sum(v, V) /\ g[c] \in Int
    BY <2>2, <2>4, <2>5
  <2> QED BY <2>6 DEF V
<1>4. Sum(g, C) = Sum(v, P)
  <2>1. Grouped(W, n, P)
    BY <1>2 DEF Grouped
  <2>2. IsFiniteSet(P) /\ \A i \in P : v[i] \in Int
    BY <1>1
  <2>3. \A c \in C : g[c] = Sum(v, W[c])
    BY <1>3
  <2>4. C = {n[i] : i \in P}
    BY <1>2
  <2> QED BY <2>1, <2>2, <2>3, <2>4, SumGroups
<1>5. Volume(ts, P) = Sum(v, P)
  BY <1>1, VolumeIs
<1> QED BY <1>3, <1>4, <1>5

(* A 5m candle is its 1m candles put together.                             *)
BucketsOf(parts) == {l[3] : l \in parts}
Merged(tab, k, parts) ==
  [open |-> tab[<<k[1], Short, Min(BucketsOf(parts))>>].open,
   close |-> tab[<<k[1], Short, Max(BucketsOf(parts))>>].close,
   high |-> Max({tab[l].high : l \in parts}),
   low |-> Min({tab[l].low : l \in parts}),
   volume |-> Volume(tab, parts)]

LEMMA CandleMerge ==
  ASSUME NEW ts, Straight(ts), InTime(ts), \A i \in DOMAIN ts : ts[i].time \in Nat,
         NEW tab, tab = Candles(ts), NEW k \in Keys(ts), k[2] = Long,
         NEW parts, parts = Parts(ts, k)
  PROVE  parts # {} /\ tab[k] = Merged(tab, k, parts)
<1> DEFINE P == Members(ts, k)
           C == Begins(ts, P)
           m == k[1]
           W == [c \in C |-> Part(ts, m, c)]
           name == [c \in C |-> <<m, Short, c>>]
<1>1. P # {} /\ P \subseteq DOMAIN ts
  BY CandlesUnfold
<1>2. /\ parts = {<<m, Short, c>> : c \in C}
      /\ \A c \in C : /\ <<m, Short, c>> \in Keys(ts)
                      /\ Part(ts, m, c) = {i \in P : Bucket(ts[i].time, Short) = c}
  BY PartsOf
<1> HIDE DEF P, C, m
<1>3. \A c \in C : /\ W[c] = {i \in P : Bucket(ts[i].time, Short) = c}
                   /\ W[c] = Members(ts, <<m, Short, c>>) /\ name[c] = <<m, Short, c>>
                   /\ name[c] \in Keys(ts)
  BY <1>2 DEF Part
<1>4. parts = {name[c] : c \in C}
  BY <1>2
<1> HIDE DEF W, name
<1>5. /\ IsFiniteSet(C) /\ C # {} /\ Min(C) \in C /\ Max(C) \in C
  BY <1>1, BeginsFacts DEF C
<1>6. ASSUME NEW c \in C
      PROVE  name[c] \in parts /\ name[c][3] = c
  <2>1. name[c] \in parts
    BY <1>4
  <2>2. name[c] = <<m, Short, c>>
    BY <1>3
  <2> QED BY <2>1, <2>2
<1>7. \A l \in parts : l[3] \in C /\ l = name[l[3]]
  BY <1>4, <1>6
<1>8. BucketsOf(parts) = C /\ parts # {}
  BY <1>5, <1>6, <1>7 DEF BucketsOf
<1>9. \A l \in Keys(ts) : tab[l] = Candle(ts, Members(ts, l))
  BY CandlesUnfold
<1>10. ASSUME NEW c \in C
       PROVE  /\ tab[name[c]].open = ts[Min(W[c])].price
              /\ tab[name[c]].close = ts[Max(W[c])].price
              /\ tab[name[c]].high = Max(Prices(ts, W[c]))
              /\ tab[name[c]].low = Min(Prices(ts, W[c]))
              /\ tab[name[c]].volume = Volume(ts, W[c])
  <2> DEFINE V == W[c]
  <2>1. tab[name[c]] = Candle(ts, V)
    BY <1>3, <1>9
  <2>2. V # {} /\ V \subseteq DOMAIN ts
    BY <1>3, CandlesUnfold
  <2> HIDE DEF V
  <2>3. Candle(ts, V) = [open |-> ts[Min(V)].price, close |-> ts[Max(V)].price,
                         high |-> Max(Prices(ts, V)), low |-> Min(Prices(ts, V)),
                         volume |-> Volume(ts, V)]
    BY <2>2, StraightCandle
  <2> QED BY <2>1, <2>3 DEF V
<1>11. tab[k] = [open |-> ts[Min(P)].price, close |-> ts[Max(P)].price,
                 high |-> Max(Prices(ts, P)), low |-> Min(Prices(ts, P)),
                 volume |-> Volume(ts, P)]
  <2>1. tab[k] = Candle(ts, P)
    BY <1>9 DEF P
  <2> QED BY <1>1, <2>1, StraightCandle
<1>12. C = Begins(ts, P) /\ \A c \in C : W[c] = {i \in P : Bucket(ts[i].time, Short) = c}
  BY <1>3 DEF C
<1>13. /\ tab[<<m, Short, Min(C)>>].open = ts[Min(P)].price
       /\ tab[<<m, Short, Max(C)>>].close = ts[Max(P)].price
  <2>1. Min(W[Min(C)]) = Min(P) /\ Max(W[Max(C)]) = Max(P)
    BY <1>1, <1>12, MergeEnds
  <2>2. tab[name[Min(C)]].open = ts[Min(P)].price
    BY <1>5, <1>10, <2>1
  <2>3. tab[name[Max(C)]].close = ts[Max(P)].price
    BY <1>5, <1>10, <2>1
  <2>4. name[Min(C)] = <<m, Short, Min(C)>> /\ name[Max(C)] = <<m, Short, Max(C)>>
    BY <1>3, <1>5
  <2> QED BY <2>2, <2>3, <2>4
<1>14. /\ Max({tab[l].high : l \in parts}) = Max(Prices(ts, P))
       /\ Min({tab[l].low : l \in parts}) = Min(Prices(ts, P))
  <2> DEFINE hi == [c \in C |-> tab[name[c]].high]
             lo == [c \in C |-> tab[name[c]].low]
             H == {tab[l].high : l \in parts}
             L == {tab[l].low : l \in parts}
  <2>1. H = {hi[c] : c \in C} /\ L = {lo[c] : c \in C}
    <3>1. \A l \in parts : \E c \in C : l = name[c]
      BY <1>7
    <3> QED BY <1>6, <3>1
  <2>2. \A c \in C : hi[c] = Max(Prices(ts, W[c])) /\ lo[c] = Min(Prices(ts, W[c]))
    BY <1>10
  <2> HIDE DEF hi, lo, H, L
  <2>3. Extremes(hi, lo, ts, W, C) /\ Gathers(H, hi, C) /\ Gathers(L, lo, C)
    BY <2>1, <2>2 DEF Extremes, Gathers
  <2>4. Max(H) = Max(Prices(ts, P)) /\ Min(L) = Min(Prices(ts, P))
    BY <1>1, <1>12, <2>3, MergePrices
  <2> QED BY <2>4 DEF H, L
<1>15. Volume(tab, parts) = Volume(ts, P)
  <2> DEFINE g == [c \in C |-> Volume(ts, W[c])]
             w == [l \in parts |-> tab[l].volume]
  <2>1. \A c \in C : g[c] = Volume(ts, W[c])
    OBVIOUS
  <2>2. \A l \in parts : w[l] = tab[l].volume
    OBVIOUS
  <2> HIDE DEF g, w
  <2>3. Sum(g, C) = Volume(ts, P) /\ \A c \in C : g[c] \in Int
    BY <1>1, <1>12, <2>1, MergeVolumes
  <2>4. \A c \in C : g[c] \in Int /\ w[name[c]] = g[c]
    BY <1>6, <1>10, <2>1, <2>2, <2>3
  <2>5. IsFiniteSet(parts)
    BY <1>4, <1>5, FiniteImage
  <2>6. Volume(tab, parts) = Sum(w, parts)
    BY <2>2, <2>5, VolumeIs
  <2>7. \A b, c \in C : name[b] = name[c] => b = c
    <3> SUFFICES ASSUME NEW b \in C, NEW c \in C, name[b] = name[c] PROVE b = c
      OBVIOUS
    <3>1. name[b][3] = b /\ name[c][3] = c
      BY <1>6
    <3> QED BY <3>1
  <2>8. Sum(w, {name[c] : c \in C}) = Sum(g, C)
    BY <1>5, <2>4, <2>7, SumImage
  <2>9. Sum(w, parts) = Sum(g, C)
    BY <1>4, <2>8
  <2> QED BY <2>3, <2>6, <2>9
<1>16. tab[k] = Merged(tab, k, parts)
  BY <1>8, <1>11, <1>13, <1>14, <1>15 DEF Merged, m
<1> QED BY <1>8, <1>16

(* Block times do not fall as slots rise.                                  *)
TimesRise == \A s, t \in Slots \ Untimed : s <= t => Time[s] <= Time[t]

LEMMA ChainInTime ==
  ASSUME balance \in Balances, TimesRise, NEW S, NEW ts, IsChain(ts, S)
  PROVE  InTime(ts) /\ \A i \in DOMAIN ts : ts[i].time \in Nat
<1> DEFINE D == Due(S)
<1>1. PICK e : /\ Lists(e, ChainOrder(D), D) /\ DOMAIN ts = DOMAIN e
               /\ \A n \in DOMAIN e : \E i \in Int : ts[n] = Sale(e[n], i)
  BY DEF IsChain
<1>2. ASSUME NEW n \in DOMAIN e
      PROVE  /\ e[n] \in Txs /\ SlotOf[e[n]] \in Slots \ Untimed /\ SlotOf[e[n]] \in Nat
             /\ ts[n].time = Time[SlotOf[e[n]]] /\ ts[n].time \in Nat
  <2>1. e[n] \in D
    BY <1>1 DEF Lists
  <2>2. PICK i \in Int : ts[n] = Sale(e[n], i)
    BY <1>1
  <2>3. ts[n].time = Time[SlotOf[e[n]]]
    BY <2>1, <2>2, SaleFields
  <2>4. e[n] \in Txs /\ SlotOf[e[n]] \notin Untimed
    BY <2>1, OwnRows
  <2>5. SlotOf[e[n]] \in Slots /\ SlotOf[e[n]] \in Nat
    BY <2>4, OhlcvAssumption
  <2>6. Time[SlotOf[e[n]]] \in Nat
    BY <2>5, OhlcvAssumption
  <2> QED BY <2>3, <2>4, <2>5, <2>6
<1>3. ASSUME NEW m \in DOMAIN e, NEW n \in DOMAIN e, m <= n
      PROVE  ts[m].time <= ts[n].time
  <2>1. m \in Int /\ n \in Int
    BY <1>1 DEF Lists
  <2>2. CASE m = n
    BY <1>2, <2>2
  <2>3. CASE m # n
    <3>1. m < n
      BY <1>3, <2>1, <2>3
    <3>2. <<e[m], e[n]>> \in ChainOrder(D)
      BY <1>1, <3>1, Zenon DEF Lists
    <3>3. Earlier(e[m], e[n])
      BY <3>2, Zenon DEF ChainOrder
    <3>4. SlotOf[e[m]] <= SlotOf[e[n]]
      BY <1>2, <3>3 DEF Earlier
    <3> QED BY <1>2, <3>4 DEF TimesRise
  <2> QED BY <2>2, <2>3
<1> QED BY <1>1, <1>2, <1>3 DEF InTime

LEMMA ExactMerges == TimesRise /\ Exact => CandlesMerge
<1> SUFFICES ASSUME TimesRise, Exact PROVE CandlesMerge
  OBVIOUS
<1>1. PICK ts : IsChain(ts, kept) /\ table = Candles(ts)
  BY DEF Exact
<1>2. balance \in Balances /\ KnownOrder
  BY DEF Exact, Types
<1>3. Straight(ts) /\ InTime(ts) /\ \A i \in DOMAIN ts : ts[i].time \in Nat
  BY <1>1, <1>2, ChainStraight, ChainInTime
<1>4. DOMAIN table = Keys(ts)
  BY <1>1, CandlesUnfold
<1> DEFINE In(k) == {l \in DOMAIN table : /\ l[1] = k[1] /\ l[2] = Short
                                          /\ l[3] \in k[3] .. k[3] + Long - 1}
<1>5. ASSUME NEW k \in DOMAIN table, k[2] = Long
      PROVE  /\ In(k) # {}
             /\ table[k] = Merged(table, k, In(k))
  <2>1. k \in Keys(ts)
    BY <1>4
  <2>2. In(k) = Parts(ts, k)
    BY <1>4 DEF Parts
  <2> HIDE DEF In
  <2> QED BY <1>1, <1>3, <1>5, <2>1, <2>2, CandleMerge
<1>6. \A k \in {l \in DOMAIN table : l[2] = Long} :
        /\ In(k) # {}
        /\ table[k] = Merged(table, k, In(k))
  BY <1>5
<1> QED BY <1>6, Zenon DEF CandlesMerge, Merged, BucketsOf, Volume

(* Where block times also do not fall as slots rise, a 5m candle is its 1m *)
(* candles put together, which two passes over the same trades build       *)
(* independently (bin/build_candles.rs, build_candles_for_interval).       *)
THEOREM IntervalsAgree == KnownOrder /\ TimesRise => (Spec => []CandlesMerge)
<1> DEFINE Inv == TimesRise /\ Exact
<1>1. KnownOrder /\ TimesRise /\ Init => Inv
  BY ExactInit
<1>2. Inv /\ [Next]_vars => Inv'
  <2>1. TimesRise /\ [Next]_vars => TimesRise'
    BY DEF TimesRise
  <2> QED BY <2>1, ExactNext
<1>3. Inv => CandlesMerge
  BY ExactMerges
<1> HIDE DEF Inv
<1> QED BY <1>1, <1>2, <1>3, PTL DEF Spec
=============================================================================
