-------------------------- MODULE RpcClientProofs ---------------------------
(* Theorems about RpcClient, for any number of calls, retries and any quota.*)
EXTENDS RpcClient, SetFacts

(* A permanent answer, or one that could change after the last retry.      *)
GaveUp(c, r) ==
  r = "http 4xx" \/ (r \notin Definitive /\ attempt[c] = MaxRetries)

(* Requests sent, retries counted and the reply that led to each phase.    *)
Bookkeeping ==
  \A c \in Calls :
    /\ phase[c] = "limiter" => sent[c] = attempt[c] /\ last[c] \notin Definitive
    /\ phase[c] # "limiter" => sent[c] = attempt[c] + 1
    /\ phase[c] = "backoff" => attempt[c] < MaxRetries /\ last[c] \notin Definitive
    /\ phase[c] \in {"Skipped", "Fetched"} => last[c] \in Definitive
    /\ phase[c] = "Failed" => GaveUp(c, last[c])

Inv == TypeOK /\ Bookkeeping

LEMMA RetryInit == Init => Inv
<1> SUFFICES ASSUME Init PROVE Inv
  OBVIOUS
<1>1. TypeOK
  BY RpcAssumption DEF Init, TypeOK
<1>2. Bookkeeping
  BY DEF Init, Bookkeeping, Definitive
<1> QED BY <1>1, <1>2 DEF Inv

LEMMA Typed ==
  ASSUME Inv, NEW c \in Calls
  PROVE  /\ attempt[c] \in Nat /\ attempt[c] <= MaxRetries /\ MaxRetries \in Nat
         /\ sent[c] \in Nat /\ sent[c] <= MaxRetries + 1
         /\ phase[c] \in {"limiter", "http", "backoff", "Skipped", "Fetched", "Failed"}
         /\ phase[c] = "limiter" => sent[c] = attempt[c]
         /\ phase[c] # "limiter" => sent[c] = attempt[c] + 1
         /\ phase[c] = "backoff" => attempt[c] < MaxRetries
<1>1. /\ attempt[c] \in 0 .. MaxRetries /\ sent[c] \in 0 .. MaxRetries + 1
      /\ phase[c] \in {"limiter", "http", "backoff"} \cup Final
      /\ MaxRetries \in Nat
  BY RpcAssumption DEF Inv, TypeOK
<1>2. /\ attempt[c] \in Nat /\ attempt[c] <= MaxRetries
      /\ sent[c] \in Nat /\ sent[c] <= MaxRetries + 1
  BY <1>1
<1>3. phase[c] \in {"limiter", "http", "backoff", "Skipped", "Fetched", "Failed"}
  BY <1>1 DEF Final
<1>4. /\ phase[c] = "limiter" => sent[c] = attempt[c]
      /\ phase[c] # "limiter" => sent[c] = attempt[c] + 1
      /\ phase[c] = "backoff" => attempt[c] < MaxRetries
  BY DEF Inv, Bookkeeping
<1> QED BY <1>1, <1>2, <1>3, <1>4

(* Where a reply leads.                                                    *)
LEMMA ReplyLeads ==
  ASSUME NEW c \in Calls, NEW r \in Reply, Inv
  PROVE  /\ Returned(c, r) \in {"Skipped", "Fetched"} => r \in Definitive
         /\ Returned(c, r) = "Failed" => GaveUp(c, r)
         /\ Returned(c, r) = "backoff" => attempt[c] < MaxRetries /\ r \notin Definitive
         /\ Returned(c, r) \in {"Skipped", "Fetched", "Failed", "backoff"}
<1> USE DEF GaveUp
<1>1. attempt[c] \in 0 .. MaxRetries /\ MaxRetries \in Nat
  BY RpcAssumption DEF Inv, TypeOK
<1>2. CASE r \in {"error: skipped", "null result"}
  BY <1>2 DEF Returned, TryGetBlock, ClassifyResponse, Body, Definitive
<1>3. CASE r = "block"
  BY <1>3 DEF Returned, TryGetBlock, ClassifyResponse, Body, Definitive
<1>4. CASE r = "http 4xx"
  BY <1>4 DEF Returned, TryGetBlock, Body, Definitive
<1>5. CASE r \in {"error: other", "send error", "http 5xx", "http 429", "bad json"}
  <2>1. TryGetBlock(r) = "Transient" /\ r \notin Definitive
    BY <1>5 DEF TryGetBlock, ClassifyResponse, Body, Definitive
  <2>2. Returned(c, r) = IF GivesUp(attempt[c]) THEN "Failed" ELSE "backoff"
    BY <2>1 DEF Returned
  <2>3. GivesUp(attempt[c]) => attempt[c] = MaxRetries
    BY <1>1 DEF GivesUp
  <2>4. ~GivesUp(attempt[c]) => attempt[c] < MaxRetries
    BY <1>1 DEF GivesUp
  <2> QED BY <2>1, <2>2, <2>3, <2>4
<1> QED BY <1>2, <1>3, <1>4, <1>5 DEF Reply, Transport, Body

LEMMA RetryStep == Inv /\ [Next]_vars => Inv'
<1> SUFFICES ASSUME Inv, [Next]_vars PROVE Inv'
  OBVIOUS
<1> USE RpcAssumption DEF GaveUp
<1>1. ASSUME NEW c \in Calls, Send(c) PROVE Inv'
  <2>1. TypeOK'
    <3>1. sent[c] + 1 \in 0 .. MaxRetries + 1 /\ window[1] + 1 \in Nat
      <4>1. sent[c] = attempt[c] /\ PerSecond \in Nat \ {0}
        BY <1>1, Typed DEF Send
      <4>2. window \in [1 .. PerSecond -> Nat]
        BY DEF Inv, TypeOK
      <4>3. window[1] \in Nat
        BY <4>1, <4>2
      <4> QED BY <4>1, <4>3, Typed
    <3> QED BY <1>1, <3>1 DEF Send, TakesCell, Inv, TypeOK
  <2>2. Bookkeeping'
    BY <1>1 DEF Send, Inv, TypeOK, Bookkeeping
  <2> QED BY <2>1, <2>2 DEF Inv
<1>2. ASSUME NEW c \in Calls, Receive(c) PROVE Inv'
  <2>1. PICK r \in Reply : /\ phase' = [phase EXCEPT ![c] = Returned(c, r)]
                           /\ last' = [last EXCEPT ![c] = r]
    BY <1>2 DEF Receive
  <2>2. TypeOK'
    BY <1>2, <2>1, ReplyLeads DEF Receive, Inv, TypeOK, Final
  <2>3. Bookkeeping'
    BY <1>2, <2>1, ReplyLeads DEF Receive, Inv, TypeOK, Bookkeeping
  <2> QED BY <2>2, <2>3 DEF Inv
<1>3. ASSUME NEW c \in Calls, Wake(c) PROVE Inv'
  <2>1. attempt[c] + 1 \in 0 .. MaxRetries
    BY <1>3, Typed DEF Wake
  <2>2. TypeOK'
    BY <1>3, <2>1 DEF Wake, NextAttempt, Inv, TypeOK
  <2>3. Bookkeeping'
    BY <1>3 DEF Wake, NextAttempt, Inv, TypeOK, Bookkeeping
  <2> QED BY <2>2, <2>3 DEF Inv
<1>4. CASE Tick
  <2>1. TypeOK'
    BY <1>4 DEF Tick, Inv, TypeOK
  <2>2. Bookkeeping'
    BY <1>4 DEF Tick, Inv, Bookkeeping
  <2> QED BY <2>1, <2>2 DEF Inv
<1>5. CASE UNCHANGED vars
  BY <1>5 DEF vars, Inv, TypeOK, Bookkeeping
<1> QED BY <1>1, <1>2, <1>3, <1>4, <1>5 DEF Next

LEMMA InvAlways == Spec => []Inv
BY RetryInit, RetryStep, PTL DEF Spec

(* No call sends more than 1 + MAX_RETRIES requests, and the limiter never *)
(* holds more than its burst.                                              *)
THEOREM RpcTyped == Spec => []TypeOK
BY InvAlways, PTL DEF Inv

(* No call gives up early, retries an answer that cannot change, or sends  *)
(* more than 1 + MAX_RETRIES requests.                                     *)
THEOREM RetriesJustified == Spec => []RetriesAreJustified
<1>1. Inv => RetriesAreJustified
  <2> SUFFICES ASSUME Inv, NEW c \in Calls
               PROVE  /\ phase[c] = "Failed" =>
                           \/ last[c] = "http 4xx"
                           \/ last[c] \notin Definitive /\ sent[c] = MaxRetries + 1
                      /\ phase[c] \in {"Skipped", "Fetched"} => last[c] \in Definitive
                      /\ phase[c] \notin Final /\ sent[c] > 0 /\ phase[c] # "http"
                           => last[c] \notin Definitive /\ sent[c] <= MaxRetries
    BY DEF RetriesAreJustified
  <2>1. /\ phase[c] = "Failed" => GaveUp(c, last[c])
        /\ phase[c] \in {"Skipped", "Fetched"} => last[c] \in Definitive
        /\ phase[c] \in {"limiter", "backoff"} => last[c] \notin Definitive
    BY DEF Inv, Bookkeeping
  <2>2. phase[c] \in {"limiter", "backoff"} => sent[c] <= MaxRetries
    BY Typed
  <2>3. phase[c] = "Failed" /\ attempt[c] = MaxRetries => sent[c] = MaxRetries + 1
    BY Typed
  <2>4. phase[c] \notin Final /\ phase[c] # "http" => phase[c] \in {"limiter", "backoff"}
    BY Typed DEF Final
  <2> QED BY <2>1, <2>2, <2>3, <2>4 DEF GaveUp
<1> QED BY <1>1, InvAlways, PTL


-----------------------------------------------------------------------------
(* The limiter.  BurstBound, which speaks of every span of ticks up to a   *)
(* second, is inductive where its last instance, the second, is not.       *)

(* One more request in this tick.                                          *)
OneMore(v, w, n) ==
  \A t \in 1 .. n : /\ w[t] \in Nat
                    /\ v[t] = IF t = 1 THEN w[t] + 1 ELSE w[t]

LEMMA SentNow ==
  ASSUME NEW n \in Nat, NEW w, NEW v, NEW k \in 1 .. n, OneMore(v, w, n)
  PROVE  Sum(v, 1 .. k) = Sum(w, 1 .. k) + 1
<1> DEFINE all == 1 .. k
           rest == all \ {1}
<1>1. IsFiniteSet(all) /\ IsFiniteSet(rest) /\ 1 \in all
  <2>1. IsFiniteSet(all) /\ 1 \in all
    BY FS_Interval
  <2> HIDE DEF all
  <2> QED BY <2>1, FS_RemoveElement
<1>2. /\ v[1] = w[1] + 1 /\ \A t \in rest : v[t] = w[t]
      /\ \A t \in all : w[t] \in Int /\ v[t] \in Int
  BY DEF OneMore
<1> HIDE DEF all, rest
<1>3. Sum(v, rest) = Sum(w, rest)
  BY <1>1, <1>2, SumSame
<1>4. /\ Sum(v, all) = v[1] + Sum(v, rest)
      /\ Sum(w, all) = w[1] + Sum(w, rest)
  BY <1>1, <1>2, SumRemove DEF rest
<1>5. Sum(w, rest) \in Int
  BY <1>1, <1>2, SumInt DEF rest
<1> QED BY <1>1, <1>2, <1>3, <1>4, <1>5 DEF all

(* A tick later the requests of k ticks are those of the k - 1 before.     *)
Shifted(v, w, n) ==
  \A t \in 1 .. n : /\ w[t] \in Nat
                    /\ v[t] = IF t = 1 THEN 0 ELSE w[t - 1]

LEMMA TickLater ==
  ASSUME NEW n \in Nat, NEW w, NEW v, NEW k \in 1 .. n, Shifted(v, w, n)
  PROVE  Sum(v, 1 .. k) = Sum(w, 1 .. (k - 1))
<1> DEFINE all == 1 .. k
           before == 1 .. (k - 1)
           rest == all \ {1}
           m == [t \in before |-> t + 1]
<1>1. IsFiniteSet(all) /\ IsFiniteSet(before) /\ 1 \in all
  BY FS_Interval
<1>2. rest = {m[t] : t \in before}
  <2>1. ASSUME NEW u \in rest PROVE u - 1 \in before /\ m[u - 1] = u
    OBVIOUS
  <2>2. ASSUME NEW t \in before PROVE m[t] \in rest
    OBVIOUS
  <2> HIDE DEF rest, before, m
  <2> QED BY <2>1, <2>2
<1>3. /\ \A t \in before : w[t] \in Int /\ v[m[t]] = w[t]
      /\ \A t, u \in before : m[t] = m[u] => t = u
      /\ v[1] = 0 /\ \A t \in all : v[t] \in Int
  <2>1. \A t \in before : t + 1 \in 1 .. n /\ t \in 1 .. n /\ m[t] = t + 1
    OBVIOUS
  <2>2. v[1] = 0 /\ \A t \in all : v[t] \in Int
    BY DEF Shifted
  <2>3. ASSUME NEW t \in before
        PROVE  w[t] \in Int /\ v[m[t]] = w[t]
    <3>1. w[t] \in Nat /\ v[t + 1] = w[(t + 1) - 1]
      BY <2>1 DEF Shifted
    <3> QED BY <2>1, <3>1
  <2>4. \A t, u \in before : m[t] = m[u] => t = u
    BY <2>1
  <2> HIDE DEF m
  <2> QED BY <2>2, <2>3, <2>4
<1> HIDE DEF all, before, m, rest
<1>4. Sum(v, rest) = Sum(w, before)
  BY <1>1, <1>2, <1>3, SumImage
<1>5. Sum(v, all) = v[1] + Sum(v, rest)
  BY <1>1, <1>3, SumRemove DEF rest
<1>6. Sum(w, before) \in Int
  BY <1>1, <1>3, SumInt
<1>7. Sum(v, all) = Sum(w, before)
  BY <1>3, <1>4, <1>5, <1>6
<1> QED BY <1>7 DEF all, before

LEMMA RequestsAre ==
  ASSUME NEW k PROVE Requests(k) = Sum(window, 1 .. k)
BY Zenon DEF Requests, Sum

LEMMA BurstInit == Init => BurstBound
<1> SUFFICES ASSUME Init, NEW k \in 1 .. PerSecond
             PROVE  Requests(k) + cells <= PerSecond + k - 1
  BY DEF BurstBound
<1>1. PerSecond \in Nat /\ cells = PerSecond /\ \A t \in 1 .. k : window[t] = 0
  BY RpcAssumption DEF Init
<1>2. IsFiniteSet(1 .. k)
  BY <1>1, FS_Interval
<1>3. Sum(window, 1 .. k) = Sum(window, {})
  <2>1. (\A t \in 1 .. k : window[t] \in Int) /\ {} \in SUBSET (1 .. k)
    BY <1>1
  <2>2. \A t \in (1 .. k) \ {} : window[t] = 0
    BY <1>1
  <2> QED BY <1>2, <2>1, <2>2, SumSupport
<1> QED BY <1>1, <1>3, SumEmpty, RequestsAre

LEMMA BurstStep == Inv /\ Inv' /\ BurstBound /\ [Next]_vars => BurstBound'
<1> SUFFICES ASSUME Inv, Inv', BurstBound, [Next]_vars,
                    NEW k \in 1 .. PerSecond
             PROVE  Sum(window', 1 .. k) + cells' <= PerSecond + k - 1
  <2>1. ASSUME NEW j PROVE Requests(j)' = Sum(window', 1 .. j)
    BY DEF Requests, Sum, MapThenSumSet, MapThenFoldSet
  <2>2. BurstBound' = \A j \in 1 .. PerSecond :
                        Requests(j)' + cells' <= PerSecond + j - 1
    BY Zenon DEF BurstBound
  <2> QED BY <2>1, <2>2
<1>0. PerSecond \in Nat
  BY RpcAssumption
<1>1. /\ PerSecond \in Nat /\ cells \in Nat /\ cells' \in Nat
      /\ cells <= PerSecond /\ cells' <= PerSecond
      /\ window \in [1 .. PerSecond -> Nat]
      /\ window' \in [1 .. PerSecond -> Nat]
  BY RpcAssumption DEF Inv, TypeOK
<1>2. \A j \in 1 .. PerSecond : Sum(window, 1 .. j) + cells <= PerSecond + j - 1
  BY RequestsAre DEF BurstBound
<1>3. \A j \in 0 .. PerSecond : Sum(window, 1 .. j) \in Nat
  <2> SUFFICES ASSUME NEW j \in 0 .. PerSecond PROVE Sum(window, 1 .. j) \in Nat
    OBVIOUS
  <2>1. IsFiniteSet(1 .. j)
    BY <1>1, FS_Interval
  <2>2. \A t \in 1 .. j : window[t] \in Nat
    BY <1>1
  <2> QED BY <2>1, <2>2, SumNat
<1>4. ASSUME NEW c \in Calls, Send(c)
      PROVE  Sum(window', 1 .. k) + cells' <= PerSecond + k - 1
  <2>1. cells' = cells - 1 /\ window' = [window EXCEPT ![1] = @ + 1]
    BY <1>4 DEF Send, TakesCell
  <2>2. OneMore(window', window, PerSecond)
    <3> SUFFICES ASSUME NEW t \in 1 .. PerSecond
                 PROVE  /\ window[t] \in Nat
                        /\ window'[t] = IF t = 1 THEN window[t] + 1 ELSE window[t]
      BY DEF OneMore
    <3>1. window \in [1 .. PerSecond -> Nat]
      BY <1>1
    <3> QED BY <2>1, <3>1
  <2>3. Sum(window', 1 .. k) = Sum(window, 1 .. k) + 1
    BY <1>0, <2>2, SentNow
  <2>4. Sum(window, 1 .. k) + cells <= PerSecond + k - 1 /\ Sum(window, 1 .. k) \in Nat
    BY <1>2, <1>3
  <2>5. cells \in Nat /\ PerSecond \in Nat /\ k \in Nat
    BY <1>1
  <2> QED BY <2>1, <2>3, <2>4, <2>5
<1>5. CASE Tick
  <2>1. /\ cells' <= cells + 1
        /\ window' = [t \in 1 .. PerSecond |-> IF t = 1 THEN 0 ELSE window[t - 1]]
    BY <1>1, <1>5 DEF Tick
  <2>2. Shifted(window', window, PerSecond)
    <3> SUFFICES ASSUME NEW t \in 1 .. PerSecond
                 PROVE  /\ window[t] \in Nat
                        /\ window'[t] = IF t = 1 THEN 0 ELSE window[t - 1]
      BY DEF Shifted
    <3>1. window \in [1 .. PerSecond -> Nat]
      BY <1>1
    <3> QED BY <2>1, <3>1
  <2>3. Sum(window', 1 .. k) = Sum(window, 1 .. (k - 1))
    BY <1>0, <2>2, TickLater
  <2>4. CASE k = 1
    <3>1. Sum(window', 1 .. k) = 0
      <4>1. 1 .. (k - 1) = {}
        BY <2>4
      <4> QED BY <2>3, <4>1, SumEmpty
    <3>2. PerSecond + k - 1 = PerSecond /\ cells' <= PerSecond /\ cells' \in Nat
      BY <1>1, <2>4
    <3> QED BY <3>1, <3>2
  <2>5. CASE k # 1
    <3>1. k - 1 \in 1 .. PerSecond /\ k - 1 \in 0 .. PerSecond
      BY <1>0, <2>5
    <3>2. Sum(window, 1 .. (k - 1)) + cells <= PerSecond + (k - 1) - 1
      BY <1>2, <3>1
    <3>3. Sum(window, 1 .. (k - 1)) \in Nat
      BY <1>3, <3>1
    <3>4. cells \in Nat /\ cells' \in Nat /\ PerSecond \in Nat /\ k \in Nat
      BY <1>1
    <3> QED BY <2>1, <2>3, <3>2, <3>3, <3>4
  <2> QED BY <2>4, <2>5
<1>6. CASE UNCHANGED <<window, cells>>
  BY <1>2, <1>6
<1> QED BY <1>4, <1>5, <1>6 DEF Next, Receive, Wake, vars

(* In any k ticks, up to a second, all calls together send no more than    *)
(* the burst and the k - 1 cells the limiter regained, less those that are *)
(* still there.                                                            *)
THEOREM BurstBounded == Spec => []BurstBound
BY InvAlways, BurstInit, BurstStep, PTL DEF Spec

(* In particular a second sees less than twice the quota, though more than *)
(* the quota, as the run rpc_burst shows.                                  *)
THEOREM TwiceTheQuota == Spec => [](Requests(PerSecond) + cells < 2 * PerSecond)
<1>1. Inv /\ BurstBound => Requests(PerSecond) + cells < 2 * PerSecond
  <2> SUFFICES ASSUME Inv, BurstBound
               PROVE  Requests(PerSecond) + cells < 2 * PerSecond
    OBVIOUS
  <2>1. PerSecond \in Nat \ {0} /\ PerSecond \in 1 .. PerSecond
    BY RpcAssumption
  <2>2. Requests(PerSecond) + cells <= PerSecond + PerSecond - 1
    BY <2>1 DEF BurstBound
  <2>3. Requests(PerSecond) \in Nat /\ cells \in Nat
    <3>1. IsFiniteSet(1 .. PerSecond)
      BY <2>1, FS_Interval
    <3>2. (\A t \in 1 .. PerSecond : window[t] \in Nat) /\ cells \in Nat
      BY <2>1 DEF Inv, TypeOK
    <3>3. Sum(window, 1 .. PerSecond) \in Nat
      BY <3>1, <3>2, SumNat
    <3> QED BY <3>2, <3>3, RequestsAre
  <2> QED BY <2>1, <2>2, <2>3
<1> QED BY <1>1, InvAlways, BurstBounded, PTL

-----------------------------------------------------------------------------
(* The steps of RpcClient are steps of BlockFetch (its safety half).       *)

Result == [c \in Calls |-> IF phase[c] \in Final THEN phase[c] ELSE "pending"]

LEMMA ReturnStep == Inv /\ [Next]_vars => [Fetch!Next]_Result
<1> SUFFICES ASSUME Inv, [Next]_vars PROVE Fetch!Next \/ Result' = Result
  OBVIOUS
<1>1. ASSUME NEW c \in Calls, Receive(c) PROVE Fetch!Next \/ Result' = Result
  <2>1. PICK r \in Reply : phase' = [phase EXCEPT ![c] = Returned(c, r)]
    BY <1>1 DEF Receive
  <2>2. /\ phase[c] = "http" /\ phase[c] \notin Final
        /\ phase' = [phase EXCEPT ![c] = Returned(c, r)]
        /\ phase \in [Calls -> {"limiter", "http", "backoff"} \cup Final]
    BY <1>1, <2>1 DEF Receive, Final, Inv, TypeOK
  <2>3. CASE Returned(c, r) \in Final
    <3>1. Result[c] = "pending" /\ Result' = [Result EXCEPT ![c] = Returned(c, r)]
      BY <2>2, <2>3 DEF Result
    <3>2. Fetch!Return(c)
      BY <2>3, <3>1 DEF Fetch!Return, Fetch!Final, Result, Final
    <3> QED BY <3>2 DEF Fetch!Next
  <2>4. CASE Returned(c, r) \notin Final
    BY <2>2, <2>4 DEF Result
  <2> QED BY <2>3, <2>4
<1>2. ASSUME NEW c \in Calls, Send(c) \/ Wake(c) PROVE Result' = Result
  BY <1>2 DEF Send, Wake, Result, Final, Inv, TypeOK
<1>3. CASE Tick \/ UNCHANGED vars
  BY <1>3 DEF Tick, vars, Result
<1> QED BY <1>1, <1>2, <1>3 DEF Next

(* A call returns at most once, and what it returned stays (ADR-0001).     *)
THEOREM ReturnsOnce == Spec => Fetch!Init /\ [][Fetch!Next]_Result
<1>1. Init => Fetch!Init
  BY DEF Init, Fetch!Init, Final
<1> QED BY <1>1, InvAlways, ReturnStep, PTL DEF Spec
=============================================================================
