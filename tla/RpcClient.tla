----------------------------- MODULE RpcClient ------------------------------
(***************************************************************************)
(* src/rpc.rs: concurrent get_block calls that share one rate limiter.     *)
(* Each call loops: wait for the limiter, send one request, classify the   *)
(* reply, return or back off and try again.                                *)
(*                                                                         *)
(* Time advances in ticks of 1/PerSecond seconds, the interval at which    *)
(* the limiter regains one cell.  A backoff is a random delay that may be  *)
(* zero, so waking up is not tied to ticks.                                *)
(***************************************************************************)
EXTENDS Integers, FiniteSetsExt

CONSTANTS Calls,       \* the calls of get_block
          MaxRetries,  \* MAX_RETRIES
          PerSecond    \* the quota, and with it the limiter's burst

ASSUME RpcAssumption == /\ IsFiniteSet(Calls)
                        /\ MaxRetries \in Nat
                        /\ PerSecond \in Nat \ {0}

(* What a request can come back with.                                      *)
Transport == {"send error", "http 5xx", "http 429", "http 4xx", "bad json"}
Body == {"error: skipped", "error: other", "null result", "block"}
Reply == Transport \cup Body

VARIABLES phase,    \* call -> where its loop is, or the outcome it returned
          attempt,  \* call -> the loop's counter of retries
          last,     \* call -> reply to its last request
          sent,     \* call -> requests it has sent
          cells,    \* cells left in the limiter
          window    \* requests sent in each of the last PerSecond ticks

vars == <<phase, attempt, last, sent, cells, window>>

Final == {"Skipped", "Fetched", "Failed"}

Init == /\ phase = [c \in Calls |-> "limiter"]
        /\ attempt = [c \in Calls |-> 0]
        /\ last = [c \in Calls |-> "none"]
        /\ sent = [c \in Calls |-> 0]
        /\ cells = PerSecond
        /\ window = [t \in 1 .. PerSecond |-> 0]

(* classify_response: an error that says "skipped" and a null result both  *)
(* mean a skipped slot.                                                    *)
(* mutant: only the RPC error means skipped, a null result is retried      *)
ClassifyErrorOnly(r) == CASE r = "error: skipped" -> "Skipped"
                          [] r = "block" -> "Ok"
                          [] OTHER -> "Transient"
ClassifyResponse(r) == CASE r \in {"error: skipped", "null result"} -> "Skipped"
                         [] r = "error: other" -> "Transient"
                         [] r = "block" -> "Ok"

(* try_get_block                                                           *)
TryGetBlock(r) == CASE r \in Body -> ClassifyResponse(r)
                    [] r = "http 4xx" -> "Permanent"
                    [] OTHER -> "Transient"

(* mutant: `attempt > MAX_RETRIES'                                         *)
GivesUpLate(n) == n > MaxRetries
GivesUp(n) == n >= MaxRetries

Returned(c, r) == CASE TryGetBlock(r) = "Skipped" -> "Skipped"
                    [] TryGetBlock(r) = "Ok" -> "Fetched"
                    [] TryGetBlock(r) = "Permanent" -> "Failed"
                    [] TryGetBlock(r) = "Transient" ->
                         IF GivesUp(attempt[c]) THEN "Failed" ELSE "backoff"

(* limiter.until_ready().await, then send().                               *)
(* mutants: a retry does not pass the limiter; it waits for one more cell  *)
(* with each attempt, in the end for more than the burst                   *)
TakesMoreCells(c) == cells > attempt[c] /\ cells' = cells - attempt[c] - 1
TakesCellFirstTime(c) == IF attempt[c] > 0 THEN UNCHANGED cells
                         ELSE cells > 0 /\ cells' = cells - 1
TakesCell(c) == cells > 0 /\ cells' = cells - 1

Send(c) == /\ phase[c] = "limiter"
           /\ TakesCell(c)
           /\ phase' = [phase EXCEPT ![c] = "http"]
           /\ sent' = [sent EXCEPT ![c] = @ + 1]
           /\ window' = [window EXCEPT ![1] = @ + 1]
           /\ UNCHANGED <<attempt, last>>

Receive(c) == /\ phase[c] = "http"
              /\ \E r \in Reply : /\ phase' = [phase EXCEPT ![c] = Returned(c, r)]
                                  /\ last' = [last EXCEPT ![c] = r]
              /\ UNCHANGED <<attempt, sent, cells, window>>

(* sleep(backoff_with_jitter(attempt)) ends.                               *)
NextAttempt(c) == attempt' = [attempt EXCEPT ![c] = @ + 1]

Wake(c) == /\ phase[c] = "backoff"
           /\ phase' = [phase EXCEPT ![c] = "limiter"]
           /\ NextAttempt(c)
           /\ UNCHANGED <<last, sent, cells, window>>

(* The governor crate: Quota::per_second(n) allows a burst of n cells and  *)
(* regains one every 1/n second.                                           *)
Tick == /\ cells' = IF cells < PerSecond THEN cells + 1 ELSE cells
        /\ window' = [t \in 1 .. PerSecond |-> IF t = 1 THEN 0 ELSE window[t - 1]]
        /\ UNCHANGED <<phase, attempt, last, sent>>

Next == Tick \/ \E c \in Calls : Send(c) \/ Receive(c) \/ Wake(c)

(* Time passes; a request ends within the client's 30 s timeout; a sleep   *)
(* ends; a call waiting for the limiter retries until it gets a cell.      *)
Fairness == /\ WF_vars(Tick)
            /\ \A c \in Calls : WF_vars(Send(c)) /\ WF_vars(Receive(c) \/ Wake(c))

Spec == Init /\ [][Next]_vars /\ Fairness

-----------------------------------------------------------------------------
(* Every variable has its type: no call sends more than MAX_RETRIES + 1    *)
(* requests, and the limiter never holds more than its burst.              *)
TypeOK == /\ phase \in [Calls -> {"limiter", "http", "backoff"} \cup Final]
          /\ attempt \in [Calls -> 0 .. MaxRetries]
          /\ last \in [Calls -> Reply \cup {"none"}]
          /\ sent \in [Calls -> 0 .. MaxRetries + 1]
          /\ cells \in 0 .. PerSecond
          /\ window \in [1 .. PerSecond -> Nat]

(* A call gives up only on an answer that cannot change, or after exactly  *)
(* MAX_RETRIES retries of failures that can; a slot the RPC reports as     *)
(* skipped, or has no block for, costs no retry (ADR-0001).                *)
Definitive == {"http 4xx", "error: skipped", "null result", "block"}
RetriesAreJustified ==
  \A c \in Calls :
    /\ phase[c] = "Failed" =>
         \/ last[c] = "http 4xx"
         \/ last[c] \notin Definitive /\ sent[c] = MaxRetries + 1
    /\ phase[c] \in {"Skipped", "Fetched"} => last[c] \in Definitive
    /\ phase[c] \notin Final /\ sent[c] > 0 /\ phase[c] # "http"
         => last[c] \notin Definitive /\ sent[c] <= MaxRetries

(* What the limiter guarantees over any span of up to a second: a burst,   *)
(* and the cells it regained within the span, one for each tick after the  *)
(* first.                                                                  *)
Requests(ticks) == MapThenSumSet(LAMBDA t : window[t], 1 .. ticks)
BurstBound ==
  \A k \in 1 .. PerSecond : Requests(k) + cells <= PerSecond + k - 1

(* "self-imposed cap of 10 requests/second" (ADR-0002)                     *)
RateCap == Requests(PerSecond) <= PerSecond

(* Every call returns exactly one final outcome.                           *)
Fetch == INSTANCE BlockFetch
           WITH result <- [c \in Calls |-> IF phase[c] \in Final THEN phase[c]
                                           ELSE "pending"]
FetchSpec == Fetch!Spec
=============================================================================
