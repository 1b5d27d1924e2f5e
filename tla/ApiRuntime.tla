----------------------------- MODULE ApiRuntime -----------------------------
(***************************************************************************)
(* The threads that serve the API (src/api.rs) and ingestion (src/main.rs) *)
(* in one tokio runtime.  A task is polled on one of a few workers and     *)
(* gives it up at its next await; spawn_db hands the database work to a    *)
(* thread of the blocking pool and awaits it; get_contention_naive         *)
(* computes on its worker.  How long the computation of a contention       *)
(* report takes, minutes or for ever, is left open.                        *)
(***************************************************************************)
EXTENDS Integers, FiniteSets

CONSTANTS Light,    \* requests of get_contention, get_tokens, get_ohlcv
          Heavy,    \* of get_contention_via_spawn_blocking
          Naive,    \* of get_contention_naive
          Workers,  \* worker threads of the runtime
          Steps     \* polls ingestion needs to get done

Requests == Light \cup Heavy \cup Naive

ASSUME RuntimeAssumption ==
  /\ IsFiniteSet(Requests)
  /\ Light \cap Heavy = {} /\ Light \cap Naive = {} /\ Heavy \cap Naive = {}
  /\ Workers \in Nat \ {0} /\ Steps \in Nat

VARIABLES phase,     \* request -> how far it is
          ingesting  \* polls ingestion still needs

Phases == {"none", "ready", "computing", "pool", "woken", "done"}

In(p) == {r \in Requests : phase[r] = p}
Move(r, p, q) == phase[r] = p /\ phase' = [phase EXCEPT ![r] = q]

RuntimeInit == /\ phase = [r \in Requests |-> "none"]
               /\ ingesting \in {0, Steps}   \* 0: SKIP_INGESTION

WorkerFree == Cardinality(In("computing")) < Workers

-----------------------------------------------------------------------------
(* A request of the page is on its way; it waits for a worker.             *)
Arrive(r) == Move(r, "none", "ready")

(* The handlers that go through spawn_db.                                  *)
(* mutant: the fix undone, a report computed in its handler                *)
LightOnly == Light
Spawned == Light \cup Heavy

(* The handler runs on a worker up to its first await.  The pool always    *)
(* has a thread for the closure: tokio allows 512.                         *)
SpawnDb(r, from) == /\ r \in Spawned /\ WorkerFree
                    /\ Move(r, from, "pool")
                    /\ UNCHANGED ingesting

PoolDone(r) == Move(r, "pool", "woken") /\ UNCHANGED ingesting

(* .. and from there to its end, when the closure has returned.            *)
Answer(r) == WorkerFree /\ Move(r, "woken", "done") /\ UNCHANGED ingesting

(* The handler runs on a worker to its end.                                *)
ComputeInline(r) == /\ r \notin Spawned /\ WorkerFree
                    /\ Move(r, "none", "computing")
                    /\ UNCHANGED ingesting

InlineDone(r) == Move(r, "computing", "done") /\ UNCHANGED ingesting

(* A task of the pipeline is polled.                                       *)
IngestStep == /\ ingesting > 0 /\ WorkerFree
              /\ ingesting' = ingesting - 1
              /\ UNCHANGED phase

(* Every worker computes a report for get_contention_naive.                *)
Starved == Cardinality(In("computing") \cap Naive) = Workers
=============================================================================
