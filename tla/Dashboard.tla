----------------------------- MODULE Dashboard ------------------------------
(***************************************************************************)
(* The charts of dashboard/app.js and the handlers behind them: loadTokens *)
(* fills the list of tokens and loads the chart of the first, loadOhlcv    *)
(* runs again whenever the user picks a token or an interval.  The requests*)
(* of the page go through ApiRuntime beside ingestion and the experiment's *)
(* requests; each reads the database at some moment of its own, and their  *)
(* answers arrive in any order.  An answer is handled by the page as soon  *)
(* as it is sent: until then the request is under way.                     *)
(***************************************************************************)
EXTENDS ApiRuntime

CONSTANTS Mints, Intervals,
          MaxLoads,           \* the calls of loadOhlcv there may be
          Tokens,             \* the request of loadTokens
          NoMint, Failed, Pending

Loads == 1 .. MaxLoads

ASSUME DashboardAssumption ==
  /\ MaxLoads \in Nat \ {0}
  /\ Light = Loads \cup {Tokens} /\ Tokens \notin Loads
  /\ NoMint \notin Mints /\ Intervals # {}
  /\ {Failed, Pending} \cap BOOLEAN = {}

VARIABLES traded,   \* mints with rows in token_balances
          candles,  \* <<mint, interval>> with rows in ohlcv_candles
          result,   \* request -> what its SELECT gave, or Failed, or Pending
          options,  \* mints in mintSelect
          mint, interval,   \* mintSelect.value, intervalSelect.value
          asked,    \* load -> the <<mint, interval>> it was started with
          last,     \* the newest load, 0 before the first
          chart,    \* <<mint, interval>> and whether there are bars
          note,     \* the "no candles" note is visible
          applied   \* history: the load whose answer was shown last

database == <<traded, candles>>
page == <<options, mint, interval, asked, last, chart, note, applied>>
vars == <<phase, ingesting, database, result, page>>

DefaultInterval == CHOOSE i \in Intervals : TRUE
Blank == [of |-> <<NoMint, DefaultInterval>>, bars |-> FALSE]

Init == /\ RuntimeInit
        /\ traded = {} /\ candles = {}
        /\ result = [r \in Light |-> Pending]
        /\ options = {} /\ mint = NoMint /\ interval = DefaultInterval
        /\ asked = [l \in Loads |-> <<NoMint, DefaultInterval>>]
        /\ last = 0 /\ chart = Blank /\ note = FALSE /\ applied = 0

-----------------------------------------------------------------------------
(* The programs behind the database, reduced to what the page reads.       *)

(* write_block                                                             *)
Trade(m) == /\ traded' = traded \cup {m}
            /\ UNCHANGED <<phase, ingesting, candles, result, page>>

(* build_and_store_candles: every trade goes into a candle of each         *)
(* interval, and all of them are committed at once.                        *)
(* mutant: one interval per transaction                                    *)
OneInterval(m) == \E i \in Intervals : candles' = candles \cup {<<m, i>>}
BothIntervals(m) == candles' = candles \cup ({m} \X Intervals)

BuildCandles(m) == /\ m \in traded
                   /\ BothIntervals(m)
                   /\ UNCHANGED <<phase, ingesting, traded, result, page>>

-----------------------------------------------------------------------------
(* get_tokens: ORDER BY has_candles DESC, activity_count DESC.  Activity   *)
(* puts any of the best in front.                                          *)
(* mutant: ORDER BY activity_count DESC                                    *)
AnyOrder(S, has) == S
First(S, has) == IF has = {} THEN S ELSE has

TokenList ==
  LET has == {m \in traded : \E i \in Intervals : <<m, i>> \in candles}
  IN  {[mints |-> traded, first |-> m, charted |-> has # {}] :
         m \in IF traded = {} THEN {NoMint} ELSE First(traded, has)}

(* The SELECT of each handler, on a connection of its own.                 *)
Select(r) == IF r = Tokens THEN TokenList
             ELSE {asked[r] \in candles}

(* The SELECT is done on its pool thread, or an error comes back.          *)
Read(r) == /\ PoolDone(r)
           /\ \E x \in Select(r) \cup {Failed} :
                result' = [result EXCEPT ![r] = x]
           /\ UNCHANGED <<database, page>>

-----------------------------------------------------------------------------
(* app.js.                                                                 *)

LoadTokens == /\ Arrive(Tokens)
              /\ UNCHANGED <<ingesting, database, result, page>>

(* loadOhlcv up to its fetch, beside whatever else the caller has done.    *)
FetchOhlcv(m, i) == /\ last + 1 \in Loads /\ last' = last + 1
                    /\ asked' = [asked EXCEPT ![last + 1] = <<m, i>>]
                    /\ phase' = [phase EXCEPT ![last + 1] = "ready"]
(* mutant: `if (!mint) return' dropped                                     *)
NoReturn(m, i) == FetchOhlcv(m, i)
LoadOhlcv(m, i) == IF m = NoMint THEN UNCHANGED <<phase, asked, last>>
                                 ELSE FetchOhlcv(m, i)

SelectMint(m) == /\ m \in options \ {mint} /\ mint' = m
                 /\ LoadOhlcv(m, interval)
                 /\ UNCHANGED <<ingesting, database, result, options, interval,
                                chart, note, applied>>

(* mutant: no listener on intervalSelect                                   *)
NoListener(m, i) == UNCHANGED <<phase, asked, last>>
OnIntervalChange(m, i) == LoadOhlcv(m, i)

SelectInterval(i) == /\ i # interval /\ interval' = i
                     /\ OnIntervalChange(mint, i)
                     /\ UNCHANGED <<ingesting, database, result, options, mint,
                                    chart, note, applied>>

(* The body of an error is no JSON: json() throws and the page stays as it *)
(* is.                                                                     *)
OnError(r) == /\ Answer(r) /\ result[r] = Failed
              /\ UNCHANGED <<database, result, page>>

OnTokens ==
  /\ Answer(Tokens) /\ result[Tokens] # Failed /\ result[Tokens].mints = {}
  /\ UNCHANGED <<database, result, page>>

OnTokensLoad ==
  /\ WorkerFree /\ phase[Tokens] = "woken"
  /\ result[Tokens] # Failed /\ result[Tokens].mints # {}
  /\ options' = result[Tokens].mints /\ mint' = result[Tokens].first
  /\ last' = 1 /\ asked' = [asked EXCEPT ![1] = <<mint', interval>>]
  /\ phase' = [phase EXCEPT ![Tokens] = "done", ![1] = "ready"]
  /\ UNCHANGED <<ingesting, database, result, interval, chart, note, applied>>

OnOhlcv(l) == /\ Answer(l) /\ result[l] # Failed
              /\ chart' = [of |-> asked[l], bars |-> result[l]]
              /\ note' = ~result[l]
              /\ applied' = l
              /\ UNCHANGED <<database, result, options, mint, interval, asked,
                             last>>

-----------------------------------------------------------------------------
Alone(A) == A /\ UNCHANGED <<database, result, page>>

Serve(r) == \/ Alone(SpawnDb(r, "ready"))
            \/ Read(r) \/ OnError(r)
            \/ r = Tokens /\ (OnTokens \/ OnTokensLoad)
            \/ r \in Loads /\ OnOhlcv(r)

Compute(r) == \/ Alone(SpawnDb(r, "none")) \/ Alone(PoolDone(r))
              \/ Alone(Answer(r))
              \/ Alone(ComputeInline(r)) \/ Alone(InlineDone(r))

Ingest == Alone(IngestStep)

Next == \/ \E r \in Light : Serve(r)
        \/ \E r \in Heavy \cup Naive : Compute(r)
        \/ Ingest
        \/ LoadTokens
        \/ \E m \in Mints : SelectMint(m) \/ Trade(m) \/ BuildCandles(m)
        \/ \E i \in Intervals : SelectInterval(i)

(* A free worker polls every ready task some time, the pool runs every     *)
(* closure and a SELECT of the page ends.  Nothing makes a report, a build *)
(* or a user go on.                                                        *)
Fairness == WF_vars(Ingest) /\ \A r \in Light : WF_vars(Serve(r))

Spec == Init /\ [][Next]_vars /\ Fairness

-----------------------------------------------------------------------------
(* Every variable has its type; the loads that were sent are 1 .. last,    *)
(* each for a token of the list, and no more than Workers handlers compute.*)
TypeOK ==
  /\ phase \in [Requests -> Phases] /\ ingesting \in 0 .. Steps
  /\ traded \subseteq Mints /\ candles \subseteq traded \X Intervals
  /\ options \subseteq traded /\ mint \in options \cup {NoMint}
  /\ interval \in Intervals
  /\ asked \in [Loads -> (Mints \cup {NoMint}) \X Intervals]
  /\ last \in Loads \cup {0} /\ applied \in 0 .. last
  /\ \A l \in Loads : phase[l] # "none" <=> l <= last
  /\ \A l \in 1 .. last : asked[l][1] \in options
  /\ chart \in [of : (options \cup {NoMint}) \X Intervals, bars : BOOLEAN]
  /\ note \in BOOLEAN /\ DOMAIN result = Light
  /\ Cardinality(In("computing")) <= Workers

(* When the answer of the newest load was the last to be shown, chart and  *)
(* note are those of the token and the interval selected now.  (It is not  *)
(* when that load failed, or an answer overtaken by it came later.)        *)
ChartFollowsSelection ==
  applied # 0 => /\ note = ~chart.bars
                 /\ applied = last => chart.of = <<mint, interval>>

(* "defaulting to `most active' alone tends to pick a mint with an empty   *)
(* chart" (api.rs): the first chart has bars whenever some token had, though*)
(* list and chart are read at different times.                             *)
FirstChartNotEmpty ==
  last # 0 /\ result[Tokens].charted => result[1] # FALSE

(* Part 5, "API stays responsive during ingestion" (main.rs): whatever     *)
(* reports are computed in the pool, every request of the page is answered *)
(* and ingestion ends, unless naive computations hold all workers again    *)
(* and again.                                                              *)
Quiet == ingesting = 0 /\ \A r \in Light : phase[r] \in {"none", "done"}
Responsive == []<>Starved \/ <>[]Quiet
=============================================================================
