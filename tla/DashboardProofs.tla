-------------------------- MODULE DashboardProofs ---------------------------
(***************************************************************************)
(* Proofs about Dashboard, for every set of tokens and intervals, any      *)
(* number of loads, of other requests and of workers.                      *)
(***************************************************************************)
EXTENDS Dashboard, FiniteSetTheorems, TLAPS

(* A build gives a token candles of all intervals at once.                 *)
EveryInterval == \A m \in Mints, i, j \in Intervals :
                   <<m, i>> \in candles => <<m, j>> \in candles

(* A list of tokens that has been read stays true of the database, which   *)
(* only grows.                                                             *)
ListRead ==
  phase[Tokens] \in {"woken", "done"} /\ result[Tokens] # Failed =>
    /\ result[Tokens].mints \subseteq traded
    /\ result[Tokens].mints # {} => result[Tokens].first \in result[Tokens].mints
    /\ result[Tokens].charted =>
         \A i \in Intervals : <<result[Tokens].first, i>> \in candles

(* An answer is there when the closure has returned.                       *)
ChartsRead ==
  \A l \in Loads :
    /\ phase[l] = "none" => result[l] = Pending
    /\ phase[l] \in {"woken", "done"} => result[l] \in BOOLEAN \cup {Failed}

(* Loads begin with the list, and the newest is for what is selected.      *)
Asked ==
  /\ last = 0 => options = {} /\ mint = NoMint
  /\ last # 0 => /\ phase[Tokens] = "done"
                 /\ result[Tokens] # Failed
                 /\ mint \in options
                 /\ asked[last] = <<mint, interval>>
  /\ last # 0 /\ result[Tokens].charted => asked[1] \in candles

(* The chart is that of the load shown last.                               *)
Shown == applied # 0 => chart.of = asked[applied] /\ note = ~chart.bars

Inv == /\ TypeOK /\ EveryInterval /\ ListRead /\ ChartsRead /\ Asked /\ Shown
       /\ FirstChartNotEmpty

-----------------------------------------------------------------------------
LEMMA LightRequests ==
  /\ Light \subseteq Requests /\ Loads \subseteq Light /\ Tokens \in Light
  /\ \A r \in Heavy \cup Naive : r \in Requests /\ r \notin Light
  /\ Loads \subseteq Nat \ {0} /\ 1 \in Loads
BY RuntimeAssumption, DashboardAssumption DEF Requests, Loads

(* A step that puts nobody on a worker for long.                           *)
LEMMA FewerComputing ==
  ASSUME phase \in [Requests -> Phases], Cardinality(In("computing")) <= Workers,
         In("computing")' \subseteq In("computing")
  PROVE  Cardinality(In("computing"))' <= Workers
<1>1. IsFiniteSet(In("computing"))
  BY RuntimeAssumption, FS_Subset DEF In
<1>2. /\ Cardinality(In("computing")') <= Cardinality(In("computing"))
      /\ Cardinality(In("computing")) \in Nat /\ Cardinality(In("computing")') \in Nat
  BY <1>1, FS_Subset, FS_CardinalityType
<1> QED BY <1>2, RuntimeAssumption

LEMMA OneMoreComputing ==
  ASSUME phase \in [Requests -> Phases], WorkerFree, NEW r \in Requests,
         phase' = [phase EXCEPT ![r] = "computing"]
  PROVE  Cardinality(In("computing"))' <= Workers
<1>1. IsFiniteSet(In("computing"))
  BY RuntimeAssumption, FS_Subset DEF In
<1> DEFINE C == In("computing")
<1>2. C' = C \cup {r}
  BY DEF In
<1>3. Cardinality(C) \in Nat /\ Cardinality(C) < Workers
  BY <1>1, FS_CardinalityType DEF WorkerFree
<1> HIDE DEF C
<1>4. Cardinality(C \cup {r}) <= Cardinality(C) + 1
  BY <1>1, <1>3, FS_AddElement DEF C
<1>5. Cardinality(C \cup {r}) \in Nat
  BY <1>1, FS_AddElement, FS_CardinalityType DEF C
<1>6. Cardinality(C \cup {r}) <= Workers
  BY <1>3, <1>4, <1>5, RuntimeAssumption
<1> QED BY <1>2, <1>6 DEF C

(* What a step does to the phases of the page's requests.                  *)
LEMMA Moves ==
  ASSUME TypeOK, NEW r \in Requests, NEW q \in Phases \ {"none", "computing"},
         phase' = [phase EXCEPT ![r] = q], phase[r] # "none",
         UNCHANGED <<last, options, asked>>
  PROVE  /\ phase' \in [Requests -> Phases]
         /\ \A l \in Loads : phase'[l] # "none" <=> l <= last'
         /\ Cardinality(In("computing"))' <= Workers
<1>1. phase' \in [Requests -> Phases]
  BY DEF TypeOK
<1>2. \A l \in Loads : phase'[l] # "none" <=> l <= last'
  BY LightRequests DEF TypeOK
<1>3. In("computing")' \subseteq In("computing")
  BY DEF TypeOK, In
<1> QED BY <1>1, <1>2, <1>3, FewerComputing DEF TypeOK

LEMMA DashboardInit == Init => Inv
<1> SUFFICES ASSUME Init PROVE Inv
  OBVIOUS
<1>1. DefaultInterval \in Intervals
  BY DashboardAssumption DEF DefaultInterval
<1>2. phase = [r \in Requests |-> "none"] /\ ingesting \in 0 .. Steps
  BY RuntimeAssumption DEF Init, RuntimeInit
<1>3. In("computing") = {}
  BY <1>2 DEF In
<1>4. Cardinality(In("computing")) <= Workers
  BY <1>3, FS_EmptySet, RuntimeAssumption
<1>5. TypeOK
  <2>1. phase \in [Requests -> Phases] /\ \A l \in Loads : phase[l] = "none"
    BY <1>2, LightRequests DEF Phases
  <2>2. \A l \in Loads : ~(l <= last)
    BY LightRequests DEF Init
  <2>3. asked \in [Loads -> (Mints \cup {NoMint}) \X Intervals]
    BY <1>1 DEF Init
  <2>4. chart \in [of : (options \cup {NoMint}) \X Intervals, bars : BOOLEAN]
    BY <1>1 DEF Init, Blank
  <2>5. /\ traded \subseteq Mints /\ candles \subseteq traded \X Intervals
        /\ options \subseteq traded /\ mint \in options \cup {NoMint}
        /\ interval \in Intervals /\ note \in BOOLEAN /\ DOMAIN result = Light
    BY <1>1 DEF Init
  <2>6. /\ last \in Loads \cup {0} /\ applied \in 0 .. last
        /\ \A l \in 1 .. last : asked[l][1] \in options
    BY DEF Init
  <2>7. \A l \in Loads : phase[l] # "none" <=> l <= last
    BY <2>1, <2>2
  <2> QED BY <1>2, <1>4, <2>1, <2>3, <2>4, <2>5, <2>6, <2>7 DEF TypeOK
<1>6. ListRead
  BY <1>2, LightRequests DEF Init, ListRead
<1>7. ChartsRead
  BY <1>2, LightRequests DEF Init, ChartsRead
<1> QED
  BY <1>5, <1>6, <1>7
  DEF Init, Inv, EveryInterval, Asked, Shown, FirstChartNotEmpty

-----------------------------------------------------------------------------
(* What a step must say of the phases for TypeOK, and for the rest.        *)
PhasesOK == /\ phase \in [Requests -> Phases]
            /\ \A l \in Loads : phase[l] # "none" <=> l <= last
            /\ Cardinality(In("computing")) <= Workers

Unread == \A r \in Light :
            /\ phase'[r] = "none" => phase[r] = "none"
            /\ phase'[r] \in {"woken", "done"} => phase[r] \in {"woken", "done"}
            /\ phase[r] = "done" => phase'[r] = "done"

(* Requests go on, no SELECT is read and the page stays as it is.          *)
LEMMA RuntimeStep ==
  ASSUME Inv, UNCHANGED <<database, result, page>>,
         ingesting' \in 0 .. Steps, PhasesOK', Unread
  PROVE  Inv'
<1>1. /\ UNCHANGED <<traded, candles, result, options, mint, interval>>
      /\ UNCHANGED <<asked, last, chart, note, applied>>
  BY DEF database, page
<1>2. TypeOK'
  BY <1>1 DEF Inv, TypeOK, PhasesOK
<1>3. ListRead'
  BY <1>1, LightRequests DEF Inv, ListRead, Unread
<1>4. ChartsRead'
  BY <1>1, LightRequests DEF Inv, ChartsRead, Unread
<1>5. Asked'
  BY <1>1, LightRequests DEF Inv, Asked, Unread
<1> QED
  BY <1>1, <1>2, <1>3, <1>4, <1>5
  DEF Inv, EveryInterval, Shown, FirstChartNotEmpty

(* A request of the page moves on.                                         *)
LEMMA LightStep ==
  ASSUME Inv, NEW r \in Light, NEW q \in Phases \ {"none", "computing"},
         phase' = [phase EXCEPT ![r] = q], phase[r] # "none",
         q \in {"woken", "done"} => phase[r] = "woken", phase[r] # "done",
         UNCHANGED <<ingesting, database, result, page>>
  PROVE  Inv'
<1>1. PhasesOK'
  BY LightRequests, Moves DEF Inv, PhasesOK, page
<1>2. Unread
  BY LightRequests DEF Inv, TypeOK, Unread
<1> QED BY <1>1, <1>2, RuntimeStep DEF Inv, TypeOK

(* The requests of the experiment, and ingestion.                          *)
LEMMA ComputeStep ==
  ASSUME Inv, NEW r \in Heavy \cup Naive, Compute(r)
  PROVE  Inv'
<1>0. r \in Requests /\ r \notin Light /\ phase \in [Requests -> Phases]
  BY LightRequests DEF Inv, TypeOK
<1>1. UNCHANGED <<ingesting, database, result, page>>
  BY DEF Compute, Alone, SpawnDb, PoolDone, Answer, ComputeInline, InlineDone
<1>2. PICK q \in {"pool", "woken", "done", "computing"} :
        /\ phase' = [phase EXCEPT ![r] = q]
        /\ q = "computing" => WorkerFree
  BY DEF Compute, Alone, SpawnDb, PoolDone, Answer, ComputeInline, InlineDone, Move
<1>3. phase' \in [Requests -> Phases] /\ \A l \in Light : phase'[l] = phase[l]
  BY <1>0, <1>2, LightRequests DEF Phases
<1>4. Cardinality(In("computing"))' <= Workers
  <2>1. CASE q = "computing"
    BY <1>0, <1>2, <2>1, OneMoreComputing
  <2>2. CASE q # "computing"
    <3>1. In("computing")' \subseteq In("computing")
      BY <1>0, <1>2, <2>2 DEF In
    <3> QED BY <1>0, <3>1, FewerComputing DEF Inv, TypeOK
  <2> QED BY <2>1, <2>2
<1>5. PhasesOK'
  BY <1>1, <1>3, <1>4, LightRequests DEF Inv, TypeOK, PhasesOK, page
<1>6. Unread
  BY <1>3 DEF Unread
<1> QED BY <1>1, <1>5, <1>6, RuntimeStep DEF Inv, TypeOK

LEMMA IngestStepKeeps == Inv /\ Ingest => Inv'
<1> SUFFICES ASSUME Inv, Ingest PROVE Inv'
  OBVIOUS
<1>1. /\ UNCHANGED <<database, result, page, phase>>
      /\ ingesting > 0 /\ ingesting' = ingesting - 1
  BY DEF Ingest, Alone, IngestStep
<1>2. ingesting' \in 0 .. Steps
  BY <1>1, RuntimeAssumption DEF Inv, TypeOK
<1>3. PhasesOK' /\ Unread
  BY <1>1 DEF Inv, TypeOK, PhasesOK, Unread, In, page
<1> QED BY <1>1, <1>2, <1>3, RuntimeStep

LEMMA LoadTokensKeeps == Inv /\ LoadTokens => Inv'
<1> SUFFICES ASSUME Inv, LoadTokens PROVE Inv'
  OBVIOUS
<1>1. /\ UNCHANGED <<ingesting, database, result, page>>
      /\ phase[Tokens] = "none" /\ phase' = [phase EXCEPT ![Tokens] = "ready"]
  BY DEF LoadTokens, Arrive, Move
<1>2. phase' \in [Requests -> Phases]
  BY <1>1 DEF Inv, TypeOK, Phases
<1>3. \A l \in Loads : phase'[l] = phase[l]
  BY <1>1, DashboardAssumption, LightRequests DEF Inv, TypeOK
<1>4. In("computing")' \subseteq In("computing")
  BY <1>1 DEF Inv, TypeOK, In
<1>5. PhasesOK'
  BY <1>1, <1>2, <1>3, <1>4, FewerComputing DEF Inv, TypeOK, PhasesOK, page
<1>6. Unread
  BY <1>1, LightRequests DEF Inv, TypeOK, Unread
<1> QED BY <1>1, <1>5, <1>6, RuntimeStep DEF Inv, TypeOK

(* The database grows.                                                     *)
LEMMA DatabaseStep ==
  ASSUME Inv, NEW m \in Mints, Trade(m) \/ BuildCandles(m)
  PROVE  Inv'
<1>1. /\ UNCHANGED <<phase, ingesting, result, options, mint, interval>>
      /\ UNCHANGED <<asked, last, chart, note, applied>>
      /\ traded \subseteq traded' /\ candles \subseteq candles'
  BY DEF Trade, BuildCandles, BothIntervals, page
<1>2. EveryInterval' /\ candles' \subseteq traded' \X Intervals /\ traded' \subseteq Mints
  <2>1. CASE Trade(m)
    BY <2>1 DEF Inv, TypeOK, EveryInterval, Trade
  <2>2. CASE BuildCandles(m)
    BY <2>2 DEF Inv, TypeOK, EveryInterval, BuildCandles, BothIntervals
  <2> QED BY <2>1, <2>2
<1>3. TypeOK'
  BY <1>1, <1>2 DEF Inv, TypeOK, In
<1>4. ListRead'
  BY <1>1 DEF Inv, ListRead
<1>5. ChartsRead' /\ Shown' /\ FirstChartNotEmpty'
  BY <1>1 DEF Inv, ChartsRead, Shown, FirstChartNotEmpty
<1>6. Asked'
  BY <1>1 DEF Inv, Asked
<1> QED BY <1>2, <1>3, <1>4, <1>5, <1>6 DEF Inv

-----------------------------------------------------------------------------
(* A SELECT of the page.                                                   *)
LEMMA ReadList ==
  ASSUME Inv, Read(Tokens)
  PROVE  Inv'
<1>1. PICK x \in TokenList \cup {Failed} :
        result' = [result EXCEPT ![Tokens] = x]
  BY DEF Read, Select
<1>2. /\ UNCHANGED <<ingesting, database, page>>
      /\ phase[Tokens] = "pool" /\ phase' = [phase EXCEPT ![Tokens] = "woken"]
  BY DEF Read, PoolDone, Move
<1>3. /\ UNCHANGED <<traded, candles, options, mint, interval>>
      /\ UNCHANGED <<asked, last, chart, note, applied>>
  BY <1>2 DEF database, page
<1>4. last = 0
  BY <1>2 DEF Inv, Asked
<1>5. PhasesOK'
  BY <1>2, <1>3, LightRequests, Moves DEF Inv, PhasesOK, Phases
<1>6. TypeOK'
  BY <1>1, <1>2, <1>3, <1>5 DEF Inv, TypeOK, PhasesOK
<1>7. \A l \in Loads : phase'[l] = phase[l] /\ result'[l] = result[l]
  <2>1. \A l \in Loads : l # Tokens
    BY DashboardAssumption
  <2> QED BY <1>1, <1>2, <2>1
<1>8. ChartsRead'
  BY <1>7 DEF Inv, ChartsRead
<1>9. x # Failed =>
        /\ x.mints = traded
        /\ x.mints # {} => x.first \in x.mints
        /\ x.charted => \A i \in Intervals : <<x.first, i>> \in candles
  <2> SUFFICES ASSUME x \in TokenList
               PROVE  /\ x.mints = traded
                      /\ x.mints # {} => x.first \in x.mints
                      /\ x.charted => \A i \in Intervals : <<x.first, i>> \in candles
    BY <1>1
  <2> DEFINE has == {m \in traded : \E i \in Intervals : <<m, i>> \in candles}
  <2>1. PICK m \in IF traded = {} THEN {NoMint} ELSE First(traded, has) :
          x = [mints |-> traded, first |-> m, charted |-> has # {}]
    BY DEF TokenList
  <2>2. x.mints = traded /\ x.first = m /\ x.charted = (has # {})
    BY <2>1
  <2>3. traded # {} => m \in traded
    BY <2>1 DEF First
  <2>4. has # {} => m \in has
    BY <2>1 DEF First
  <2>5. has # {} => \A i \in Intervals : <<m, i>> \in candles
    BY <2>4 DEF Inv, TypeOK, EveryInterval
  <2> QED BY <2>2, <2>3, <2>5
<1>10. result'[Tokens] = x /\ DOMAIN result' = Light
  BY <1>1, LightRequests DEF Inv, TypeOK
<1>11. ListRead'
  BY <1>3, <1>9, <1>10 DEF ListRead
<1>12. Asked' /\ FirstChartNotEmpty'
  BY <1>3, <1>4 DEF Inv, Asked, FirstChartNotEmpty
<1> QED
  BY <1>3, <1>6, <1>8, <1>11, <1>12 DEF Inv, EveryInterval, Shown

LEMMA ReadChart ==
  ASSUME Inv, NEW l \in Loads, Read(l)
  PROVE  Inv'
<1>1. PICK x \in {asked[l] \in candles} \cup {Failed} :
        result' = [result EXCEPT ![l] = x]
  BY DashboardAssumption DEF Read, Select
<1>2. /\ UNCHANGED <<ingesting, database, page>>
      /\ phase[l] = "pool" /\ phase' = [phase EXCEPT ![l] = "woken"]
  BY DEF Read, PoolDone, Move
<1>3. /\ UNCHANGED <<traded, candles, options, mint, interval>>
      /\ UNCHANGED <<asked, last, chart, note, applied>>
  BY <1>2 DEF database, page
<1>4. l # Tokens /\ l \in Light /\ l \in Requests
  BY DashboardAssumption, LightRequests
<1>5. PhasesOK'
  BY <1>2, <1>3, <1>4, Moves DEF Inv, PhasesOK, Phases
<1>6. TypeOK'
  BY <1>1, <1>2, <1>3, <1>5 DEF Inv, TypeOK, PhasesOK
<1>7. phase'[Tokens] = phase[Tokens] /\ result'[Tokens] = result[Tokens]
  BY <1>1, <1>2, <1>4
<1>8. /\ phase'[l] = "woken" /\ result'[l] = x
      /\ \A k \in Loads \ {l} : phase'[k] = phase[k] /\ result'[k] = result[k]
  BY <1>1, <1>2, <1>4, LightRequests DEF Inv, TypeOK
<1>9. x \in BOOLEAN \cup {Failed}
  <2>1. (asked[l] \in candles) = TRUE \/ (asked[l] \in candles) = FALSE
    OBVIOUS
  <2>2. x = (asked[l] \in candles) \/ x = Failed
    BY <1>1
  <2> QED BY <2>1, <2>2
<1>10. ChartsRead'
  <2>1. ASSUME NEW k \in Loads
        PROVE  /\ phase'[k] = "none" => result'[k] = Pending
               /\ phase'[k] \in {"woken", "done"} => result'[k] \in BOOLEAN \cup {Failed}
    <3>1. CASE k = l
      BY <1>8, <1>9, <3>1
    <3>2. CASE k # l
      BY <1>8, <3>2 DEF Inv, ChartsRead
    <3> QED BY <3>1, <3>2
  <2> QED BY <2>1 DEF ChartsRead
<1>11. ListRead'
  BY <1>3, <1>7 DEF Inv, ListRead
<1>12. Asked'
  BY <1>3, <1>7 DEF Inv, Asked
<1>13. FirstChartNotEmpty'
  <2> SUFFICES ASSUME last # 0, result[Tokens].charted PROVE result'[1] # FALSE
    BY <1>3, <1>7 DEF FirstChartNotEmpty
  <2>1. asked[1] \in candles
    BY DEF Inv, Asked
  <2>2. CASE l = 1
    <3>1. (asked[l] \in candles) = TRUE
      BY <2>1, <2>2
    <3>2. x = TRUE \/ x = Failed
      BY <1>1, <3>1
    <3>3. x # FALSE
      BY <3>2, DashboardAssumption
    <3> QED BY <1>8, <2>2, <3>3
  <2>3. CASE l # 1
    BY <1>8, <2>3, LightRequests DEF Inv, FirstChartNotEmpty
  <2> QED BY <2>2, <2>3
<1> QED
  BY <1>3, <1>6, <1>10, <1>11, <1>12, <1>13 DEF Inv, EveryInterval, Shown

-----------------------------------------------------------------------------
(* The page.                                                               *)
LEMMA ListShown == Inv /\ OnTokensLoad => Inv'
<1> SUFFICES ASSUME Inv, OnTokensLoad PROVE Inv'
  OBVIOUS
<1>1. /\ phase[Tokens] = "woken" /\ result[Tokens] # Failed
      /\ result[Tokens].mints # {}
      /\ options' = result[Tokens].mints /\ mint' = result[Tokens].first
      /\ last' = 1 /\ asked' = [asked EXCEPT ![1] = <<mint', interval>>]
      /\ phase' = [phase EXCEPT ![Tokens] = "done", ![1] = "ready"]
      /\ UNCHANGED <<ingesting, traded, candles, result, interval>>
      /\ UNCHANGED <<chart, note, applied>>
  BY DEF OnTokensLoad, database
<1>2. last = 0 /\ applied = 0 /\ options = {}
  BY <1>1 DEF Inv, TypeOK, Asked
<1>3. /\ 1 \in Loads /\ 1 # Tokens /\ Tokens \in Requests /\ 1 \in Requests
      /\ \A l \in Loads : l # Tokens
  BY LightRequests, DashboardAssumption
<1>4. /\ phase' \in [Requests -> Phases]
      /\ phase'[Tokens] = "done" /\ phase'[1] = "ready"
      /\ \A l \in Loads \ {1} : phase'[l] = phase[l]
  BY <1>1, <1>3, LightRequests DEF Inv, TypeOK, Phases
<1>5. PhasesOK'
  <2>1. \A l \in Loads : phase'[l] # "none" <=> l <= last'
    BY <1>1, <1>2, <1>4, LightRequests DEF Inv, TypeOK
  <2>2. phase[1] = "none" /\ In("computing")' \subseteq In("computing")
    BY <1>1, <1>2, <1>3 DEF Inv, TypeOK, In
  <2> QED BY <1>4, <2>1, <2>2, FewerComputing DEF Inv, TypeOK, PhasesOK
<1>6. /\ options' \subseteq traded /\ mint' \in options' /\ mint' \in Mints
      /\ result[Tokens].charted => \A i \in Intervals : <<mint', i>> \in candles
  BY <1>1 DEF Inv, TypeOK, ListRead
<1>7. /\ asked' \in [Loads -> (Mints \cup {NoMint}) \X Intervals]
      /\ asked'[1] = <<mint', interval>>
  BY <1>1, <1>3, <1>6 DEF Inv, TypeOK
<1>8. TypeOK'
  <2>1. \A l \in 1 .. last' : asked'[l][1] \in options'
    BY <1>1, <1>6, <1>7
  <2>2. applied' \in 0 .. last' /\ last' \in Loads \cup {0}
    BY <1>1, <1>2, <1>3
  <2>3. chart' \in [of : (options' \cup {NoMint}) \X Intervals, bars : BOOLEAN]
    BY <1>1, <1>2 DEF Inv, TypeOK
  <2> QED BY <1>1, <1>5, <1>6, <1>7, <2>1, <2>2, <2>3 DEF Inv, TypeOK, PhasesOK
<1>9. ListRead'
  BY <1>1 DEF Inv, ListRead
<1>10. ChartsRead'
  BY <1>1, <1>3, <1>4 DEF Inv, ChartsRead
<1>11. Asked'
  BY <1>1, <1>4, <1>6, <1>7 DEF Inv, TypeOK, Asked
<1>12. FirstChartNotEmpty'
  <2>1. result[1] = Pending
    BY <1>2, <1>3 DEF Inv, TypeOK, ChartsRead
  <2>2. Pending # FALSE
    BY DashboardAssumption
  <2> QED BY <1>1, <2>1, <2>2 DEF FirstChartNotEmpty
<1> QED
  BY <1>1, <1>2, <1>8, <1>9, <1>10, <1>11, <1>12 DEF Inv, EveryInterval, Shown

LEMMA ChartShown ==
  ASSUME Inv, NEW l \in Loads, OnOhlcv(l)
  PROVE  Inv'
<1>1. /\ phase[l] = "woken" /\ phase' = [phase EXCEPT ![l] = "done"]
      /\ result[l] # Failed
      /\ chart' = [of |-> asked[l], bars |-> result[l]]
      /\ note' = ~result[l] /\ applied' = l
      /\ UNCHANGED <<ingesting, traded, candles, result, options, mint>>
      /\ UNCHANGED <<interval, asked, last>>
  BY DEF OnOhlcv, Answer, Move, database
<1>2. l # Tokens /\ l \in Requests /\ l <= last /\ last # 0 /\ l # 0
  BY <1>1, DashboardAssumption, LightRequests DEF Inv, TypeOK
<1>3. result[l] \in BOOLEAN
  BY <1>1 DEF Inv, ChartsRead
<1>4. PhasesOK'
  BY <1>1, <1>2, Moves DEF Inv, PhasesOK, Phases
<1>5. asked[l] \in (options \cup {NoMint}) \X Intervals
  <2>1. asked[l] \in (Mints \cup {NoMint}) \X Intervals
    BY DEF Inv, TypeOK
  <2>2. l \in 1 .. last
    BY <1>2, LightRequests DEF Inv, TypeOK
  <2>3. asked[l][1] \in options
    BY <2>2 DEF Inv, TypeOK
  <2> QED BY <2>1, <2>3
<1>6. /\ chart'.of = asked[l] /\ chart'.bars = result[l]
      /\ chart' \in [of : (options \cup {NoMint}) \X Intervals, bars : BOOLEAN]
  BY <1>1, <1>3, <1>5
<1>7. note' \in BOOLEAN /\ note' = ~chart'.bars
  BY <1>1, <1>3, <1>6
<1>8. applied' \in 0 .. last
  BY <1>1, <1>2, LightRequests DEF Inv, TypeOK
<1>9. TypeOK'
  BY <1>1, <1>4, <1>6, <1>7, <1>8 DEF Inv, TypeOK, PhasesOK
<1>10. /\ phase'[Tokens] = phase[Tokens] /\ phase'[l] = "done"
       /\ \A k \in Loads \ {l} : phase'[k] = phase[k]
  BY <1>1, <1>2, LightRequests DEF Inv, TypeOK
<1>11. ListRead' /\ Asked' /\ FirstChartNotEmpty'
  BY <1>1, <1>10 DEF Inv, ListRead, Asked, FirstChartNotEmpty
<1>12. ChartsRead'
  BY <1>1, <1>10 DEF Inv, ChartsRead
<1>13. Shown'
  BY <1>1, <1>6, <1>7 DEF Shown
<1> QED BY <1>1, <1>9, <1>11, <1>12, <1>13 DEF Inv, EveryInterval

(* A request of the page other than those that change it.                  *)
LEMMA ServeKeeps ==
  ASSUME Inv, NEW r \in Light, Serve(r)
  PROVE  Inv'
<1>1. CASE Alone(SpawnDb(r, "ready"))
  BY <1>1, LightStep DEF Alone, SpawnDb, Move, Phases
<1>2. CASE Read(r)
  BY <1>2, ReadList, ReadChart, DashboardAssumption
<1>3. CASE OnError(r)
  BY <1>3, LightStep DEF OnError, Answer, Move, Phases
<1>4. CASE r = Tokens /\ OnTokens
  BY <1>4, LightStep DEF OnTokens, Answer, Move, Phases
<1>5. CASE r = Tokens /\ OnTokensLoad
  BY <1>5, ListShown
<1>6. CASE r \in Loads /\ OnOhlcv(r)
  BY <1>6, ChartShown
<1> QED BY <1>1, <1>2, <1>3, <1>4, <1>5, <1>6 DEF Serve

(* loadOhlcv with the selection that its caller makes.                     *)
LEMMA Load ==
  ASSUME Inv, last # 0,
         NEW m \in options, NEW i \in Intervals, FetchOhlcv(m, i),
         mint' = m, interval' = i,
         UNCHANGED <<ingesting, traded, candles, result, options>>,
         UNCHANGED <<chart, note, applied>>
  PROVE  Inv'
<1> DEFINE n == last + 1
<1>1. /\ n \in Loads /\ last' = n /\ asked' = [asked EXCEPT ![n] = <<m, i>>]
      /\ phase' = [phase EXCEPT ![n] = "ready"]
  BY DEF FetchOhlcv
<1>2. /\ n # Tokens /\ n \in Requests /\ n # 1 /\ n # 0 /\ last \in Nat
      /\ n # last /\ m \in Mints /\ \A k \in Loads : k # Tokens /\ k \in Nat
      /\ applied \in 0 .. last
  BY <1>1, LightRequests, DashboardAssumption DEF Inv, TypeOK
<1>3. /\ phase' \in [Requests -> Phases] /\ phase'[n] = "ready"
      /\ phase'[Tokens] = phase[Tokens]
      /\ \A k \in Loads \ {n} : phase'[k] = phase[k]
  BY <1>1, <1>2, LightRequests DEF Inv, TypeOK, Phases
<1>4. PhasesOK'
  <2>1. \A k \in Loads : phase'[k] # "none" <=> k <= last'
    <3>1. ASSUME NEW k \in Loads PROVE phase'[k] # "none" <=> k <= n
      <4>1. CASE k = n
        BY <1>2, <1>3, <4>1
      <4>2. CASE k # n
        BY <1>2, <1>3, <4>2 DEF Inv, TypeOK
      <4> QED BY <4>1, <4>2
    <3> QED BY <1>1, <3>1
  <2>2. In("computing")' \subseteq In("computing")
    BY <1>1 DEF Inv, TypeOK, In
  <2> QED BY <1>3, <2>1, <2>2, FewerComputing DEF Inv, TypeOK, PhasesOK
<1>5. /\ asked' \in [Loads -> (Mints \cup {NoMint}) \X Intervals]
      /\ asked'[n] = <<m, i>>
      /\ \A k \in Loads \ {n} : asked'[k] = asked[k]
  BY <1>1, <1>2 DEF Inv, TypeOK
<1>6. TypeOK'
  <2>1. ASSUME NEW k \in 1 .. last' PROVE asked'[k][1] \in options
    <3>1. k \in Loads
      BY <1>1, <1>2, DashboardAssumption DEF Loads
    <3>2. CASE k = n
      BY <1>5, <3>2
    <3>3. CASE k # n
      BY <1>1, <1>2, <1>5, <3>1, <3>3 DEF Inv, TypeOK
    <3> QED BY <3>2, <3>3
  <2>2. applied' \in 0 .. last' /\ last' \in Loads \cup {0}
    BY <1>1, <1>2
  <2> QED BY <1>4, <1>5, <2>1, <2>2 DEF Inv, TypeOK, PhasesOK
<1>7. ListRead' /\ FirstChartNotEmpty'
  BY <1>3 DEF Inv, ListRead, FirstChartNotEmpty
<1>8. ChartsRead'
  BY <1>3 DEF Inv, ChartsRead
<1>9. Asked'
  <2>1. asked'[1] = asked[1]
    BY <1>2, <1>5, LightRequests
  <2> QED BY <1>1, <1>2, <1>3, <1>5, <2>1 DEF Inv, Asked
<1>10. Shown'
  <2>1. applied # 0 => applied \in Loads \ {n}
    BY <1>1, <1>2, DashboardAssumption DEF Loads
  <2> QED BY <1>5, <2>1 DEF Inv, Shown
<1> QED BY <1>6, <1>7, <1>8, <1>9, <1>10 DEF Inv, EveryInterval

LEMMA SelectMintKeeps ==
  ASSUME Inv, NEW m \in Mints, SelectMint(m)
  PROVE  Inv'
<1>1. /\ m \in options /\ m # NoMint /\ last # 0 /\ mint' = m
      /\ interval' = interval /\ interval \in Intervals
  BY DashboardAssumption DEF SelectMint, Inv, TypeOK, Asked
<1>2. FetchOhlcv(m, interval)
  BY <1>1 DEF SelectMint, LoadOhlcv
<1>3. /\ UNCHANGED <<ingesting, traded, candles, result, options>>
      /\ UNCHANGED <<chart, note, applied>>
  BY DEF SelectMint, database
<1> QED BY <1>1, <1>2, <1>3, Load

LEMMA SelectIntervalKeeps ==
  ASSUME Inv, NEW i \in Intervals, SelectInterval(i)
  PROVE  Inv'
<1>1. /\ interval' = i /\ LoadOhlcv(mint, i) /\ mint' = mint
      /\ UNCHANGED <<ingesting, traded, candles, result, options>>
      /\ UNCHANGED <<chart, note, applied>>
  BY DEF SelectInterval, OnIntervalChange, database
<1>2. CASE mint = NoMint
  <2>1. last = 0
    BY <1>2, DashboardAssumption DEF Inv, TypeOK, Asked
  <2>2. UNCHANGED <<phase, asked, last>>
    BY <1>1, <1>2 DEF LoadOhlcv
  <2>3. TypeOK'
    BY <1>1, <2>2 DEF Inv, TypeOK, In
  <2>4. ListRead' /\ ChartsRead' /\ Shown' /\ FirstChartNotEmpty' /\ EveryInterval'
    BY <1>1, <2>2
    DEF Inv, ListRead, ChartsRead, Shown, FirstChartNotEmpty, EveryInterval
  <2>5. Asked'
    BY <1>1, <2>1, <2>2 DEF Inv, Asked
  <2> QED BY <2>3, <2>4, <2>5 DEF Inv
<1>3. CASE mint # NoMint
  <2>1. last # 0 /\ mint \in options
    BY <1>3 DEF Inv, Asked
  <2>2. FetchOhlcv(mint, i)
    BY <1>1, <1>3 DEF LoadOhlcv
  <2> QED BY <1>1, <2>1, <2>2, Load
<1> QED BY <1>2, <1>3

-----------------------------------------------------------------------------
LEMMA DashboardStep == Inv /\ [Next]_vars => Inv'
<1> SUFFICES ASSUME Inv, [Next]_vars PROVE Inv'
  OBVIOUS
<1>1. CASE UNCHANGED vars
  <2>1. /\ UNCHANGED <<ingesting, database, result, page, phase>>
    BY <1>1 DEF vars
  <2>2. PhasesOK' /\ Unread
    BY <2>1 DEF Inv, TypeOK, PhasesOK, Unread, In, page
  <2> QED BY <2>1, <2>2, RuntimeStep DEF Inv, TypeOK
<1>2. ASSUME NEW r \in Light, Serve(r) PROVE Inv'
  BY <1>2, ServeKeeps
<1>3. ASSUME NEW r \in Heavy \cup Naive, Compute(r) PROVE Inv'
  BY <1>3, ComputeStep
<1>4. CASE Ingest \/ LoadTokens
  BY <1>4, IngestStepKeeps, LoadTokensKeeps
<1>5. ASSUME NEW m \in Mints, SelectMint(m) \/ Trade(m) \/ BuildCandles(m)
      PROVE  Inv'
  BY <1>5, SelectMintKeeps, DatabaseStep
<1>6. ASSUME NEW i \in Intervals, SelectInterval(i) PROVE Inv'
  BY <1>6, SelectIntervalKeeps
<1> QED BY <1>1, <1>2, <1>3, <1>4, <1>5, <1>6 DEF Next

LEMMA DashboardAlways == Spec => []Inv
<1>1. Init => Inv
  BY DashboardInit
<1>2. Inv /\ [Next]_vars => Inv'
  BY DashboardStep
<1> QED BY <1>1, <1>2, PTL DEF Spec

(* Every variable has its type; every load is for a token of the list, and *)
(* no more handlers compute than there are workers, for any number of      *)
(* requests and workers.                                                   *)
THEOREM DashboardTyped == Spec => []TypeOK
<1>1. Inv => TypeOK
  BY DEF Inv
<1> QED BY <1>1, DashboardAlways, PTL

(* However answers of loadOhlcv overtake each other: when the newest load  *)
(* was the last to be shown, chart and note are those of the selection.    *)
THEOREM ChartIsOfSelection == Spec => []ChartFollowsSelection
<1>1. Inv => ChartFollowsSelection
  <2> SUFFICES ASSUME Inv, applied # 0
               PROVE  /\ note = ~chart.bars
                      /\ applied = last => chart.of = <<mint, interval>>
    BY DEF ChartFollowsSelection
  <2>1. last # 0
    BY LightRequests DEF Inv, TypeOK
  <2> QED BY <2>1 DEF Inv, Shown, Asked
<1> QED BY <1>1, DashboardAlways, PTL

(* The first chart has bars if any token had candles when the list was     *)
(* read (get_tokens), for any number of tokens and intervals.              *)
THEOREM FirstChartHasBars == Spec => []FirstChartNotEmpty
<1>1. Inv => FirstChartNotEmpty
  BY DEF Inv
<1> QED BY <1>1, DashboardAlways, PTL
=============================================================================
