--------------------------- MODULE PipelineProofs ---------------------------
(* Theorems about Pipeline, for every value of its constants.              *)
EXTENDS Pipeline, FiniteSetTheorems, TLAPS

-----------------------------------------------------------------------------
(* What Append and Tail do to a queue.                                     *)

LEMMA QueueOps ==
  ASSUME NEW S, NEW q \in Seq(S), NEW e \in S
  PROVE  /\ Append(q, e) \in Seq(S) /\ Len(Append(q, e)) = Len(q) + 1
         /\ q # <<>> => /\ Head(q) \in S /\ Tail(q) \in Seq(S)
                        /\ Len(Tail(q)) = Len(q) - 1
OBVIOUS

LEMMA EmptyQueue ==
  ASSUME NEW S
  PROVE  <<>> \in Seq(S) /\ Len(<<>>) = 0 /\ Range(<<>>) = {} /\ IsInjective(<<>>)
BY DEF Range, IsInjective

LEMMA RangeInSet ==
  ASSUME NEW S, NEW q \in Seq(S)
  PROVE  Range(q) \subseteq S
BY DEF Range

LEMMA AppendRange ==
  ASSUME NEW S, NEW q \in Seq(S), NEW e \in S
  PROVE  /\ Range(Append(q, e)) = Range(q) \cup {e}
         /\ IsInjective(q) /\ e \notin Range(q) => IsInjective(Append(q, e))
<1>1. /\ DOMAIN Append(q, e) = 1 .. Len(q) + 1
      /\ DOMAIN q = 1 .. Len(q) /\ Len(q) \in Nat
      /\ Append(q, e)[Len(q) + 1] = e
      /\ \A i \in 1 .. Len(q) : Append(q, e)[i] = q[i]
  OBVIOUS
<1>2. Range(Append(q, e)) = Range(q) \cup {e}
  <2>1. Range(Append(q, e)) \subseteq Range(q) \cup {e}
    BY <1>1 DEF Range
  <2>2. Range(q) \cup {e} \subseteq Range(Append(q, e))
    BY <1>1 DEF Range
  <2> QED BY <2>1, <2>2
<1>3. IsInjective(q) /\ e \notin Range(q) => IsInjective(Append(q, e))
  BY <1>1 DEF Range, IsInjective
<1> QED BY <1>2, <1>3

LEMMA TailRange ==
  ASSUME NEW S, NEW q \in Seq(S), q # <<>>, IsInjective(q)
  PROVE  /\ Head(q) \in Range(q)
         /\ Range(Tail(q)) = Range(q) \ {Head(q)}
         /\ IsInjective(Tail(q))
<1>1. /\ DOMAIN Tail(q) = 1 .. Len(q) - 1
      /\ DOMAIN q = 1 .. Len(q) /\ Len(q) \in Nat \ {0}
      /\ Head(q) = q[1]
      /\ \A i \in 1 .. Len(q) - 1 : Tail(q)[i] = q[i + 1]
  OBVIOUS
<1>2. Head(q) \in Range(q)
  BY <1>1 DEF Range
<1>3. Range(Tail(q)) \subseteq Range(q) \ {Head(q)}
  BY <1>1 DEF Range, IsInjective
<1>4. ASSUME NEW x \in Range(q) \ {Head(q)} PROVE x \in Range(Tail(q))
  <2>1. PICK i \in DOMAIN q : q[i] = x
    BY DEF Range
  <2>2. i - 1 \in 1 .. Len(q) - 1 /\ Tail(q)[i - 1] = x
    BY <1>1, <2>1
  <2> QED BY <1>1, <2>2 DEF Range
<1>5. IsInjective(Tail(q))
  BY <1>1 DEF IsInjective
<1> QED BY <1>2, <1>3, <1>4, <1>5

-----------------------------------------------------------------------------
(* Type correctness.                                                       *)

LEMMA TypeInit == Init => TypeOK
<1> SUFFICES ASSUME Init PROVE TypeOK
  OBVIOUS
<1> USE PipelineAssumption
<1>1. \A q \in {slotsCh, blocksCh, parsedCh} : q \in Seq(Slots) /\ Len(q) = 0
  BY EmptyQueue DEF Init
<1>2. /\ next \in StartSlot .. EndSlot + 1
      /\ task \in [Slots -> {"idle", "permit", "rpc", "sending", "done"}]
      /\ outcome \in [Slots -> Outcome \cup {"pending"}]
      /\ parsing \in Slots \cup {NoSlot} /\ writing \in Slots \cup {NoSlot}
      /\ alive \in [Stage -> BOOLEAN]
      /\ blocks \in [Slots -> {"none", "skipped", "produced"}]
      /\ txSlots \subseteq Slots
      /\ fate \in [Slots -> {"open", "stored", "reported", "dropped"}]
      /\ runs \in Nat
  BY DEF Init, Slots
<1>3. probed \in BOOLEAN /\ panicked \in BOOLEAN
  BY Zenon DEF Init
<1> QED BY <1>1, <1>2, <1>3 DEF TypeOK

LEMMA TypeStep == TypeOK /\ [Next]_vars => TypeOK'
<1> SUFFICES ASSUME TypeOK, [Next]_vars PROVE TypeOK'
  OBVIOUS
<1> USE PipelineAssumption
<1>a. Slots \subseteq Nat /\ \A s \in Slots : s # NoSlot
  BY DEF Slots
<1>b. probed' \in BOOLEAN /\ panicked' \in BOOLEAN
  BY DEF TypeOK, Next, Progress, Pause, Serve, MonitorSample, MonitorPanics,
         Restart, vars
<1> USE <1>b
<1>1. CASE WalkerSend
  <2>1. next \in Slots /\ next + 1 \in StartSlot .. EndSlot + 1
    BY <1>1 DEF WalkerSend, InRange, Slots, TypeOK
  <2> QED BY <1>1, <2>1, QueueOps DEF WalkerSend, TypeOK, tables
<1>2. CASE WalkerExit
  BY <1>2 DEF WalkerExit, Exit, TypeOK, channels, tables, Stage
<1>3. CASE FetcherRecv
  BY <1>3, QueueOps DEF FetcherRecv, Move, TypeOK, tables
<1>4. ASSUME NEW s \in Slots, Fetching(s) PROVE TypeOK'
  <2>1. CASE FetcherSpawn(s)
    BY <2>1 DEF FetcherSpawn, Move, TypeOK, channels, tables
  <2>2. CASE RpcAnswers(s)
    BY <2>2 DEF RpcAnswers, Move, TypeOK, channels, tables
  <2>3. CASE TaskSend(s)
    BY <2>3, QueueOps DEF TaskSend, Move, TypeOK, tables
  <2>4. CASE TaskSendFails(s)
    BY <2>4 DEF TaskSendFails, Move, Settle, TypeOK, channels, tables
  <2> QED BY <1>4, <2>1, <2>2, <2>3, <2>4 DEF Fetching
<1>5. CASE FetcherExit
  BY <1>5 DEF FetcherExit, Exit, Drop, TypeOK, channels, tables, Stage
<1>6. CASE ParserRecv
  BY <1>6, QueueOps DEF ParserRecv, ParserReady, TypeOK, tables
<1>7. CASE ParserRejects
  BY <1>7, QueueOps DEF ParserRejects, ParserReady, Settle, TypeOK, tables
<1>8. CASE ParserDies
  BY <1>8, EmptyQueue DEF ParserDies, Exit, Drop, TypeOK, tables, Stage
<1>9. CASE ParserSend
  BY <1>9, QueueOps DEF ParserSend, TypeOK, tables
<1>10. CASE WriterRecv
  BY <1>10, QueueOps DEF WriterRecv, TypeOK, tables
<1>11. CASE WriterCommit
  BY <1>11 DEF WriterCommit, InsertedRow, Settle, TypeOK, channels
<1>12. CASE WriterRollback
  BY <1>12 DEF WriterRollback, Settle, TypeOK, channels, tables
<1>13. CASE WriterDies
  BY <1>13, EmptyQueue DEF WriterDies, Exit, Drop, TypeOK, tables, Stage
<1>14. CASE UNCHANGED stages
  BY <1>14 DEF stages, TypeOK, channels, tables
<1>15. CASE Restart
  BY <1>15, EmptyQueue DEF Restart, TypeOK, tables
<1> QED
  BY <1>1, <1>2, <1>3, <1>4, <1>5, <1>6, <1>7, <1>8, <1>9, <1>10, <1>11, <1>12,
     <1>13, <1>14, <1>15
  DEF Next, Progress, Calm, Panic, Pause, PausePanics, Serve, MonitorSample,
      MonitorPanics, vars, ParserPanics, ParserSendFails, ParserExit,
      WriterPanics, WriterExit

(* Every variable keeps its type and every channel its bound.              *)
THEOREM TypeCorrect == Spec => []TypeOK
BY TypeInit, TypeStep, PTL DEF Spec

-----------------------------------------------------------------------------
(* Every slot is held at one place.                                        *)

Unique(s) == \E p \in Places : /\ At(p, s)
                                /\ \A q \in Places : At(q, s) => q = p
NoRepeats == IsInjective(slotsCh) /\ IsInjective(blocksCh) /\ IsInjective(parsedCh)

LEMMA HolderInit == Init => OneHolder
<1> SUFFICES ASSUME Init PROVE OneHolder
  OBVIOUS
<1>1. NoRepeats /\ Range(slotsCh) = {} /\ Range(blocksCh) = {} /\ Range(parsedCh) = {}
  BY EmptyQueue DEF Init, NoRepeats
<1>2. ASSUME NEW s \in Slots PROVE Unique(s)
  <2>1. At("ahead", s)
    BY PipelineAssumption DEF Init, At, Slots
  <2>2. \A q \in Places : At(q, s) => q = "ahead"
    BY <1>1, PipelineAssumption DEF Init, At, Places, InFetcher
  <2> QED BY <2>1, <2>2 DEF Unique, Places
<1> QED BY <1>1, <1>2 DEF OneHolder, Unique, NoRepeats

LEMMA HolderStep == TypeOK /\ OneHolder /\ [Next]_vars => OneHolder'
<1> SUFFICES ASSUME TypeOK, OneHolder, [Next]_vars PROVE OneHolder'
  OBVIOUS
<1> USE PipelineAssumption
<1>a. \A s \in Slots : s \in Nat /\ s # NoSlot
  BY DEF Slots
<1>b. NoRepeats /\ \A s \in Slots : Unique(s)
  BY DEF OneHolder, NoRepeats, Unique
<1>c. SUFFICES NoRepeats' /\ \A s \in Slots : Unique(s)'
  BY DEF OneHolder, NoRepeats, Unique
<1>1. CASE WalkerSend
  <2>1. next \in Slots /\ next \notin Range(slotsCh)
    BY <1>1, <1>b DEF WalkerSend, InRange, TypeOK, Unique, At, Places, Slots
  <2>2. NoRepeats' /\ Range(slotsCh') = Range(slotsCh) \cup {next}
    BY <1>1, <1>b, <2>1, AppendRange DEF TypeOK, WalkerSend, NoRepeats
  <2>3. ASSUME NEW s \in Slots PROVE Unique(s)'
    BY <1>1, <1>a, <1>b, <2>1, <2>2
    DEF WalkerSend, Unique, At, Places, InFetcher, TypeOK
  <2> QED BY <2>2, <2>3
<1>2. CASE WalkerExit
  BY <1>2, <1>b DEF WalkerExit, Unique, NoRepeats, At, InFetcher, channels
<1>3. CASE FetcherRecv
  <2> DEFINE x == Head(slotsCh)
  <2>1. /\ NoRepeats' /\ x \in Range(slotsCh) /\ x \in Slots
        /\ Range(slotsCh') = Range(slotsCh) \ {x}
    BY <1>3, <1>b, TailRange, RangeInSet DEF FetcherRecv, TypeOK, NoRepeats
  <2>2. ASSUME NEW s \in Slots PROVE Unique(s)'
    BY <1>3, <1>b, <2>1
    DEF FetcherRecv, Move, Unique, At, Places, InFetcher, TypeOK
  <2> QED BY <2>1, <2>2
<1>4. ASSUME NEW x \in Slots, Fetching(x) PROVE NoRepeats' /\ \A s \in Slots : Unique(s)'
  <2>1. CASE FetcherSpawn(x) \/ RpcAnswers(x)
    <3>1. /\ UNCHANGED <<next, channels, parsing, writing, fate>>
          /\ InFetcher(x) /\ \E p \in {"rpc", "sending"} : Move(x, p)
      BY <2>1 DEF FetcherSpawn, RpcAnswers, InFetcher
    <3>2. \A s \in Slots : InFetcher(s)' <=> InFetcher(s)
      BY <3>1 DEF Move, InFetcher, TypeOK
    <3>3. ASSUME NEW s \in Slots PROVE Unique(s)'
      BY <3>1, <3>2, <1>b DEF Unique, At, channels
    <3> QED BY <3>1, <3>3, <1>b DEF NoRepeats, channels
  <2>2. CASE TaskSend(x)
    <3>1. x \notin Range(blocksCh)
      BY <2>2, <1>b DEF TaskSend, Unique, At, Places, InFetcher
    <3>2. NoRepeats' /\ Range(blocksCh') = Range(blocksCh) \cup {x}
      BY <2>2, <1>b, <3>1, AppendRange DEF TypeOK, TaskSend, NoRepeats
    <3>3. ASSUME NEW s \in Slots PROVE Unique(s)'
      BY <2>2, <1>b, <3>1, <3>2
      DEF TaskSend, Move, Unique, At, Places, InFetcher, TypeOK
    <3> QED BY <3>2, <3>3
  <2>3. CASE TaskSendFails(x)
    <3>1. ASSUME NEW s \in Slots PROVE Unique(s)'
      BY <2>3, <1>b DEF TaskSendFails, Move, Settle, Unique, At, Places,
                        InFetcher, TypeOK, channels
    <3>2. NoRepeats'
      BY <2>3, <1>b DEF TaskSendFails, NoRepeats, channels
    <3> QED BY <3>1, <3>2
  <2> QED BY <1>4, <2>1, <2>2, <2>3 DEF Fetching
<1>5. CASE FetcherExit
  <2>1. NoRepeats'
    BY <1>5, <1>b DEF FetcherExit, NoRepeats, channels
  <2>2. ASSUME NEW s \in Slots PROVE Unique(s)'
    BY <1>5, <1>b DEF FetcherExit, Drop, Unique, At, Places, InFetcher, TypeOK,
                      AllJoined, channels
  <2> QED BY <2>1, <2>2
<1>6. CASE ParserRecv \/ ParserRejects
  <2> DEFINE x == Head(blocksCh)
  <2>1. /\ NoRepeats' /\ x \in Range(blocksCh) /\ x \in Slots
        /\ Range(blocksCh') = Range(blocksCh) \ {x}
    <3>1. /\ blocksCh # <<>> /\ blocksCh' = Tail(blocksCh)
          /\ UNCHANGED <<slotsCh, parsedCh>>
      BY <1>6 DEF ParserRecv, ParserRejects, ParserReady
    <3> QED BY <3>1, <1>b, TailRange, RangeInSet DEF TypeOK, NoRepeats
  <2>2. ASSUME NEW s \in Slots, ParserRecv PROVE Unique(s)'
    BY <2>1, <2>2, <1>a, <1>b
    DEF ParserRecv, ParserReady, Unique, At, Places, InFetcher, TypeOK
  <2>3. ASSUME NEW s \in Slots, ParserRejects PROVE Unique(s)'
    BY <2>1, <2>3, <1>b
    DEF ParserRejects, Settle, Unique, At, Places, InFetcher, TypeOK
  <2> QED BY <1>6, <2>1, <2>2, <2>3
<1>7. CASE ParserDies
  <2>1. NoRepeats' /\ Range(blocksCh') = {}
    BY <1>7, <1>b, EmptyQueue DEF ParserDies, NoRepeats
  <2>2. ASSUME NEW s \in Slots PROVE Unique(s)'
    BY <1>7, <2>1, <1>a, <1>b
    DEF ParserDies, Drop, Unique, At, Places, InFetcher, TypeOK
  <2> QED BY <2>1, <2>2
<1>8. CASE ParserSend
  <2>1. parsing \in Slots /\ parsing \notin Range(parsedCh)
    BY <1>8, <1>b DEF ParserSend, TypeOK, Unique, At, Places
  <2>2. NoRepeats' /\ Range(parsedCh') = Range(parsedCh) \cup {parsing}
    BY <1>8, <1>b, <2>1, AppendRange DEF TypeOK, ParserSend, NoRepeats
  <2>3. ASSUME NEW s \in Slots PROVE Unique(s)'
    BY <1>8, <1>a, <1>b, <2>1, <2>2
    DEF ParserSend, Unique, At, Places, InFetcher, TypeOK
  <2> QED BY <2>2, <2>3
<1>9. CASE WriterRecv
  <2> DEFINE x == Head(parsedCh)
  <2>1. /\ NoRepeats' /\ x \in Range(parsedCh) /\ x \in Slots
        /\ Range(parsedCh') = Range(parsedCh) \ {x}
    BY <1>9, <1>b, TailRange, RangeInSet DEF WriterRecv, TypeOK, NoRepeats
  <2>2. ASSUME NEW s \in Slots PROVE Unique(s)'
    BY <1>9, <2>1, <1>a, <1>b
    DEF WriterRecv, Unique, At, Places, InFetcher, TypeOK
  <2> QED BY <2>1, <2>2
<1>10. CASE WriterCommit \/ WriterRollback
  <2>1. NoRepeats'
    BY <1>10, <1>b DEF WriterCommit, WriterRollback, NoRepeats, channels
  <2>2. /\ writing \in Slots /\ writing' = NoSlot
        /\ UNCHANGED <<next, channels, task, parsing>>
        /\ \E f \in {"stored", "reported"} : Settle(writing, f)
    BY <1>10 DEF WriterCommit, WriterRollback, TypeOK
  <2>3. ASSUME NEW s \in Slots PROVE Unique(s)'
    BY <2>2, <1>a, <1>b
    DEF Settle, Unique, At, Places, InFetcher, TypeOK, channels
  <2> QED BY <2>1, <2>3
<1>11. CASE WriterDies
  <2>1. NoRepeats' /\ Range(parsedCh') = {}
    BY <1>11, <1>b, EmptyQueue DEF WriterDies, NoRepeats
  <2>2. ASSUME NEW s \in Slots PROVE Unique(s)'
    BY <1>11, <2>1, <1>a, <1>b
    DEF WriterDies, Drop, Unique, At, Places, InFetcher, TypeOK
  <2> QED BY <2>1, <2>2
<1>12. CASE UNCHANGED stages
  BY <1>12, <1>b DEF stages, Unique, NoRepeats, At, InFetcher, channels
<1>13. CASE Restart
  <2>1. NoRepeats' /\ Range(slotsCh') = {} /\ Range(blocksCh') = {} /\ Range(parsedCh') = {}
    BY <1>13, EmptyQueue DEF Restart, NoRepeats
  <2>2. ASSUME NEW s \in Slots PROVE Unique(s)'
    BY <1>13, <2>1, <1>a DEF Restart, Unique, At, Places, InFetcher, Slots
  <2> QED BY <2>1, <2>2
<1> QED
  BY <1>1, <1>2, <1>3, <1>4, <1>5, <1>6, <1>7, <1>8, <1>9, <1>10, <1>11, <1>12,
     <1>13
  DEF Next, Progress, Calm, Panic, Pause, PausePanics, Serve, MonitorSample,
      MonitorPanics, vars, ParserPanics, ParserSendFails, ParserExit,
      WriterPanics, WriterExit

(* No hand-over between two stages loses or duplicates a slot, for every   *)
(* range, channel bound and pattern of failures, panics and restarts.      *)
THEOREM SlotsConserved == Spec => []OneHolder
BY TypeCorrect, HolderInit, HolderStep, PTL DEF Spec

-----------------------------------------------------------------------------
(* Shutdown: a stage that has ended holds nothing, and as long as nothing  *)
(* panics it ends only after the one before it, so nothing is dropped.     *)

EmptyHanded ==
  /\ ~alive["walker"] => next > EndSlot
  /\ ~alive["fetcher"] => /\ ~alive["walker"] /\ slotsCh = <<>>
                          /\ \A s \in Slots : ~InFetcher(s)
  /\ ~alive["parser"] => blocksCh = <<>> /\ parsing = NoSlot
  /\ ~alive["writer"] => parsedCh = <<>> /\ writing = NoSlot
InTurn ==
  /\ ~alive["parser"] => ~alive["fetcher"]
  /\ ~alive["writer"] => ~alive["parser"]
  /\ \A s \in Slots : fate[s] # "dropped"
Orderly == EmptyHanded /\ (~panicked => InTurn)

LEMMA OrderlyInit == Init => Orderly
BY DEF Init, Orderly, EmptyHanded, InTurn, Stage, Slots

(* However a stage ends, it ends with empty hands.                         *)
LEMMA HandsStep == TypeOK /\ EmptyHanded /\ [Next]_vars => EmptyHanded'
<1> SUFFICES ASSUME TypeOK, EmptyHanded, [Next]_vars PROVE EmptyHanded'
  OBVIOUS
<1>1. CASE WalkerSend
  BY <1>1, PipelineAssumption DEF WalkerSend, InRange, EmptyHanded, TypeOK, InFetcher
<1>2. CASE WalkerExit
  BY <1>2, PipelineAssumption
  DEF WalkerExit, Exit, InRange, EmptyHanded, TypeOK, Stage, InFetcher, channels
<1>3. CASE FetcherRecv
  BY <1>3 DEF FetcherRecv, EmptyHanded, InFetcher
<1>4. ASSUME NEW s \in Slots, Fetching(s) PROVE EmptyHanded'
  <2>1. InFetcher(s)
    BY <1>4 DEF Fetching, FetcherSpawn, RpcAnswers, TaskSend, TaskSendFails, InFetcher
  <2>2. alive["fetcher"]
    BY <2>1 DEF EmptyHanded
  <2> QED BY <1>4, <2>2 DEF Fetching, FetcherSpawn, RpcAnswers, TaskSend,
                            TaskSendFails, EmptyHanded, channels
<1>5. CASE FetcherExit
  BY <1>5 DEF FetcherExit, Exit, EmptyHanded, TypeOK, Stage, InFetcher, channels
<1>6. CASE ParserRecv \/ ParserRejects
  BY <1>6 DEF ParserRecv, ParserRejects, ParserReady, EmptyHanded, InFetcher
<1>7. CASE ParserDies
  BY <1>7, EmptyQueue DEF ParserDies, Exit, EmptyHanded, TypeOK, Stage, InFetcher
<1>8. CASE ParserSend
  BY <1>8 DEF ParserSend, EmptyHanded, InFetcher
<1>9. CASE WriterRecv
  BY <1>9 DEF WriterRecv, EmptyHanded, InFetcher
<1>10. CASE WriterCommit \/ WriterRollback
  BY <1>10 DEF WriterCommit, WriterRollback, EmptyHanded, InFetcher, channels
<1>11. CASE WriterDies
  BY <1>11, EmptyQueue DEF WriterDies, Exit, EmptyHanded, TypeOK, Stage, InFetcher
<1>12. CASE UNCHANGED stages
  BY <1>12 DEF stages, EmptyHanded, InFetcher, channels
<1>13. CASE Restart
  BY <1>13 DEF Restart, EmptyHanded, Stage
<1> QED
  BY <1>1, <1>2, <1>3, <1>4, <1>5, <1>6, <1>7, <1>8, <1>9, <1>10, <1>11, <1>12,
     <1>13
  DEF Next, Progress, Calm, Panic, Pause, PausePanics, Serve, MonitorSample,
      MonitorPanics, vars, ParserPanics, ParserSendFails, ParserExit,
      WriterPanics, WriterExit

(* Without a panic a stage ends after the one before it, and drops nothing.*)
LEMMA CalmStep == TypeOK /\ EmptyHanded /\ InTurn /\ Calm => InTurn'
<1> SUFFICES ASSUME TypeOK, EmptyHanded, InTurn, Calm PROVE InTurn'
  OBVIOUS
<1> USE DEF InTurn
<1>1. CASE WalkerSend \/ FetcherRecv \/ ParserRecv \/ WriterRecv
  BY <1>1 DEF WalkerSend, FetcherRecv, ParserRecv, WriterRecv
<1>2. CASE WalkerExit
  BY <1>2 DEF WalkerExit, Exit, TypeOK, Stage
<1>3. ASSUME NEW s \in Slots, Fetching(s) PROVE InTurn'
  <2>1. InFetcher(s)
    BY <1>3 DEF Fetching, FetcherSpawn, RpcAnswers, TaskSend, TaskSendFails, InFetcher
  <2>2. alive["parser"]
    BY <2>1 DEF EmptyHanded
  <2> QED BY <1>3, <2>2 DEF Fetching, FetcherSpawn, RpcAnswers, TaskSend,
                            TaskSendFails
<1>4. CASE FetcherExit
  BY <1>4 DEF FetcherExit, AllJoined, Exit, Drop, TypeOK, Stage
<1>5. CASE ParserRejects
  BY <1>5 DEF ParserRejects, Settle, TypeOK
<1>6. CASE ParserExit
  BY <1>6, EmptyQueue
  DEF ParserExit, ParserDies, BlocksClosed, Exit, Drop, TypeOK, Stage
<1>7. CASE ParserSend \/ ParserSendFails
  BY <1>7 DEF ParserSend, ParserSendFails, EmptyHanded
<1>8. CASE WriterCommit \/ WriterRollback
  BY <1>8 DEF WriterCommit, WriterRollback, Settle, TypeOK
<1>9. CASE WriterExit
  BY <1>9, EmptyQueue
  DEF WriterExit, WriterDies, ParsedClosed, Exit, Drop, TypeOK, Stage
<1> QED BY <1>1, <1>2, <1>3, <1>4, <1>5, <1>6, <1>7, <1>8, <1>9 DEF Calm

LEMMA OrderlyStep == TypeOK /\ Orderly /\ [Next]_vars => Orderly'
<1> SUFFICES ASSUME TypeOK, Orderly, [Next]_vars PROVE Orderly'
  OBVIOUS
<1>0. EmptyHanded /\ EmptyHanded' /\ (~panicked => InTurn)
  BY HandsStep DEF Orderly
<1>1. CASE Calm /\ UNCHANGED panicked
  BY <1>0, <1>1, CalmStep DEF Orderly
<1>2. CASE panicked' = TRUE
  BY <1>0, <1>2 DEF Orderly
<1>3. CASE UNCHANGED <<stages, panicked>>
  BY <1>0, <1>3 DEF stages, Orderly, InTurn
<1>4. CASE Restart
  BY <1>0, <1>4 DEF Restart, Orderly, InTurn, Stage
<1> QED
  BY <1>1, <1>2, <1>3, <1>4
  DEF Next, Progress, Pause, Serve, MonitorSample, MonitorPanics, vars

LEMMA OrderlyComplete ==
  TypeOK /\ OneHolder /\ Orderly => NothingLostSilently
<1> SUFFICES ASSUME TypeOK, OneHolder, Orderly, Complete, NEW s \in Slots
             PROVE  \/ fate[s] \in {"stored", "reported"}
                    \/ panicked /\ fate[s] = "dropped"
  BY DEF NothingLostSilently
<1>1. /\ parsing = NoSlot /\ writing = NoSlot /\ s # NoSlot /\ ~(s >= next)
      /\ ~InFetcher(s)
  BY PipelineAssumption DEF Complete, Stage, Orderly, EmptyHanded, Slots, TypeOK
<1>2. Range(slotsCh) = {} /\ Range(blocksCh) = {} /\ Range(parsedCh) = {}
  BY EmptyQueue DEF Complete, Stage, Orderly, EmptyHanded
<1>3. fate[s] # "open"
  BY <1>1, <1>2 DEF OneHolder, Places, At
<1>4. panicked \in BOOLEAN /\ fate[s] \in {"open", "stored", "reported", "dropped"}
  BY DEF TypeOK
<1>5. ~panicked => fate[s] # "dropped"
  BY DEF Orderly, InTurn
<1> QED BY <1>3, <1>4, <1>5

(* When ingestion completes, each slot was stored or reported, or a stage  *)
(* has panicked: no shutdown, error branch or restart drops one by itself. *)
THEOREM NothingLost == Spec => []NothingLostSilently
<1>1. Spec => []Orderly
  BY TypeCorrect, OrderlyInit, OrderlyStep, PTL DEF Spec
<1> QED BY <1>1, TypeCorrect, SlotsConserved, OrderlyComplete, PTL

(* Stages panic over stderr only.                                          *)
LEMMA NoPanic ==
  ASSUME ~StderrMayFail
  PROVE  Spec => []~panicked
<1>1. Init => ~panicked
  BY DEF Init
<1>2. ~panicked /\ [Next]_vars => ~panicked'
  BY DEF Next, Progress, Panic, ParserPanics, WriterPanics, Pause, PausePanics,
         Serve, MonitorSample, MonitorPanics, Restart, vars
<1> QED BY <1>1, <1>2, PTL DEF Spec

-----------------------------------------------------------------------------
(* Bounds: what the permits and the channels together let into the         *)
(* pipeline.                                                               *)

Waiting == {s \in Slots : task[s] = "permit"}

PermitsBounded == /\ Cardinality(Permits) <= MaxConcurrent
                  /\ \A s, t \in Waiting : s = t

LEMMA FiniteSlots ==
  ASSUME NEW S \in SUBSET Slots
  PROVE  IsFiniteSet(S) /\ Cardinality(S) \in Nat
<1>1. StartSlot \in Int /\ EndSlot \in Int
  BY PipelineAssumption
<1>2. IsFiniteSet(Slots)
  BY <1>1, FS_Interval DEF Slots
<1>3. IsFiniteSet(S)
  BY <1>2, FS_Subset
<1> QED BY <1>3, FS_CardinalityType

LEMMA SmallerSubset ==
  ASSUME NEW T \in SUBSET Slots, NEW S \in SUBSET T
  PROVE  Cardinality(S) <= Cardinality(T)
BY FiniteSlots, FS_Subset

LEMMA UnionBound ==
  ASSUME NEW S \in SUBSET Slots, NEW T \in SUBSET Slots,
         NEW m \in Nat, NEW n \in Nat,
         Cardinality(S) <= m, Cardinality(T) <= n
  PROVE  Cardinality(S \cup T) <= m + n
<1>1. S \cap T \in SUBSET Slots
  OBVIOUS
<1>2. /\ Cardinality(S) \in Nat /\ Cardinality(T) \in Nat
      /\ Cardinality(S \cap T) \in Nat
      /\ IsFiniteSet(S) /\ IsFiniteSet(T)
  BY <1>1, FiniteSlots
<1>3. Cardinality(S \cup T) = Cardinality(S) + Cardinality(T) - Cardinality(S \cap T)
  BY <1>2, FS_Union
<1> QED BY <1>2, <1>3

LEMMA RangeBound ==
  ASSUME NEW q \in Seq(Slots)
  PROVE  Range(q) \in SUBSET Slots /\ Cardinality(Range(q)) <= Len(q)
<1>1. Len(q) \in Nat /\ q \in Surjection(1 .. Len(q), Range(q))
  BY DEF Surjection, Range
<1>2. IsFiniteSet(1 .. Len(q)) /\ Cardinality(1 .. Len(q)) = Len(q)
  <2>1. 1 \in Int /\ Len(q) \in Int /\ (1 > Len(q) => Len(q) = 0)
    BY <1>1
  <2> QED BY <2>1, FS_Interval
<1> QED BY <1>1, <1>2, FS_Surjection, RangeInSet

LEMMA QueueBound ==
  ASSUME NEW q \in Seq(Slots), NEW n \in Nat, Len(q) <= n
  PROVE  Range(q) \in SUBSET Slots /\ Cardinality(Range(q)) <= n
<1>1. /\ Range(q) \in SUBSET Slots /\ Cardinality(Range(q)) <= Len(q)
      /\ Len(q) \in Nat
  BY RangeBound
<1>2. Cardinality(Range(q)) \in Nat
  BY <1>1, FiniteSlots
<1> QED BY <1>1, <1>2

LEMMA SingleBound ==
  ASSUME NEW S \in SUBSET Slots, \A s, t \in S : s = t
  PROVE  Cardinality(S) <= 1
<1>1. CASE S = {}
  BY <1>1, FS_EmptySet
<1>2. CASE S # {}
  <2>1. PICK x \in S : S = {x}
    BY <1>2
  <2> QED BY <2>1, FS_Singleton
<1> QED BY <1>1, <1>2

LEMMA PermitsInit == Init => PermitsBounded
<1> SUFFICES ASSUME Init PROVE PermitsBounded
  OBVIOUS
<1>1. Permits = {} /\ Waiting = {}
  BY DEF Init, Permits, HoldsPermit, Waiting
<1> QED BY <1>1, FS_EmptySet, PipelineAssumption DEF PermitsBounded

LEMMA PermitsStep == TypeOK /\ PermitsBounded /\ [Next]_vars => PermitsBounded'
<1> SUFFICES ASSUME TypeOK, PermitsBounded, [Next]_vars PROVE PermitsBounded'
  OBVIOUS
<1>a. Permits \in SUBSET Slots /\ Cardinality(Permits) \in Nat /\ MaxConcurrent \in Nat
  BY FiniteSlots, PipelineAssumption DEF Permits
<1>b. ASSUME Permits' \subseteq Permits, Waiting' \subseteq Waiting
      PROVE  PermitsBounded'
  <2>1. Cardinality(Permits') <= Cardinality(Permits)
    BY <1>a, <1>b, SmallerSubset
  <2>2. Cardinality(Permits') \in Nat
    BY <1>a, <1>b, FiniteSlots
  <2> QED BY <1>a, <1>b, <2>1, <2>2 DEF PermitsBounded
<1>1. CASE FetcherRecv
  <2>1. Permits' \subseteq Permits
    BY <1>1 DEF FetcherRecv, Move, Permits, HoldsPermit, TypeOK
  <2>2. Waiting' \subseteq {Head(slotsCh)}
    BY <1>1 DEF FetcherRecv, NoneWaiting, Move, Waiting, TypeOK
  <2>3. Cardinality(Permits') <= Cardinality(Permits) /\ Cardinality(Permits') \in Nat
    BY <1>a, <2>1, SmallerSubset, FiniteSlots
  <2> QED BY <1>a, <2>2, <2>3 DEF PermitsBounded
<1>2. ASSUME NEW s \in Slots, FetcherSpawn(s) PROVE PermitsBounded'
  <2>1. Permits' = Permits \cup {s} /\ Waiting' \subseteq Waiting
    BY <1>2 DEF FetcherSpawn, Move, Permits, HoldsPermit, Waiting, TypeOK
  <2>2. Cardinality(Permits \cup {s}) <= Cardinality(Permits) + 1
    BY <1>a, FiniteSlots, FS_AddElement
  <2>3. Cardinality(Permits \cup {s}) \in Nat
    BY <1>a, FiniteSlots
  <2> QED BY <1>2, <1>a, <2>1, <2>2, <2>3 DEF FetcherSpawn, PermitsBounded
<1>3. ASSUME NEW s \in Slots, RpcAnswers(s) \/ TaskSend(s) \/ TaskSendFails(s)
      PROVE  PermitsBounded'
  BY <1>3, <1>b DEF RpcAnswers, TaskSend, TaskSendFails, Move, Permits,
                    HoldsPermit, Waiting, TypeOK
<1>4. CASE FetcherExit
  BY <1>4, <1>b DEF FetcherExit, InFetcher, Permits, HoldsPermit, Waiting, TypeOK
<1>5. CASE Restart
  BY <1>5, <1>b DEF Restart, Permits, HoldsPermit, Waiting
<1>6. CASE UNCHANGED task
  BY <1>6, <1>b DEF Permits, HoldsPermit, Waiting
<1>7. CASE WalkerSend \/ WalkerExit \/ ParserRecv \/ ParserRejects \/ ParserDies \/ ParserSend
  BY <1>6, <1>7 DEF WalkerSend, WalkerExit, ParserRecv, ParserRejects, ParserDies, ParserSend
<1>8. CASE WriterRecv \/ WriterCommit \/ WriterRollback \/ WriterDies
  <2>1. UNCHANGED task
    BY <1>8 DEF WriterRecv, WriterCommit, WriterRollback, WriterDies
  <2> QED BY <1>6, <2>1
<1>9. CASE UNCHANGED stages
  BY <1>6, <1>9 DEF stages
<1> QED
  BY <1>1, <1>2, <1>3, <1>4, <1>5, <1>7, <1>8, <1>9
  DEF Next, Progress, Calm, Panic, Pause, PausePanics, Fetching, Serve,
      MonitorSample, MonitorPanics, vars,
      ParserPanics, ParserSendFails, ParserExit, WriterPanics, WriterExit

LEMMA PermitsAlways == Spec => []PermitsBounded
BY TypeCorrect, PermitsInit, PermitsStep, PTL DEF Spec

(* Raw blocks in memory are bounded by the permits and the small channel,  *)
(* however long the range and however slow the writer.                     *)
THEOREM RawBlocksStayBounded == Spec => []RawBlocksBounded
<1>1. TypeOK /\ PermitsBounded => RawBlocksBounded
  <2> SUFFICES ASSUME TypeOK, PermitsBounded PROVE RawBlocksBounded
    OBVIOUS
  <2> DEFINE sending == {s \in Slots : task[s] = "sending"}
  <2>1. Permits \in SUBSET Slots /\ sending \in SUBSET Permits
    BY DEF Permits, HoldsPermit
  <2>2. Cardinality(sending) <= Cardinality(Permits)
    BY <2>1, SmallerSubset
  <2>3. Cardinality(sending) \in Nat /\ Cardinality(Permits) \in Nat
    BY <2>1, FiniteSlots
  <2>4. /\ Cardinality(Permits) <= MaxConcurrent
        /\ Len(blocksCh) <= BlocksBound /\ Len(blocksCh) \in Nat
    BY DEF TypeOK, PermitsBounded
  <2> HIDE DEF sending
  <2>5. Cardinality(sending) + Len(blocksCh) <= MaxConcurrent + BlocksBound
    BY <2>2, <2>3, <2>4, PipelineAssumption
  <2> QED BY <2>5 DEF sending, RawBlocksBounded
<1> QED BY <1>1, TypeCorrect, PermitsAlways, PTL

(* ADR-0009: whatever stalls, only so many slots are on their way.         *)
THEOREM BackpressureHolds == Spec => []Backpressure
<1>1. TypeOK /\ OneHolder /\ PermitsBounded => Backpressure
  <2> SUFFICES ASSUME TypeOK, OneHolder, PermitsBounded PROVE Backpressure
    OBVIOUS
  <2> DEFINE open == {s \in Slots : s < next /\ fate[s] = "open"}
             inParser == {s \in Slots : s = parsing}
             inWriter == {s \in Slots : s = writing}
             A == Range(slotsCh) \cup Waiting
             B == A \cup Permits
             C == B \cup Range(blocksCh)
             D == C \cup inParser
             E == D \cup Range(parsedCh)
             F == E \cup inWriter
             a == ChannelBound + 1
             b == a + MaxConcurrent
             c == b + BlocksBound
             d == c + 1
             e == d + ChannelBound
             f == e + 1
  <2>1. open \in SUBSET F
    <3> SUFFICES ASSUME NEW s \in Slots, s < next, fate[s] = "open" PROVE s \in F
      OBVIOUS
    <3>1. ~(s >= next)
      BY PipelineAssumption DEF TypeOK, Slots
    <3>2. PICK p \in Places : At(p, s)
      BY DEF OneHolder
    <3> QED BY <3>1, <3>2 DEF Places, At, InFetcher, Waiting, Permits, HoldsPermit
  <2>2. /\ ChannelBound \in Nat /\ BlocksBound \in Nat /\ MaxConcurrent \in Nat
        /\ 1 \in Nat
        /\ a \in Nat /\ b \in Nat /\ c \in Nat /\ d \in Nat /\ e \in Nat /\ f \in Nat
        /\ f = 2 * ChannelBound + BlocksBound + MaxConcurrent + 3
    BY PipelineAssumption
  <2>3. /\ Range(slotsCh) \in SUBSET Slots /\ Cardinality(Range(slotsCh)) <= ChannelBound
        /\ Range(blocksCh) \in SUBSET Slots /\ Cardinality(Range(blocksCh)) <= BlocksBound
        /\ Range(parsedCh) \in SUBSET Slots /\ Cardinality(Range(parsedCh)) <= ChannelBound
    BY <2>2, QueueBound DEF TypeOK
  <2>4. /\ Waiting \in SUBSET Slots /\ Cardinality(Waiting) <= 1
        /\ Permits \in SUBSET Slots /\ Cardinality(Permits) <= MaxConcurrent
        /\ inParser \in SUBSET Slots /\ Cardinality(inParser) <= 1
        /\ inWriter \in SUBSET Slots /\ Cardinality(inWriter) <= 1
    BY SingleBound DEF PermitsBounded, Waiting, Permits
  <2> HIDE DEF open, inParser, inWriter, a, b, c, d, e, f
  <2>5. A \in SUBSET Slots /\ Cardinality(A) <= a
    BY <2>2, <2>3, <2>4, UnionBound DEF a
  <2> HIDE DEF A
  <2>6. B \in SUBSET Slots /\ Cardinality(B) <= b
    BY <2>2, <2>4, <2>5, UnionBound DEF b
  <2> HIDE DEF B
  <2>7. C \in SUBSET Slots /\ Cardinality(C) <= c
    BY <2>2, <2>3, <2>6, UnionBound DEF c
  <2> HIDE DEF C
  <2>8. D \in SUBSET Slots /\ Cardinality(D) <= d
    BY <2>2, <2>4, <2>7, UnionBound DEF d
  <2> HIDE DEF D
  <2>9. E \in SUBSET Slots /\ Cardinality(E) <= e
    BY <2>2, <2>3, <2>8, UnionBound DEF e
  <2> HIDE DEF E
  <2>10. F \in SUBSET Slots /\ Cardinality(F) <= f
    BY <2>2, <2>4, <2>9, UnionBound DEF f
  <2> HIDE DEF F
  <2>11. Cardinality(open) <= Cardinality(F) /\ Cardinality(open) \in Nat
         /\ Cardinality(F) \in Nat
    BY <2>1, <2>10, SmallerSubset, FiniteSlots
  <2>12. Cardinality(open) <= f
    BY <2>2, <2>10, <2>11
  <2> QED BY <2>2, <2>12 DEF open, Backpressure
<1> QED BY <1>1, TypeCorrect, SlotsConserved, PermitsAlways, PTL

-----------------------------------------------------------------------------
(* Only what parse_block accepts goes further than the parser.             *)

PastParser(s) == s = parsing \/ s \in Range(parsedCh) \/ s = writing
OnlyParsable == \A s \in Slots : PastParser(s) => Parsable(s)

LEMMA ParsableInit == Init => OnlyParsable
BY PipelineAssumption, EmptyQueue DEF Init, OnlyParsable, PastParser, Slots

LEMMA ParsableStep == TypeOK /\ OneHolder /\ OnlyParsable /\ [Next]_vars => OnlyParsable'
<1> SUFFICES ASSUME TypeOK, OneHolder, OnlyParsable, [Next]_vars PROVE OnlyParsable'
  OBVIOUS
<1> USE PipelineAssumption
<1>a. \A s \in Slots : s # NoSlot
  BY DEF Slots
<1>b. IsInjective(parsedCh) /\ IsInjective(blocksCh)
  BY DEF OneHolder
<1>1. ASSUME NEW s \in Slots, RpcAnswers(s) PROVE OnlyParsable'
  <2>1. ~PastParser(s)
    BY <1>1 DEF RpcAnswers, OneHolder, At, Places, InFetcher, PastParser
  <2> QED BY <1>1, <2>1
          DEF RpcAnswers, OnlyParsable, PastParser, Parsable, channels, TypeOK
<1>2. CASE ParserRecv
  BY <1>2, <1>a DEF ParserRecv, OnlyParsable, PastParser, Parsable
<1>3. CASE ParserSend
  <2>1. Range(parsedCh') = Range(parsedCh) \cup {parsing}
    BY <1>3, AppendRange DEF ParserSend, TypeOK
  <2> QED BY <1>3, <1>a, <2>1 DEF ParserSend, OnlyParsable, PastParser, Parsable
<1>4. CASE WriterRecv
  <2>1. Head(parsedCh) \in Range(parsedCh) /\ Range(parsedCh') \subseteq Range(parsedCh)
    BY <1>4, <1>b, TailRange DEF WriterRecv, TypeOK
  <2> QED BY <1>4, <1>a, <2>1 DEF WriterRecv, OnlyParsable, PastParser, Parsable
<1>5. CASE ParserDies
  BY <1>5, <1>a DEF ParserDies, OnlyParsable, PastParser, Parsable
<1>6. CASE WriterDies
  BY <1>6, <1>a, EmptyQueue DEF WriterDies, OnlyParsable, PastParser, Parsable
<1>7. CASE WriterCommit \/ WriterRollback
  BY <1>7, <1>a DEF WriterCommit, WriterRollback, OnlyParsable, PastParser,
                    Parsable, channels
<1>8. CASE Restart
  BY <1>8, <1>a, EmptyQueue DEF Restart, OnlyParsable, PastParser
<1>9. CASE UNCHANGED <<parsing, parsedCh, writing, outcome>>
  BY <1>9 DEF OnlyParsable, PastParser, Parsable
<1>10. CASE WalkerSend \/ WalkerExit \/ FetcherRecv \/ FetcherExit \/ ParserRejects
  BY <1>9, <1>10 DEF WalkerSend, WalkerExit, FetcherRecv, FetcherExit,
                     ParserRejects, channels
<1>11. ASSUME NEW s \in Slots, FetcherSpawn(s) \/ TaskSend(s) \/ TaskSendFails(s)
       PROVE  OnlyParsable'
  BY <1>9, <1>11 DEF FetcherSpawn, TaskSend, TaskSendFails, channels
<1>12. CASE UNCHANGED stages
  BY <1>9, <1>12 DEF stages, channels
<1> QED
  BY <1>1, <1>2, <1>3, <1>4, <1>5, <1>6, <1>7, <1>8, <1>10, <1>11, <1>12
  DEF Next, Progress, Calm, Panic, Pause, PausePanics, Fetching, Serve,
      MonitorSample, MonitorPanics, vars,
      ParserPanics, ParserSendFails, ParserExit, WriterPanics, WriterExit

LEMMA ParsableAlways == Spec => []OnlyParsable
BY TypeCorrect, SlotsConserved, ParsableInit, ParsableStep, PTL DEF Spec

-----------------------------------------------------------------------------
(* The pipeline implements SlotLedger.                                     *)

LEMMA Unsettled ==
  ASSUME OneHolder, NEW s \in Slots,
         \/ InFetcher(s) \/ s \in Range(blocksCh) \/ s = parsing
         \/ s \in Range(parsedCh) \/ s = writing
  PROVE  fate[s] = "open"
BY DEF OneHolder, Places, At

LEMMA LedgerStep ==
  TypeOK /\ OneHolder /\ OnlyParsable /\ [Next]_vars => [Ledger!Next]_(Ledger!ledger)
<1> SUFFICES ASSUME TypeOK, OneHolder, OnlyParsable, [Next]_vars
             PROVE  Ledger!Next \/ UNCHANGED <<blocks, txSlots, fate>>
  BY DEF Ledger!ledger
<1> USE PipelineAssumption
<1>a. ASSUME NEW s \in Slots, NEW f \in {"reported", "dropped"}, Settle(s, f),
             fate[s] = "open", UNCHANGED tables
      PROVE  Ledger!Next
  <2>1. CASE f = "reported"
    BY <1>a, <2>1 DEF Settle, tables, Ledger!Next, Ledger!Report
  <2>2. CASE f = "dropped"
    <3>1. Ledger!Drop({s})
      BY <1>a, <2>2 DEF Settle, tables, Ledger!Drop, TypeOK
    <3> QED BY <3>1 DEF Ledger!Next
  <2> QED BY <2>1, <2>2
<1>b. ASSUME NEW S \in SUBSET Slots, Drop(S), \A s \in S : fate[s] = "open",
             UNCHANGED tables
      PROVE  Ledger!Next
  BY <1>b DEF Drop, tables, Ledger!Next, Ledger!Drop
<1>1. CASE WalkerSend \/ WalkerExit \/ FetcherRecv \/ ParserRecv \/ ParserSend \/ WriterRecv
  BY <1>1 DEF WalkerSend, WalkerExit, FetcherRecv, ParserRecv, ParserSend,
              WriterRecv, tables
<1>2. ASSUME NEW s \in Slots, Fetching(s)
      PROVE  Ledger!Next \/ UNCHANGED <<blocks, txSlots, fate>>
  <2>1. CASE TaskSendFails(s)
    <3>1. fate[s] = "open"
      BY <2>1, Unsettled DEF TaskSendFails, InFetcher
    <3> QED BY <2>1, <3>1, <1>a DEF TaskSendFails
  <2> QED BY <1>2, <2>1 DEF Fetching, FetcherSpawn, RpcAnswers, TaskSend, tables
<1>3. CASE FetcherExit
  <2> DEFINE S == {s \in Slots : InFetcher(s)}
  <2>1. \A s \in S : fate[s] = "open"
    BY Unsettled
  <2> QED BY <1>3, <2>1, <1>b DEF FetcherExit
<1>4. CASE ParserRejects
  <2>1. Head(blocksCh) \in Slots /\ Head(blocksCh) \in Range(blocksCh)
    BY <1>4, TailRange DEF ParserRejects, ParserReady, OneHolder, TypeOK
  <2> QED BY <1>4, <2>1, <1>a, Unsettled DEF ParserRejects
<1>5. CASE ParserDies
  <2> DEFINE S == Range(blocksCh) \cup ({parsing} \ {NoSlot})
  <2>1. S \in SUBSET Slots
    BY RangeInSet DEF TypeOK
  <2>2. \A s \in S : fate[s] = "open"
    BY <2>1, Unsettled
  <2> QED BY <1>5, <2>1, <2>2, <1>b DEF ParserDies
<1>6. CASE WriterCommit
  <2>1. /\ writing \in Slots /\ fate[writing] = "open"
        /\ outcome[writing] \in {"Skipped", "Fetched"}
    BY <1>6, Unsettled DEF WriterCommit, TypeOK, OnlyParsable, PastParser, Parsable
  <2> DEFINE kind == IF outcome[writing] = "Skipped" THEN "skipped" ELSE "produced"
  <2>2. blocks' = IF blocks[writing] = "none" THEN [blocks EXCEPT ![writing] = kind]
                                              ELSE blocks
    BY <1>6, <2>1 DEF WriterCommit, InsertedRow, TypeOK
  <2>3. txSlots' = IF kind = "produced" THEN txSlots \cup {writing} ELSE txSlots
    BY <1>6, <2>1 DEF WriterCommit
  <2>4. kind \in {"skipped", "produced"}
    OBVIOUS
  <2>5. fate' = [fate EXCEPT ![writing] = "stored"]
    BY <1>6 DEF WriterCommit, Settle
  <2> HIDE DEF kind
  <2>6. Ledger!Store(writing)
    BY <2>1, <2>2, <2>3, <2>4, <2>5 DEF Ledger!Store
  <2> QED BY <2>1, <2>6 DEF Ledger!Next
<1>7. CASE WriterRollback
  <2>1. writing \in Slots /\ fate[writing] = "open"
    BY <1>7, Unsettled DEF WriterRollback, TypeOK
  <2> QED BY <1>7, <2>1, <1>a DEF WriterRollback
<1>8. CASE WriterDies
  <2> DEFINE S == Range(parsedCh) \cup ({writing} \ {NoSlot})
  <2>1. S \in SUBSET Slots
    BY RangeInSet DEF TypeOK
  <2>2. \A s \in S : fate[s] = "open"
    BY <2>1, Unsettled
  <2> QED BY <1>8, <2>1, <2>2, <1>b DEF WriterDies
<1>9. CASE Restart
  BY <1>9 DEF Restart, tables, Ledger!Next, Ledger!Restart
<1>10. CASE UNCHANGED stages
  BY <1>10 DEF stages, tables
<1> QED
  BY <1>1, <1>2, <1>3, <1>4, <1>5, <1>6, <1>7, <1>8, <1>9, <1>10
  DEF Next, Progress, Calm, Panic, Pause, PausePanics, Serve, MonitorSample,
      MonitorPanics, vars, ParserPanics, ParserSendFails, ParserExit,
      WriterPanics, WriterExit

(* Each slot is settled once per run, in one atomic step, and no row is    *)
(* ever changed, for every range, bound and pattern of failures.           *)
THEOREM ImplementsLedger == Spec => LedgerSpec
<1>1. Init => Ledger!Init
  BY DEF Init, Ledger!Init
<1> QED
  BY <1>1, TypeCorrect, SlotsConserved, ParsableAlways, LedgerStep, PTL
  DEF Spec, LedgerSpec, Ledger!Spec

-----------------------------------------------------------------------------
(* Re-running after a crash: the tables only ever hold what the chain has, *)
(* and what a run has stored is there.                                     *)

Answered(s) == task[s] = "sending" \/ s \in Range(blocksCh) \/ PastParser(s)
Chain(s) == IF Answers[s] = {"Skipped"} THEN "skipped" ELSE "produced"
Faithful ==
  \A s \in Slots :
    /\ Answered(s) => outcome[s] \in Answers[s]
    /\ blocks[s] \in {"none", Chain(s)}
    /\ s \in txSlots => Answers[s] = {"Fetched"}
    /\ fate[s] = "stored" => /\ blocks[s] # "none"
                             /\ Answers[s] = {"Fetched"} => s \in txSlots
    /\ fate[s] # "reported"

LEMMA FaithfulInit == Init => Faithful
BY PipelineAssumption, EmptyQueue DEF Init, Faithful, Answered, PastParser, Slots

LEMMA FaithfulStep ==
  ASSUME ~WriteMayFail, \A s \in Slots : Answers[s] \in {{"Skipped"}, {"Fetched"}}
  PROVE  TypeOK /\ OneHolder /\ Faithful /\ [Next]_vars => Faithful'
<1> SUFFICES ASSUME TypeOK, OneHolder, Faithful, [Next]_vars PROVE Faithful'
  OBVIOUS
<1> USE PipelineAssumption
<1>a. \A s \in Slots : s # NoSlot
  BY DEF Slots
<1>b. IsInjective(parsedCh) /\ IsInjective(blocksCh)
  BY DEF OneHolder
<1>c. ASSUME UNCHANGED <<outcome, tables, fate>>,
             \A s \in Slots : Answered(s)' => Answered(s)
      PROVE  Faithful'
  BY <1>c DEF Faithful, Chain, tables
<1>1. CASE WalkerSend \/ WalkerExit \/ UNCHANGED stages
  BY <1>1, <1>c DEF WalkerSend, WalkerExit, stages, channels, Answered, PastParser
<1>2. CASE FetcherRecv
  BY <1>2, <1>c DEF FetcherRecv, Move, TypeOK, Answered, PastParser
<1>3. ASSUME NEW s \in Slots, FetcherSpawn(s) PROVE Faithful'
  BY <1>3, <1>c DEF FetcherSpawn, Move, TypeOK, channels, Answered, PastParser
<1>4. ASSUME NEW s \in Slots, RpcAnswers(s) PROVE Faithful'
  BY <1>4 DEF RpcAnswers, Move, TypeOK, channels, tables, Faithful, Answered,
              PastParser, Chain
<1>5. ASSUME NEW s \in Slots, TaskSend(s) PROVE Faithful'
  <2>1. Range(blocksCh') = Range(blocksCh) \cup {s}
    BY <1>5, AppendRange DEF TaskSend, TypeOK
  <2> QED BY <1>5, <2>1, <1>c DEF TaskSend, Move, TypeOK, Answered, PastParser
<1>6. ASSUME NEW s \in Slots, TaskSendFails(s) PROVE Faithful'
  BY <1>6 DEF TaskSendFails, Move, Settle, TypeOK, channels, tables, Faithful,
              Answered, PastParser, Chain
<1>7. CASE FetcherExit
  BY <1>7 DEF FetcherExit, Drop, TypeOK, channels, tables, Faithful, Answered,
              PastParser, Chain, InFetcher
<1>8. CASE ParserRecv \/ ParserRejects
  <2>1. /\ blocksCh' = Tail(blocksCh) /\ blocksCh # <<>>
        /\ UNCHANGED <<task, parsedCh, writing, outcome, tables>>
    BY <1>8 DEF ParserRecv, ParserRejects, ParserReady
  <2>2. /\ Head(blocksCh) \in Slots /\ Head(blocksCh) \in Range(blocksCh)
        /\ Range(blocksCh') \subseteq Range(blocksCh)
    BY <2>1, <1>b, TailRange DEF TypeOK
  <2>3. Parsable(Head(blocksCh))
    BY <2>2 DEF Faithful, Answered, Parsable
  <2>4. ParserRecv
    BY <1>8, <2>3 DEF ParserRejects
  <2> QED BY <2>1, <2>2, <2>4, <1>c DEF ParserRecv, Answered, PastParser
<1>9. CASE ParserDies
  <2>1. UNCHANGED <<outcome, task, tables>>
    BY <1>9 DEF ParserDies
  <2>2. \A s \in Slots : Answered(s)' => Answered(s)
    BY <1>9, <1>a, EmptyQueue DEF ParserDies, Answered, PastParser
  <2>3. \A s \in Slots : fate'[s] \in {fate[s], "dropped"}
    BY <1>9 DEF ParserDies, Drop
  <2> QED BY <2>1, <2>2, <2>3 DEF Faithful, Chain, tables
<1>10. CASE ParserSend
  <2>1. Range(parsedCh') = Range(parsedCh) \cup {parsing}
    BY <1>10, AppendRange DEF ParserSend, TypeOK
  <2> QED BY <1>10, <1>a, <1>c, <2>1 DEF ParserSend, Answered, PastParser
<1>11. CASE WriterRecv
  <2>1. Head(parsedCh) \in Range(parsedCh) /\ Range(parsedCh') \subseteq Range(parsedCh)
    BY <1>11, <1>b, TailRange DEF WriterRecv, TypeOK
  <2> QED BY <1>11, <1>c, <2>1 DEF WriterRecv, Answered, PastParser
<1>12. CASE WriterCommit
  <2>1. writing \in Slots /\ Answers[writing] = {outcome[writing]}
    <3>1. writing \in Slots
      BY <1>12 DEF WriterCommit, TypeOK
    <3>2. outcome[writing] \in Answers[writing]
      BY <3>1 DEF Faithful, Answered, PastParser
    <3>3. Answers[writing] \in {{"Skipped"}, {"Fetched"}}
      BY <3>1
    <3> QED BY <3>1, <3>2, <3>3
  <2>2. InsertedRow(writing) = Chain(writing)
    BY <2>1 DEF InsertedRow, Faithful, Chain
  <2>3. \A s \in Slots : Answered(s)' => Answered(s)
    BY <1>12, <1>a DEF WriterCommit, channels, Answered, PastParser
  <2> QED BY <1>12, <2>1, <2>2, <2>3
          DEF WriterCommit, Settle, TypeOK, Faithful, Chain
<1>13. CASE WriterDies
  <2>1. UNCHANGED <<outcome, task, tables>>
    BY <1>13 DEF WriterDies
  <2>2. \A s \in Slots : Answered(s)' => Answered(s)
    BY <1>13, <1>a, EmptyQueue DEF WriterDies, Answered, PastParser
  <2>3. \A s \in Slots : fate'[s] \in {fate[s], "dropped"}
    BY <1>13 DEF WriterDies, Drop
  <2> QED BY <2>1, <2>2, <2>3 DEF Faithful, Chain, tables
<1>14. CASE Restart
  BY <1>14, <1>a, EmptyQueue DEF Restart, tables, Faithful, Answered, PastParser, Chain
<1> QED
  BY <1>1, <1>2, <1>3, <1>4, <1>5, <1>6, <1>7, <1>8, <1>9, <1>10, <1>11, <1>12,
     <1>13, <1>14
  DEF Next, Progress, Calm, Panic, Pause, PausePanics, Fetching, Serve,
      MonitorSample, MonitorPanics, vars,
      ParserPanics, ParserSendFails, ParserExit, WriterPanics, WriterRollback, WriterExit

(* However often ingestion was killed and started again, a run that        *)
(* completes leaves the tables as the chain has them.                      *)
THEOREM CompleteRunsStoreAll ==
  ASSUME ~WriteMayFail, ~StderrMayFail,
         \A s \in Slots : Answers[s] \in {{"Skipped"}, {"Fetched"}}
  PROVE  Spec => []CompleteMeansStored
<1>1. Spec => []Faithful
  BY TypeCorrect, SlotsConserved, FaithfulInit, FaithfulStep, PTL DEF Spec
<1>2. TypeOK /\ Faithful /\ ~panicked /\ NothingLostSilently => CompleteMeansStored
  BY DEF TypeOK, Faithful, Chain, NothingLostSilently, CompleteMeansStored
<1> QED BY <1>1, <1>2, TypeCorrect, NothingLost, NoPanic, PTL
=============================================================================
