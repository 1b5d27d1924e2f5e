------------------------------ MODULE Pipeline ------------------------------
(***************************************************************************)
(* The ingestion pipeline of src/main.rs and src/pipeline/:                *)
(*                                                                         *)
(*   walk_slots --slotsCh--> fetcher::run --blocksCh--> parser::run        *)
(*                            + one task per slot   --parsedCh--> writer   *)
(*                                                                         *)
(* Channels are bounded FIFO tokio mpsc channels: a send waits while the   *)
(* channel is full and fails once the receiver is gone; a receive waits    *)
(* while it is empty and ends the stage once every sender is gone.  The    *)
(* walker emits a slot once per run, so a channel carries slot numbers     *)
(* and the payload is looked up in `outcome'.                              *)
(*                                                                         *)
(* Environment: the RPC answers anything in Answers[s]; a SQLite write may *)
(* fail (WriteMayFail); eprintln! may panic on a closed stderr and end the *)
(* stage (StderrMayFail); the process may be killed and is run again over  *)
(* the same range and database, at most MaxRuns times in all, each time    *)
(* with or without MONITOR_CHANNELS and PAUSE_AFTER_BLOCKS.                *)
(***************************************************************************)
EXTENDS Integers, Sequences, FiniteSets, Functions

CONSTANTS StartSlot, EndSlot,  \* START_SLOT, END_SLOT (inclusive)
          MaxConcurrent,       \* MAX_CONCURRENT_FETCHES
          ChannelBound,        \* CHANNEL_BOUND, for slotsCh and parsedCh
          BlocksBound,         \* BLOCKS_CHANNEL_BOUND
          Answers,             \* slot -> the outcomes get_block may return
          WriteMayFail, StderrMayFail, MaxRuns,
          NoSlot

Slots == StartSlot .. EndSlot

(* Malformed is Fetched with a shape parse_block rejects.                  *)
Outcome == {"Skipped", "Fetched", "Malformed", "Failed"}

ASSUME PipelineAssumption ==
  /\ StartSlot \in Nat /\ EndSlot \in Nat /\ StartSlot <= EndSlot + 1
  /\ MaxConcurrent \in Nat \ {0}
  /\ ChannelBound \in Nat \ {0} /\ BlocksBound \in Nat \ {0}
  /\ Answers \in [Slots -> SUBSET Outcome]
  /\ WriteMayFail \in BOOLEAN /\ StderrMayFail \in BOOLEAN
  /\ MaxRuns \in Nat
  /\ NoSlot \notin Slots

VARIABLES next,      \* the walker's loop variable
          slotsCh, blocksCh, parsedCh,
          task,      \* slot -> phase of the fetcher's work on it
          outcome,   \* slot -> answer of get_block, once there is one
          parsing,   \* the parsed block the parser is sending, or NoSlot
          writing,   \* the block the writer holds, or NoSlot
          alive,     \* stage -> its task is still running
          blocks, txSlots,  \* the database, the only durable state
          fate,      \* slot -> how its journey ended in this run
          runs,
          probed,    \* the task of MONITOR_CHANNELS is running
          panicked   \* history: a panic has ended parser or writer in this run

channels == <<slotsCh, blocksCh, parsedCh>>
tables   == <<blocks, txSlots>>
stages   == <<next, channels, task, outcome, parsing, writing, alive, tables,
              fate, runs>>
vars     == <<stages, probed, panicked>>

Stage == {"walker", "fetcher", "parser", "writer"}

Init == /\ next = StartSlot
        /\ slotsCh = <<>> /\ blocksCh = <<>> /\ parsedCh = <<>>
        /\ task = [s \in Slots |-> "idle"]
        /\ outcome = [s \in Slots |-> "pending"]
        /\ parsing = NoSlot /\ writing = NoSlot
        /\ alive = [g \in Stage |-> TRUE]
        /\ blocks = [s \in Slots |-> "none"] /\ txSlots = {}
        /\ fate = [s \in Slots |-> "open"]
        /\ runs = 1
        /\ probed \in BOOLEAN /\ panicked = FALSE

-----------------------------------------------------------------------------
Exit(g) == alive' = [alive EXCEPT ![g] = FALSE]
(* mutant: an error branch that continues without its eprintln!            *)
SettleUnreported(s, f) ==
  fate' = IF f = "reported" THEN fate ELSE [fate EXCEPT ![s] = f]
Settle(s, f) == fate' = [fate EXCEPT ![s] = f]
Drop(S) == fate' = [s \in Slots |-> IF s \in S THEN "dropped" ELSE fate[s]]
Move(s, p) == task' = [task EXCEPT ![s] = p]

(* slot_walker: `for slot in start..=end'.  The is_err() break is dead     *)
(* code: the fetcher holds slots_rx until the walker is done.              *)
(* mutants: the range without its end; one slot too many                   *)
InHalfOpenRange == next < EndSlot
InLongRange == next <= EndSlot + 1
InRange == next <= EndSlot

WalkerSend == /\ alive["walker"] /\ InRange
              /\ Len(slotsCh) < ChannelBound
              /\ slotsCh' = Append(slotsCh, next)
              /\ next' = next + 1
              /\ UNCHANGED <<blocksCh, parsedCh, task, outcome, parsing, writing,
                             alive, tables, fate, runs>>

WalkerExit == /\ alive["walker"] /\ ~InRange
              /\ Exit("walker")
              /\ UNCHANGED <<next, channels, task, outcome, parsing, writing,
                             tables, fate, runs>>

(* A task holds its permit until its send has returned.                    *)
(* mutants: the permit dropped before the send; never dropped              *)
HoldsPermitForRpc(s) == task[s] = "rpc"
HoldsPermitForever(s) == task[s] \in {"rpc", "sending", "done"}
HoldsPermit(s) == task[s] \in {"rpc", "sending"}
Permits == {s \in Slots : HoldsPermit(s)}
InFetcher(s) == task[s] \in {"permit", "rpc", "sending"}

(* The fetcher itself waits for the permit, before it spawns the task.     *)
(* mutant: the permit acquired inside the spawned task                     *)
NeverWaits == TRUE
NoneWaiting == \A s \in Slots : task[s] # "permit"

FetcherRecv == /\ alive["fetcher"] /\ slotsCh # <<>> /\ NoneWaiting
               /\ Move(Head(slotsCh), "permit")
               /\ slotsCh' = Tail(slotsCh)
               /\ UNCHANGED <<next, blocksCh, parsedCh, outcome, parsing, writing,
                              alive, tables, fate, runs>>

FetcherSpawn(s) == /\ task[s] = "permit"
                   /\ Cardinality(Permits) < MaxConcurrent
                   /\ Move(s, "rpc")
                   /\ UNCHANGED <<next, channels, outcome, parsing, writing,
                                  alive, tables, fate, runs>>

RpcAnswers(s) == /\ task[s] = "rpc"
                 /\ \E o \in Answers[s] : outcome' = [outcome EXCEPT ![s] = o]
                 /\ Move(s, "sending")
                 /\ UNCHANGED <<next, channels, parsing, writing, alive, tables,
                                fate, runs>>

TaskSend(s) == /\ task[s] = "sending" /\ alive["parser"]
               /\ Len(blocksCh) < BlocksBound
               /\ blocksCh' = Append(blocksCh, s)
               /\ Move(s, "done")
               /\ UNCHANGED <<next, slotsCh, parsedCh, outcome, parsing, writing,
                              alive, tables, fate, runs>>

(* `let _ = blocks_tx.send(..)': the error of a gone receiver is ignored.  *)
TaskSendFails(s) == /\ task[s] = "sending" /\ ~alive["parser"]
                    /\ Move(s, "done") /\ Settle(s, "dropped")
                    /\ UNCHANGED <<next, channels, outcome, parsing, writing,
                                   alive, tables, runs>>

(* join_next() has returned every task.                                    *)
(* mutant: no join loop after the receive loop                             *)
NotJoined == TRUE
AllJoined == \A s \in Slots : ~InFetcher(s)

(* Dropping the JoinSet would abort the tasks still in it.                 *)
FetcherExit == /\ alive["fetcher"] /\ ~alive["walker"] /\ slotsCh = <<>>
               /\ AllJoined
               /\ Exit("fetcher")
               /\ task' = [s \in Slots |-> IF InFetcher(s) THEN "done" ELSE task[s]]
               /\ Drop({s \in Slots : InFetcher(s)})
               /\ UNCHANGED <<next, channels, outcome, parsing, writing, tables,
                              runs>>

-----------------------------------------------------------------------------
(* The task of MONITOR_CHANNELS holds a clone of both senders.             *)
(* mutant: main keeps blocks_tx instead of moving it into the fetcher      *)
BlocksNeverClosed == FALSE
BlocksClosed == ~alive["fetcher"] /\ ~probed
ParsedClosed == ~alive["parser"] /\ ~probed

Parsable(s) == outcome[s] \in {"Skipped", "Fetched"}

ParserReady == alive["parser"] /\ parsing = NoSlot /\ blocksCh # <<>>

ParserRecv == /\ ParserReady /\ Parsable(Head(blocksCh))
              /\ parsing' = Head(blocksCh)
              /\ blocksCh' = Tail(blocksCh)
              /\ UNCHANGED <<next, slotsCh, parsedCh, task, outcome, writing,
                             alive, tables, fate, runs>>

(* Failed and Malformed: one line on stderr, and no row.                   *)
ParserRejects == /\ ParserReady /\ ~Parsable(Head(blocksCh))
                 /\ Settle(Head(blocksCh), "reported")
                 /\ blocksCh' = Tail(blocksCh)
                 /\ UNCHANGED <<next, slotsCh, parsedCh, task, outcome, parsing,
                                writing, alive, tables, runs>>

(* The end of the parser task drops what it holds and what is queued.      *)
ParserDies == /\ Exit("parser")
              /\ Drop(Range(blocksCh) \cup ({parsing} \ {NoSlot}))
              /\ blocksCh' = <<>> /\ parsing' = NoSlot
              /\ UNCHANGED <<next, slotsCh, parsedCh, task, outcome, writing,
                             tables, runs>>

ParserPanics == StderrMayFail /\ ParserReady /\ ~Parsable(Head(blocksCh)) /\ ParserDies

ParserSend == /\ parsing # NoSlot /\ alive["writer"]
              /\ Len(parsedCh) < ChannelBound
              /\ parsedCh' = Append(parsedCh, parsing)
              /\ parsing' = NoSlot
              /\ UNCHANGED <<next, slotsCh, blocksCh, task, outcome, writing,
                             alive, tables, fate, runs>>

ParserSendFails == parsing # NoSlot /\ ~alive["writer"] /\ ParserDies

ParserExit == /\ alive["parser"] /\ parsing = NoSlot /\ blocksCh = <<>>
              /\ BlocksClosed
              /\ ParserDies

-----------------------------------------------------------------------------
WriterRecv == /\ alive["writer"] /\ writing = NoSlot /\ parsedCh # <<>>
              /\ writing' = Head(parsedCh)
              /\ parsedCh' = Tail(parsedCh)
              /\ UNCHANGED <<next, slotsCh, blocksCh, task, outcome, parsing,
                             alive, tables, fate, runs>>

(* INSERT OR IGNORE INTO blocks                                            *)
(* mutant: INSERT OR REPLACE                                               *)
ReplacedRow(s) == IF outcome[s] = "Skipped" THEN "skipped" ELSE "produced"
InsertedRow(s) ==
  IF blocks[s] # "none" THEN blocks[s]
  ELSE IF outcome[s] = "Skipped" THEN "skipped" ELSE "produced"

(* write_block: one SQLite transaction for all the rows of the block; a    *)
(* skipped slot has no transactions.                                       *)
WriterCommit == /\ writing # NoSlot
                /\ blocks' = [blocks EXCEPT ![writing] = InsertedRow(writing)]
                /\ txSlots' = IF outcome[writing] = "Fetched"
                              THEN txSlots \cup {writing} ELSE txSlots
                /\ Settle(writing, "stored")
                /\ writing' = NoSlot
                /\ UNCHANGED <<next, channels, task, outcome, parsing, alive, runs>>

(* An error rolls the transaction back and costs one line on stderr.       *)
WriterRollback == /\ WriteMayFail /\ writing # NoSlot
                  /\ Settle(writing, "reported")
                  /\ writing' = NoSlot
                  /\ UNCHANGED <<next, channels, task, outcome, parsing, alive,
                                 tables, runs>>

WriterDies == /\ Exit("writer")
              /\ Drop(Range(parsedCh) \cup ({writing} \ {NoSlot}))
              /\ parsedCh' = <<>> /\ writing' = NoSlot
              /\ UNCHANGED <<next, slotsCh, blocksCh, task, outcome, parsing,
                             tables, runs>>

WriterPanics == WriteMayFail /\ StderrMayFail /\ writing # NoSlot /\ WriterDies

(* The two lines of PAUSE_AFTER_BLOCKS, after any number of blocks.  Only  *)
(* parsable blocks reach the writer.                                       *)
HasWritten == \E s \in Slots : Parsable(s) /\ fate[s] \in {"stored", "reported"}
PausePanics == /\ StderrMayFail /\ alive["writer"] /\ writing = NoSlot
               /\ HasWritten /\ WriterDies

WriterExit == /\ alive["writer"] /\ writing = NoSlot /\ parsedCh = <<>>
              /\ ParsedClosed
              /\ WriterDies

-----------------------------------------------------------------------------
(* join! has returned and "ingestion complete" is printed; the API server  *)
(* keeps the process up.                                                   *)
Complete == \A g \in Stage : ~alive[g]
Serve == Complete /\ UNCHANGED vars

(* Two capacities read and one line on stderr every 200 ms, for ever unless *)
(* that line panics.                                                       *)
MonitorSample == probed /\ UNCHANGED vars
MonitorPanics == /\ StderrMayFail /\ probed /\ probed' = FALSE
                 /\ UNCHANGED <<stages, panicked>>

(* A crash at any point, or an operator's second run: memory is gone, the  *)
(* committed rows stay.                                                    *)
Restart == /\ runs < MaxRuns /\ runs' = runs + 1
           /\ next' = StartSlot
           /\ slotsCh' = <<>> /\ blocksCh' = <<>> /\ parsedCh' = <<>>
           /\ task' = [s \in Slots |-> "idle"]
           /\ outcome' = [s \in Slots |-> "pending"]
           /\ parsing' = NoSlot /\ writing' = NoSlot
           /\ alive' = [g \in Stage |-> TRUE]
           /\ fate' = [s \in Slots |-> "open"]
           /\ probed' \in BOOLEAN /\ panicked' = FALSE
           /\ UNCHANGED tables

Fetching(s) == \/ FetcherSpawn(s) \/ RpcAnswers(s)
               \/ TaskSend(s) \/ TaskSendFails(s)

Calm == \/ WalkerSend \/ WalkerExit
        \/ FetcherRecv \/ FetcherExit \/ \E s \in Slots : Fetching(s)
        \/ ParserRecv \/ ParserRejects \/ ParserSend \/ ParserSendFails
        \/ ParserExit
        \/ WriterRecv \/ WriterCommit \/ WriterRollback \/ WriterExit
Panic == ParserPanics \/ WriterPanics

Progress == /\ \/ Calm /\ UNCHANGED panicked
               \/ Panic /\ panicked' = TRUE
            /\ UNCHANGED probed
Pause == PausePanics /\ panicked' = TRUE /\ UNCHANGED probed

Next == Progress \/ Pause \/ Serve \/ MonitorSample \/ MonitorPanics \/ Restart

Spec == Init /\ [][Next]_vars

(* tokio runs some ready task as long as there is one, every get_block     *)
(* returns (request timeout, bounded retries) and so does every write.     *)
FairSpec == Spec /\ WF_vars(Progress)

-----------------------------------------------------------------------------
(* Every variable has its type; channels respect their bounds.             *)
TypeOK ==
  /\ next \in StartSlot .. EndSlot + 1
  /\ slotsCh \in Seq(Slots) /\ blocksCh \in Seq(Slots) /\ parsedCh \in Seq(Slots)
  /\ Len(slotsCh) <= ChannelBound /\ Len(blocksCh) <= BlocksBound
  /\ Len(parsedCh) <= ChannelBound
  /\ task \in [Slots -> {"idle", "permit", "rpc", "sending", "done"}]
  /\ outcome \in [Slots -> Outcome \cup {"pending"}]
  /\ parsing \in Slots \cup {NoSlot} /\ writing \in Slots \cup {NoSlot}
  /\ alive \in [Stage -> BOOLEAN]
  /\ blocks \in [Slots -> {"none", "skipped", "produced"}]
  /\ txSlots \subseteq Slots
  /\ fate \in [Slots -> {"open", "stored", "reported", "dropped"}]
  /\ runs \in Nat /\ probed \in BOOLEAN /\ panicked \in BOOLEAN

(* Every slot of the range is at exactly one place of the pipeline, once:  *)
(* still ahead of the walker, in one channel, in one stage's hands, or     *)
(* settled.  No hand-over between two stages loses or duplicates a slot,   *)
(* whatever fails or panics.                                               *)
Places == {"ahead", "slotsCh", "fetcher", "blocksCh", "parser", "parsedCh",
           "writer", "settled"}
At(p, s) == \/ p = "ahead" /\ s >= next
            \/ p = "slotsCh" /\ s \in Range(slotsCh)
            \/ p = "fetcher" /\ InFetcher(s)
            \/ p = "blocksCh" /\ s \in Range(blocksCh)
            \/ p = "parser" /\ s = parsing
            \/ p = "parsedCh" /\ s \in Range(parsedCh)
            \/ p = "writer" /\ s = writing
            \/ p = "settled" /\ fate[s] # "open"
OneHolder ==
  /\ \A s \in Slots : \E p \in Places : /\ At(p, s)
                                       /\ \A q \in Places : At(q, s) => q = p
  /\ IsInjective(slotsCh) /\ IsInjective(blocksCh) /\ IsInjective(parsedCh)

(* "keep this bound small so a slow writer can't cause dozens of them to   *)
(* pile up in memory" (main.rs): the raw blocks, up to 20 MB each, that    *)
(* wait to be parsed are in tasks that still hold a permit or in blocksCh. *)
RawBlocksBounded ==
  Cardinality({s \in Slots : task[s] = "sending"}) + Len(blocksCh)
    <= MaxConcurrent + BlocksBound

(* ADR-0009: a stalled writer stops the walker after a fixed number of     *)
(* slots, the sum of all buffers and hands on the way.                     *)
Backpressure ==
  Cardinality({s \in Slots : s < next /\ fate[s] = "open"})
    <= 2 * ChannelBound + BlocksBound + MaxConcurrent + 3

(* When "ingestion complete" is printed every slot of the range is in the  *)
(* database or was named on stderr, unless a stage has panicked because    *)
(* stderr is closed.  No error branch and no shutdown loses a slot.        *)
NothingLostSilently ==
  Complete => \A s \in Slots :
                \/ fate[s] \in {"stored", "reported"}
                \/ panicked /\ fate[s] = "dropped"

(* ADR-0003: after any crash, one more complete run over the range leaves  *)
(* the tables as the chain has them (for an RPC that answers truthfully    *)
(* and writes that succeed).                                               *)
CompleteMeansStored ==
  Complete => \A s \in Slots :
                /\ blocks[s] = IF Answers[s] = {"Skipped"} THEN "skipped"
                                                           ELSE "produced"
                /\ s \in txSlots <=> Answers[s] = {"Fetched"}

(* A row marked skipped has no transactions: contention and candles read   *)
(* only rows with skipped = 0.                                             *)
SkippedMeansEmpty == \A s \in Slots : blocks[s] = "skipped" => s \notin txSlots

(* Each slot is settled once per run by one atomic commit or one report,   *)
(* and no row is ever changed: the pipeline implements SlotLedger.         *)
Ledger == INSTANCE SlotLedger
LedgerSpec == Ledger!Spec

(* Ingestion finishes unattended: shutdown travels down the stages, through*)
(* failures, panics of a stage and restarts.  The monitor's clones of the  *)
(* senders are the one thing that keeps a run open.                        *)
Finishes == <>[](Complete \/ probed)

(* Every slot is settled in the end, even when the run never completes.    *)
AllSettled == <>[](\A s \in Slots : fate[s] # "open")
=============================================================================
