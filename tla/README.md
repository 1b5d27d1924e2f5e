# A TLA+ model of astralane

astralane ingests a range of Solana slots into SQLite, reconstructs a lock
schedule of every block, infers trades and candles, and serves the results over
HTTP. This directory models it: TLA+ modules, TLC configurations, and theorems
checked by TLAPS. Paths such as `main.rs` are below `src/src/`.

## 1. Inventory

```
                     one process (main.rs)
 walker --slots--> fetcher --blocks--> parser --parsed--> writer ---> SQLite
                   | one task per slot                                  ^  |
                   v                                                    |  |
                RPC client (limiter, retries)     build_contention_summary, |
                                                  build_candles, backfill   |
                            HTTP API (read-only connections) <--------------+
                                 ^ dashboard
```

| Component | State | Operations | Talks to | Hard behaviour | Correct means |
|---|---|---|---|---|---|
| wiring, `main.rs` | channels, task handles, monitor task | start, join, serve; run again | all stages, by channels | shutdown by dropped senders; crash and re-run | ingestion ends unattended; a complete run has accounted for every slot |
| slot walker, `pipeline/slot_walker.rs` | loop variable | send each slot | slots channel | inclusive range, bounded channel | every slot exactly once |
| fetcher, `pipeline/fetcher.rs` | semaphore, JoinSet | receive, acquire, spawn; task: get_block, send, drop permit; join | RPC client, blocks channel | tasks finish in any order, permits held across a blocked send | bounded raw blocks; no task lost at shutdown |
| parser, `pipeline/parser.rs` | the block in hand | parse or reject, send | parsed channel, stderr | rejected blocks, a stage that dies | a row for every parsable block, a line for every other |
| writer, `pipeline/writer.rs` | the block in hand, connection | one transaction per block | SQLite, stderr | failing commit, crash, re-run over old rows | all or nothing per block, idempotent |
| RPC client, `rpc.rs` | limiter cells; per call: attempt | wait, request, classify, back off | provider | concurrent calls and retries share the limiter | one final outcome per call; retry exactly what can change |
| scheduler, `contention.rs` | steps, events | `schedule_block` | - | sets per step stand for pairwise conflicts | conflict-free, first-fit, exact attribution |
| report, `contention.rs`, `bin/build_contention_summary.rs` | report, 3 summary tables | build, store | SQLite, API | minutes of reads during ingestion; torn reads | the tables are one report of one state |
| candles, `ohlcv.rs`, `bin/build_candles.rs` | trades, candle table | extract, group, upsert | SQLite, API | grouping of sorted rows, stale candles, overflow | at most one trade per transaction; candles of the stored trades |
| backfill, `bin/backfill_order.rs` | slot list | fetch signatures, update `tx_index` | RPC client, SQLite | partial failure, races with ingestion | positions as in the block |
| API, `api.rs` | - | three queries, two experiment routes | SQLite, tokio workers | a handler that never yields | consistent answers; responsive while ingesting |
| dashboard, `dashboard/app.js` | selection, chart | load tokens, candles, contention | API | answers out of order | the chart is of the selected token |
| database, `db.rs`, `schema/` | tables | open, init | all | WAL, foreign keys | - |
| measuring, `bin/profile_contention.rs`, `bin/starvation_experiment.rs` | - | - | - | - | - |

The hazards of each part, with their lines and the properties aimed at them, are
listed in `PROJECT.json`.

## 2. Modules

| Module | Models | Kind |
|---|---|---|
| `Pipeline` | `main.rs`, `pipeline/*.rs`: walker, fetcher with its tasks, parser, writer, the channel monitor, the bounded channels between them, shutdown, panics of a task, crash and re-run | component |
| `SlotLedger` | what ingestion promises about a range of slots: stored by one commit, or reported, or dropped; rows are never rewritten | abstract specification of `Pipeline`, and of `write_block` in `BlockStore` |
| `BlockStore` | `parse_block`, `parse_transaction`, `parse_token_balances`, `write_block` by statement and row, `bin/backfill_order.rs` beside it | composition of parser, writer and backfill over `Sqlite` |
| `RpcClient` | `rpc.rs`: concurrent `get_block` calls sharing the limiter | component |
| `BlockFetch` | one final outcome per call | abstract specification of `RpcClient`; the pipeline uses it as its action `RpcAnswers` |
| `LockSchedule` | `schedule_block` of `contention.rs`, one action per turn of its inner loop | algorithm |
| `Sqlite` | the database as the code uses it: one writer at a time, drafts invisible until the commit, reads of the last committed state | library |
| `ContentionSummary` | `write_block` by statement, `build_range_report`, `store_range_report`, `get_contention`, interleaved | composition of writer, builder and API over `Sqlite` |
| `Ohlcv` | `ohlcv.rs`, `bin/build_candles.rs`: trades from sorted rows, candles, rebuilds beside `write_block` and `bin/backfill_order.rs` | component |
| `ApiRuntime` | the workers and the blocking pool of the process: handlers with `spawn_db`, `get_contention_naive`, tasks of ingestion | component, the part of `Dashboard` that says who may run |
| `Dashboard` | `dashboard/app.js`: `loadTokens`, `loadOhlcv`, both selects, with the handlers `get_tokens` and `get_ohlcv` behind them | composition of page, API and database over `ApiRuntime` |
| `MCPipeline`, `MCRpcClient`, `MCLockSchedule`, `MCContentionSummary`, `MCOhlcv`, `MCBlockStore`, `MCDashboard` | values of constants for TLC | |
| `PipelineProofs`, `RpcClientProofs`, `LockScheduleProofs`, `ContentionSummaryProofs`, `BlockStoreProofs`, `OhlcvProofs`, `DashboardProofs` | theorems | |
| `SetFacts` | lemmas the proofs share: finite sets, sums, orders and sorted lists | library |

### Pipeline

State and code:

- `next` is the variable of `for slot in start..=end`; `slotsCh`, `blocksCh`,
  `parsedCh` are the three tokio channels. A receiver that is gone drops what is
  queued, as tokio does, so a stage's last action empties its channel.
- `task[s]` is what the fetcher does with slot `s`: `permit` (the fetcher itself
  waits in `acquire_owned`), `rpc` (spawned, in `get_block`), `sending` (in
  `blocks_tx.send`, the permit still held), `done`.
- `outcome[s]` is the payload of a channel entry. A slot number stands for the
  message because the walker emits each slot once in a run.
- `parsing`, `writing` are the block in the parser's and the writer's hands.
- `alive[g]`: the tokio task (for the writer, the blocking thread) of stage `g`
  has not ended.
- `probed`: the channel monitor runs and holds its clones of both senders, so no
  closing of a channel can be seen. It may be off from the start
  (`MONITOR_CHANNELS`), and `MonitorPanics` ends it.
- `blocks`, `txSlots` are the database, by slot: its row in `blocks` (with
  `skipped`), and whether its transactions are there. They are all that survives
  `Restart`.
- `fate[s]` is a history variable: how the journey of `s` ended in this run.
  `stored` at a commit, `reported` at an `eprintln!` naming the slot, `dropped`
  when it vanished with a stage that died.

`FetcherRecv` to `FetcherExit` are the loop and the spawned task of `fetcher::run`;
`ParserRecv` covers receive and `parse_block` (no await between them);
`WriterCommit` is `write_block` with everything up to `tx.commit()`, which is atomic
for readers and crashes by SQLite's transaction. `ParserPanics`, `WriterPanics` and
`PausePanics` are the `eprintln!` that panics when stderr is closed: the panic ends
that task only, `join!` collects the error and main ignores it. `panicked`, which is
history, says that one has happened in this run. The error branches `TaskSendFails`
and `ParserSendFails` can be reached in this way only, and the one in the walker not
at all (the fetcher keeps its receiver until the walker is done), so it has no
action.

The environment: `Answers[s]` is the set of outcomes the RPC may return for slot
`s`, `Malformed` being a block that `parse_block` rejects; `WriteMayFail` lets
any commit fail (disk, `SQLITE_BUSY`); `StderrMayFail`; `Restart` is a crash at
any point or a second run by the operator, at most `MaxRuns` runs in all
(a bound for TLC; the theorems hold for every `MaxRuns`).

Left out: the wording of reports. The pause of `PAUSE_AFTER_BLOCKS` has no action of
its own, since the writer may be slow at any time; its two lines on stderr are
`PausePanics`.

### RpcClient

`phase[c]` is where the loop of `get_block_with_params` is: waiting for the
limiter, waiting for a reply, backing off, or the outcome it returned.
`attempt[c]` is the code's counter. `last` and `sent` are history variables.
`cells` is the state of governor's limiter, as `Quota::per_second(n)` makes it:
`n` cells, one regained every 1/n second, which is the length of a `Tick`.
`window` counts the requests of the last second, tick by tick. The replies are
what `try_get_block` distinguishes. A backoff is random from zero to a capped
exponential, so `Wake` may happen at once or after any number of ticks.

### LockSchedule

A transaction is the set of accounts it writes and the set it only reads
(`account_locks` has one row per transaction and account). `cur` and `probe` are
the two loop variables; `Reject`, `Place` and `Open` are the three ways a turn
ends. `steps[k]` is `StepState`, with transaction numbers for signatures, and
`conflicts` holds the recorded events, with the transaction and the step that
`ConflictEvent` leaves out. Signatures are distinct (primary key), so a set of
numbers loses only the order inside a step, which is placement order.

### ContentionSummary

`disk` holds the committed tables, `draft` what the open transaction has made of
them, `owner` the write lock. Rows are abstracted to slots: `disk.blocks` (rows with
`skipped = 0`), `disk.txns` and `disk.locks` (all rows of the slot's transactions
and locks), `disk.summary` (the three `contention_*` tables). A conflict count is
abstracted to the multiset of slots whose events it sums, so it is right exactly
when every listed slot is in it once. `writer` is the next statement of
`write_block`, `builder` and `reader` are the program counters of
`build_contention_summary` and `get_contention`; `todo` is the slot list of
`build_range_report`, `seen` the first of the two SELECTs of
`load_block_transactions`, `report` the report so far, `page` the response so far;
the first four are per process of `build_contention_summary`, of which any number
may run (`Builders`). The three DELETEs are one statement, and so are the INSERTs of
a table: nobody can see in between. A lock that stays taken for longer than the busy
timeout is an error that changes nothing (`write_block` reports it, the build ends),
which is the behaviour in which the action is never taken. Every statement may also
fail (`WriteFails`, `BuildFails`), which stands for a killed process too. `known` is
history: the blocks of the summary when a build began. Of two builds that overlap,
the one that began first may store last; it keeps what it found, and what the other
added meanwhile is gone until the next build.

### Ohlcv

`balance` is what the chain holds: each row of `token_balances`, as the change of
one mint. `stored` are the committed blocks, `index` the column `tx_index`.
`ExtractTrades` is the one SELECT with `trades_from_rows` and `build_candles`, all
from one snapshot. `StoreOneMinute` and `StoreFiveMinutes` are the transaction of
upserts, in the order of `one_min.iter().chain(..)`: the first leaves its rows in
`draft` and holds the write lock (`Locked`), the second commits. `BuildFails` is an
error or a kill at either place, which leaves nothing. Blocks may be written and the
backfill may run between the SELECT and the transaction. `read`, `kept` and the
field `tx` of a trade are history. The reference `ChainTrades` knows neither the
sorting nor the grouping. A price is an exact ratio, as a multiple of
1/`PriceScale`, where the code has an `f64`; amounts are parsed already. `Unindexed`
are blocks stored before the column existed, whose transactions have position -1
until a backfill succeeds. In `ohlcv` such a block has one transaction, so its rows
cannot be cut; `unknown_order` shows what happens with two.

### BlockStore

`disk` and `draft` are the tables of `Sqlite`, here with their rows: the primary
keys, the columns the program reads back (`skipped`, `slot`, `tx_index`, `mint`,
the two amounts, `is_writable`) and no others. `block` is the `ParsedBlock` in the
writer's hands and `left` what is left of its loop over the transactions;
`writer` is the next statement. `Parse` is the parser: `TxIndex` counts positions
in the block as fetched, `parsed` are the transactions whose shape
`parse_transaction` accepts; those in `Undecodable` may be dropped from any
response, without a line on stderr. `Balances` is `parse_token_balances`: the
accounts of either side, with 0 on the side that lacks them. `InsertOrIgnore`
compares primary keys with the rows that are there. The lock rows and the balance
rows of one transaction are one step each: nobody can see the draft between two
of them, and a failure in the middle rolls back the same.

`ListSlots` to `BackfillFails` are `backfill_order`: one list of slots with
`skipped = 0`, read once; per slot a fetch that may give nothing, then a
transaction of updates. It may run again and again, while ingestion writes. Its
positions count signatures; an entry of the answer that is no string would
shift them, which no provider sends and the model does not have.

`StoreAssumption` says of the chain what Solana guarantees (signatures are unique, a
transaction names an account once), and one thing more: every block has a
transaction of a shape that `parse_transaction` accepts. The parser would store a
block without one as well, its row with no transactions; `SlotLedger` names a slot
that has transactions by `txSlots` and could not tell such a slot from a skipped one.

`Unindexed` are blocks that an earlier version of the schema may have left, with
`tx_index = -1` (`OldTables`), or first as skipped and later with transactions.
Three facts of the code show here. Ingesting such a block again does not give it
positions, because the insert ignores rows that exist. A row that wrongly says
`skipped` hides its transactions from the backfill too; `BackfillComplete`
names this exception. And a transaction in which an account is given another
mint has one row with the mint of afterwards and the amounts of both;
`DeltasExact` excludes that by `KeepsMints`.

### ApiRuntime and Dashboard

`phase[r]` is how far a request is: sent (`ready`), its closure on a thread of the
pool (`pool`), the closure finished (`woken`), answered (`done`), or `computing`,
which means the handler holds a worker until it ends. Every step a worker takes
needs `WorkerFree`; a poll is short, and only a handler that computes inline
stays. `Light` requests are the page's, `Heavy` is the experiment's route through
`spawn_blocking`, `Naive` the one without. `ingesting` counts the polls ingestion
still needs; what they do is `Pipeline`'s. The pool has a thread for every closure:
tokio allows 512, and the model does not ask what happens when so many reports
compute at once.

`Dashboard` puts the page on top. `traded` and `candles` are the database as the
two queries see it; `Trade` and `BuildCandles` are `write_block` and the candle
build reduced to that. `Read(r)` is the SELECT of a handler, at a moment of its
own, or an error; `On...` is the answer and what the page does with it. An answer
is handled in the step that sends it: an answer that travels is a request still
under way. `First` is `ORDER BY has_candles DESC`, with any of the best in front;
a mint without candles may be in the list too.

`loadOhlcv` does not check whether its answer is still wanted (`app.js:41`): an
answer overtaken by a later one overwrites the chart, and after an error the
chart of the previous selection stays. `ChartFollowsSelection` says what the page
guarantees beside that: when the last answer shown is the newest load's, chart
and note belong to what is selected.

## 3. Runs

| Run | Question | Bounds | Result |
|---|---|---|---|
| `pipeline_failures` | Does any hand-over lose or duplicate a slot when fetches, parses and writes fail and tasks die, with the monitor or without? Does shutdown reach every stage, and does a complete run account for every slot? Is the ledger respected over a re-run? | 3 slots, 2 permits, channels of 1, 2 runs, any answer (of `Failed` and `Malformed`, which the parser treats alike, one per slot), failing writes, panics | passes |
| `pipeline_crash` | How far ahead of the database can the walker get, and how many raw blocks can wait? Does one complete run repair everything after crashes, with no slot unaccounted for? | 9 slots, more than all the buffers hold (2*1+1+2+3 = 8), 3 runs, truthful RPC | passes; with either bound lowered by one it is violated, so both are exact |
| `provider_gap` | Is a slot recorded as skipped free of transactions? | 1 slot, 2 runs | violated, finding 1 |
| `rpc_retries` | Retries, classification, one outcome per call, what the limiter guarantees | 2 calls, 2 retries, quota 2 | passes |
| `rpc_burst` | Is the quota a cap on the requests of any second? | 2 calls, quota 2 | violated, finding 2 |
| `lock_schedule` | Do schedule and events agree with the pairwise definition of a conflict? | all blocks of up to 3 transactions over 3 accounts | passes |
| `summary_build` | Do the summary tables hold one report of whole blocks, whatever overlaps, fails or dies? Can a rebuild lose a block? | 2 slots, 2 builders (interchangeable, symmetry), any number of builds, re-writes and requests | passes |
| `summary_response` | Is a response one report? | 2 slots | violated, finding 3 |
| `ohlcv` | Does cutting sorted rows into groups find the trades of the transactions' net balances? After any rebuild, is the table what a build from nothing gives, and do the two intervals agree? | 5 transactions in 4 blocks, 11 rows, 2 short buckets in a long one and a second long one | passes |
| `unknown_order` | Does a transaction give at most one trade while positions are unknown? | 2 transactions, 5 rows | violated, finding 4 |
| `block_store` | Is a block stored whole or not at all, statement by statement? Do parser and backfill agree on positions, and is the backfill's "done" true? Do the rows of a transaction add up to what it moved? Is `write_block` the one step that `SlotLedger` has? | blocks of 3 and of 1 transaction, 6 histories of balances, rows of an earlier version or none, 2 runs, any number of backfills | passes |
| `dashboard` | Does the chart belong to the selection when the answer shown last is the newest load's, whatever came before it? Is the first chart filled? Is every request answered and ingestion finished beside reports? | 2 mints, 2 intervals, 2 loads, 1 report in the pool, 2 inline, 2 workers | passes |

Why the bounds suffice. With channels of length 1 every send can block and every
channel can be full; two permits give two tasks that overtake each other; three
slots put one slot in each of three consecutive places, and nine overfill a
stalled pipeline. A crash matters by what it leaves in the tables and which
stage it hits, both covered by two crashes. In `rpc_retries` the limiter can be
empty while one call retries, and both calls can be at their last attempt. In
`lock_schedule` three transactions make a step with two members, a transaction
that passes one step and one that passes two, and a later transaction that lands
before an earlier one. In `summary_build` two slots put one block into the old
summary and one into the writer's hands or another build's report, and two builders
overlap in every order. In `ohlcv`
the first transaction's three rows hold two tokens and wrapped SOL, or changes
that cancel, and the amounts lie on both sides of the dust floor and the round
unit; a bucket has two transactions of one block, the long bucket around it
another one of a later block, and rebuilds find them in every order. In
`block_store` the block of three can lose its first or a later transaction to
its shape, so counting before and after the filter differ; the histories have
accounts that only one side knows, two mints, and an account given another
mint. In `dashboard` two inline reports on two workers are just enough to starve
the page, and two loads to overtake each other. The theorems below remove the
bounds from the safety properties of all components.

Fairness. `FairSpec` asks for weak fairness of `Progress` as a whole: as long as
some stage can move, some stage moves. tokio runs ready tasks as long as a worker
is free, `get_block`
returns because a request has a timeout of 30 s and retries are bounded
(`FetchSpec` in `rpc_retries`), and SQLite calls return. Nothing is assumed of
`Restart`, whose number is bounded, nor of `Serve` and `MonitorSample`. In
`RpcClient`, time passes, each request ends and each sleep ends; a call that
waits for the limiter is served when cells remain available to it
(`WF` on `Send(c)`). In `Dashboard` a ready task is polled while workers
remain free and a SELECT of the page ends (`WF` on `Ingest` and on `Serve(r)` for each
request of the page). Nothing is assumed of reports, builds and the user: a report
may compute for ever. So a behaviour in which inline reports hold all workers
again and again (`[]<>Starved`) owes nothing, which is what the experiment
measures; `Responsive` promises an answer in all others.

## 4. Findings

1. **A slot once recorded as skipped stays skipped** (`pipeline/writer.rs:44`).
   The provider's answer also covers slots that are "missing in long-term
   storage". When a later run fetches the block, its transactions are inserted
   and the row keeps `skipped = 1`, which hides them from contention, candles and
   the backfill.
2. **The limiter is a rate, not a cap** (`rpc.rs:61`). Up to one request less than
   twice the quota can be sent within one second after a pause (`TwiceTheQuota`).
   What holds is `BurstBound`.
3. **A response can mix two reports** (`api.rs:135`). The three SELECTs of
   `get_contention` each see their own snapshot; a rebuild that commits in between
   gives the blocks of one report with the counts of the other.
4. **One transaction, two trades** (`ohlcv.rs:82`). While the positions of a
   block's transactions are unknown (`tx_index = -1`) their rows alternate in the
   sorted result, a transaction is cut into several groups and each may pass as
   a trade. A rebuild after the backfill no longer finds the extra trades
   (`RebuildRepairs`); a
   candle that only they made stays, since the table is only upserted.

A fact to know that contradicts no document: with `MONITOR_CHANNELS` on, ingestion
does not finish (`main.rs:66`). The probe task holds clones of both senders for
ever, so parser and writer never see a closed channel and `join!` never returns.
All slots are settled all the same (`AllSettled`); `Finishes` reads
`<>[](Complete \/ probed)` for this reason.

## 5. Theorems

`PipelineProofs` (assumption `PipelineAssumption`: types of the constants, and
`StartSlot <= EndSlot + 1`, under which an empty range has one representation):

- `TypeCorrect`: `TypeOK`, inductive as it stands.
- `SlotsConserved`: `OneHolder`, inductive with `TypeOK`. Each action moves a slot
  between two places; the lemmas on `Range` of `Append` and `Tail` of a queue
  without repetitions carry the argument.
- `NothingLost`: only a panic loses a slot. `EmptyHanded` says
  that a stage that has ended holds nothing and that its input is empty, `InTurn` that
  in a run without a panic the stages end one after the other and no slot is dropped;
  `OneHolder` then leaves only `stored` and `reported` when all stages have
  ended. Nothing is assumed of stderr or of writes.
- `RawBlocksStayBounded`, `BackpressureHolds`: `PermitsBounded` (permits in use
  never exceed the semaphore, and at most one slot waits for one) and
  `OneHolder`; the slots on their way are covered by the places of the pipeline,
  and each place is bounded.
- `ImplementsLedger`: `Spec => LedgerSpec`. Every step is a `Store`, `Report`,
  `Drop`, `Restart` or a stutter of the ledger, by `OneHolder` (what a stage holds
  is unsettled) and `OnlyParsable` (a malformed or failed block never reaches the
  writer).
- `CompleteRunsStoreAll`: with a truthful RPC, working writes and stderr (so no
  stage panics, `NoPanic`), a complete run stores every slot, after any number of
  crashes. `Faithful`: every row that exists is the right one, and a slot stored in
  this run has its row.

`RpcClientProofs`: `RetriesJustified` (invariant `Bookkeeping`, which ties `sent` to
`attempt` and `phase`), `ReturnsOnce` (the safety half of `FetchSpec`), `RpcTyped`.
`BurstBounded`: the bound on one second alone is not inductive, because a tick drops
the oldest part of the window, of which it says nothing. `BurstBound` speaks of
every span of `k` ticks up to a second, and is: a request takes a cell and is in
every span, and after a tick the span of `k` is the span of `k - 1` before it, with
at most one cell more; the span of one tick is then empty. Its last instance is
`TwiceTheQuota`, which bounds what finding 2 shows.

`LockScheduleProofs`, for blocks of any length up to `MaxTxns`, which is any natural
number, over any accounts: `StepsConflictFree`, `PlacementIsFirstFit`,
`AttributionIsExact`, `ScheduleTyped`. The invariant needs `SetsExact`: `written`
and `touched` of a step are exactly the unions over its members, which makes the set
test of `conflicting_locks` equal to the pairwise definition.

`ContentionSummaryProofs`, for any set of slots and any number of builds at a
time: `SummaryTyped`,
`SummaryIsOneReport`, `SummaryNeverShrinks`. The invariant says what the two open
drafts contain (`WriterDraft`, `BuilderDraft`), that committed blocks are whole
(`Whole`), and that the report so far is exact and, with the slots left to read,
covers the summary its build found (`Building`).

`BlockStoreProofs`, for every chain, every set of old and of undecodable rows and
any number of runs (`StoreAssumption`): `StoreTyped`, `BlocksWhole`,
`PositionsAreExact`, `BackfillIsComplete`, `StoreImplementsLedger`. The properties are
not inductive, because a commit makes the draft public in one step. The invariant
says of the draft what holds before each statement: what the writer has added to
the committed tables so far and for which transactions (`WriterDraft`), that it added
to them and changed nothing (`Added`), that a backfill's draft differs in
positions only (`BackfillDraft`), and which blocks the backfill has behind it
(`Ahead`). Soundness of the rows (`Sound`, `Exact`) is kept for disk and draft alike,
by one lemma on `InsertOrIgnore`. `Added` is what makes a commit a step of `SlotLedger`:
no row that was there is changed. `DeltasAreExact` follows from the same invariant
(the rows of a stored transaction are `Balances` of it, no more and no fewer) and from
the sums of `SetFacts`: rows and accounts are one to one, the accounts that only one
side knows count as zero on the other, and a difference of sums is the sum of the
differences.

`OhlcvProofs`, for any chain, any finite set of rows with any integer changes, any order
of commits, backfills, builds and failures (`OhlcvAssumption`: finitely many
transactions, one per position of a block, `Long` a multiple of `Short`). The
argument has three parts.

- From rows to trades. `RowsGiveChain`: in the sorted rows those of a transaction
  follow one another (`Between`), so a group is a whole transaction (`GroupIs`), and
  the groups come in the order of the chain. Two lists of one set in one order are
  equal (`ListUnique`), which is how the result of sorting and cutting is compared
  with `ChainTrades`, which sorts transactions and cuts nothing.
- From trades to candles. `CandleUnfold` says what the sorting inside a candle gives,
  and `ChainCandles` that sequences of trades that differ in the positions of lone
  transactions give the same candles.
- Over time. `TypeCorrect` needs `Types`: candles are sound because the trades a build
  holds are. `TradesFound`, `OneTradeEach` and `TableCurrent` need `Exact`: a build holds
  the trades of the blocks it read, it read at least the blocks behind the table,
  the table has the candles of those, and the draft has the new 1m candles over them.
  Then the upserts leave nothing old behind: the trades of more blocks have every key
  that those of fewer have (`CandlesGrow`), and the two intervals together are all the
  candles (`TwoIntervals`).

They have a hypothesis on the constants, `KnownOrder`: a block stored without positions
has one transaction. The constants of `ohlcv` satisfy it and those of `unknown_order` do
not, which is finding 4. `RebuildRepairs` needs no such hypothesis: a build that
starts when the positions are known (`PositionsKnown`, which the backfill brings about)
finds exactly the trades of the chain, whatever earlier builds found. What an earlier
build left in the table is another matter (finding 4).

`IntervalsAgree` has the hypothesis `TimesRise` besides: block times do not fall as slots
rise. It is a fact about the chain that the code does not check, and the
constants of `ohlcv` satisfy it. A candle sorts by slot and buckets by time; were times
to fall, a 5m candle could open in its second 1m candle. The proof cuts the trades of a
long bucket into short ones (`BucketsNest`, `PartsOf`), and puts prices
(`MergeEnds`, `MergePrices`) and volumes (`MergeVolumes`) together again.

`SetFacts` holds what these proofs share. Sums are folds, whose value for every set is an
induction over data; an induction theorem with an operator as parameter cannot be
used, so a property of sets is given as the set of those that have it, and the
induction becomes a smallest counterexample (`WFMin` and cardinalities). From it follow
that a term can be taken out of a sum, that equal terms give equal sums, that a sum
over groups is the sum of all, and that the list sorted by `CHOOSE` on ranks lists the
set in its order (`Listed`).

`DashboardProofs`, for any numbers of tokens, intervals, loads, other requests and
workers: `DashboardTyped`, `ChartIsOfSelection`, `FirstChartHasBars`. The invariant
carries a fact from one read of the database to a later one: a token's
candles come for all intervals at once (`EveryInterval`), so the first token of
a list that was read (`ListRead`) has candles whatever interval is selected when its
chart is asked for (`Asked`), and still has them when the chart is read, since rows are
never deleted. `Asked` also ties the newest load to the selection, and `Shown` the
chart to the load shown last.

Model-checked only: `Finishes`, `AllSettled`, `Responsive` and the liveness half of
`FetchSpec` (liveness under fairness is out of the prover's reach). Every invariant of a
passing run is a theorem.

## 6. Not modelled, and what is left of the plan

1. `ContentionSummary` with `LockSchedule` in the place of `Counted`.
2. Two candle builds at a time, candles that no rebuild finds any more as a
   property of their own, and the width of the integers in `trade_from_group`.
3. `Pipeline` with `RpcClient` in the place of `RpcAnswers`; until then the link is
   that both are stated against `BlockFetch`.

Not modelled, and why. The profiling and experiment binaries measure and keep no
state. Of JSON, only whether a shape is accepted or rejected; of HTTP and HTML,
that an answer comes or an error does. `from` and `to` of `get_contention` filter one SELECT
and `limit` shortens the list of a report, neither reads nor writes anything more.
`loadContention` runs once per page and draws one response, whose reads are those
of `ContentionSummary`. Reading the environment: `SKIP_INGESTION` is a choice in
`RuntimeInit`, the rest are constants.
