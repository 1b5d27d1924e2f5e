------------------------------- MODULE Ohlcv -------------------------------
(***************************************************************************)
(* ohlcv.rs and bin/build_candles.rs: trades inferred from the token       *)
(* balances of the stored blocks, and the candles kept of them, beside     *)
(* ingestion and bin/backfill_order.rs.                                    *)
(***************************************************************************)
EXTENDS Integers, SequencesExt

CONSTANTS Slots,       \* slots the chain has a block for
          SlotOf,      \* transaction -> its slot
          Position,    \* transaction -> its position in the block
          Balances,    \* what the chain may hold: functions from rows
                       \*   <<transaction, account_index>> to [mint, delta]
          Time,        \* slot -> block_time
          Untimed,     \* slots with skipped = 1 or a NULL block_time
          Unindexed,   \* slots stored before the column tx_index
          WSOL,        \* the mint of wrapped SOL
          Dust,        \* DUST_THRESHOLD_LAMPORTS
          Unit,        \* mint -> raw amount of a million tokens, at its decimals
          Short, Long, \* seconds of a 1m and of a 5m candle
          PriceScale   \* prices are multiples of 1/PriceScale

Txs == DOMAIN SlotOf
Mints == DOMAIN Unit

ASSUME OhlcvAssumption ==
  /\ Slots \subseteq Nat
  /\ IsFiniteSet(Txs)
  /\ SlotOf \in [Txs -> Slots] /\ Position \in [Txs -> Nat]
  /\ \A t, u \in Txs : SlotOf[t] = SlotOf[u] /\ Position[t] = Position[u] => t = u
  /\ \A b \in Balances : /\ IsFiniteSet(DOMAIN b) /\ DOMAIN b \subseteq Txs \X Nat
                         /\ \A r \in DOMAIN b : b[r].delta \in Int
  /\ Time \in [Slots -> Nat]
  /\ Unindexed \subseteq Slots /\ Untimed \subseteq Slots
  /\ WSOL \notin Mints
  /\ {Short, Long, PriceScale} \subseteq Nat \ {0} /\ Long % Short = 0

VARIABLES balance, \* row -> the change it records
          stored,  \* slots whose blocks are committed
          index,   \* transaction -> tx_index, -1 for unknown
          phase,   \* build_candles: "idle", "built" between SELECT and store,
                   \*   "storing" inside the transaction of upserts
          read,    \* history: the slots that SELECT saw
          trades,  \* the trades it inferred; field tx is history
          table,   \* ohlcv_candles: <<mint, interval, bucket_start>> -> candle
          draft,   \* the table as the open transaction has it
          kept     \* history: the slots behind the candles in the table

chain == <<balance, stored, index>>
build == <<phase, read, trades, table, draft, kept>>
vars == <<chain, build>>

----------------------------------------------------------------------------
(* From rows to trades.                                                    *)

(* S in the order lt.  The library's SetToSortSeq looks through all         *)
(* sequences over S, too many for the rows of a few blocks.                *)
InOrder(S, lt(_, _)) ==
  [n \in 1 .. Cardinality(S) |->
     CHOOSE x \in S : Cardinality({y \in S : lt(y, x)}) = n - 1]

(* Lexicographic order of keys of equal length.                            *)
Before(k, l) ==
  \E i \in DOMAIN k : k[i] < l[i] /\ \A j \in 1 .. i - 1 : k[j] = l[j]

RowsOf(S) == {r \in DOMAIN balance : SlotOf[r[1]] \in S \ Untimed}

(* ORDER BY slot, tx_index, account_index.  Equal keys, which unknown      *)
(* positions give, come in the order in which the outer loop of the join   *)
(* visits transactions.                                                    *)
Unknown == {t \in Txs : index[t] = -1}
Sorted(rows, visit) ==
  LET Visited(t) == IF t \in Unknown THEN visit[t] ELSE 0
      Key(r) == <<SlotOf[r[1]], index[r[1]], r[2], Visited(r[1])>>
  IN  InOrder(rows, LAMBDA r, q : Before(Key(r), Key(q)))

(* mutant: rows of one block taken for rows of one transaction             *)
SameSlot(r, q) == SlotOf[r[1]] = SlotOf[q[1]]
SameGroup(r, q) == r[1] = q[1]

(* Where a group starts, and the rows up to the next start.                *)
Starts(rows) ==
  {i \in DOMAIN rows : i = 1 \/ ~SameGroup(rows[i], rows[i - 1])}
Group(rows, i) ==
  {rows[j] : j \in {k \in i .. Len(rows) : Starts(rows) \cap i + 1 .. k = {}}}

Net(group, mint) ==
  MapThenSumSet(LAMBDA r : balance[r].delta,
                {r \in group : balance[r].mint = mint})

Bases(group) == {m \in Mints : Net(group, m) # 0}

(* mutant: no unsigned_abs                                                 *)
Signed(delta) == delta
Amount(delta) == IF delta < 0 THEN -delta ELSE delta

(* One token moved against wrapped SOL, the other way, neither as dust nor *)
(* by a round million.                                                     *)
IsTrade(group) ==
  LET sol == Net(group, WSOL)
  IN  \E m \in Mints :
        /\ Bases(group) = {m}
        /\ sol # 0 /\ Amount(sol) >= Dust
        /\ (Net(group, m) > 0) # (sol > 0)
        /\ Amount(Net(group, m)) % Unit[m] # 0

Trade(group, tx) ==
  LET m == CHOOSE m \in Mints : Bases(group) = {m}
      base == Amount(Net(group, m))
  IN  [mint |-> m, tx |-> tx, time |-> Time[SlotOf[tx]], slot |-> SlotOf[tx],
       index |-> index[tx], volume |-> base,
       price |-> (Amount(Net(group, WSOL)) * PriceScale) \div base]

TradesFromRows(rows) ==
  LET starts == InOrder({i \in Starts(rows) : IsTrade(Group(rows, i))},
                        LAMBDA i, j : i < j)
  IN  [n \in DOMAIN starts |->
         Trade(Group(rows, starts[n]), rows[starts[n]][1])]
----------------------------------------------------------------------------
(* From trades to candles.                                                 *)

(* mutant: the nearest boundary instead of the one before                  *)
NearestBucket(time, seconds) == ((time + seconds \div 2) \div seconds) * seconds
Bucket(time, seconds) == time - (time % seconds)

(* A candle of the trades at the positions P of ts, P not empty.           *)
Candle(ts, P) ==
  LET Key(i) == <<ts[i].slot, ts[i].index, i>>
      group == InOrder(P, LAMBDA i, j : Before(Key(i), Key(j)))
      prices == {ts[i].price : i \in P}
  IN  [open |-> ts[Head(group)].price, close |-> ts[Last(group)].price,
       high |-> Max(prices), low |-> Min(prices),
       volume |-> MapThenSumSet(LAMBDA i : ts[i].volume, P)]

Candles(ts) ==
  LET Of(t, n) == <<t.mint, n, Bucket(t.time, n)>>
      keys == {Of(ts[i], n) : i \in DOMAIN ts, n \in {Short, Long}}
  IN  [k \in keys |-> Candle(ts, {i \in DOMAIN ts : Of(ts[i], k[2]) = k})]

(* one_min and five_min: the candles of one interval.                      *)
OfInterval(candles, n) ==
  [k \in {l \in DOMAIN candles : l[2] = n} |-> candles[k]]

(* f, and g where f has no value.                                          *)
Over(f, g) ==
  [k \in DOMAIN f \cup DOMAIN g |-> IF k \in DOMAIN f THEN f[k] ELSE g[k]]

(* ON CONFLICT DO UPDATE.                                                  *)
(* mutant: ON CONFLICT DO NOTHING                                          *)
InsertOrIgnore(new, old) == Over(old, new)
Upsert(new, old) == Over(new, old)
----------------------------------------------------------------------------
Init == /\ balance \in Balances
        /\ stored = Unindexed
        /\ index = [t \in Txs |-> IF SlotOf[t] \in Unindexed THEN -1
                                                             ELSE Position[t]]
        /\ phase = "idle" /\ read = {} /\ trades = <<>>
        /\ table = <<>> /\ draft = <<>> /\ kept = {}

(* SQLite has one writer at a time.                                        *)
Locked == phase = "storing"

(* Ingestion commits blocks in any order.                                  *)
WriteBlock(s) == /\ ~Locked /\ s \notin stored
                 /\ stored' = stored \cup {s}
                 /\ UNCHANGED <<balance, index, build>>

(* backfill_order: one transaction per slot; slots whose signatures cannot *)
(* be fetched stay as they are.                                            *)
Backfill(s) ==
  /\ ~Locked /\ s \in stored
  /\ index' = [t \in Txs |-> IF SlotOf[t] = s THEN Position[t] ELSE index[t]]
  /\ UNCHANGED <<balance, stored, build>>

(* extract_trades, by one SELECT, and build_candles.                       *)
ExtractTrades ==
  /\ phase = "idle"
  /\ \E visit \in Bijection(Unknown, 1 .. Cardinality(Unknown)) :
       trades' = TradesFromRows(Sorted(RowsOf(stored), visit))
  /\ phase' = "built" /\ read' = stored
  /\ UNCHANGED <<chain, table, draft, kept>>

(* One transaction: the 1m candles, then the 5m candles and the commit.    *)
(* mutant: no transaction, every upsert commits by itself                  *)
AutoCommit(new) == draft' = new /\ table' = new
Execute(new) == draft' = new /\ UNCHANGED table

StoreOneMinute ==
  /\ phase = "built" /\ phase' = "storing"
  /\ Execute(Upsert(OfInterval(Candles(trades), Short), table))
  /\ UNCHANGED <<chain, read, trades, kept>>

Finish == /\ phase' = "idle" /\ trades' = <<>> /\ read' = {} /\ draft' = <<>>
          /\ UNCHANGED chain

StoreFiveMinutes ==
  /\ phase = "storing"
  /\ table' = Upsert(OfInterval(Candles(trades), Long), draft)
  /\ kept' = read
  /\ Finish

(* An error of a statement or of the commit ends the program, or it dies.  *)
BuildFails == phase # "idle" /\ Finish /\ UNCHANGED <<table, kept>>

Next == \/ \E s \in Slots : WriteBlock(s) \/ Backfill(s)
        \/ ExtractTrades \/ StoreOneMinute \/ StoreFiveMinutes \/ BuildFails

Spec == Init /\ [][Next]_vars
----------------------------------------------------------------------------
(* Reference: the trades of whole transactions, in the order of the chain. *)
ChainTrades(S) ==
  LET RowsIn(t) == {r \in RowsOf(S) : r[1] = t}
      due == {t \in Txs : IsTrade(RowsIn(t))}
      Key(t) == <<SlotOf[t], Position[t]>>
      order == InOrder(due, LAMBDA t, u : Before(Key(t), Key(u)))
  IN  [n \in DOMAIN order |-> Trade(RowsIn(order[n]), order[n])]

CandleType == [open : Nat, close : Nat, high : Nat, low : Nat, volume : Nat]

(* Types: amounts and prices of trades and candles are never negative, and *)
(* a candle's price range holds its first and last price.                  *)
TypeOK ==
  /\ stored \subseteq Slots /\ read \subseteq stored /\ kept \subseteq stored
  /\ index \in [Txs -> Nat \cup {-1}] /\ phase \in {"idle", "built", "storing"}
  /\ \A i \in DOMAIN trades :
       trades[i].price \in Nat /\ trades[i].volume \in Nat \ {0}
  /\ \A candles \in {table, draft} : \A k \in DOMAIN candles :
       LET c == candles[k]
       IN  c \in CandleType /\ {c.open, c.close} \subseteq c.low .. c.high

(* Cutting the sorted rows of all blocks into groups finds the trades that *)
(* the transactions' own net balances make, each once and in the order of  *)
(* the chain, whatever order blocks were committed in (positions known in  *)
(* blocks of several transactions; a backfill may have set them since).    *)
TradesExact ==
  phase # "idle" =>
    LET due == ChainTrades(read)
    IN  /\ Len(trades) = Len(due)
        /\ \A i \in DOMAIN due :
             trades[i] = [due[i] EXCEPT !.index = trades[i].index]

(* trade_from_group's comment: a transaction gives at most one trade.      *)
AtMostOneTrade ==
  \A i, j \in DOMAIN trades : trades[i].tx = trades[j].tx => i = j

(* A rebuild replaces the candles of the one before it completely: the     *)
(* table is what a build of the same blocks into an empty table gives,     *)
(* though rows are only upserted, and a build that fails or dies, half way *)
(* through the upserts too, leaves no trace.                               *)
CandlesCurrent == table = Candles(ChainTrades(kept))

(* The two intervals tell one story: a 5m candle is its 1m candles put     *)
(* together, open from the first, close from the last.                     *)
CandlesMerge ==
  \A k \in {l \in DOMAIN table : l[2] = Long} :
    LET parts == {l \in DOMAIN table : /\ l[1] = k[1] /\ l[2] = Short
                                       /\ l[3] \in k[3] .. k[3] + Long - 1}
        At(b) == table[<<k[1], Short, b>>]
        begins == {l[3] : l \in parts}
    IN  /\ parts # {}
        /\ table[k] =
             [open |-> At(Min(begins)).open, close |-> At(Max(begins)).close,
              high |-> Max({table[l].high : l \in parts}),
              low |-> Min({table[l].low : l \in parts}),
              volume |-> MapThenSumSet(LAMBDA l : table[l].volume, parts)]
=============================================================================
