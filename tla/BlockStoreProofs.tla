-------------------------- MODULE BlockStoreProofs --------------------------
(***************************************************************************)
(* Theorems about BlockStore, for every chain, every choice of answers and *)
(* of rejected transactions, and any number of runs.                       *)
(***************************************************************************)
EXTENDS BlockStore, SetFacts

Tables == {"blocks", "transactions", "account_locks", "token_balances"}

Sound(db) == db = [table \in Tables |-> db[table]] /\ Typed(db)

(* A row knows its position, or waits for the backfill.                    *)
RowExact(r) ==
  \/ \E p \in Positions(r.slot) :
       Chain[r.slot][p] = r.signature /\ r.tx_index = p - 1
  \/ /\ r.tx_index = -1 /\ r.slot \in Unindexed
     /\ \E p \in Positions(r.slot) : Chain[r.slot][p] = r.signature
Exact(db) == \A r \in db.transactions : RowExact(r)

Has(db, t) == \E r \in db.transactions : r.signature = t
Produced(db, s) == \/ [slot |-> s, skipped |-> FALSE] \in db.blocks
                   \/ \E p \in Positions(s) : Has(db, Chain[s][p])
Covers(db, s) ==
  Produced(db, s) => \A p \in Positions(s) \ Undecodable[s] : Has(db, Chain[s][p])

(* A transaction has its block, its locks and its balances, but for the one*)
(* the writer is at.                                                       *)
RowWhole(db, r, locks, balances) ==
  /\ \E b \in db.blocks : b.slot = r.slot
  /\ locks \/ Locks(r.signature) \subseteq db.account_locks
  /\ balances \/ Balances(r.signature) \subseteq db.token_balances

Whole == /\ \A s \in Slots : Covers(disk, s)
         /\ \A r \in disk.transactions : RowWhole(disk, r, FALSE, FALSE)

Control ==
  /\ moved \in Movements
  /\ writer \in {"idle", "block", "transaction", "locks", "balances"}
  /\ writer # "idle" => block.slot \in Slots /\ fate[block.slot] = "open"
  /\ writer \in {"locks", "balances"} => left # {}
  /\ left \subseteq block.parsed
  /\ fate \in [Slots -> {"open", "stored", "reported"}]
  /\ runs \in 1 .. MaxRuns
  /\ backfill \in {"idle", "fetch", "commit", "done"}
  /\ backfill = "commit" => listed # {}
  /\ listed \subseteq Slots /\ missed \subseteq Slots
  /\ owner = IF InTransaction THEN "writer"
             ELSE IF backfill = "commit" THEN "backfill" ELSE "none"
  /\ InTransaction => backfill # "commit"
  /\ backfill = "done" => listed = {}

(* The parsed block.                                                       *)
BlockParsed ==
  writer # "idle" =>
    /\ block.skipped \in BOOLEAN
    /\ block.parsed \subseteq Positions(block.slot)
    /\ ~block.skipped => Positions(block.slot) \ Undecodable[block.slot]
                           \subseteq block.parsed
    /\ block.skipped => block.parsed = {}
    /\ writer = "block" => left = block.parsed

(* What the open transaction of the writer has added so far.               *)
WriterDraft ==
  InTransaction =>
    /\ \A table \in Tables : disk[table] \subseteq draft[table]
    /\ \E b \in draft.blocks : b.slot = block.slot
    /\ \A s \in Slots : s # block.slot \/ block.skipped => Covers(draft, s)
    /\ \A p \in block.parsed \ left : Has(draft, Chain[block.slot][p])
    /\ writer \in {"locks", "balances"} => Has(draft, Current)
    /\ \A r \in draft.transactions :
         RowWhole(draft, r, writer = "locks" /\ r.signature = Current,
                  writer \in {"locks", "balances"} /\ r.signature = Current)
    /\ \A r \in draft.transactions :
         r.tx_index = -1 => r \in disk.transactions

Added ==
  InTransaction =>
    /\ \A b \in draft.blocks :
         \/ b \in disk.blocks
         \/ /\ b = [slot |-> block.slot, skipped |-> block.skipped]
            /\ \A q \in disk.blocks : q.slot # block.slot
    /\ \A r \in draft.transactions :
         \/ r \in disk.transactions
         \/ /\ ~block.skipped
            /\ \E p \in Positions(block.slot) : r.signature = Chain[block.slot][p]

(* .. and that of the backfill.                                            *)
Filled(db, s) == [db EXCEPT !.transactions = {Updated(r, s) : r \in @}]
BackfillDraft == backfill = "commit" => draft = Filled(disk, Min(listed))

(* The backfill has a block still ahead, or has missed it, or never sees it*)
(* while one of its rows lacks a position.                                 *)
Ahead ==
  backfill # "idle" =>
    \A r \in disk.transactions :
      r.tx_index = -1 => \/ r.slot \in listed \cup missed
                         \/ [slot |-> r.slot, skipped |-> TRUE] \in disk.blocks

Inv == /\ Control /\ BlockParsed
       /\ Sound(disk) /\ Sound(draft) /\ Exact(disk) /\ Exact(draft)
       /\ Whole /\ WriterDraft /\ Added /\ BackfillDraft /\ Ahead

-----------------------------------------------------------------------------
(* Facts about the chain and the helpers.                                  *)

LEMMA ChainFacts ==
  ASSUME NEW s \in Slots
  PROVE  /\ Positions(s) \subseteq Nat \ {0}
         /\ \A p \in Positions(s) : Chain[s][p] \in Signatures
         /\ \A p, q \in Positions(s) : Chain[s][p] = Chain[s][q] => p = q
         /\ \A r \in Slots \ {s} : \A p \in Positions(s), q \in Positions(r) :
              Chain[s][p] # Chain[r][q]
         /\ \E p \in Positions(s) : p \notin Undecodable[s]
<1>1. Chain[s] \in Seq(Signatures) /\ IsInjective(Chain[s])
  BY StoreAssumption
<1>2. Positions(s) = 1 .. Len(Chain[s]) /\ Len(Chain[s]) \in Nat
  BY <1>1 DEF Positions
<1>3. \A p, q \in Positions(s) : Chain[s][p] = Chain[s][q] => p = q
  BY <1>1 DEF IsInjective, Positions
<1>4. \A r \in Slots \ {s} : \A p \in Positions(s), q \in Positions(r) :
        Chain[s][p] # Chain[r][q]
  <2> SUFFICES ASSUME NEW r \in Slots \ {s}, NEW p \in Positions(s),
                      NEW q \in Positions(r)
               PROVE  Chain[s][p] # Chain[r][q]
    OBVIOUS
  <2>1. Chain[s][p] \in Range(Chain[s]) /\ Chain[r][q] \in Range(Chain[r])
    BY DEF Range, Positions
  <2>2. Range(Chain[s]) \cap Range(Chain[r]) = {}
    BY StoreAssumption
  <2> QED BY <2>1, <2>2
<1>5. \A p \in Positions(s) : Chain[s][p] \in Signatures
  BY DEF Signatures, Range, Positions
<1>6. \E p \in Positions(s) : p \notin Undecodable[s]
  BY StoreAssumption
<1> QED BY <1>2, <1>3, <1>4, <1>5, <1>6

LEMMA KeyFacts ==
  /\ DOMAIN PrimaryKey = Tables
  /\ \A q, r : Clash("blocks", q, r) <=> q.slot = r.slot
  /\ \A q, r : Clash("transactions", q, r) <=> q.signature = r.signature
  /\ \A q, r : Clash("account_locks", q, r)
       <=> q.signature = r.signature /\ q.account_pubkey = r.account_pubkey
  /\ \A q, r : Clash("token_balances", q, r)
       <=> q.signature = r.signature /\ q.account_index = r.account_index
BY DEF PrimaryKey, Tables, Clash

(* The rows of one transaction have different keys.                        *)
LEMMA LockKeys ==
  ASSUME NEW t \in Signatures, NEW q \in Locks(t), NEW r \in Locks(t)
  PROVE  q.signature = t /\ (q.account_pubkey = r.account_pubkey => q = r)
<1>1. PICK j \in Keys[t] : q = [signature |-> t, account_pubkey |-> j.account_pubkey,
                                is_writable |-> j.is_writable]
  BY DEF Locks
<1>2. PICK k \in Keys[t] : r = [signature |-> t, account_pubkey |-> k.account_pubkey,
                                is_writable |-> k.is_writable]
  BY DEF Locks
<1>3. \A i, l \in Keys[t] : i.account_pubkey = l.account_pubkey => i = l
  BY StoreAssumption
<1>4. q.account_pubkey = r.account_pubkey => j = k
  BY <1>1, <1>2, <1>3
<1> QED BY <1>1, <1>2, <1>4

LEMMA BalanceKeys ==
  ASSUME NEW t \in Signatures, NEW q \in Balances(t), NEW r \in Balances(t)
  PROVE  q.signature = t /\ (q.account_index = r.account_index => q = r)
<1>1. PICK a \in Indices(t) : q = BalanceRow(t, a)
  BY DEF Balances
<1>2. PICK b \in Indices(t) : r = BalanceRow(t, b)
  BY DEF Balances
<1>3. \A c : BalanceRow(t, c).signature = t /\ BalanceRow(t, c).account_index = c
  BY DEF BalanceRow
<1> QED BY <1>1, <1>2, <1>3

-----------------------------------------------------------------------------
(* INSERT OR IGNORE.                                                       *)

LEMMA InsertLaw ==
  ASSUME NEW db, Sound(db), NEW table \in Tables, NEW rows
  PROVE  /\ InsertOrIgnore(db, table, rows)
              = [t \in Tables |-> InsertOrIgnore(db, table, rows)[t]]
         /\ \A t \in Tables \ {table} : InsertOrIgnore(db, table, rows)[t] = db[t]
         /\ InsertOrIgnore(db, table, rows)[table]
              = db[table] \cup {r \in rows : \A q \in db[table] : ~Clash(table, q, r)}
BY DEF Sound, InsertOrIgnore

LEMMA InsertSound ==
  ASSUME NEW db, Sound(db), NEW table \in Tables, NEW rows,
         rows \subseteq Rows[table],
         \A q, r \in rows : Clash(table, q, r) => q = r
  PROVE  Sound(InsertOrIgnore(db, table, rows))
<1> DEFINE new == InsertOrIgnore(db, table, rows)
<1>1. /\ new = [t \in Tables |-> new[t]]
      /\ \A t \in Tables \ {table} : new[t] = db[t]
      /\ new[table] = db[table] \cup {r \in rows : \A q \in db[table] : ~Clash(table, q, r)}
  BY InsertLaw
<1>2. \A q, r : Clash(table, q, r) <=> Clash(table, r, q)
  BY DEF Clash
<1> HIDE DEF new
<1>3. \A t \in Tables : /\ new[t] \subseteq Rows[t]
                        /\ \A q, r \in new[t] : Clash(t, q, r) => q = r
  <2>1. ASSUME NEW t \in Tables, t # table
        PROVE  /\ new[t] \subseteq Rows[t]
               /\ \A q, r \in new[t] : Clash(t, q, r) => q = r
    BY <1>1, <2>1, KeyFacts DEF Sound, Typed
  <2>2. db[table] \subseteq Rows[table] /\ \A q, r \in db[table] : Clash(table, q, r) => q = r
    BY KeyFacts DEF Sound, Typed
  <2>3. new[table] \subseteq Rows[table]
    BY <1>1, <2>2
  <2>4. \A q, r \in new[table] : Clash(table, q, r) => q = r
    BY <1>1, <1>2, <2>2
  <2> QED BY <2>1, <2>3, <2>4
<1>4. Sound(new)
  BY <1>1, <1>3, KeyFacts DEF Sound, Typed
<1> QED BY <1>4 DEF new

(* A row with the key of an inserted row is there afterwards.              *)
LEMMA InsertHas ==
  ASSUME NEW db, Sound(db), NEW table \in Tables, NEW rows, NEW r \in rows
  PROVE  \E q \in InsertOrIgnore(db, table, rows)[table] : Clash(table, q, r)
<1>1. InsertOrIgnore(db, table, rows)[table]
        = db[table] \cup {x \in rows : \A q \in db[table] : ~Clash(table, q, x)}
  BY InsertLaw
<1>2. Clash(table, r, r)
  BY DEF Clash
<1> QED BY <1>1, <1>2

-----------------------------------------------------------------------------
(* The control of the two programs.                                        *)

LEMMA Parsed ==
  ASSUME NEW s \in Slots, NEW o \in Answers[s], NEW D \in SUBSET Undecodable[s]
  PROVE  LET b == Parse(s, o, D)
         IN  /\ b.slot = s /\ b.skipped \in BOOLEAN
             /\ b.parsed \subseteq Positions(s)
             /\ ~b.skipped => Positions(s) \ Undecodable[s] \subseteq b.parsed
             /\ b.skipped => b.parsed = {}
<1>1. CASE o = "Skipped"
  BY <1>1 DEF Parse
<1>2. CASE o # "Skipped"
  BY <1>2 DEF Parse
<1> QED BY <1>1, <1>2

LEMMA ReceiveStep ==
  ASSUME Control, BlockParsed, NEW s \in Slots, Receive(s)
  PROVE  Control' /\ BlockParsed'
<1>1. PICK o \in Answers[s], D \in SUBSET Undecodable[s] : block' = Parse(s, o, D)
  BY DEF Receive
<1>2. /\ block'.slot = s /\ block'.skipped \in BOOLEAN
      /\ block'.parsed \subseteq Positions(s)
      /\ ~block'.skipped => Positions(s) \ Undecodable[s] \subseteq block'.parsed
      /\ block'.skipped => block'.parsed = {}
  BY <1>1, Parsed
<1>3. /\ writer = "idle" /\ writer' = "block" /\ fate[s] = "open" /\ left' = block'.parsed
      /\ UNCHANGED <<moved, disk, draft, owner, fate, runs, backfill, listed, missed>>
  BY DEF Receive, backfillVars
<1>4. Control'
  BY <1>2, <1>3 DEF Control, InTransaction
<1>5. BlockParsed'
  BY <1>2, <1>3 DEF BlockParsed, Positions
<1> QED BY <1>4, <1>5

(* The steps of write_block after the parse.                               *)
LEMMA WriteControl ==
  ASSUME Control, BlockParsed,
         InsertBlock \/ InsertTransaction \/ InsertLocks \/ InsertBalances
  PROVE  Control' /\ BlockParsed' /\ block' = block /\ writer # "idle" /\ InTransaction'
         /\ UNCHANGED <<moved, disk, backfill, listed, missed>>
<1>1. /\ block' = block /\ writer # "idle" /\ left' \subseteq left
      /\ UNCHANGED <<moved, disk, fate, runs, backfill, listed, missed>>
  BY DEF InsertBlock, InsertTransaction, InsertLocks, InsertBalances, backfillVars,
         Begin, Execute
<1>2. BlockParsed'
  BY <1>1 DEF BlockParsed, Control, Positions,
              InsertBlock, InsertTransaction, InsertLocks, InsertBalances
<1>3. CASE InsertBlock
  BY <1>1, <1>2, <1>3 DEF InsertBlock, Begin, Control, InTransaction
<1>4. CASE InsertTransaction
  BY <1>1, <1>2, <1>4 DEF InsertTransaction, Control, InTransaction
<1>5. CASE InsertLocks
  BY <1>1, <1>2, <1>5 DEF InsertLocks, Control, InTransaction
<1>6. CASE InsertBalances
  BY <1>1, <1>2, <1>6 DEF InsertBalances, Control, InTransaction
<1> QED BY <1>3, <1>4, <1>5, <1>6

(* write_block ends, well or not, or its process does.                     *)
LEMMA EndControl ==
  ASSUME Control, BlockParsed, CommitBlock \/ WriteFails \/ Restart
  PROVE  Control' /\ BlockParsed' /\ writer' = "idle"
<1>1. writer' = "idle" /\ block' = NoBlock /\ left' = {}
      /\ UNCHANGED <<moved, backfill, listed, missed>>
  BY DEF CommitBlock, WriteFails, Restart, Idle, backfillVars
<1>2. fate' \in [Slots -> {"open", "stored", "reported"}] /\ runs' \in 1 .. MaxRuns
  <2>1. CASE CommitBlock
    BY <2>1 DEF CommitBlock, Control
  <2>2. CASE WriteFails
    BY <2>2 DEF WriteFails, Control
  <2>3. CASE Restart
    BY <2>3, StoreAssumption DEF Restart, Control
  <2> QED BY <2>1, <2>2, <2>3
<1>3. owner' = IF InTransaction THEN "none" ELSE owner
  BY DEF CommitBlock, WriteFails, Restart, Abandon, Commit, Rollback, InTransaction
<1>4. Control'
  BY <1>1, <1>2, <1>3 DEF Control, InTransaction, NoBlock
<1>5. BlockParsed'
  BY <1>1 DEF BlockParsed
<1> QED BY <1>1, <1>4, <1>5

LEMMA BackfillControl ==
  ASSUME Control, BlockParsed, Sound(disk), Backfill
  PROVE  Control' /\ BlockParsed'
<1>1. UNCHANGED <<moved, block, left, writer, fate, runs>>
  BY DEF Backfill, ListSlots, FetchFails, UpdateSlot, CommitSlot, BackfillDone,
         BackfillFails, writerVars
<1>2. BlockParsed'
  BY <1>1 DEF BlockParsed, Positions
<1>3. listed # {} => Min(listed) \in listed
  BY MinMember, StoreAssumption DEF Control
<1>4. CASE ListSlots
  <2>1. \A b \in disk.blocks : b.slot \in Slots
    BY KeyFacts DEF Sound, Typed, Rows, Tables
  <2> QED BY <1>1, <1>2, <1>4, <2>1 DEF ListSlots, Control, InTransaction
<1>5. CASE FetchFails
  BY <1>1, <1>2, <1>3, <1>5 DEF FetchFails, NextListed, Control, InTransaction
<1>6. CASE UpdateSlot
  BY <1>1, <1>2, <1>6 DEF UpdateSlot, Begin, Control, InTransaction
<1>7. CASE CommitSlot
  BY <1>1, <1>2, <1>7 DEF CommitSlot, Commit, NextListed, Control, InTransaction
<1>8. CASE BackfillDone
  BY <1>1, <1>2, <1>8 DEF BackfillDone, Control, InTransaction
<1>9. CASE BackfillFails
  BY <1>1, <1>2, <1>9 DEF BackfillFails, Rollback, Control, InTransaction
<1> QED BY <1>4, <1>5, <1>6, <1>7, <1>8, <1>9 DEF Backfill

-----------------------------------------------------------------------------
(* The rows that are written.                                              *)

(* What the chain has does not change.                                     *)
LEMMA Frozen ==
  ASSUME moved' = moved
  PROVE  /\ \A t : Balances(t)' = Balances(t)
         /\ Rows' = Rows
<1>1. \A t : Balances(t)' = Balances(t)
  BY DEF Balances, BalanceRow, Indices
<1>2. Rows' = Rows
  BY <1>1 DEF Rows, Locks
<1> QED BY <1>1, <1>2

LEMMA SoundPrime ==
  ASSUME moved' = moved
  PROVE  /\ Sound(disk') => Sound(disk)'
         /\ Sound(draft') => Sound(draft)'
BY Frozen DEF Sound, Typed, PrimaryKey, Clash

LEMMA AtCurrent ==
  ASSUME Control, BlockParsed, writer # "idle", left # {}
  PROVE  /\ block.slot \in Slots
         /\ Min(left) \in left /\ Min(left) \in block.parsed
         /\ Min(left) \in Positions(block.slot)
         /\ Current \in Signatures
<1>1. block.slot \in Slots /\ left \subseteq block.parsed
      /\ block.parsed \subseteq Positions(block.slot)
  BY DEF Control, BlockParsed
<1>2. left \subseteq Nat
  BY <1>1, ChainFacts
<1>3. Min(left) \in left
  BY <1>2, MinMember
<1>4. Current \in Signatures
  BY <1>1, <1>3, ChainFacts DEF Current
<1> QED BY <1>1, <1>3, <1>4

LEMMA TxRowFacts ==
  ASSUME NEW s \in Slots, NEW p \in Positions(s), NEW parsed
  PROVE  LET r == TxRow(s, p, parsed)
         IN  /\ r \in Rows["transactions"] /\ RowExact(r)
             /\ r.signature = Chain[s][p] /\ r.slot = s /\ r.tx_index \in Nat
<1>1. p \in Nat \ {0} /\ Chain[s][p] \in Signatures
  BY ChainFacts
<1>2. p - 1 \in Nat
  BY <1>1
<1> DEFINE r == TxRow(s, p, parsed)
<1>3. r = [signature |-> Chain[s][p], slot |-> s, tx_index |-> p - 1]
  BY DEF TxRow, TxIndex
<1>4. r \in Rows["transactions"]
  BY <1>1, <1>2, <1>3 DEF Rows
<1>5. r.signature = Chain[s][p] /\ r.slot = s /\ r.tx_index = p - 1
  BY <1>3
<1>6. RowExact(r)
  BY <1>5 DEF RowExact
<1> QED BY <1>2, <1>4, <1>5, <1>6

LEMMA InsertBlockTables ==
  ASSUME Inv, InsertBlock
  PROVE  /\ draft' = InsertOrIgnore(disk, "blocks",
                       {[slot |-> block.slot, skipped |-> block.skipped]})
         /\ Sound(draft') /\ Exact(draft')
         /\ draft'.transactions = disk.transactions
<1> DEFINE rows == {[slot |-> block.slot, skipped |-> block.skipped]}
<1>1. draft' = InsertOrIgnore(disk, "blocks", rows)
  BY DEF InsertBlock, Begin, Execute
<1>2. Sound(disk) /\ Exact(disk) /\ "blocks" \in Tables /\ "transactions" \in Tables
  BY DEF Inv, Tables
<1>3. rows \subseteq Rows["blocks"]
  BY DEF Inv, Control, BlockParsed, InsertBlock, Rows
<1>4. \A q, r \in rows : q = r
  OBVIOUS
<1> HIDE DEF rows
<1>5. Sound(draft')
  BY <1>1, <1>2, <1>3, <1>4, InsertSound
<1>6. draft'["transactions"] = disk["transactions"]
  BY <1>1, <1>2, InsertLaw
<1> QED BY <1>1, <1>2, <1>5, <1>6 DEF Exact, rows

LEMMA InsertTransactionTables ==
  ASSUME Inv, InsertTransaction
  PROVE  /\ draft' = InsertOrIgnore(draft, "transactions",
                       {TxRow(block.slot, Min(left), block.parsed)})
         /\ Sound(draft') /\ Exact(draft')
<1> DEFINE rows == {TxRow(block.slot, Min(left), block.parsed)}
<1>1. draft' = InsertOrIgnore(draft, "transactions", rows)
  BY DEF InsertTransaction, Execute
<1>2. Sound(draft) /\ Exact(draft) /\ "transactions" \in Tables
  BY DEF Inv, Tables
<1>3. block.slot \in Slots /\ Min(left) \in Positions(block.slot)
  BY AtCurrent DEF Inv, InsertTransaction
<1>4. \A r \in rows : r \in Rows["transactions"] /\ RowExact(r)
  BY <1>3, TxRowFacts
<1>5. \A q, r \in rows : q = r
  OBVIOUS
<1> HIDE DEF rows
<1>6. Sound(draft')
  BY <1>1, <1>2, <1>4, <1>5, InsertSound
<1>7. \A r \in draft'["transactions"] : r \in draft["transactions"] \/ r \in rows
  BY <1>1, <1>2, InsertLaw
<1>8. Exact(draft')
  BY <1>2, <1>4, <1>7 DEF Exact
<1> QED BY <1>1, <1>6, <1>8 DEF rows

LEMMA InsertLocksTables ==
  ASSUME Inv, InsertLocks
  PROVE  /\ draft' = InsertOrIgnore(draft, "account_locks", Locks(Current))
         /\ Sound(draft') /\ Exact(draft')
<1>1. draft' = InsertOrIgnore(draft, "account_locks", Locks(Current))
  BY DEF InsertLocks, Execute
<1>2. Sound(draft) /\ Exact(draft) /\ "account_locks" \in Tables /\ "transactions" \in Tables
  BY DEF Inv, Tables
<1>3. Current \in Signatures
  BY AtCurrent DEF Inv, InsertLocks, Control
<1>4. Locks(Current) \subseteq Rows["account_locks"]
  BY <1>3 DEF Rows
<1>5. \A q, r \in Locks(Current) : Clash("account_locks", q, r) => q = r
  BY <1>3, LockKeys, KeyFacts
<1>6. Sound(draft')
  BY <1>1, <1>2, <1>4, <1>5, InsertSound
<1>7. draft'["transactions"] = draft["transactions"]
  BY <1>1, <1>2, InsertLaw
<1> QED BY <1>1, <1>2, <1>6, <1>7 DEF Exact

LEMMA InsertBalancesTables ==
  ASSUME Inv, InsertBalances
  PROVE  /\ draft' = InsertOrIgnore(draft, "token_balances", Balances(Current))
         /\ Sound(draft') /\ Exact(draft')
<1>1. draft' = InsertOrIgnore(draft, "token_balances", Balances(Current))
  BY DEF InsertBalances, Execute
<1>2. Sound(draft) /\ Exact(draft) /\ "token_balances" \in Tables /\ "transactions" \in Tables
  BY DEF Inv, Tables
<1>3. Current \in Signatures
  BY AtCurrent DEF Inv, InsertBalances, Control
<1>4. Balances(Current) \subseteq Rows["token_balances"]
  BY <1>3 DEF Rows
<1>5. \A q, r \in Balances(Current) : Clash("token_balances", q, r) => q = r
  BY <1>3, BalanceKeys, KeyFacts
<1>6. Sound(draft')
  BY <1>1, <1>2, <1>4, <1>5, InsertSound
<1>7. draft'["transactions"] = draft["transactions"]
  BY <1>1, <1>2, InsertLaw
<1> QED BY <1>1, <1>2, <1>6, <1>7 DEF Exact

(* The positions that backfill_order puts on rows are theirs.              *)
LEMMA UpdatedRow ==
  ASSUME NEW s \in Slots, NEW r \in Rows["transactions"], RowExact(r)
  PROVE  /\ Updated(r, s) \in Rows["transactions"] /\ RowExact(Updated(r, s))
         /\ Updated(r, s).signature = r.signature /\ Updated(r, s).slot = r.slot
         /\ Updated(r, s).tx_index = -1 => Updated(r, s) = r /\ r.slot # s
<1>1. /\ r \in [signature : Signatures, slot : Slots, tx_index : Nat \cup {-1}]
  BY DEF Rows
<1>2. CASE r.slot # s
  <2>1. Updated(r, s) = r
    BY <1>2 DEF Updated
  <2> QED BY <1>2, <2>1
<1>3. CASE r.slot = s
  <2>1. PICK p \in Positions(s) : Chain[s][p] = r.signature
    BY <1>3 DEF RowExact
  <2>2. \A q \in Positions(s) : Chain[s][q] = r.signature => q = p
    BY <2>1, ChainFacts
  <2>3. PositionOf(s, r.signature) = p - 1
    BY <2>1, <2>2 DEF PositionOf
  <2>4. p \in Nat \ {0}
    BY ChainFacts
  <2>5. p - 1 \in Nat /\ p - 1 # -1
    BY <2>4
  <2> DEFINE u == Updated(r, s)
  <2>6. u = [r EXCEPT !.tx_index = p - 1]
    BY <1>3, <2>3 DEF Updated
  <2>7. /\ u \in [signature : Signatures, slot : Slots, tx_index : Nat \cup {-1}]
        /\ u.signature = r.signature /\ u.slot = s /\ u.tx_index = p - 1
    BY <1>1, <1>3, <2>5, <2>6
  <2> HIDE DEF u
  <2>8. RowExact(u)
    BY <2>1, <2>7 DEF RowExact
  <2>9. /\ u \in Rows["transactions"] /\ RowExact(u)
        /\ u.signature = r.signature /\ u.slot = r.slot /\ u.tx_index # -1
    BY <1>3, <2>5, <2>7, <2>8 DEF Rows
  <2> QED BY <2>9 DEF u
<1> QED BY <1>2, <1>3

LEMMA FilledTables ==
  ASSUME NEW db, Sound(db), Exact(db), NEW s \in Slots
  PROVE  LET new == Filled(db, s)
         IN  /\ new = [table \in Tables |-> new[table]]
             /\ \A table \in Tables \ {"transactions"} : new[table] = db[table]
             /\ new.transactions = {Updated(r, s) : r \in db.transactions}
             /\ Sound(new) /\ Exact(new)
<1> DEFINE new == Filled(db, s)
<1>1. /\ new = [table \in Tables |-> new[table]]
      /\ \A table \in Tables \ {"transactions"} : new[table] = db[table]
      /\ new.transactions = {Updated(r, s) : r \in db.transactions}
  BY DEF Filled, Sound, Tables
<1> HIDE DEF new
<1>2. /\ \A table \in Tables : /\ db[table] \subseteq Rows[table]
                              /\ \A q, r \in db[table] : Clash(table, q, r) => q = r
      /\ "transactions" \in Tables
  BY KeyFacts DEF Sound, Typed, Tables
<1>3. \A r \in db.transactions : /\ Updated(r, s) \in Rows["transactions"]
                                 /\ RowExact(Updated(r, s))
                                 /\ Updated(r, s).signature = r.signature
  BY <1>2, UpdatedRow DEF Exact
<1>4. Exact(new)
  BY <1>1, <1>3 DEF Exact
<1>5. /\ new["transactions"] \subseteq Rows["transactions"]
      /\ \A q, r \in new["transactions"] : Clash("transactions", q, r) => q = r
  <2>1. new["transactions"] \subseteq Rows["transactions"]
    BY <1>1, <1>3
  <2>2. ASSUME NEW q \in new["transactions"], NEW r \in new["transactions"],
               q.signature = r.signature
        PROVE  q = r
    <3>1. PICK x \in db.transactions : q = Updated(x, s)
      BY <1>1
    <3>2. PICK y \in db.transactions : r = Updated(y, s)
      BY <1>1
    <3>3. x.signature = y.signature
      BY <1>3, <2>2, <3>1, <3>2
    <3>4. x = y
      BY <1>2, <3>3, KeyFacts
    <3> QED BY <3>1, <3>2, <3>4
  <2> QED BY <2>1, <2>2, KeyFacts
<1>6. Sound(new)
  BY <1>1, <1>2, <1>5, KeyFacts DEF Sound, Typed
<1> QED BY <1>1, <1>4, <1>6 DEF new

-----------------------------------------------------------------------------
(* Both states of the tables stay sound and exact.                         *)

LEMMA UpdateSlotTables ==
  ASSUME Inv, UpdateSlot
  PROVE  /\ Min(listed) \in Slots /\ Min(listed) \in listed
         /\ draft' = Filled(disk, Min(listed))
         /\ Sound(draft') /\ Exact(draft')
<1>1. Min(listed) \in listed /\ listed \subseteq Slots
  BY MinMember, StoreAssumption DEF Inv, Control, UpdateSlot
<1>2. draft' = Filled(disk, Min(listed))
  BY DEF UpdateSlot, Begin, Execute, Filled
<1> QED BY <1>1, <1>2, FilledTables DEF Inv

LEMMA DbStep ==
  ASSUME Inv, [Next]_vars
  PROVE  Sound(disk)' /\ Sound(draft)' /\ Exact(disk)' /\ Exact(draft)'
<1>1. moved' = moved
  BY DEF Next, Write, Backfill, Receive, InsertBlock, InsertTransaction, InsertLocks,
         InsertBalances, CommitBlock, WriteFails, Restart, ListSlots, FetchFails,
         UpdateSlot, CommitSlot, BackfillDone, BackfillFails, vars
<1>2. Sound(disk') /\ Sound(draft') /\ Exact(disk') /\ Exact(draft')
  <2>0. Sound(disk) /\ Sound(draft) /\ Exact(disk) /\ Exact(draft)
    BY DEF Inv
  <2>1. CASE InsertBlock
    BY <2>0, <2>1, InsertBlockTables DEF InsertBlock, Begin, Execute
  <2>2. CASE InsertTransaction
    BY <2>0, <2>2, InsertTransactionTables DEF InsertTransaction, Execute
  <2>3. CASE InsertLocks
    BY <2>0, <2>3, InsertLocksTables DEF InsertLocks, Execute
  <2>4. CASE InsertBalances
    BY <2>0, <2>4, InsertBalancesTables DEF InsertBalances, Execute
  <2>5. CASE UpdateSlot
    BY <2>0, <2>5, UpdateSlotTables DEF UpdateSlot, Begin, Execute
  <2>6. CASE CommitBlock \/ CommitSlot
    <3>1. disk' = draft /\ draft' = draft
      BY <2>6 DEF CommitBlock, CommitSlot, Commit
    <3> QED BY <2>0, <3>1
  <2>7. CASE \/ \E s \in Slots : Receive(s)
             \/ WriteFails \/ Restart \/ ListSlots \/ FetchFails \/ BackfillDone
             \/ BackfillFails \/ UNCHANGED vars
    <3>1. disk' = disk /\ draft' = draft
      BY <2>7 DEF Receive, WriteFails, Restart, Abandon, Rollback, ListSlots,
                  FetchFails, BackfillDone, BackfillFails, vars
    <3> QED BY <2>0, <3>1
  <2> QED BY <2>1, <2>2, <2>3, <2>4, <2>5, <2>6, <2>7 DEF Next, Write, Backfill
<1>3. Exact(disk)' /\ Exact(draft)'
  BY <1>2 DEF Exact, RowExact, Positions
<1> QED BY <1>1, <1>2, <1>3, SoundPrime

-----------------------------------------------------------------------------
(* What the open transaction of the writer adds.                           *)

LEMMA WriterDraftPrime ==
  ASSUME moved' = moved, block' = block, disk' = disk,
         \A table \in Tables : disk[table] \subseteq draft'[table],
         \E b \in draft'.blocks : b.slot = block.slot,
         \A s \in Slots : s # block.slot \/ block.skipped => Covers(draft', s),
         \A p \in block.parsed \ left' : Has(draft', Chain[block.slot][p]),
         writer' \in {"locks", "balances"}
           => Has(draft', Chain[block.slot][Min(left')]),
         \A r \in draft'.transactions :
           RowWhole(draft', r,
             writer' = "locks" /\ r.signature = Chain[block.slot][Min(left')],
             writer' \in {"locks", "balances"}
               /\ r.signature = Chain[block.slot][Min(left')]),
         \A r \in draft'.transactions : r.tx_index = -1 => r \in disk.transactions
  PROVE  WriterDraft'
<1>1. Current' = Chain[block.slot][Min(left')]
  BY DEF Current
<1>2. \A r \in draft'.transactions :
        RowWhole(draft, r, writer = "locks" /\ r.signature = Current,
                 writer \in {"locks", "balances"} /\ r.signature = Current)'
  BY <1>1, Frozen DEF RowWhole, Locks
<1>3. \A s \in Slots : s # block.slot \/ block.skipped => Covers(draft, s)'
  BY DEF Covers, Produced, Has, Positions
<1>4. /\ \A p \in block.parsed \ left' : Has(draft, Chain[block.slot][p])'
      /\ writer' \in {"locks", "balances"} => Has(draft, Current)'
  BY <1>1 DEF Has
<1> QED BY <1>2, <1>3, <1>4 DEF WriterDraft, Slots, Tables

LEMMA DraftAfterBlock ==
  ASSUME Inv, InsertBlock
  PROVE  WriterDraft'
<1>1. /\ moved' = moved /\ block' = block /\ disk' = disk /\ left' = left
      /\ writer = "block" /\ writer' = "transaction"
  BY DEF InsertBlock, Begin, Execute
<1> DEFINE row == [slot |-> block.slot, skipped |-> block.skipped]
<1>2. draft' = InsertOrIgnore(disk, "blocks", {row}) /\ Sound(disk)
  BY InsertBlockTables DEF Inv
<1>3. /\ \A t \in Tables \ {"blocks"} : draft'[t] = disk[t]
      /\ disk["blocks"] \subseteq draft'["blocks"]
      /\ \A b \in draft'["blocks"] : b \in disk["blocks"] \/ b = row
  <2> HIDE DEF row
  <2> QED BY <1>2, InsertLaw DEF Tables
<1>4. \E b \in draft'.blocks : b.slot = block.slot
  <2>1. \E b \in draft'["blocks"] : Clash("blocks", b, row)
    <3> HIDE DEF row
    <3> QED BY <1>2, InsertHas DEF Tables
  <2> QED BY <2>1, KeyFacts
<1>5. /\ draft'.transactions = disk.transactions
      /\ draft'.account_locks = disk.account_locks
      /\ draft'.token_balances = disk.token_balances
  BY <1>3 DEF Tables
<1>6. ASSUME NEW s \in Slots, s # block.slot \/ block.skipped
      PROVE  Covers(draft', s)
  <2>1. Covers(disk, s) /\ block.skipped \in BOOLEAN
    BY <1>1 DEF Inv, Whole, BlockParsed
  <2>2. [slot |-> s, skipped |-> FALSE] \in draft'.blocks
          => [slot |-> s, skipped |-> FALSE] \in disk.blocks
    <3>1. row.slot = block.slot /\ row.skipped = block.skipped
      OBVIOUS
    <3>2. [slot |-> s, skipped |-> FALSE] # row
      BY <1>6, <2>1, <3>1
    <3> QED BY <1>3, <3>2
  <2> QED BY <1>5, <2>1, <2>2 DEF Covers, Produced, Has
<1>7. \A r \in draft'.transactions : RowWhole(draft', r, FALSE, FALSE)
  BY <1>3, <1>5 DEF Inv, Whole, RowWhole
<1>8. block.parsed \ left' = {}
  BY <1>1 DEF Inv, BlockParsed
<1>9. \A table \in Tables : disk[table] \subseteq draft'[table]
  BY <1>3
<1> HIDE DEF row
<1> QED BY <1>1, <1>4, <1>5, <1>6, <1>7, <1>8, <1>9, WriterDraftPrime DEF RowWhole

LEMMA DraftAfterTransaction ==
  ASSUME Inv, InsertTransaction
  PROVE  WriterDraft'
<1>1. /\ moved' = moved /\ block' = block /\ disk' = disk /\ left' = left
      /\ writer = "transaction" /\ writer' = "locks" /\ left # {}
  BY DEF InsertTransaction, Execute
<1>2. InTransaction /\ WriterDraft
  BY <1>1 DEF InTransaction, Inv
<1> DEFINE row == TxRow(block.slot, Min(left), block.parsed)
<1>3. /\ block.slot \in Slots /\ Min(left) \in Positions(block.slot)
      /\ ~block.skipped
  BY <1>1, AtCurrent DEF Inv, BlockParsed
<1>4. /\ row.signature = Chain[block.slot][Min(left)] /\ row.slot = block.slot
      /\ row.tx_index # -1
  BY <1>3, TxRowFacts
<1>5. draft' = InsertOrIgnore(draft, "transactions", {row}) /\ Sound(draft)
  BY InsertTransactionTables DEF Inv
<1> HIDE DEF row
<1>6. /\ \A t \in Tables \ {"transactions"} : draft'[t] = draft[t]
      /\ draft["transactions"] \subseteq draft'["transactions"]
      /\ \A r \in draft'["transactions"] : r \in draft["transactions"] \/ r = row
  BY <1>5, InsertLaw DEF Tables
<1>7. /\ draft'.blocks = draft.blocks
      /\ draft'.account_locks = draft.account_locks
      /\ draft'.token_balances = draft.token_balances
  BY <1>6 DEF Tables
<1>8. Has(draft', Chain[block.slot][Min(left)])
  <2>1. \E q \in draft'["transactions"] : Clash("transactions", q, row)
    BY <1>5, InsertHas DEF Tables
  <2> QED BY <1>4, <2>1, KeyFacts DEF Has
<1>9. \A table \in Tables : disk[table] \subseteq draft'[table]
  BY <1>2, <1>6 DEF WriterDraft
<1>10. ASSUME NEW s \in Slots, s # block.slot \/ block.skipped
       PROVE  Covers(draft', s)
  <2>1. Covers(draft, s) /\ s # block.slot
    BY <1>2, <1>3, <1>10 DEF WriterDraft
  <2>2. \A p \in Positions(s) : Has(draft', Chain[s][p]) <=> Has(draft, Chain[s][p])
    <3>1. \A p \in Positions(s) : Chain[s][p] # row.signature
      BY <1>3, <1>4, <2>1, ChainFacts
    <3> QED BY <1>6, <3>1 DEF Has
  <2> QED BY <1>7, <2>1, <2>2 DEF Covers, Produced
<1>11. \A p \in block.parsed \ left' : Has(draft', Chain[block.slot][p])
  BY <1>1, <1>2, <1>6 DEF WriterDraft, Has
<1>12. \A r \in draft'.transactions :
         LET current == r.signature = Chain[block.slot][Min(left')]
         IN  RowWhole(draft', r, current, current)
  <2>1. \A r \in draft.transactions : RowWhole(draft, r, FALSE, FALSE)
    BY <1>1, <1>2 DEF WriterDraft, RowWhole
  <2>2. \E b \in draft.blocks : b.slot = block.slot
    BY <1>2 DEF WriterDraft
  <2> QED BY <1>1, <1>4, <1>6, <1>7, <2>1, <2>2 DEF RowWhole
<1>13. \A r \in draft'.transactions : r.tx_index = -1 => r \in disk.transactions
  BY <1>2, <1>4, <1>6 DEF WriterDraft
<1>14. \E b \in draft'.blocks : b.slot = block.slot
  BY <1>2, <1>7 DEF WriterDraft
<1>15. \A r \in draft'.transactions :
           RowWhole(draft', r,
             writer' = "locks" /\ r.signature = Chain[block.slot][Min(left')],
             writer' \in {"locks", "balances"}
               /\ r.signature = Chain[block.slot][Min(left')])
  BY <1>1, <1>12 DEF RowWhole
<1>16. writer' \in {"locks", "balances"}
           => Has(draft', Chain[block.slot][Min(left')])
  BY <1>1, <1>8
<1> QED BY <1>1, <1>9, <1>10, <1>11, <1>13, <1>14, <1>15, <1>16, WriterDraftPrime

(* After an insertion all the rows of the transaction are there.           *)
LEMMA LocksInserted ==
  ASSUME NEW db, Sound(db), NEW t \in Signatures,
         Sound(InsertOrIgnore(db, "account_locks", Locks(t)))
  PROVE  Locks(t) \subseteq InsertOrIgnore(db, "account_locks", Locks(t)).account_locks
<1> DEFINE new == InsertOrIgnore(db, "account_locks", Locks(t))
<1>1. new["account_locks"] \subseteq Rows["account_locks"]
  BY KeyFacts DEF Sound, Typed, Tables
<1>2. ASSUME NEW r \in Locks(t)
      PROVE  r \in new["account_locks"]
  <2>1. PICK q \in new["account_locks"] : Clash("account_locks", q, r)
    BY InsertHas DEF Tables
  <2>2. PICK u \in Signatures : q \in Locks(u)
    BY <1>1, <2>1 DEF Rows
  <2>3. u = t
    BY <2>1, <2>2, LockKeys, KeyFacts
  <2>4. q = r
    BY <2>1, <2>2, <2>3, LockKeys, KeyFacts
  <2> QED BY <2>1, <2>4
<1> QED BY <1>2

LEMMA BalancesInserted ==
  ASSUME NEW db, Sound(db), NEW t \in Signatures,
         Sound(InsertOrIgnore(db, "token_balances", Balances(t)))
  PROVE  Balances(t) \subseteq InsertOrIgnore(db, "token_balances", Balances(t)).token_balances
<1> DEFINE new == InsertOrIgnore(db, "token_balances", Balances(t))
<1>1. new["token_balances"] \subseteq Rows["token_balances"]
  BY KeyFacts DEF Sound, Typed, Tables
<1>2. ASSUME NEW r \in Balances(t)
      PROVE  r \in new["token_balances"]
  <2>1. PICK q \in new["token_balances"] : Clash("token_balances", q, r)
    BY InsertHas DEF Tables
  <2>2. PICK u \in Signatures : q \in Balances(u)
    BY <1>1, <2>1 DEF Rows
  <2>3. u = t
    BY <2>1, <2>2, BalanceKeys, KeyFacts
  <2>4. q = r
    BY <2>1, <2>2, <2>3, BalanceKeys, KeyFacts
  <2> QED BY <2>1, <2>4
<1> QED BY <1>2

LEMMA DraftAfterLocks ==
  ASSUME Inv, InsertLocks
  PROVE  WriterDraft'
<1>1. /\ moved' = moved /\ block' = block /\ disk' = disk /\ left' = left
      /\ writer = "locks" /\ writer' = "balances" /\ left # {}
  BY DEF InsertLocks, Execute, Inv, Control
<1>2. InTransaction /\ WriterDraft
  BY <1>1 DEF InTransaction, Inv
<1>3. Current \in Signatures
  BY <1>1, AtCurrent DEF Inv
<1>4. /\ draft' = InsertOrIgnore(draft, "account_locks", Locks(Current))
      /\ Sound(draft) /\ Sound(draft')
  BY InsertLocksTables DEF Inv
<1>5. /\ \A t \in Tables \ {"account_locks"} : draft'[t] = draft[t]
      /\ draft["account_locks"] \subseteq draft'["account_locks"]
  BY <1>4, InsertLaw DEF Tables
<1>6. /\ draft'.blocks = draft.blocks
      /\ draft'.transactions = draft.transactions
      /\ draft'.token_balances = draft.token_balances
  BY <1>5 DEF Tables
<1>7. Locks(Current) \subseteq draft'.account_locks
  BY <1>3, <1>4, LocksInserted
<1>8. \A table \in Tables : disk[table] \subseteq draft'[table]
  BY <1>2, <1>5 DEF WriterDraft
<1>9. /\ \E b \in draft'.blocks : b.slot = block.slot
      /\ \A p \in block.parsed \ left' : Has(draft', Chain[block.slot][p])
      /\ \A r \in draft'.transactions : r.tx_index = -1 => r \in disk.transactions
  BY <1>1, <1>2, <1>6 DEF WriterDraft, Has
<1>10. \A s \in Slots : s # block.slot \/ block.skipped => Covers(draft', s)
  <2>1. \A s \in Slots : Covers(draft', s) <=> Covers(draft, s)
    BY <1>6 DEF Covers, Produced, Has
  <2> QED BY <1>2, <2>1 DEF WriterDraft
<1>11. Has(draft', Chain[block.slot][Min(left')])
  BY <1>1, <1>2, <1>6 DEF WriterDraft, Has, Current
<1>12. \A r \in draft'.transactions :
         RowWhole(draft', r, FALSE, r.signature = Chain[block.slot][Min(left')])
  <2>1. \A r \in draft.transactions :
          RowWhole(draft, r, r.signature = Current, r.signature = Current)
    BY <1>1, <1>2 DEF WriterDraft, RowWhole
  <2> QED BY <1>1, <1>5, <1>6, <1>7, <2>1 DEF RowWhole, Current
<1>13. \A r \in draft'.transactions :
         RowWhole(draft', r,
           writer' = "locks" /\ r.signature = Chain[block.slot][Min(left')],
           writer' \in {"locks", "balances"}
             /\ r.signature = Chain[block.slot][Min(left')])
  BY <1>1, <1>12 DEF RowWhole
<1> QED BY <1>1, <1>8, <1>9, <1>10, <1>11, <1>13, WriterDraftPrime

LEMMA DraftAfterBalances ==
  ASSUME Inv, InsertBalances
  PROVE  WriterDraft'
<1>1. /\ moved' = moved /\ block' = block /\ disk' = disk /\ left' = left \ {Min(left)}
      /\ writer = "balances" /\ writer' = "transaction" /\ left # {}
  BY DEF InsertBalances, Execute, Inv, Control
<1>2. InTransaction /\ WriterDraft
  BY <1>1 DEF InTransaction, Inv
<1>3. Current \in Signatures
  BY <1>1, AtCurrent DEF Inv
<1>4. /\ draft' = InsertOrIgnore(draft, "token_balances", Balances(Current))
      /\ Sound(draft) /\ Sound(draft')
  BY InsertBalancesTables DEF Inv
<1>5. /\ \A t \in Tables \ {"token_balances"} : draft'[t] = draft[t]
      /\ draft["token_balances"] \subseteq draft'["token_balances"]
  BY <1>4, InsertLaw DEF Tables
<1>6. /\ draft'.blocks = draft.blocks
      /\ draft'.transactions = draft.transactions
      /\ draft'.account_locks = draft.account_locks
  BY <1>5 DEF Tables
<1>7. Balances(Current) \subseteq draft'.token_balances
  BY <1>3, <1>4, BalancesInserted
<1>8. \A table \in Tables : disk[table] \subseteq draft'[table]
  BY <1>2, <1>5 DEF WriterDraft
<1>9. \A p \in block.parsed \ left' : Has(draft', Chain[block.slot][p])
  <2>1. Has(draft', Chain[block.slot][Min(left)])
    BY <1>1, <1>2, <1>6 DEF WriterDraft, Has, Current
  <2>2. \A p \in block.parsed \ left : Has(draft', Chain[block.slot][p])
    BY <1>2, <1>6 DEF WriterDraft, Has
  <2> QED BY <1>1, <2>1, <2>2
<1>10. \A s \in Slots : s # block.slot \/ block.skipped => Covers(draft', s)
  <2>1. \A s \in Slots : Covers(draft', s) <=> Covers(draft, s)
    BY <1>6 DEF Covers, Produced, Has
  <2> QED BY <1>2, <2>1 DEF WriterDraft
<1>11. \A r \in draft'.transactions : RowWhole(draft', r, FALSE, FALSE)
  <2>1. \A r \in draft.transactions : RowWhole(draft, r, FALSE, r.signature = Current)
    BY <1>1, <1>2 DEF WriterDraft, RowWhole
  <2> QED BY <1>5, <1>6, <1>7, <2>1 DEF RowWhole
<1>12. /\ \E b \in draft'.blocks : b.slot = block.slot
       /\ \A r \in draft'.transactions : r.tx_index = -1 => r \in disk.transactions
  BY <1>2, <1>6 DEF WriterDraft
<1>13. \A r \in draft'.transactions :
         RowWhole(draft', r,
           writer' = "locks" /\ r.signature = Chain[block.slot][Min(left')],
           writer' \in {"locks", "balances"}
             /\ r.signature = Chain[block.slot][Min(left')])
  BY <1>11 DEF RowWhole
<1> QED BY <1>1, <1>8, <1>9, <1>10, <1>12, <1>13, WriterDraftPrime

-----------------------------------------------------------------------------
(* The two commits.                                                        *)

LEMMA WholePrime ==
  ASSUME moved' = moved, \A s \in Slots : Covers(disk', s),
         \A r \in disk'.transactions : RowWhole(disk', r, FALSE, FALSE)
  PROVE  Whole'
<1>1. \A s \in Slots : Covers(disk, s)'
  BY DEF Covers, Produced, Has, Positions
<1>2. \A r \in disk'.transactions : RowWhole(disk, r, FALSE, FALSE)'
  BY Frozen DEF RowWhole, Locks
<1> QED BY <1>1, <1>2 DEF Whole, Slots

LEMMA CommitBlockStep ==
  ASSUME Inv, CommitBlock
  PROVE  Whole' /\ Ahead'
<1>1. /\ moved' = moved /\ disk' = draft /\ left = {} /\ writer = "transaction"
      /\ UNCHANGED <<backfill, listed, missed>>
  BY DEF CommitBlock, Commit, backfillVars
<1>2. WriterDraft
  BY DEF Inv
<1>3. InTransaction
  BY <1>1 DEF InTransaction
<1>4. ASSUME NEW s \in Slots PROVE Covers(draft, s)
  <2>1. CASE s # block.slot \/ block.skipped
    BY <1>2, <1>3, <2>1 DEF WriterDraft
  <2>2. CASE s = block.slot /\ ~block.skipped
    <3>1. Positions(s) \ Undecodable[s] \subseteq block.parsed
      BY <1>1, <2>2 DEF Inv, BlockParsed
    <3>2. \A p \in block.parsed : Has(draft, Chain[s][p])
      BY <1>1, <1>2, <1>3, <2>2 DEF WriterDraft
    <3> QED BY <3>1, <3>2 DEF Covers
  <2> QED BY <2>1, <2>2
<1>5. \A r \in draft.transactions : RowWhole(draft, r, FALSE, FALSE)
  BY <1>1, <1>2, <1>3 DEF WriterDraft, RowWhole
<1>6. Whole'
  BY <1>1, <1>4, <1>5, WholePrime
<1>7. Ahead'
  <2>1. \A r \in draft.transactions : r.tx_index = -1 => r \in disk.transactions
    BY <1>2, <1>3 DEF WriterDraft
  <2>2. disk.blocks \subseteq draft.blocks
    BY <1>2, <1>3 DEF WriterDraft, Tables
  <2>3. Ahead
    BY DEF Inv
  <2> QED BY <1>1, <2>1, <2>2, <2>3 DEF Ahead
<1> QED BY <1>6, <1>7

LEMMA CommitSlotStep ==
  ASSUME Inv, CommitSlot
  PROVE  Whole' /\ Ahead'
<1> DEFINE m == Min(listed)
<1>1. /\ moved' = moved /\ disk' = Filled(disk, m) /\ backfill = "commit"
      /\ listed' = listed \ {m} /\ missed' = missed
  BY DEF CommitSlot, Commit, NextListed, Inv, BackfillDraft
<1>2. m \in Slots
  BY <1>1, MinMember, StoreAssumption DEF Inv, Control
<1>3. Sound(disk) /\ Exact(disk) /\ Whole /\ Ahead
  BY DEF Inv
<1> HIDE DEF m
<1>4. /\ \A table \in Tables \ {"transactions"} : disk'[table] = disk[table]
      /\ disk'.transactions = {Updated(r, m) : r \in disk.transactions}
  BY <1>1, <1>2, <1>3, FilledTables
<1>5. /\ disk'.blocks = disk.blocks
      /\ disk'.account_locks = disk.account_locks
      /\ disk'.token_balances = disk.token_balances
  BY <1>4 DEF Tables
<1>6. \A r \in disk.transactions :
        /\ Updated(r, m).signature = r.signature /\ Updated(r, m).slot = r.slot
        /\ Updated(r, m).tx_index = -1 => Updated(r, m) = r /\ r.slot # m
  <2>1. \A r \in disk.transactions : r \in Rows["transactions"] /\ RowExact(r)
    BY <1>3, KeyFacts DEF Sound, Typed, Exact, Tables
  <2> QED BY <1>2, <2>1, UpdatedRow
<1>7. \A t : Has(disk', t) <=> Has(disk, t)
  BY <1>4, <1>6 DEF Has
<1>8. \A s \in Slots : Covers(disk', s)
  BY <1>3, <1>5, <1>7 DEF Whole, Covers, Produced
<1>9. \A r \in disk'.transactions : RowWhole(disk', r, FALSE, FALSE)
  BY <1>3, <1>4, <1>5, <1>6 DEF Whole, RowWhole
<1>10. Whole'
  BY <1>1, <1>8, <1>9, WholePrime
<1>11. Ahead'
  <2> SUFFICES ASSUME NEW u \in disk'.transactions, u.tx_index = -1
               PROVE  \/ u.slot \in listed' \cup missed'
                      \/ [slot |-> u.slot, skipped |-> TRUE] \in disk'.blocks
    BY DEF Ahead
  <2>1. PICK r \in disk.transactions : u = Updated(r, m)
    BY <1>4
  <2>2. u = r /\ r.slot # m
    BY <1>6, <2>1
  <2>3. \/ r.slot \in listed \cup missed
        \/ [slot |-> r.slot, skipped |-> TRUE] \in disk.blocks
    BY <1>1, <1>3, <2>2 DEF Ahead
  <2> QED BY <1>1, <1>5, <2>2, <2>3
<1> QED BY <1>10, <1>11

-----------------------------------------------------------------------------
LEMMA WriterDraftStep ==
  ASSUME Inv, [Next]_vars
  PROVE  WriterDraft'
<1>1. CASE InsertBlock \/ InsertTransaction \/ InsertLocks \/ InsertBalances
  BY <1>1, DraftAfterBlock, DraftAfterTransaction, DraftAfterLocks, DraftAfterBalances
<1>2. CASE (\E s \in Slots : Receive(s)) \/ CommitBlock \/ WriteFails \/ Restart
  <2>1. writer' \in {"block", "idle"}
    BY <1>2 DEF Receive, CommitBlock, WriteFails, Restart, Idle
  <2> QED BY <2>1 DEF WriterDraft, InTransaction
<1>3. CASE Backfill \/ UNCHANGED vars
  <2>1. UNCHANGED <<moved, block, left, writer>>
    BY <1>3 DEF Backfill, ListSlots, FetchFails, UpdateSlot, CommitSlot, BackfillDone,
                BackfillFails, writerVars, vars
  <2>2. InTransaction => UNCHANGED <<disk, draft>>
    BY <1>3 DEF Backfill, ListSlots, FetchFails, UpdateSlot, CommitSlot, BackfillDone,
                BackfillFails, Begin, Rollback, vars, Inv, Control
  <2>3. CASE InTransaction
    <3>1. UNCHANGED <<moved, block, left, writer, disk, draft>> /\ WriterDraft
      BY <2>1, <2>2, <2>3 DEF Inv
    <3> USE <2>3, <3>1 DEF WriterDraft
    <3>2. /\ \A table \in Tables : disk[table] \subseteq draft'[table]
          /\ \E b \in draft'.blocks : b.slot = block.slot
          /\ \A r \in draft'.transactions : r.tx_index = -1 => r \in disk.transactions
      OBVIOUS
    <3>3. /\ \A s \in Slots : s # block.slot \/ block.skipped => Covers(draft', s)
          /\ \A p \in block.parsed \ left' : Has(draft', Chain[block.slot][p])
          /\ writer' \in {"locks", "balances"}
               => Has(draft', Chain[block.slot][Min(left')])
      BY DEF Current
    <3>4. \A r \in draft'.transactions :
             RowWhole(draft', r,
               writer' = "locks" /\ r.signature = Chain[block.slot][Min(left')],
               writer' \in {"locks", "balances"}
                 /\ r.signature = Chain[block.slot][Min(left')])
      BY DEF Current
    <3> QED BY <3>2, <3>3, <3>4, WriterDraftPrime
  <2>4. CASE ~InTransaction
    BY <2>1, <2>4 DEF WriterDraft, InTransaction
  <2> QED BY <2>3, <2>4
<1> QED BY <1>1, <1>2, <1>3 DEF Next, Write

LEMMA BackfillDraftStep ==
  ASSUME Inv, [Next]_vars
  PROVE  BackfillDraft'
<1>1. CASE UpdateSlot
  <2>1. draft' = Filled(disk, Min(listed)) /\ disk' = disk /\ listed' = listed
    BY <1>1, UpdateSlotTables DEF UpdateSlot, Begin, Execute
  <2> QED BY <2>1 DEF BackfillDraft, Filled, Updated, PositionOf, Positions
<1>2. CASE Backfill /\ ~UpdateSlot
  BY <1>2 DEF Backfill, ListSlots, FetchFails, CommitSlot, BackfillDone,
              BackfillFails, BackfillDraft
<1>3. CASE Write \/ UNCHANGED vars
  <2>1. UNCHANGED <<backfill, listed>>
    BY <1>3 DEF Write, Receive, InsertBlock, InsertTransaction, InsertLocks,
                InsertBalances, CommitBlock, WriteFails, Restart, backfillVars, vars
  <2>2. backfill = "commit" => UNCHANGED <<disk, draft>>
    BY <1>3 DEF Write, Receive, InsertBlock, InsertTransaction, InsertLocks,
                InsertBalances, CommitBlock, WriteFails, Restart, Begin, Abandon,
                InTransaction, vars, Inv, Control
  <2> QED BY <2>1, <2>2 DEF Inv, BackfillDraft, Filled, Updated, PositionOf, Positions
<1> QED BY <1>1, <1>2, <1>3 DEF Next

LEMMA TablesStep ==
  ASSUME Inv, [Next]_vars
  PROVE  Whole' /\ Ahead'
<1>1. CASE CommitBlock
  BY <1>1, CommitBlockStep
<1>2. CASE CommitSlot
  BY <1>2, CommitSlotStep
<1>3. CASE ~CommitBlock /\ ~CommitSlot
  <2>1. moved' = moved /\ disk' = disk
    BY <1>3 DEF Next, Write, Backfill, Receive, InsertBlock, InsertTransaction,
         InsertLocks, InsertBalances, WriteFails, Restart, ListSlots, FetchFails,
         UpdateSlot, BackfillDone, BackfillFails, Begin, Execute, Abandon, Rollback, vars
  <2>2. Whole'
    BY <2>1, WholePrime DEF Inv, Whole
  <2>3. Ahead'
    <3>1. CASE ListSlots
      <4> SUFFICES ASSUME NEW r \in disk.transactions
                   PROVE  \/ r.slot \in listed'
                          \/ [slot |-> r.slot, skipped |-> TRUE] \in disk.blocks
        BY <2>1 DEF Ahead
      <4>1. PICK b \in disk.blocks : b.slot = r.slot
        BY DEF Inv, Whole, RowWhole
      <4>2. b \in [slot : Slots, skipped : BOOLEAN]
        BY KeyFacts DEF Inv, Sound, Typed, Rows, Tables
      <4>3. CASE b.skipped
        BY <4>1, <4>2, <4>3
      <4>4. CASE ~b.skipped
        BY <3>1, <4>1, <4>4 DEF ListSlots
      <4> QED BY <4>2, <4>3, <4>4
    <3>2. CASE FetchFails
      BY <2>1, <3>2 DEF FetchFails, NextListed, Inv, Ahead
    <3>3. CASE ~ListSlots /\ ~FetchFails
      <4>1. /\ listed' = listed /\ missed' = missed
            /\ backfill' # "idle" => backfill # "idle"
        BY <1>3, <3>3 DEF Next, Write, Backfill, Receive, InsertBlock, InsertTransaction,
             InsertLocks, InsertBalances, WriteFails, Restart, UpdateSlot, BackfillDone,
             BackfillFails, backfillVars, vars
      <4> QED BY <2>1, <4>1 DEF Inv, Ahead
    <3> QED BY <3>1, <3>2, <3>3
  <2> QED BY <2>2, <2>3
<1> QED BY <1>1, <1>2, <1>3

-----------------------------------------------------------------------------
(* What an earlier version leaves.                                         *)

LEMMA OldTablesFacts ==
  ASSUME NEW S, S \subseteq Unindexed, NEW G
  PROVE  /\ Sound(OldTables(S, G)) /\ Exact(OldTables(S, G))
         /\ \A s \in Slots : Covers(OldTables(S, G), s)
         /\ \A r \in OldTables(S, G).transactions :
              RowWhole(OldTables(S, G), r, FALSE, FALSE)
<1> DEFINE db == OldTables(S, G)
           old == UNION {Range(Chain[s]) : s \in S}
<1>1. /\ db = [table \in Tables |-> db[table]]
      /\ db.blocks = {[slot |-> s, skipped |-> s \in G] : s \in S}
      /\ db.transactions = UNION {{[signature |-> t, slot |-> s, tx_index |-> -1] :
                                     t \in Range(Chain[s])} : s \in S}
      /\ db.account_locks = UNION {Locks(t) : t \in old}
      /\ db.token_balances = UNION {Balances(t) : t \in old}
  BY DEF OldTables, Tables
<1>2. S \subseteq Slots
  BY StoreAssumption
<1>3. \A s \in S : \A t \in Range(Chain[s]) :
        t \in Signatures /\ \E p \in Positions(s) : Chain[s][p] = t
  BY <1>2 DEF Signatures, Range, Positions
<1>4. \A s \in S : \A p \in Positions(s) : Chain[s][p] \in Range(Chain[s])
  BY DEF Range, Positions
<1>5. \A r \in db.transactions :
        \E s \in S : \E p \in Positions(s) :
          r = [signature |-> Chain[s][p], slot |-> s, tx_index |-> -1]
  BY <1>1, <1>3
<1>6. \A s \in S : \A p \in Positions(s) :
        [signature |-> Chain[s][p], slot |-> s, tx_index |-> -1] \in db.transactions
  BY <1>1, <1>4
<1>7. old \subseteq Signatures
  BY <1>3
<1>8. /\ db.account_locks \subseteq Rows["account_locks"]
      /\ db.token_balances \subseteq Rows["token_balances"]
  BY <1>1, <1>7 DEF Rows
<1> HIDE DEF db
<1>9. /\ db.blocks \subseteq Rows["blocks"]
      /\ \A q, r \in db.blocks : q.slot = r.slot => q = r
  <2>1. ASSUME NEW r \in db.blocks
        PROVE  r \in [slot : Slots, skipped : BOOLEAN] /\ r.skipped = (r.slot \in G)
    <3>1. PICK s \in S : r = [slot |-> s, skipped |-> s \in G]
      BY <1>1
    <3>2. (s \in G) \in BOOLEAN
      OBVIOUS
    <3> QED BY <1>2, <3>1, <3>2
  <2>2. ASSUME NEW q \in db.blocks, NEW r \in db.blocks, q.slot = r.slot
        PROVE  q = r
    BY <2>1, <2>2
  <2> QED BY <2>1, <2>2 DEF Rows
<1>10. /\ db.transactions \subseteq Rows["transactions"]
       /\ \A q, r \in db.transactions : q.signature = r.signature => q = r
  <2>1. ASSUME NEW r \in db.transactions PROVE r \in Rows["transactions"]
    BY <1>2, <1>5, ChainFacts DEF Rows
  <2>2. ASSUME NEW q \in db.transactions, NEW r \in db.transactions,
               q.signature = r.signature
        PROVE  q = r
    <3>1a. PICK s \in S : \E p \in Positions(s) :
            q = [signature |-> Chain[s][p], slot |-> s, tx_index |-> -1]
      BY <1>5
    <3>1. PICK p \in Positions(s) :
            q = [signature |-> Chain[s][p], slot |-> s, tx_index |-> -1]
      BY <3>1a
    <3>2a. PICK u \in S : \E v \in Positions(u) :
            r = [signature |-> Chain[u][v], slot |-> u, tx_index |-> -1]
      BY <1>5
    <3>2. PICK v \in Positions(u) :
            r = [signature |-> Chain[u][v], slot |-> u, tx_index |-> -1]
      BY <3>2a
    <3>3. Chain[s][p] = Chain[u][v]
      BY <2>2, <3>1, <3>2
    <3>4. s = u
      BY <1>2, <3>3, ChainFacts
    <3> QED BY <3>1, <3>2, <3>3, <3>4
  <2> QED BY <2>1, <2>2
<1>11. \A q, r \in db.account_locks : Clash("account_locks", q, r) => q = r
  <2> SUFFICES ASSUME NEW q \in db.account_locks, NEW r \in db.account_locks,
                      Clash("account_locks", q, r)
               PROVE  q = r
    OBVIOUS
  <2>1. PICK t \in Signatures : q \in Locks(t)
    BY <1>1, <1>7
  <2>2. PICK u \in Signatures : r \in Locks(u)
    BY <1>1, <1>7
  <2>3. t = u
    BY <2>1, <2>2, LockKeys, KeyFacts
  <2> QED BY <2>1, <2>2, <2>3, LockKeys, KeyFacts
<1>12. \A q, r \in db.token_balances : Clash("token_balances", q, r) => q = r
  <2> SUFFICES ASSUME NEW q \in db.token_balances, NEW r \in db.token_balances,
                      Clash("token_balances", q, r)
               PROVE  q = r
    OBVIOUS
  <2>1. PICK t \in Signatures : q \in Balances(t)
    BY <1>1, <1>7
  <2>2. PICK u \in Signatures : r \in Balances(u)
    BY <1>1, <1>7
  <2>3. t = u
    BY <2>1, <2>2, BalanceKeys, KeyFacts
  <2> QED BY <2>1, <2>2, <2>3, BalanceKeys, KeyFacts
<1>13. Sound(db)
  <2>1. \A table \in Tables : /\ db[table] \subseteq Rows[table]
                              /\ \A q, r \in db[table] : Clash(table, q, r) => q = r
    BY <1>8, <1>9, <1>10, <1>11, <1>12, KeyFacts DEF Tables
  <2> QED BY <1>1, <2>1, KeyFacts DEF Sound, Typed
<1>14. Exact(db)
  <2> SUFFICES ASSUME NEW r \in db.transactions PROVE RowExact(r)
    BY DEF Exact
  <2>1a. PICK s \in S : \E p \in Positions(s) :
          r = [signature |-> Chain[s][p], slot |-> s, tx_index |-> -1]
    BY <1>5
  <2>1. PICK p \in Positions(s) :
          r = [signature |-> Chain[s][p], slot |-> s, tx_index |-> -1]
    BY <2>1a
  <2>2. r.signature = Chain[s][p] /\ r.slot = s /\ r.tx_index = -1
    BY <2>1
  <2> QED BY <2>2 DEF RowExact
<1>15. ASSUME NEW s \in Slots, Produced(db, s)
       PROVE  \A p \in Positions(s) : Has(db, Chain[s][p])
  <2>1. s \in S
    <3>1. CASE [slot |-> s, skipped |-> FALSE] \in db.blocks
      <4>1. PICK u \in S : [slot |-> s, skipped |-> FALSE] = [slot |-> u, skipped |-> u \in G]
        BY <1>1, <3>1
      <4>2. [slot |-> s, skipped |-> FALSE].slot = [slot |-> u, skipped |-> u \in G].slot
        BY <4>1
      <4> QED BY <4>2
    <3>2. ASSUME NEW p \in Positions(s), Has(db, Chain[s][p]) PROVE s \in S
      <4>1. PICK r \in db.transactions : r.signature = Chain[s][p]
        BY <3>2 DEF Has
      <4>2a. PICK u \in S : \E v \in Positions(u) :
              r = [signature |-> Chain[u][v], slot |-> u, tx_index |-> -1]
        BY <1>5
      <4>2. PICK v \in Positions(u) :
              r = [signature |-> Chain[u][v], slot |-> u, tx_index |-> -1]
        BY <4>2a
      <4>3. Chain[s][p] = Chain[u][v]
        BY <4>1, <4>2
      <4> QED BY <1>2, <4>3, ChainFacts
    <3> QED BY <1>15, <3>1, <3>2 DEF Produced
  <2> QED BY <1>6, <2>1 DEF Has
<1>16. \A s \in Slots : Covers(db, s)
  BY <1>15 DEF Covers
<1>17. ASSUME NEW r \in db.transactions PROVE RowWhole(db, r, FALSE, FALSE)
  <2>1a. PICK s \in S : \E p \in Positions(s) :
          r = [signature |-> Chain[s][p], slot |-> s, tx_index |-> -1]
    BY <1>5
  <2>1. PICK p \in Positions(s) :
          r = [signature |-> Chain[s][p], slot |-> s, tx_index |-> -1]
    BY <2>1a
  <2>2. r.signature \in old /\ r.slot = s
    BY <1>4, <2>1
  <2>3. \E b \in db.blocks : b.slot = s
    <3> DEFINE b == [slot |-> s, skipped |-> s \in G]
    <3>1. b \in db.blocks
      BY <1>1
    <3>2. b.slot = s
      OBVIOUS
    <3> HIDE DEF b
    <3> QED BY <3>1, <3>2
  <2> QED BY <1>1, <2>2, <2>3 DEF RowWhole
<1> QED BY <1>13, <1>14, <1>16, <1>17 DEF db

LEMMA StoreInit == Init => Inv
<1> SUFFICES ASSUME Init PROVE Inv
  OBVIOUS
<1>1. PICK S \in SUBSET Unindexed : \E G : disk = OldTables(S, G)
  BY DEF Init
<1>2. /\ Sound(disk) /\ Exact(disk)
      /\ \A s \in Slots : Covers(disk, s)
      /\ \A r \in disk.transactions : RowWhole(disk, r, FALSE, FALSE)
  BY <1>1, OldTablesFacts
<1>3. draft = disk /\ writer = "idle" /\ backfill = "idle"
  BY DEF Init
<1>4. Control /\ BlockParsed
  BY StoreAssumption DEF Init, Control, BlockParsed, InTransaction, NoBlock
<1>5. WriterDraft /\ Added /\ BackfillDraft /\ Ahead
  BY <1>3 DEF WriterDraft, Added, BackfillDraft, Ahead, InTransaction
<1> QED BY <1>2, <1>3, <1>4, <1>5 DEF Inv, Whole

LEMMA AddedStep ==
  ASSUME Inv, [Next]_vars
  PROVE  Added'
<1> DEFINE row == [slot |-> block.slot, skipped |-> block.skipped]
<1>1. CASE InsertBlock
  <2>1. block' = block /\ disk' = disk
    BY <1>1 DEF InsertBlock, Begin, Execute
  <2>2. /\ draft' = InsertOrIgnore(disk, "blocks", {row}) /\ Sound(disk)
        /\ draft'.transactions = disk.transactions
    BY <1>1, InsertBlockTables DEF Inv
  <2> HIDE DEF row
  <2>3. draft'["blocks"] = disk["blocks"] \cup
          {r \in {row} : \A q \in disk["blocks"] : ~Clash("blocks", q, r)}
    BY <2>2, InsertLaw DEF Tables
  <2>4. row.slot = block.slot
    BY DEF row
  <2>5. \A b \in draft'.blocks :
          b \in disk.blocks \/ (b = row /\ \A q \in disk.blocks : q.slot # block.slot)
    BY <2>3, <2>4, KeyFacts
  <2> QED BY <2>1, <2>2, <2>5 DEF Added, row
<1>2. CASE InsertTransaction
  <2>1. block' = block /\ disk' = disk /\ writer = "transaction" /\ left # {}
    BY <1>2 DEF InsertTransaction, Execute
  <2>2. /\ block.slot \in Slots /\ Min(left) \in Positions(block.slot)
        /\ ~block.skipped
    BY <2>1, AtCurrent DEF Inv, BlockParsed
  <2> DEFINE new == TxRow(block.slot, Min(left), block.parsed)
  <2>3. draft' = InsertOrIgnore(draft, "transactions", {new}) /\ Sound(draft)
    BY <1>2, InsertTransactionTables DEF Inv
  <2>4. new.signature = Chain[block.slot][Min(left)]
    BY <2>2, TxRowFacts
  <2> HIDE DEF new
  <2>5. /\ draft'["blocks"] = draft["blocks"]
        /\ \A r \in draft'["transactions"] : r \in draft["transactions"] \/ r = new
    BY <2>3, InsertLaw DEF Tables
  <2>6. Added /\ InTransaction
    BY <2>1 DEF Inv, InTransaction
  <2> QED BY <2>1, <2>2, <2>4, <2>5, <2>6 DEF Added, Positions
<1>3. CASE InsertLocks \/ InsertBalances
  <2>1. block' = block /\ disk' = disk /\ InTransaction /\ Sound(draft)
    BY <1>3 DEF InsertLocks, InsertBalances, Execute, InTransaction, Inv
  <2>2. draft'["blocks"] = draft["blocks"] /\ draft'["transactions"] = draft["transactions"]
    <3>1. CASE InsertLocks
      BY <2>1, <3>1, InsertLaw, InsertLocksTables DEF Tables
    <3>2. CASE InsertBalances
      BY <2>1, <3>2, InsertLaw, InsertBalancesTables DEF Tables
    <3> QED BY <1>3, <3>1, <3>2
  <2> QED BY <2>1, <2>2 DEF Inv, Added, Positions
<1>4. CASE (\E s \in Slots : Receive(s)) \/ CommitBlock \/ WriteFails \/ Restart
  <2>1. writer' \in {"block", "idle"}
    BY <1>4 DEF Receive, CommitBlock, WriteFails, Restart, Idle
  <2> QED BY <2>1 DEF Added, InTransaction
<1>5. CASE Backfill \/ UNCHANGED vars
  <2>1. UNCHANGED <<block, writer>>
    BY <1>5 DEF Backfill, ListSlots, FetchFails, UpdateSlot, CommitSlot, BackfillDone,
                BackfillFails, writerVars, vars
  <2>2. InTransaction => UNCHANGED <<disk, draft>>
    BY <1>5 DEF Backfill, ListSlots, FetchFails, UpdateSlot, CommitSlot, BackfillDone,
                BackfillFails, Begin, Rollback, vars, Inv, Control
  <2> QED BY <2>1, <2>2 DEF Inv, Added, InTransaction, Positions
<1> QED BY <1>1, <1>2, <1>3, <1>4, <1>5 DEF Next, Write

LEMMA ControlStep ==
  ASSUME Inv, [Next]_vars
  PROVE  Control' /\ BlockParsed'
<1> USE DEF Inv
<1>1. ASSUME NEW s \in Slots, Receive(s) PROVE Control' /\ BlockParsed'
  BY <1>1, ReceiveStep
<1>2. CASE InsertBlock \/ InsertTransaction \/ InsertLocks \/ InsertBalances
  BY <1>2, WriteControl
<1>3. CASE CommitBlock \/ WriteFails \/ Restart
  BY <1>3, EndControl
<1>4. CASE Backfill
  BY <1>4, BackfillControl
<1>5. CASE UNCHANGED vars
  <2>1. UNCHANGED <<moved, owner, block, left, writer, fate, runs, backfill, listed, missed>>
    BY <1>5 DEF vars, writerVars, backfillVars
  <2> QED BY <2>1 DEF Control, BlockParsed, InTransaction, Positions
<1> QED BY <1>1, <1>2, <1>3, <1>4, <1>5 DEF Next, Write

LEMMA StoreStep == Inv /\ [Next]_vars => Inv'
<1> SUFFICES ASSUME Inv, [Next]_vars PROVE Inv'
  OBVIOUS
<1>1. Control' /\ BlockParsed' /\ WriterDraft' /\ Added' /\ BackfillDraft'
  BY ControlStep, WriterDraftStep, AddedStep, BackfillDraftStep
<1>2. Sound(disk)' /\ Sound(draft)' /\ Exact(disk)' /\ Exact(draft)' /\ Whole' /\ Ahead'
  BY DbStep, TablesStep
<1> QED BY <1>1, <1>2 DEF Inv

LEMMA InvAlways == Spec => []Inv
BY StoreInit, StoreStep, PTL DEF Spec

-----------------------------------------------------------------------------
(* No table ever has two rows with one primary key, and the write lock is  *)
(* held by whoever is inside a transaction.                                *)
THEOREM StoreTyped == Spec => []TypeOK
<1>1. Inv => TypeOK
  BY DEF Inv, Control, Sound, TypeOK
<1> QED BY <1>1, InvAlways, PTL

(* A block is there whole or not at all, whatever fails or is killed.      *)
THEOREM BlocksWhole == Spec => []WholeBlocks
<1>1. Inv => WholeBlocks
  <2> SUFFICES ASSUME Whole PROVE WholeBlocks
    BY DEF Inv
  <2>1. ASSUME NEW s \in Slots,
               [slot |-> s, skipped |-> FALSE] \in disk.blocks \/ Stored(s) # {}
        PROVE  Positions(s) \ Undecodable[s] \subseteq Stored(s)
    <3>1. Produced(disk, s)
      BY <2>1 DEF Stored, Produced, Has
    <3> QED BY <3>1 DEF Whole, Covers, Has, Stored
  <2>2. \A r \in disk.transactions :
          /\ \E b \in disk.blocks : b.slot = r.slot
          /\ Locks(r.signature) \subseteq disk.account_locks
          /\ Balances(r.signature) \subseteq disk.token_balances
    BY DEF Whole, RowWhole
  <2> QED BY <2>1, <2>2 DEF WholeBlocks
<1> QED BY <1>1, InvAlways, PTL

(* Parser and backfill agree on the position of every transaction.         *)
THEOREM PositionsAreExact == Spec => []PositionsExact
<1>1. Inv => PositionsExact
  BY DEF Inv, Exact, RowExact, PositionsExact
<1> QED BY <1>1, InvAlways, PTL

(* A backfill that is done has left no position open but where a fetch     *)
(* failed or a stale row hides the block.                                  *)
THEOREM BackfillIsComplete == Spec => []BackfillComplete
<1>1. Inv => BackfillComplete
  BY DEF Inv, Control, Ahead, BackfillComplete
<1> QED BY <1>1, InvAlways, PTL

-----------------------------------------------------------------------------
(* What the rows of a transaction add up to.                               *)

(* The two sums DeltasExact compares, as sums of functions.                *)
LEMMA DeltaSum ==
  ASSUME NEW R, IsFiniteSet(R), NEW d,
         \A r \in R : d[r] = r.post_amount - r.pre_amount
  PROVE  MapThenSumSet(LAMBDA r : r.post_amount - r.pre_amount, R) = Sum(d, R)
<1> DEFINE Step(f) == [s \in SUBSET R |->
             IF s = {} THEN 0 ELSE LET r == CHOOSE x \in s : TRUE
                                   IN  (r.post_amount - r.pre_amount) + f[s \ {r}]]
           h == CHOOSE f : f = Step(f)
<1>1. PICK k : AddsUp(k, d, R)
  BY AddsUpExists
<1>2. ASSUME NEW f
      PROVE  Step(f) = [s \in SUBSET R |->
                          IF s = {} THEN 0 ELSE d[Pick(s)] + f[s \ {Pick(s)}]]
  <2>1. ASSUME NEW s \in SUBSET R, s # {}
        PROVE  d[Pick(s)] = Pick(s).post_amount - Pick(s).pre_amount
    BY <2>1 DEF Pick
  <2>2. Step(f) = [s \in SUBSET R |->
          IF s = {} THEN 0
          ELSE (Pick(s).post_amount - Pick(s).pre_amount) + f[s \ {Pick(s)}]]
    BY DEF Pick
  <2> HIDE DEF Step
  <2> QED BY <2>1, <2>2
<1>3. k = Step(k)
  <2> HIDE DEF Step
  <2> QED BY <1>1, <1>2 DEF AddsUp
<1>4. h = Step(h)
  <2> HIDE DEF Step
  <2> QED BY <1>3, Zenon
<1>5. AddsUp(h, d, R)
  <2> HIDE DEF Step, h
  <2> QED BY <1>2, <1>4 DEF AddsUp
<1>6. MapThenSumSet(LAMBDA r : r.post_amount - r.pre_amount, R) = h[R]
  BY Zenon DEF MapThenSumSet, MapThenFoldSet
<1>7. Sum(d, R) = h[R]
  <2> HIDE DEF h
  <2> QED BY <1>5, SumWithin
<1> QED BY <1>6, <1>7, Zenon

LEMMA AmountSum ==
  ASSUME NEW side, NEW A, IsFiniteSet(A), NEW d, \A a \in A : d[a] = side[a].amount
  PROVE  MapThenSumSet(LAMBDA a : side[a].amount, A) = Sum(d, A)
<1> DEFINE Step(f) == [s \in SUBSET A |->
             IF s = {} THEN 0 ELSE LET a == CHOOSE x \in s : TRUE
                                   IN  side[a].amount + f[s \ {a}]]
           h == CHOOSE f : f = Step(f)
<1>1. PICK k : AddsUp(k, d, A)
  BY AddsUpExists
<1>2. ASSUME NEW f
      PROVE  Step(f) = [s \in SUBSET A |->
                          IF s = {} THEN 0 ELSE d[Pick(s)] + f[s \ {Pick(s)}]]
  <2>1. ASSUME NEW s \in SUBSET A, s # {}
        PROVE  d[Pick(s)] = side[Pick(s)].amount
    BY <2>1 DEF Pick
  <2>2. Step(f) = [s \in SUBSET A |->
          IF s = {} THEN 0 ELSE side[Pick(s)].amount + f[s \ {Pick(s)}]]
    BY DEF Pick
  <2> HIDE DEF Step
  <2> QED BY <2>1, <2>2
<1>3. k = Step(k)
  <2> HIDE DEF Step
  <2> QED BY <1>1, <1>2 DEF AddsUp
<1>4. h = Step(h)
  <2> HIDE DEF Step
  <2> QED BY <1>3, Zenon
<1>5. AddsUp(h, d, A)
  <2> HIDE DEF Step, h
  <2> QED BY <1>2, <1>4 DEF AddsUp
<1>6. MapThenSumSet(LAMBDA a : side[a].amount, A) = h[A]
  BY Zenon DEF MapThenSumSet, MapThenFoldSet
<1>7. Sum(d, A) = h[A]
  <2> HIDE DEF h
  <2> QED BY <1>5, SumWithin
<1> QED BY <1>6, <1>7, Zenon

(* The total of a side, as a sum over a larger set of accounts.            *)
LEMMA TotalOver ==
  ASSUME NEW side, NEW mint, NEW A, IsFiniteSet(A), NEW d,
         \A a \in A : /\ a \in DOMAIN side => side[a].mint = mint /\ side[a].amount \in Nat
                      /\ d[a] = Amount(side, a),
         \A a \in DOMAIN side : side[a].mint = mint => a \in A
  PROVE  Total(side, mint) = Sum(d, A)
<1> DEFINE own == {a \in DOMAIN side : side[a].mint = mint}
<1>1. own \in SUBSET A /\ IsFiniteSet(own)
  <2>1. own \in SUBSET A
    OBVIOUS
  <2> HIDE DEF own
  <2> QED BY <2>1, FS_Subset
<1>2. /\ \A a \in own : d[a] = side[a].amount
      /\ \A a \in A : d[a] \in Int
      /\ \A a \in A \ own : d[a] = 0
  BY DEF Amount
<1> HIDE DEF own
<1>3. MapThenSumSet(LAMBDA a : side[a].amount, own) = Sum(d, own)
  BY <1>1, <1>2, AmountSum
<1>4. Sum(d, A) = Sum(d, own)
  BY <1>1, <1>2, SumSupport
<1>5. Total(side, mint) = MapThenSumSet(LAMBDA a : side[a].amount, own)
  BY Zenon DEF Total, own
<1> QED BY <1>3, <1>4, <1>5, Zenon

(* .. and over the rows of a transaction.                                  *)
LEMMA RowsAddUp ==
  ASSUME moved \in Movements, NEW t \in Signatures, KeepsMints(t), NEW mint
  PROVE  MapThenSumSet(LAMBDA r : r.post_amount - r.pre_amount,
                       {r \in Balances(t) : r.mint = mint})
           = Total(moved[t].post, mint) - Total(moved[t].pre, mint)
<1> DEFINE pre == moved[t].pre
           post == moved[t].post
           A == {a \in Indices(t) : BalanceRow(t, a).mint = mint}
           R == {r \in Balances(t) : r.mint = mint}
           row == [a \in A |-> BalanceRow(t, a)]
           d == [r \in R |-> r.post_amount - r.pre_amount]
           after == [a \in A |-> Amount(post, a)]
           before == [a \in A |-> Amount(pre, a)]
           change == [a \in A |-> Amount(post, a) - Amount(pre, a)]
<1>1. /\ IsFiniteSet(DOMAIN pre) /\ \A a \in DOMAIN pre : pre[a].amount \in Nat
      /\ IsFiniteSet(DOMAIN post) /\ \A a \in DOMAIN post : post[a].amount \in Nat
  BY StoreAssumption
<1>2. IsFiniteSet(A)
  <2>1. IsFiniteSet(Indices(t))
    BY <1>1, FS_Union DEF Indices
  <2>2. A \in SUBSET Indices(t)
    OBVIOUS
  <2> HIDE DEF A
  <2> QED BY <2>1, <2>2, FS_Subset
<1>3. \A a \in A : /\ row[a] \in R /\ row[a].account_index = a
                   /\ row[a].post_amount = Amount(post, a)
                   /\ row[a].pre_amount = Amount(pre, a)
  BY DEF Balances, BalanceRow
<1>4. R = {row[a] : a \in A}
  <2>1. ASSUME NEW r \in R PROVE \E a \in A : r = row[a]
    BY DEF Balances
  <2> HIDE DEF R, A, row
  <2> QED BY <1>3, <2>1
<1>5. \A a \in A : Amount(post, a) \in Nat /\ Amount(pre, a) \in Nat
  BY <1>1 DEF Amount
<1>6. /\ \A a \in A : change[a] \in Int /\ d[row[a]] = change[a]
      /\ \A a, b \in A : row[a] = row[b] => a = b
  <2>1. \A a \in A : change[a] = Amount(post, a) - Amount(pre, a) /\ change[a] \in Int
    BY <1>5
  <2>2. \A a \in A : d[row[a]] = row[a].post_amount - row[a].pre_amount
    BY <1>3
  <2> HIDE DEF A, R, row, d, change, pre, post
  <2> QED BY <1>3, <2>1, <2>2
<1>7. MapThenSumSet(LAMBDA r : r.post_amount - r.pre_amount, R) = Sum(d, R)
  <2>1. IsFiniteSet(R)
    <3> HIDE DEF R, A, row
    <3> QED BY <1>2, <1>4, FiniteImage
  <2>2. \A r \in R : d[r] = r.post_amount - r.pre_amount
    OBVIOUS
  <2> HIDE DEF R, d
  <2> QED BY <2>1, <2>2, DeltaSum
<1>8. Sum(d, R) = Sum(change, A)
  <2> HIDE DEF R, A, d, row, change
  <2> QED BY <1>2, <1>4, <1>6, SumImage
<1>9. Sum(change, A) = Sum(after, A) - Sum(before, A)
  <2>1. \A a \in A : /\ after[a] \in Int /\ before[a] \in Int
                     /\ change[a] = after[a] - before[a]
    BY <1>5
  <2> HIDE DEF A, after, before, change
  <2> QED BY <1>2, <2>1, SumMinus
<1>10. \A a \in A : /\ a \in DOMAIN post => post[a].mint = mint
                    /\ a \in DOMAIN pre => pre[a].mint = mint
  BY DEF BalanceRow, KeepsMints
<1>11. /\ \A a \in DOMAIN post : post[a].mint = mint => a \in A
       /\ \A a \in DOMAIN pre : pre[a].mint = mint => a \in A
  BY DEF BalanceRow, Indices, KeepsMints
<1>12. Total(post, mint) = Sum(after, A)
  <2>1. \A a \in A : after[a] = Amount(post, a)
    OBVIOUS
  <2> HIDE DEF A, after, post
  <2> QED BY <1>1, <1>2, <1>10, <1>11, <2>1, TotalOver
<1>13. Total(pre, mint) = Sum(before, A)
  <2>1. \A a \in A : before[a] = Amount(pre, a)
    OBVIOUS
  <2> HIDE DEF A, before, pre
  <2> QED BY <1>1, <1>2, <1>10, <1>11, <2>1, TotalOver
<1> HIDE DEF A, R, d, after, before, change, row
<1>14. MapThenSumSet(LAMBDA r : r.post_amount - r.pre_amount, R)
         = Total(post, mint) - Total(pre, mint)
  BY <1>7, <1>8, <1>9, <1>12, <1>13, Zenon
<1> QED BY <1>14, Zenon DEF R

(* The stored rows of a stored transaction are its rows, no more and no    *)
(* fewer, and add up to what it moved of each mint.                        *)
THEOREM DeltasAreExact == Spec => []DeltasExact
<1>1. Inv => DeltasExact
  <2> SUFFICES ASSUME Inv, NEW x \in disk.transactions, NEW t, t = x.signature,
                      KeepsMints(t),
                      NEW mint
               PROVE  MapThenSumSet(LAMBDA r : r.post_amount - r.pre_amount,
                        {r \in {q \in disk.token_balances : q.signature = t} :
                           r.mint = mint})
                        = Total(moved[t].post, mint) - Total(moved[t].pre, mint)
    BY Zenon DEF DeltasExact
  <2>1. /\ disk["transactions"] \subseteq Rows["transactions"]
        /\ disk["token_balances"] \subseteq Rows["token_balances"]
    BY KeyFacts DEF Inv, Sound, Typed, Tables
  <2>2. t \in Signatures
    BY <2>1 DEF Rows
  <2>3. Balances(t) \subseteq disk.token_balances
    BY DEF Inv, Whole, RowWhole
  <2>4. ASSUME NEW r \in disk.token_balances, r.signature = t PROVE r \in Balances(t)
    <3>1. PICK u \in Signatures : r \in Balances(u)
      BY <2>1 DEF Rows
    <3>2. r.signature = u
      BY <3>1, BalanceKeys
    <3> QED BY <2>4, <3>1, <3>2
  <2>5. \A r \in Balances(t) : r.signature = t
    BY <2>2, BalanceKeys
  <2>6. {r \in {q \in disk.token_balances : q.signature = t} : r.mint = mint}
          = {r \in Balances(t) : r.mint = mint}
    BY <2>3, <2>4, <2>5
  <2>7. moved \in Movements
    BY DEF Inv, Control
  <2> QED BY <2>2, <2>6, <2>7, RowsAddUp, Zenon
<1> QED BY <1>1, InvAlways, PTL

-----------------------------------------------------------------------------
(* The steps of BlockStore are steps of SlotLedger.                        *)

BlockStatus == [s \in Slots |-> StatusOf(s)]
TxSlots == {s \in Slots : Stored(s) # {}}

StatusIn(db, s) == IF [slot |-> s, skipped |-> TRUE] \in db.blocks THEN "skipped"
                   ELSE IF [slot |-> s, skipped |-> FALSE] \in db.blocks THEN "produced"
                   ELSE "none"

LEMMA StatusLaw ==
  ASSUME NEW db, Sound(db), NEW s \in Slots
  PROVE  /\ StatusIn(db, s) = "none" <=> \A b \in db.blocks : b.slot # s
         /\ StatusIn(db, s) = "skipped" <=> [slot |-> s, skipped |-> TRUE] \in db.blocks
         /\ StatusIn(db, s) = "produced" <=> [slot |-> s, skipped |-> FALSE] \in db.blocks
         /\ StatusIn(db, s) \in {"none", "skipped", "produced"}
<1>1. /\ \A b \in db.blocks : b \in [slot : Slots, skipped : BOOLEAN]
      /\ \A b, c \in db.blocks : b.slot = c.slot => b = c
  BY KeyFacts DEF Sound, Typed, Rows, Tables
<1> DEFINE yes == [slot |-> s, skipped |-> TRUE]
           no  == [slot |-> s, skipped |-> FALSE]
<1>2. yes.slot = s /\ no.slot = s /\ yes.skipped # no.skipped
  OBVIOUS
<1>3. ~(yes \in db.blocks /\ no \in db.blocks)
  <2> HIDE DEF yes, no
  <2> QED BY <1>1, <1>2
<1>4. \A b \in db.blocks : b.slot = s => b = yes \/ b = no
  BY <1>1
<1>5. StatusIn(db, s) = IF yes \in db.blocks THEN "skipped"
                        ELSE IF no \in db.blocks THEN "produced" ELSE "none"
  BY DEF StatusIn
<1>6. (\A b \in db.blocks : b.slot # s) <=> yes \notin db.blocks /\ no \notin db.blocks
  <2> HIDE DEF yes, no
  <2> QED BY <1>2, <1>4
<1> QED BY <1>3, <1>5, <1>6

(* A step that neither adds blocks nor transactions.                       *)
LEMMA SameStatus ==
  ASSUME disk'.blocks = disk.blocks,
         \A t : Has(disk', t) <=> Has(disk, t)
  PROVE  BlockStatus' = BlockStatus /\ TxSlots' = TxSlots
<1>1. \A s \in Slots : StatusOf(s)' = StatusOf(s)
  BY DEF StatusOf
<1>2. \A s \in Slots : Stored(s)' = Stored(s)
  BY DEF Stored, Has, Positions
<1> QED BY <1>1, <1>2 DEF BlockStatus, TxSlots, Slots

LEMMA StoreLedger ==
  ASSUME Inv, CommitBlock
  PROVE  Ledger!Store(block.slot)
<1> DEFINE s == block.slot
           kind == IF block.skipped THEN "skipped" ELSE "produced"
           row == [slot |-> block.slot, skipped |-> block.skipped]
<1>1. /\ disk' = draft /\ left = {} /\ writer = "transaction" /\ InTransaction
      /\ fate' = [fate EXCEPT ![s] = "stored"] /\ s \in Slots /\ fate[s] = "open"
      /\ block.skipped \in BOOLEAN
  BY DEF CommitBlock, Commit, InTransaction, Inv, Control, BlockParsed
<1>2. WriterDraft /\ Added /\ Sound(disk) /\ Sound(disk')
  BY <1>1 DEF Inv
<1>4. /\ disk.blocks \subseteq disk'.blocks /\ disk.transactions \subseteq disk'.transactions
      /\ \A b \in disk'.blocks :
           b \in disk.blocks \/ (b = row /\ \A q \in disk.blocks : q.slot # s)
      /\ \E b \in disk'.blocks : b.slot = s
  BY <1>1, <1>2 DEF WriterDraft, Added, Tables
<1>5. ASSUME NEW r \in Slots
      PROVE  StatusOf(r)' = IF r = s /\ StatusOf(r) = "none" THEN kind ELSE StatusOf(r)
  <2>1. /\ StatusOf(r)' = "none" <=> \A b \in disk'.blocks : b.slot # r
        /\ StatusOf(r)' = "skipped" <=> [slot |-> r, skipped |-> TRUE] \in disk'.blocks
        /\ StatusOf(r)' = "produced" <=> [slot |-> r, skipped |-> FALSE] \in disk'.blocks
        /\ StatusOf(r)' \in {"none", "skipped", "produced"}
    <3>1. StatusOf(r)' = StatusIn(disk', r)
      BY DEF StatusOf, StatusIn
    <3> QED BY <1>2, <3>1, StatusLaw
  <2>2. /\ StatusOf(r) = "none" <=> \A b \in disk.blocks : b.slot # r
        /\ StatusOf(r) = "skipped" <=> [slot |-> r, skipped |-> TRUE] \in disk.blocks
        /\ StatusOf(r) = "produced" <=> [slot |-> r, skipped |-> FALSE] \in disk.blocks
        /\ StatusOf(r) \in {"none", "skipped", "produced"}
    <3>1. StatusOf(r) = StatusIn(disk, r)
      BY DEF StatusOf, StatusIn
    <3> QED BY <1>2, <3>1, StatusLaw
  <2>3. CASE StatusOf(r) # "none"
    BY <1>4, <2>1, <2>2, <2>3
  <2>4. CASE StatusOf(r) = "none" /\ r # s
    <3>1. row.slot = s
      OBVIOUS
    <3> HIDE DEF row
    <3>2. \A b \in disk'.blocks : b.slot # r
      BY <1>4, <2>2, <2>4, <3>1
    <3> QED BY <2>1, <2>4, <3>2
  <2>5. CASE StatusOf(r) = "none" /\ r = s
    <3>1. row \in disk'.blocks
      BY <1>4, <2>2, <2>5
    <3> QED BY <1>1, <2>1, <2>5, <3>1
  <2> QED BY <2>3, <2>4, <2>5
<1>6. BlockStatus' = IF BlockStatus[s] = "none" THEN [BlockStatus EXCEPT ![s] = kind]
                     ELSE BlockStatus
  <2>1. BlockStatus' = [r \in Slots |-> StatusOf(r)']
    BY DEF BlockStatus, Slots
  <2> HIDE DEF kind
  <2> QED BY <1>1, <1>5, <2>1 DEF BlockStatus
<1>7. TxSlots' = IF kind = "produced" THEN TxSlots \cup {s} ELSE TxSlots
  <2>1. ASSUME NEW r \in Slots
        PROVE  Stored(r)' # {} <=> Stored(r) # {} \/ (r = s /\ ~block.skipped)
    <3>1. Stored(r)' = {p \in Positions(r) : Has(disk', Chain[r][p])}
      BY DEF Stored, Has, Positions
    <3>2. Stored(r) = {p \in Positions(r) : Has(disk, Chain[r][p])}
      BY DEF Stored, Has
    <3>3. \A t : Has(disk, t) => Has(disk', t)
      BY <1>4 DEF Has
    <3>4. ASSUME NEW p \in Positions(r), Has(disk', Chain[r][p]), ~Has(disk, Chain[r][p])
          PROVE  r = s /\ ~block.skipped
      <4>1. PICK x \in draft.transactions : x.signature = Chain[r][p]
        BY <1>1, <3>4 DEF Has
      <4>2. x \notin disk.transactions
        BY <3>4, <4>1 DEF Has
      <4>3. ~block.skipped /\ \E q \in Positions(s) : Chain[r][p] = Chain[s][q]
        BY <1>1, <1>2, <4>1, <4>2 DEF Added
      <4> QED BY <1>1, <4>3, ChainFacts
    <3>5. ASSUME r = s, ~block.skipped
          PROVE  \E p \in Positions(r) : Has(disk', Chain[r][p])
      <4>1. PICK p \in Positions(s) : p \notin Undecodable[s]
        BY <1>1, ChainFacts
      <4>2. p \in block.parsed \ left
        BY <1>1, <3>5, <4>1 DEF Inv, BlockParsed
      <4>3. Has(draft, Chain[s][p])
        BY <1>1, <1>2, <4>2 DEF WriterDraft
      <4> QED BY <1>1, <3>5, <4>3
    <3> QED BY <3>1, <3>2, <3>3, <3>4, <3>5
  <2>2. TxSlots' = {r \in Slots : Stored(r)' # {}}
    BY DEF TxSlots, Slots
  <2> QED BY <1>1, <2>1, <2>2 DEF TxSlots
<1>8. kind \in {"skipped", "produced"}
  OBVIOUS
<1> QED BY <1>1, <1>6, <1>7, <1>8 DEF Ledger!Store, BlockStatus, TxSlots

LEMMA LedgerStep ==
  ASSUME Inv, [Next]_vars
  PROVE  Ledger!Next \/ UNCHANGED <<BlockStatus, TxSlots, fate>>
<1>1. CASE CommitBlock
  <2>1. block.slot \in Slots
    BY <1>1 DEF CommitBlock, Inv, Control
  <2> QED BY <1>1, <2>1, StoreLedger DEF Ledger!Next
<1>2. CASE WriteFails
  <2>1. /\ block.slot \in Slots /\ fate[block.slot] = "open"
        /\ fate' = [fate EXCEPT ![block.slot] = "reported"] /\ disk' = disk
    BY <1>2 DEF WriteFails, Abandon, Rollback, Inv, Control
  <2>2. BlockStatus' = BlockStatus /\ TxSlots' = TxSlots
    BY <2>1, SameStatus DEF Has
  <2> QED BY <2>1, <2>2 DEF Ledger!Next, Ledger!Report, BlockStatus, TxSlots
<1>3. CASE Restart
  <2>1. fate' = [s \in Slots |-> "open"] /\ disk' = disk
    BY <1>3 DEF Restart, Abandon, Rollback
  <2>2. BlockStatus' = BlockStatus /\ TxSlots' = TxSlots
    BY <2>1, SameStatus DEF Has
  <2> QED BY <2>1, <2>2 DEF Ledger!Next, Ledger!Restart, BlockStatus, TxSlots
<1>4. CASE CommitSlot
  <2>1. disk' = Filled(disk, Min(listed)) /\ fate' = fate /\ Min(listed) \in Slots
    BY <1>4, MinMember, StoreAssumption
    DEF CommitSlot, Commit, writerVars, Inv, BackfillDraft, Control
  <2>2. Sound(disk) /\ Exact(disk)
    BY DEF Inv
  <2>3. /\ disk'["blocks"] = disk["blocks"]
        /\ disk'.transactions = {Updated(r, Min(listed)) : r \in disk.transactions}
    BY <2>1, <2>2, FilledTables DEF Tables
  <2>4. \A r \in disk.transactions : Updated(r, Min(listed)).signature = r.signature
    <3>1. \A r \in disk.transactions : r \in Rows["transactions"] /\ RowExact(r)
      BY <2>2, KeyFacts DEF Sound, Typed, Exact, Tables
    <3> QED BY <2>1, <3>1, UpdatedRow
  <2>5. \A t : Has(disk', t) <=> Has(disk, t)
    BY <2>3, <2>4 DEF Has
  <2> QED BY <2>1, <2>3, <2>5, SameStatus
<1>5. CASE ~CommitBlock /\ ~WriteFails /\ ~Restart /\ ~CommitSlot
  <2>1. disk' = disk /\ fate' = fate
    BY <1>5 DEF Next, Write, Backfill, Receive, InsertBlock, InsertTransaction,
         InsertLocks, InsertBalances, ListSlots, FetchFails, UpdateSlot, BackfillDone,
         BackfillFails, Begin, Execute, Rollback, writerVars, vars
  <2> QED BY <2>1, SameStatus DEF Has
<1> QED BY <1>1, <1>2, <1>3, <1>4, <1>5

(* Row by row and through any failure, write_block is one atomic step of   *)
(* SlotLedger, and the backfill is none.                                   *)
THEOREM StoreImplementsLedger == Spec => LedgerSteps
<1>1. Inv /\ [Next]_vars => [Ledger!Next]_(Ledger!ledger)
  BY LedgerStep DEF Ledger!ledger, BlockStatus, TxSlots
<1> QED BY <1>1, InvAlways, PTL DEF Spec, LedgerSteps
=============================================================================
