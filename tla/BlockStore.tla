----------------------------- MODULE BlockStore -----------------------------
(***************************************************************************)
(* What the blocks become in the database, row by row: parse_block and     *)
(* parse_transaction (pipeline/parser.rs) turn a fetched block into rows,  *)
(* write_block (pipeline/writer.rs) inserts them in one transaction, and   *)
(* bin/backfill_order.rs, a process of its own, puts positions on rows     *)
(* that were stored before there was a column for them.                    *)
(*                                                                         *)
(* Environment: the provider may lack a block it has at another time, and  *)
(* some transactions of a response may have a shape parse_transaction      *)
(* rejects; any statement may fail; each process may be killed.            *)
(***************************************************************************)
EXTENDS Sqlite, Integers, Sequences, FiniteSetsExt, Functions

CONSTANTS Chain,       \* slot -> the signatures of its block, in order
          Answers,     \* slot -> the outcomes get_block may return
          Undecodable, \* slot -> positions that parse_transaction may reject
          Keys,        \* signature -> its accountKeys, a set of
                       \*   [account_pubkey, is_writable]
          Movements,   \* the balances the chain may have: functions from
                       \*   signatures to [pre, post], each a function from
                       \*   account indices to [mint, amount]
          Unindexed,   \* slots an earlier version may have stored
          MaxRuns

Slots == DOMAIN Chain
Positions(s) == DOMAIN Chain[s]
Signatures == UNION {Range(Chain[s]) : s \in Slots}

ASSUME StoreAssumption ==
  /\ Slots \subseteq Nat
  /\ \A s \in Slots :
       /\ Chain[s] \in Seq(Signatures) /\ IsInjective(Chain[s])
       /\ \A r \in Slots \ {s} : Range(Chain[s]) \cap Range(Chain[r]) = {}
       \* a transaction of every block has the usual shape
       /\ \E p \in Positions(s) : p \notin Undecodable[s]
  \* a transaction names an account once
  /\ \A t \in Signatures : \A j, k \in Keys[t] :
       j.account_pubkey = k.account_pubkey => j = k
  \* balances are finite lists of amounts
  /\ \A m \in Movements : \A t \in Signatures :
       \A side \in {m[t].pre, m[t].post} :
         /\ IsFiniteSet(DOMAIN side)
         /\ \A a \in DOMAIN side : side[a].amount \in Nat
  /\ Answers \in [Slots -> SUBSET {"Skipped", "Fetched"}]
  /\ Unindexed \subseteq Slots
  /\ MaxRuns \in Nat \ {0}

VARIABLES moved,            \* what the chain has, one of Movements
          block, left,      \* the parsed block the writer holds, and its
                            \*   transactions that are still to be written
          writer,           \* the next statement of write_block
          fate, runs,       \* how each slot ended in this run of ingestion
          backfill,         \* the next step of backfill_order
          listed, missed    \* its list of slots; those it could not fetch

writerVars   == <<block, left, writer, fate, runs>>
backfillVars == <<backfill, listed, missed>>
vars == <<moved, disk, draft, owner, writerVars, backfillVars>>

-----------------------------------------------------------------------------
(* The rows of a transaction.                                              *)

(* mutants: positions counted after the filter; accounts of one side only  *)
PositionAmongParsed(s, p, parsed) == Cardinality({q \in parsed : q < p})
TxIndex(s, p, parsed) == p - 1
OpenedBefore(t) == DOMAIN moved[t].pre
Indices(t) == DOMAIN moved[t].pre \cup DOMAIN moved[t].post

Amount(side, a) == IF a \in DOMAIN side THEN side[a].amount ELSE 0

BalanceRow(t, a) ==
  LET pre == moved[t].pre
      post == moved[t].post
  IN  [signature |-> t, account_index |-> a,
       mint |-> IF a \in DOMAIN post THEN post[a].mint ELSE pre[a].mint,
       pre_amount |-> Amount(pre, a), post_amount |-> Amount(post, a)]

Balances(t) == {BalanceRow(t, a) : a \in Indices(t)}

Locks(t) == {[signature |-> t, account_pubkey |-> k.account_pubkey,
              is_writable |-> k.is_writable] : k \in Keys[t]}

TxRow(s, p, parsed) == [signature |-> Chain[s][p], slot |-> s,
                        tx_index |-> TxIndex(s, p, parsed)]

(* INSERT OR IGNORE: a row whose primary key is there already stays as it  *)
(* is.                                                                     *)
PrimaryKey == [blocks         |-> {"slot"},
               transactions   |-> {"signature"},
               account_locks  |-> {"signature", "account_pubkey"},
               token_balances |-> {"signature", "account_index"}]
Clash(table, q, r) == \A column \in PrimaryKey[table] : q[column] = r[column]
(* mutants: no primary key; INSERT OR REPLACE                              *)
InsertAlways(db, table, rows) == [db EXCEPT ![table] = @ \cup rows]
InsertOrReplace(db, table, rows) ==
  [db EXCEPT ![table] =
     {q \in @ : \A r \in rows : ~Clash(table, q, r)} \cup rows]
InsertOrIgnore(db, table, rows) ==
  [db EXCEPT ![table] =
     @ \cup {r \in rows : \A q \in @ : ~Clash(table, q, r)}]

(* What a version without the column tx_index has left of the slots S: its *)
(* default, -1.  Those in G it had first stored as skipped.                *)
OldTables(S, G) ==
  LET old == UNION {Range(Chain[s]) : s \in S}
  IN  [blocks         |-> {[slot |-> s, skipped |-> s \in G] : s \in S},
       transactions   |-> UNION {{[signature |-> t, slot |-> s, tx_index |-> -1] :
                                    t \in Range(Chain[s])} : s \in S},
       account_locks  |-> UNION {Locks(t) : t \in old},
       token_balances |-> UNION {Balances(t) : t \in old}]

NoBlock == [slot |-> 0, skipped |-> TRUE, parsed |-> {}]

Init == /\ moved \in Movements
        /\ \E S \in SUBSET Unindexed :
           \E G \in SUBSET {s \in S : "Skipped" \in Answers[s]} :
             disk = OldTables(S, G)
        /\ draft = disk /\ owner = "none"
        /\ block = NoBlock /\ left = {} /\ writer = "idle"
        /\ fate = [s \in Slots |-> "open"] /\ runs = 1
        /\ backfill = "idle" /\ listed = {} /\ missed = {}

-----------------------------------------------------------------------------
(* write_block.                                                            *)

Parse(s, outcome, dropped) ==
  IF outcome = "Skipped"
  THEN [slot |-> s, skipped |-> TRUE, parsed |-> {}]
  ELSE [slot |-> s, skipped |-> FALSE, parsed |-> Positions(s) \ dropped]

Receive(s) ==
  /\ writer = "idle" /\ fate[s] = "open"
  /\ \E o \in Answers[s], D \in SUBSET Undecodable[s] : block' = Parse(s, o, D)
  /\ left' = block'.parsed
  /\ writer' = "block"
  /\ UNCHANGED <<moved, disk, draft, owner, fate, runs, backfillVars>>

InsertBlock ==
  /\ writer = "block" /\ writer' = "transaction"
  /\ Begin("writer", InsertOrIgnore(disk, "blocks",
             {[slot |-> block.slot, skipped |-> block.skipped]}))
  /\ UNCHANGED <<moved, block, left, fate, runs, backfillVars>>

Current == Chain[block.slot][Min(left)]

InsertTransaction ==
  /\ writer = "transaction" /\ left # {} /\ writer' = "locks"
  /\ Execute(InsertOrIgnore(draft, "transactions",
               {TxRow(block.slot, Min(left), block.parsed)}))
  /\ UNCHANGED <<moved, owner, block, left, fate, runs, backfillVars>>

(* One statement a row; nobody sees the draft between two of them.         *)
InsertLocks ==
  /\ writer = "locks" /\ writer' = "balances"
  /\ Execute(InsertOrIgnore(draft, "account_locks", Locks(Current)))
  /\ UNCHANGED <<moved, owner, block, left, fate, runs, backfillVars>>

InsertBalances ==
  /\ writer = "balances" /\ writer' = "transaction"
  /\ Execute(InsertOrIgnore(draft, "token_balances", Balances(Current)))
  /\ left' = left \ {Min(left)}
  /\ UNCHANGED <<moved, owner, block, fate, runs, backfillVars>>

Idle == writer' = "idle" /\ block' = NoBlock /\ left' = {}

CommitBlock ==
  /\ writer = "transaction" /\ left = {}
  /\ Commit /\ Idle
  /\ fate' = [fate EXCEPT ![block.slot] = "stored"]
  /\ UNCHANGED <<moved, runs, backfillVars>>

InTransaction == writer \in {"transaction", "locks", "balances"}
Abandon == IF InTransaction THEN Rollback ELSE UNCHANGED <<disk, draft, owner>>

(* An error of any statement, or the busy timeout of the first: one line   *)
(* on stderr.                                                              *)
WriteFails == /\ writer # "idle"
              /\ Abandon /\ Idle
              /\ fate' = [fate EXCEPT ![block.slot] = "reported"]
              /\ UNCHANGED <<moved, runs, backfillVars>>

(* Ingestion ends or is killed, and is run again.                          *)
Restart == /\ runs < MaxRuns /\ runs' = runs + 1
           /\ Abandon /\ Idle
           /\ fate' = [s \in Slots |-> "open"]
           /\ UNCHANGED <<moved, backfillVars>>

-----------------------------------------------------------------------------
(* backfill_order.                                                         *)

ListSlots == /\ backfill \in {"idle", "done"} /\ backfill' = "fetch"
             /\ listed' = {b.slot : b \in {r \in disk.blocks : ~r.skipped}}
             /\ missed' = {}
             /\ UNCHANGED <<moved, disk, draft, owner, writerVars>>

(* mutant: break instead of continue                                       *)
GiveUp == listed' = {}
NextListed == listed' = listed \ {Min(listed)}

(* Skipped, Failed, or an answer without signatures.                       *)
FetchFails == /\ backfill = "fetch" /\ listed # {}
              /\ missed' = missed \cup {Min(listed)}
              /\ NextListed
              /\ UNCHANGED <<moved, disk, draft, owner, writerVars, backfill>>

(* UPDATE transactions SET tx_index = i WHERE signature = .. AND slot = s, *)
(* for every signature of the answer.                                      *)
PositionOf(s, t) == (CHOOSE p \in Positions(s) : Chain[s][p] = t) - 1
Updated(r, s) ==
  IF r.slot = s THEN [r EXCEPT !.tx_index = PositionOf(s, r.signature)] ELSE r

UpdateSlot ==
  /\ backfill = "fetch" /\ listed # {} /\ backfill' = "commit"
  /\ Begin("backfill", [disk EXCEPT !.transactions =
                          {Updated(r, Min(listed)) : r \in @}])
  /\ UNCHANGED <<moved, writerVars, listed, missed>>

CommitSlot == /\ backfill = "commit" /\ backfill' = "fetch"
              /\ Commit
              /\ NextListed
              /\ UNCHANGED <<moved, writerVars, missed>>

BackfillDone == /\ backfill = "fetch" /\ listed = {} /\ backfill' = "done"
                /\ UNCHANGED <<moved, disk, draft, owner, writerVars, listed,
                               missed>>

(* An error of a statement ends the program; or it is killed.              *)
BackfillFails == /\ backfill \in {"fetch", "commit"} /\ backfill' = "idle"
                 /\ IF backfill = "commit" THEN Rollback
                                           ELSE UNCHANGED <<disk, draft, owner>>
                 /\ UNCHANGED <<moved, writerVars, listed, missed>>

Write == \/ \E s \in Slots : Receive(s)
         \/ InsertBlock \/ InsertTransaction \/ InsertLocks \/ InsertBalances
         \/ CommitBlock \/ WriteFails \/ Restart
Backfill == \/ ListSlots \/ FetchFails \/ UpdateSlot \/ CommitSlot
            \/ BackfillDone \/ BackfillFails

Next == Write \/ Backfill

Spec == Init /\ [][Next]_vars

-----------------------------------------------------------------------------
Rows == [blocks         |-> [slot : Slots, skipped : BOOLEAN],
         transactions   |-> [signature : Signatures, slot : Slots,
                             tx_index : Nat \cup {-1}],
         account_locks  |-> UNION {Locks(t) : t \in Signatures},
         token_balances |-> UNION {Balances(t) : t \in Signatures}]
Typed(db) == \A table \in DOMAIN PrimaryKey :
               /\ db[table] \subseteq Rows[table]
               /\ \A q, r \in db[table] : Clash(table, q, r) => q = r

(* Every variable has its type; no table has two rows with one primary key *)
(* and the write lock is held by whoever is inside a transaction.          *)
TypeOK ==
  /\ moved \in Movements
  /\ Typed(disk) /\ Typed(draft)
  /\ writer \in {"idle", "block", "transaction", "locks", "balances"}
  /\ writer # "idle" => block.slot \in Slots /\ fate[block.slot] = "open"
  /\ writer \in {"locks", "balances"} => left # {}
  /\ left \subseteq block.parsed
  /\ fate \in [Slots -> {"open", "stored", "reported"}]
  /\ runs \in 1 .. MaxRuns
  /\ backfill \in {"idle", "fetch", "commit", "done"}
  /\ backfill = "commit" => listed # {}
  /\ listed \subseteq Slots /\ missed \subseteq Slots
  /\ owner = IF InTransaction THEN "writer"
             ELSE IF backfill = "commit" THEN "backfill" ELSE "none"
  /\ InTransaction => backfill # "commit"

Stored(s) == {p \in Positions(s) : \E r \in disk.transactions :
                                     r.signature = Chain[s][p]}

(* ADR-0003: a block is there whole or not at all.  Whatever fails or is   *)
(* killed, a produced block has all its transactions (but for those whose  *)
(* shape was rejected), and a stored transaction has its block, every lock *)
(* and every balance row.                                                  *)
WholeBlocks ==
  /\ \A s \in Slots :
       [slot |-> s, skipped |-> FALSE] \in disk.blocks \/ Stored(s) # {}
         => Positions(s) \ Undecodable[s] \subseteq Stored(s)
  /\ \A r \in disk.transactions :
       /\ \E b \in disk.blocks : b.slot = r.slot
       /\ Locks(r.signature) \subseteq disk.account_locks
       /\ Balances(r.signature) \subseteq disk.token_balances

(* "position within the block; -1 = unknown" (transactions.sql): parser    *)
(* and backfill, which count in different responses, agree on the position *)
(* of every transaction, and only rows of an earlier version are unknown.  *)
(* The scheduler and the order of trades rest on this.                     *)
PositionsExact ==
  \A r \in disk.transactions :
    \/ \E p \in Positions(r.slot) :
         Chain[r.slot][p] = r.signature /\ r.tx_index = p - 1
    \/ r.tx_index = -1 /\ r.slot \in Unindexed

(* "done" (backfill_order): the positions of every block are known, except *)
(* where a fetch failed and where a stale row says the slot was skipped.   *)
BackfillComplete ==
  backfill = "done" =>
    \A r \in disk.transactions :
      r.tx_index = -1 => \/ r.slot \in missed
                         \/ [slot |-> r.slot, skipped |-> TRUE] \in disk.blocks

Total(side, mint) ==
  MapThenSumSet(LAMBDA a : side[a].amount,
                {a \in DOMAIN side : side[a].mint = mint})
KeepsMints(t) ==
  \A a \in DOMAIN moved[t].pre \cap DOMAIN moved[t].post :
    moved[t].pre[a].mint = moved[t].post[a].mint

(* ADR-0008: the rows of a transaction add up to what it moved of each     *)
(* mint, through accounts it opened and closed, as long as none of its     *)
(* accounts is given another mint.                                         *)
DeltasExact ==
  \A t \in {r.signature : r \in disk.transactions} :
    LET rows == {r \in disk.token_balances : r.signature = t}
        mints == {r.mint : r \in rows}
    IN  KeepsMints(t) =>
          \A m \in mints :
            MapThenSumSet(LAMBDA r : r.post_amount - r.pre_amount,
                          {r \in rows : r.mint = m})
              = Total(moved[t].post, m) - Total(moved[t].pre, m)

(* Row by row and through any failure, write_block is the one atomic step  *)
(* SlotLedger takes it for, and the backfill is no step of it.             *)
StatusOf(s) ==
  IF [slot |-> s, skipped |-> TRUE] \in disk.blocks THEN "skipped"
  ELSE IF [slot |-> s, skipped |-> FALSE] \in disk.blocks THEN "produced"
  ELSE "none"
Ledger == INSTANCE SlotLedger WITH
            blocks  <- [s \in Slots |-> StatusOf(s)],
            txSlots <- {s \in Slots : Stored(s) # {}}
LedgerSteps == [][Ledger!Next]_(Ledger!ledger)
=============================================================================
