---------------------------- MODULE CoinsFlush ------------------------------
(***************************************************************************)
(* The set of unspent outputs: the database, the cache in front of it, and *)
(* the way back after a crash in the middle of a flush.                    *)
(*                                                                         *)
(* coins.cpp keeps the changes of many blocks, reorganisations included,   *)
(* in a cache whose entries are DIRTY (differ from the database) and FRESH *)
(* (unknown to it: spending one forgets it).  txdb.cpp writes them in any  *)
(* number of batches, each atomic, between a mark that names the new and   *)
(* the old tip and the removal of the mark.  ReplayBlocks in               *)
(* validation.cpp undoes and redoes blocks on whatever mixture it finds.   *)
(*                                                                         *)
(* A coin is the height of the block that made it, which is what tells two *)
(* versions of an output apart.  cs_main is held throughout an operation,  *)
(* so only a crash comes between its steps.                                *)
(*                                                                         *)
(* The faults are crashes: a write that is made is made whole.  What the   *)
(* code does when one fails is left out: too little space for it, a block  *)
(* file or an index entry that cannot be written, and a WriteBatch that    *)
(* throws.  FlushStateToDisk then reports a fatal error and the node goes  *)
(* on to shut down, with a flush of its own from the same cache; by then   *)
(* the cursor of a Sync has cleaned or erased the entries of a batch that  *)
(* was not written.                                                        *)
(***************************************************************************)
EXTENDS Naturals, Sequences

CONSTANTS
  Blocks, Genesis, None,
  Parent, Height,  \* pprev and nHeight of the block tree
  Txs,             \* the transactions of a block, coinbase first
  Outpoints,
  Broken           \* what an operation that throws leaves

Spent == 0         \* no coin

(* A block and its ancestors: the least set with the block that has the    *)
(* parent of each of its members.                                          *)
Closed(S) == \A a \in S \ {Genesis} : Parent[a] \in S
Chain == [b \in Blocks |-> {a \in Blocks : \A S \in SUBSET Blocks : b \in S /\ Closed(S) => a \in S}]

Outs(b) == UNION {Txs[b][i].outs : i \in DOMAIN Txs[b]}
Ins(b) == UNION {Txs[b][i].ins : i \in DOMAIN Txs[b]}

(* The height at which an output of the chain of b was made.               *)
MadeAt(b, o) == Height[CHOOSE a \in Chain[b] : o \in Outs(a)]

(* The unspent outputs of a chain, by definition.                          *)
Utxo(b) ==
  [o \in Outpoints |->
     IF /\ b # None
        /\ \E a \in Chain[b] : o \in Outs(a)
        /\ ~\E a \in Chain[b] : o \in Ins(a)
     THEN MadeAt(b, o) ELSE Spent]

ASSUME TreeAssumption ==
  /\ Genesis \in Blocks /\ None \notin Blocks /\ Broken \notin Nat
  /\ Parent \in [Blocks \ {Genesis} -> Blocks]
  /\ Height \in [Blocks -> Nat] /\ Height[Genesis] = 0
  /\ \A b \in Blocks \ {Genesis} : Height[b] = Height[Parent[b]] + 1

(* What validation makes sure of in the blocks that it lets be connected:  *)
(* an output is made once and spent once on a chain (BIP30 and             *)
(* CheckTxInputs), in a block by a transaction behind the one that made it.*)
ASSUME BlocksAssumption ==
  /\ Txs \in [Blocks -> Seq([ins : SUBSET Outpoints, outs : SUBSET Outpoints, coinbase : BOOLEAN])]
  /\ Outs(Genesis) = {}
  /\ \A b \in Blocks : \A a \in Chain[b] \ {b} : Outs(a) \cap Outs(b) = {} /\ Ins(a) \cap Ins(b) = {}
  /\ \A b \in Blocks : Ins(b) \subseteq UNION {Outs(a) : a \in Chain[b]}
  /\ \A b \in Blocks : \A i, j \in DOMAIN Txs[b] :
       /\ i # j => /\ Txs[b][i].outs \cap Txs[b][j].outs = {}
                   /\ Txs[b][i].ins \cap Txs[b][j].ins = {}
       /\ Txs[b][i].outs \cap Txs[b][j].ins # {} => i < j

VARIABLES
  dbCoins, dbBest, dbHeads,  \* the coins database: DB_COIN, DB_BEST_BLOCK, DB_HEAD_BLOCKS
  indexed,                   \* blocks whose index entry and data are on disk
  running, tip, known,       \* m_chain.Tip(), m_block_index
  cache, best,               \* cacheCoins and hashBlock of CoinsTip or of the replay
  pc, keep,                  \* the flush in progress; the cache survives it (Sync)
  todo,                      \* entries not yet passed by the cursor
  at                         \* the block ReplayBlocks has got to

dbVars == <<dbCoins, dbBest, dbHeads>>
vars == <<dbVars, indexed, running, tip, known, cache, best, pc, keep, todo, at>>

-----------------------------------------------------------------------------
(* Cache entries.                                                          *)
NoEntry == [coin |-> Spent, dirty |-> FALSE, fresh |-> FALSE, is |-> FALSE]
Entry(c, d, f) == [coin |-> c, dirty |-> d, fresh |-> f, is |-> TRUE]
Empty == [o \in Outpoints |-> NoEntry]
Flagged(e) == e.is /\ (e.dirty \/ e.fresh)
Heights == {Height[b] : b \in Blocks} \cup {Spent, Broken}
Entries == [coin : Heights, dirty : BOOLEAN, fresh : BOOLEAN, is : BOOLEAN]

(* GetCoin: what an entry shows, on an output with coin b below; and what  *)
(* a cache shows on top of the coins below.                                *)
Seen(e, b) == IF e.is THEN e.coin ELSE b
Coins(e, below) == [o \in Outpoints |-> Seen(e[o], below[o])]

(* FetchCoin, on an output with coin b below.                              *)
FetchCoin(e, b) == IF ~e.is /\ b # Spent THEN Entry(b, FALSE, FALSE) ELSE e

(* Mutant: an entry that is not DIRTY is forgotten when it is spent.       *)
SpendCoin_CleanForgotten(e, b) ==
  LET f == FetchCoin(e, b)
  IN IF ~f.is \/ f.coin = Broken THEN f
     ELSE IF f.fresh \/ ~f.dirty THEN NoEntry ELSE Entry(Spent, TRUE, FALSE)

SpendCoin(e, b) ==
  LET f == FetchCoin(e, b)
  IN IF ~f.is \/ f.coin = Broken THEN f
     ELSE IF f.fresh THEN NoEntry ELSE Entry(Spent, TRUE, FALSE)

AddCoin(e, h, overwrite) ==
  IF ~overwrite /\ e.is /\ e.coin # Spent THEN Entry(Broken, TRUE, FALSE)
  ELSE Entry(h, TRUE, (~overwrite /\ ~e.dirty) \/ e.fresh)

(* Mutant: a coin that is FRESH in the child is FRESH in the parent.       *)
MergeEntry_FreshKept(c, p) ==
  IF ~c.dirty THEN p
  ELSE IF ~p.is THEN IF c.fresh /\ c.coin = Spent THEN NoEntry ELSE Entry(c.coin, TRUE, c.fresh)
  ELSE IF c.fresh /\ p.coin # Spent THEN Entry(Broken, TRUE, FALSE)
  ELSE IF p.fresh /\ c.coin = Spent THEN NoEntry
  ELSE Entry(c.coin, TRUE, p.fresh \/ c.fresh)

(* CCoinsViewCache::BatchWrite: the entry c of a child goes into p.        *)
MergeEntry(c, p) ==
  IF ~c.dirty THEN p
  ELSE IF ~p.is THEN IF c.fresh /\ c.coin = Spent THEN NoEntry ELSE Entry(c.coin, TRUE, c.fresh)
  ELSE IF c.fresh /\ p.coin # Spent THEN Entry(Broken, TRUE, FALSE)
  ELSE IF p.fresh /\ c.coin = Spent THEN NoEntry
  ELSE Entry(c.coin, TRUE, p.fresh)

-----------------------------------------------------------------------------
(* Blocks on a cache e above the coins below.  An operation on an output   *)
(* leaves the other outputs alone, so the loop over the transactions of a  *)
(* block is one loop for each output: step[i] is what transaction i does   *)
(* to its entry.                                                           *)
Loop(step, e, n) ==
  LET after[i \in 0 .. n] == IF i = 0 THEN e ELSE step[i][after[i - 1]]
  IN after[n]

(* UpdateCoins: inputs are spent, outputs added; only a coinbase may       *)
(* overwrite.                                                              *)
UpdateCoins(x, coin, o, tx, h) ==
  IF o \in tx.ins THEN SpendCoin(x, coin)
  ELSE IF o \in tx.outs THEN AddCoin(x, h, tx.coinbase) ELSE x

ConnectBlock(e, below, b) ==
  [o \in Outpoints |->
     Loop([i \in DOMAIN Txs[b] |-> [x \in Entries |->
             UpdateCoins(x, below[o], o, Txs[b][i], Height[b])]],
          e[o], Len(Txs[b]))]

(* AddCoin with the overwrite that HaveCoin asks for.                      *)
Overwrite(x, coin, h) == LET f == FetchCoin(x, coin) IN AddCoin(f, h, f.is /\ f.coin # Spent)

(* RollforwardBlock: the block may have been applied, wholly or in part.   *)
Reapply(x, coin, o, tx, h) ==
  IF o \in tx.ins THEN SpendCoin(x, coin)
  ELSE IF o \in tx.outs THEN Overwrite(x, coin, h) ELSE x

RollforwardBlock(e, below, b) ==
  [o \in Outpoints |->
     Loop([i \in DOMAIN Txs[b] |-> [x \in Entries |->
             Reapply(x, below[o], o, Txs[b][i], Height[b])]],
          e[o], Len(Txs[b]))]

(* DisconnectBlock: in reverse order, outputs are spent and inputs         *)
(* restored (ApplyTxInUndo) from the undo data of the block.               *)
Undo(x, coin, o, tx, h) ==
  IF o \in tx.outs THEN SpendCoin(x, coin)
  ELSE IF o \in tx.ins THEN Overwrite(x, coin, h) ELSE x

DisconnectBlock(e, below, b) ==
  [o \in Outpoints |->
     Loop([i \in DOMAIN Txs[b] |-> [x \in Entries |->
             Undo(x, below[o], o, Txs[b][Len(Txs[b]) + 1 - i], MadeAt(b, o))]],
          e[o], Len(Txs[b]))]

(* DISCONNECT_OK, for a block that is at the tip.  An output that the      *)
(* block makes and spends itself is restored and spent again: HaveCoin in  *)
(* ApplyTxInUndo finds none, as a block at the tip left none.              *)
DisconnectsCleanly(coins, b) ==
  /\ \A o \in Outs(b) \ Ins(b) : coins[o] = Height[b]
  /\ \A o \in Ins(b) \ Outs(b) : coins[o] = Spent

(* The cache after view, a child of it, was flushed into it; what the      *)
(* child looked up has been fetched.                                       *)
Merged(view, looked) ==
  [o \in Outpoints |->
     MergeEntry(view[o], IF o \in looked THEN FetchCoin(cache[o], dbCoins[o]) ELSE cache[o])]

-----------------------------------------------------------------------------
(* The running node.                                                       *)
Idle == running /\ pc = "idle"

(* A block arrives: its data and, in memory, its index entry.              *)
AcceptBlock(b) ==
  /\ Idle /\ b \notin known /\ (b # Genesis => Parent[b] \in known)
  /\ known' = known \cup {b}
  /\ UNCHANGED <<dbVars, indexed, running, tip, cache, best, pc, keep, todo, at>>

(* FlushStateToDisk(IF_NEEDED) at the end: the cache may be over its limit.*)
MaybeFlush == pc' \in {"idle", "index"} /\ keep' = FALSE /\ todo' = {}

(* ConnectTip.  The genesis block only sets the best block.                *)
ConnectTip(b) ==
  /\ Idle /\ b \in known /\ IF b = Genesis THEN tip = None ELSE tip = Parent[b]
  /\ cache' = Merged(ConnectBlock(Empty, Coins(cache, dbCoins), b), Ins(b) \cup Outs(b))
  /\ best' = b /\ tip' = b
  /\ MaybeFlush
  /\ UNCHANGED <<dbVars, indexed, running, known, at>>

DisconnectTip ==
  /\ Idle /\ tip \notin {None, Genesis}
  /\ DisconnectsCleanly(Coins(cache, dbCoins), tip)
  /\ cache' = Merged(DisconnectBlock(Empty, Coins(cache, dbCoins), tip), Ins(tip) \cup Outs(tip))
  /\ best' = Parent[tip] /\ tip' = Parent[tip]
  /\ MaybeFlush
  /\ UNCHANGED <<dbVars, indexed, running, known, at>>

(* A look-up by the mempool, and its Uncache.                              *)
AccessCoin(o) ==
  /\ Idle /\ cache' = [cache EXCEPT ![o] = FetchCoin(@, dbCoins[o])] /\ cache' # cache
  /\ UNCHANGED <<dbVars, indexed, running, tip, known, best, pc, keep, todo, at>>

Uncache(o) ==
  /\ Idle /\ cache[o].is /\ ~Flagged(cache[o])
  /\ cache' = [cache EXCEPT ![o] = NoEntry]
  /\ UNCHANGED <<dbVars, indexed, running, tip, known, best, pc, keep, todo, at>>

-----------------------------------------------------------------------------
(* FlushStateToDisk.                                                       *)
FlushStateToDisk ==
  /\ Idle /\ tip # None
  /\ pc' = "index" /\ keep' \in BOOLEAN
  /\ UNCHANGED <<dbVars, indexed, running, tip, known, cache, best, todo, at>>

ToWrite == {o \in Outpoints : Flagged(cache[o])}

(* Mutant: the index is not written first.                                 *)
WriteIndex_Later ==
  /\ pc = "index"
  /\ pc' = "coins" /\ todo' = ToWrite
  /\ UNCHANGED <<dbVars, indexed, running, tip, known, cache, best, keep, at>>

(* Block files, then the block index, before any coin refers to them.  The *)
(* tests of disk space and the failures of these writes are left out, that *)
(* of the block files included, which the code only logs.                  *)
WriteIndex ==
  /\ pc = "index"
  /\ indexed' = known
  /\ pc' = "coins" /\ todo' = ToWrite
  /\ UNCHANGED <<dbVars, running, tip, known, cache, best, keep, at>>

(* CCoinsViewDB::BatchWrite, one batch at a time.                          *)
Written(S) ==
  [o \in Outpoints |-> IF o \in S /\ cache[o].dirty THEN cache[o].coin ELSE dbCoins[o]]

OldTip == IF dbBest = None /\ dbHeads # <<>> THEN dbHeads[2] ELSE dbBest

(* Mutant: the mark names the new tip only.                                *)
WritePartial_NewTipOnly(S) ==
  /\ pc \in {"coins", "replay"} /\ S # {} /\ S \subseteq todo
  /\ dbCoins' = Written(S)
  /\ dbBest' = None /\ dbHeads' = <<best>>
  /\ todo' = todo \ S
  /\ UNCHANGED <<indexed, running, tip, known, cache, best, pc, keep, at>>

WritePartial(S) ==
  /\ pc \in {"coins", "replay"} /\ S # {} /\ S \subseteq todo
  /\ dbCoins' = Written(S)
  /\ dbBest' = None /\ dbHeads' = <<best, OldTip>>
  /\ todo' = todo \ S
  /\ UNCHANGED <<indexed, running, tip, known, cache, best, pc, keep, at>>

(* What Flush and Sync leave in the cache.                                 *)
AfterFlush ==
  [o \in Outpoints |->
     IF ~keep THEN NoEntry
     ELSE IF ~Flagged(cache[o]) THEN cache[o]
     ELSE IF cache[o].coin = Spent THEN NoEntry ELSE Entry(cache[o].coin, FALSE, FALSE)]

(* Mutant: the last batch leaves the mark.                                 *)
WriteLast_MarkKept ==
  /\ pc \in {"coins", "replay"}
  /\ dbCoins' = Written(todo)
  /\ dbBest' = best /\ dbHeads' = dbHeads
  /\ cache' = AfterFlush
  /\ tip' = best
  /\ todo' = {} /\ pc' = "idle" /\ keep' = FALSE
  /\ UNCHANGED <<indexed, running, known, best, at>>

(* The last batch removes the mark.  After a replay, LoadChainTip follows. *)
(* The entries leave the cache here; in the code those of a Sync are       *)
(* cleaned or erased as the cursor passes them, which a crash cannot tell  *)
(* from this, and a write that throws, left out, could.                    *)
WriteLast ==
  /\ pc \in {"coins", "replay"}
  /\ dbCoins' = Written(todo)
  /\ dbBest' = best /\ dbHeads' = <<>>
  /\ cache' = AfterFlush
  /\ tip' = best
  /\ todo' = {} /\ pc' = "idle" /\ keep' = FALSE
  /\ UNCHANGED <<indexed, running, known, best, at>>

-----------------------------------------------------------------------------
(* Crash and restart.                                                      *)
Crash ==
  /\ running
  /\ running' = FALSE
  /\ tip' = None /\ known' = indexed /\ cache' = Empty /\ best' = None
  /\ pc' = "idle" /\ keep' = FALSE /\ todo' = {} /\ at' = None
  /\ UNCHANGED <<dbVars, indexed>>

(* LoadChainTip on a consistent database.                                  *)
Start ==
  /\ ~running /\ dbHeads = <<>>
  /\ running' = TRUE /\ tip' = dbBest /\ best' = dbBest
  /\ UNCHANGED <<dbVars, indexed, known, cache, pc, keep, todo, at>>

(* ReplayBlocks.                                                           *)
LastCommonAncestor(a, b) ==
  CHOOSE c \in Chain[a] \cap Chain[b] : \A d \in Chain[a] \cap Chain[b] : Height[d] <= Height[c]

Fork == LastCommonAncestor(dbHeads[2], dbHeads[1])

(* Mutant: the old branch is not undone.                                   *)
ReplayBlocks_ForwardOnly ==
  /\ ~running /\ Len(dbHeads) = 2
  /\ dbHeads[1] \in known /\ dbHeads[2] \in known \cup {None}
  /\ running' = TRUE
  /\ at' = IF dbHeads[2] = None THEN Genesis ELSE Fork
  /\ pc' = "redo"
  /\ UNCHANGED <<dbVars, indexed, tip, known, cache, best, keep, todo>>

(* Back from the old tip to the fork, then on to the new tip: from the     *)
(* genesis block, height 0, when there is no old tip.                      *)
ReplayBlocks ==
  /\ ~running /\ Len(dbHeads) = 2
  /\ dbHeads[1] \in known /\ dbHeads[2] \in known \cup {None}
  /\ running' = TRUE
  /\ at' = IF dbHeads[2] = None THEN Genesis ELSE dbHeads[2]
  /\ pc' = IF dbHeads[2] = None \/ dbHeads[2] = Fork THEN "redo" ELSE "undo"
  /\ UNCHANGED <<dbVars, indexed, tip, known, cache, best, keep, todo>>

(* The genesis block is never disconnected.                                *)
ReplayBack ==
  /\ pc = "undo"
  /\ cache' = IF Height[at] > 0 THEN DisconnectBlock(cache, dbCoins, at) ELSE cache
  /\ at' = Parent[at]
  /\ pc' = IF Parent[at] = Fork THEN "redo" ELSE "undo"
  /\ UNCHANGED <<dbVars, indexed, running, tip, known, best, keep, todo>>

(* b is GetAncestor(nHeight) of the new tip.                               *)
ReplayForward(b) ==
  /\ pc = "redo" /\ b \in Chain[dbHeads[1]] /\ Height[b] = Height[at] + 1
  /\ cache' = RollforwardBlock(cache, dbCoins, b)
  /\ at' = b
  /\ UNCHANGED <<dbVars, indexed, running, tip, known, best, pc, keep, todo>>

(* SetBestBlock and Flush.                                                 *)
ReplayFlush ==
  /\ pc = "redo" /\ Height[at] = Height[dbHeads[1]]
  /\ best' = dbHeads[1] /\ at' = None
  /\ pc' = "replay" /\ todo' = ToWrite
  /\ UNCHANGED <<dbVars, indexed, running, tip, known, cache, keep>>

-----------------------------------------------------------------------------
Init ==
  /\ dbCoins = [o \in Outpoints |-> Spent] /\ dbBest = None /\ dbHeads = <<>>
  /\ indexed = {} /\ running = FALSE /\ tip = None /\ known = {}
  /\ cache = Empty /\ best = None /\ pc = "idle" /\ keep = FALSE /\ todo = {} /\ at = None

Next ==
  \/ \E b \in Blocks : AcceptBlock(b) \/ ConnectTip(b) \/ ReplayForward(b)
  \/ DisconnectTip
  \/ \E o \in Outpoints : AccessCoin(o) \/ Uncache(o)
  \/ FlushStateToDisk \/ WriteIndex \/ WriteLast
  \/ \E S \in SUBSET Outpoints : WritePartial(S)
  \/ Crash \/ Start \/ ReplayBlocks \/ ReplayBack \/ ReplayFlush

Spec == Init /\ [][Next]_vars

(* One thread runs a flush, and a restart, to its end unless it crashes.   *)
Replaying == ReplayBack \/ (\E b \in Blocks : ReplayForward(b)) \/ ReplayFlush
FairSpec == Spec /\ WF_vars(ReplayBlocks) /\ WF_vars(Replaying) /\ WF_vars(WriteLast)

-----------------------------------------------------------------------------
(* The variables keep their types.                                         *)
TypeOK ==
  /\ dbCoins \in [Outpoints -> Heights] /\ dbBest \in Blocks \cup {None}
  /\ dbHeads \in {<<>>} \cup (Blocks \X (Blocks \cup {None}))
  /\ indexed \subseteq Blocks /\ known \subseteq Blocks /\ running \in BOOLEAN
  /\ tip \in Blocks \cup {None} /\ best \in Blocks \cup {None}
  /\ cache \in [Outpoints -> Entries] /\ at \in Blocks \cup {None}
  /\ pc \in {"idle", "index", "coins", "undo", "redo", "replay"} /\ keep \in BOOLEAN /\ todo \subseteq Outpoints

(* A database that is not marked holds exactly the unspent outputs of the  *)
(* chain of its best block, whatever reorganisations, flushes, crashes in  *)
(* the middle of a flush and crashes in the middle of a replay went before *)
(* (BatchWrite, txdb.cpp:117 and 139; ReplayBlocks).                       *)
DatabaseIsRight ==
  dbHeads = <<>> => dbCoins = Utxo(dbBest)

(* Through the cache the node sees exactly the unspent outputs of its tip, *)
(* and no operation has thrown: no coin is overwritten, or FRESH and known *)
(* to the parent (coins.cpp:84 and 219).                                   *)
CacheIsRight ==
  Idle /\ tip # None => best = tip /\ Coins(cache, dbCoins) = Utxo(tip)

(* Entries are in one of the states coins.h:100 lists as valid, and a      *)
(* FRESH coin is one the database does not have: else spending it would    *)
(* leave it there for ever.                                                *)
EntriesAreValid ==
  \A o \in Outpoints : cache[o].is =>
    /\ cache[o].coin = Spent => cache[o].dirty # cache[o].fresh
    /\ cache[o].coin # Spent /\ cache[o].fresh => cache[o].dirty
    /\ pc \notin {"coins", "replay"} /\ cache[o].fresh => dbCoins[o] = Spent

(* An interrupted flush can be replayed: both its tips are in the block    *)
(* index on disk ("reorganization to unknown block requested",             *)
(* validation.cpp:4973), and no flush starts from the middle of another    *)
(* one's transition (assert(old_heads[0] == hashBlock), txdb.cpp:107).     *)
ReplayIsPossible ==
  dbHeads # <<>> =>
    /\ dbHeads[1] \in indexed /\ dbHeads[2] \in indexed \cup {None}
    /\ pc \in {"index", "coins", "replay"} => dbHeads[1] = best

(* Once crashes stop, a database in the middle of a transition does not    *)
(* stay there: the flush ends, or a restart replays it to the end          *)
(* (ReplayBlocks before LoadChainTip, node/chainstate.cpp:111).            *)
InterruptedFlushEnds ==
  <>[][~Crash]_vars => (dbHeads # <<>> ~> dbHeads = <<>>)
=============================================================================
