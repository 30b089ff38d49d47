# Byze: TLA+ models, checks and proofs

Byze is a fork of Bitcoin Core. It replaces SHA-256 proof of work by RandomX and
adds dual post-quantum signatures (XMSS and SPHINCS+) to spends and to blocks.
An XMSS key is a tree of one-time leaves: a leaf that signs two different
messages is broken. So Byze, unlike Bitcoin, has keys with state that must never
go backwards, in a wallet file, in memory and across crashes. It also has a
multi-threaded miner inside the node. The project models these parts, which are
new, and the parts of Bitcoin Core they rest on that are concurrent,
crash-sensitive or changed by the fork: the difficulty rules, the coins database
and the script check queue.

Paths below are relative to the C++ root `src/src/` unless they say otherwise.

## 1. Inventory

| Part | Where | State and concurrency | Here |
|---|---|---|---|
| Wallet post-quantum keys | `wallet/wallet_quantum.cpp`, `wallet/wallet.cpp`, `wallet/walletdb.cpp` | leaf counters in three record kinds and in memory; under `cs_wallet`; crashes | `WalletQuantum` |
| Block signer | `crypto/quantum_block_sign.cpp`, `crypto/quantum_safe.cpp` | one process-wide key, rotated; several threads | `BlockSigner` |
| In-process miner | `node/mining_controller.cpp`, `rpc/mining.cpp` | worker threads, shared work unit, RPC threads, tip callbacks, shutdown | `MiningController` |
| Quantum addresses | `wallet/scriptpubkeyman.cpp`, `wallet/wallet_quantum.cpp`, `wallet/wallet.cpp` | descriptor index, change base, cached records; failing writes, crashes | `QuantumAddresses` |
| Difficulty and block templates | `pow.cpp`, `arith_uint256.cpp`, `node/miner.cpp` | a chain, a clock, a template that ages | `PowRetarget`, `CompactBits` |
| Coins database | `coins.cpp`, `txdb.cpp`, `validation.cpp` | two caches over a database, batched flushes, crash replay | `CoinsFlush` |
| Script check queue | `checkqueue.h` | workers and masters, two condition variables | `CheckQueue` |
| Chain activation, validation signals, shutdown | `validation.cpp`, `validationinterface.cpp`, `init.cpp` | `cs_main`, scheduler thread | as the miner and the coins database see them |
| RandomX contexts, block signature policy, transaction download | `crypto/randomx_hash.cpp`, `net_processing.cpp`, `txrequest.cpp` | | not modelled, see section 8 |
| Everything else of Bitcoin Core | networking, mempool, script, indexes, RPC servers, GUI, tools, vendored libraries | inherited | not modelled, see section 8 |

`PROJECT.json` lists every part with its files ("components"), and the points
where the code is hard to test ("hazards") with the line and the properties that
cover each.

## 2. Modules

| Module | Contents |
|---|---|
| `OneTimeKeys` | abstract specification: a signer with one-time keys signs with increasing leaves |
| `WalletQuantum` | the wallet's keys |
| `BlockSigner` | the node's block signer |
| `MiningController` | the miner and what drives it |
| `QuantumAddresses` | which key an address of the wallet stands for |
| `CheckQueue` | the pool of threads that verifies scripts |
| `CoinsFlush` | unspent outputs in caches and on disk |
| `PowRetarget`, `CompactBits` | difficulty and block templates; the compact form of a target |
| `MC...` | an instance of each for TLC |
| `WalletQuantumProofs`, `BlockSignerProofs`, `MiningControllerProofs`, `CheckQueueProofs`, `PowRetargetProofs`, `QuantumAddressesProofs`, `CoinsFlushProofs`, `CompactBitsProofs` | theorems |

`WalletQuantum` and `BlockSigner` are both shown to implement `OneTimeKeys`
(`SignsInLeafOrder`), by TLC and by proof. The refinement mapping takes the
signatures that left the wallet (`released`), and for the block signer the
signatures it made (`signatures`), to the abstract set.
Operators named `X_Something` with a comment "Mutant" are wrong variants of `X`;
they show that a property depends on the code it is about and no specification
uses them.

### WalletQuantum

| State | Code |
|---|---|
| `quantumState`, `indexState[k]`, `pending` | records `QUANTUM_STATE`, `QUANTUM_INDEX_STATE` / `QUANTUM_CHANGE_INDEX_STATE`, `QUANTUM_PENDING` |
| `crypted`, `unlocked` | the wallet is encrypted, `vMasterKey` is there |
| `mgr`, `program`, `origin` | `m_quantum_manager` (its leaf), `m_quantum_program_bytes`, `m_quantum_key_origin` |
| `pc`, `job` | a running `SignQuantumTransactionSighash` and its local manager |
| `hdMatch` | whether the stored program is the one the HD root derives |
| `setting` | the kind of wallet file and whether erases may fail, fixed in a behaviour |
| `released` | signatures returned to a caller (ghost) |

A signing call is five steps, `SignBegin`, `SignReserve`, `SignXmss`,
`SignPersist`, `SignReturn`, cut where a crash leaves something different behind.
All other operations (`Load`, `Unload`, `Lock`, `Unlock`, `EncryptWallet`,
`EnsureIndexState`, `EnsureKeysForReceive`) run under `cs_wallet` and are one
step each. Where such an operation writes several records outside a
transaction, the step says how many of the writes happened (`UpgradeWrites`).
`Crash` ends a signing call at any step, with no destructor run.

A commit may fail, a single-record erase may fail (`EraseMayFail`), cloning the
manager may fail, XMSS may fail. The SPHINCS+ half is stateless and left out.
Left out too: a failure to begin the transaction in `EncryptWallet` (it returns with
nothing written, but with `mapMasterKeys` grown in memory, so that the wallet counts as
encrypted until it is loaded again), and records that do not deserialize.

Four kinds of wallet file are initial states: `created` by this release;
`foreign`, with a stored key that the HD root does not derive; `legacy`, a
version-1 record whose key the HD root does derive, at leaf 0 or 1; `imported`,
a wallet that was created blank and got its descriptors by import. `SafeFile`
holds of the first two: the HD upgrade leaves their records alone.

### BlockSigner

`AttachQuantumBlockSignatures` is `Attach` (with the unlocked read of
`g_block_signer_ready`), then `EnsureBlockSignerKeys` and one of `SignReady` and
`SignRotating`, each a body that runs wholly under `g_block_signer_mutex`.
`ThreadFails` is a `pthread_create` that fails. `GenerateFails` keeps the order
in which key generation replaces its parts: XMSS key, SPHINCS+ key, then the
public keys. A failed signature is zero-filled and of full size. `Restart`
forgets everything: the key is never written to disk. Keys are numbers, and fresh
because the seed is random. `faulty` says whether anything may fail in a
behaviour; the properties that are claimed without faults are conditional on it.

### MiningController

| State | Code |
|---|---|
| `blocks`, `invalid`, `tip` | block index, failed blocks, active tip |
| `pending` | `UpdatedBlockTip` events queued for the scheduler thread |
| `generation`, `work` | `m_tip_generation`, `m_work` |
| `context`, `listener` | `m_mining_context`, `m_tip_listener` |
| `shouldStop`, `active`, `threads`, `numThreads`, `found` | `m_should_stop`, `m_mining_active`, unjoined handles, `m_num_threads`, `m_blocks_found` |
| `mpc`, `unit`, `nonce`, `stride` | per mining thread: program point and locals of `MineBlock` |
| `cpc`, `spawned` | per RPC thread: program point in `StartMining` / `StopMining`, and the loop variable of the loop that starts the threads |

The RPC's tests (`CallStartMining`) and the calls of `StartMining` and `StopMining` are
cut at every access another thread can see: the test for old threads (`StartMining`),
context and listener, flags, `clear` and `reserve` of the vector (`ClearThreads`), one
`emplace_back` for each thread (`EmplaceBack`, `Started`); flag, join, tear-down, reset. A
mining thread is named by the call that starts it and its index. It
takes one step per critical section and per turn of the hash loop. `AcquireWork`
reads the generation, `CreateNewBlock` takes the tip, and `BuildWork` compares it
again, three steps under `m_work_mutex`. `MineBlock` returns at once when `DeriveTarget`
refuses the bits of the unit (`NoTarget`, for the parents in `Unminable`).

`m_mining_threads` is a vector without a lock, and two calls that use it at once are
undefined behaviour (`VectorRace`). The model then lets the process end
(`node = "aborted"`), the handle of a thread that is being stored be overwritten, so that
the thread runs without one, and `empty()` return either value. Other outcomes of the race,
such as a corrupted heap that goes unnoticed, are not modelled.

Abstractions: a block is its number; a header is a parent and a time, so two
units with the same parent and time are one header; `Winning` says which nonces
meet the target. An external block extends the tip. `ibd` is
`IsInitialBlockDownload`; `tip = 0` is the genesis exception. A quantum signature
that could not be attached shows up as a rejected block. Left out: metrics, hash
rate, `-miningdebugverify`, exceptions from `CreateNewBlock`, and the wait in
`LimitValidationInterfaceQueue`.

### QuantumAddresses

| State | Code |
|---|---|
| `fileNext`, `rangeEnd`, `active` | descriptor records `next_index`, `range_end`; the active change descriptor |
| `fileBase`, `flag`, `records` | `QUANTUM_CHANGE_BASE`, the wallet flag on file, keys with a state record |
| `next`, `base`, `flagSet`, `programs`, `scripts`, `listed` | the members of `CWallet` and `DescriptorScriptPubKeyMan` that mirror them |
| `pc`, `job` | the call that holds `cs_wallet` |
| `known`, `given`, `inherited` | ghosts: positions handed out or found, how often each descriptor handed out each key, the change keys an earlier release had handed out |
| `flagLost`, `unsaved`, `forgot` | ghosts: a failed write of the flag; descriptors whose last due write of `next_index` failed; the process ended with such a descriptor |

A hand-out is `GetNewDestination`, then `PinBase` and `SetFlag` for the first
change-space address, `PersistState`, and `Keep`; every write is a step that may
fail or be cut off by a crash (`Unload` at any `pc`). The result of `WriteDescriptor` is
not looked at (`wallet/scriptpubkeyman.cpp:875` and 984): when it fails, the call goes on with
`next_index` ahead of the file (`TakeIndex`). `ReturnDestination` gives a
change index back. `FoundOnChain` is `MarkUnusedAddresses` for an address within
the lookahead. `Load` has `LoadQuantumChangeIndexStates` and the repair of
receive records; `FindQuantumKey` is how an output is recognised. A wallet is
`created` by this release or `upgraded` from one without the change key space.
`ImportChange` is `importdescriptors` with a new active change descriptor. The
records are the `indexState` of `WalletQuantum`, here with their presence only.
A top-up is one transaction, which begins or does not. Left out: a write that fails inside
it, or its commit; ordinary destinations.

### CheckQueue

One step is one critical section of `Loop` under `m_mutex` (`Take`, `Wait`,
`Finish`, `Leave`), one execution of a batch, one `Add`, or one notification made
outside the lock. `wait` and `woken` are a thread asleep and one that was woken and has to
take the mutex again. `SpuriousWakeup` is allowed everywhere, `notify_one` picks any
sleeper. `control` is the holder of `m_control_mutex`. A check is its
number, and the error of a check that fails is the check.

### CoinsFlush

A coin is the height of the block that made it. An entry has a coin and the flags
DIRTY and FRESH; `FetchCoin`, `AddCoin`, `SpendCoin` and `MergeEntry` are the code
of `coins.cpp` on one outpoint. An operation on an outpoint leaves the others alone, so the
code's loops over the transactions of a block (`ConnectBlock`, `DisconnectBlock`,
`RollforwardBlock`) are one `Loop` for each outpoint, in the code's order.
`ConnectTip` and `DisconnectTip` build the block's
view over the cache and flush it into the cache. A flush is `WriteIndex`, any
number of `WritePartial` (each one atomic batch) and `WriteLast`. The restart is
`Start` or `ReplayBlocks`, which undoes the old branch (`ReplayBack`) and redoes the new
one (`ReplayForward`) a block at a time, `at` being the block it has got to, and then
flushes (`ReplayFlush`). `Crash` may come between any two steps, those of a replay included.

| State | Code |
|---|---|
| `dbCoins`, `dbBest`, `dbHeads` | `DB_COIN`, `DB_BEST_BLOCK`, `DB_HEAD_BLOCKS` |
| `indexed`, `known` | the block index on disk and in memory |
| `tip`, `cache`, `best` | `m_chain.Tip()`, `cacheCoins` and `hashBlock` of `CoinsTip` or of the replay's cache |
| `pc`, `keep`, `todo`, `at` | the flush or replay under way: `Flush` or `Sync`, what the cursor has not passed, `pindexOld` or the ancestor at `nHeight` |

`Utxo` is the reference: the unspent outputs of a chain by definition.
Where the code throws, the coin becomes `Broken`, which the invariants exclude.
`BlocksAssumption` is what validation makes sure of before a block is connected:
an output is made once and spent once on a chain, and in a block by a later
transaction than the one that made it.

The only fault is a crash. Writes that fail while the process goes on are left out: too
little disk space, a block file that cannot be flushed (which is only logged), a block
index that cannot be written, and a `WriteBatch` that throws. In the last case
`FlushStateToDisk` reports a fatal error and `Shutdown` flushes the same cache again, though the
cursor of a `Sync` has by then cleaned or erased entries that were not written
(`coins.h:288`). The properties say nothing of such a node; "hazards" lists it.

### PowRetarget and CompactBits

A chain of (bits, time) pairs grows by received blocks and by blocks mined from a
template. `GetNextWorkRequired`, `CalculateNextWorkRequired` and
`PermittedDifficultyTransition` keep the code's arithmetic modulo `Width` and its
rounding through compact bits. `CreateNewBlock` takes time and bits by
`NewHeader`; `UpdateTime` runs while the template is mined; a block must pass
`ContextualCheckBlockHeader` and `DeriveTarget` (`CanBeMined`). A network is a
record of parameters. Left out: the header's version; the tests of sign and overflow in
`DeriveTarget`, which bits made by `GetCompact` pass (`CompactFits`); a clock that is set back. `CompactBits` is `GetCompact` and `SetCompact` for any even base and
any mantissa of two digits or more; the shifts by whole digits multiply and divide by
`Power`. The proofs about `PowRetarget` use only that rounding goes down, is idempotent and
monotone, and makes no target zero (`PowAssumption`): TLC evaluates this for the instance, and `CompactRounds`
(section 6) proves it of `GetCompact` and `SetCompact`.

## 3. Runs

Runs that pass:

| Run | Checks | Shows |
|---|---|---|
| `wallet_safe` | `TypeOK`, `LeafUsedOnce`, `FileAheadOfReleased`, `IndexNeverRewinds`, `SignsInLeafOrder`, `PendingErasedOnReturn` | with crashes, failed commits and failed erases. For safe files: no leaf signs twice, the file is past what was released, no key record is deleted, and the record that signatures start from never goes back (`QUANTUM_STATE` may, while `QUANTUM_INDEX_STATE(0)` is there). For all files: `QuantumPendingGuard` cleans up on every exit unless its erase fails |
| `signer_faults` | `MarginUntouched`, `SignsInLeafOrder`, `KeysUsedUp`, `AttachedVerifies`, `CallsSucceed` | with every fault and restarts: leaves in order, the margin of the tree untouched. Without faults: one key for racing first callers, rotation only at the threshold, signatures that verify, calls that succeed |
| `mining_safe` | `TypeOK`, `StaleWorkIsNoticed`, `DisjointNonces`, `ContextOutlivesThreads`, `NoThreadIsOrphaned`, `StatusIsTrue` | one caller, two threads, peers' blocks, ageing work, rejections, a target that cannot be derived, shutdown |
| `mining_live` | `StopReturns` | one caller, under fairness, with reorganisations by `invalidateblock` |
| `mining_twocallers` | `ShutdownStopsMining` | two RPC threads in `startmining` and `stopmining` at once, with lost handles: a shutdown ends every mining thread |
| `addresses` | `TypeOK`, `OwnAddressesStayMine`, `AddressesNeverChange`, `HandedOutOnce`, `FlaggedBeforeUse` | handed-out addresses are recognised after every reload, keep their key and are not handed out twice, with failing writes, locking and crashes between writes; recognition and uniqueness until a process ends with a failed write of `next_index` not made good |
| `checkqueue` | `NothingRunsAfterwards`, `CompleteIsRight`, `CountsAreTrue`, `CompleteReturns`, `WorkersJoined` | results of a round are right and its own, nothing runs after it, no wake-up is missed |
| `coins` | `TypeOK`, `ReplayIsPossible`, `EntriesAreValid`, `DatabaseIsRight`, `CacheIsRight`, `InterruptedFlushEnds` | the database and the cache hold the unspent outputs of their tip, through reorganisations and crashes between batches |
| `pow` | `RequiredCanBeMined`, `DemandedIsPermitted`, `TemplateCanBeMade`, `TemplateStaysValid`, `RealDifficultyKept` | what validation demands, headers sync permits and mining can do agree; templates stay valid |

Runs that find the code at odds with something the repository says:

| Run | Property | What happens |
|---|---|---|
| `wallet_imported` | `NoLeafTwice` | with imported descriptors, index 0 is stored with the legacy origin; the HD upgrade at the next load rewrites it at leaf 0: sign, unload, load, sign |
| `addresses_import` | `AddressesStayMine` | after a new change descriptor is imported, the next load reads no change record, and change addresses handed out before are not recognised |
| `pow_genesis` | `TemplateCanBeMined` | stagenet and signet have a genesis target above `powLimit`; block 1 needs bits that `DeriveTarget` refuses |

The lines that each disagrees with are quoted under "findings" in `PROJECT.json`.

Related behaviours that a changed configuration or property shows; the properties
above are stated so as to leave them out, and "hazards" notes them at their line:

- `InitWallets = {"legacy"}` in `wallet_imported`: a used version-1 record of an
  earlier release is rewound the same way.
- `AttachedVerifies` with faults: a rotation that fails half-way leaves the signer
  ready with keys that do not match (`crypto/quantum_block_sign.cpp:101`); and
  `quantum_safe_manager::sign` returns a zero-filled signature of full size when
  XMSS fails, which the size test of the block signer accepts.
- `InvalidateMayHappen = TRUE` in `mining_safe`: `InvalidateBlock` moves the tip
  without an `UpdatedBlockTip`, so `StaleWorkIsNoticed` fails and the threads hash
  on the invalid parent until the unit is a minute old.
- `NoThreadIsOrphaned` in `mining_twocallers`: both callers pass the `IsMining` test and fill
  `m_mining_threads` at once; a handle is overwritten, and no `stopmining` reaches its thread.
- `StatusIsTrue` in `mining_twocallers`: both callers pass the `IsMining` test, one
  starts threads, the other resets `m_mining_active` and fails to create a context.
- `StopReturns` with two callers: a `startmining` that overlaps a `stopmining` clears
  `m_should_stop`, and the `join` waits for threads that mine on.
- `Shutdown` resets `chainman` (`node = "freed"`) while a thread may still be inside
  `MineBlock`: the threads end by themselves, and nothing waits for them.
- A thread starts over on the unit it has just solved until the callback has run,
  and `m_blocks_found` counts the block again.
- `HandedOutOnce` and `OwnAddressesStayMine` without `forgot`: a write of `next_index` fails
  unnoticed in `GetNewDestination`, the process ends, and after the restart the same
  index is handed out again; until then a change address lost this way is not recognised, as a
  load asks only for the change keys below `next_index`.
- `FlaggedBeforeUse` without `flagLost`: `SetWalletFlag` sets the flag in memory
  before it writes it, so after a failed write the next call hands out a change-space
  address with no flag on file.
- Testnet and testnet4 also have a genesis target above their limit; in their
  first period only minimum-difficulty blocks can be mined. With BIP94 (testnet4) the first
  retarget starts from that genesis target, and the product with the timespan overflows
  256 bits after 2^20 seconds; for some timespans the new target is then far below the
  limit. `RealDifficultyKept` without its premise on `old` shows this; the instance has such a
  genesis block.
- `RequiredCanBeMined` without its second exception: after a run of periods at the shortest
  timespan the target falls below `TargetTimespan / Shortest`, 4 on the networks of the code,
  and the next retarget makes it zero, which `DeriveTarget` refuses. The chain would stop. The
  instance gets there in three periods; on the main network the work per block would have to
  grow by a factor of about 2^234.

The comment on `QuantumPendingGuard` (`wallet/wallet_quantum.cpp:172`) says that a
pending record left by a crash blocks all signing for good. The model, and
`RecoverPendingXmssDb`, are milder: a key whose leaf is already past the pending
one signs and erases the record.

The type invariants of `BlockSigner`, `CheckQueue` and `PowRetarget` are part of
theorems (section 6) and not repeated in a run.

To repeat a run: `tlc -config WalletQuantum_safe.cfg MCWalletQuantum`.

## 4. Bounds

- Wallet: index 0 and one other key. Index 0 is the only key with two records
  and a manager in memory; all other indices, receive or change, behave alike.
  Two leaves: the second signature after a restart, and exhaustion. Two sighashes,
  which is what a reuse needs. Nothing bounds the number of operations.
- Block signer: two callers, two blocks, three leaves with the threshold at two,
  five calls: one whole tree, a rotation, and signatures with the second key.
- Miner: two threads (a stride other than one) with one caller, two blocks
  beyond the genesis block (a reorganisation needs two), nonces up to 2 with one
  winning (an odd range, so that one stride overshoots), time up to 2 with units
  of age 1. `MaxFound` caps the counter and `MaxBlocks` the chain: blocks beyond
  it are refused. `MaxBlocks` and the initial chain leave `pending` at most 2. With two
  callers each starts one thread and the chain does not grow; the
  name of a thread is used again only once that thread has ended.
- Addresses: one receive and two change indices are handed out, one more is looked ahead: a
  change base above zero with addresses on both sides of it, a returned index that is
  handed out again, and an address found ahead of `next_index`. The imported
  descriptor only takes the place of the old one.
- Check queue: two workers, two masters, two rounds, four checks, batches of two, two sets of
  failing checks: a round where one worker holds a batch while the other is
  idle, a failure in either, and a result that could leak into the next round.
- Coins: a chain of five blocks with a fork of two, four outpoints; a
  transaction that is in both branches at different heights, an output made and
  spent in one block, and a coin spent in one branch only.
- Difficulty: five networks, chains to height 9 with a period of three (three retargets
  after the soft launch), targets of twelve bits with a mantissa of two base-4
  digits, so that rounding loses bits and a product above the limit can overflow;
  block times at the earliest, the present and the latest value the rules accept.
- `CHECK_DEADLOCK FALSE` where a behaviour ends: the bound on calls in
  `signer_faults`, the process that ended in the run with two callers, the bounds on
  the chain and the clock in the difficulty runs.

Symmetry is used for sighashes only, in wallet runs, whose properties are all safety.

## 5. Fairness

- `BlockSigner`: weak fairness of each caller's steps. The mutex is held for a
  bounded computation only and calls hold nothing else.
- `MiningController`: weak fairness of each mining thread (`ThreadsRun`, enough for
  `ShutdownStopsMining`), and for `StopReturns` strong fairness of a
  call that has begun. A call waits only in `join`, and the `join` of a thread
  that has ended returns whatever other threads do next; weak fairness would
  let it be starved by steps that only change the model's enabledness. Nothing is
  assumed of the chain, the clock, the scheduler thread or the operator: `StopReturns` and
  `ShutdownStopsMining` hold even when callbacks never run.

- `CheckQueue`: weak fairness of each thread inside `Loop`, and of the notification,
  `Complete` and release of a master that has opened a round (`ConnectBlock`
  adds finitely many checks and then completes). Each only waits for a mutex
  that is held for a bounded time, or for a notification, which is what the
  property is about. No fairness of `Begin`, `Add`, `Stop` or spurious
  wake-ups.
- `CoinsFlush`: weak fairness of `WriteLast`, `ReplayBlocks` and the steps of a replay
  (`Replaying`): a flush or a replay runs to its end under `cs_main` unless the process dies. `InterruptedFlushEnds` says that an
  interrupted flush is finished unless crashes go on for ever.

## 6. Proofs

All proofs are checked by `tlapm`; theorems hold for every value of the
constants that satisfies the named assumptions (`WalletAssumption`,
`SignerAssumption`, `MiningAssumption`, `AddressAssumption`, `QueueAssumption`,
`PowAssumption`, `CompactBitsAssumption`, `TreeAssumption`, `BlocksAssumption`). Every invariant and action
property of a passing run has its theorem. Each inductive invariant was model-checked on
the instance of the component's run before it was proved.

**Wallet** (`WalletQuantumProofs`), for every kind of file; the properties of leaves speak of
safe files, `created` or `foreign`.

| Theorem | States |
|---|---|
| `WalletTypes` | always `TypeOK` |
| `WalletUsesLeavesOnce` | always `LeafUsedOnce` |
| `WalletFileIsAhead` | always `FileAheadOfReleased` |
| `WalletNeverRewinds` | `IndexNeverRewinds` |
| `WalletClearsPending` | `PendingErasedOnReturn` |
| `WalletImplementsOneTimeKeys` | `SignsInLeafOrder` |

The inductive invariant `IInv` adds `KeyInv` and `JobInv`. `LeafUsedOnce` says
nothing of the leaf the next call will take. A call may take it from memory, from
the index record, from the legacy record or from the HD root, so the invariant
says that each of these is past what was released *whenever it can be chosen*:
the two records of index 0 are ordered, memory is not behind the record, a key
without a record has released nothing. For a call under way, the reserved leaf is
not behind the record, and the manager it advances is the one in memory exactly
when index 0 is loaded. `hdMatch => origin = "hd"` is where `SafeFile` is used:
no record is one the upgrade would rewrite. The kind of file never changes, so
`SafeFile => IInv` is what the steps preserve. `WalletTypes` and `WalletClearsPending` do
not need it: the latter rests on `PendingInv`, that nothing is pending before a leaf is
reserved and after the guard has run.

**Block signer** (`BlockSignerProofs`), no further assumption.

| Theorem | States |
|---|---|
| `SignerTypes`, `SignerKeepsMargin` | always `TypeOK`, `MarginUntouched` |
| `SignerUsesKeysUp` | always `KeysUsedUp` |
| `SignerAttachesValidSignatures` | always `AttachedVerifies` |
| `SignerImplementsOneTimeKeys` | `SignsInLeafOrder`, with all faults and restarts |

The invariant `SInv` says that the leaf is past all signatures of the current key and
that keys not yet generated have signed nothing. The leaf stays at or below the
threshold because the test and the signature are one critical section. `GInv` holds while
nothing fails: the four parts of the key at hand are of the last generation, it has signed
with every leaf before the next, and each key before it with every leaf below the threshold.

**Miner** (`MiningControllerProofs`), with `invalidateblock` except where it says otherwise.

| Theorem | States | For |
|---|---|---|
| `MinerTypesHold` | always `TypeOK` | any number of callers |
| `MinerThreads`, `MinerSharesNonces` | always `NoThreadIsOrphaned`, `DisjointNonces` | one caller |
| `MinerKeepsContext`, `MinerStatus` | always `ContextOutlivesThreads`, `StatusIsTrue` | one caller |
| `MinerNoticesTips` | always `StaleWorkIsNoticed` | one caller, no `invalidateblock` |

The two restrictions are those of the code: section 3 lists what happens without them.
With one caller there is no race on the vector (`NoRace`), so a handle is kept for every
thread from its start to its join (`NextNoThreadIsOrphaned`).
The types need `ParentsKnown`: a unit, and the shared work, has a parent that is in the block
index, or else submitting it would not make a block of the tree.
`IInv` follows a unit from the moment its generation is read:
`UnitInv` says that no unit is newer than the generation, and that one of the
current generation is on the tip or a callback is queued. `SessionInv` says the
same of the shared unit while threads run, that the listener is registered
then (an event is not lost), and that a call that is setting up finds no thread,
and no unit of an earlier session. `StatusInv` relates the flags to the caller's
position. `NonceInv` says that all threads of a session have the same stride, the number
of threads, and that the nonce of each is its own number modulo the stride: different threads
are in different residue classes, whatever headers they hash.

**Addresses** (`QuantumAddressesProofs`), for every number of
indices of each descriptor, every keypool size, and a wallet upgraded with any
number of change addresses in use.

| Theorem | States |
|---|---|
| `AddressTypes` | always `TypeOK` |
| `AddressesAreRecognised` | always `OwnAddressesStayMine` |
| `AddressesKeepTheirKeys` | always `AddressesNeverChange` |
| `AddressesAreFresh` | always `HandedOutOnce` |
| `ChangeIsFlagged` | always `FlaggedBeforeUse` |

The properties relate an address to what the wallet holds now; a load replaces
that by what the file holds. So `Inv` states each fact twice, of memory and of the
file: a base on file is the one in memory and is not ahead of the next index
(`BaseIsPinned`), a known address has the key that its index stands for under
either base, and its record is on file (`PositionsAreRight`). These hold whatever write
fails. That the index of a known address is used up on file too (`Behind`, `KeptAt`) holds
but for the descriptors in `unsaved`, and is lost with `forgot`.
`JobIsRight` says what a call has written by the time it reaches each step, with
failing writes: the base before the flag, both before the record, the record before the
address is handed out. `GivenIsBehind` says that a key given out lies below the next
index, which is why a returned or reloaded index is not one of them. `Own` is
preserved only until `ImportChange`, and `active` never returns to the first
descriptor.

**Check queue** (`CheckQueueProofs`).

| Theorem | States |
|---|---|
| `QueueTypes` | always `TypeOK` |
| `QueueCounts` | always `CountsAreTrue` |
| `QueueCompletes` | always `CompleteIsRight` |
| `QueueIsQuietAfterwards` | always `NothingRunsAfterwards` |

`CInv` says that `nIdle` and `nTotal` are the cardinalities of the sets of threads
they count. A step moves one thread between these sets (`OneMoves`), while a
notification moves sleepers within one of them. `QInv` accounts for the checks: those in the
queue and in the batches are disjoint, `nTodo` is their number, and every failing check of the round
is either still among them or its error, or that of another check of the round, is in
`m_result`. The master may leave when `nTodo` is 0, hence when none is left, so
the result it takes is complete. A thread that skips its batch because it saw an error
relies on the error being in `m_result` already, which `Locals` states.

**Difficulty** (`PowRetargetProofs`, `CompactBitsProofs`).

| Theorem | States |
|---|---|
| `HeadersSyncPermits` | always `DemandedIsPermitted` |
| `DifficultyCanBeMined` | always `RequiredCanBeMined` |
| `DifficultySurvivesMinBlocks` | always `RealDifficultyKept` |
| `TemplateTypes`, `TemplateIsValid` | always `TypeOK`, `TemplateStaysValid` |
| `TemplateIsPossible` | always `TemplateCanBeMade` |
| `CompactRounds` | `SetCompact` of `GetCompact` never raises a target, is idempotent, keeps the order of targets and makes none zero |
| `CompactFits` | the two assertions of `GetCompact`: the sign bit of the mantissa is clear, the size fits |

The steps of the argument: the clamped timespan lies between the two that
`PermittedDifficultyTransition` uses; scaling and capping are monotone; rounding is
monotone and idempotent, so the demanded bits are between the rounded bounds. If the shortest
timespan does not scale a target to nothing, no other does (`ScaledNotZero`), and
rounding makes nothing zero, so the demanded bits can be mined (`Minable`).
`PInv` adds that blocks of the soft launch have the limit as their bits, which is what
makes the first period after it permitted. `PowAssumption` asks that a network
that retargets has no overflow from targets up to its limit, that a period has at least
two blocks, that a soft launch starts from bits at the limit and that BIP94 comes
with minimum-difficulty blocks; `kernel/chainparams.cpp` satisfies this for each
network. Nothing is assumed of the genesis target of the others, which may
be above the limit.

What `PowAssumption` asks of rounding is `CompactRounds`, for every target that a word
holds. A mantissa that would have its sign bit set gives up a digit, so precision
drops in the middle of a digit, not only from one size to the next. `WorthIs` finds that
a target is rounded down to a multiple of its `Unit`, the value of the lowest digit
kept, in each of the four combinations of short or long and sign bit set or clear. `Level` is
the least target with the same size and top bit. It is a multiple of the unit (`Levels`),
which needs the two digits: with one, the mantissa of a target with its top bit set would
become 0. So a rounded target keeps its level and unit, which gives idempotence. Of
two targets either both have the same unit or the lesser is below the level of the
greater (`SameLevel`), which gives monotonicity.

**Coins database** (`CoinsFlushProofs`), for every block tree, every set of outputs and
every list of transactions in each block.

| Theorem | States |
|---|---|
| `CoinsTypes` | always `TypeOK` |
| `FlushCanBeReplayed` | always `ReplayIsPossible` |
| `CacheEntriesAreValid` | always `EntriesAreValid` |
| `DatabaseHoldsUtxo` | always `DatabaseIsRight` |
| `CacheShowsUtxo` | always `CacheIsRight` |
| `TipDisconnectsCleanly` | whenever the node is idle, `DisconnectsCleanly` holds of its tip: the guard of `DisconnectTip` never blocks a reorganisation |

The argument has three layers.

- Entries. An entry above a coin is `Sound`: absent, a copy, a change to be written, or new
  to what is below. Each of `FetchCoin`, `SpendCoin`, `AddCoin`, `Overwrite` and
  `MergeEntry` takes sound entries to sound ones (`FetchSound` to `MergeSound`) and shows what it should.
- Blocks. Connecting, redoing or undoing a block gives each output it touches the right coin
  *whatever coin was there* and leaves the others alone (`ConnectSound`, `RollforwardSound`,
  `DisconnectSound`, by induction over the loop), and this is the difference between the
  unspent outputs before and after the block (`UtxoStep`, `BlockUtxo`).
- The transition. `FInv` says that each coin of a marked database is that of the old
  or of the new tip (`Stored`), that during a replay each coin seen is that of the block the
  replay has got to or of the new tip (`Above`), and that what a flush no longer has to
  write is in the database (`Flushing`). When the replay has got to the new tip the two
  are one. A crash in the replay's own flush leaves coins of the same two tips, since the
  mark keeps the old one (`OldTip`). `Places` and `Phases` keep track of what is on disk.

The library's induction theorems take an operator as a parameter, which the provers
cannot instantiate. The least element of a set of naturals
(`LeastExists`, from `WFMin`) serves instead: `SetInduction`, `LoopRule` for the recursive
function in `Loop`, and `TreeInduction` for chains of blocks are stated with sets.

## 7. Only model-checked

- Liveness (`CallsSucceed`, `StopReturns`, `ShutdownStopsMining`,
  `CompleteReturns`, `WorkersJoined`, `InterruptedFlushEnds`): fairness and
  `ENABLED` are outside what the prover handles.
- `StaleWorkIsNoticed` is false with `invalidateblock`, and `NoThreadIsOrphaned` and
  `StatusIsTrue` with several callers (section 3); `DisjointNonces` and
  `ContextOutlivesThreads` are proved and checked for one caller, since two that overlap race on
  `m_mining_threads`.

## 8. Not modelled

- RandomX contexts (`crypto/randomx_hash.cpp`): `MiningController` has a context that
  exists or not. The unlocked read of `randomx_initialized` and the zero hash of
  a failed initialisation are listed as hazards.
- The queue of `validationinterface.cpp` and the choice of the best chain in
  `validation.cpp`: the miner sees a count of queued events and a tip that moves.
- Block signature policy: a test on each block, without state between blocks.
- Transaction download (`txrequest.cpp`): an indexed container, compared upstream
  with a simple reference by a fuzz test.
- Writes to the coins database, the block index and the block files that fail while the
  process goes on (section 2); snapshots, pruning and memory accounting: a flush may
  happen after any block.
- Cryptography, serialization and file formats; script and transaction
  validation (functions of large data without state between calls); mempool
  and coin selection (optimisation over data); sockets and the message handler of
  `net_processing.cpp`; RPC, REST and ZMQ servers; GUI, its translations, and tools;
  vendored libraries.
- A wallet restored from its mnemonic starts every XMSS key at leaf 0 again, which
  `src/test/functional/wallet_quantum_change_keyspace.py:249` calls "a separate
  pre-existing restore hazard"; no model can make that safe, and none here claims it.
