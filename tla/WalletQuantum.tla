--------------------------- MODULE WalletQuantum ---------------------------
(***************************************************************************)
(* The wallet's post-quantum spending keys (src/wallet/wallet_quantum.cpp).*)
(*                                                                         *)
(* A spend is signed with an XMSS key, a tree of one-time leaves.  A leaf  *)
(* that signs two different sighashes is broken, so the wallet must never  *)
(* hand out two signatures of one leaf, whatever fails and whenever the    *)
(* process dies.  The next unused leaf of a key lives in several places:   *)
(*                                                                         *)
(*   wallet.dat   quantumState     QUANTUM_STATE, receive index 0          *)
(*                indexState[k]    QUANTUM_INDEX_STATE, receive indices    *)
(*                                 (0 too), and QUANTUM_CHANGE_INDEX_STATE *)
(*                pending          QUANTUM_PENDING, one for the wallet     *)
(*   memory       mgr              m_quantum_manager, receive index 0      *)
(*   the stack    job              the manager and the reserved leaf of    *)
(*                                 the SignQuantumTransactionSighash call  *)
(*                                                                         *)
(* Every operation runs under cs_wallet, so only a crash gets between the  *)
(* steps of a signing call.  The SPHINCS+ half is stateless and is left    *)
(* out; a key's program is a function of the key, and only whether the     *)
(* program stored for index 0 is the one the HD root derives (hdMatch)     *)
(* matters.                                                                *)
(***************************************************************************)
EXTENDS Naturals

CONSTANTS
  Keys,            \* QuantumKeyRefs: receive and change indices
  Key0,            \* receive index 0
  MaxLeaf,         \* leaves of an XMSS tree (1024 in the code)
  Sighashes,       \* messages to sign
  None,            \* an absent record or manager
  InitWallets,     \* the kinds of wallet.dat the process may find
  CrashMayHappen,  \* the process may die inside a signing call
  EraseMayFail     \* whether erases of a record may fail: a set of choices

Leaves == 0 .. MaxLeaf          \* a key at leaf MaxLeaf is exhausted
Origins == {"legacy", "hd"}     \* m_quantum_key_origin: 0, QUANTUM_ORIGIN_HD_MASTER
WalletKinds == {"created", "foreign", "legacy", "imported"}
PCs == {"idle", "reserve", "xmss", "persist", "return"}

(* A packed key record: the leaf of the serialized XMSS secret, the        *)
(* encrypted flag, and where the key came from.                            *)
Records == [leaf : Leaves, enc : BOOLEAN, origin : Origins]

Rec(leaf, enc, origin) == [leaf |-> leaf, enc |-> enc, origin |-> origin]

(* A signing call: its key, the sighash, the leaf it reserved, the leaf    *)
(* its manager is at, and whether that manager is m_quantum_manager.       *)
Jobs == [key : Keys, msg : Sighashes, reserved : Leaves, leaf : Leaves, mem : BOOLEAN]

ASSUME WalletAssumption ==
  /\ Key0 \in Keys
  /\ MaxLeaf \in Nat \ {0}
  /\ None \notin Records /\ None \notin Nat /\ None \notin Jobs
  /\ InitWallets \subseteq WalletKinds
  /\ CrashMayHappen \in BOOLEAN /\ EraseMayFail \subseteq BOOLEAN

VARIABLES
  quantumState, indexState, pending, crypted,    \* wallet.dat
  running, unlocked, mgr, program, origin,       \* CWallet members
  pc, job,                                       \* the signing call
  hdMatch, setting,                              \* fixed: the wallet file, the faults
  released                                       \* signatures returned so far

dbVars == <<quantumState, indexState, pending, crypted>>
memVars == <<running, unlocked, mgr, program, origin>>
signVars == <<pc, job>>
vars == <<dbVars, memVars, signVars, hdMatch, setting, released>>

-----------------------------------------------------------------------------
(* Reading keys.                                                           *)

(* CWallet::TryGetTaprootDescriptorRootExtKey: the descriptor's private    *)
(* keys can be read.                                                       *)
HaveMaster == ~crypted \/ unlocked

(* UnpackQuantumBlobToManager: an encrypted payload needs vMasterKey.      *)
UnpackQuantumBlob(rec) == IF rec.enc /\ ~unlocked THEN None ELSE rec.leaf

(* Mutant: only receive indices look for a stored record.                  *)
LoadQuantumManager_DerivesAgain(k) ==
  IF k = Key0 /\ quantumState # None THEN UnpackQuantumBlob(quantumState)
  ELSE IF HaveMaster THEN 0 ELSE None

(* LoadQuantumManagerForKey: the key's own record, for index 0 the legacy  *)
(* record, or the key derived afresh from the HD root, at leaf 0.  The     *)
(* value is the leaf of the loaded manager, None when nothing loads.       *)
LoadQuantumManager(k) ==
  IF indexState[k] # None THEN UnpackQuantumBlob(indexState[k])
  ELSE IF k = Key0 /\ quantumState # None THEN UnpackQuantumBlob(quantumState)
  ELSE IF HaveMaster THEN 0 ELSE None

(* Which manager a signing call takes: m_quantum_manager for index 0 when  *)
(* it is loaded, otherwise one loaded for the call.                        *)
UsesMemory(k) == k = Key0 /\ mgr # None /\ program
SigningLeaf(k) == IF UsesMemory(k) THEN mgr ELSE LoadQuantumManager(k)

(* New records are encrypted when the wallet is encrypted and unlocked.    *)
Enc == crypted /\ unlocked

(* A record erase: it may fail, and the code goes on.                      *)
Erased(p) == IF setting.erasesFail THEN {None, p} ELSE {None}

-----------------------------------------------------------------------------
(* SignQuantumTransactionSighash, one step for each point at which a crash *)
(* leaves something different behind.                                      *)

(* RecoverPendingXmssDb succeeds: no pending leaf, or one below the leaf   *)
(* of the manager now signing.  Otherwise it needs set_xmss_index, which   *)
(* always fails, and the call returns false with nothing changed.          *)
RecoverPendingOk(leaf) == pending # None => pending < leaf

SignBegin(k, m) ==
  /\ running /\ pc = "idle"
  /\ SigningLeaf(k) # None
  /\ RecoverPendingOk(SigningLeaf(k))
  /\ pending' \in (IF pending = None THEN {None} ELSE Erased(pending))
  /\ pc' = "reserve"
  /\ job' = [key |-> k, msg |-> m, reserved |-> SigningLeaf(k),
             leaf |-> SigningLeaf(k), mem |-> UsesMemory(k)]
  /\ UNCHANGED <<quantumState, indexState, crypted, memVars, hdMatch, setting, released>>

(* The "quantum_sign_pending" transaction commits or fails.                *)
SignReserve ==
  /\ pc = "reserve"
  /\ \/ pending' = job.reserved /\ pc' = "xmss" /\ job' = job
     \/ pending' = pending /\ pc' = "idle" /\ job' = None
  /\ UNCHANGED <<quantumState, indexState, crypted, memVars, hdMatch, setting, released>>

(* Mutant: no guard, an early return leaves the pending record.            *)
GuardedReturn_NoGuard ==
  /\ pending' = pending
  /\ pc' = "idle" /\ job' = None

(* Leaving the call with QuantumPendingGuard armed.                        *)
GuardedReturn ==
  /\ pending' \in Erased(pending)
  /\ pc' = "idle" /\ job' = None

(* Mutant: the remaining-signatures check is missing.                      *)
SignXmss_NoExhaustion ==
  /\ pc = "xmss"
  /\ job' = [job EXCEPT !.leaf = @ + 1]
  /\ mgr' = IF job.mem THEN job.leaf + 1 ELSE mgr
  /\ pc' = "persist"
  /\ UNCHANGED <<dbVars, running, unlocked, program, origin, hdMatch, setting, released>>

(* XMSS sign: the leaf advances in the manager that signed.  An exhausted  *)
(* key yields an empty signature; any other failure a zero-filled one,     *)
(* caught because the leaf did not advance and set_xmss_index fails.       *)
SignXmss ==
  /\ pc = "xmss"
  /\ \/ /\ job.leaf < MaxLeaf
        /\ job' = [job EXCEPT !.leaf = @ + 1]
        /\ mgr' = IF job.mem THEN job.leaf + 1 ELSE mgr
        /\ pc' = "persist"
        /\ pending' = pending
     \/ GuardedReturn /\ mgr' = mgr
  /\ UNCHANGED <<quantumState, indexState, crypted, running, unlocked, program,
                 origin, hdMatch, setting, released>>

(* Mutants: the record is packed from the manager as it was before         *)
(* signing; for index 0 only INDEX_STATE is written.                       *)
SignPersist_OldLeaf ==
  /\ pc = "persist"
  /\ indexState' = [indexState EXCEPT ![job.key] = Rec(job.reserved, Enc, origin)]
  /\ pending' = None /\ pc' = "return"
  /\ UNCHANGED <<quantumState, crypted, memVars, job, hdMatch, setting, released>>

SignPersist_IndexStateOnly ==
  /\ pc = "persist"
  /\ indexState' = [indexState EXCEPT ![job.key] = Rec(job.leaf, Enc, origin)]
  /\ mgr' = IF job.key = Key0 THEN job.leaf ELSE mgr
  /\ pending' = None /\ pc' = "return"
  /\ UNCHANGED <<quantumState, crypted, running, unlocked, program, origin, job, hdMatch, setting, released>>

(* The "quantum_sign_persist" transaction.  Its body replaces the members  *)
(* for index 0 before the commit, so a failed commit leaves memory ahead   *)
(* of the file; a failed clone leaves no manager.                          *)
SignPersist ==
  /\ pc = "persist"
  /\ LET rec == Rec(job.leaf, Enc, origin) IN
     \/ /\ indexState' = [indexState EXCEPT ![job.key] = rec]
        /\ quantumState' = IF job.key = Key0 THEN rec ELSE quantumState
        /\ mgr' = IF job.key = Key0 THEN job.leaf ELSE mgr
        /\ program' = IF job.key = Key0 THEN TRUE ELSE program
        /\ pending' \in Erased(pending)
        /\ pc' = "return" /\ job' = job
     \/ /\ GuardedReturn
        /\ \/ UNCHANGED <<mgr, program>>
           \/ /\ job.key = Key0
              /\ program' = TRUE
              /\ mgr' \in {job.leaf, None}
        /\ UNCHANGED <<quantumState, indexState>>
  /\ UNCHANGED <<crypted, running, unlocked, origin, hdMatch, setting, released>>

(* The call returns true and the signature leaves the wallet.              *)
SignReturn ==
  /\ pc = "return"
  /\ released' = released \cup {[key |-> job.key, leaf |-> job.reserved, msg |-> job.msg]}
  /\ pc' = "idle" /\ job' = None
  /\ UNCHANGED <<dbVars, memVars, hdMatch, setting>>

-----------------------------------------------------------------------------
(* Loading, locking, unlocking, encrypting.                                *)

(* Mutant: the derived program is not compared with the stored one.        *)
UpgradeWrites_NoCompare(rec, master) ==
  IF rec # None /\ rec.origin # "hd" /\ master THEN 0 .. 2 ELSE {0}

(* MaybeUpgradeQuantumStateToHdOrigin, on a record just applied: when the  *)
(* stored program is the one the HD root derives, the key is derived again *)
(* and written over QUANTUM_STATE and then INDEX_STATE(0), outside of a    *)
(* transaction.  The value is how many of the two writes happen.           *)
UpgradeWrites(rec, master) ==
  IF rec # None /\ rec.origin # "hd" /\ master /\ hdMatch THEN 0 .. 2 ELSE {0}

StateAfter(n, rec, enc) == IF n > 0 THEN Rec(0, enc, "hd") ELSE rec

IndexAfter(n, enc) ==
  IF n = 2 THEN [indexState EXCEPT ![Key0] = Rec(0, enc, "hd")] ELSE indexState

OriginAfter(n, rec) == IF n = 2 THEN "hd" ELSE rec.origin

LeafAfter(n, rec) == IF n = 2 THEN 0 ELSE rec.leaf

(* The keys whose missing record a locked wallet can load and write.       *)
Backfillable(qs, is) ==
  {k \in Keys : is[k] = None /\ IF k = Key0 THEN ~qs.enc ELSE ~crypted}

(* LoadQuantumRecordsFromDatabase when QUANTUM_STATE exists: apply it,     *)
(* maybe upgrade it, then backfill the missing records S of the indices    *)
(* handed out so far (RepairQuantumReceiveIndexStates and                  *)
(* LoadQuantumChangeIndexStates).  The wallet is locked at this point.     *)
ApplyAndRepair(n) ==
  LET rec == quantumState
      qs == StateAfter(n, rec, FALSE)
      is == IndexAfter(n, FALSE)
      og == OriginAfter(n, rec)
  IN \E S \in SUBSET Backfillable(qs, is) :
       /\ indexState' = [k \in Keys |->
            IF k \in S THEN Rec(IF k = Key0 THEN qs.leaf ELSE 0, FALSE, og) ELSE is[k]]
       /\ quantumState' = IF Key0 \in S THEN Rec(qs.leaf, FALSE, og) ELSE qs
       /\ mgr' = IF rec.enc THEN None ELSE LeafAfter(n, rec)
       /\ program' = TRUE /\ origin' = og

LoadState ==
  /\ quantumState # None
  /\ \E n \in UpgradeWrites(quantumState, ~crypted /\ ~quantumState.enc) : ApplyAndRepair(n)

(* The same when there is no QUANTUM_STATE: only change indices are        *)
(* backfilled.                                                             *)
LoadNoState ==
  /\ quantumState = None
  /\ program' = FALSE /\ mgr' = None /\ origin' = "legacy"
  /\ \E S \in SUBSET {k \in Keys \ {Key0} : indexState[k] = None /\ ~crypted} :
       indexState' = [k \in Keys |-> IF k \in S THEN Rec(0, FALSE, "legacy") ELSE indexState[k]]
  /\ quantumState' = quantumState

Load ==
  /\ ~running
  /\ LoadState \/ LoadNoState
  /\ running' = TRUE
  /\ UNCHANGED <<pending, crypted, unlocked, signVars, hdMatch, setting, released>>

(* The wallet is unloaded between calls, or the process dies: inside a     *)
(* signing call the destructor of QuantumPendingGuard does not run.        *)
Forget ==
  /\ running' = FALSE /\ unlocked' = FALSE
  /\ mgr' = None /\ program' = FALSE /\ origin' = "legacy"
  /\ pc' = "idle" /\ job' = None
  /\ UNCHANGED <<dbVars, hdMatch, setting, released>>

Unload == running /\ pc = "idle" /\ Forget
Crash == CrashMayHappen /\ pc # "idle" /\ Forget

Lock ==
  /\ running /\ pc = "idle" /\ crypted
  /\ unlocked' = FALSE /\ mgr' = None
  /\ UNCHANGED <<dbVars, running, program, origin, signVars, hdMatch, setting, released>>

(* Unlock with the right passphrase re-reads QUANTUM_STATE, found to be    *)
(* rec, loads the manager, and maybe upgrades with n writes.               *)
UnlockFrom(rec, n) ==
  /\ quantumState' = StateAfter(n, rec, TRUE)
  /\ indexState' = IndexAfter(n, TRUE)
  /\ program' = (rec # None)
  /\ origin' = IF rec = None THEN origin ELSE OriginAfter(n, rec)

Unlock ==
  /\ running /\ pc = "idle" /\ crypted
  /\ unlocked' = TRUE
  /\ \E n \in UpgradeWrites(quantumState, TRUE) :
       /\ UnlockFrom(quantumState, n)
       /\ mgr' = IF quantumState = None THEN None ELSE LeafAfter(n, quantumState)
  /\ UNCHANGED <<pending, crypted, running, signVars, hdMatch, setting, released>>

(* EncryptQuantumKeysForWallet: only QUANTUM_STATE is rewritten, from the  *)
(* manager in memory, in the transaction that stores the master key.       *)
EncryptedState ==
  IF mgr # None /\ program THEN Rec(mgr, TRUE, origin) ELSE quantumState

(* EncryptWallet ends with Lock(), Unlock(), Lock().  A failure before the *)
(* commit asserts: the process dies with the file unchanged (Unload).      *)
EncryptWallet ==
  /\ running /\ pc = "idle" /\ ~crypted
  /\ crypted' = TRUE
  /\ \E n \in UpgradeWrites(EncryptedState, TRUE) : UnlockFrom(EncryptedState, n)
  /\ mgr' = None /\ unlocked' = FALSE
  /\ UNCHANGED <<pending, running, signVars, hdMatch, setting, released>>

-----------------------------------------------------------------------------
(* Handing out addresses.                                                  *)

(* EnsureQuantumStateForSpkmIndex (a new address, or one seen on chain):   *)
(* a missing record is loaded and written; for index 0 QUANTUM_STATE is    *)
(* written next, and that second write may not happen.                     *)
EnsureIndexState(k) ==
  /\ running /\ pc = "idle"
  /\ indexState[k] = None /\ LoadQuantumManager(k) # None
  /\ LET rec == Rec(LoadQuantumManager(k), Enc, origin) IN
     /\ indexState' = [indexState EXCEPT ![k] = rec]
     /\ \/ k = Key0 /\ quantumState' = rec /\ program' = TRUE
        \/ UNCHANGED <<quantumState, program>>
  /\ UNCHANGED <<pending, crypted, running, unlocked, mgr, origin, signVars, hdMatch, setting, released>>

(* EnsureQuantumKeysForReceive (getnewaddress): the members are set inside *)
(* the transaction, so they stay set when its commit fails.                *)
EnsureKeysForReceive ==
  /\ running /\ pc = "idle"
  /\ ~program /\ HaveMaster /\ quantumState = None
  /\ program' = TRUE /\ mgr' = 0 /\ origin' = "hd"
  /\ \/ /\ quantumState' = Rec(0, Enc, "hd")
        /\ indexState' = [indexState EXCEPT ![Key0] = Rec(0, Enc, "hd")]
     \/ UNCHANGED <<quantumState, indexState>>
  /\ UNCHANGED <<pending, crypted, running, unlocked, signVars, hdMatch, setting, released>>

-----------------------------------------------------------------------------
(* The wallet files the process may find: one created by this release      *)
(* (SetupDescriptorScriptPubKeyMans), a legacy index-0 key of an earlier   *)
(* release, at leaf l after l signatures, that is unrelated to the HD root *)
(* ("foreign") or derived from it ("legacy"), or a blank wallet into which *)
(* a descriptor with private keys was imported.                            *)
NoIndex == [k \in Keys |-> None]

InitCreated ==
  /\ crypted \in BOOLEAN /\ hdMatch = TRUE /\ released = {}
  /\ quantumState = Rec(0, crypted, "hd")
  /\ indexState = [NoIndex EXCEPT ![Key0] = quantumState]

InitLegacy(match) ==
  /\ crypted = FALSE /\ hdMatch = match
  /\ \E l \in {0, 1}, m \in Sighashes :
       /\ quantumState = Rec(l, FALSE, "legacy")
       /\ released = {[key |-> Key0, leaf |-> i, msg |-> m] : i \in 0 .. (l - 1)}
  /\ indexState = NoIndex

InitImported ==
  /\ crypted \in BOOLEAN /\ hdMatch = TRUE /\ released = {}
  /\ quantumState = None /\ indexState = NoIndex

Init ==
  /\ setting \in [kind : InitWallets, erasesFail : EraseMayFail]
  /\ \/ setting.kind = "created" /\ InitCreated
     \/ setting.kind = "foreign" /\ InitLegacy(FALSE)
     \/ setting.kind = "legacy" /\ InitLegacy(TRUE)
     \/ setting.kind = "imported" /\ InitImported
  /\ pending = None
  /\ running = FALSE /\ unlocked = FALSE
  /\ mgr = None /\ program = FALSE /\ origin = "legacy"
  /\ pc = "idle" /\ job = None

SignStep == SignReserve \/ SignXmss \/ SignPersist \/ SignReturn

Next ==
  \/ \E k \in Keys, m \in Sighashes : SignBegin(k, m)
  \/ SignStep
  \/ Load \/ Unload \/ Crash
  \/ Lock \/ Unlock \/ EncryptWallet
  \/ \E k \in Keys : EnsureIndexState(k)
  \/ EnsureKeysForReceive

Spec == Init /\ [][Next]_vars

-----------------------------------------------------------------------------
Signatures == [key : Keys, leaf : Leaves, msg : Sighashes]

(* The variables keep their types.                                         *)
TypeOK ==
  /\ quantumState \in Records \cup {None}
  /\ indexState \in [Keys -> Records \cup {None}]
  /\ pending \in Leaves \cup {None}
  /\ crypted \in BOOLEAN /\ running \in BOOLEAN /\ unlocked \in BOOLEAN
  /\ mgr \in Leaves \cup {None}
  /\ program \in BOOLEAN /\ hdMatch \in BOOLEAN
  /\ origin \in Origins
  /\ pc \in PCs /\ job \in Jobs \cup {None}
  /\ (pc = "idle") <=> (job = None)
  /\ released \subseteq Signatures
  /\ setting \in [kind : WalletKinds, erasesFail : BOOLEAN]

(* The files that MaybeUpgradeQuantumStateToHdOrigin leaves alone.         *)
SafeFile == setting.kind \in {"created", "foreign"}

(* No leaf of a key ever signs two different sighashes among the           *)
(* signatures SignQuantumTransactionSighash has returned, whatever the     *)
(* wallet file ("the collided address's XMSS leaves continue, no leaf is   *)
(* reused", test/functional/wallet_quantum_change_keyspace.py:229).        *)
NoLeafTwice ==
  \A r, s \in released : r.key = s.key /\ r.leaf = s.leaf => r.msg = s.msg

(* The same for the files that the HD-origin upgrade leaves alone: no leaf *)
(* is used twice, wherever the process dies and whatever write fails.      *)
LeafUsedOnce == SafeFile => NoLeafTwice

FileAhead ==
  \A r \in released :
    /\ indexState[r.key] # None => r.leaf < indexState[r.key].leaf
    /\ r.key = Key0 => quantumState # None /\ r.leaf < quantumState.leaf
    /\ r.key # Key0 => indexState[r.key] # None

(* Whatever happens next, a crash included, every record of a key in       *)
(* wallet.dat is already past every leaf released for that key: the        *)
(* reason for persisting before SignQuantumTransactionSighash returns.     *)
FileAheadOfReleased == SafeFile => FileAhead

(* The record LoadQuantumManagerForKey reads for k: for index 0 that is    *)
(* QUANTUM_STATE only while there is no INDEX_STATE(0).                    *)
StoredRecord(k) ==
  IF k = Key0 /\ indexState[k] = None THEN quantumState ELSE indexState[k]

(* No operation, restart included, deletes a key record or moves the one   *)
(* that signatures start from back to an earlier leaf, and QUANTUM_STATE   *)
(* is never behind it ("getting one-time-signature index rewind wrong is   *)
(* worse than this bug", wallet_quantum.cpp:183).  QUANTUM_STATE alone may *)
(* go back: encryptwallet writes it from a manager that failed commits     *)
(* left ahead of the file, and the next signature in the locked wallet     *)
(* starts from INDEX_STATE(0) and overwrites it.                           *)
IndexNeverRewinds ==
  [][SafeFile =>
       /\ \A k \in Keys :
            /\ indexState[k] # None => indexState'[k] # None
            /\ StoredRecord(k) # None => StoredRecord(k)'.leaf >= StoredRecord(k).leaf
       /\ quantumState' # None /\ quantumState'.leaf >= StoredRecord(Key0)'.leaf]_vars

(* The wallet signs as OneTimeKeys says: every signature a key releases    *)
(* uses a later leaf than all signatures it released before, across        *)
(* restarts, failed commits, locking and encryption.                       *)
OTK == INSTANCE OneTimeKeys WITH signatures <- IF SafeFile THEN released ELSE {}

SignsInLeafOrder == OTK!Spec

(* QuantumPendingGuard: for every kind of file, a signing call that the    *)
(* process survives, refused, failed or successful, leaves no wallet-wide  *)
(* pending record behind to block later calls, unless an erase fails.      *)
PendingErasedOnReturn ==
  [][~setting.erasesFail /\ pc # "idle" /\ pc' = "idle" /\ running' => pending' = None]_vars

(* Every leaf released for key k is below leaf.                            *)
Past(k, leaf) == \A r \in released : r.key = k => r.leaf < leaf

(* The keys at rest: memory is past what was released too, the two records *)
(* of index 0 are in step, and no record is one the upgrade would rewrite. *)
KeyInv ==
  /\ quantumState # None
  /\ hdMatch => quantumState.origin = "hd"
  /\ running => program /\ origin = quantumState.origin
  /\ mgr # None => Past(Key0, mgr)
  /\ indexState[Key0] # None =>
       /\ indexState[Key0].leaf <= quantumState.leaf
       /\ mgr # None => indexState[Key0].leaf <= mgr
  /\ indexState[Key0] = None /\ mgr # None => quantumState.leaf <= mgr

(* A signing call: until it returns, its leaf is past what was released    *)
(* and not behind the key's record; once persisted, the file is past it.   *)
JobInv ==
  /\ pc # "idle" => running
  /\ pc \in {"reserve", "xmss", "persist", "return"} => Past(job.key, job.reserved)
  /\ pc \in {"reserve", "xmss", "persist"} =>
       /\ indexState[job.key] # None => indexState[job.key].leaf <= job.reserved
       /\ job.key = Key0 /\ indexState[Key0] = None => quantumState.leaf <= job.reserved
       /\ job.leaf = IF pc = "persist" THEN job.reserved + 1 ELSE job.reserved
       /\ job.key = Key0 /\ mgr # None => job.mem
       /\ job.mem => job.key = Key0 /\ mgr = job.leaf
  /\ pc = "return" =>
       /\ indexState[job.key] # None /\ job.reserved < indexState[job.key].leaf
       /\ job.key = Key0 => job.reserved < quantumState.leaf /\ mgr # None /\ job.reserved < mgr

(* Why a leaf is used once: an inductive invariant, for files the upgrade  *)
(* leaves alone.  Every place a signing call can take its leaf from, in    *)
(* the file, in memory or on the stack, is past what was released.         *)
IInv == TypeOK /\ NoLeafTwice /\ FileAhead /\ KeyInv /\ JobInv
=============================================================================
