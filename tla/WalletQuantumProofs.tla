------------------------ MODULE WalletQuantumProofs ------------------------
(***************************************************************************)
(* Proofs about WalletQuantum.  For every kind of wallet file: types, and  *)
(* what a signing call leaves pending.  For the files the HD-origin        *)
(* upgrade leaves alone (created by this release, or legacy files whose    *)
(* index-0 key is not the one the HD root derives): leaves and records.    *)
(* Of the other two kinds the properties on leaves say nothing (see the    *)
(* run wallet_imported).                                                   *)
(***************************************************************************)
EXTENDS WalletQuantum, TLAPS

-----------------------------------------------------------------------------
(* Types, for every kind of file.                                          *)

(* A record made of a leaf, a flag and an origin.                          *)
LEMMA RecType ==
  ASSUME NEW l \in Leaves, NEW e \in BOOLEAN, NEW o \in Origins
  PROVE  /\ Rec(l, e, o) \in Records /\ Rec(l, e, o) # None
         /\ Rec(l, e, o).leaf = l /\ Rec(l, e, o).enc = e /\ Rec(l, e, o).origin = o
<1>1. Rec(l, e, o) = [leaf |-> l, enc |-> e, origin |-> o]
  BY Zenon DEF Rec
<1>2. Rec(l, e, o) \in Records
  BY <1>1 DEF Records
<1>. QED
  BY <1>1, <1>2, WalletAssumption

(* The fields of a record.                                                 *)
LEMMA RecFields ==
  ASSUME NEW r \in Records
  PROVE  r.leaf \in Leaves /\ r.enc \in BOOLEAN /\ r.origin \in Origins /\ r # None
BY Zenon, WalletAssumption DEF Records

(* Every kind of file satisfies the types.                                 *)
LEMMA InitTypes == Init => TypeOK
<1>. SUFFICES ASSUME Init PROVE TypeOK
  BY Zenon
<1>. USE WalletAssumption
<1>0. 0 \in Leaves /\ 1 \in Leaves /\ "hd" \in Origins /\ "legacy" \in Origins
  BY DEF Leaves, Origins
<1>1. /\ running = FALSE /\ unlocked = FALSE /\ mgr = None /\ program = FALSE
      /\ origin = "legacy" /\ pc = "idle" /\ job = None /\ pending = None
      /\ setting \in [kind : WalletKinds, erasesFail : BOOLEAN]
  BY Zenon DEF Init
<1>. SUFFICES /\ quantumState \in Records \cup {None}
              /\ indexState \in [Keys -> Records \cup {None}]
              /\ crypted \in BOOLEAN /\ hdMatch \in BOOLEAN /\ released \subseteq Signatures
  BY Zenon, <1>0, <1>1 DEF TypeOK, PCs
<1>2. NoIndex \in [Keys -> Records \cup {None}]
  BY Zenon DEF NoIndex
<1>3. CASE InitCreated
  <2>1. quantumState = Rec(0, crypted, "hd") /\ crypted \in BOOLEAN
    BY Zenon, <1>3 DEF InitCreated
  <2>2. quantumState \in Records
    BY Zenon, <1>0, <2>1, RecType
  <2>. QED
    BY Zenon, <1>2, <1>3, <2>2 DEF InitCreated
<1>4. ASSUME NEW b \in BOOLEAN, InitLegacy(b)
      PROVE  /\ quantumState \in Records \cup {None}
             /\ indexState \in [Keys -> Records \cup {None}]
             /\ crypted \in BOOLEAN /\ hdMatch \in BOOLEAN /\ released \subseteq Signatures
  <2>1. PICK l \in {0, 1}, m \in Sighashes :
          /\ quantumState = Rec(l, FALSE, "legacy")
          /\ released = {[key |-> Key0, leaf |-> i, msg |-> m] : i \in 0 .. (l - 1)}
    BY Zenon, <1>4 DEF InitLegacy
  <2>2. quantumState \in Records
    BY ZenonT(60), <1>0, <2>1, RecType
  <2>3. released \subseteq Signatures
    BY <2>1 DEF Signatures, Leaves
  <2>. QED
    BY Zenon, <1>2, <1>4, <2>2, <2>3 DEF InitLegacy
<1>5. CASE InitImported
  BY Zenon, <1>2, <1>5 DEF InitImported
<1>. QED
  BY Zenon, <1>3, <1>4, <1>5 DEF Init

(* Loading a key yields a leaf or nothing.                                 *)
LEMMA LoadedType ==
  ASSUME TypeOK, NEW k \in Keys
  PROVE  LoadQuantumManager(k) \in Leaves \cup {None}
<1>1. ASSUME NEW r \in Records PROVE UnpackQuantumBlob(r) \in Leaves \cup {None}
  BY Zenon, RecFields DEF UnpackQuantumBlob
<1>2. 0 \in Leaves
  BY WalletAssumption DEF Leaves
<1>. QED
  BY Zenon, <1>1, <1>2 DEF LoadQuantumManager, TypeOK

(* The signing call keeps the types.                                       *)
LEMMA SignTypes ==
  ASSUME TypeOK, SignStep \/ \E k \in Keys, m \in Sighashes : SignBegin(k, m)
  PROVE  TypeOK'
<1>. USE WalletAssumption
<1>e. Erased(pending) \subseteq Leaves \cup {None}
  BY Zenon DEF Erased, TypeOK
<1>1. ASSUME NEW k \in Keys, NEW m \in Sighashes, SignBegin(k, m) PROVE TypeOK'
  <2>1. SigningLeaf(k) \in Leaves
    BY Zenon, <1>1, LoadedType DEF SignBegin, SigningLeaf, UsesMemory, TypeOK
  <2>2. job' \in Jobs /\ job' # None
    <3>1. UsesMemory(k) \in BOOLEAN
      BY Zenon DEF UsesMemory
    <3>2. job' = [key |-> k, msg |-> m, reserved |-> SigningLeaf(k),
                  leaf |-> SigningLeaf(k), mem |-> UsesMemory(k)]
      BY Zenon, <1>1 DEF SignBegin
    <3>3. job' \in Jobs
      BY Zenon, <2>1, <3>1, <3>2 DEF Jobs
    <3>. QED
      BY Zenon, <3>3
  <2>3. pending' \in Leaves \cup {None}
    BY Zenon, <1>1, <1>e DEF SignBegin
  <2>. QED
    BY <1>1, <2>2, <2>3 DEF SignBegin, TypeOK, PCs, memVars
<1>2. CASE SignReserve
  BY <1>2 DEF SignReserve, TypeOK, PCs, memVars, Jobs
<1>3. CASE SignXmss
  <2>1. job \in Jobs /\ job # None
    BY Zenon, <1>3 DEF SignXmss, TypeOK
  <2>2. CASE /\ job.leaf < MaxLeaf
             /\ job' = [job EXCEPT !.leaf = @ + 1]
             /\ mgr' = IF job.mem THEN job.leaf + 1 ELSE mgr
             /\ pc' = "persist" /\ pending' = pending
    <3>1. job.leaf + 1 \in Leaves
      BY <2>1, <2>2 DEF Jobs, Leaves
    <3>2. job' \in Jobs /\ mgr' \in Leaves \cup {None}
      BY Zenon, <2>1, <2>2, <3>1 DEF Jobs, TypeOK
    <3>. QED
      BY <1>3, <2>2, <3>2 DEF SignXmss, TypeOK, PCs
  <2>3. CASE GuardedReturn /\ mgr' = mgr
    BY <1>3, <2>3, <1>e DEF SignXmss, GuardedReturn, TypeOK, PCs
  <2>. QED
    BY Zenon, <1>3, <2>2, <2>3 DEF SignXmss
<1>4. CASE SignPersist
  <2>1. job \in Jobs /\ job # None /\ job.leaf \in Leaves /\ job.key \in Keys
    BY Zenon, <1>4 DEF SignPersist, TypeOK, Jobs
  <2>2. Enc \in BOOLEAN
    BY Zenon DEF Enc
  <2>. DEFINE rec == Rec(job.leaf, Enc, origin)
  <2>3. rec \in Records
    BY Zenon, <2>1, <2>2, RecType DEF TypeOK
  <2>. HIDE DEF rec
  <2>4. /\ quantumState' \in Records \cup {None}
        /\ indexState' \in [Keys -> Records \cup {None}]
    <3>1. \/ UNCHANGED <<quantumState, indexState>>
          \/ /\ indexState' = [indexState EXCEPT ![job.key] = rec]
             /\ quantumState' = IF job.key = Key0 THEN rec ELSE quantumState
      BY Zenon, <1>4 DEF SignPersist, rec
    <3>. QED
      BY <2>3, <3>1 DEF TypeOK
  <2>5. mgr' \in Leaves \cup {None} /\ pending' \in Leaves \cup {None}
    BY Zenon, <1>4, <2>1, <1>e DEF SignPersist, GuardedReturn, TypeOK
  <2>6. program' \in BOOLEAN
    BY Zenon, <1>4 DEF SignPersist, TypeOK
  <2>7. pc' \in PCs /\ job' \in Jobs \cup {None} /\ (pc' = "idle" <=> job' = None)
    BY Zenon, <1>4, <2>1 DEF SignPersist, GuardedReturn, PCs
  <2>. QED
    BY Zenon, <1>4, <2>4, <2>5, <2>6, <2>7 DEF SignPersist, TypeOK
<1>5. CASE SignReturn
  <2>1. [key |-> job.key, leaf |-> job.reserved, msg |-> job.msg] \in Signatures
    BY Zenon, <1>5 DEF SignReturn, TypeOK, Jobs, Signatures
  <2>. QED
    BY <1>5, <2>1 DEF SignReturn, TypeOK, PCs, memVars, dbVars
<1>. QED
  BY Zenon, <1>1, <1>2, <1>3, <1>4, <1>5 DEF SignStep

(* What the HD-origin upgrade leaves behind, however many of its writes    *)
(* happen.                                                                 *)
LEMMA UpgradeTypes ==
  ASSUME TypeOK, NEW n, NEW rec \in Records, NEW e \in BOOLEAN
  PROVE  /\ StateAfter(n, rec, e) \in Records
         /\ IndexAfter(n, e) \in [Keys -> Records \cup {None}]
         /\ OriginAfter(n, rec) \in Origins /\ LeafAfter(n, rec) \in Leaves
<1>1. 0 \in Leaves /\ "hd" \in Origins
  BY WalletAssumption DEF Leaves, Origins
<1>2. Rec(0, e, "hd") \in Records
  BY Zenon, <1>1, RecType
<1>3. StateAfter(n, rec, e) \in Records
  BY Zenon, <1>2 DEF StateAfter
<1>4. IndexAfter(n, e) \in [Keys -> Records \cup {None}]
  BY Zenon, <1>2 DEF IndexAfter, TypeOK
<1>. QED
  BY Zenon, <1>1, <1>3, <1>4, RecFields DEF OriginAfter, LeafAfter

(* Loading keeps the types.                                                *)
LEMMA LoadTypes == ASSUME TypeOK, Load PROVE TypeOK'
<1>. USE WalletAssumption
<1>0. 0 \in Leaves /\ "legacy" \in Origins /\ FALSE \in BOOLEAN
  BY DEF Leaves, Origins
<1>1. /\ quantumState' \in Records \cup {None}
      /\ indexState' \in [Keys -> Records \cup {None}]
      /\ mgr' \in Leaves \cup {None} /\ program' \in BOOLEAN /\ origin' \in Origins
  <2>1. CASE LoadState
    <3>. DEFINE rec == quantumState
    <3>1. PICK n : ApplyAndRepair(n)
      BY Zenon, <2>1 DEF LoadState
    <3>2. rec \in Records
      BY Zenon, <2>1 DEF LoadState, TypeOK
    <3>. DEFINE qs == StateAfter(n, rec, FALSE)
               is == IndexAfter(n, FALSE)
               og == OriginAfter(n, rec)
    <3>3. /\ qs \in Records /\ is \in [Keys -> Records \cup {None}]
          /\ og \in Origins /\ LeafAfter(n, rec) \in Leaves
      BY Zenon, <1>0, <3>2, UpgradeTypes
    <3>4. qs.leaf \in Leaves
      BY Zenon, <3>3, RecFields
    <3>5. Rec(qs.leaf, FALSE, og) \in Records /\ Rec(0, FALSE, og) \in Records
      BY Zenon, <1>0, <3>3, <3>4, RecType
    <3>6. PICK S :
            /\ indexState' = [k \in Keys |->
                 IF k \in S THEN Rec(IF k = Key0 THEN qs.leaf ELSE 0, FALSE, og) ELSE is[k]]
            /\ quantumState' = IF Key0 \in S THEN Rec(qs.leaf, FALSE, og) ELSE qs
            /\ mgr' = IF rec.enc THEN None ELSE LeafAfter(n, rec)
            /\ program' = TRUE /\ origin' = og
      BY ZenonT(60), <3>1 DEF ApplyAndRepair
    <3>. HIDE DEF qs, is, og, rec
    <3>7. \A k \in Keys : Rec(IF k = Key0 THEN qs.leaf ELSE 0, FALSE, og) \in Records
      BY Zenon, <3>5
    <3>8. indexState' \in [Keys -> Records \cup {None}]
      BY Zenon, <3>3, <3>6, <3>7
    <3>. QED
      BY Zenon, <3>3, <3>5, <3>6, <3>8
  <2>2. CASE LoadNoState
    <3>1. PICK S : indexState' = [k \in Keys |-> IF k \in S THEN Rec(0, FALSE, "legacy") ELSE indexState[k]]
      BY Zenon, <2>2 DEF LoadNoState
    <3>2. Rec(0, FALSE, "legacy") \in Records
      BY Zenon, <1>0, RecType
    <3>3. indexState' \in [Keys -> Records \cup {None}]
      BY Zenon, <3>1, <3>2 DEF TypeOK
    <3>. QED
      BY Zenon, <1>0, <2>2, <3>3 DEF LoadNoState, TypeOK
  <2>. QED
    BY Zenon, <2>1, <2>2 DEF Load
<1>. QED
  BY Zenon, <1>1 DEF Load, signVars, TypeOK

(* Unlocking and encrypting read a record and maybe upgrade it.            *)
LEMMA UnlockTypes ==
  ASSUME TypeOK, NEW rec \in Records \cup {None}, NEW n, rec = None => n = 0, UnlockFrom(rec, n)
  PROVE  /\ quantumState' \in Records \cup {None}
         /\ indexState' \in [Keys -> Records \cup {None}]
         /\ program' \in BOOLEAN /\ origin' \in Origins
         /\ rec # None => LeafAfter(n, rec) \in Leaves
<1>1. CASE rec = None
  BY <1>1 DEF UnlockFrom, StateAfter, IndexAfter, TypeOK
<1>2. CASE rec # None
  <2>1. rec \in Records /\ TRUE \in BOOLEAN
    BY Zenon, <1>2
  <2>2. /\ StateAfter(n, rec, TRUE) \in Records
        /\ IndexAfter(n, TRUE) \in [Keys -> Records \cup {None}]
        /\ OriginAfter(n, rec) \in Origins /\ LeafAfter(n, rec) \in Leaves
    BY Zenon, <2>1, UpgradeTypes
  <2>. QED
    BY Zenon, <1>2, <2>2 DEF UnlockFrom
<1>. QED
  BY Zenon, <1>1, <1>2

(* So does the end of the process.                                         *)
LEMMA ForgetTypes == ASSUME TypeOK, Forget PROVE TypeOK'
  BY Zenon, WalletAssumption DEF Forget, dbVars, TypeOK, PCs, Origins

(* Locking, unlocking, encrypting and unloading keep the types.            *)
LEMMA LockTypes ==
  ASSUME TypeOK, Lock \/ Unlock \/ EncryptWallet \/ Unload \/ Crash
  PROVE  TypeOK'
<1>. USE WalletAssumption
<1>1. CASE Lock
  BY Zenon, <1>1 DEF Lock, dbVars, signVars, TypeOK
<1>2. CASE Unlock
  <2>1. PICK n \in UpgradeWrites(quantumState, TRUE) :
          /\ UnlockFrom(quantumState, n)
          /\ mgr' = IF quantumState = None THEN None ELSE LeafAfter(n, quantumState)
    BY Zenon, <1>2 DEF Unlock
  <2>2. quantumState = None => n = 0
    BY Zenon DEF UpgradeWrites
  <2>3. /\ quantumState' \in Records \cup {None}
        /\ indexState' \in [Keys -> Records \cup {None}]
        /\ program' \in BOOLEAN /\ origin' \in Origins /\ mgr' \in Leaves \cup {None}
    BY Zenon, <2>1, <2>2, UnlockTypes DEF TypeOK
  <2>. QED
    BY Zenon, <1>2, <2>3 DEF Unlock, signVars, TypeOK
<1>3. CASE EncryptWallet
  <2>1. EncryptedState \in Records \cup {None}
    BY Zenon, RecType DEF EncryptedState, TypeOK
  <2>2. PICK n \in UpgradeWrites(EncryptedState, TRUE) : UnlockFrom(EncryptedState, n)
    BY Zenon, <1>3 DEF EncryptWallet
  <2>3. EncryptedState = None => n = 0
    BY Zenon DEF UpgradeWrites
  <2>4. /\ quantumState' \in Records \cup {None}
        /\ indexState' \in [Keys -> Records \cup {None}]
        /\ program' \in BOOLEAN /\ origin' \in Origins
    BY Zenon, <2>1, <2>2, <2>3, UnlockTypes
  <2>. QED
    BY Zenon, <1>3, <2>4 DEF EncryptWallet, signVars, TypeOK
<1>4. CASE Unload \/ Crash
  BY Zenon, <1>4, ForgetTypes DEF Unload, Crash
<1>. QED
  BY Zenon, <1>1, <1>2, <1>3, <1>4

(* Handing out an address keeps the types.                                 *)
LEMMA EnsureTypes ==
  ASSUME TypeOK, EnsureKeysForReceive \/ \E k \in Keys : EnsureIndexState(k)
  PROVE  TypeOK'
<1>. USE WalletAssumption
<1>1. Enc \in BOOLEAN /\ 0 \in Leaves /\ "hd" \in Origins
  <2>1. 0 \in Leaves /\ "hd" \in Origins
    BY DEF Leaves, Origins
  <2>2. Enc \in BOOLEAN
    BY Zenon DEF Enc
  <2>. QED
    BY Zenon, <2>1, <2>2
<1>2. ASSUME NEW k \in Keys, EnsureIndexState(k) PROVE TypeOK'
  <2>. DEFINE rec == Rec(LoadQuantumManager(k), Enc, origin)
  <2>1. LoadQuantumManager(k) \in Leaves
    BY Zenon, <1>2, LoadedType DEF EnsureIndexState
  <2>2. rec \in Records
    BY Zenon, <1>1, <2>1, RecType DEF TypeOK
  <2>3. /\ indexState' = [indexState EXCEPT ![k] = rec]
        /\ \/ k = Key0 /\ quantumState' = rec /\ program' = TRUE
           \/ UNCHANGED <<quantumState, program>>
    BY Zenon, <1>2 DEF EnsureIndexState
  <2>. HIDE DEF rec
  <2>4. /\ quantumState' \in Records \cup {None}
        /\ indexState' \in [Keys -> Records \cup {None}]
    BY Zenon, <2>2, <2>3 DEF TypeOK
  <2>5. program' \in BOOLEAN
    BY Zenon, <2>3 DEF TypeOK
  <2>. QED
    BY Zenon, <1>2, <2>4, <2>5 DEF EnsureIndexState, signVars, TypeOK
<1>3. CASE EnsureKeysForReceive
  <2>1. Rec(0, Enc, "hd") \in Records
    BY Zenon, <1>1, RecType
  <2>2. /\ quantumState' \in Records \cup {None}
        /\ indexState' \in [Keys -> Records \cup {None}]
    BY <1>3, <2>1 DEF EnsureKeysForReceive, TypeOK
  <2>. QED
    BY Zenon, <1>1, <1>3, <2>2 DEF EnsureKeysForReceive, signVars, TypeOK
<1>. QED
  BY Zenon, <1>2, <1>3

(* Every step keeps the types.                                             *)
LEMMA NextTypes == ASSUME TypeOK, [Next]_vars PROVE TypeOK'
<1>1. CASE UNCHANGED vars
  BY ZenonT(60), <1>1 DEF vars, dbVars, memVars, signVars, TypeOK
<1>. QED
  BY Zenon, <1>1, SignTypes, LoadTypes, LockTypes, EnsureTypes DEF Next

(* Whatever kind of file the wallet finds, and whatever fails, its records *)
(* and members stay well formed, the leaf of every key within its tree.    *)
THEOREM WalletTypes == Spec => []TypeOK
  BY InitTypes, NextTypes, PTL DEF Spec

-----------------------------------------------------------------------------
(* QuantumPendingGuard.                                                    *)

(* Between the erase of an earlier record and the reservation, and once    *)
(* the call has persisted its leaf, no record is pending.                  *)
PendingInv ==
  ~setting.erasesFail /\ pc \in {"reserve", "return"} => pending = None

(* Every step keeps that, and a call that ends leaves nothing pending.     *)
LEMMA PendingStep ==
  ASSUME PendingInv, [Next]_vars
  PROVE  /\ PendingInv'
         /\ ~setting.erasesFail /\ pc # "idle" /\ pc' = "idle" /\ running' => pending' = None
<1>1. ASSUME NEW k \in Keys, NEW m \in Sighashes, SignBegin(k, m)
      PROVE  PendingInv' /\ pc' # "idle"
  BY Zenon, <1>1 DEF SignBegin, PendingInv, Erased
<1>2. CASE SignReserve
  BY Zenon, <1>2 DEF SignReserve, PendingInv
<1>3. CASE SignXmss
  BY Zenon, <1>3 DEF SignXmss, GuardedReturn, Erased, PendingInv
<1>4. CASE SignPersist
  BY Zenon, <1>4 DEF SignPersist, GuardedReturn, Erased, PendingInv
<1>5. CASE SignReturn
  BY Zenon, <1>5 DEF SignReturn, PendingInv, dbVars
<1>6. CASE Unload \/ Crash
  BY Zenon, <1>6 DEF Unload, Crash, Forget, PendingInv
<1>7. CASE /\ UNCHANGED <<pending, signVars, setting>>
  BY Zenon, <1>7 DEF PendingInv, signVars
<1>8. CASE \/ Load \/ Lock \/ Unlock \/ EncryptWallet \/ UNCHANGED vars
           \/ EnsureKeysForReceive \/ \E k \in Keys : EnsureIndexState(k)
  BY Zenon, <1>7, <1>8 DEF Load, Lock, Unlock, EncryptWallet, EnsureKeysForReceive,
     EnsureIndexState, vars, dbVars
<1>. QED
  BY Zenon, <1>1, <1>2, <1>3, <1>4, <1>5, <1>6, <1>8 DEF Next, SignStep

(* For every kind of file, and wherever a signing call fails: one that the *)
(* process survives leaves no pending record, unless an erase fails.       *)
THEOREM WalletClearsPending == Spec => PendingErasedOnReturn
<1>. DEFINE Clears ==
       ~setting.erasesFail /\ pc # "idle" /\ pc' = "idle" /\ running' => pending' = None
<1>1. Init => PendingInv
  BY Zenon DEF Init, PendingInv
<1>2. PendingInv /\ [Next]_vars => PendingInv' /\ [Clears]_vars
  BY Zenon, PendingStep
<1>3. Spec => [][Clears]_vars
  BY <1>1, <1>2, PTL DEF Spec
<1>. QED
  BY Zenon, <1>3 DEF PendingErasedOnReturn

-----------------------------------------------------------------------------
(* Leaves, for the files the upgrade leaves alone.                         *)

(* A file of a safe kind satisfies the inductive invariant.                *)
LEMMA InitIInv == ASSUME SafeFile, Init PROVE IInv
<1>. USE WalletAssumption DEF Init
<1>1. CASE InitCreated
  <2>1. /\ quantumState \in Records /\ quantumState # None
        /\ quantumState.origin = "hd"
    BY <1>1, RecType DEF InitCreated, Leaves, Origins
  <2>2. indexState \in [Keys -> Records \cup {None}] /\ indexState[Key0] = quantumState
    BY Zenon, <2>1, <1>1 DEF InitCreated, NoIndex
  <2>3. hdMatch \in BOOLEAN /\ crypted \in BOOLEAN /\ released = {}
    BY Zenon, <1>1 DEF InitCreated
  <2>4. running = FALSE /\ unlocked = FALSE /\ mgr = None /\ program = FALSE
        /\ origin = "legacy" /\ pc = "idle" /\ job = None /\ pending = None
    BY Zenon
  <2>5. TypeOK
    BY Zenon, InitTypes
  <2>6. quantumState.leaf <= quantumState.leaf
    BY <2>1 DEF Records, Leaves
  <2>. QED
    BY Zenon, <2>1, <2>2, <2>3, <2>4, <2>5, <2>6 DEF IInv, NoLeafTwice,
       FileAhead, KeyInv, JobInv
<1>2. CASE InitLegacy(FALSE)
  <2>1. PICK l \in {0, 1}, m \in Sighashes :
          /\ quantumState = Rec(l, FALSE, "legacy")
          /\ released = {[key |-> Key0, leaf |-> i, msg |-> m] : i \in 0 .. (l - 1)}
    BY Zenon, <1>2 DEF InitLegacy
  <2>2. quantumState \in Records
    BY <2>1 DEF Records, Rec, Leaves, Origins
  <2>3. indexState \in [Keys -> Records \cup {None}] /\ \A k \in Keys : indexState[k] = None
    BY Zenon, <1>2 DEF InitLegacy, NoIndex
  <2>4. crypted \in BOOLEAN /\ hdMatch = FALSE
    BY Zenon, <1>2 DEF InitLegacy
  <2>6. TypeOK
    BY Zenon, InitTypes
  <2>7. NoLeafTwice
    BY <2>1 DEF NoLeafTwice
  <2>8. \A r \in released : r.key = Key0 /\ r.leaf < quantumState.leaf
    BY <2>1 DEF Rec
  <2>9. FileAhead
    BY Zenon, <2>2, <2>3, <2>8 DEF FileAhead
  <2>. QED
    BY Zenon, <2>2, <2>3, <2>4, <2>6, <2>7, <2>9 DEF IInv, KeyInv, JobInv
<1>. QED
  BY Zenon, <1>1, <1>2 DEF SafeFile

(* Reading a key yields a leaf past everything released for it, and the    *)
(* leaf of its record when it has one.                                     *)
LEMMA LoadedLeaf ==
  ASSUME IInv, NEW k \in Keys, LoadQuantumManager(k) # None
  PROVE  /\ LoadQuantumManager(k) \in Leaves
         /\ Past(k, LoadQuantumManager(k))
         /\ indexState[k] # None => LoadQuantumManager(k) = indexState[k].leaf
         /\ k = Key0 /\ indexState[k] = None => LoadQuantumManager(k) = quantumState.leaf
BY WalletAssumption DEF IInv, TypeOK, FileAhead, LoadQuantumManager,
   KeyInv, UnpackQuantumBlob, Past, Records, Leaves

(* The upgrade never fires: only a legacy record that does not match the   *)
(* HD root can still be of legacy origin.                                  *)
LEMMA NoUpgrade ==
  ASSUME IInv, NEW rec, rec.origin = quantumState.origin, NEW master
  PROVE  UpgradeWrites(rec, master) = {0}
BY Zenon DEF IInv, KeyInv, UpgradeWrites

-----------------------------------------------------------------------------
(* Each action preserves the invariant.                                    *)

(* SignBegin preserves the inductive invariant.                            *)
LEMMA SignBeginInv ==
  ASSUME IInv, NEW k \in Keys, NEW m \in Sighashes, SignBegin(k,m)
  PROVE  IInv'
<1>. USE WalletAssumption
<1>1. /\ SigningLeaf(k) \in Leaves
      /\ Past(k, SigningLeaf(k))
      /\ indexState[k] # None => indexState[k].leaf <= SigningLeaf(k)
      /\ k = Key0 /\ indexState[k] = None => quantumState.leaf <= SigningLeaf(k)
      /\ UsesMemory(k) => k = Key0 /\ mgr = SigningLeaf(k)
      /\ k = Key0 /\ mgr # None => UsesMemory(k)
  BY LoadedLeaf DEF SignBegin, SigningLeaf, UsesMemory, IInv, KeyInv, TypeOK,
     Leaves, Records
<1>4. TypeOK'
  BY Zenon, SignTypes DEF IInv
<1>5. NoLeafTwice' /\ FileAhead' /\ KeyInv'
  BY Zenon DEF SignBegin, IInv, NoLeafTwice, FileAhead, KeyInv, Past, memVars
<1>6. JobInv'
  BY Zenon, <1>1 DEF SignBegin, IInv, JobInv, Past, memVars
<1>. QED
  BY Zenon, <1>4, <1>5, <1>6 DEF IInv

(* SignReserve preserves the inductive invariant.                          *)
LEMMA SignReserveInv == ASSUME IInv, SignReserve PROVE IInv'
<1>. USE WalletAssumption
<1>1. TypeOK'
  BY Zenon, SignTypes DEF SignStep, IInv
<1>2. NoLeafTwice' /\ FileAhead' /\ KeyInv'
  BY Zenon DEF SignReserve, IInv, NoLeafTwice, FileAhead, KeyInv, Past, memVars
<1>3. JobInv'
  BY Zenon DEF SignReserve, IInv, JobInv, Past, memVars
<1>. QED
  BY Zenon, <1>1, <1>2, <1>3 DEF IInv

(* SignXmss preserves the inductive invariant.                             *)
LEMMA SignXmssInv == ASSUME IInv, SignXmss PROVE IInv'
<1>. USE WalletAssumption
<1>1. TypeOK'
  BY Zenon, SignTypes DEF SignStep, IInv
<1>2. NoLeafTwice' /\ FileAhead' /\ KeyInv'
  BY DEF SignXmss, GuardedReturn, Erased, IInv, NoLeafTwice, FileAhead,
     KeyInv, Past, memVars, TypeOK, Jobs, Leaves, Records, JobInv, Signatures
<1>3. JobInv'
  BY DEF SignXmss, GuardedReturn, Erased,IInv, JobInv, Past, memVars, TypeOK, Jobs,
     Leaves
<1>. QED
  BY Zenon, <1>1, <1>2, <1>3 DEF IInv

(* SignPersist preserves the inductive invariant.                          *)
LEMMA SignPersistInv == ASSUME IInv, SignPersist PROVE IInv'
<1>. USE WalletAssumption
<1>0. TypeOK'
  BY Zenon, SignTypes DEF SignStep, IInv
<1>. DEFINE rec == Rec(job.leaf, Enc, origin)
<1>1. rec \in Records /\ rec.leaf = job.leaf /\ rec.origin = origin /\ rec # None
  BY DEF SignPersist, Rec, Enc, Records, IInv, TypeOK, Jobs
<1>2. /\ job \in Jobs /\ pc = "persist" /\ running /\ program /\ program \in BOOLEAN
      /\ job.leaf \in Leaves /\ job.reserved \in Leaves /\ job.leaf = job.reserved + 1
      /\ job.key \in Keys
  BY Zenon DEF SignPersist, IInv, TypeOK, KeyInv, JobInv, Jobs
<1>3. Past(job.key, job.reserved) /\ Past(job.key, job.leaf)
  BY <1>2 DEF IInv, JobInv, Past, TypeOK, Signatures, Leaves
<1>4. CASE
        /\ indexState' = [indexState EXCEPT ![job.key] = rec]
        /\ quantumState' = IF job.key = Key0 THEN rec ELSE quantumState
        /\ mgr' = IF job.key = Key0 THEN job.leaf ELSE mgr
        /\ program' = IF job.key = Key0 THEN TRUE ELSE program
        /\ pending' \in Erased(pending)
        /\ pc' = "return" /\ job' = job
        /\ UNCHANGED <<crypted, running, unlocked, origin, hdMatch, setting, released>>
  <2>. HIDE DEF rec
  <2>1. program' \in BOOLEAN /\ program'
    BY <1>2, <1>4, Zenon
  <2>4. NoLeafTwice' /\ FileAhead'
    BY SMTT(30), <1>1, <1>2, <1>4, <1>3 DEF IInv, NoLeafTwice, FileAhead, Past,
       TypeOK, Signatures
  <2>5. KeyInv'
    BY SMTT(30), <1>1, <1>2, <1>4, <1>3, <2>1 DEF IInv, KeyInv, Past, TypeOK, Leaves, Records
  <2>6. JobInv'
    BY SMTT(30), <1>1, <1>2, <1>4, <1>3 DEF IInv, JobInv, Past, TypeOK, Leaves
  <2>. QED
    BY Zenon, <1>0, <2>4, <2>5, <2>6 DEF IInv
<1>5. CASE
        /\ GuardedReturn
        /\ \/ UNCHANGED <<mgr, program>>
           \/ /\ job.key = Key0
              /\ program' = TRUE
              /\ mgr' \in {job.leaf, None}
        /\ UNCHANGED <<quantumState, indexState>>
        /\ UNCHANGED <<crypted, running, unlocked, origin, hdMatch, setting, released>>
  <2>2. NoLeafTwice' /\ FileAhead'
    BY Zenon, <1>2, <1>5 DEF IInv, NoLeafTwice, FileAhead
  <2>3. KeyInv'
    <3>1. CASE UNCHANGED <<mgr, program>>
      BY Zenon, <3>1, <1>5 DEF IInv, KeyInv, Past
    <3>2. CASE job.key = Key0 /\ program' = TRUE /\ mgr' \in {job.leaf, None}
      <4>1. indexState[Key0] # None => indexState[Key0].leaf <= job.leaf
        BY <3>2, <1>2 DEF IInv, JobInv, TypeOK, Records, Leaves
      <4>2. indexState[Key0] = None => quantumState.leaf <= job.leaf
        BY <3>2, <1>2 DEF IInv, JobInv, KeyInv, TypeOK, Records, Leaves
      <4>. QED
        BY Zenon, <3>2, <4>1, <4>2, <1>2, <1>5, <1>3 DEF IInv, KeyInv, Past
    <3>. QED
      BY Zenon, <3>1, <3>2, <1>5
  <2>4. JobInv'
    BY Zenon, <1>5 DEF GuardedReturn, JobInv
  <2>. QED
    BY Zenon, <1>0, <2>2, <2>3, <2>4 DEF IInv
<1>. QED
  BY Zenon, <1>4, <1>5 DEF SignPersist

(* SignReturn preserves the inductive invariant.                           *)
LEMMA SignReturnInv == ASSUME IInv, SignReturn PROVE IInv'
<1>. USE WalletAssumption
<1>1. TypeOK'
  BY ZenonT(60), SignTypes DEF SignStep, IInv
<1>2. NoLeafTwice' /\ FileAhead' /\ KeyInv'
  BY DEF SignReturn, IInv, NoLeafTwice, FileAhead, KeyInv, Past, memVars,
     dbVars, TypeOK, Jobs, Leaves, JobInv, Signatures
<1>3. JobInv'
  BY Zenon DEF SignReturn, IInv, JobInv, Past, memVars, TypeOK, Jobs, Leaves
<1>. QED
  BY Zenon, <1>1, <1>2, <1>3 DEF IInv

(* Forget preserves the inductive invariant.                               *)
LEMMA ForgetInv == ASSUME IInv, Forget PROVE IInv'
<1>1. TypeOK'
  BY Zenon, ForgetTypes DEF IInv
<1>. QED
  BY Zenon, <1>1 DEF Forget, dbVars, IInv, NoLeafTwice, FileAhead, KeyInv,
     JobInv, Past

(* Load preserves the inductive invariant.                                 *)
LEMMA LoadInv == ASSUME IInv, Load PROVE IInv'
<1>. USE WalletAssumption
<1>1. quantumState \in Records /\ quantumState # None /\ pc = "idle" /\ 0 \in Leaves
  BY DEF Load, IInv, KeyInv, JobInv, TypeOK, Leaves
<1>2. PICK S \in SUBSET Backfillable(quantumState, indexState) :
         /\ indexState' = [k \in Keys |->
                    IF k \in S
                    THEN Rec(IF k = Key0 THEN quantumState.leaf ELSE 0, FALSE, quantumState.origin)
                    ELSE indexState[k]]
         /\ quantumState' = IF Key0 \in S THEN Rec(quantumState.leaf, FALSE, quantumState.origin)
                            ELSE quantumState
         /\ origin' = quantumState.origin
         /\ mgr' = IF quantumState.enc THEN None ELSE quantumState.leaf
         /\ program' = TRUE
  <2>1. UpgradeWrites(quantumState, ~crypted /\ ~quantumState.enc) = {0}
    BY Zenon, NoUpgrade
  <2>2. /\ StateAfter(0, quantumState, FALSE) = quantumState
        /\ IndexAfter(0, FALSE) = indexState
        /\ OriginAfter(0, quantumState) = quantumState.origin
        /\ LeafAfter(0, quantumState) = quantumState.leaf
    BY DEF StateAfter, IndexAfter, OriginAfter, LeafAfter
  <2>3. LoadState
    BY Zenon, <1>1 DEF Load, LoadNoState
  <2>4. ApplyAndRepair(0)
    BY Zenon, <2>1, <2>3 DEF LoadState
  <2>. QED
    BY ZenonT(60), <2>2, <2>4 DEF ApplyAndRepair
<1>3. \A k \in Keys : /\ k \in S => /\ indexState[k] = None /\ indexState'[k] \in Records
                                   /\ indexState'[k].leaf = IF k = Key0 THEN quantumState.leaf ELSE 0
                      /\ k \notin S => indexState'[k] = indexState[k]
  BY Zenon, <1>1, <1>2 DEF Rec, Records, Backfillable
<1>4. /\ quantumState' \in Records /\ quantumState'.leaf = quantumState.leaf
      /\ quantumState'.origin = quantumState.origin
  BY Zenon, <1>1, <1>2 DEF Rec, Records
<1>5. TypeOK'
  BY Zenon, LoadTypes DEF IInv
<1>6. NoLeafTwice' /\ FileAhead'
  BY <1>1, <1>3, <1>4 DEF Load, IInv, NoLeafTwice, FileAhead, TypeOK,
     Signatures
<1>7. KeyInv'
  <2>1. program' /\ quantumState' # None
    BY Zenon, <1>2, <1>4
  <2>2. Past(Key0, quantumState.leaf)
    BY Zenon DEF IInv, FileAhead, Past
  <2>3. /\ quantumState.leaf \in Nat
        /\ indexState'[Key0] # None => indexState'[Key0].leaf <= quantumState.leaf
    BY <1>1, <1>3 DEF Records, Leaves, IInv, KeyInv
  <2>4. mgr' \in {quantumState.leaf, None} /\ origin' = quantumState.origin
    BY Zenon, <1>2
  <2>. QED
    BY <1>1, <1>4, <2>1, <2>2, <2>3, <2>4 DEF Load, IInv, KeyInv, Past
<1>. QED
  BY ZenonT(60), <1>5, <1>6, <1>7, <1>1 DEF Load, signVars, IInv, JobInv

(* Lock preserves the inductive invariant.                                 *)
LEMMA LockInv == ASSUME IInv, Lock PROVE IInv'
<1>1. TypeOK'
  BY Zenon, LockTypes DEF IInv
<1>. QED
  BY Zenon, <1>1 DEF Lock, dbVars, signVars, IInv, NoLeafTwice, FileAhead,
     KeyInv, JobInv, Past

(* Unlock preserves the inductive invariant.                               *)
LEMMA UnlockInv == ASSUME IInv, Unlock PROVE IInv'
<1>1. quantumState \in Records /\ quantumState # None
  BY Zenon DEF IInv, KeyInv, TypeOK
<1>2.   /\ quantumState' = quantumState /\ indexState' = indexState
        /\ program' = (quantumState # None)
        /\ mgr' = quantumState.leaf
        /\ origin' = quantumState.origin
  <2>1. UpgradeWrites(quantumState, TRUE) = {0}
    BY Zenon, NoUpgrade
  <2>2. UnlockFrom(quantumState, 0) /\ mgr' = LeafAfter(0, quantumState)
    BY Zenon, <2>1, <1>1 DEF Unlock
  <2>. QED
    BY <2>2, <1>1 DEF UnlockFrom, StateAfter, IndexAfter, OriginAfter, LeafAfter
<1>3. TypeOK'
  BY Zenon, LockTypes DEF IInv
<1>4. NoLeafTwice' /\ FileAhead'
  BY Zenon, <1>2 DEF Unlock, IInv, NoLeafTwice, FileAhead
<1>5. KeyInv'
  <2>1. program'
    BY Zenon, <1>1, <1>2
  <2>2. Past(Key0, quantumState.leaf)
    BY Zenon DEF IInv, FileAhead, Past
  <2>3. /\ quantumState.leaf \in Nat
        /\ indexState[Key0] # None => indexState[Key0].leaf <= quantumState.leaf
    BY <1>1, WalletAssumption DEF Records, Leaves, IInv, KeyInv
  <2>. QED
    BY <1>1, <1>2, <2>1, <2>2, <2>3 DEF Unlock, IInv, KeyInv, Past
<1>. QED
  BY Zenon, <1>3, <1>4, <1>5 DEF Unlock, signVars, IInv, JobInv

(* EncryptWallet preserves the inductive invariant.                        *)
LEMMA EncryptWalletInv == ASSUME IInv, EncryptWallet PROVE IInv'
<1>. DEFINE rec == EncryptedState
<1>1. /\ rec \in Records /\ rec.origin = quantumState.origin
      /\ rec.leaf = IF mgr # None /\ program THEN mgr ELSE quantumState.leaf
  BY Zenon DEF IInv, KeyInv, TypeOK, EncryptedState, EncryptWallet, Rec, Records
<1>2.   /\ quantumState' = rec /\ indexState' = indexState
        /\ program' = (rec # None)
        /\ mgr' = None
        /\ origin' = quantumState.origin
  <2>1. UpgradeWrites(rec, TRUE) = {0}
    BY Zenon, <1>1, NoUpgrade
  <2>2. rec # None
    BY Zenon, <1>1, WalletAssumption
  <2>3. UnlockFrom(rec, 0) /\ mgr' = None
    BY Zenon, <2>1 DEF EncryptWallet
  <2>. QED
    BY <2>2, <2>3, <1>1 DEF UnlockFrom, StateAfter, IndexAfter, OriginAfter
<1>. HIDE DEF rec
<1>3. TypeOK'
  BY Zenon, LockTypes DEF IInv
<1>4. NoLeafTwice' /\ FileAhead'
  BY <1>1, <1>2, WalletAssumption DEF EncryptWallet, IInv, NoLeafTwice,
     FileAhead, KeyInv, Past, TypeOK, Signatures
<1>5. KeyInv'
  BY ZenonT(60), <1>1, <1>2, WalletAssumption DEF EncryptWallet, IInv, KeyInv, TypeOK,
     FileAhead, Past, Records, Leaves
<1>. QED
  BY Zenon, <1>3, <1>4, <1>5 DEF EncryptWallet, signVars, IInv, JobInv

(* EnsureIndexState preserves the inductive invariant.                     *)
LEMMA EnsureIndexStateInv ==
  ASSUME IInv, NEW k \in Keys, EnsureIndexState(k)
  PROVE  IInv'
<1>. USE WalletAssumption
<1>. DEFINE rec == Rec(LoadQuantumManager(k), Enc, origin)
<1>1. /\ rec \in Records /\ rec.origin = quantumState.origin /\ Past(k, rec.leaf)
      /\ k = Key0 => rec.leaf = quantumState.leaf
      /\ rec # None
  <2>1. rec.leaf = LoadQuantumManager(k) /\ rec.origin = origin
    BY Zenon DEF Rec
  <2>2. rec \in Records
    BY Zenon, LoadedLeaf DEF EnsureIndexState, Rec, Enc, Records, IInv, TypeOK
  <2>. QED
    BY Zenon, <2>1, <2>2, LoadedLeaf DEF EnsureIndexState, IInv, KeyInv
<1>2. /\ indexState' = [indexState EXCEPT ![k] = rec]
      /\ \/ k = Key0 /\ quantumState' = rec /\ program' = TRUE
         \/ UNCHANGED <<quantumState, program>>
  BY Zenon DEF EnsureIndexState
<1>. HIDE DEF rec
<1>3. TypeOK'
  BY Zenon, EnsureTypes DEF IInv
<1>4. NoLeafTwice' /\ FileAhead'
  BY <1>1, <1>2 DEF EnsureIndexState, IInv, NoLeafTwice, FileAhead, Past,
     TypeOK, Signatures
<1>5. KeyInv'
  <2>1. program'
    <3>1. program
      BY Zenon DEF EnsureIndexState, IInv, KeyInv
    <3>. QED
      BY <1>2, <3>1, Zenon
  <2>2. /\ quantumState' # None /\ quantumState'.leaf = quantumState.leaf
        /\ quantumState'.origin = quantumState.origin
    BY Zenon, <1>1, <1>2 DEF IInv, KeyInv
  <2>3. k = Key0 => indexState'[Key0].leaf = quantumState.leaf
    BY Zenon, <1>1, <1>2 DEF IInv, TypeOK
  <2>4. k # Key0 => indexState'[Key0] = indexState[Key0]
    BY Zenon, <1>2 DEF IInv, TypeOK
  <2>5. quantumState.leaf \in Nat
    BY DEF IInv, KeyInv, TypeOK, Records, Leaves
  <2>. QED
    BY <1>1, <2>1, <2>2, <2>3, <2>4, <2>5 DEF EnsureIndexState, IInv, KeyInv, Past
<1>. QED
  BY Zenon, <1>3, <1>4, <1>5 DEF EnsureIndexState, signVars, IInv, JobInv

-----------------------------------------------------------------------------
(* Every step preserves the invariant: EnsureKeysForReceive is disabled,   *)
(* QUANTUM_STATE being there already.                                      *)
LEMMA NextIInv == ASSUME IInv, [Next]_vars PROVE IInv'
<1>1. CASE UNCHANGED vars
  BY SMTT(30), <1>1 DEF vars, dbVars, memVars, signVars, IInv, TypeOK, NoLeafTwice,
     FileAhead, KeyInv, JobInv, Past
<1>2. CASE EnsureKeysForReceive
  BY Zenon, <1>2 DEF IInv, KeyInv, EnsureKeysForReceive
<1>. QED
  BY Zenon, <1>1, <1>2, SignBeginInv, SignReserveInv, SignXmssInv, SignPersistInv,
     SignReturnInv, ForgetInv, LoadInv, LockInv, UnlockInv, EncryptWalletInv,
     EnsureIndexStateInv DEF Next, SignStep, Unload, Crash

(* The kind of the wallet file does not change.                            *)
LEMMA SettingIsFixed == ASSUME [Next]_vars PROVE UNCHANGED setting
  BY Zenon DEF Next, SignStep, SignBegin, SignReserve, SignXmss, SignPersist, SignReturn, Load,
     Unload, Crash, Forget, Lock, Unlock, EncryptWallet, EnsureIndexState,
     EnsureKeysForReceive, vars

(* The invariant, for the files it is about.                               *)
WInv == SafeFile => IInv

(* WInv holds at first, and every step keeps it.                           *)
LEMMA WInvInductive == (Init => WInv) /\ (WInv /\ [Next]_vars => WInv')
<1>1. Init => WInv
  BY Zenon, InitIInv DEF WInv
<1>2. ASSUME WInv, [Next]_vars, SafeFile' PROVE IInv'
  <2>1. SafeFile
    BY Zenon, <1>2, SettingIsFixed DEF SafeFile
  <2>. QED
    BY Zenon, <1>2, <2>1, NextIInv DEF WInv
<1>. QED
  BY Zenon, <1>1, <1>2 DEF WInv

(* WInv is an invariant.                                                   *)
LEMMA WInvHolds == Spec => []WInv
  BY WInvInductive, PTL DEF Spec

(* For every number of keys, leaves and sighashes, with crashes and failed *)
(* commits anywhere: SignQuantumTransactionSighash never returns two       *)
(* signatures of one leaf for different sighashes.                         *)
THEOREM WalletUsesLeavesOnce == Spec => []LeafUsedOnce
<1>1. WInv => LeafUsedOnce
  BY Zenon DEF WInv, IInv, LeafUsedOnce
<1>. QED
  BY <1>1, WInvHolds, PTL

(* And the file is always past every leaf it has released: a crash at any  *)
(* point and a reload never offer one again.                               *)
THEOREM WalletFileIsAhead == Spec => []FileAheadOfReleased
<1>1. WInv => FileAheadOfReleased
  BY Zenon DEF WInv, IInv, FileAheadOfReleased
<1>. QED
  BY <1>1, WInvHolds, PTL

(* One step never takes a key record back: what persists a leaf took it    *)
(* from a place not behind the record, and backfilling writes only where   *)
(* there was none.                                                         *)
RecordsAdvance ==
  \A k \in Keys : indexState[k] # None =>
    indexState'[k] # None /\ indexState'[k].leaf >= indexState[k].leaf

(* That is so of every step from a state of the invariant.                 *)
LEMMA StepAdvances == ASSUME IInv, [Next]_vars PROVE RecordsAdvance
<1>. USE WalletAssumption
<1>1. \A k \in Keys : indexState[k] # None => indexState[k].leaf \in Nat
  BY DEF IInv, TypeOK, Records, Leaves
<1>2. CASE UNCHANGED indexState
  BY <1>1, <1>2 DEF RecordsAdvance
<1>3. CASE SignPersist
  <2>. DEFINE rec == Rec(job.leaf, Enc, origin)
  <2>1. rec.leaf = job.leaf /\ rec # None
    <3>1. rec \in Records
      BY Zenon, <1>3 DEF SignPersist, Rec, Enc, Records, IInv, TypeOK, Jobs
    <3>. QED
      BY Zenon, <3>1 DEF Rec
  <2>2. indexState' = indexState \/ indexState' = [indexState EXCEPT ![job.key] = rec]
    BY Zenon, <1>3 DEF SignPersist
  <2>3. indexState[job.key] # None => indexState[job.key].leaf <= job.leaf
    BY <1>1, <1>3 DEF SignPersist, IInv, JobInv, TypeOK, Jobs, Leaves
  <2>. HIDE DEF rec
  <2>. QED
    BY <1>1, <2>1, <2>2, <2>3 DEF RecordsAdvance, IInv, TypeOK
<1>4. CASE Load
  <2>1. UpgradeWrites(quantumState, ~crypted /\ ~quantumState.enc) = {0}
    BY Zenon, NoUpgrade
  <2>2. ApplyAndRepair(0)
    BY Zenon, <1>4, <2>1 DEF Load, LoadState, LoadNoState, IInv, KeyInv
  <2>3. /\ IndexAfter(0, FALSE) = indexState
        /\ StateAfter(0, quantumState, FALSE) = quantumState
    BY DEF IndexAfter, StateAfter
  <2>4. \A k \in Keys : indexState[k] # None => indexState'[k] = indexState[k]
    BY Zenon, <2>2, <2>3 DEF ApplyAndRepair, Backfillable
  <2>. QED
    BY <1>1, <2>4 DEF RecordsAdvance
<1>5. CASE Unlock
  <2>1. UpgradeWrites(quantumState, TRUE) = {0}
    BY Zenon, NoUpgrade
  <2>2. UnlockFrom(quantumState, 0)
    BY Zenon, <1>5, <2>1 DEF Unlock
  <2>. QED
    BY <1>2, <2>2 DEF UnlockFrom, IndexAfter
<1>6. CASE EncryptWallet
  <2>1. EncryptedState.origin = quantumState.origin
    BY Zenon, <1>6 DEF EncryptWallet, EncryptedState, Rec, IInv, KeyInv
  <2>2. UpgradeWrites(EncryptedState, TRUE) = {0}
    BY Zenon, <2>1, NoUpgrade
  <2>3. UnlockFrom(EncryptedState, 0)
    BY ZenonT(60), <1>6, <2>2 DEF EncryptWallet
  <2>. QED
    BY <1>2, <2>3 DEF UnlockFrom, IndexAfter
<1>7. ASSUME NEW k \in Keys, EnsureIndexState(k) PROVE RecordsAdvance
  <2>1. \A j \in Keys : indexState[j] # None => indexState'[j] = indexState[j]
    BY Zenon, <1>7 DEF EnsureIndexState, IInv, TypeOK
  <2>. QED
    BY <1>1, <2>1 DEF RecordsAdvance
<1>8. CASE EnsureKeysForReceive
  BY Zenon, <1>8 DEF EnsureKeysForReceive, IInv, KeyInv
<1>9. CASE \/ \E k \in Keys, m \in Sighashes : SignBegin(k, m)
           \/ SignReserve \/ SignXmss \/ SignReturn
           \/ Unload \/ Crash \/ Lock \/ UNCHANGED vars
  BY Zenon, <1>2, <1>9 DEF SignBegin, SignReserve, SignXmss, SignReturn, Unload, Crash,
     Forget, Lock, vars, dbVars
<1>. QED
  BY Zenon, <1>3, <1>4, <1>5, <1>6, <1>7, <1>8, <1>9 DEF Next, SignStep

(* While index 0 has no record of its own, QUANTUM_STATE stands for it,    *)
(* and what a step puts in its place is not behind it.                     *)
LEMMA LegacyRecordAdvances ==
  ASSUME IInv, [Next]_vars, indexState[Key0] = None
  PROVE  StoredRecord(Key0)'.leaf >= quantumState.leaf
<1>. USE WalletAssumption
<1>0. /\ Key0 \in Keys /\ quantumState \in Records /\ quantumState # None
      /\ quantumState.leaf \in Nat
  <2>1. quantumState \in Records /\ quantumState # None
    BY Zenon DEF IInv, TypeOK, KeyInv
  <2>. QED
    BY <2>1 DEF Records, Leaves
<1>1. CASE UNCHANGED <<indexState, quantumState>>
  BY <1>0, <1>1 DEF StoredRecord
<1>2. ASSUME NEW rec, rec # None, rec.leaf \in Nat, rec.leaf >= quantumState.leaf,
             \/ indexState' = [indexState EXCEPT ![Key0] = rec]
             \/ indexState' = indexState /\ quantumState' = rec
      PROVE  StoredRecord(Key0)'.leaf >= quantumState.leaf
  <2>1. StoredRecord(Key0)' = rec
    BY Zenon, <1>0, <1>2 DEF StoredRecord, IInv, TypeOK
  <2>. QED
    BY Zenon, <1>2, <2>1
<1>3. CASE SignPersist
  <2>. DEFINE rec == Rec(job.leaf, Enc, origin)
  <2>1. rec.leaf = job.leaf /\ rec # None
    <3>1. rec \in Records
      BY Zenon, <1>3 DEF SignPersist, Rec, Enc, Records, IInv, TypeOK, Jobs
    <3>. QED
      BY Zenon, <3>1 DEF Rec
  <2>2. CASE job.key # Key0
    <3>1. indexState'[Key0] = indexState[Key0] /\ quantumState' = quantumState
      BY Zenon, <1>3, <2>2 DEF SignPersist, IInv, TypeOK
    <3>. QED
      BY <1>0, <3>1 DEF StoredRecord
  <2>3. CASE job.key = Key0
    <3>1. job.leaf \in Nat /\ quantumState.leaf <= job.leaf
      BY <1>0, <1>3, <2>3 DEF SignPersist, IInv, JobInv, TypeOK, Jobs, Leaves
    <3>2. \/ indexState' = [indexState EXCEPT ![Key0] = rec]
          \/ UNCHANGED <<indexState, quantumState>>
      BY Zenon, <1>3, <2>3 DEF SignPersist
    <3>. HIDE DEF rec
    <3>3. rec.leaf \in Nat /\ rec.leaf >= quantumState.leaf
      BY ONLY <1>0, <2>1, <3>1
    <3>. QED
      BY Zenon, <1>1, <1>2, <2>1, <3>2, <3>3
  <2>. QED
    BY Zenon, <2>2, <2>3
<1>4. CASE Load
  <2>1. UpgradeWrites(quantumState, ~crypted /\ ~quantumState.enc) = {0}
    BY Zenon, NoUpgrade
  <2>2. ApplyAndRepair(0)
    BY Zenon, <1>4, <2>1 DEF Load, LoadState, LoadNoState, IInv, KeyInv
  <2>3. /\ IndexAfter(0, FALSE) = indexState
        /\ StateAfter(0, quantumState, FALSE) = quantumState
        /\ OriginAfter(0, quantumState) = quantumState.origin
    BY DEF IndexAfter, StateAfter, OriginAfter
  <2>. DEFINE rec == Rec(quantumState.leaf, FALSE, quantumState.origin)
  <2>4. \/ indexState'[Key0] = None /\ quantumState' = quantumState
        \/ indexState'[Key0] = rec
    BY Zenon, <1>0, <2>2, <2>3 DEF ApplyAndRepair
  <2>5. rec.leaf = quantumState.leaf /\ rec # None
    <3>1. rec \in Records
      BY Zenon, <1>0 DEF Rec, Records
    <3>. QED
      BY Zenon, <3>1 DEF Rec
  <2>. HIDE DEF rec
  <2>6. StoredRecord(Key0)' \in {quantumState, rec}
    BY Zenon, <2>4, <2>5 DEF StoredRecord
  <2>. QED
    BY <1>0, <2>5, <2>6
<1>5. CASE Unlock
  <2>1. UpgradeWrites(quantumState, TRUE) = {0}
    BY Zenon, NoUpgrade
  <2>2. UnlockFrom(quantumState, 0)
    BY Zenon, <1>5, <2>1 DEF Unlock
  <2>. QED
    BY <1>1, <2>2 DEF UnlockFrom, IndexAfter, StateAfter
<1>6. CASE EncryptWallet
  <2>1. EncryptedState.origin = quantumState.origin
    BY Zenon, <1>6 DEF EncryptWallet, EncryptedState, Rec, IInv, KeyInv
  <2>2. UpgradeWrites(EncryptedState, TRUE) = {0}
    BY Zenon, <2>1, NoUpgrade
  <2>3. UnlockFrom(EncryptedState, 0)
    BY ZenonT(60), <1>6, <2>2 DEF EncryptWallet
  <2>4. quantumState' = EncryptedState /\ indexState' = indexState
    BY <2>3 DEF UnlockFrom, IndexAfter, StateAfter
  <2>5. CASE mgr # None /\ program
    <3>. DEFINE rec == Rec(mgr, TRUE, origin)
    <3>1. rec \in Records /\ rec.leaf = mgr
      BY Zenon, <2>5 DEF Rec, Records, IInv, TypeOK
    <3>2. mgr \in Nat /\ quantumState.leaf <= mgr
      BY <1>0, <2>5 DEF IInv, KeyInv, TypeOK, Leaves
    <3>3. quantumState' = rec
      BY Zenon, <2>4, <2>5 DEF EncryptedState
    <3>4. rec # None
      BY Zenon, <3>1
    <3>. HIDE DEF rec
    <3>5. rec.leaf \in Nat /\ rec.leaf >= quantumState.leaf
      BY ONLY <1>0, <3>1, <3>2
    <3>. QED
      BY Zenon, <1>2, <2>4, <3>3, <3>4, <3>5
  <2>6. CASE ~(mgr # None /\ program)
    BY Zenon, <1>1, <2>4, <2>6 DEF EncryptedState
  <2>. QED
    BY Zenon, <2>5, <2>6
<1>7. ASSUME NEW k \in Keys, EnsureIndexState(k)
      PROVE  StoredRecord(Key0)'.leaf >= quantumState.leaf
  <2>1. CASE k # Key0
    <3>1. indexState'[Key0] = indexState[Key0] /\ quantumState' = quantumState
      BY Zenon, <1>7, <2>1 DEF EnsureIndexState, IInv, TypeOK
    <3>. QED
      BY <1>0, <3>1 DEF StoredRecord
  <2>2. CASE k = Key0
    <3>. DEFINE rec == Rec(quantumState.leaf, Enc, origin)
    <3>1. LoadQuantumManager(Key0) = quantumState.leaf
      BY Zenon, <1>0, <1>7, <2>2 DEF EnsureIndexState, LoadQuantumManager, UnpackQuantumBlob
    <3>2. rec \in Records /\ rec.leaf = quantumState.leaf
      BY Zenon, <1>0 DEF Rec, Records, Enc, IInv, TypeOK
    <3>3. indexState' = [indexState EXCEPT ![Key0] = rec]
      BY Zenon, <1>7, <2>2, <3>1 DEF EnsureIndexState
    <3>4. rec # None
      BY Zenon, <3>2
    <3>. HIDE DEF rec
    <3>5. rec.leaf \in Nat /\ rec.leaf >= quantumState.leaf
      BY ONLY <1>0, <3>2
    <3>. QED
      BY Zenon, <1>2, <3>3, <3>4, <3>5
  <2>. QED
    BY Zenon, <2>1, <2>2
<1>8. CASE EnsureKeysForReceive
  BY Zenon, <1>0, <1>8 DEF EnsureKeysForReceive
<1>9. CASE \/ \E k \in Keys, m \in Sighashes : SignBegin(k, m)
           \/ SignReserve \/ SignXmss \/ SignReturn
           \/ Unload \/ Crash \/ Lock \/ UNCHANGED vars
  BY Zenon, <1>1, <1>9 DEF SignBegin, SignReserve, SignXmss, SignReturn, Unload, Crash,
     Forget, Lock, vars, dbVars
<1>. QED
  BY Zenon, <1>3, <1>4, <1>5, <1>6, <1>7, <1>8, <1>9 DEF Next, SignStep

(* What a step from a state of the invariant does to the stored leaves.    *)
LEMMA StoredLeavesAdvance ==
  ASSUME IInv, IInv', [Next]_vars
  PROVE  /\ \A k \in Keys :
              /\ indexState[k] # None => indexState'[k] # None
              /\ StoredRecord(k) # None => StoredRecord(k)'.leaf >= StoredRecord(k).leaf
         /\ quantumState' # None /\ quantumState'.leaf >= StoredRecord(Key0)'.leaf
<1>1. RecordsAdvance
  BY Zenon, StepAdvances
<1>2. \A k \in Keys : indexState[k] # None => indexState'[k] # None
  BY Zenon, <1>1 DEF RecordsAdvance
<1>3. ASSUME NEW k \in Keys, StoredRecord(k) # None
      PROVE  StoredRecord(k)'.leaf >= StoredRecord(k).leaf
  <2>1. CASE indexState[k] # None
    BY Zenon, <1>1, <2>1 DEF RecordsAdvance, StoredRecord
  <2>2. CASE indexState[k] = None
    <3>1. k = Key0 /\ StoredRecord(k) = quantumState
      BY Zenon, <1>3, <2>2 DEF StoredRecord
    <3>. QED
      BY Zenon, <2>2, <3>1, LegacyRecordAdvances
  <2>. QED
    BY Zenon, <2>1, <2>2
<1>4. quantumState' # None /\ quantumState'.leaf >= StoredRecord(Key0)'.leaf
  <2>1. quantumState' # None /\ quantumState' \in Records
    BY Zenon DEF IInv, KeyInv, TypeOK
  <2>2. quantumState'.leaf \in Nat
    BY <2>1, WalletAssumption DEF Records, Leaves
  <2>3. CASE indexState'[Key0] = None
    <3>1. StoredRecord(Key0)' = quantumState'
      BY Zenon, <2>3 DEF StoredRecord
    <3>. QED
      BY <2>1, <2>2, <3>1
  <2>4. CASE indexState'[Key0] # None
    <3>1. StoredRecord(Key0)' = indexState'[Key0]
      BY Zenon, <2>4 DEF StoredRecord
    <3>2. indexState'[Key0].leaf <= quantumState'.leaf
      BY Zenon, <2>4 DEF IInv, KeyInv
    <3>3. indexState'[Key0] \in Records
      BY Zenon, <2>4, WalletAssumption DEF IInv, TypeOK
    <3>4. indexState'[Key0].leaf \in Nat
      BY <3>3, WalletAssumption DEF Records, Leaves
    <3>. QED
      BY <2>1, <2>2, <3>1, <3>2, <3>4
  <2>. QED
    BY Zenon, <2>3, <2>4
<1>. QED
  BY Zenon, <1>2, <1>3, <1>4

(* No operation, restart, unlock or repair included, deletes a key record  *)
(* or takes the one that signatures start from back to an earlier leaf,    *)
(* and QUANTUM_STATE is never behind that one.                             *)
THEOREM WalletNeverRewinds == Spec => IndexNeverRewinds
<1>. DEFINE Advance ==
       SafeFile =>
         /\ \A k \in Keys :
              /\ indexState[k] # None => indexState'[k] # None
              /\ StoredRecord(k) # None => StoredRecord(k)'.leaf >= StoredRecord(k).leaf
         /\ quantumState' # None /\ quantumState'.leaf >= StoredRecord(Key0)'.leaf
<1>1. ASSUME WInv, [Next]_vars PROVE [Advance]_vars
  <2>1. SafeFile => IInv /\ IInv'
    BY Zenon, <1>1, NextIInv DEF WInv
  <2>. QED
    BY Zenon, <1>1, <2>1, StoredLeavesAdvance
<1>2. Spec => [][Advance]_vars
  BY <1>1, WInvInductive, PTL DEF Spec
<1>. QED
  BY Zenon, <1>2 DEF IndexNeverRewinds

(* The wallet implements OneTimeKeys: whatever fails and whenever the      *)
(* process dies, each signature a key releases uses a later leaf than all  *)
(* the signatures it released before.                                      *)
THEOREM WalletImplementsOneTimeKeys == Spec => SignsInLeafOrder
<1>. DEFINE sigs == IF SafeFile THEN released ELSE {}
<1>1. ASSUME Init PROVE OTK!Init
  <2>1. CASE SafeFile
    <3>1. IInv /\ sigs = released
      BY Zenon, <1>1, <2>1, InitIInv
    <3>2. \A r, t \in Signatures : r.key = t.key /\ r.leaf = t.leaf /\ r.msg = t.msg => r = t
      BY DEF Signatures
    <3>. QED
      BY <3>1, <3>2 DEF IInv, NoLeafTwice, TypeOK, OTK!Init
  <2>2. CASE ~SafeFile
    BY Zenon, <2>2 DEF OTK!Init
  <2>. QED
    BY Zenon, <2>1, <2>2
<1>2. ASSUME WInv, [Next]_vars PROVE [OTK!Next]_sigs
  <2>1. SafeFile' <=> SafeFile
    BY Zenon, <1>2, SettingIsFixed DEF SafeFile
  <2>2. CASE ~SafeFile
    BY Zenon, <2>1, <2>2
  <2>3. CASE SafeFile /\ SignReturn
    <3>. DEFINE sig == [key |-> job.key, leaf |-> job.reserved, msg |-> job.msg]
    <3>1. sigs = released /\ sigs' = released' /\ IInv
      BY Zenon, <1>2, <2>1, <2>3 DEF WInv
    <3>2. sig \in released' /\ released' = released \cup {sig}
      BY Zenon, <2>3 DEF SignReturn
    <3>3. OTK!Fresh(sig)
      BY Zenon, <2>3, <3>1 DEF SignReturn, IInv, JobInv, Past, OTK!Fresh
    <3>. QED
      BY Zenon, <3>1, <3>2, <3>3 DEF OTK!Next, OTK!Sign
  <2>4. CASE ~SignReturn
    <3>1. released' = released
      BY Zenon, <1>2, <2>4 DEF Next, SignStep, SignBegin, SignReserve, SignXmss, SignPersist,
         Load, Unload, Crash, Forget, Lock, Unlock, EncryptWallet, EnsureIndexState,
         EnsureKeysForReceive, vars
    <3>. QED
      BY Zenon, <2>1, <3>1
  <2>. QED
    BY Zenon, <2>2, <2>3, <2>4
<1>. QED
  BY <1>1, <1>2, WInvInductive, PTL DEF Spec, SignsInLeafOrder, OTK!Spec
=============================================================================
