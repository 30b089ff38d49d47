-------------------------- MODULE QuantumAddresses --------------------------
(***************************************************************************)
(* Which key an address of the wallet belongs to.                          *)
(*                                                                         *)
(* An output of the wallet pays to a program, the hash of a quantum key.   *)
(* Keys are derived in two spaces, "receive" and "change".  A descriptor   *)
(* hands out its indices in order (wallet/scriptpubkeyman.cpp), and the    *)
(* wallet says which key an index stands for (wallet/wallet_quantum.cpp):  *)
(* the active change descriptor uses the change space from its base on,    *)
(* all else the receive space.  A wallet older than the change space has   *)
(* no base record; it gets one with the first change address it hands out, *)
(* and a flag that makes older releases refuse the file.                   *)
(*                                                                         *)
(* What is on disk and what is in memory differ, every write is a step of  *)
(* its own that a crash may cut off, and cs_wallet is held from the start  *)
(* of a call to its end.  A program is named by its key; derivation is     *)
(* deterministic, so equal keys mean equal addresses.                      *)
(***************************************************************************)
EXTENDS Naturals, FiniteSets

CONSTANTS
  MaxIndex,        \* bound on the indices each descriptor hands out
  KeypoolSize,     \* m_keypool_size, indices kept registered in advance
  None,
  InitWallets,     \* the kinds of wallet.dat the process may find
  ImportMayHappen  \* a second change descriptor may be imported and activated

Descs == {"receive", "change", "imported"}
WalletKinds == {"created", "upgraded"}
Indices == 0 .. (CHOOSE m \in {MaxIndex[d] : d \in Descs} :
                   \A d \in Descs : MaxIndex[d] <= m) + KeypoolSize
Keys == [space : {"receive", "change"}, index : Indices]
Key(s, i) == [space |-> s, index |-> i]

Positions == [desc : Descs, index : Indices, key : Keys]
Jobs == [kind : {"get", "mark"}, desc : Descs, index : Indices, key : Keys,
         ok : BOOLEAN]

ASSUME AddressAssumption ==
  /\ MaxIndex \in [Descs -> Nat] /\ KeypoolSize \in Nat \ {0}
  /\ None \notin Nat /\ None \notin Jobs
  /\ InitWallets \subseteq WalletKinds /\ ImportMayHappen \in BOOLEAN

VARIABLES
  fileNext, rangeEnd,   \* descriptor records: next_index, range_end
  active,               \* the active change descriptor
  fileBase, flag,       \* QUANTUM_CHANGE_BASE, WALLET_FLAG_QUANTUM_CHANGE_DOMAIN
  records,              \* keys with an (INDEX|CHANGE_INDEX)_STATE record
  crypted,
  running, unlocked,
  flagSet,              \* the flag in m_wallet_flags
  next,                 \* m_wallet_descriptor.next_index
  base,                 \* m_quantum_change_base
  programs,             \* m_quantum_change_programs
  scripts,              \* quantum entries of the m_map_script_pub_keys
  listed,               \* quantum entries of m_cached_spks
  pc, job,              \* the call that holds cs_wallet
  known,                \* positions handed out, or found on chain and recorded
  given,                \* how often each descriptor handed out each key: 2 is twice
                        \* or more
  inherited,            \* fixed: change keys handed out by an earlier release
  flagLost,             \* a write of the flag has failed
  unsaved,              \* descriptors whose last due write of next_index failed
  forgot                \* the process ended with a descriptor unsaved

fileVars == <<fileNext, rangeEnd, active, fileBase, flag, records, crypted>>
memVars == <<running, unlocked, flagSet, next, base, programs, scripts, listed>>
saving == <<unsaved, forgot>>
history == <<known, given, inherited, flagLost>>
vars == <<fileVars, memVars, pc, job, history, saving>>

-----------------------------------------------------------------------------
(* Which key an index stands for.                                          *)

(* CWallet::TryGetTaprootDescriptorRootExtKey.                             *)
HaveMaster == ~crypted \/ unlocked

(* QuantumChangeBaseFor.                                                   *)
BaseFor(d) ==
  IF d # active THEN None ELSE IF base[d] # None THEN base[d] ELSE fileBase[d]

(* Mutant: change is derived in the receive space.                         *)
KeyFor_OneSpace(d, i) == Key("receive", i)

KeyFor(d, i) ==
  IF BaseFor(d) # None /\ i >= BaseFor(d) THEN Key("change", i - BaseFor(d))
  ELSE Key("receive", i)

(* GetQuantumTaprootForSpkmIndex returns an address: the program is in a   *)
(* record, or can be derived.                                              *)
Derivable(d, i) == KeyFor(d, i) \in records \/ HaveMaster

ChangeKeys(S) == {k \in S : k.space = "change"}

(* A script map after new entries; an old entry of the same script gives   *)
(* way.                                                                    *)
Register(new) ==
  {s \in scripts : ~\E n \in new : n.desc = s.desc /\ n.key = s.key} \cup new

(* TopUp, for the descriptors D: each fills its range up to next_index +   *)
(* keypool size, registers the addresses that can be derived, and writes   *)
(* its descriptor (Written), in one transaction.  When that does not begin *)
(* TopUp does nothing, and its callers go on.                              *)
NewEnd(d, n) == IF n[d] + KeypoolSize > rangeEnd[d] THEN n[d] + KeypoolSize ELSE rangeEnd[d]

FillUp(D, n) ==
  {[desc |-> p[1], index |-> p[2], key |-> KeyFor(p[1], p[2])] :
     p \in {q \in D \X Indices :
              q[2] >= rangeEnd[q[1]] /\ q[2] < NewEnd(q[1], n) /\ Derivable(q[1], q[2])}}

KeysOf(S) == {s.key : s \in S}

TopUp(D, n) ==
  /\ rangeEnd' = [d \in Descs |-> IF d \in D THEN NewEnd(d, n) ELSE rangeEnd[d]]
  /\ listed' = listed \cup {[desc |-> s.desc, key |-> s.key] : s \in FillUp(D, n)}

(* The next_index records once the descriptors D are written.              *)
Written(D, n) == [d \in Descs |-> IF d \in D THEN n[d] ELSE fileNext[d]]

-----------------------------------------------------------------------------
(* The address for index next[d] is registered and next_index written; the *)
(* result of WriteDescriptor is not looked at.                             *)
TakeIndex(d, D) ==
  LET k == KeyFor(d, next[d])
      here == [desc |-> d, index |-> next[d], key |-> k]
  IN /\ Derivable(d, next[d])
     /\ scripts' = Register(FillUp(D, next) \cup {here})
     /\ programs' = programs \cup ChangeKeys(KeysOf(FillUp(D, next)) \cup {k})
     /\ next' = [next EXCEPT ![d] = @ + 1]
     /\ \/ fileNext' = Written({d}, next') /\ unsaved' = unsaved \ {d}
        \/ fileNext' = Written(D, next) /\ unsaved' = unsaved \cup {d}
     /\ pc' = "pin"
     /\ job' = [kind |-> "get", desc |-> d, index |-> next[d], key |-> k, ok |-> TRUE]

NoAddress(d, D) ==
  /\ ~Derivable(d, next[d])
  /\ scripts' = Register(FillUp(D, next))
  /\ programs' = programs \cup ChangeKeys(KeysOf(FillUp(D, next)))
  /\ fileNext' = Written(D, next) /\ unsaved' = unsaved \ D
  /\ UNCHANGED <<next, pc, job>>

(* DescriptorScriptPubKeyMan::GetNewDestination, for a new address or, on  *)
(* the active change descriptor, for ReserveDestination.  Up to the write  *)
(* of next_index; a crash right after the top-up leaves what a plain       *)
(* top-up leaves.                                                          *)
GetNewDestination(d) ==
  /\ running /\ pc = "idle"
  /\ d \in {"receive", active} /\ next[d] < MaxIndex[d]
  /\ \E D \in {{}, {d}} : TopUp(D, next) /\ (TakeIndex(d, D) \/ NoAddress(d, D))
  /\ UNCHANGED <<active, fileBase, flag, records, crypted, running, unlocked, flagSet,
                 base, history, forgot>>

(* Mutant: a failed call is not given up.                                  *)
Failed_Goes == pc' = "out" /\ job' = None

(* The call goes on, or ends: an error for GetNewDestination, a log line   *)
(* for MarkUnusedAddresses.                                                *)
Failed ==
  IF job.kind = "get" THEN pc' = "idle" /\ job' = None
  ELSE pc' = "topup" /\ job' = [job EXCEPT !.ok = FALSE]

(* The key EnsureQuantumStateForSpkmIndex is to secure.                    *)
Target == KeyFor(job.desc, job.index)

(* Mutant: the flag is only set once the address has been returned.        *)
PinBase_FlagLater ==
  /\ pc = "pin"
  /\ fileBase' = IF Target.space = "change" THEN [fileBase EXCEPT ![job.desc] = BaseFor(job.desc)]
                 ELSE fileBase
  /\ pc' = "persist" /\ job' = job
  /\ UNCHANGED <<fileNext, rangeEnd, active, flag, records, crypted, memVars, history, saving>>

(* EnsureQuantumStateForSpkmIndex: the first change-space address pins the *)
(* base in the file, then sets the flag.                                   *)
PinBase ==
  /\ pc = "pin"
  /\ IF Target.space = "change" /\ ~flagSet
     THEN \/ /\ fileBase' = [fileBase EXCEPT ![job.desc] = BaseFor(job.desc)]
             /\ pc' = "flag" /\ job' = job
          \/ Failed /\ fileBase' = fileBase
     ELSE pc' = "persist" /\ UNCHANGED <<fileBase, job>>
  /\ UNCHANGED <<fileNext, rangeEnd, active, flag, records, crypted, memVars, history, saving>>

(* SetWalletFlag: a failure to write the flag leaves it set in memory and  *)
(* throws, and the call ends where it is.  That ends an RPC, a rescan      *)
(* included; out of a block notification it ends the process (Unload).     *)
SetFlag ==
  /\ pc = "flag"
  /\ flagSet' = TRUE
  /\ \/ flag' = TRUE /\ pc' = "persist" /\ UNCHANGED <<job, flagLost>>
     \/ flag' = flag /\ pc' = "idle" /\ job' = None /\ flagLost' = TRUE
  /\ UNCHANGED <<fileNext, rangeEnd, active, fileBase, records, crypted, running, unlocked,
                 next, base, programs, scripts, listed, known, given, inherited, saving>>

(* Mutant: a failure to write the record is ignored.                       *)
PersistState_FailureIgnored ==
  /\ pc = "persist"
  /\ \/ records' = records \cup {Target}
     \/ records' = records
  /\ programs' = programs \cup ChangeKeys({Target})
  /\ pc' = (IF job.kind = "get" THEN "out" ELSE "topup") /\ job' = job
  /\ UNCHANGED <<fileNext, rangeEnd, active, fileBase, flag, crypted, running, unlocked,
                 flagSet, next, base, scripts, listed, history, saving>>

(* EnsureQuantumIndexStateForReceiveIndex, EnsureQuantumChangeIndexState:  *)
(* a record that is missing is derived and written, if it can be.          *)
PersistState ==
  /\ pc = "persist"
  /\ \/ /\ Target \in records \/ HaveMaster
        /\ records' = records \cup {Target}
        /\ programs' = programs \cup ChangeKeys({Target})
        /\ pc' = (IF job.kind = "get" THEN "out" ELSE "topup") /\ job' = job
     \/ /\ Target \notin records
        /\ Failed /\ UNCHANGED <<records, programs>>
  /\ UNCHANGED <<fileNext, rangeEnd, active, fileBase, flag, crypted, running, unlocked,
                 flagSet, next, base, scripts, listed, history, saving>>

Position(j) == [desc |-> j.desc, index |-> j.index, key |-> j.key]

(* The address is returned, or a reserved change address is kept.          *)
Keep ==
  /\ pc = "out"
  /\ known' = known \cup {Position(job)}
  /\ given' = [given EXCEPT ![job.desc][job.key] = IF @ = 0 THEN 1 ELSE 2]
  /\ pc' = "idle" /\ job' = None
  /\ UNCHANGED <<fileVars, memVars, inherited, flagLost, saving>>

(* ReserveDestination gives the change index back: no transaction was made.*)
(* The result of WriteDescriptor is not looked at; when it fails the file  *)
(* stays ahead, which is no harm.                                          *)
ReturnDestination ==
  /\ pc = "out" /\ job.desc # "receive"
  /\ next' = IF next[job.desc] - 1 = job.index THEN [next EXCEPT ![job.desc] = @ - 1] ELSE next
  /\ \/ fileNext' = Written({job.desc}, next') /\ unsaved' = unsaved \ {job.desc}
     \/ UNCHANGED <<fileNext, unsaved>>
  /\ pc' = "idle" /\ job' = None
  /\ UNCHANGED <<rangeEnd, active, fileBase, flag, records, crypted, running, unlocked,
                 flagSet, base, programs, scripts, listed, history, forgot>>

-----------------------------------------------------------------------------
(* A payment to a listed address is found on chain: MarkUnusedAddresses of *)
(* a manager that lists it, up to EnsureQuantumStateForSpkmIndex.  The     *)
(* index moves past the address in memory.  (Two managers list the same    *)
(* address only after an import; each then takes its turn.)                *)
FoundOnChain(d, k) ==
  /\ running /\ pc = "idle"
  /\ [desc |-> d, key |-> k] \in listed
  /\ LET i == (CHOOSE s \in scripts : s.desc = d /\ s.key = k).index
     IN /\ i < MaxIndex[d]
        /\ next' = IF i >= next[d] THEN [next EXCEPT ![d] = i + 1] ELSE next
        /\ job' = [kind |-> "mark", desc |-> d, index |-> i, key |-> k, ok |-> TRUE]
  /\ pc' = "pin"
  /\ UNCHANGED <<fileVars, running, unlocked, flagSet, base, programs, scripts, listed,
                 history, saving>>

(* The rest of it: TopUp writes next_index, or fails and is logged.        *)
MarkTopUp ==
  /\ pc = "topup"
  /\ \E D \in {{}, {job.desc}} :
       /\ TopUp(D, next)
       /\ scripts' = Register(FillUp(D, next))
       /\ programs' = programs \cup ChangeKeys(KeysOf(FillUp(D, next)))
       /\ fileNext' = Written(D, next)
       /\ unsaved' = (unsaved \cup {job.desc}) \ D
  /\ known' = IF job.ok THEN known \cup {Position(job)} ELSE known
  /\ pc' = "idle" /\ job' = None
  /\ UNCHANGED <<active, fileBase, flag, records, crypted, running, unlocked, flagSet,
                 next, base, given, inherited, flagLost, forgot>>

-----------------------------------------------------------------------------
(* Loading, locking, importing.                                            *)

(* CWallet::TopUpKeyPool: the active descriptors, one after the other,     *)
(* even when one of them fails.                                            *)
TopUpKeyPool(n) ==
  \E D \in SUBSET {"receive", active} :
    /\ TopUp(D, n)
    /\ scripts' = Register(FillUp(D, n))
    /\ programs' = programs \cup ChangeKeys(KeysOf(FillUp(D, n)))
    /\ fileNext' = Written(D, n)
    /\ unsaved' = unsaved \ D

(* keypoolrefill, and the top-up that ends a load and walletpassphrase.    *)
KeypoolRefill ==
  /\ running /\ pc \in {"idle", "refill"}
  /\ TopUpKeyPool(next)
  /\ pc' = "idle"
  /\ UNCHANGED <<active, fileBase, flag, records, crypted, running, unlocked, flagSet,
                 next, base, job, history, forgot>>

(* Mutant: the base record is not read.                                    *)
LoadedBase_NoRecord == IF flag THEN None ELSE fileNext[active]

(* LoadQuantumChangeIndexStates: the base of the active change descriptor. *)
LoadedBase ==
  IF fileBase[active] # None THEN fileBase[active]
  ELSE IF flag THEN None ELSE fileNext[active]

(* The change keys handed out according to the file.                       *)
ChangeSlots ==
  IF fileBase[active] = None THEN {}
  ELSE {Key("change", i - fileBase[active]) :
          i \in {j \in Indices : fileBase[active] <= j /\ j < fileNext[active]}}

(* The keys RepairQuantumReceiveIndexStates asks for.                      *)
ReceiveSlots == {Key("receive", i) : i \in {j \in Indices : j < fileNext["receive"]}}

(* A load reads the descriptors (SetCache registers plain expansions       *)
(* only), then the quantum records.  A missing record of an index handed   *)
(* out is derived and written when the keys can be read; each such write   *)
(* may fail.                                                               *)
Load ==
  /\ ~running
  /\ running' = TRUE /\ pc' = "refill"
  /\ flagSet' = flag
  /\ next' = fileNext
  /\ base' = [d \in Descs |-> IF d = active THEN LoadedBase ELSE None]
  /\ \E S \in SUBSET (IF crypted THEN {} ELSE (ChangeSlots \cup ReceiveSlots) \ records) :
       /\ records' = records \cup S
       /\ programs' = ChangeSlots \cap records'
  /\ scripts' = {} /\ listed' = {}
  /\ UNCHANGED <<fileNext, rangeEnd, active, fileBase, flag, crypted, unlocked, job,
                 history, saving>>

(* The wallet is unloaded between calls; the process dies at any point.    *)
Unload ==
  /\ running
  /\ running' = FALSE /\ unlocked' = FALSE /\ flagSet' = FALSE
  /\ next' = [d \in Descs |-> 0] /\ base' = [d \in Descs |-> None]
  /\ programs' = {} /\ scripts' = {} /\ listed' = {}
  /\ pc' = "idle" /\ job' = None
  /\ unsaved' = {} /\ forgot' = (forgot \/ unsaved # {})
  /\ UNCHANGED <<fileVars, history>>

Lock ==
  /\ running /\ pc = "idle" /\ unlocked
  /\ unlocked' = FALSE
  /\ UNCHANGED <<fileVars, running, flagSet, next, base, programs, scripts, listed, pc,
                 job, history, saving>>

Unlock ==
  /\ running /\ pc = "idle" /\ crypted
  /\ unlocked' = TRUE /\ pc' = "refill"
  /\ UNCHANGED <<fileVars, running, flagSet, next, base, programs, scripts, listed, job,
                 history, saving>>

(* importdescriptors of a second change descriptor with "active": its      *)
(* TopUp runs before it is active, in the receive space.                   *)
ImportChange ==
  /\ ImportMayHappen /\ running /\ pc = "idle" /\ active = "change" /\ HaveMaster
  /\ TopUp({"imported"}, next)
  /\ scripts' = Register(FillUp({"imported"}, next))
  /\ active' = "imported"
  /\ UNCHANGED <<fileNext, fileBase, flag, records, crypted, running, unlocked, flagSet,
                 next, base, programs, pc, job, history, saving>>

-----------------------------------------------------------------------------
(* The files the process may find: a wallet SetupDescriptorScriptPubKeyMans*)
(* has made, with base 0 and the record of receive index 0; or one of an   *)
(* earlier release, that handed out the first change addresses in the      *)
(* receive space and recorded them.                                        *)
InitCreated ==
  /\ fileNext = [d \in Descs |-> 0]
  /\ fileBase = [d \in Descs |-> IF d = "change" THEN 0 ELSE None]
  /\ known = {}

InitUpgraded ==
  /\ \E n \in 1 .. MaxIndex["change"] : fileNext = [d \in Descs |-> IF d = "change" THEN n ELSE 0]
  /\ fileBase = [d \in Descs |-> None]
  /\ known = {[desc |-> "change", index |-> i, key |-> Key("receive", i)] :
                i \in 0 .. (fileNext["change"] - 1)}

Init ==
  /\ \/ "created" \in InitWallets /\ InitCreated
     \/ "upgraded" \in InitWallets /\ InitUpgraded
  /\ records = {Key("receive", 0)} \cup KeysOf(known)
  /\ rangeEnd = [d \in Descs |-> IF d = "imported" THEN 0 ELSE fileNext[d] + KeypoolSize]
  /\ active = "change" /\ flag = FALSE /\ crypted \in BOOLEAN
  /\ running = FALSE /\ unlocked = FALSE /\ flagSet = FALSE /\ flagLost = FALSE
  /\ next = [d \in Descs |-> 0] /\ base = [d \in Descs |-> None]
  /\ programs = {} /\ scripts = {} /\ listed = {}
  /\ pc = "idle" /\ job = None
  /\ inherited = KeysOf(known)
  /\ given = [d \in Descs |-> [k \in Keys |->
                IF d = "change" /\ k \in inherited THEN 1 ELSE 0]]
  /\ unsaved = {} /\ forgot = FALSE

Next ==
  \/ \E d \in Descs : GetNewDestination(d)
  \/ PinBase \/ SetFlag \/ PersistState \/ Keep \/ ReturnDestination
  \/ \E d \in Descs, k \in Keys : FoundOnChain(d, k)
  \/ MarkTopUp \/ KeypoolRefill \/ ImportChange
  \/ Load \/ Unload \/ Lock \/ Unlock

Spec == Init /\ [][Next]_vars

-----------------------------------------------------------------------------
(* The variables keep their types.                                         *)
TypeOK ==
  /\ fileNext \in [Descs -> Indices] /\ next \in [Descs -> Indices]
  /\ rangeEnd \in [Descs -> Nat]
  /\ active \in {"change", "imported"}
  /\ fileBase \in [Descs -> Indices \cup {None}] /\ base \in [Descs -> Indices \cup {None}]
  /\ flag \in BOOLEAN /\ crypted \in BOOLEAN /\ running \in BOOLEAN /\ unlocked \in BOOLEAN
  /\ flagSet \in BOOLEAN /\ flagLost \in BOOLEAN
  /\ records \subseteq Keys /\ programs \subseteq ChangeKeys(Keys)
  /\ scripts \subseteq Positions /\ listed \subseteq [desc : Descs, key : Keys]
  /\ pc \in {"idle", "refill", "pin", "flag", "persist", "out", "topup"}
  /\ job \in Jobs \cup {None} /\ (pc \in {"idle", "refill"} <=> job = None)
  /\ known \subseteq Positions /\ given \in [Descs -> [Keys -> 0 .. 2]]
  /\ inherited \subseteq Keys /\ unsaved \subseteq Descs /\ forgot \in BOOLEAN

(* FindQuantumKeyForProgram: the keys the wallet may take a program for.   *)
(* The order in which it visits the descriptor managers is not fixed.      *)
FindQuantumKey(k) ==
  IF k \in programs \/ k = Key("receive", 0) THEN {k}
  ELSE {Key("receive", s.index) : s \in {t \in scripts : t.key = k}}
       \cup (IF k.space = "receive" /\ k \in records /\ \E d \in Descs : k.index < next[d]
             THEN {k} ELSE {})

(* An address that was handed out, or found on chain and recorded, is      *)
(* recognised as the wallet's own, and as the key it was derived from, for *)
(* ever after: through reloads, crashes and locking ("Every handed-out     *)
(* index is cached; an uncached index below next_index was never actually  *)
(* used, so skipping it is safe", wallet_quantum.cpp:853).                 *)
AddressesStayMine ==
  running => \A p \in known : FindQuantumKey(p.key) = {p.key}

(* That, in a wallet whose change descriptor was never replaced (the next  *)
(* one has no base record, and a load then reads no change program), and   *)
(* that never ended with a failed write of next_index not made good by a   *)
(* later one: a load asks for the change keys below next_index only.       *)
OwnAddressesStayMine == active = "change" /\ ~forgot => AddressesStayMine

(* A position a descriptor has handed out stands for the same key ever     *)
(* after: the base does not move once it matters ("so no existing address  *)
(* ever changes", wallet_quantum.cpp:383), until the descriptor is         *)
(* replaced.                                                               *)
AddressesNeverChange ==
  running /\ active = "change" => \A p \in known : KeyFor(p.desc, p.index) = p.key

(* No descriptor hands out an address twice, the ones an earlier release   *)
(* handed out included, and receive and change addresses never coincide    *)
(* ("receive and change addresses never coincide",                         *)
(* test/functional/wallet_quantum_change_keyspace.py:112) but for those of *)
(* the earlier release: though a change index may be returned, a call may  *)
(* fail after its index is used up, and the process may die at any point;  *)
(* until the descriptor is replaced, or the process ends with a failed     *)
(* write of next_index not made good (GetNewDestination ignores it).       *)
HandedOutOnce ==
  active = "change" /\ ~forgot => \A k \in Keys, d \in Descs :
    /\ given[d][k] <= 1
    /\ k \notin inherited /\ given[d][k] > 0 => \A e \in Descs \ {d} : given[e][k] = 0

(* Before the first change-space address is known to anyone, the file has  *)
(* its base and the flag that makes older releases refuse it ("they refuse *)
(* to open the wallet instead of hiding funds", wallet/walletutil.h:61),   *)
(* unless a write of the flag has failed or the descriptor was replaced.   *)
FlaggedBeforeUse ==
  active = "change" => \A p \in known :
    p.key.space = "change" => fileBase[p.desc] # None /\ (flag \/ flagLost)
=============================================================================
