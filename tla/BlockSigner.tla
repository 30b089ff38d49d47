---------------------------- MODULE BlockSigner ----------------------------
(***************************************************************************)
(* The node's block signer (src/crypto/quantum_block_sign.cpp): one        *)
(* process-wide dual key, created on first use, kept in memory only, and   *)
(* replaced when its XMSS tree is nearly used up.  AttachQuantumBlock-     *)
(* Signatures is called by the mining thread and by RPC threads.           *)
(*                                                                         *)
(* A call reads g_block_signer_ready without the lock, then runs up to two *)
(* bodies on a helper thread, each wholly under g_block_signer_mutex: key  *)
(* generation and signing.  Each is one step here, faults included: the    *)
(* helper thread may not start, either half of a key generation may fail,  *)
(* and either half of a signature may fail.                                *)
(*                                                                         *)
(* A key is a number, fresh for every generation because its seed is       *)
(* random; 0 stands for an empty or unusable secret, and for a signature   *)
(* that is zero-filled.                                                    *)
(***************************************************************************)
EXTENDS Naturals

CONSTANTS
  Threads,         \* callers of AttachQuantumBlockSignatures
  Blocks,          \* block hashes
  MaxLeaf,         \* leaves of an XMSS tree (1024)
  Threshold,       \* XMSS_ROTATION_THRESHOLD (950)
  MaxCalls,        \* bound on the calls of a behaviour
  None,
  Faults           \* whether anything may fail: a set of choices

ASSUME SignerAssumption ==
  /\ MaxLeaf \in Nat /\ Threshold \in 1 .. MaxLeaf /\ MaxCalls \in Nat
  /\ None \notin [xmss : Nat, sphincs : Nat, xmssPub : Nat, sphincsPub : Nat]
  /\ Faults \subseteq BOOLEAN

VARIABLES
  ready,                      \* g_block_signer_ready
  xmss, leaf, sphincs,        \* g_block_signer: private keys, next XMSS leaf
  xmssPub, sphincsPub,        \* g_block_signer: public keys
  lastKey,                    \* keys generated so far
  pc, block,                  \* the callers
  attached,                   \* block.quantum_signatures of the last call
  signatures,                 \* every real XMSS signature handed out
  calls,
  faulty                      \* fixed: key generation, signing, threads and the
                              \* process may fail

keyVars == <<xmss, leaf, sphincs, xmssPub, sphincsPub, lastKey>>
vars == <<ready, keyVars, pc, block, attached, signatures, calls, faulty>>

-----------------------------------------------------------------------------
(* generate_dual_keys_from_entropy_ikm: the private keys are replaced one  *)
(* after the other, the public keys only once both are there.              *)
GenerateOk ==
  /\ xmss' = lastKey + 1 /\ leaf' = 0 /\ sphincs' = lastKey + 1
  /\ xmssPub' = lastKey + 1 /\ sphincsPub' = lastKey + 1
  /\ lastKey' = lastKey + 1

GenerateFails ==
  /\ faulty
  /\ \/ xmss' = 0 /\ lastKey' = lastKey
     \/ xmss' = lastKey + 1 /\ lastKey' = lastKey + 1
  /\ leaf' = 0 /\ sphincs' = 0
  /\ UNCHANGED <<xmssPub, sphincsPub>>

(* The caller moves on to step p, or returns when p is "idle".             *)
Goto(t, p) == pc' = [pc EXCEPT ![t] = p]

(* RunOnLargeStack: pthread_create failed, the call returns false.         *)
ThreadFails(t) ==
  /\ faulty
  /\ pc[t] \in {"keygen", "sign"}
  /\ Goto(t, "idle")
  /\ UNCHANGED <<ready, keyVars, block, attached, signatures, calls, faulty>>

-----------------------------------------------------------------------------
(* AttachQuantumBlockSignatures clears the signatures, and goes straight   *)
(* to signing when g_block_signer_ready, read without the lock, is set.    *)
(* Calls for which no signature is required return at once and are left    *)
(* out.                                                                    *)
Attach(t, b) ==
  /\ pc[t] = "idle" /\ calls < MaxCalls
  /\ calls' = calls + 1
  /\ block' = [block EXCEPT ![t] = b]
  /\ attached' = [attached EXCEPT ![t] = None]
  /\ Goto(t, IF ready THEN "sign" ELSE "keygen")
  /\ UNCHANGED <<ready, keyVars, signatures, faulty>>

(* Mutant: the flag is not read again under the lock.                      *)
EnsureBlockSignerKeys_NoRecheck(t) ==
  /\ pc[t] = "keygen"
  /\ GenerateOk /\ ready' = TRUE /\ Goto(t, "sign")
  /\ UNCHANGED <<block, attached, signatures, calls, faulty>>

(* EnsureBlockSignerKeys, the body under the lock: the flag is read again. *)
EnsureBlockSignerKeys(t) ==
  /\ pc[t] = "keygen"
  /\ \/ ready /\ Goto(t, "sign") /\ UNCHANGED <<ready, keyVars>>
     \/ ~ready /\ GenerateOk /\ ready' = TRUE /\ Goto(t, "sign")
     \/ ~ready /\ GenerateFails /\ ready' = ready /\ Goto(t, "idle")
  /\ UNCHANGED <<block, attached, signatures, calls, faulty>>

(* Mutant: the index is read from the key as it was generated.             *)
XmssIndex_Stale == 0

(* get_xmss_index: 0 for an empty secret.                                  *)
XmssIndex == IF xmss = 0 THEN 0 ELSE leaf

(* quantum_safe_manager::sign refuses an empty or exhausted XMSS key.      *)
CanSign(key, l) == key # 0 /\ l < MaxLeaf

(* Mutant: the state after signing is not kept.                            *)
SignWith_StateNotKept(t, key, l, sph, pub) ==
  /\ attached' = [attached EXCEPT ![t] =
       [xmss |-> key, sphincs |-> sph, xmssPub |-> pub[1], sphincsPub |-> pub[2]]]
  /\ leaf' = l
  /\ signatures' = signatures \cup {[key |-> key, leaf |-> l, msg |-> block[t]]}
  /\ Goto(t, "idle")

(* Signing with key at leaf l, and what is put into the block: a half that *)
(* fails is zero-filled and has the right size all the same.               *)
SignWith(t, key, l, sph, pub) ==
  /\ \E x \in {key} \cup (IF faulty THEN {0} ELSE {}),
        s \in {sph} \cup (IF faulty THEN {0} ELSE {}) :
       /\ attached' = [attached EXCEPT ![t] =
            [xmss |-> x, sphincs |-> s, xmssPub |-> pub[1], sphincsPub |-> pub[2]]]
       /\ leaf' = IF x = 0 THEN l ELSE l + 1
       /\ signatures' = IF x = 0 THEN signatures
                        ELSE signatures \cup {[key |-> x, leaf |-> l, msg |-> block[t]]}
  /\ Goto(t, "idle")

(* SignBlockWithReadyKeys, the body under the lock, with the key at hand   *)
(* or, from the threshold on, with a new one.  Its own test of the flag    *)
(* cannot fail: the flag is never cleared.                                 *)
SignReady(t) ==
  /\ pc[t] = "sign" /\ ready
  /\ XmssIndex < Threshold
  /\ \/ /\ CanSign(xmss, leaf)
        /\ SignWith(t, xmss, leaf, sphincs, <<xmssPub, sphincsPub>>)
     \/ /\ ~CanSign(xmss, leaf)
        /\ Goto(t, "idle")
        /\ UNCHANGED <<leaf, attached, signatures>>
  /\ UNCHANGED <<ready, xmss, sphincs, xmssPub, sphincsPub, lastKey, block, calls, faulty>>

(* Mutant: the bundle is taken before the rotation.                        *)
SignRotating_OldBundle(t) ==
  /\ pc[t] = "sign" /\ ready
  /\ XmssIndex >= Threshold
  /\ SignWith(t, lastKey + 1, 0, lastKey + 1, <<xmssPub, sphincsPub>>)
  /\ xmss' = lastKey + 1 /\ sphincs' = lastKey + 1
  /\ xmssPub' = lastKey + 1 /\ sphincsPub' = lastKey + 1
  /\ lastKey' = lastKey + 1
  /\ UNCHANGED <<ready, block, calls, faulty>>

SignRotating(t) ==
  /\ pc[t] = "sign" /\ ready
  /\ XmssIndex >= Threshold
  /\ LET new == lastKey + 1 IN
     \/ /\ SignWith(t, new, 0, new, <<new, new>>)
        /\ xmss' = new /\ sphincs' = new /\ xmssPub' = new /\ sphincsPub' = new
        /\ lastKey' = new
     \/ /\ GenerateFails
        /\ Goto(t, "idle")
        /\ UNCHANGED <<attached, signatures>>
  /\ UNCHANGED <<ready, block, calls, faulty>>

(* The process restarts: the key was never written anywhere.               *)
Restart ==
  /\ faulty
  /\ ready' = FALSE
  /\ xmss' = 0 /\ leaf' = 0 /\ sphincs' = 0 /\ xmssPub' = 0 /\ sphincsPub' = 0
  /\ pc' = [t \in Threads |-> "idle"]
  /\ attached' = [t \in Threads |-> None]
  /\ UNCHANGED <<lastKey, block, signatures, calls, faulty>>

-----------------------------------------------------------------------------
Init ==
  /\ ready = FALSE
  /\ xmss = 0 /\ leaf = 0 /\ sphincs = 0 /\ xmssPub = 0 /\ sphincsPub = 0
  /\ lastKey = 0
  /\ pc = [t \in Threads |-> "idle"] /\ block \in [Threads -> Blocks]
  /\ attached = [t \in Threads |-> None]
  /\ signatures = {} /\ calls = 0 /\ faulty \in Faults

Step(t) == EnsureBlockSignerKeys(t) \/ SignReady(t) \/ SignRotating(t)

Next ==
  \/ \E t \in Threads, b \in Blocks : Attach(t, b)
  \/ \E t \in Threads : Step(t) \/ ThreadFails(t)
  \/ Restart

Spec == Init /\ [][Next]_vars

(* A caller holds no lock between its steps and the mutex is held only for *)
(* a bounded computation, so every started call keeps running.             *)
FairSpec == Spec /\ \A t \in Threads : WF_vars(Step(t))

-----------------------------------------------------------------------------
BlockSigs == [xmss : Nat, sphincs : Nat, xmssPub : Nat, sphincsPub : Nat]

(* The variables keep their types; no key is taken past its rotation       *)
(* threshold.                                                              *)
TypeOK ==
  /\ ready \in BOOLEAN
  /\ xmss \in Nat /\ leaf \in 0 .. Threshold /\ sphincs \in Nat
  /\ xmssPub \in Nat /\ sphincsPub \in Nat
  /\ lastKey \in Nat /\ xmss <= lastKey
  /\ pc \in [Threads -> {"idle", "keygen", "sign"}]
  /\ block \in [Threads -> Blocks]
  /\ attached \in [Threads -> BlockSigs \cup {None}]
  /\ signatures \subseteq [key : Nat, leaf : Nat, msg : Blocks]
  /\ calls \in 0 .. MaxCalls /\ faulty \in BOOLEAN

(* Whatever fails, and across restarts, each XMSS key of the signer signs  *)
(* with its leaves in increasing order: no leaf signs two blocks.          *)
OTK == INSTANCE OneTimeKeys

SignsInLeafOrder == OTK!Spec

(* The signer never uses the leaves kept as a safety margin ("rotate at    *)
(* 950 to keep a safety margin", quantum_block_sign.cpp:26), however many  *)
(* threads sign at once.                                                   *)
MarginUntouched == \A s \in signatures : s.leaf < Threshold

(* While nothing fails, a key is given up only when it is used up: two     *)
(* first callers that both saw g_block_signer_ready unset create one key.  *)
KeysUsedUp ==
  ~faulty => \A k \in 1 .. lastKey, l \in 0 .. (Threshold - 1) :
    k < lastKey => \E s \in signatures : s.key = k /\ s.leaf = l

(* While nothing fails, signatures attached to a block verify under the    *)
(* public keys attached with them, so that "rotation is transparent" to    *)
(* whoever gets the block (quantum_block_sign.cpp:92-94).  A rotation that *)
(* fails half-way breaks it.                                               *)
AttachedVerifies ==
  ~faulty => \A t \in Threads : attached[t] # None =>
    /\ attached[t].xmss # 0 /\ attached[t].xmss = attached[t].xmssPub
    /\ attached[t].sphincs # 0 /\ attached[t].sphincs = attached[t].sphincsPub

(* While nothing fails, every call ends with signatures attached, the ones *)
(* that find the key at its threshold included.                            *)
CallsSucceed ==
  \A t \in Threads : ~faulty /\ pc[t] # "idle" ~> pc[t] = "idle" /\ attached[t] # None
=============================================================================
