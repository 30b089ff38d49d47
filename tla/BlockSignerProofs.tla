------------------------- MODULE BlockSignerProofs -------------------------
(***************************************************************************)
(* Proofs about BlockSigner for any number of callers, blocks, leaves and  *)
(* calls.  With every fault of the model no XMSS leaf signs two blocks,    *)
(* and the safety margin of the tree stays unused; while nothing fails,    *)
(* keys are used up before they are given up, and what is attached to a    *)
(* block verifies.                                                         *)
(***************************************************************************)
EXTENDS BlockSigner, TLAPS

(* The key at hand is past every leaf it has signed with, and a key not    *)
(* yet generated has signed nothing.                                       *)
SInv ==
  /\ TypeOK
  /\ MarginUntouched
  /\ \A s \in signatures :
       /\ 0 < s.key /\ s.key <= lastKey
       /\ s.key = xmss => s.leaf < leaf

(* While nothing fails: before the first key there is none, and from then  *)
(* on the one at hand is the last, whole, and has used every leaf before   *)
(* the next; the keys before it have used all of theirs.                   *)
UsedUp(S, k, n) == \A l \in 0 .. n - 1 : \E s \in S : s.key = k /\ s.leaf = l

GoodKeys ==
  /\ ~ready => lastKey = 0
  /\ ready => /\ xmss = lastKey /\ 0 < lastKey /\ UsedUp(signatures, xmss, leaf)
              /\ sphincs = xmss /\ xmssPub = xmss /\ sphincsPub = xmss
  /\ \A k \in 1 .. lastKey : k < lastKey => UsedUp(signatures, k, Threshold)

GInv == ~faulty => GoodKeys /\ AttachedVerifies

(* Signing with a key past its leaves, at a leaf below the threshold,      *)
(* keeps the invariant of what was signed.                                 *)
LEMMA SignWithStep ==
  ASSUME TypeOK, MarginUntouched, NEW t \in Threads,
         NEW key \in Nat, key # 0, NEW l \in Nat, l < Threshold,
         NEW sph \in Nat, NEW px \in Nat, NEW ps \in Nat,
         \A s \in signatures : s.key = key => s.leaf < l,
         SignWith(t, key, l, sph, <<px, ps>>)
  PROVE  /\ leaf' \in 0 .. Threshold
         /\ attached' \in [Threads -> BlockSigs \cup {None}]
         /\ pc' \in [Threads -> {"idle", "keygen", "sign"}]
         /\ signatures' \subseteq [key : Nat, leaf : Nat, msg : Blocks]
         /\ \A s \in signatures' : s \in signatures \/ (s.key = key /\ s.leaf = l)
         /\ \A s \in signatures' : s.key = key => s.leaf < leaf'
         /\ MarginUntouched'
         /\ [OTK!Next]_signatures
<1>. USE SignerAssumption
<1>1. PICK x \in {key, 0}, s \in {sph, 0} :
        /\ attached' = [attached EXCEPT ![t] =
             [xmss |-> x, sphincs |-> s, xmssPub |-> px, sphincsPub |-> ps]]
        /\ leaf' = IF x = 0 THEN l ELSE l + 1
        /\ signatures' = IF x = 0 THEN signatures
                         ELSE signatures \cup {[key |-> x, leaf |-> l, msg |-> block[t]]}
  BY Zenon DEF SignWith
<1>2. leaf' \in 0 .. Threshold
  BY <1>1
<1>3. attached' \in [Threads -> BlockSigs \cup {None}]
  BY <1>1 DEF TypeOK, BlockSigs
<1>4. pc' \in [Threads -> {"idle", "keygen", "sign"}]
  BY Zenon DEF SignWith, Goto, TypeOK
<1>5. CASE x = 0
  BY Zenon, <1>1, <1>2, <1>3, <1>4, <1>5 DEF TypeOK, MarginUntouched
<1>6. CASE x = key
  <2>. DEFINE sig == [key |-> key, leaf |-> l, msg |-> block[t]]
  <2>1. signatures' = signatures \cup {sig} /\ leaf' = l + 1
    BY Zenon, <1>1, <1>6
  <2>2. OTK!Fresh(sig)
    BY Zenon DEF OTK!Fresh
  <2>3. OTK!Next
    BY Zenon, <2>1, <2>2 DEF OTK!Next, OTK!Sign
  <2>4. sig \in [key : Nat, leaf : Nat, msg : Blocks]
    BY Zenon DEF TypeOK
  <2>. QED
    BY <1>2, <1>3, <1>4, <2>1, <2>3, <2>4 DEF TypeOK, MarginUntouched
<1>. QED
  BY Zenon, <1>1, <1>5, <1>6

(* The initial state satisfies the invariant.                              *)
LEMMA InitSInv == Init => SInv
<1>. SUFFICES ASSUME Init PROVE SInv
  BY Zenon
<1>1. /\ pc \in [Threads -> {"idle", "keygen", "sign"}]
      /\ attached \in [Threads -> BlockSigs \cup {None}]
  BY Zenon DEF Init
<1>2. 0 \in 0 .. Threshold /\ 0 \in 0 .. MaxCalls
  BY SignerAssumption
<1>3. /\ ready \in BOOLEAN /\ xmss = 0 /\ leaf = 0 /\ sphincs = 0
      /\ xmssPub = 0 /\ sphincsPub = 0 /\ lastKey = 0
      /\ block \in [Threads -> Blocks] /\ signatures = {} /\ calls = 0 /\ faulty \in BOOLEAN
  BY Zenon, SignerAssumption DEF Init
<1>4. TypeOK
  BY <1>1, <1>2, <1>3 DEF TypeOK
<1>. QED
  BY Zenon, <1>3, <1>4 DEF SInv, MarginUntouched

(* A failed key generation leaves a key that has signed nothing.           *)
LEMMA GenerateFailsStep ==
  ASSUME SInv, GenerateFails
  PROVE  /\ xmss' \in Nat /\ leaf' \in 0 .. Threshold /\ sphincs' \in Nat
         /\ xmssPub' \in Nat /\ sphincsPub' \in Nat
         /\ lastKey' \in Nat /\ xmss' <= lastKey' /\ lastKey <= lastKey'
         /\ \A s \in signatures : s.key # xmss'
BY SignerAssumption DEF GenerateFails, SInv, TypeOK

(* Every step keeps the invariant, and hands out at most one XMSS          *)
(* signature, of a leaf later than all others of its key.                  *)
LEMMA NextSInv == ASSUME SInv, [Next]_vars PROVE SInv' /\ [OTK!Next]_signatures
<1>. USE SignerAssumption
<1>1. ASSUME NEW t \in Threads, NEW b \in Blocks, Attach(t, b)
      PROVE  SInv' /\ UNCHANGED signatures
  BY <1>1 DEF Attach, Goto, keyVars, SInv, TypeOK, MarginUntouched
<1>2. ASSUME NEW t \in Threads, EnsureBlockSignerKeys(t)
      PROVE  SInv' /\ UNCHANGED signatures
  <2>1. UNCHANGED <<block, attached, signatures, calls, faulty>> /\ pc[t] = "keygen"
    BY Zenon, <1>2 DEF EnsureBlockSignerKeys
  <2>2. CASE ready /\ Goto(t, "sign") /\ UNCHANGED <<ready, keyVars>>
    BY Zenon, <2>1, <2>2 DEF Goto, keyVars, SInv, TypeOK, MarginUntouched
  <2>3. CASE ~ready /\ GenerateOk /\ ready' = TRUE /\ Goto(t, "sign")
    BY <2>1, <2>3 DEF GenerateOk, Goto, SInv, TypeOK, MarginUntouched
  <2>4. CASE ~ready /\ GenerateFails /\ ready' = ready /\ Goto(t, "idle")
    BY <2>1, <2>4, GenerateFailsStep DEF Goto, SInv, TypeOK, MarginUntouched
  <2>. QED
    BY Zenon, <1>2, <2>2, <2>3, <2>4 DEF EnsureBlockSignerKeys
<1>3. ASSUME NEW t \in Threads, SignReady(t)
      PROVE  SInv' /\ [OTK!Next]_signatures
  <2>1. UNCHANGED <<ready, xmss, sphincs, xmssPub, sphincsPub, lastKey, block, calls, faulty>>
    BY Zenon, <1>3 DEF SignReady
  <2>2. CASE CanSign(xmss, leaf) /\ SignWith(t, xmss, leaf, sphincs, <<xmssPub, sphincsPub>>)
    <3>1. xmss # 0 /\ leaf < Threshold
      BY Zenon, <1>3, <2>2 DEF SignReady, CanSign, XmssIndex
    <3>0. /\ TypeOK /\ MarginUntouched
          /\ xmss \in Nat /\ leaf \in Nat /\ sphincs \in Nat /\ xmssPub \in Nat
          /\ sphincsPub \in Nat /\ \A s \in signatures : s.key = xmss => s.leaf < leaf
      BY DEF SInv, TypeOK
    <3>2. /\ leaf' \in 0 .. Threshold
          /\ attached' \in [Threads -> BlockSigs \cup {None}]
          /\ pc' \in [Threads -> {"idle", "keygen", "sign"}]
          /\ signatures' \subseteq [key : Nat, leaf : Nat, msg : Blocks]
          /\ \A s \in signatures' : s \in signatures \/ (s.key = xmss /\ s.leaf = leaf)
          /\ \A s \in signatures' : s.key = xmss => s.leaf < leaf'
          /\ MarginUntouched'
          /\ [OTK!Next]_signatures
      BY SMTT(60), <2>2, <3>1, <3>0, SignWithStep
    <3>. QED
      BY <2>1, <3>1, <3>2 DEF SInv, TypeOK
  <2>3. CASE Goto(t, "idle") /\ UNCHANGED <<leaf, attached, signatures>>
    BY Zenon, <2>1, <2>3 DEF Goto, SInv, TypeOK, MarginUntouched
  <2>. QED
    BY Zenon, <1>3, <2>2, <2>3 DEF SignReady
<1>4. ASSUME NEW t \in Threads, SignRotating(t)
      PROVE  SInv' /\ [OTK!Next]_signatures
  <2>1. UNCHANGED <<ready, block, calls, faulty>>
    BY Zenon, <1>4 DEF SignRotating
  <2>. DEFINE new == lastKey + 1
  <2>2. CASE /\ SignWith(t, new, 0, new, <<new, new>>)
             /\ xmss' = new /\ sphincs' = new /\ xmssPub' = new /\ sphincsPub' = new
             /\ lastKey' = new
    <3>1. new \in Nat /\ new # 0 /\ 0 < Threshold /\ \A s \in signatures : s.key # new
      BY DEF SInv, TypeOK
    <3>2. /\ leaf' \in 0 .. Threshold
          /\ attached' \in [Threads -> BlockSigs \cup {None}]
          /\ pc' \in [Threads -> {"idle", "keygen", "sign"}]
          /\ signatures' \subseteq [key : Nat, leaf : Nat, msg : Blocks]
          /\ \A s \in signatures' : s \in signatures \/ (s.key = new /\ s.leaf = 0)
          /\ \A s \in signatures' : s.key = new => s.leaf < leaf'
          /\ MarginUntouched'
          /\ [OTK!Next]_signatures
      <4>. HIDE DEF new
      <4>. QED
        BY Zenon, <2>2, <3>1, SignWithStep DEF SInv
    <3>. QED
      BY <2>1, <2>2, <3>1, <3>2 DEF SInv, TypeOK
  <2>3. CASE GenerateFails /\ Goto(t, "idle") /\ UNCHANGED <<attached, signatures>>
    BY <2>1, <2>3, GenerateFailsStep DEF Goto, SInv, TypeOK, MarginUntouched
  <2>. QED
    BY Zenon, <1>4, <2>2, <2>3 DEF SignRotating
<1>5. ASSUME NEW t \in Threads, ThreadFails(t)
      PROVE  SInv' /\ UNCHANGED signatures
  BY Zenon, <1>5 DEF ThreadFails, Goto, keyVars, SInv, TypeOK, MarginUntouched
<1>6. ASSUME Restart
      PROVE  SInv' /\ UNCHANGED signatures
  <2>1. /\ pc' \in [Threads -> {"idle", "keygen", "sign"}]
        /\ attached' \in [Threads -> BlockSigs \cup {None}]
    BY Zenon, <1>6 DEF Restart
  <2>2. 0 \in 0 .. Threshold
    OBVIOUS
  <2>3. /\ ready' \in BOOLEAN /\ xmss' = 0 /\ leaf' = 0 /\ sphincs' = 0
        /\ xmssPub' = 0 /\ sphincsPub' = 0
        /\ UNCHANGED <<lastKey, block, signatures, calls, faulty>>
    BY Zenon, <1>6 DEF Restart
  <2>4. TypeOK'
    BY <2>1, <2>2, <2>3 DEF SInv, TypeOK
  <2>. QED
    BY <2>3, <2>4 DEF SInv, MarginUntouched
<1>7. ASSUME UNCHANGED vars
      PROVE  SInv' /\ UNCHANGED signatures
  BY Zenon, <1>7 DEF vars, keyVars, SInv, TypeOK, MarginUntouched
<1>. QED
  BY Zenon, <1>1, <1>2, <1>3, <1>4, <1>5, <1>6, <1>7 DEF Next, Step

-----------------------------------------------------------------------------
(* A signature added to the set: what was used up stays used up.           *)
LEMMA UsedUpGrows ==
  ASSUME NEW S, NEW T, S \subseteq T, NEW k, NEW n, UsedUp(S, k, n)
  PROVE  UsedUp(T, k, n)
BY Zenon DEF UsedUp

(* Signing while nothing fails: the halves are whole, and the leaf is      *)
(* spent.                                                                  *)
LEMMA SignWithWhole ==
  ASSUME TypeOK, ~faulty, AttachedVerifies, faulty' = faulty, NEW t \in Threads,
         NEW key \in Nat, key # 0, NEW l \in Nat, UsedUp(signatures, key, l),
         SignWith(t, key, l, key, <<key, key>>)
  PROVE  /\ leaf' = l + 1 /\ UsedUp(signatures', key, l + 1)
         /\ signatures \subseteq signatures'
         /\ AttachedVerifies'
<1>1. /\ attached' = [attached EXCEPT ![t] =
           [xmss |-> key, sphincs |-> key, xmssPub |-> key, sphincsPub |-> key]]
      /\ leaf' = l + 1
      /\ signatures' = signatures \cup {[key |-> key, leaf |-> l, msg |-> block[t]]}
  BY Zenon DEF SignWith
<1>2. UsedUp(signatures', key, l + 1)
  <2>1. ASSUME NEW m \in 0 .. l PROVE \E s \in signatures' : s.key = key /\ s.leaf = m
    <3>1. CASE m = l
      <4>. DEFINE sig == [key |-> key, leaf |-> l, msg |-> block[t]]
      <4>1. sig \in signatures' /\ sig.key = key /\ sig.leaf = m
        BY Zenon, <1>1, <3>1
      <4>. QED
        BY Zenon, <4>1
    <3>2. CASE m # l
      BY <1>1, <3>2 DEF UsedUp
    <3>. QED
      BY Zenon, <3>1, <3>2
  <2>. QED
    BY <2>1 DEF UsedUp
<1>3. AttachedVerifies'
  <2>1. \A u \in Threads : u # t => attached'[u] = attached[u]
    BY Zenon, <1>1 DEF TypeOK
  <2>2. attached'[t] = [xmss |-> key, sphincs |-> key, xmssPub |-> key, sphincsPub |-> key]
    BY Zenon, <1>1 DEF TypeOK
  <2>3. ASSUME NEW u \in Threads, attached'[u] # None
        PROVE  /\ attached'[u].xmss # 0 /\ attached'[u].xmss = attached'[u].xmssPub
               /\ attached'[u].sphincs # 0 /\ attached'[u].sphincs = attached'[u].sphincsPub
    <3>1. CASE u = t
      BY <2>2, <3>1
    <3>2. CASE u # t
      BY Zenon, <2>1, <2>3, <3>2 DEF AttachedVerifies
    <3>. QED
      BY Zenon, <3>1, <3>2
  <2>. QED
    BY Zenon, <2>3 DEF AttachedVerifies
<1>. QED
  BY Zenon, <1>1, <1>2, <1>3

(* The initial state has no key.                                           *)
LEMMA InitGInv == Init => GInv
BY DEF Init, GInv, GoodKeys, AttachedVerifies

(* A step that leaves the key, its signatures and the attached signatures  *)
(* alone, but for one caller whose are cleared.                            *)
LEMMA GInvKept ==
  ASSUME SInv, GInv, UNCHANGED <<ready, keyVars, signatures, faulty>>,
         \A u \in Threads : attached'[u] = attached[u] \/ attached'[u] = None
  PROVE  GInv'
<1>. SUFFICES ASSUME ~faulty PROVE GoodKeys' /\ AttachedVerifies'
  BY Zenon DEF GInv
<1>1. GoodKeys /\ AttachedVerifies
  BY Zenon DEF GInv
<1>2. GoodKeys'
  BY <1>1 DEF GoodKeys, UsedUp, keyVars
<1>. QED
  BY Zenon, <1>1, <1>2 DEF AttachedVerifies

(* While nothing fails every step keeps the keys good.                     *)
LEMMA NextGInv == ASSUME SInv, GInv, [Next]_vars PROVE GInv'
<1>. USE SignerAssumption
<1>1. ASSUME NEW t \in Threads, NEW b \in Blocks, Attach(t, b) PROVE GInv'
  <2>1. \A u \in Threads : attached'[u] = attached[u] \/ attached'[u] = None
    BY Zenon, <1>1 DEF Attach, SInv, TypeOK
  <2>. QED
    BY Zenon, <1>1, <2>1, GInvKept DEF Attach
<1>2. ASSUME NEW t \in Threads, EnsureBlockSignerKeys(t) PROVE GInv'
  <2>1. UNCHANGED <<attached, signatures, faulty>>
    BY Zenon, <1>2 DEF EnsureBlockSignerKeys
  <2>2. CASE UNCHANGED <<ready, keyVars>>
    BY Zenon, <2>1, <2>2, GInvKept
  <2>3. CASE ~ready /\ GenerateOk /\ ready' = TRUE
    <3>. SUFFICES ASSUME ~faulty PROVE GoodKeys' /\ AttachedVerifies'
      BY Zenon, <2>1 DEF GInv
    <3>1. lastKey = 0 /\ AttachedVerifies
      BY Zenon, <2>3 DEF GInv, GoodKeys
    <3>2. /\ xmss' = 1 /\ leaf' = 0 /\ sphincs' = 1 /\ xmssPub' = 1 /\ sphincsPub' = 1
          /\ lastKey' = 1
      BY <2>3, <3>1 DEF GenerateOk
    <3>3. UsedUp(signatures', xmss', leaf')
      BY <3>2 DEF UsedUp
    <3>4. GoodKeys'
      BY <2>3, <3>2, <3>3 DEF GoodKeys
    <3>. QED
      BY Zenon, <2>1, <3>1, <3>4 DEF AttachedVerifies
  <2>4. CASE GenerateFails
    BY Zenon, <2>1, <2>4 DEF GenerateFails, GInv
  <2>. QED
    BY Zenon, <1>2, <2>2, <2>3, <2>4 DEF EnsureBlockSignerKeys
<1>3. ASSUME NEW t \in Threads, SignReady(t) PROVE GInv'
  <2>1. /\ UNCHANGED <<ready, xmss, sphincs, xmssPub, sphincsPub, lastKey, faulty>>
        /\ ready /\ XmssIndex < Threshold
    BY Zenon, <1>3 DEF SignReady
  <2>2. CASE SignWith(t, xmss, leaf, sphincs, <<xmssPub, sphincsPub>>)
    <3>. SUFFICES ASSUME ~faulty PROVE GoodKeys' /\ AttachedVerifies'
      BY Zenon, <2>1 DEF GInv
    <3>1. /\ GoodKeys /\ AttachedVerifies /\ TypeOK
          /\ xmss \in Nat /\ xmss # 0 /\ leaf \in Nat /\ UsedUp(signatures, xmss, leaf)
          /\ sphincs = xmss /\ xmssPub = xmss /\ sphincsPub = xmss
      BY <2>1 DEF GInv, GoodKeys, SInv, TypeOK
    <3>2. SignWith(t, xmss, leaf, xmss, <<xmss, xmss>>)
      BY Zenon, <2>2, <3>1
    <3>3. /\ leaf' = leaf + 1 /\ UsedUp(signatures', xmss, leaf + 1)
          /\ signatures \subseteq signatures' /\ AttachedVerifies'
      BY Zenon, <2>1, <3>1, <3>2, SignWithWhole
    <3>4. UsedUp(signatures', xmss', leaf')
      BY Zenon, <2>1, <3>3 DEF UsedUp
    <3>5. \A k \in 1 .. lastKey : k < lastKey => UsedUp(signatures', k, Threshold)
      BY Zenon, <3>1, <3>3, UsedUpGrows DEF GoodKeys
    <3>6. GoodKeys'
      BY Zenon, <2>1, <3>1, <3>4, <3>5 DEF GoodKeys
    <3>. QED
      BY Zenon, <3>3, <3>6
  <2>3. CASE UNCHANGED <<leaf, attached, signatures>>
    BY Zenon, <2>1, <2>3, GInvKept DEF keyVars
  <2>. QED
    BY Zenon, <1>3, <2>2, <2>3 DEF SignReady
<1>4. ASSUME NEW t \in Threads, SignRotating(t) PROVE GInv'
  <2>1. UNCHANGED <<ready, faulty>> /\ ready /\ XmssIndex >= Threshold
    BY Zenon, <1>4 DEF SignRotating
  <2>. DEFINE new == lastKey + 1
  <2>2. CASE /\ SignWith(t, new, 0, new, <<new, new>>)
             /\ xmss' = new /\ sphincs' = new /\ xmssPub' = new /\ sphincsPub' = new
             /\ lastKey' = new
    <3>. SUFFICES ASSUME ~faulty PROVE GoodKeys' /\ AttachedVerifies'
      BY Zenon, <2>1 DEF GInv
    <3>1. /\ GoodKeys /\ AttachedVerifies /\ TypeOK
          /\ lastKey \in Nat /\ 0 < lastKey /\ xmss = lastKey /\ leaf \in Nat
          /\ UsedUp(signatures, xmss, leaf) /\ leaf \in 0 .. Threshold
      BY <2>1 DEF GInv, GoodKeys, SInv, TypeOK
    <3>2. leaf = Threshold /\ UsedUp(signatures, lastKey, Threshold)
      BY <2>1, <3>1 DEF XmssIndex
    <3>3. new \in Nat /\ new # 0 /\ UsedUp(signatures, new, 0)
      BY <3>1 DEF UsedUp
    <3>4. /\ leaf' = 1 /\ UsedUp(signatures', new, 1)
          /\ signatures \subseteq signatures' /\ AttachedVerifies'
      <4>. HIDE DEF new
      <4>1. leaf' = 0 + 1 /\ UsedUp(signatures', new, 0 + 1)
            /\ signatures \subseteq signatures' /\ AttachedVerifies'
        BY Zenon, <2>1, <2>2, <3>1, <3>3, SignWithWhole
      <4>. QED
        BY <4>1
    <3>5. ASSUME NEW k \in 1 .. new, k < new PROVE UsedUp(signatures', k, Threshold)
      <4>1. k = lastKey \/ (k \in 1 .. lastKey /\ k < lastKey)
        BY <3>1, <3>5
      <4>2. UsedUp(signatures, k, Threshold)
        BY Zenon, <3>1, <3>2, <4>1 DEF GoodKeys
      <4>. QED
        BY Zenon, <3>4, <4>2, UsedUpGrows
    <3>6. UsedUp(signatures', xmss', leaf')
      BY Zenon, <2>2, <3>4 DEF UsedUp
    <3>7. GoodKeys'
      BY <2>1, <2>2, <3>1, <3>5, <3>6 DEF GoodKeys
    <3>. QED
      BY Zenon, <3>4, <3>7
  <2>3. CASE GenerateFails
    BY Zenon, <2>1, <2>3 DEF GenerateFails, GInv
  <2>. QED
    BY Zenon, <1>4, <2>2, <2>3 DEF SignRotating
<1>5. ASSUME NEW t \in Threads, ThreadFails(t) PROVE GInv'
  BY Zenon, <1>5, GInvKept DEF ThreadFails
<1>6. CASE Restart
  BY Zenon, <1>6 DEF Restart, GInv
<1>7. CASE UNCHANGED vars
  BY Zenon, <1>7, GInvKept DEF vars
<1>. QED
  BY Zenon, <1>1, <1>2, <1>3, <1>4, <1>5, <1>6, <1>7 DEF Next, Step

(* SInv and GInv are invariants.                                           *)
LEMMA SignerInvHolds == Spec => [](SInv /\ GInv)
<1>1. SInv /\ GInv /\ [Next]_vars => SInv' /\ GInv'
  BY Zenon, NextSInv, NextGInv
<1>. QED
  BY InitSInv, InitGInv, <1>1, PTL DEF Spec

(* The keys, their leaves and the callers' steps stay well formed through  *)
(* failed key generations, failed signatures, rotation and restarts.       *)
THEOREM SignerTypes == Spec => []TypeOK
<1>1. SInv => TypeOK
  BY Zenon DEF SInv
<1>. QED
  BY <1>1, SignerInvHolds, PTL

(* SignBlockWithReadyKeys never signs with a leaf of the safety margin.    *)
THEOREM SignerKeepsMargin == Spec => []MarginUntouched
<1>1. SInv => MarginUntouched
  BY Zenon DEF SInv
<1>. QED
  BY <1>1, SignerInvHolds, PTL

(* The block signer implements OneTimeKeys, across concurrent callers,     *)
(* failed key generations, failed signatures, rotation and restarts.       *)
THEOREM SignerImplementsOneTimeKeys == Spec => SignsInLeafOrder
<1>1. SInv /\ [Next]_vars => SInv' /\ [OTK!Next]_signatures
  BY Zenon, NextSInv
<1>2. Init => OTK!Init
  BY Zenon DEF Init, OTK!Init
<1>. QED
  BY InitSInv, <1>1, <1>2, PTL DEF Spec, SignsInLeafOrder, OTK!Spec

(* While nothing fails, for any number of callers: a key is given up only  *)
(* when its leaves up to the threshold are used, though several callers    *)
(* may find g_block_signer_ready unset at once.                            *)
THEOREM SignerUsesKeysUp == Spec => []KeysUsedUp
<1>1. SInv /\ GInv => KeysUsedUp
  BY DEF GInv, GoodKeys, UsedUp, KeysUsedUp
<1>. QED
  BY <1>1, SignerInvHolds, PTL

(* While nothing fails, the signatures put into a block verify under the   *)
(* public keys put there with them, across rotations.                      *)
THEOREM SignerAttachesValidSignatures == Spec => []AttachedVerifies
<1>1. GInv => AttachedVerifies
  BY Zenon DEF GInv, AttachedVerifies
<1>. QED
  BY <1>1, SignerInvHolds, PTL
=============================================================================
