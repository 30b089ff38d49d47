----------------------- MODULE QuantumAddressesProofs -----------------------
(***************************************************************************)
(* Proofs about QuantumAddresses: types, what the operators on scripts and *)
(* keys return, and the address properties, for every number of indices    *)
(* and every size of the keypool.                                          *)
(***************************************************************************)
EXTENDS QuantumAddresses, TLAPS

(* Only a running wallet is inside a call or ahead of its file, and what a *)
(* manager lists it has registered.                                        *)
CallsRun ==
  /\ pc # "idle" => running
  /\ ~running => unsaved = {}
  /\ \A l \in listed : \E s \in scripts : s.desc = l.desc /\ s.key = l.key

-----------------------------------------------------------------------------
(* Facts about the operators.                                              *)

(* The indices are an interval from 0 that reaches every bound.            *)
LEMMA Bound == \E m \in Nat : Indices = 0 .. m /\ \A d \in Descs : MaxIndex[d] <= m
<1> DEFINE S == {MaxIndex[d] : d \in Descs}
           top == CHOOSE m \in S : \A d \in Descs : MaxIndex[d] <= m
<1>1. \E m \in S : \A d \in Descs : MaxIndex[d] <= m
  <2>1. /\ MaxIndex["receive"] \in Nat /\ MaxIndex["change"] \in Nat
        /\ MaxIndex["imported"] \in Nat
    BY Zenon, AddressAssumption DEF Descs
  <2>2. PICK e \in Descs : \A d \in Descs : MaxIndex[d] <= MaxIndex[e]
    BY <2>1 DEF Descs
  <2> QED BY Zenon, <2>2
<1>2. top \in S /\ \A d \in Descs : MaxIndex[d] <= top
  BY Zenon, <1>1
<1>3. top \in Nat /\ KeypoolSize \in Nat
  BY Zenon, <1>2, AddressAssumption
<1>4. Indices = 0 .. (top + KeypoolSize)
  BY Zenon DEF Indices
<1>5. ASSUME NEW d \in Descs PROVE MaxIndex[d] <= top + KeypoolSize
  BY <1>2, <1>3, AddressAssumption
<1>6. top + KeypoolSize \in Nat
  BY <1>3
<1> HIDE DEF top
<1> QED BY Zenon, <1>4, <1>5, <1>6

(* Indices are natural numbers, closed downwards and under one more hand-  *)
(* out.                                                                    *)
LEMMA IndexFacts ==
  /\ Indices \subseteq Nat /\ 0 \in Indices /\ None \notin Indices
  /\ \A i \in Indices, b \in Nat : i >= b => i - b \in Indices
  /\ \A d \in Descs : MaxIndex[d] \in Indices
  /\ \A i \in Indices, d \in Descs : i < MaxIndex[d] => i + 1 \in Indices
<1>1. PICK m \in Nat : Indices = 0 .. m /\ \A d \in Descs : MaxIndex[d] <= m
  BY Zenon, Bound
<1>2. None \notin Nat /\ \A d \in Descs : MaxIndex[d] \in Nat
  BY Zenon, AddressAssumption
<1> QED BY <1>1, <1>2

(* Key builds a key.                                                       *)
LEMMA KeyType ==
  ASSUME NEW i \in Indices
  PROVE  Key("receive", i) \in Keys /\ Key("change", i) \in Keys
BY Zenon DEF Key, Keys

(* An index stands for a key.                                              *)
LEMMA KeyForType ==
  ASSUME TypeOK, NEW d \in Descs, NEW i \in Indices
  PROVE  KeyFor(d, i) \in Keys /\ BaseFor(d) \in Indices \cup {None}
<1>1. BaseFor(d) \in Indices \cup {None}
  BY Zenon DEF BaseFor, TypeOK
<1>2. BaseFor(d) # None /\ i >= BaseFor(d) => i - BaseFor(d) \in Indices
  BY Zenon, <1>1, IndexFacts
<1> QED BY Zenon, <1>1, <1>2, KeyType DEF KeyFor

(* What a top-up registers are positions of its descriptors with the key   *)
(* their index stands for.                                                 *)
LEMMA FillUpFacts ==
  ASSUME TypeOK, NEW D, D \subseteq Descs, NEW n
  PROVE  /\ FillUp(D, n) \subseteq Positions
         /\ \A s \in FillUp(D, n) : s.desc \in D /\ s.key = KeyFor(s.desc, s.index)
<1> SUFFICES ASSUME NEW s \in FillUp(D, n)
             PROVE  s \in Positions /\ s.desc \in D /\ s.key = KeyFor(s.desc, s.index)
  BY Zenon
<1>1. PICK d \in D, i \in Indices : s = [desc |-> d, index |-> i, key |-> KeyFor(d, i)]
  BY Zenon DEF FillUp
<1>2. d \in Descs /\ KeyFor(d, i) \in Keys
  BY Zenon, KeyForType
<1> QED BY Zenon, <1>1, <1>2 DEF Positions

(* Register adds its argument and loses no script of a manager.            *)
LEMMA RegisterFacts ==
  ASSUME scripts \subseteq Positions, NEW new, new \subseteq Positions
  PROVE  /\ Register(new) \subseteq Positions
         /\ \A s \in Register(new) : s \in scripts \/ s \in new
         /\ \A s \in scripts \cup new :
              \E t \in Register(new) : t.desc = s.desc /\ t.key = s.key
BY Zenon DEF Register

(* The change keys among keys of positions.                                *)
LEMMA ChangeKeysType ==
  /\ \A S : S \subseteq Positions => ChangeKeys(KeysOf(S)) \subseteq ChangeKeys(Keys)
  /\ \A S : S \subseteq Keys => ChangeKeys(S) \subseteq ChangeKeys(Keys)
  /\ \A S : S \subseteq Positions => KeysOf(S) \subseteq Keys
BY Zenon DEF ChangeKeys, KeysOf, Positions

(* Written has the new record of the descriptors written, the old one of   *)
(* the others.                                                             *)
LEMMA WrittenFacts ==
  ASSUME TypeOK, NEW D, NEW n \in [Descs -> Indices]
  PROVE  /\ Written(D, n) \in [Descs -> Indices]
         /\ \A e \in Descs : Written(D, n)[e] = IF e \in D THEN n[e] ELSE fileNext[e]
BY Zenon DEF Written, TypeOK

(* TopUp keeps the types of what it writes, and lists what it registers,   *)
(* if the scripts contain at least what it has filled in.                  *)
LEMMA TopUpFacts ==
  ASSUME TypeOK, CallsRun, NEW D, D \subseteq Descs, TopUp(D, next),
         NEW new, new \subseteq Positions, FillUp(D, next) \subseteq new,
         scripts' = Register(new)
  PROVE  /\ rangeEnd' \in [Descs -> Nat]
         /\ listed' \subseteq [desc : Descs, key : Keys]
         /\ scripts' \subseteq Positions
         /\ \A l \in listed' : \E s \in scripts' : s.desc = l.desc /\ s.key = l.key
<1>1. ASSUME NEW d \in Descs PROVE NewEnd(d, next) \in Nat
  <2>1. next[d] \in Nat /\ rangeEnd[d] \in Nat /\ KeypoolSize \in Nat
    BY Zenon, AddressAssumption, IndexFacts DEF TypeOK
  <2> QED BY <2>1 DEF NewEnd
<1>2. rangeEnd' \in [Descs -> Nat]
  BY Zenon, <1>1 DEF TopUp, TypeOK
<1>3. FillUp(D, next) \subseteq Positions
  BY Zenon, FillUpFacts
<1>4. listed' = listed \cup {[desc |-> s.desc, key |-> s.key] : s \in FillUp(D, next)}
  BY Zenon DEF TopUp
<1>5. listed' \subseteq [desc : Descs, key : Keys]
  BY <1>3, <1>4 DEF TypeOK, Positions
<1>6. scripts \subseteq Positions
  BY Zenon DEF TypeOK
<1>7. /\ scripts' \subseteq Positions
      /\ \A s \in scripts \cup new : \E t \in scripts' : t.desc = s.desc /\ t.key = s.key
  BY Zenon, <1>6, RegisterFacts
<1>8. ASSUME NEW l \in listed' PROVE \E s \in scripts' : s.desc = l.desc /\ s.key = l.key
  <2>1. CASE l \in listed
    BY <2>1, <1>7 DEF CallsRun
  <2>2. CASE l \notin listed
    <3>1. PICK s \in FillUp(D, next) : l = [desc |-> s.desc, key |-> s.key]
      BY Zenon, <2>2, <1>4
    <3> QED BY Zenon, <3>1, <1>7
  <2> QED BY Zenon, <2>1, <2>2
<1> QED BY Zenon, <1>2, <1>5, <1>7, <1>8

-----------------------------------------------------------------------------
(* Types.                                                                  *)

Typed == TypeOK /\ CallsRun

(* The files a process may find are well-formed.                           *)
LEMMA InitTyped == Init => Typed
<1> SUFFICES ASSUME Init PROVE Typed
  BY Zenon
<1>1. /\ fileNext \in [Descs -> Indices] /\ fileBase \in [Descs -> Indices \cup {None}]
      /\ known \subseteq Positions
  <2>1. CASE InitCreated
    BY Zenon, <2>1, IndexFacts DEF InitCreated
  <2>2. CASE InitUpgraded
    <3>1. PICK n \in 1 .. MaxIndex["change"] :
            fileNext = [d \in Descs |-> IF d = "change" THEN n ELSE 0]
      BY Zenon, <2>2 DEF InitUpgraded
    <3>2. PICK m \in Nat : Indices = 0 .. m /\ \A d \in Descs : MaxIndex[d] <= m
      BY Zenon, Bound
    <3>3. "change" \in Descs /\ MaxIndex["change"] \in Nat
      BY Zenon, AddressAssumption DEF Descs
    <3>4. n \in Indices /\ 0 .. (n - 1) \subseteq Indices
      BY <3>2, <3>3
    <3>5. fileNext \in [Descs -> Indices] /\ fileNext["change"] = n
      BY Zenon, <3>1, <3>3, <3>4, IndexFacts
    <3>6. known = {[desc |-> "change", index |-> i, key |-> Key("receive", i)] :
                     i \in 0 .. (n - 1)}
      BY Zenon, <2>2, <3>5 DEF InitUpgraded
    <3>7. known \subseteq Positions
      BY <3>3, <3>4, <3>6, KeyType DEF Positions
    <3> QED BY Zenon, <2>2, <3>5, <3>7 DEF InitUpgraded
  <2> QED BY Zenon, <2>1, <2>2 DEF Init
<1>2. records \subseteq Keys
  BY Zenon, <1>1, IndexFacts, KeyType, ChangeKeysType DEF Init
<1>3. rangeEnd \in [Descs -> Nat]
  <2>1. ASSUME NEW d \in Descs PROVE fileNext[d] + KeypoolSize \in Nat
    <3>1. fileNext[d] \in Nat /\ KeypoolSize \in Nat
      BY Zenon, <1>1, IndexFacts, AddressAssumption
    <3> QED BY <3>1
  <2> QED BY Zenon, <2>1 DEF Init
<1>4. next \in [Descs -> Indices] /\ base \in [Descs -> Indices \cup {None}]
  BY Zenon, IndexFacts DEF Init
<1>5. CallsRun
  BY Zenon DEF Init, CallsRun
<1>6. inherited \subseteq Keys /\ given \in [Descs -> [Keys -> 0 .. 2]]
  <2>1. 0 \in 0 .. 2 /\ 1 \in 0 .. 2
    OBVIOUS
  <2> QED BY Zenon, <1>1, <2>1, ChangeKeysType DEF Init
<1> QED BY Zenon, <1>1, <1>2, <1>3, <1>4, <1>5, <1>6 DEF Init, Typed, TypeOK

(* The key a call is to secure.                                            *)
LEMMA TargetType ==
  ASSUME TypeOK, pc \notin {"idle", "refill"}
  PROVE  /\ job \in Jobs /\ job # None
         /\ job.desc \in Descs /\ job.index \in Indices /\ job.key \in Keys
         /\ Target \in Keys
<1>1. job \in Jobs /\ job # None
  BY Zenon DEF TypeOK
<1>2. job.desc \in Descs /\ job.index \in Indices /\ job.key \in Keys
  BY Zenon, <1>1 DEF Jobs
<1> QED BY Zenon, <1>1, <1>2, KeyForType DEF Target

(* A failed write ends a hand-out, and lets a call that only records an    *)
(* address go on to its top-up.                                            *)
LEMMA FailedType ==
  ASSUME job \in Jobs, Failed
  PROVE  /\ pc' \in {"idle", "topup"} /\ job' \in Jobs \cup {None}
         /\ (pc' \in {"idle", "refill"} <=> job' = None)
<1>1. CASE job.kind = "get"
  BY Zenon, <1>1 DEF Failed
<1>2. CASE job.kind # "get"
  <2>1. job' = [job EXCEPT !.ok = FALSE] /\ pc' = "topup"
    BY Zenon, <1>2 DEF Failed
  <2>2. job' \in Jobs
    BY Zenon, <2>1 DEF Jobs
  <2> QED BY Zenon, <2>1, <2>2, AddressAssumption
<1> QED BY Zenon, <1>1, <1>2

(* A hand-out keeps the types.                                             *)
LEMMA GetNewDestinationTyped ==
  ASSUME Typed, NEW d \in Descs, GetNewDestination(d)
  PROVE  Typed'
<1>1. TypeOK /\ CallsRun
  BY Zenon DEF Typed
<1>2. PICK D \in {{}, {d}} : TopUp(D, next) /\ (TakeIndex(d, D) \/ NoAddress(d, D))
  BY Zenon DEF GetNewDestination
<1> DEFINE k == KeyFor(d, next[d])
           new == FillUp(D, next)
           here == [desc |-> d, index |-> next[d], key |-> k]
<1>3. /\ next[d] \in Indices /\ next[d] + 1 \in Indices /\ k \in Keys
      /\ next \in [Descs -> Indices] /\ unsaved \subseteq Descs /\ D \subseteq Descs
  BY Zenon, <1>1, KeyForType, IndexFacts DEF TypeOK, GetNewDestination
<1>4. here \in Positions /\ new \subseteq Positions
  BY Zenon, <1>1, <1>3, FillUpFacts DEF Positions
<1>5. CASE TakeIndex(d, D)
  <2>1. /\ scripts' = Register(new \cup {here})
        /\ programs' = programs \cup ChangeKeys(KeysOf(new) \cup {k})
        /\ next' = [next EXCEPT ![d] = @ + 1]
        /\ pc' = "pin"
        /\ job' = [kind |-> "get", desc |-> d, index |-> next[d], key |-> k, ok |-> TRUE]
    BY Zenon, <1>5 DEF TakeIndex
  <2>2. job' \in Jobs /\ job' # None
    <3>1. job' \in Jobs
      BY Zenon, <2>1, <1>3 DEF Jobs
    <3> QED BY Zenon, <3>1, AddressAssumption
  <2>3. programs' \subseteq ChangeKeys(Keys)
    BY Zenon, <2>1, <1>1, <1>3, <1>4, ChangeKeysType DEF TypeOK
  <2>4. /\ rangeEnd' \in [Descs -> Nat]
        /\ listed' \subseteq [desc : Descs, key : Keys]
        /\ scripts' \subseteq Positions
        /\ \A l \in listed' : \E s \in scripts' : s.desc = l.desc /\ s.key = l.key
    <3>1. new \cup {here} \subseteq Positions /\ FillUp(D, next) \subseteq new \cup {here}
      BY Zenon, <1>4
    <3> HIDE DEF here, new
    <3> QED BY Zenon, <2>1, <1>1, <1>2, <1>3, <3>1, TopUpFacts
  <2>5. next' \in [Descs -> Indices]
    BY Zenon, <2>1, <1>3
  <2>6. fileNext' \in [Descs -> Indices] /\ unsaved' \subseteq Descs
    <3>1. Written({d}, next') \in [Descs -> Indices] /\ Written(D, next) \in [Descs -> Indices]
      BY Zenon, <1>1, <1>3, <2>5, WrittenFacts
    <3>2. \/ fileNext' = Written({d}, next') /\ unsaved' = unsaved \ {d}
          \/ fileNext' = Written(D, next) /\ unsaved' = unsaved \cup {d}
      BY Zenon, <1>5 DEF TakeIndex
    <3> QED BY Zenon, <1>3, <3>1, <3>2
  <2> QED BY Zenon, <2>1, <2>2, <2>3, <2>4, <2>5, <2>6, <1>1
          DEF Typed, TypeOK, CallsRun, GetNewDestination, history
<1>6. CASE NoAddress(d, D)
  <2>1. /\ scripts' = Register(new)
        /\ programs' = programs \cup ChangeKeys(KeysOf(new))
        /\ UNCHANGED <<next, pc, job>>
    BY Zenon, <1>6 DEF NoAddress
  <2>2. fileNext' \in [Descs -> Indices] /\ unsaved' \subseteq Descs
    BY Zenon, <1>1, <1>3, <1>6, WrittenFacts DEF NoAddress
  <2>3. programs' \subseteq ChangeKeys(Keys)
    BY Zenon, <2>1, <1>1, <1>4, ChangeKeysType DEF TypeOK
  <2>4. /\ rangeEnd' \in [Descs -> Nat]
        /\ listed' \subseteq [desc : Descs, key : Keys]
        /\ scripts' \subseteq Positions
        /\ \A l \in listed' : \E s \in scripts' : s.desc = l.desc /\ s.key = l.key
    BY Zenon, <2>1, <1>1, <1>2, <1>3, <1>4, TopUpFacts
  <2> QED BY Zenon, <2>1, <2>2, <2>3, <2>4, <1>1
          DEF Typed, TypeOK, CallsRun, GetNewDestination, history
<1> QED BY Zenon, <1>2, <1>5, <1>6

(* So do the steps that secure the key of a call.                          *)
LEMMA CallTyped ==
  ASSUME Typed, PinBase \/ SetFlag \/ PersistState \/ Keep \/ ReturnDestination
  PROVE  Typed'
<1>1. TypeOK /\ CallsRun /\ pc \notin {"idle", "refill"} /\ running
  BY Zenon DEF Typed, CallsRun, PinBase, SetFlag, PersistState, Keep, ReturnDestination
<1>2. /\ job \in Jobs /\ job # None
      /\ job.desc \in Descs /\ job.index \in Indices /\ job.key \in Keys
      /\ Target \in Keys
  BY Zenon, <1>1, TargetType
<1>3. CASE PinBase
  <2>1. BaseFor(job.desc) \in Indices \cup {None}
    BY Zenon, <1>1, <1>2, KeyForType
  <2>2. fileBase' \in [Descs -> Indices \cup {None}]
    BY Zenon, <1>1, <1>2, <1>3, <2>1 DEF PinBase, TypeOK
  <2>3. /\ pc' \in {"idle", "flag", "persist", "topup"} /\ job' \in Jobs \cup {None}
        /\ (pc' \in {"idle", "refill"} <=> job' = None)
    BY Zenon, <1>2, <1>3, FailedType DEF PinBase
  <2> QED BY <1>1, <1>3, <2>2, <2>3
          DEF Typed, TypeOK, CallsRun, PinBase, memVars, history, saving
<1>4. CASE SetFlag
  BY Zenon, <1>1, <1>2, <1>4 DEF Typed, TypeOK, CallsRun, SetFlag, saving
<1>5. CASE PersistState
  <2>1. records' \subseteq Keys /\ programs' \subseteq ChangeKeys(Keys)
    BY Zenon, <1>1, <1>2, <1>5, ChangeKeysType DEF PersistState, TypeOK
  <2>2. /\ pc' \in {"idle", "out", "topup"} /\ job' \in Jobs \cup {None}
        /\ (pc' \in {"idle", "refill"} <=> job' = None)
    BY Zenon, <1>2, <1>5, FailedType DEF PersistState
  <2> QED BY <1>1, <1>5, <2>1, <2>2 DEF Typed, TypeOK, CallsRun, PersistState, history, saving
<1>6. CASE Keep
  <2>1. Position(job) \in Positions
    BY Zenon, <1>2 DEF Position, Positions
  <2>2. given' \in [Descs -> [Keys -> 0 .. 2]]
    <3>1. 1 \in 0 .. 2 /\ 2 \in 0 .. 2
      OBVIOUS
    <3> QED BY Zenon, <1>1, <1>2, <1>6, <3>1 DEF Keep, TypeOK
  <2> QED BY <1>1, <1>6, <2>1, <2>2
          DEF Typed, TypeOK, CallsRun, Keep, fileVars, memVars, saving
<1>7. CASE ReturnDestination
  <2>1. next' \in [Descs -> Indices]
    <3>1. CASE next[job.desc] - 1 = job.index
      BY Zenon, <1>1, <1>2, <1>7, <3>1 DEF ReturnDestination, TypeOK
    <3>2. CASE next[job.desc] - 1 # job.index
      BY Zenon, <1>1, <1>7, <3>2 DEF ReturnDestination, TypeOK
    <3> QED BY Zenon, <3>1, <3>2
  <2>2. fileNext' \in [Descs -> Indices] /\ unsaved' \subseteq Descs
    <3>1. Written({job.desc}, next') \in [Descs -> Indices]
      BY Zenon, <1>1, <2>1, WrittenFacts
    <3> QED BY Zenon, <1>1, <1>7, <3>1 DEF ReturnDestination, TypeOK
  <2> QED BY Zenon, <1>1, <1>7, <2>1, <2>2
          DEF Typed, TypeOK, CallsRun, ReturnDestination, history
<1> QED BY Zenon, <1>3, <1>4, <1>5, <1>6, <1>7

(* So do a payment found on chain and the top-up after it.                 *)
LEMMA FoundTyped ==
  ASSUME Typed, NEW d \in Descs, NEW k \in Keys, FoundOnChain(d, k)
  PROVE  /\ Typed'
         /\ \E s \in scripts :
              /\ s.desc = d /\ s.key = k /\ s.index < MaxIndex[d]
              /\ next' = IF s.index >= next[d] THEN [next EXCEPT ![d] = s.index + 1] ELSE next
              /\ job' = [kind |-> "mark", desc |-> d, index |-> s.index, key |-> k,
                         ok |-> TRUE]
<1> DEFINE s == CHOOSE t \in scripts : t.desc = d /\ t.key = k
<1>1. TypeOK /\ CallsRun
  BY Zenon DEF Typed
<1>2. \E t \in scripts : t.desc = d /\ t.key = k
  BY Zenon, <1>1 DEF FoundOnChain, CallsRun
<1>3. s \in scripts /\ s.desc = d /\ s.key = k
  BY Zenon, <1>2
<1>4. /\ s.index < MaxIndex[d]
      /\ next' = IF s.index >= next[d] THEN [next EXCEPT ![d] = s.index + 1] ELSE next
      /\ job' = [kind |-> "mark", desc |-> d, index |-> s.index, key |-> k, ok |-> TRUE]
      /\ pc' = "pin" /\ running
      /\ UNCHANGED <<fileVars, running, unlocked, flagSet, base, programs, scripts, listed,
                     history, saving>>
  BY Zenon DEF FoundOnChain
<1> HIDE DEF s
<1>5. s.index \in Indices /\ s.index + 1 \in Indices
  BY Zenon, <1>1, <1>3, <1>4, IndexFacts DEF TypeOK, Positions
<1>6. next' \in [Descs -> Indices]
  BY Zenon, <1>1, <1>4, <1>5 DEF TypeOK
<1>7. job' \in Jobs
  BY Zenon, <1>4, <1>5 DEF Jobs
<1>8. job' # None
  BY Zenon, <1>7, AddressAssumption
<1>9. Typed'
  BY Zenon, <1>1, <1>4, <1>6, <1>7, <1>8 DEF Typed, TypeOK, CallsRun, fileVars, history, saving
<1> QED BY Zenon, <1>3, <1>4, <1>9

(* A top-up with nothing else to register.                                 *)
LEMMA PlainTopUpFacts ==
  ASSUME Typed, NEW D, D \subseteq Descs, TopUp(D, next),
         scripts' = Register(FillUp(D, next))
  PROVE  /\ rangeEnd' \in [Descs -> Nat]
         /\ listed' \subseteq [desc : Descs, key : Keys]
         /\ scripts' \subseteq Positions
         /\ \A l \in listed' : \E s \in scripts' : s.desc = l.desc /\ s.key = l.key
         /\ ChangeKeys(KeysOf(FillUp(D, next))) \subseteq ChangeKeys(Keys)
<1>1. FillUp(D, next) \subseteq Positions /\ TypeOK /\ CallsRun
  BY Zenon, FillUpFacts DEF Typed
<1> QED BY Zenon, <1>1, TopUpFacts, ChangeKeysType

(* The steps that end in TopUp keep the types.                             *)
LEMMA TopUpTyped ==
  ASSUME Typed, MarkTopUp \/ KeypoolRefill \/ ImportChange
  PROVE  Typed'
<1>1. TypeOK /\ CallsRun
  BY Zenon DEF Typed
<1>2. CASE MarkTopUp
  <2>1. pc \notin {"idle", "refill"} /\ pc = "topup"
    BY Zenon, <1>2 DEF MarkTopUp
  <2>2. job.desc \in Descs /\ job.index \in Indices /\ job.key \in Keys
    BY Zenon, <1>1, <2>1, TargetType
  <2>3. /\ Position(job) \in Positions
        /\ unsaved \subseteq Descs /\ next \in [Descs -> Indices]
    BY Zenon, <1>1, <2>2 DEF Position, Positions, TypeOK
  <2>4. PICK D \in {{}, {job.desc}} :
          /\ TopUp(D, next) /\ scripts' = Register(FillUp(D, next))
          /\ programs' = programs \cup ChangeKeys(KeysOf(FillUp(D, next)))
          /\ fileNext' = Written(D, next) /\ unsaved' = (unsaved \cup {job.desc}) \ D
    BY Zenon, <1>2 DEF MarkTopUp
  <2>5. /\ rangeEnd' \in [Descs -> Nat]
        /\ listed' \subseteq [desc : Descs, key : Keys]
        /\ scripts' \subseteq Positions
        /\ \A l \in listed' : \E s \in scripts' : s.desc = l.desc /\ s.key = l.key
        /\ ChangeKeys(KeysOf(FillUp(D, next))) \subseteq ChangeKeys(Keys)
    <3>1. D \subseteq Descs
      BY Zenon, <2>2
    <3> QED BY Zenon, <2>4, <3>1, PlainTopUpFacts
  <2>6. programs' \subseteq ChangeKeys(Keys)
    BY Zenon, <1>1, <2>4, <2>5 DEF TypeOK
  <2>7. /\ fileNext' \in [Descs -> Indices] /\ known' \subseteq Positions
        /\ unsaved' \subseteq Descs
    <3>1. Written(D, next) \in [Descs -> Indices]
      BY Zenon, <1>1, <2>3, WrittenFacts
    <3>2. known \subseteq Positions
      BY Zenon, <1>1 DEF TypeOK
    <3>3. known' = IF job.ok THEN known \cup {Position(job)} ELSE known
      BY Zenon, <1>2 DEF MarkTopUp
    <3>4. known' \subseteq Positions
      BY Zenon, <2>3, <3>2, <3>3
    <3>5. unsaved' \subseteq Descs
      BY Zenon, <2>2, <2>3, <2>4
    <3> QED BY Zenon, <2>4, <3>1, <3>4, <3>5
  <2> QED BY Zenon, <1>1, <1>2, <2>1, <2>5, <2>6, <2>7 DEF Typed, TypeOK, CallsRun, MarkTopUp
<1>3. CASE KeypoolRefill
  <2>1. PICK D \in SUBSET {"receive", active} :
          /\ TopUp(D, next) /\ scripts' = Register(FillUp(D, next))
          /\ programs' = programs \cup ChangeKeys(KeysOf(FillUp(D, next)))
          /\ fileNext' = Written(D, next) /\ unsaved' = unsaved \ D
    BY Zenon, <1>3 DEF KeypoolRefill, TopUpKeyPool
  <2>2. /\ D \subseteq Descs /\ unsaved \subseteq Descs /\ next \in [Descs -> Indices]
    BY Zenon, <1>1 DEF TypeOK, Descs
  <2>3. /\ rangeEnd' \in [Descs -> Nat]
        /\ listed' \subseteq [desc : Descs, key : Keys]
        /\ scripts' \subseteq Positions
        /\ \A l \in listed' : \E s \in scripts' : s.desc = l.desc /\ s.key = l.key
        /\ ChangeKeys(KeysOf(FillUp(D, next))) \subseteq ChangeKeys(Keys)
    BY Zenon, <2>1, <2>2, PlainTopUpFacts
  <2>4. programs' \subseteq ChangeKeys(Keys)
    BY Zenon, <1>1, <2>1, <2>3 DEF TypeOK
  <2>5. fileNext' \in [Descs -> Indices] /\ unsaved' \subseteq Descs
    BY Zenon, <1>1, <2>1, <2>2, WrittenFacts
  <2> QED BY Zenon, <1>1, <1>3, <2>3, <2>4, <2>5
          DEF Typed, TypeOK, CallsRun, KeypoolRefill, history
<1>4. CASE ImportChange
  <2>1. {"imported"} \subseteq Descs
    BY Zenon DEF Descs
  <2>2. TopUp({"imported"}, next) /\ scripts' = Register(FillUp({"imported"}, next))
    BY Zenon, <1>4 DEF ImportChange
  <2>3. /\ rangeEnd' \in [Descs -> Nat]
        /\ listed' \subseteq [desc : Descs, key : Keys]
        /\ scripts' \subseteq Positions
        /\ \A l \in listed' : \E s \in scripts' : s.desc = l.desc /\ s.key = l.key
    BY Zenon, <2>1, <2>2, PlainTopUpFacts
  <2> QED BY Zenon, <1>1, <1>4, <2>3 DEF Typed, TypeOK, CallsRun, ImportChange, history, saving
<1> QED BY Zenon, <1>2, <1>3, <1>4

(* So do loading, unloading and locking.                                   *)
LEMMA LoadTyped ==
  ASSUME Typed, Load \/ Unload \/ Lock \/ Unlock \/ UNCHANGED vars
  PROVE  Typed'
<1>1. TypeOK /\ CallsRun
  BY Zenon DEF Typed
<1>2. CASE Load
  <2>1. active \in Descs /\ pc = "idle" /\ job = None
    BY Zenon, <1>1, <1>2 DEF TypeOK, CallsRun, Load, Descs
  <2>2. base' \in [Descs -> Indices \cup {None}]
    BY Zenon, <1>1, <1>2, <2>1 DEF TypeOK, Load, LoadedBase
  <2>3. ChangeSlots \subseteq ChangeKeys(Keys)
    <3>1. ASSUME NEW i \in Indices, fileBase[active] # None, fileBase[active] <= i
          PROVE  Key("change", i - fileBase[active]) \in ChangeKeys(Keys)
      <4>1. fileBase[active] \in Indices
        BY Zenon, <1>1, <2>1, <3>1 DEF TypeOK
      <4>2. i - fileBase[active] \in Indices
        BY Zenon, <3>1, <4>1, IndexFacts
      <4>3. Key("change", i - fileBase[active]) \in Keys
        BY Zenon, <4>2, KeyType
      <4> QED BY Zenon, <4>3 DEF ChangeKeys, Key
    <3> QED BY Zenon, <3>1 DEF ChangeSlots
  <2>4. ReceiveSlots \subseteq Keys /\ ChangeKeys(Keys) \subseteq Keys
    BY Zenon, KeyType DEF ReceiveSlots, ChangeKeys
  <2>5. PICK S \in SUBSET (IF crypted THEN {} ELSE (ChangeSlots \cup ReceiveSlots) \ records) :
           records' = records \cup S /\ programs' = ChangeSlots \cap records'
    BY Zenon, <1>2 DEF Load
  <2>6. records' \subseteq Keys /\ programs' \subseteq ChangeKeys(Keys)
    BY Zenon, <1>1, <2>3, <2>4, <2>5 DEF TypeOK
  <2> QED BY Zenon, <1>1, <1>2, <2>1, <2>2, <2>6 DEF Typed, TypeOK, CallsRun, Load, history, saving
<1>3. CASE Unload
  BY Zenon, <1>1, <1>3, IndexFacts DEF Typed, TypeOK, CallsRun, Unload, fileVars, history
<1>4. CASE Lock
  BY Zenon, <1>1, <1>4 DEF Typed, TypeOK, CallsRun, Lock, fileVars, history, saving
<1>5. CASE Unlock
  BY Zenon, <1>1, <1>5 DEF Typed, TypeOK, CallsRun, Unlock, fileVars, history, saving
<1>6. CASE UNCHANGED vars
  BY <1>1, <1>6 DEF Typed, TypeOK, CallsRun, vars, fileVars, memVars, history, saving
<1> QED BY Zenon, <1>2, <1>3, <1>4, <1>5, <1>6

(* Every step keeps the types.                                             *)
LEMMA NextTyped == Typed /\ [Next]_vars => Typed'
<1> SUFFICES ASSUME Typed, [Next]_vars PROVE Typed'
  BY Zenon
<1>1. ASSUME NEW d \in Descs, GetNewDestination(d) PROVE Typed'
  BY Zenon, <1>1, GetNewDestinationTyped
<1>2. CASE PinBase \/ SetFlag \/ PersistState \/ Keep \/ ReturnDestination
  BY Zenon, <1>2, CallTyped
<1>3. ASSUME NEW d \in Descs, NEW k \in Keys, FoundOnChain(d, k) PROVE Typed'
  BY Zenon, <1>3, FoundTyped
<1>4. CASE MarkTopUp \/ KeypoolRefill \/ ImportChange
  BY Zenon, <1>4, TopUpTyped
<1>5. CASE Load \/ Unload \/ Lock \/ Unlock \/ UNCHANGED vars
  BY Zenon, <1>5, LoadTyped
<1> QED BY Zenon, <1>1, <1>2, <1>3, <1>4, <1>5 DEF Next

(* A wallet keeps well-formed files and state, through every failure and   *)
(* crash, imports of a change descriptor included.                         *)
THEOREM AddressTypes == Spec => []TypeOK
<1>1. Init => Typed
  BY Zenon, InitTyped
<1>2. Typed /\ [Next]_vars => Typed'
  BY Zenon, NextTyped
<1>3. Typed => TypeOK
  BY Zenon DEF Typed
<1> QED BY <1>1, <1>2, <1>3, PTL DEF Spec

-----------------------------------------------------------------------------
(* The strengthening.                                                      *)

(* The key of index i of descriptor d when b is the base of the change     *)
(* descriptor.                                                             *)
KeyAt(b, d, i) ==
  IF d = "change" /\ b # None /\ i >= b THEN Key("change", i - b) ELSE Key("receive", i)

FileBase == fileBase["change"]
MemBase == base["change"]

(* A base, once on file, is the base in memory, and never ahead of the     *)
(* indices; the flag comes after it.                                       *)
BaseIsPinned ==
  /\ running => /\ MemBase # None
                /\ MemBase <= next["change"] /\ MemBase <= fileNext["change"]
                /\ FileBase # None => MemBase = FileBase
  /\ FileBase # None => FileBase <= fileNext["change"]
  /\ flag \/ flagSet => FileBase # None
  /\ flagSet => flag \/ flagLost

(* Registered scripts and known positions have the key their index stands  *)
(* for, in memory and by the file, and the file has the record; an index   *)
(* from before the change key space lies below every base a load may take. *)
PositionsAreRight ==
  /\ running => \A s \in scripts : s.key = KeyAt(MemBase, s.desc, s.index)
  /\ \A p \in known :
       /\ p.key = KeyAt(FileBase, p.desc, p.index)
       /\ p.key \in records
       /\ p.desc = "change" /\ p.key.space # "change" => p.index < fileNext["change"]
       /\ p.key.space = "change" => flag \/ flagLost
       /\ running => p.key = KeyAt(MemBase, p.desc, p.index)

(* What the file and the wallet must hold before key k becomes known.      *)
Announced(k) == k.space = "change" => FileBase # None /\ (flag \/ flagLost)
Secured(k) == Announced(k) /\ k \in records /\ (k.space = "change" => k \in programs)

(* The call in progress.                                                   *)
JobIsRight ==
  job # None =>
    /\ job.key = KeyAt(MemBase, job.desc, job.index)
    /\ job.index < next[job.desc]
    /\ job.kind = "get" => /\ job.desc \in {"receive", "change"}
                           /\ job.desc = "change" => MemBase <= job.index
    /\ pc = "out" => job.kind = "get"
    /\ pc = "flag" => job.key.space = "change" /\ FileBase # None
    /\ pc = "persist" => Announced(job.key)
    /\ pc = "out" \/ (pc = "topup" /\ job.ok) => Secured(job.key)

(* This much holds whatever was written.                                   *)
Own == BaseIsPinned /\ PositionsAreRight /\ JobIsRight

(* Index i of descriptor d is used up: in memory and, unless the write     *)
(* failed and was not yet made good, on file.                              *)
Behind(d, i) == (d \in unsaved \/ i < fileNext[d]) /\ (running => i < next[d])

(* The position p is used up, and its program, if it is of the change key  *)
(* space, is in memory.                                                    *)
KeptAt(p) ==
  /\ Behind(p.desc, p.index)
  /\ running /\ p.key.space = "change" => p.key \in programs

(* A key that was handed out is used up; a change address of the receive   *)
(* space is one of an earlier release.                                     *)
GivenIsBehind ==
  \A i \in Indices :
    /\ given["receive"][Key("receive", i)] # 0 =>
         given["receive"][Key("receive", i)] = 1 /\ Behind("receive", i)
    /\ given["change"][Key("change", i)] # 0 =>
         /\ given["change"][Key("change", i)] = 1
         /\ FileBase # None /\ Behind("change", FileBase + i)
    /\ given["change"][Key("receive", i)] # 0 =>
         given["change"][Key("receive", i)] = 1 /\ Key("receive", i) \in inherited
    /\ given["receive"][Key("change", i)] = 0
    /\ given["imported"][Key("receive", i)] = 0 /\ given["imported"][Key("change", i)] = 0

(* A hand-out in progress: its index and its key are new.                  *)
JobIsFresh ==
  job # None /\ job.kind = "get" =>
    /\ Behind(job.desc, job.index)
    /\ given[job.desc][job.key] = 0
    /\ \A p \in known : p.desc = job.desc => p.index # job.index

(* This holds until the process ends with a failed write not made good.    *)
Fresh == (\A p \in known : KeptAt(p)) /\ GivenIsBehind /\ JobIsFresh

Inv == TypeOK /\ CallsRun /\ (active = "change" => Own /\ (~forgot => Fresh))

-----------------------------------------------------------------------------
(* The invariant of a wallet whose change descriptor was not replaced.     *)

(* What KeyAt returns.                                                     *)
LEMMA KeyAtFacts ==
  ASSUME NEW b \in Indices \cup {None}, NEW d, NEW i \in Indices
  PROVE  /\ d # "change" => KeyAt(b, d, i) = Key("receive", i)
         /\ b = None => KeyAt(b, d, i) = Key("receive", i)
         /\ d = "change" /\ b # None /\ b <= i => KeyAt(b, d, i) = Key("change", i - b)
         /\ KeyAt(b, d, i).space # "change" =>
              /\ KeyAt(b, d, i) = Key("receive", i)
              /\ d = "change" /\ b # None => i < b
         /\ KeyAt(b, d, i).space = "change" =>
              /\ d = "change" /\ b # None /\ b <= i
              /\ KeyAt(b, d, i) = Key("change", i - b)
<1>1. b # None => b \in Nat
  BY Zenon, IndexFacts
<1>2. i \in Nat
  BY Zenon, IndexFacts
<1> QED BY <1>1, <1>2 DEF KeyAt, Key

(* The types of what the invariant relates.                                *)
LEMMA OwnTypes ==
  ASSUME TypeOK
  PROVE  /\ FileBase \in Indices \cup {None} /\ MemBase \in Indices \cup {None}
         /\ (FileBase # None => FileBase \in Nat) /\ (MemBase # None => MemBase \in Nat)
         /\ next \in [Descs -> Nat] /\ fileNext \in [Descs -> Nat]
         /\ \A p \in known \cup scripts :
              /\ p.desc \in Descs /\ p.index \in Indices /\ p.index \in Nat
              /\ p.key \in Keys
         /\ "change" \in Descs /\ "receive" \in Descs
<1>1. "change" \in Descs /\ "receive" \in Descs
  BY Zenon DEF Descs
<1> QED BY Zenon, <1>1, IndexFacts DEF TypeOK, FileBase, MemBase, Positions

(* A running wallet takes an index for the key its base in memory says.    *)
LEMMA KeyForIs ==
  ASSUME TypeOK, active = "change", BaseIsPinned, running, NEW d \in Descs, NEW i \in Indices
  PROVE  KeyFor(d, i) = KeyAt(MemBase, d, i)
<1>1. MemBase # None /\ BaseFor(d) = IF d = "change" THEN MemBase ELSE None
  BY Zenon DEF BaseIsPinned, BaseFor, MemBase
<1> QED BY Zenon, <1>1 DEF KeyFor, KeyAt

(* The addresses an earlier release handed out.                            *)
LEMMA InitNoChange ==
  ASSUME Init, NEW p \in known
  PROVE  /\ p.key = KeyAt(FileBase, p.desc, p.index) /\ p.key \in records
         /\ p.desc = "change" /\ p.index < fileNext[p.desc] /\ p.key.space # "change"
<1>1. TypeOK
  BY Zenon, InitTyped DEF Typed
<1>2. InitUpgraded /\ records = {Key("receive", 0)} \cup KeysOf(known)
  BY Zenon DEF Init, InitCreated
<1>3. FileBase = None
  BY Zenon, <1>1, <1>2, OwnTypes DEF InitUpgraded, FileBase
<1>4. PICK i \in 0 .. (fileNext["change"] - 1) :
        p = [desc |-> "change", index |-> i, key |-> Key("receive", i)]
  BY Zenon, <1>2 DEF InitUpgraded
<1>5. fileNext["change"] \in Nat
  BY Zenon, <1>1, OwnTypes
<1> QED BY <1>2, <1>3, <1>4, <1>5 DEF KeyAt, Key, KeysOf

(* In the files a process may find only the addresses of an earlier        *)
(* release are known and given.                                            *)
LEMMA InitOwn == Init => Own /\ Fresh
<1> SUFFICES ASSUME Init PROVE Own /\ Fresh
  BY Zenon
<1>1. TypeOK
  BY Zenon, InitTyped DEF Typed
<1>2. BaseIsPinned
  <2>1. ~running /\ ~flag /\ ~flagSet
    BY Zenon DEF Init
  <2>2. FileBase # None => FileBase <= fileNext["change"]
    BY <1>1, OwnTypes DEF Init, InitCreated, InitUpgraded, FileBase
  <2> QED BY Zenon, <2>1, <2>2 DEF BaseIsPinned
<1>3. PositionsAreRight
  BY Zenon, InitNoChange DEF Init, PositionsAreRight
<1>4. JobIsRight
  BY Zenon DEF Init, JobIsRight
<1>5. GivenIsBehind
  <2>1. /\ given = [d \in Descs |-> [k \in Keys |->
                       IF d = "change" /\ k \in inherited THEN 1 ELSE 0]]
        /\ inherited = KeysOf(known)
    BY Zenon DEF Init
  <2>2. ASSUME NEW i \in Indices PROVE Key("change", i) \notin inherited
    <3>1. ASSUME NEW p \in known PROVE p.key # Key("change", i)
      <4>1. p.key.space # "change"
        BY Zenon, <1>3, <3>1, InitNoChange
      <4> QED BY <4>1 DEF Key
    <3> QED BY Zenon, <2>1, <3>1 DEF KeysOf
  <2>3. ASSUME NEW i \in Indices
        PROVE  /\ given["receive"][Key("receive", i)] = 0
               /\ given["receive"][Key("change", i)] = 0
               /\ given["change"][Key("change", i)] = 0
               /\ given["imported"][Key("receive", i)] = 0
               /\ given["imported"][Key("change", i)] = 0
               /\ given["change"][Key("receive", i)] # 0 =>
                    given["change"][Key("receive", i)] = 1 /\ Key("receive", i) \in inherited
    BY <2>1, <2>2, KeyType DEF Descs
  <2> QED BY Zenon, <2>3 DEF GivenIsBehind
<1>6. ASSUME NEW p \in known PROVE KeptAt(p)
  BY Zenon, InitNoChange DEF KeptAt, Behind, Init
<1> QED BY Zenon, <1>2, <1>3, <1>4, <1>5, <1>6 DEF Own, Fresh, Init, JobIsFresh

(* Known change positions of the receive space lie below the base.         *)
LEMMA BelowBase ==
  ASSUME TypeOK, Own, running, NEW p \in known, p.desc = "change", p.key.space # "change"
  PROVE  p.index < MemBase
<1>1. /\ p.key = KeyAt(MemBase, p.desc, p.index) /\ MemBase # None
      /\ p.index \in Indices /\ MemBase \in Indices \cup {None}
  BY Zenon, OwnTypes DEF Own, PositionsAreRight, BaseIsPinned
<1>2. KeyAt(MemBase, p.desc, p.index).space # "change" =>
        (p.desc = "change" /\ MemBase # None => p.index < MemBase)
  BY Zenon, <1>1, KeyAtFacts
<1> QED BY Zenon, <1>1, <1>2

(* A step that gives nothing away keeps what is known and given used up,   *)
(* if it keeps every index used up and the programs in memory.             *)
LEMMA FreshFrame ==
  ASSUME TypeOK, \A p \in known : KeptAt(p), GivenIsBehind,
         UNCHANGED <<given, inherited>>,
         FileBase # None => FileBase' = FileBase,
         \A d \in Descs, i \in Nat : Behind(d, i) => Behind(d, i)',
         running' => running /\ programs \subseteq programs'
  PROVE  (\A p \in known : KeptAt(p)') /\ GivenIsBehind'
<1>1. ASSUME NEW p \in known PROVE KeptAt(p)'
  <2>1. p.desc \in Descs /\ p.index \in Nat
    BY Zenon, OwnTypes
  <2> QED BY Zenon, <2>1 DEF KeptAt
<1>2. GivenIsBehind'
  <2>1. ASSUME NEW i \in Indices PROVE i \in Nat /\ (FileBase # None => FileBase + i \in Nat)
    <3>1. i \in Nat /\ (FileBase # None => FileBase \in Nat)
      BY Zenon, IndexFacts, OwnTypes
    <3> QED BY <3>1
  <2>2. "receive" \in Descs /\ "change" \in Descs
    BY Zenon DEF Descs
  <2> QED BY Zenon, <2>1, <2>2 DEF GivenIsBehind
<1> QED BY Zenon, <1>1, <1>2

(* What a hand-out does, by its outcomes.                                  *)
LEMMA HandOutFacts ==
  ASSUME Typed, active = "change", Own, NEW d \in Descs, GetNewDestination(d)
  PROVE  /\ running /\ running' = running /\ pc = "idle" /\ job = None
         /\ d \in {"receive", "change"}
         /\ UNCHANGED <<active, fileBase, flag, records, flagSet, base, known, given,
                        inherited, flagLost, forgot>>
         /\ FileBase' = FileBase /\ MemBase' = MemBase
         /\ programs \subseteq programs'
         /\ \A s \in scripts' : s.key = KeyAt(MemBase, s.desc, s.index)
         /\ KeyFor(d, next[d]) = KeyAt(MemBase, d, next[d])
         /\ \/ /\ pc' = "pin" /\ next' = [next EXCEPT ![d] = @ + 1]
               /\ job' = [kind |-> "get", desc |-> d, index |-> next[d],
                          key |-> KeyFor(d, next[d]), ok |-> TRUE]
               /\ fileNext'[d] = next[d] + 1 \/ d \in unsaved'
            \/ UNCHANGED <<next, pc, job>>
         /\ \/ fileNext'[d] = next[d] + 1 /\ next'[d] = next[d] + 1
            \/ fileNext'[d] = next[d]
            \/ fileNext'[d] = fileNext[d] /\ (d \in unsaved => d \in unsaved')
         /\ \A e \in Descs \ {d} : fileNext'[e] = fileNext[e] /\ (e \in unsaved => e \in unsaved')
<1>1. TypeOK /\ BaseIsPinned /\ PositionsAreRight
  BY Zenon DEF Typed, Own
<1>2. /\ running /\ running' = running /\ pc = "idle" /\ job = None
      /\ d \in {"receive", "change"}
      /\ UNCHANGED <<active, fileBase, flag, records, flagSet, base, known, given, inherited,
                     flagLost, forgot>>
      /\ FileBase' = FileBase /\ MemBase' = MemBase
  BY Zenon, <1>1 DEF GetNewDestination, history, TypeOK, FileBase, MemBase
<1>3. PICK D \in {{}, {d}} : TakeIndex(d, D) \/ NoAddress(d, D)
  BY Zenon DEF GetNewDestination
<1> DEFINE k == KeyFor(d, next[d])
           new == FillUp(D, next)
           here == [desc |-> d, index |-> next[d], key |-> k]
<1>4. next[d] \in Indices /\ next \in [Descs -> Indices] /\ D \subseteq Descs
  BY Zenon, <1>1 DEF TypeOK
<1>5. k = KeyAt(MemBase, d, next[d])
  BY Zenon, <1>1, <1>2, <1>4, KeyForIs
<1>6. ASSUME NEW s \in new PROVE s.key = KeyAt(MemBase, s.desc, s.index)
  <2>1. s \in Positions /\ s.key = KeyFor(s.desc, s.index)
    BY Zenon, <1>1, <1>4, FillUpFacts
  <2>2. s.desc \in Descs /\ s.index \in Indices
    BY Zenon, <2>1 DEF Positions
  <2> QED BY Zenon, <1>1, <1>2, <2>1, <2>2, KeyForIs
<1>7. programs \subseteq programs'
  BY Zenon, <1>3 DEF TakeIndex, NoAddress
<1>8. \A s \in scripts' : s.key = KeyAt(MemBase, s.desc, s.index)
  <2>1. scripts' = Register(new \cup {here}) \/ scripts' = Register(new)
    BY Zenon, <1>3 DEF TakeIndex, NoAddress
  <2>2. here.key = KeyAt(MemBase, here.desc, here.index)
    BY Zenon, <1>5
  <2> HIDE DEF k, new, here
  <2>3. \A s \in scripts' : s \in scripts \/ s \in new \/ s = here
    BY Zenon, <2>1 DEF Register
  <2> QED BY Zenon, <1>1, <1>2, <1>6, <2>2, <2>3 DEF PositionsAreRight
<1>9. \A e \in Descs : Written(D, next)[e] = IF e \in D THEN next[e] ELSE fileNext[e]
  BY Zenon, <1>1, <1>4, WrittenFacts
<1>10. CASE TakeIndex(d, D)
  <2>1. /\ pc' = "pin" /\ next' = [next EXCEPT ![d] = @ + 1]
        /\ job' = [kind |-> "get", desc |-> d, index |-> next[d], key |-> k, ok |-> TRUE]
        /\ \/ fileNext' = Written({d}, next') /\ unsaved' = unsaved \ {d}
           \/ fileNext' = Written(D, next) /\ unsaved' = unsaved \cup {d}
    BY Zenon, <1>10 DEF TakeIndex
  <2>2. next'[d] = next[d] + 1
    BY Zenon, <1>4, <2>1
  <2>3. next' \in [Descs -> Indices]
    BY Zenon, <1>4, <2>1, <1>1, IndexFacts DEF GetNewDestination
  <2>4. \A e \in Descs : Written({d}, next')[e] = IF e \in {d} THEN next'[e] ELSE fileNext[e]
    BY Zenon, <1>1, <2>3, WrittenFacts
  <2>5. CASE fileNext' = Written({d}, next') /\ unsaved' = unsaved \ {d}
    <3>1. /\ fileNext'[d] = next[d] + 1
          /\ \A e \in Descs \ {d} : fileNext'[e] = fileNext[e] /\ (e \in unsaved => e \in unsaved')
      BY Zenon, <2>2, <2>4, <2>5
    <3> QED BY Zenon, <1>2, <1>5, <1>7, <1>8, <2>1, <2>2, <3>1
  <2>6. CASE fileNext' = Written(D, next) /\ unsaved' = unsaved \cup {d}
    <3>1. /\ fileNext'[d] = next[d] \/ fileNext'[d] = fileNext[d]
          /\ \A e \in Descs \ {d} : fileNext'[e] = fileNext[e] /\ (e \in unsaved => e \in unsaved')
          /\ d \in unsaved'
      BY Zenon, <1>9, <2>6
    <3> QED BY Zenon, <1>2, <1>5, <1>7, <1>8, <2>1, <3>1
  <2> QED BY Zenon, <2>1, <2>5, <2>6
<1>11. CASE NoAddress(d, D)
  <2>1. UNCHANGED <<next, pc, job>> /\ fileNext' = Written(D, next) /\ unsaved' = unsaved \ D
    BY Zenon, <1>11 DEF NoAddress
  <2>2. /\ \/ fileNext'[d] = next[d]
           \/ fileNext'[d] = fileNext[d] /\ (d \in unsaved => d \in unsaved')
        /\ \A e \in Descs \ {d} : fileNext'[e] = fileNext[e] /\ (e \in unsaved => e \in unsaved')
    BY Zenon, <1>9, <2>1
  <2> QED BY Zenon, <1>2, <1>5, <1>7, <1>8, <2>1, <2>2
<1> QED BY Zenon, <1>3, <1>10, <1>11

(* A hand-out keeps the keys right.                                        *)
LEMMA GetNewDestinationOwn ==
  ASSUME Typed, active = "change", Own, NEW d \in Descs, GetNewDestination(d)
  PROVE  Own'
<1>1. TypeOK /\ BaseIsPinned /\ PositionsAreRight /\ JobIsRight
  BY Zenon DEF Typed, Own
<1>2. /\ running /\ running' = running /\ job = None /\ d \in {"receive", "change"}
      /\ UNCHANGED <<active, fileBase, flag, records, flagSet, base, known, flagLost>>
      /\ FileBase' = FileBase /\ MemBase' = MemBase
      /\ \A s \in scripts' : s.key = KeyAt(MemBase, s.desc, s.index)
      /\ KeyFor(d, next[d]) = KeyAt(MemBase, d, next[d])
  BY Zenon, HandOutFacts
<1>3. /\ MemBase \in Nat /\ next \in [Descs -> Nat] /\ fileNext \in [Descs -> Nat]
      /\ "change" \in Descs
      /\ MemBase <= next["change"] /\ MemBase <= fileNext["change"]
  BY Zenon, <1>1, <1>2, OwnTypes DEF BaseIsPinned
<1>4. \/ /\ pc' = "pin" /\ next' = [next EXCEPT ![d] = @ + 1]
         /\ job' = [kind |-> "get", desc |-> d, index |-> next[d],
                    key |-> KeyFor(d, next[d]), ok |-> TRUE]
      \/ UNCHANGED <<next, pc, job>>
  BY Zenon, HandOutFacts
<1>5. /\ \/ fileNext'[d] = next[d] + 1 \/ fileNext'[d] = next[d]
         \/ fileNext'[d] = fileNext[d]
      /\ \A e \in Descs \ {d} : fileNext'[e] = fileNext[e]
  BY Zenon, HandOutFacts
<1>6. MemBase <= next'["change"] /\ MemBase <= fileNext'["change"]
  BY ONLY <1>3, <1>4, <1>5, d \in Descs
<1>7. BaseIsPinned'
  BY Zenon, <1>1, <1>2, <1>6 DEF BaseIsPinned
<1>8. PositionsAreRight'
  <2>1. ASSUME NEW p \in known, p.desc = "change", p.key.space # "change"
        PROVE  p.index < fileNext'["change"]
    <3>1. p.index < MemBase /\ p.index \in Nat /\ fileNext'["change"] \in Nat
      BY Zenon, <1>1, <1>2, <2>1, BelowBase, OwnTypes, GetNewDestinationTyped, IndexFacts
         DEF Typed, TypeOK
    <3> QED BY ONLY <1>3, <1>6, <3>1
  <2> QED BY Zenon, <1>1, <1>2, <2>1 DEF PositionsAreRight
<1>9. JobIsRight'
  <2>1. CASE UNCHANGED <<next, pc, job>>
    BY Zenon, <1>2, <2>1 DEF JobIsRight
  <2>2. CASE /\ pc' = "pin" /\ next' = [next EXCEPT ![d] = @ + 1]
             /\ job' = [kind |-> "get", desc |-> d, index |-> next[d],
                        key |-> KeyFor(d, next[d]), ok |-> TRUE]
    <3>1. next[d] < next'[d]
      BY <2>2, <1>3
    <3>2. d = "change" => MemBase <= next[d]
      BY Zenon, <1>3
    <3> QED BY Zenon, <2>2, <3>1, <3>2, <1>2 DEF JobIsRight
  <2> QED BY Zenon, <1>4, <2>1, <2>2
<1> QED BY Zenon, <1>7, <1>8, <1>9 DEF Own

(* A hand-out: the new index is past every known and every given one.      *)
LEMMA GetNewDestinationFresh ==
  ASSUME Typed, active = "change", Own, Fresh, NEW d \in Descs, GetNewDestination(d)
  PROVE  Fresh'
<1>1. TypeOK /\ BaseIsPinned /\ GivenIsBehind /\ \A p \in known : KeptAt(p)
  BY Zenon DEF Typed, Own, Fresh
<1>2. /\ running /\ running' = running /\ job = None /\ d \in {"receive", "change"}
      /\ UNCHANGED <<known, given, inherited>>
      /\ FileBase' = FileBase /\ MemBase' = MemBase /\ programs \subseteq programs'
      /\ KeyFor(d, next[d]) = KeyAt(MemBase, d, next[d])
  BY Zenon, HandOutFacts
<1>3. /\ MemBase # None /\ MemBase \in Nat /\ MemBase \in Indices
      /\ next \in [Descs -> Nat] /\ next[d] \in Indices
      /\ MemBase <= next["change"] /\ (FileBase # None => FileBase = MemBase)
  BY Zenon, <1>1, <1>2, OwnTypes DEF BaseIsPinned, TypeOK
<1>4. \/ /\ pc' = "pin" /\ next' = [next EXCEPT ![d] = @ + 1]
         /\ job' = [kind |-> "get", desc |-> d, index |-> next[d],
                    key |-> KeyFor(d, next[d]), ok |-> TRUE]
         /\ fileNext'[d] = next[d] + 1 \/ d \in unsaved'
      \/ UNCHANGED <<next, pc, job>>
  BY Zenon, HandOutFacts
<1>5. /\ \/ fileNext'[d] = next[d] + 1 /\ next'[d] = next[d] + 1
         \/ fileNext'[d] = next[d]
         \/ fileNext'[d] = fileNext[d] /\ (d \in unsaved => d \in unsaved')
      /\ \A e \in Descs \ {d} : fileNext'[e] = fileNext[e] /\ (e \in unsaved => e \in unsaved')
  BY Zenon, HandOutFacts
<1>6. ASSUME NEW e \in Descs, NEW i \in Nat, Behind(e, i) PROVE Behind(e, i)'
  <2>1. i < next[e] /\ (e \in unsaved \/ i < fileNext[e])
    BY Zenon, <1>2, <1>6 DEF Behind
  <2>2. i < next'[e]
    BY ONLY <1>3, <1>4, <2>1, d \in Descs, e \in Descs, i \in Nat
  <2>3. e \in unsaved' \/ i < fileNext'[e]
    <3>1. CASE e = d
      <4>1. i < next[e] + 1
        BY <1>3, <2>1
      <4> QED BY Zenon, <1>5, <2>1, <3>1, <4>1
    <3>2. CASE e # d
      BY Zenon, <1>5, <2>1, <3>2
    <3> QED BY Zenon, <3>1, <3>2
  <2> QED BY Zenon, <2>2, <2>3 DEF Behind
<1>7. (\A p \in known : KeptAt(p)') /\ GivenIsBehind'
  BY Zenon, <1>1, <1>2, <1>6, FreshFrame
<1>8. JobIsFresh'
  <2>1. CASE UNCHANGED <<next, pc, job>>
    BY Zenon, <1>2, <2>1 DEF JobIsFresh
  <2>2. CASE /\ pc' = "pin" /\ next' = [next EXCEPT ![d] = @ + 1]
             /\ job' = [kind |-> "get", desc |-> d, index |-> next[d],
                        key |-> KeyFor(d, next[d]), ok |-> TRUE]
             /\ fileNext'[d] = next[d] + 1 \/ d \in unsaved'
    <3>1. ASSUME NEW p \in known, p.desc = d PROVE p.index # next[d]
      <4>1. p.index \in Nat /\ p.index < next[d]
        BY Zenon, <1>1, <1>2, <3>1, OwnTypes DEF KeptAt, Behind
      <4> QED BY <4>1, <1>3
    <3>2. ~Behind(d, next[d])
      <4>1. ~(next[d] < next[d])
        BY <1>3
      <4> QED BY Zenon, <1>2, <4>1 DEF Behind
    <3>3. given[d][KeyFor(d, next[d])] = 0
      <4>1. CASE d = "receive"
        <5>1. KeyFor(d, next[d]) = Key("receive", next[d])
          BY Zenon, <4>1, <1>2 DEF KeyAt
        <5> QED BY Zenon, <5>1, <4>1, <3>2, <1>1, <1>3 DEF GivenIsBehind
      <4>2. CASE d = "change"
        <5>1. MemBase <= next[d]
          BY Zenon, <4>2, <1>3
        <5>2. next[d] - MemBase \in Indices /\ next[d] >= MemBase
          BY <5>1, <1>3, IndexFacts
        <5>3. KeyFor(d, next[d]) = Key("change", next[d] - MemBase)
          BY Zenon, <4>2, <5>2, <1>2, <1>3 DEF KeyAt
        <5>4. MemBase + (next[d] - MemBase) = next[d]
          BY <1>3
        <5>5. given["change"][Key("change", next[d] - MemBase)] # 0
                => FileBase # None /\ Behind("change", FileBase + (next[d] - MemBase))
          BY Zenon, <5>2, <1>1 DEF GivenIsBehind
        <5>6. FileBase # None => FileBase = MemBase
          BY Zenon, <1>3
        <5>7. given["change"][Key("change", next[d] - MemBase)] # 0
                => Behind(d, next[d])
          BY Zenon, <5>4, <5>5, <5>6, <4>2
        <5> QED BY Zenon, <5>3, <5>7, <4>2, <3>2
      <4> QED BY Zenon, <4>1, <4>2, <1>2
    <3>4. next[d] < next'[d] /\ (d \in unsaved' \/ next[d] < fileNext'[d])
      <4>1. next[d] < next[d] + 1 /\ next'[d] = next[d] + 1
        BY <2>2, <1>3
      <4> QED BY Zenon, <2>2, <4>1
    <3> QED BY Zenon, <2>2, <3>1, <3>3, <3>4, <1>2 DEF JobIsFresh, Behind
  <2> QED BY Zenon, <1>4, <2>1, <2>2
<1> QED BY Zenon, <1>2, <1>7, <1>8 DEF Fresh

(* What holds inside a call.                                               *)
LEMMA InCall ==
  ASSUME Typed, active = "change", Own, pc \notin {"idle", "refill"}
  PROVE  /\ TypeOK /\ BaseIsPinned /\ PositionsAreRight /\ JobIsRight
         /\ running /\ job \in Jobs /\ job # None
         /\ job.desc \in Descs /\ job.index \in Indices /\ job.index \in Nat
         /\ job.key \in Keys /\ Target = job.key
         /\ job.key = KeyAt(MemBase, job.desc, job.index)
         /\ MemBase \in Indices /\ MemBase \in Nat /\ MemBase # None
         /\ (FileBase # None => FileBase \in Nat /\ FileBase = MemBase)
         /\ next \in [Descs -> Nat] /\ fileNext \in [Descs -> Nat]
         /\ job.key.space = "change" => job.desc = "change" /\ MemBase <= job.index
<1>1. /\ TypeOK /\ BaseIsPinned /\ PositionsAreRight /\ JobIsRight
      /\ running
  BY Zenon DEF Typed, Own, CallsRun, TypeOK
<1>2. /\ job \in Jobs /\ job # None
      /\ job.desc \in Descs /\ job.index \in Indices /\ job.key \in Keys
  BY Zenon, <1>1, TargetType
<1>3. job.key = KeyAt(MemBase, job.desc, job.index)
  BY Zenon, <1>1, <1>2 DEF JobIsRight
<1>4. Target = job.key
  BY Zenon, <1>1, <1>2, <1>3, KeyForIs DEF Target
<1>5. /\ MemBase # None /\ MemBase \in Indices /\ MemBase \in Nat
      /\ (FileBase # None => FileBase \in Nat /\ FileBase = MemBase)
      /\ next \in [Descs -> Nat] /\ fileNext \in [Descs -> Nat]
  BY Zenon, <1>1, OwnTypes DEF BaseIsPinned
<1>6. job.key.space = "change" => job.desc = "change" /\ MemBase <= job.index
  <2>1. job.index \in Nat
    BY Zenon, <1>2, IndexFacts
  <2> QED BY <1>3, <1>5, <2>1 DEF KeyAt, Key
<1> QED BY Zenon, <1>1, <1>2, <1>3, <1>4, <1>5, <1>6, IndexFacts

(* A call that fails leaves nothing to be right about but its position.    *)
LEMMA FailedJob ==
  ASSUME job \in Jobs, job # None, Failed
  PROVE  \/ job' = None
         \/ /\ pc' = "topup" /\ job' \in Jobs /\ job'.kind = "mark" /\ ~job'.ok
            /\ job'.key = job.key /\ job'.desc = job.desc /\ job'.index = job.index
<1>1. CASE job.kind = "get"
  BY Zenon, <1>1 DEF Failed
<1>2. CASE job.kind # "get"
  BY Zenon, <1>2 DEF Failed, Jobs
<1> QED BY Zenon, <1>1, <1>2

(* The base is pinned: what the file says afterwards is what the wallet    *)
(* went by before.                                                         *)
LEMMA PinBaseOwn ==
  ASSUME Typed, active = "change", Own, PinBase
  PROVE  Own'
<1>1. /\ TypeOK /\ BaseIsPinned /\ PositionsAreRight /\ JobIsRight
      /\ running /\ job \in Jobs /\ job # None
      /\ job.desc \in Descs /\ job.key \in Keys /\ Target = job.key
      /\ MemBase \in Nat /\ MemBase # None
      /\ (FileBase # None => FileBase \in Nat /\ FileBase = MemBase)
      /\ next \in [Descs -> Nat] /\ fileNext \in [Descs -> Nat]
      /\ job.key.space = "change" => job.desc = "change"
  BY Zenon, InCall DEF PinBase
<1>2. /\ UNCHANGED <<active, fileNext, flag, records, running, flagSet, next, base, programs,
                     scripts, known, given, flagLost>>
      /\ MemBase' = MemBase
  BY Zenon DEF PinBase, memVars, history, MemBase
<1>3. \/ /\ FileBase' = MemBase /\ pc' = "flag" /\ job' = job /\ job.key.space = "change"
      \/ /\ FileBase' = FileBase /\ Failed
      \/ /\ FileBase' = FileBase /\ pc' = "persist" /\ job' = job
         /\ (job.key.space = "change" => flagSet)
  <2>1. job.desc = "change" => BaseFor(job.desc) = MemBase
    BY Zenon, <1>1 DEF BaseFor, MemBase
  <2>2. fileBase \in [Descs -> Indices \cup {None}]
    BY Zenon, <1>1 DEF TypeOK
  <2> QED BY Zenon, <1>1, <2>1, <2>2 DEF PinBase, FileBase
<1>4. FileBase' = FileBase \/ FileBase' = MemBase
  BY Zenon, <1>3
<1>5. BaseIsPinned'
  BY Zenon, <1>1, <1>2, <1>4 DEF BaseIsPinned
<1>6. PositionsAreRight'
  BY Zenon, <1>1, <1>2, <1>4 DEF PositionsAreRight
<1>7. JobIsRight'
  <2>1. CASE Failed
    BY Zenon, <1>1, <1>2, <2>1, FailedJob DEF JobIsRight
  <2>2. CASE FileBase' = MemBase /\ pc' = "flag" /\ job' = job /\ job.key.space = "change"
    BY Zenon, <1>1, <1>2, <2>2 DEF JobIsRight
  <2>3. CASE /\ FileBase' = FileBase /\ pc' = "persist" /\ job' = job
             /\ (job.key.space = "change" => flagSet)
    <3>1. Announced(job.key)'
      BY Zenon, <1>1, <1>2, <2>3 DEF Announced, BaseIsPinned
    <3> QED BY Zenon, <1>1, <1>2, <2>3, <3>1 DEF JobIsRight
  <2> QED BY Zenon, <1>3, <2>1, <2>2, <2>3
<1> QED BY Zenon, <1>5, <1>6, <1>7 DEF Own

(* The flag is set after the base.                                         *)
LEMMA SetFlagOwn ==
  ASSUME Typed, active = "change", Own, SetFlag
  PROVE  Own'
<1>1. /\ BaseIsPinned /\ PositionsAreRight /\ JobIsRight
      /\ running /\ job # None /\ TypeOK
  BY Zenon, InCall DEF SetFlag
<1>2. /\ UNCHANGED <<active, fileNext, fileBase, records, running, next, base, programs,
                     scripts, known, given>>
      /\ MemBase' = MemBase /\ FileBase' = FileBase
      /\ flagSet' = TRUE /\ (flag => flag') /\ (flagLost => flagLost') /\ (flag' \/ flagLost')
  BY Zenon, <1>1 DEF SetFlag, MemBase, FileBase, TypeOK
<1>3. FileBase # None /\ job.key.space = "change"
  BY Zenon, <1>1 DEF SetFlag, JobIsRight
<1>4. job' = None \/ (job' = job /\ pc' = "persist")
  BY Zenon DEF SetFlag
<1>5. BaseIsPinned'
  BY Zenon, <1>1, <1>2, <1>3 DEF BaseIsPinned
<1>6. PositionsAreRight'
  BY Zenon, <1>1, <1>2 DEF PositionsAreRight
<1>7. JobIsRight'
  <2>1. Announced(job.key)'
    BY Zenon, <1>2, <1>3, <1>4 DEF Announced
  <2> QED BY Zenon, <1>1, <1>2, <1>4, <2>1 DEF JobIsRight
<1> QED BY Zenon, <1>5, <1>6, <1>7 DEF Own

(* The record is written before the address is known.                      *)
LEMMA PersistStateOwn ==
  ASSUME Typed, active = "change", Own, PersistState
  PROVE  Own'
<1>1. /\ BaseIsPinned /\ PositionsAreRight /\ JobIsRight
      /\ running /\ job \in Jobs /\ job # None /\ Target = job.key
      /\ TypeOK /\ pc = "persist"
  BY Zenon, InCall DEF PersistState
<1>2. /\ UNCHANGED <<active, fileNext, fileBase, flag, running, flagSet, next, base, scripts,
                     known, given, flagLost>>
      /\ MemBase' = MemBase /\ FileBase' = FileBase
      /\ records \subseteq records' /\ programs \subseteq programs'
  BY Zenon DEF PersistState, history, MemBase, FileBase
<1>3. \/ Failed
      \/ /\ job' = job /\ pc' = (IF job.kind = "get" THEN "out" ELSE "topup")
         /\ job.key \in records' /\ ChangeKeys({job.key}) \subseteq programs'
  BY Zenon, <1>1 DEF PersistState
<1>4. BaseIsPinned'
  BY Zenon, <1>1, <1>2 DEF BaseIsPinned
<1>5. PositionsAreRight'
  BY Zenon, <1>1, <1>2 DEF PositionsAreRight
<1>6. JobIsRight'
  <2>1. CASE Failed
    BY Zenon, <1>1, <1>2, <2>1, FailedJob DEF JobIsRight
  <2>2. CASE /\ job' = job /\ pc' = (IF job.kind = "get" THEN "out" ELSE "topup")
             /\ job.key \in records' /\ ChangeKeys({job.key}) \subseteq programs'
    <3>1. Announced(job.key)
      BY Zenon, <1>1 DEF JobIsRight
    <3>2. Secured(job.key)'
      BY Zenon, <1>2, <2>2, <3>1 DEF Secured, Announced, ChangeKeys
    <3> QED BY Zenon, <1>1, <1>2, <2>2, <3>2 DEF JobIsRight
  <2> QED BY Zenon, <1>3, <2>1, <2>2
<1> QED BY Zenon, <1>4, <1>5, <1>6 DEF Own

(* None of the three moves an index.                                       *)
LEMMA SecuringFresh ==
  ASSUME Typed, active = "change", Own, Fresh, PinBase \/ SetFlag \/ PersistState
  PROVE  Fresh'
<1>1. /\ TypeOK /\ GivenIsBehind /\ JobIsFresh /\ \A p \in known : KeptAt(p)
  BY Zenon DEF Typed, Fresh
<1>2. /\ job \in Jobs /\ job # None /\ job.desc \in Descs
      /\ MemBase # None /\ (FileBase # None => FileBase = MemBase) /\ Target = job.key
      /\ job.key.space = "change" => job.desc = "change"
  BY Zenon, InCall DEF PinBase, SetFlag, PersistState
<1>3. /\ UNCHANGED <<fileNext, running, next, known, given, inherited, unsaved>>
      /\ programs \subseteq programs'
  BY Zenon DEF PinBase, SetFlag, PersistState, memVars, history, saving
<1>4. FileBase # None => FileBase' = FileBase
  <2>1. CASE PinBase
    <3>1. job.desc = "change" => BaseFor(job.desc) = MemBase
      BY Zenon, <1>2 DEF BaseFor, MemBase
    <3>2. fileBase \in [Descs -> Indices \cup {None}]
      BY Zenon, <1>1 DEF TypeOK
    <3> QED BY Zenon, <1>2, <2>1, <3>1, <3>2 DEF PinBase, FileBase
  <2>2. CASE SetFlag \/ PersistState
    BY Zenon, <2>2 DEF SetFlag, PersistState, FileBase
  <2> QED BY Zenon, <2>1, <2>2
<1>5. (\A p \in known : KeptAt(p)') /\ GivenIsBehind'
  <2>1. \A d \in Descs, i \in Nat : Behind(d, i) => Behind(d, i)'
    BY Zenon, <1>3 DEF Behind
  <2> QED BY Zenon, <1>1, <1>3, <1>4, <2>1, FreshFrame
<1>6. JobIsFresh'
  <2>1. job' = job \/ job' = None \/ (job' \in Jobs /\ job'.kind = "mark")
    BY Zenon, <1>2, FailedJob DEF PinBase, SetFlag, PersistState
  <2> QED BY Zenon, <1>1, <1>3, <2>1 DEF JobIsFresh, Behind
<1> QED BY Zenon, <1>3, <1>5, <1>6 DEF Fresh

(* A key that is secured is the key the file says.                         *)
LEMMA SecuredOnFile ==
  ASSUME Typed, active = "change", Own, pc \notin {"idle", "refill"}, Secured(job.key)
  PROVE  job.key = KeyAt(FileBase, job.desc, job.index)
<1>1. /\ job.key = KeyAt(MemBase, job.desc, job.index)
      /\ FileBase # None => FileBase = MemBase
  BY Zenon, InCall
<1>2. CASE FileBase # None
  BY Zenon, <1>1, <1>2
<1>3. CASE FileBase = None
  <2>1. job.key.space # "change"
    BY Zenon, <1>3 DEF Secured, Announced
  <2>2. KeyAt(MemBase, job.desc, job.index) = Key("receive", job.index)
    BY <1>1, <2>1 DEF KeyAt, Key
  <2>3. KeyAt(FileBase, job.desc, job.index) = Key("receive", job.index)
    BY Zenon, <1>3 DEF KeyAt
  <2> QED BY Zenon, <1>1, <2>2, <2>3
<1> QED BY Zenon, <1>2, <1>3

(* What a position of a call is.                                           *)
LEMMA PositionFacts ==
  /\ Position(job).desc = job.desc /\ Position(job).index = job.index
  /\ Position(job).key = job.key
BY Zenon DEF Position

(* The position of a call whose key is secured is right.                   *)
LEMMA SecuredPosition ==
  ASSUME Typed, active = "change", Own, pc \notin {"idle", "refill"}, Secured(job.key)
  PROVE  /\ job.key = KeyAt(FileBase, job.desc, job.index)
         /\ job.key = KeyAt(MemBase, job.desc, job.index)
         /\ job.key \in records
         /\ job.desc = "change" /\ job.key.space # "change" => job.index < MemBase
         /\ job.key.space = "change" => flag \/ flagLost
         /\ job.key.space = "change" => job.key \in programs
<1>1. /\ job.key = KeyAt(MemBase, job.desc, job.index) /\ MemBase # None
      /\ job.index \in Indices /\ MemBase \in Indices \cup {None}
  BY Zenon, InCall
<1>2. KeyAt(MemBase, job.desc, job.index).space # "change" =>
        (job.desc = "change" /\ MemBase # None => job.index < MemBase)
  BY Zenon, <1>1, KeyAtFacts
<1> QED BY Zenon, <1>1, <1>2, SecuredOnFile DEF Secured, Announced

(* An address becomes known.                                               *)
LEMMA KeepOwn ==
  ASSUME Typed, active = "change", Own, Keep
  PROVE  Own'
<1>1. /\ BaseIsPinned /\ PositionsAreRight /\ JobIsRight /\ TypeOK
      /\ running /\ job # None /\ pc = "out" /\ job.index \in Nat /\ MemBase \in Nat
      /\ fileNext \in [Descs -> Nat]
  BY Zenon, InCall DEF Keep
<1>2. /\ UNCHANGED <<active, fileNext, fileBase, flag, records, running, flagSet, next, base,
                     programs, scripts, flagLost>>
      /\ MemBase' = MemBase /\ FileBase' = FileBase
      /\ known' = known \cup {Position(job)} /\ job' = None
  BY Zenon DEF Keep, fileVars, memVars, MemBase, FileBase
<1>3. Secured(job.key)
  BY Zenon, <1>1 DEF JobIsRight
<1>4. /\ job.key = KeyAt(FileBase, job.desc, job.index)
      /\ job.key = KeyAt(MemBase, job.desc, job.index)
      /\ job.key \in records
      /\ job.desc = "change" /\ job.key.space # "change" => job.index < MemBase
      /\ job.key.space = "change" => flag \/ flagLost
  BY Zenon, <1>1, <1>3, SecuredPosition
<1>5. BaseIsPinned'
  BY Zenon, <1>1, <1>2 DEF BaseIsPinned
<1>6. job.desc = "change" /\ job.key.space # "change" => job.index < fileNext["change"]
  <2>1. MemBase <= fileNext["change"] /\ fileNext["change"] \in Nat
    BY Zenon, <1>1, OwnTypes DEF BaseIsPinned
  <2> QED BY ONLY <1>1, <1>4, <2>1
<1>7. PositionsAreRight'
  BY Zenon, <1>1, <1>2, <1>4, <1>6, PositionFacts DEF PositionsAreRight
<1>8. JobIsRight'
  BY Zenon, <1>2 DEF JobIsRight
<1> QED BY Zenon, <1>5, <1>7, <1>8 DEF Own

(* It becomes known for the first time.                                    *)
LEMMA KeepFresh ==
  ASSUME Typed, active = "change", Own, Fresh, Keep
  PROVE  Fresh'
<1>1. /\ BaseIsPinned /\ JobIsRight /\ TypeOK
      /\ running /\ job # None /\ pc = "out"
      /\ job.desc \in Descs /\ job.index \in Indices /\ job.index \in Nat /\ job.key \in Keys
      /\ job.key = KeyAt(MemBase, job.desc, job.index)
      /\ MemBase \in Nat /\ MemBase # None /\ MemBase \in Indices
      /\ (FileBase # None => FileBase = MemBase)
  BY Zenon, InCall DEF Keep
<1>2. /\ UNCHANGED <<fileNext, running, next, programs, inherited, unsaved>>
      /\ FileBase' = FileBase
      /\ known' = known \cup {Position(job)} /\ job' = None
      /\ given' = [given EXCEPT ![job.desc][job.key] = IF @ = 0 THEN 1 ELSE 2]
  BY Zenon DEF Keep, fileVars, memVars, saving, FileBase
<1>3. /\ Secured(job.key) /\ job.desc \in {"receive", "change"}
      /\ job.desc = "change" => MemBase <= job.index
      /\ Behind(job.desc, job.index) /\ given[job.desc][job.key] = 0
      /\ GivenIsBehind /\ \A p \in known : KeptAt(p)
  BY Zenon, <1>1 DEF JobIsRight, Fresh, JobIsFresh
<1>4. \A d \in Descs, i \in Nat : Behind(d, i)' <=> Behind(d, i)
  BY Zenon, <1>2 DEF Behind
<1>5. ASSUME NEW p \in known' PROVE KeptAt(p)'
  <2>1. CASE p \in known
    BY Zenon, <1>2, <1>3, <2>1 DEF KeptAt, Behind
  <2>2. CASE p = Position(job)
    BY Zenon, <1>1, <1>2, <1>3, <2>2, PositionFacts DEF KeptAt, Behind, Secured
  <2> QED BY Zenon, <1>2, <2>1, <2>2
<1>6. GivenIsBehind'
  <2>1. /\ given'[job.desc][job.key] = 1
        /\ \A d \in Descs, k \in Keys : d # job.desc \/ k # job.key => given'[d][k] = given[d][k]
    BY Zenon, <1>1, <1>2, <1>3 DEF TypeOK
  <2>2. \A i \in Indices : Key("receive", i) \in Keys /\ Key("change", i) \in Keys
    BY Zenon, KeyType
  <2>3. "receive" \in Descs /\ "change" \in Descs /\ "imported" \in Descs
    BY Zenon DEF Descs
  <2>4. ASSUME NEW i \in Indices PROVE i \in Nat /\ (FileBase # None => FileBase + i \in Nat)
    <3>1. i \in Nat
      BY Zenon, IndexFacts
    <3> QED BY <1>1, <3>1
  <2>5. \A i \in Indices : Behind("change", FileBase + i) => Behind("change", FileBase + i)'
    BY Zenon, <1>2 DEF Behind
  <2>6. CASE job.desc = "receive"
    <3>1. job.key = Key("receive", job.index)
      BY Zenon, <1>1, <2>6 DEF KeyAt
    <3>2. \A i \in Indices : /\ Key("change", i) # job.key
                             /\ Key("receive", i) = job.key => i = job.index
      BY <3>1 DEF Key
    <3>3. \A k \in Keys : /\ given'["change"][k] = given["change"][k]
                          /\ given'["imported"][k] = given["imported"][k]
                          /\ k # job.key => given'["receive"][k] = given["receive"][k]
      BY Zenon, <2>1, <2>3, <2>6
    <3>4. ASSUME NEW i \in Indices, given'["receive"][Key("receive", i)] # 0
          PROVE  given'["receive"][Key("receive", i)] = 1 /\ Behind("receive", i)'
      <4>1. CASE Key("receive", i) = job.key
        BY Zenon, <1>3, <1>4, <2>1, <2>3, <2>4, <2>6, <3>2, <4>1
      <4>2. CASE Key("receive", i) # job.key
        BY Zenon, <1>3, <1>4, <2>2, <2>3, <2>4, <3>3, <3>4, <4>2 DEF GivenIsBehind
      <4> QED BY Zenon, <4>1, <4>2
    <3>5. ASSUME NEW i \in Indices
          PROVE  /\ given'["change"][Key("change", i)] = given["change"][Key("change", i)]
                 /\ given'["change"][Key("receive", i)] = given["change"][Key("receive", i)]
                 /\ given'["receive"][Key("change", i)] = given["receive"][Key("change", i)]
                 /\ given'["imported"][Key("receive", i)] = given["imported"][Key("receive", i)]
                 /\ given'["imported"][Key("change", i)] = given["imported"][Key("change", i)]
      BY Zenon, <2>2, <3>2, <3>3
    <3>6. ASSUME NEW i \in Indices, given'["change"][Key("change", i)] # 0
          PROVE  /\ given'["change"][Key("change", i)] = 1
                 /\ FileBase' # None /\ Behind("change", FileBase + i)'
      <4>1. FileBase # None /\ Behind("change", FileBase + i)
            /\ given["change"][Key("change", i)] = 1
        BY Zenon, <1>3, <3>5, <3>6 DEF GivenIsBehind
      <4> QED BY Zenon, <1>2, <2>5, <3>5, <4>1
    <3>7. ASSUME NEW i \in Indices, given'["change"][Key("receive", i)] # 0
          PROVE  given'["change"][Key("receive", i)] = 1 /\ Key("receive", i) \in inherited'
      BY Zenon, <1>2, <1>3, <3>5, <3>7 DEF GivenIsBehind
    <3>8. ASSUME NEW i \in Indices
          PROVE  /\ given'["receive"][Key("change", i)] = 0
                 /\ given'["imported"][Key("receive", i)] = 0
                 /\ given'["imported"][Key("change", i)] = 0
      BY Zenon, <1>3, <3>5 DEF GivenIsBehind
    <3> QED BY Zenon, <3>4, <3>6, <3>7, <3>8 DEF GivenIsBehind
  <2>7. CASE job.desc = "change"
    <3>1. job.key = Key("change", job.index - MemBase)
      <4>1. job.index >= MemBase
        BY ONLY <1>1, <1>3, <2>7
      <4> QED BY Zenon, <1>1, <2>7, <4>1 DEF KeyAt
    <3>2. FileBase # None /\ FileBase = MemBase
      BY <1>1, <1>3, <3>1 DEF Secured, Announced, Key
    <3>3. \A i \in Indices : /\ Key("receive", i) # job.key
                             /\ Key("change", i) = job.key => i = job.index - MemBase
      BY <3>1 DEF Key
    <3>4. MemBase + (job.index - MemBase) = job.index
      BY ONLY <1>1
    <3>5. \A k \in Keys : /\ given'["receive"][k] = given["receive"][k]
                          /\ given'["imported"][k] = given["imported"][k]
                          /\ k # job.key => given'["change"][k] = given["change"][k]
      BY Zenon, <2>1, <2>3, <2>7
    <3>6. ASSUME NEW i \in Indices, given'["change"][Key("change", i)] # 0
          PROVE  given'["change"][Key("change", i)] = 1 /\ Behind("change", FileBase + i)'
      <4>1. CASE Key("change", i) = job.key
        <5>1. FileBase + i = job.index /\ Behind("change", FileBase + i)
          BY Zenon, <1>3, <2>7, <3>2, <3>3, <3>4, <4>1
        <5> QED BY Zenon, <2>1, <2>7, <2>5, <4>1, <5>1
      <4>2. CASE Key("change", i) # job.key
        BY Zenon, <1>3, <2>2, <2>5, <3>5, <3>6, <4>2 DEF GivenIsBehind
      <4> QED BY Zenon, <4>1, <4>2
    <3>7. \A i \in Indices : Behind("receive", i) => Behind("receive", i)'
      BY Zenon, <1>4, <2>3, <2>4
    <3>8. ASSUME NEW i \in Indices
          PROVE  /\ given'["receive"][Key("receive", i)] # 0 =>
                      given'["receive"][Key("receive", i)] = 1 /\ Behind("receive", i)'
                 /\ given'["change"][Key("receive", i)] # 0 =>
                      /\ given'["change"][Key("receive", i)] = 1
                      /\ Key("receive", i) \in inherited'
                 /\ given'["receive"][Key("change", i)] = 0
                 /\ given'["imported"][Key("receive", i)] = 0
                 /\ given'["imported"][Key("change", i)] = 0
      BY Zenon, <1>2, <1>3, <2>2, <3>3, <3>5, <3>7 DEF GivenIsBehind
    <3> QED BY Zenon, <1>2, <3>2, <3>6, <3>8 DEF GivenIsBehind
  <2> QED BY Zenon, <1>3, <2>6, <2>7
<1>7. JobIsFresh'
  BY Zenon, <1>2 DEF JobIsFresh
<1> QED BY Zenon, <1>5, <1>6, <1>7 DEF Fresh

(* A change index is taken back, by one or not at all.                     *)
LEMMA ReturnFacts ==
  ASSUME Typed, active = "change", Own, ReturnDestination
  PROVE  /\ UNCHANGED <<active, fileBase, flag, records, running, flagSet, base, programs,
                        scripts, known, given, inherited, flagLost>>
         /\ MemBase' = MemBase /\ FileBase' = FileBase /\ job' = None
         /\ job.desc = "change" /\ job.kind = "get" /\ MemBase <= job.index
         /\ \A d \in Descs : d # "change" =>
              /\ next'[d] = next[d] /\ fileNext'[d] = fileNext[d]
              /\ d \in unsaved => d \in unsaved'
         /\ next'["change"] \in Nat /\ fileNext'["change"] \in Nat
         /\ MemBase <= next'["change"] /\ MemBase <= fileNext'["change"]
         /\ \A i \in Nat : i < next["change"] /\ i # job.index => i < next'["change"]
         /\ \/ fileNext'["change"] = next'["change"]
            \/ fileNext' = fileNext /\ unsaved' = unsaved
<1>1. /\ BaseIsPinned /\ JobIsRight /\ TypeOK /\ running /\ job # None /\ pc = "out"
      /\ job.index \in Nat /\ MemBase \in Nat
      /\ next \in [Descs -> Nat] /\ fileNext \in [Descs -> Nat]
  BY Zenon, InCall DEF ReturnDestination
<1>2. /\ UNCHANGED <<active, fileBase, flag, records, running, flagSet, base, programs, scripts,
                     known, given, inherited, flagLost>>
      /\ MemBase' = MemBase /\ FileBase' = FileBase /\ job' = None
  BY Zenon DEF ReturnDestination, history, MemBase, FileBase
<1>3. /\ job.desc = "change" /\ job.kind = "get" /\ "change" \in Descs
      /\ MemBase <= job.index /\ job.index < next["change"]
      /\ MemBase <= next["change"] /\ MemBase <= fileNext["change"]
  BY Zenon, <1>1 DEF JobIsRight, BaseIsPinned, ReturnDestination, Descs
<1>4. /\ \A d \in Descs : d # "change" => next'[d] = next[d]
      /\ next'["change"] = next["change"] \/
           (next'["change"] = job.index /\ next["change"] = job.index + 1)
  BY <1>1, <1>3 DEF ReturnDestination
<1>5. next'["change"] \in Nat /\ MemBase <= next'["change"]
  BY Zenon, <1>1, <1>3, <1>4
<1>6. \A i \in Nat : i < next["change"] /\ i # job.index => i < next'["change"]
  BY ONLY <1>1, <1>3, <1>4
<1>7. next' \in [Descs -> Indices]
  BY Zenon, CallTyped DEF Typed, TypeOK
<1>8. /\ Written({"change"}, next')["change"] = next'["change"]
      /\ \A e \in Descs : e # "change" => Written({"change"}, next')[e] = fileNext[e]
  BY Zenon, <1>3 DEF Written
<1>9. CASE fileNext' = Written({"change"}, next') /\ unsaved' = unsaved \ {"change"}
  <2>1. /\ fileNext'["change"] = next'["change"]
        /\ \A d \in Descs : d # "change" =>
             fileNext'[d] = fileNext[d] /\ (d \in unsaved => d \in unsaved')
    BY Zenon, <1>3, <1>8, <1>9
  <2> QED BY Zenon, <1>2, <1>3, <1>4, <1>5, <1>6, <2>1
<1>10. CASE fileNext' = fileNext /\ unsaved' = unsaved
  <2>1. fileNext["change"] \in Nat
    BY Zenon, <1>1, <1>3
  <2> QED BY Zenon, <1>2, <1>3, <1>4, <1>5, <1>6, <1>10, <2>1
<1> QED BY Zenon, <1>3, <1>9, <1>10 DEF ReturnDestination

(* The base stays behind a change index that is taken back.                *)
LEMMA ReturnDestinationOwn ==
  ASSUME Typed, active = "change", Own, ReturnDestination
  PROVE  Own'
<1>1. BaseIsPinned /\ PositionsAreRight /\ TypeOK /\ running /\ MemBase \in Nat
  BY Zenon, InCall DEF ReturnDestination
<1>2. /\ UNCHANGED <<active, fileBase, flag, records, running, flagSet, base, programs, scripts,
                     known, flagLost>>
      /\ MemBase' = MemBase /\ FileBase' = FileBase /\ job' = None
      /\ MemBase <= next'["change"] /\ MemBase <= fileNext'["change"]
      /\ fileNext'["change"] \in Nat
  BY Zenon, ReturnFacts
<1>3. BaseIsPinned'
  BY Zenon, <1>1, <1>2 DEF BaseIsPinned
<1>4. PositionsAreRight'
  <2>1. ASSUME NEW p \in known, p.desc = "change", p.key.space # "change"
        PROVE  p.index < fileNext'["change"]
    <3>1. p.index < MemBase /\ p.index \in Nat
      BY Zenon, <1>1, <2>1, BelowBase, OwnTypes
    <3> QED BY ONLY <1>1, <1>2, <3>1
  <2> QED BY Zenon, <1>1, <1>2, <2>1 DEF PositionsAreRight
<1>5. JobIsRight'
  BY Zenon, <1>2 DEF JobIsRight
<1> QED BY Zenon, <1>3, <1>4, <1>5 DEF Own

(* A change index that is taken back is neither known nor given.           *)
LEMMA ReturnDestinationFresh ==
  ASSUME Typed, active = "change", Own, Fresh, ReturnDestination
  PROVE  Fresh'
<1>1. /\ TypeOK /\ running /\ job # None
      /\ job.index \in Nat /\ job.index \in Indices
      /\ job.key = KeyAt(MemBase, job.desc, job.index)
      /\ MemBase \in Nat /\ MemBase # None
      /\ (FileBase # None => FileBase \in Nat /\ FileBase = MemBase)
  BY Zenon, InCall DEF ReturnDestination
<1>2. /\ UNCHANGED <<running, programs, known, given, inherited>>
      /\ FileBase' = FileBase /\ job' = None
      /\ job.desc = "change" /\ job.kind = "get" /\ MemBase <= job.index
      /\ \A d \in Descs : d # "change" =>
           /\ next'[d] = next[d] /\ fileNext'[d] = fileNext[d]
           /\ d \in unsaved => d \in unsaved'
      /\ \A i \in Nat : i < next["change"] /\ i # job.index => i < next'["change"]
      /\ \/ fileNext'["change"] = next'["change"]
         \/ fileNext' = fileNext /\ unsaved' = unsaved
  BY Zenon, ReturnFacts
<1>3. /\ GivenIsBehind /\ \A p \in known : KeptAt(p)
      /\ given["change"][job.key] = 0
      /\ \A p \in known : p.desc = "change" => p.index # job.index
  BY Zenon, <1>1, <1>2 DEF Fresh, JobIsFresh
<1>4. ASSUME NEW d \in Descs, NEW i \in Nat, Behind(d, i), d = "change" => i # job.index
      PROVE  Behind(d, i)'
  BY Zenon, <1>1, <1>2, <1>4 DEF Behind
<1>5. ASSUME NEW p \in known PROVE KeptAt(p)'
  <2>1. p.desc \in Descs /\ p.index \in Nat
    BY Zenon, <1>1, OwnTypes
  <2> QED BY Zenon, <1>2, <1>3, <1>4, <2>1 DEF KeptAt
<1>6. GivenIsBehind'
  <2>1. job.key = Key("change", job.index - MemBase)
    <3>1. job.index >= MemBase
      BY ONLY <1>1, <1>2
    <3> QED BY Zenon, <1>1, <1>2, <3>1 DEF KeyAt
  <2>2. ASSUME NEW i \in Indices, given["change"][Key("change", i)] # 0
        PROVE  Behind("change", FileBase + i)'
    <3>1. FileBase # None /\ Behind("change", FileBase + i) /\ i \in Nat
      BY Zenon, <1>3, <2>2, IndexFacts DEF GivenIsBehind
    <3>2. FileBase + i # job.index
      <4>1. FileBase + i = job.index => i = job.index - MemBase
        BY ONLY <1>1, <3>1
      <4> QED BY Zenon, <4>1, <2>1, <2>2, <1>3
    <3>3. FileBase + i \in Nat /\ "change" \in Descs
      BY <1>1, <3>1 DEF Descs
    <3> QED BY Zenon, <1>2, <3>1, <3>2, <3>3, <1>4
  <2>3. ASSUME NEW i \in Indices, Behind("receive", i) PROVE Behind("receive", i)'
    BY Zenon, <1>4, <2>3, IndexFacts DEF Descs
  <2> QED BY Zenon, <1>2, <1>3, <2>2, <2>3 DEF GivenIsBehind
<1>7. JobIsFresh'
  BY Zenon, <1>2 DEF JobIsFresh
<1> QED BY Zenon, <1>2, <1>5, <1>6, <1>7 DEF Fresh

(* A payment found on chain moves the index in memory only.                *)
LEMMA FoundOwn ==
  ASSUME Typed, active = "change", Own, NEW d \in Descs, NEW k \in Keys, FoundOnChain(d, k)
  PROVE  Own'
<1>1. BaseIsPinned /\ PositionsAreRight /\ JobIsRight /\ TypeOK
  BY Zenon DEF Typed, Own
<1>2. /\ running /\ pc' = "pin"
      /\ UNCHANGED <<active, fileNext, fileBase, flag, records, running, flagSet, base, programs,
                     scripts, known, given, flagLost>>
      /\ MemBase' = MemBase /\ FileBase' = FileBase
  BY Zenon DEF FoundOnChain, fileVars, history, MemBase, FileBase
<1>3. PICK s \in scripts :
        /\ s.desc = d /\ s.key = k /\ s.index < MaxIndex[d]
        /\ next' = IF s.index >= next[d] THEN [next EXCEPT ![d] = s.index + 1] ELSE next
        /\ job' = [kind |-> "mark", desc |-> d, index |-> s.index, key |-> k, ok |-> TRUE]
  BY FoundTyped
<1>4. /\ s.index \in Nat /\ next \in [Descs -> Nat] /\ "change" \in Descs /\ "receive" \in Descs
      /\ MemBase \in Nat /\ (FileBase # None => FileBase \in Nat)
  BY Zenon, <1>1, <1>2, OwnTypes DEF BaseIsPinned
<1>5. s.key = KeyAt(MemBase, s.desc, s.index)
  BY Zenon, <1>1, <1>2 DEF PositionsAreRight
<1>6. /\ \A e \in Descs, i \in Nat : i < next[e] => i < next'[e]
      /\ s.index < next'[d] /\ next["change"] <= next'["change"] /\ next'["change"] \in Nat
  BY <1>3, <1>4
<1>7. BaseIsPinned'
  BY <1>1, <1>2, <1>4, <1>6 DEF BaseIsPinned
<1>8. PositionsAreRight'
  BY Zenon, <1>1, <1>2 DEF PositionsAreRight
<1>9. JobIsRight'
  BY Zenon, <1>2, <1>3, <1>5, <1>6 DEF JobIsRight
<1> QED BY Zenon, <1>7, <1>8, <1>9 DEF Own

(* A payment moves the index forward.                                      *)
LEMMA FoundFresh ==
  ASSUME Typed, active = "change", Own, Fresh, NEW d \in Descs, NEW k \in Keys,
         FoundOnChain(d, k)
  PROVE  Fresh'
<1>1. /\ TypeOK /\ GivenIsBehind /\ \A p \in known : KeptAt(p)
  BY Zenon DEF Typed, Fresh
<1>2. /\ running /\ UNCHANGED <<fileNext, running, programs, known, given, inherited, unsaved>>
      /\ FileBase' = FileBase
  BY Zenon DEF FoundOnChain, fileVars, history, saving, FileBase
<1>3. PICK s \in scripts :
        /\ s.desc = d /\ s.key = k /\ s.index < MaxIndex[d]
        /\ next' = IF s.index >= next[d] THEN [next EXCEPT ![d] = s.index + 1] ELSE next
        /\ job' = [kind |-> "mark", desc |-> d, index |-> s.index, key |-> k, ok |-> TRUE]
  BY FoundTyped
<1>4. s.index \in Nat /\ next \in [Descs -> Nat]
  BY Zenon, <1>1, OwnTypes
<1>5. \A e \in Descs, i \in Nat : i < next[e] => i < next'[e]
  BY ONLY <1>3, <1>4, d \in Descs
<1>6. \A e \in Descs, i \in Nat : Behind(e, i) => Behind(e, i)'
  BY Zenon, <1>2, <1>5 DEF Behind
<1>7. (\A p \in known : KeptAt(p)') /\ GivenIsBehind'
  BY Zenon, <1>1, <1>2, <1>6, FreshFrame
<1>8. JobIsFresh'
  BY Zenon, <1>3 DEF JobIsFresh
<1> QED BY Zenon, <1>2, <1>7, <1>8 DEF Fresh

(* Scripts registered by a top-up have the right keys.                     *)
LEMMA FilledScripts ==
  ASSUME Typed, active = "change", Own, running, NEW D, D \subseteq Descs,
         scripts' = Register(FillUp(D, next))
  PROVE  \A s \in scripts' : s.key = KeyAt(MemBase, s.desc, s.index)
<1>1. BaseIsPinned /\ PositionsAreRight /\ TypeOK
  BY Zenon DEF Typed, Own
<1>2. ASSUME NEW s \in FillUp(D, next) PROVE s.key = KeyAt(MemBase, s.desc, s.index)
  <2>1. s \in Positions /\ s.key = KeyFor(s.desc, s.index)
    BY Zenon, <1>1, FillUpFacts
  <2>2. s.desc \in Descs /\ s.index \in Indices
    BY Zenon, <2>1 DEF Positions
  <2> QED BY Zenon, <1>1, <2>1, <2>2, KeyForIs
<1>3. \A s \in scripts' : s \in scripts \/ s \in FillUp(D, next)
  BY Zenon DEF Register
<1> QED BY Zenon, <1>1, <1>2, <1>3 DEF PositionsAreRight

(* A top-up that writes the indices of D, or writes nothing.               *)
LEMMA WrittenBehind ==
  ASSUME TypeOK, Own, running, running' = running, NEW D, D \subseteq Descs,
         UNCHANGED next, fileNext' = Written(D, next), unsaved \ D \subseteq unsaved'
  PROVE  /\ MemBase <= fileNext'["change"] /\ fileNext'["change"] \in Nat
         /\ \A e \in Descs, i \in Nat : Behind(e, i) => Behind(e, i)'
<1>1. next \in [Descs -> Indices] /\ "change" \in Descs
  BY Zenon DEF TypeOK, Descs
<1>2. \A e \in Descs : fileNext'[e] = IF e \in D THEN next[e] ELSE fileNext[e]
  BY Zenon DEF Written
<1>3. /\ MemBase <= next["change"] /\ MemBase <= fileNext["change"]
      /\ next["change"] \in Nat /\ fileNext["change"] \in Nat
  BY Zenon, <1>1, OwnTypes DEF Own, BaseIsPinned
<1>4. ASSUME NEW e \in Descs, NEW i \in Nat, Behind(e, i) PROVE Behind(e, i)'
  BY Zenon, <1>2, <1>4 DEF Behind
<1> QED BY Zenon, <1>1, <1>2, <1>3, <1>4

(* What the top-up after a payment does.                                   *)
LEMMA MarkFacts ==
  ASSUME Typed, active = "change", Own, MarkTopUp
  PROVE  /\ UNCHANGED <<active, fileBase, flag, records, running, flagSet, next, base, given,
                        inherited, flagLost>>
         /\ MemBase' = MemBase /\ FileBase' = FileBase /\ job' = None
         /\ programs \subseteq programs'
         /\ known' = IF job.ok THEN known \cup {Position(job)} ELSE known
         /\ \A s \in scripts' : s.key = KeyAt(MemBase, s.desc, s.index)
         /\ MemBase <= fileNext'["change"] /\ fileNext'["change"] \in Nat
         /\ \A e \in Descs, i \in Nat : Behind(e, i) => Behind(e, i)'
         /\ job.desc \in unsaved' \/ fileNext'[job.desc] = next[job.desc]
<1>1. /\ TypeOK /\ running /\ job.desc \in Descs /\ next \in [Descs -> Indices]
  BY Zenon, InCall DEF MarkTopUp, TypeOK
<1>2. /\ UNCHANGED <<active, fileBase, flag, records, running, flagSet, next, base, given,
                     inherited, flagLost>>
      /\ MemBase' = MemBase /\ FileBase' = FileBase /\ job' = None
      /\ known' = IF job.ok THEN known \cup {Position(job)} ELSE known
  BY Zenon DEF MarkTopUp, MemBase, FileBase
<1>3. PICK D \in {{}, {job.desc}} :
        /\ scripts' = Register(FillUp(D, next))
        /\ programs' = programs \cup ChangeKeys(KeysOf(FillUp(D, next)))
        /\ fileNext' = Written(D, next) /\ unsaved' = (unsaved \cup {job.desc}) \ D
  BY Zenon DEF MarkTopUp
<1>4. D \subseteq Descs /\ unsaved \ D \subseteq unsaved'
  BY Zenon, <1>1, <1>3
<1>5. \A s \in scripts' : s.key = KeyAt(MemBase, s.desc, s.index)
  BY Zenon, <1>1, <1>3, <1>4, FilledScripts
<1>6. /\ MemBase <= fileNext'["change"] /\ fileNext'["change"] \in Nat
      /\ \A e \in Descs, i \in Nat : Behind(e, i) => Behind(e, i)'
  BY Zenon, <1>1, <1>2, <1>3, <1>4, WrittenBehind
<1>7. job.desc \in unsaved' \/ fileNext'[job.desc] = next[job.desc]
  BY Zenon, <1>1, <1>3, WrittenFacts
<1>8. programs \subseteq programs'
  BY Zenon, <1>3
<1> QED BY Zenon, <1>2, <1>5, <1>6, <1>7, <1>8

(* The top-up after a payment makes a right position known.                *)
LEMMA MarkTopUpOwn ==
  ASSUME Typed, active = "change", Own, MarkTopUp
  PROVE  Own'
<1>1. /\ BaseIsPinned /\ PositionsAreRight /\ JobIsRight /\ TypeOK
      /\ running /\ job # None /\ pc = "topup" /\ job.index \in Nat /\ MemBase \in Nat
  BY Zenon, InCall DEF MarkTopUp
<1>2. /\ UNCHANGED <<active, fileBase, flag, records, running, flagSet, next, base, flagLost>>
      /\ MemBase' = MemBase /\ FileBase' = FileBase /\ job' = None
      /\ known' = IF job.ok THEN known \cup {Position(job)} ELSE known
      /\ \A s \in scripts' : s.key = KeyAt(MemBase, s.desc, s.index)
      /\ MemBase <= fileNext'["change"] /\ fileNext'["change"] \in Nat
  BY Zenon, MarkFacts
<1>3. BaseIsPinned'
  BY Zenon, <1>1, <1>2 DEF BaseIsPinned
<1>4. ASSUME NEW p \in known'
      PROVE  /\ p.key = KeyAt(FileBase, p.desc, p.index)
             /\ p.key \in records
             /\ p.desc = "change" /\ p.key.space # "change" => p.index < MemBase
             /\ p.key.space = "change" => flag \/ flagLost
             /\ p.key = KeyAt(MemBase, p.desc, p.index)
             /\ p.index \in Nat
  <2>1. CASE p \in known
    BY Zenon, <1>1, <2>1, BelowBase, OwnTypes DEF PositionsAreRight
  <2>2. CASE p \notin known
    <3>1. p = Position(job) /\ job.ok
      BY Zenon, <1>2, <2>2
    <3>2. Secured(job.key)
      BY Zenon, <1>1, <3>1 DEF JobIsRight
    <3> QED BY Zenon, <1>1, <3>1, <3>2, SecuredPosition, PositionFacts
  <2> QED BY Zenon, <2>1, <2>2
<1>5. ASSUME NEW p \in known', p.desc = "change", p.key.space # "change"
      PROVE  p.index < fileNext'["change"]
  <2>1. p.index < MemBase /\ p.index \in Nat
    BY Zenon, <1>4, <1>5
  <2> QED BY ONLY <1>1, <1>2, <2>1
<1>6. PositionsAreRight'
  BY Zenon, <1>2, <1>4, <1>5 DEF PositionsAreRight
<1>7. JobIsRight'
  BY Zenon, <1>2 DEF JobIsRight
<1> QED BY Zenon, <1>3, <1>6, <1>7 DEF Own

(* Its index is used up by then.                                           *)
LEMMA MarkTopUpFresh ==
  ASSUME Typed, active = "change", Own, Fresh, MarkTopUp
  PROVE  Fresh'
<1>1. /\ TypeOK /\ running /\ job # None /\ pc = "topup" /\ JobIsRight
      /\ job.index \in Nat
      /\ GivenIsBehind /\ \A p \in known : KeptAt(p)
  BY Zenon, InCall DEF MarkTopUp, Fresh
<1>2. /\ UNCHANGED <<running, next, given, inherited>>
      /\ FileBase' = FileBase /\ job' = None /\ programs \subseteq programs'
      /\ known' = IF job.ok THEN known \cup {Position(job)} ELSE known
      /\ \A e \in Descs, i \in Nat : Behind(e, i) => Behind(e, i)'
      /\ job.desc \in unsaved' \/ fileNext'[job.desc] = next[job.desc]
  BY Zenon, MarkFacts
<1>3. (\A p \in known : KeptAt(p)') /\ GivenIsBehind'
  BY Zenon, <1>1, <1>2, FreshFrame
<1>4. ASSUME NEW p \in known', p \notin known PROVE KeptAt(p)'
  <2>1. p = Position(job) /\ job.ok
    BY Zenon, <1>2, <1>4
  <2>2. Secured(job.key) /\ job.index < next[job.desc]
    BY Zenon, <1>1, <2>1 DEF JobIsRight
  <2>3. job.key.space = "change" => job.key \in programs'
    BY Zenon, <1>2, <2>2 DEF Secured
  <2>4. p.desc = job.desc /\ p.index = job.index /\ p.key = job.key
    BY Zenon, <2>1, PositionFacts
  <2> QED BY Zenon, <1>2, <2>2, <2>3, <2>4 DEF KeptAt, Behind
<1>5. JobIsFresh'
  BY Zenon, <1>2 DEF JobIsFresh
<1> QED BY Zenon, <1>3, <1>4, <1>5 DEF Fresh

(* keypoolrefill registers scripts ahead of the next index and writes the  *)
(* indices it has.                                                         *)
LEMMA KeypoolRefillOwn ==
  ASSUME Typed, active = "change", Own, KeypoolRefill
  PROVE  Own' /\ (Fresh => Fresh')
<1>1. BaseIsPinned /\ PositionsAreRight /\ TypeOK /\ running
  BY Zenon DEF Typed, Own, KeypoolRefill
<1>2. /\ UNCHANGED <<active, fileBase, flag, records, running, flagSet, next, base,
                     job, known, given, inherited, flagLost>>
      /\ MemBase' = MemBase /\ FileBase' = FileBase /\ job = None
  BY Zenon, <1>1 DEF KeypoolRefill, history, MemBase, FileBase, TypeOK
<1>3. PICK D \in SUBSET {"receive", active} :
        /\ scripts' = Register(FillUp(D, next))
        /\ programs' = programs \cup ChangeKeys(KeysOf(FillUp(D, next)))
        /\ fileNext' = Written(D, next) /\ unsaved' = unsaved \ D
  BY Zenon DEF KeypoolRefill, TopUpKeyPool
<1>4. D \subseteq Descs
  BY Zenon DEF Descs
<1>5. \A s \in scripts' : s.key = KeyAt(MemBase, s.desc, s.index)
  BY Zenon, <1>1, <1>3, <1>4, FilledScripts
<1>6. /\ MemBase <= fileNext'["change"] /\ fileNext'["change"] \in Nat
      /\ \A e \in Descs, i \in Nat : Behind(e, i) => Behind(e, i)'
  BY Zenon, <1>1, <1>2, <1>3, <1>4, WrittenBehind
<1>7. BaseIsPinned'
  BY Zenon, <1>1, <1>2, <1>6 DEF BaseIsPinned
<1>8. PositionsAreRight'
  <2>1. ASSUME NEW p \in known, p.desc = "change", p.key.space # "change"
        PROVE  p.index < fileNext'["change"]
    <3>1. p.index < MemBase /\ p.index \in Nat /\ MemBase \in Nat
      BY Zenon, <1>1, <2>1, BelowBase, OwnTypes DEF BaseIsPinned
    <3> QED BY ONLY <1>6, <3>1
  <2> QED BY Zenon, <1>1, <1>2, <1>5, <2>1 DEF PositionsAreRight
<1>9. JobIsRight' /\ JobIsFresh'
  BY Zenon, <1>2 DEF JobIsRight, JobIsFresh
<1>10. ASSUME Fresh PROVE Fresh'
  <2>1. programs \subseteq programs' /\ GivenIsBehind /\ \A p \in known : KeptAt(p)
    BY Zenon, <1>3, <1>10 DEF Fresh
  <2>2. (\A p \in known : KeptAt(p)') /\ GivenIsBehind'
    BY Zenon, <1>1, <1>2, <1>6, <2>1, FreshFrame
  <2> QED BY Zenon, <1>2, <1>9, <2>2 DEF Fresh
<1> QED BY Zenon, <1>7, <1>8, <1>9, <1>10 DEF Own

(* What a load reads.                                                      *)
LEMMA LoadFacts ==
  ASSUME Typed, active = "change", Own, Load
  PROVE  /\ UNCHANGED <<active, fileNext, fileBase, flag, job, known, given, inherited, flagLost,
                        unsaved>>
         /\ ~running /\ running' = TRUE /\ job = None /\ unsaved = {}
         /\ flagSet' = flag /\ next' = fileNext /\ scripts' = {}
         /\ FileBase' = FileBase /\ records \subseteq records'
         /\ programs' = ChangeSlots \cap records'
         /\ FileBase \in Indices \cup {None} /\ (FileBase # None => FileBase \in Nat)
         /\ fileNext \in [Descs -> Nat] /\ fileNext["change"] \in Indices
         /\ "change" \in Descs /\ None \notin Nat
         /\ MemBase' = IF FileBase # None THEN FileBase ELSE fileNext["change"]
<1>1. BaseIsPinned /\ TypeOK /\ ~running /\ job = None /\ unsaved = {}
  BY Zenon DEF Typed, Own, Load, CallsRun, TypeOK
<1>2. /\ UNCHANGED <<active, fileNext, fileBase, flag, job, known, given, inherited, flagLost,
                     unsaved>>
      /\ running' = TRUE /\ flagSet' = flag /\ next' = fileNext /\ scripts' = {}
      /\ FileBase' = FileBase /\ records \subseteq records'
      /\ programs' = ChangeSlots \cap records'
  BY Zenon DEF Load, history, saving, FileBase
<1>3. /\ FileBase \in Indices \cup {None} /\ (FileBase # None => FileBase \in Nat)
      /\ fileNext \in [Descs -> Nat] /\ fileNext["change"] \in Indices
      /\ "change" \in Descs /\ None \notin Nat
  BY Zenon, <1>1, OwnTypes, AddressAssumption DEF TypeOK
<1>4. MemBase' = IF FileBase # None THEN FileBase ELSE fileNext["change"]
  BY Zenon, <1>1, <1>3 DEF Load, LoadedBase, MemBase, FileBase, BaseIsPinned
<1> QED BY Zenon, <1>1, <1>2, <1>3, <1>4

(* A load finds the base the known positions were made with.               *)
LEMMA LoadOwn ==
  ASSUME Typed, active = "change", Own, Load
  PROVE  Own'
<1>1. BaseIsPinned /\ PositionsAreRight /\ TypeOK
  BY Zenon DEF Typed, Own
<1>2. /\ UNCHANGED <<fileNext, flag, job, known, flagLost>>
      /\ running' = TRUE /\ job = None
      /\ flagSet' = flag /\ next' = fileNext /\ scripts' = {}
      /\ FileBase' = FileBase /\ records \subseteq records'
      /\ FileBase \in Indices \cup {None} /\ (FileBase # None => FileBase \in Nat)
      /\ fileNext \in [Descs -> Nat] /\ fileNext["change"] \in Indices
      /\ "change" \in Descs /\ None \notin Nat
      /\ MemBase' = IF FileBase # None THEN FileBase ELSE fileNext["change"]
  BY Zenon, LoadFacts
<1>3. BaseIsPinned'
  BY <1>1, <1>2 DEF BaseIsPinned
<1>4. ASSUME NEW p \in known PROVE p.key = KeyAt(MemBase', p.desc, p.index)
  <2>1. /\ p.key = KeyAt(FileBase, p.desc, p.index) /\ p.index \in Nat
        /\ p.desc = "change" /\ p.key.space # "change" => p.index < fileNext["change"]
    BY Zenon, <1>1, OwnTypes DEF PositionsAreRight
  <2>2. CASE FileBase = None
    BY <1>2, <2>1, <2>2 DEF KeyAt, Key
  <2>3. CASE FileBase # None
    BY Zenon, <1>2, <2>1, <2>3
  <2> QED BY Zenon, <2>2, <2>3
<1>5. PositionsAreRight'
  BY Zenon, <1>1, <1>2, <1>4 DEF PositionsAreRight
<1>6. JobIsRight'
  BY Zenon, <1>2 DEF JobIsRight
<1> QED BY Zenon, <1>3, <1>5, <1>6 DEF Own

(* A load finds the indices and the programs it needs.                     *)
LEMMA LoadFresh ==
  ASSUME Typed, active = "change", Own, Fresh, Load
  PROVE  Fresh'
<1>1. PositionsAreRight /\ TypeOK /\ GivenIsBehind /\ \A p \in known : KeptAt(p)
  BY Zenon DEF Typed, Own, Fresh
<1>2. /\ UNCHANGED <<fileNext, job, known, given, inherited, unsaved>>
      /\ running' = TRUE /\ job = None /\ unsaved = {} /\ next' = fileNext
      /\ FileBase' = FileBase /\ records \subseteq records'
      /\ programs' = ChangeSlots \cap records'
      /\ (FileBase # None => FileBase \in Nat)
  BY Zenon, LoadFacts
<1>3. \A d, i : Behind(d, i) => Behind(d, i)'
  BY Zenon, <1>2 DEF Behind
<1>4. ASSUME NEW p \in known PROVE KeptAt(p)'
  <2>1. /\ p.key = KeyAt(FileBase, p.desc, p.index) /\ p.key \in records
        /\ p.index < fileNext[p.desc] /\ p.index \in Indices /\ p.index \in Nat
    BY Zenon, <1>1, <1>2, OwnTypes DEF PositionsAreRight, KeptAt, Behind
  <2>2. ASSUME p.key.space = "change" PROVE p.key \in ChangeSlots
    <3>1. /\ p.desc = "change" /\ FileBase # None /\ FileBase <= p.index
          /\ p.key = Key("change", p.index - FileBase)
      BY <1>2, <2>1, <2>2 DEF KeyAt, Key
    <3> QED BY Zenon, <2>1, <3>1 DEF ChangeSlots, FileBase
  <2> QED BY Zenon, <1>1, <1>2, <1>3, <2>1, <2>2 DEF KeptAt
<1>5. GivenIsBehind'
  BY Zenon, <1>1, <1>2, <1>3 DEF GivenIsBehind
<1>6. JobIsFresh'
  BY Zenon, <1>2 DEF JobIsFresh
<1> QED BY Zenon, <1>2, <1>4, <1>5, <1>6 DEF Fresh

(* Unloading and crashing leave the file as it is; locking and unlocking   *)
(* leave the positions as they are.                                        *)
LEMMA LockOwn ==
  ASSUME Typed, active = "change", Own, Unload \/ Lock \/ Unlock \/ UNCHANGED vars
  PROVE  Own' /\ (~forgot' => ~forgot /\ (Fresh => Fresh'))
<1>1. BaseIsPinned /\ PositionsAreRight /\ JobIsRight /\ TypeOK
  BY Zenon DEF Typed, Own
<1>2. CASE Unload
  <2>1. /\ UNCHANGED <<fileNext, fileBase, flag, records, known, given, inherited, flagLost>>
        /\ FileBase' = FileBase /\ ~running' /\ ~flagSet' /\ job' = None
        /\ ~forgot' => ~forgot /\ unsaved = {}
    BY Zenon, <1>2 DEF Unload, fileVars, history, FileBase
  <2>2. BaseIsPinned'
    BY Zenon, <1>1, <2>1 DEF BaseIsPinned
  <2>3. PositionsAreRight'
    BY Zenon, <1>1, <2>1 DEF PositionsAreRight
  <2>4. JobIsRight' /\ JobIsFresh'
    BY Zenon, <2>1 DEF JobIsRight, JobIsFresh
  <2>5. ASSUME Fresh, ~forgot' PROVE Fresh'
    <3>1. \A d, i : Behind(d, i) => Behind(d, i)'
      BY Zenon, <2>1, <2>5 DEF Behind
    <3>2. (\A p \in known : KeptAt(p)') /\ GivenIsBehind'
      BY Zenon, <1>1, <2>1, <2>5, <3>1, FreshFrame DEF Fresh
    <3> QED BY Zenon, <2>1, <2>4, <3>2 DEF Fresh
  <2> QED BY Zenon, <2>1, <2>2, <2>3, <2>4, <2>5 DEF Own
<1>3. CASE Lock \/ Unlock \/ UNCHANGED vars
  <2>1. /\ UNCHANGED <<fileNext, fileBase, flag, records, running, flagSet, next, base, programs,
                       scripts, job, known, given, inherited, flagLost, unsaved, forgot>>
        /\ FileBase' = FileBase /\ MemBase' = MemBase
        /\ pc' = pc \/ (pc' = "refill" /\ pc = "idle")
    BY Zenon, <1>3 DEF Lock, Unlock, vars, fileVars, memVars, history, saving, FileBase, MemBase
  <2>2. BaseIsPinned'
    BY Zenon, <1>1, <2>1 DEF BaseIsPinned
  <2>3. PositionsAreRight'
    BY Zenon, <1>1, <2>1 DEF PositionsAreRight
  <2>4. JobIsRight'
    BY Zenon, <1>1, <2>1 DEF JobIsRight, Secured, Announced
  <2>5. ASSUME Fresh PROVE Fresh'
    <3>1. \A d, i : Behind(d, i) => Behind(d, i)'
      BY Zenon, <2>1 DEF Behind
    <3>2. (\A p \in known : KeptAt(p)') /\ GivenIsBehind'
      BY Zenon, <1>1, <2>1, <2>5, <3>1, FreshFrame DEF Fresh
    <3>3. JobIsFresh'
      BY Zenon, <2>1, <2>5, <3>1 DEF Fresh, JobIsFresh
    <3> QED BY Zenon, <2>1, <3>2, <3>3 DEF Fresh
  <2> QED BY Zenon, <2>1, <2>2, <2>3, <2>4, <2>5 DEF Own
<1> QED BY Zenon, <1>2, <1>3

(* Every step keeps the invariant.                                         *)
LEMMA NextInv == Inv /\ [Next]_vars => Inv'
<1> SUFFICES ASSUME Inv, [Next]_vars PROVE Inv'
  BY Zenon
<1>1. Typed /\ Typed'
  BY Zenon, NextTyped DEF Inv, Typed
<1>2. ASSUME active' = "change" PROVE Own' /\ (~forgot' => Fresh')
  <2>1. ~ImportChange
    BY Zenon, <1>2 DEF ImportChange
  <2>2. active = "change"
    BY Zenon, <1>2, <2>1 DEF Next, GetNewDestination, PinBase, SetFlag, PersistState, Keep,
       ReturnDestination, FoundOnChain, MarkTopUp, KeypoolRefill, Load, Unload, Lock, Unlock,
       vars, fileVars
  <2>3. Own /\ (~forgot => Fresh)
    BY Zenon, <2>2 DEF Inv
  <2>4. ASSUME NEW d \in Descs, GetNewDestination(d) PROVE Own' /\ (~forgot' => Fresh')
    <3>1. forgot' = forgot
      BY Zenon, <2>4 DEF GetNewDestination
    <3> QED BY Zenon, <1>1, <2>2, <2>3, <2>4, <3>1, GetNewDestinationOwn, GetNewDestinationFresh
  <2>5. ASSUME NEW d \in Descs, NEW k \in Keys, FoundOnChain(d, k)
        PROVE  Own' /\ (~forgot' => Fresh')
    <3>1. forgot' = forgot
      BY Zenon, <2>5 DEF FoundOnChain, saving
    <3> QED BY Zenon, <1>1, <2>2, <2>3, <2>5, <3>1, FoundOwn, FoundFresh
  <2>6. CASE PinBase \/ SetFlag \/ PersistState
    <3>1. forgot' = forgot
      BY Zenon, <2>6 DEF PinBase, SetFlag, PersistState, saving
    <3>2. Own'
      BY Zenon, <1>1, <2>2, <2>3, <2>6, PinBaseOwn, SetFlagOwn, PersistStateOwn
    <3> QED BY Zenon, <1>1, <2>2, <2>3, <2>6, <3>1, <3>2, SecuringFresh
  <2>7. CASE Keep
    <3>1. forgot' = forgot
      BY Zenon, <2>7 DEF Keep, saving
    <3> QED BY Zenon, <1>1, <2>2, <2>3, <2>7, <3>1, KeepOwn, KeepFresh
  <2>8. CASE ReturnDestination
    <3>1. forgot' = forgot
      BY Zenon, <2>8 DEF ReturnDestination
    <3> QED BY Zenon, <1>1, <2>2, <2>3, <2>8, <3>1, ReturnDestinationOwn, ReturnDestinationFresh
  <2>9. CASE MarkTopUp
    <3>1. forgot' = forgot
      BY Zenon, <2>9 DEF MarkTopUp
    <3> QED BY Zenon, <1>1, <2>2, <2>3, <2>9, <3>1, MarkTopUpOwn, MarkTopUpFresh
  <2>10. CASE KeypoolRefill
    <3>1. forgot' = forgot
      BY Zenon, <2>10 DEF KeypoolRefill
    <3> QED BY Zenon, <1>1, <2>2, <2>3, <2>10, <3>1, KeypoolRefillOwn
  <2>11. CASE Load
    <3>1. forgot' = forgot
      BY Zenon, <2>11 DEF Load, saving
    <3> QED BY Zenon, <1>1, <2>2, <2>3, <2>11, <3>1, LoadOwn, LoadFresh
  <2>12. CASE Unload \/ Lock \/ Unlock \/ UNCHANGED vars
    BY Zenon, <1>1, <2>2, <2>3, <2>12, LockOwn
  <2> QED BY Zenon, <2>1, <2>4, <2>5, <2>6, <2>7, <2>8, <2>9, <2>10, <2>11, <2>12 DEF Next
<1> QED BY Zenon, <1>1, <1>2 DEF Inv, Typed

-----------------------------------------------------------------------------
(* What follows.                                                           *)

(* A known address is found, as the key it was derived from.               *)
LEMMA KnownIsMine == Inv => OwnAddressesStayMine
<1> SUFFICES ASSUME Inv, active = "change", ~forgot, running, NEW p \in known
             PROVE  FindQuantumKey(p.key) = {p.key}
  BY Zenon DEF OwnAddressesStayMine, AddressesStayMine
<1>1. TypeOK /\ PositionsAreRight /\ BaseIsPinned /\ KeptAt(p)
  BY Zenon DEF Inv, Own, Fresh
<1>2. /\ p.key = KeyAt(MemBase, p.desc, p.index) /\ p.key \in records
      /\ p.index < next[p.desc] /\ (p.key.space = "change" => p.key \in programs)
      /\ p.desc \in Descs /\ p.index \in Indices /\ p.key \in Keys
  BY Zenon, <1>1, OwnTypes DEF PositionsAreRight, KeptAt, Behind
<1>3. CASE p.key.space = "change"
  BY Zenon, <1>2, <1>3 DEF FindQuantumKey
<1>4. CASE p.key.space # "change"
  <2>1. p.key = Key("receive", p.index) /\ p.key.index = p.index /\ p.key.space = "receive"
    BY <1>2, <1>4 DEF KeyAt, Key
  <2>2. ASSUME NEW t \in scripts, t.key = p.key PROVE Key("receive", t.index) = p.key
    <3>1. t.key = KeyAt(MemBase, t.desc, t.index)
      BY Zenon, <1>1 DEF PositionsAreRight
    <3> QED BY <1>4, <2>2, <3>1 DEF KeyAt, Key
  <2>3. p.key.index < next[p.desc]
    BY Zenon, <1>2, <2>1
  <2>4. CASE p.key \in programs \/ p.key = Key("receive", 0)
    BY Zenon, <2>4 DEF FindQuantumKey
  <2>5. CASE ~(p.key \in programs \/ p.key = Key("receive", 0))
    <3>1. FindQuantumKey(p.key) =
            {Key("receive", s.index) : s \in {t \in scripts : t.key = p.key}} \cup {p.key}
      BY Zenon, <1>2, <2>1, <2>3, <2>5 DEF FindQuantumKey
    <3> QED BY Zenon, <2>2, <3>1
  <2> QED BY Zenon, <2>4, <2>5
<1> QED BY Zenon, <1>3, <1>4

(* The other properties.                                                   *)
LEMMA InvImplies == Inv => AddressesNeverChange /\ HandedOutOnce /\ FlaggedBeforeUse
<1> SUFFICES ASSUME Inv, active = "change"
             PROVE  /\ running => \A p \in known : KeyFor(p.desc, p.index) = p.key
                    /\ ~forgot => \A k \in Keys, d \in Descs :
                         /\ given[d][k] <= 1
                         /\ k \notin inherited /\ given[d][k] > 0 =>
                              \A e \in Descs \ {d} : given[e][k] = 0
                    /\ \A p \in known : p.key.space = "change" =>
                         fileBase[p.desc] # None /\ (flag \/ flagLost)
  BY Zenon DEF AddressesNeverChange, HandedOutOnce, FlaggedBeforeUse
<1>1. TypeOK /\ PositionsAreRight /\ BaseIsPinned
  BY Zenon DEF Inv, Own
<1>2. ASSUME running, NEW p \in known PROVE KeyFor(p.desc, p.index) = p.key
  <2>1. p.desc \in Descs /\ p.index \in Indices
    BY Zenon, <1>1, OwnTypes
  <2>2. p.key = KeyAt(MemBase, p.desc, p.index)
    BY Zenon, <1>1, <1>2 DEF PositionsAreRight
  <2> QED BY Zenon, <1>1, <1>2, <2>1, <2>2, KeyForIs
<1>3. ASSUME ~forgot, NEW k \in Keys, NEW d \in Descs
      PROVE  /\ given[d][k] <= 1
             /\ k \notin inherited /\ given[d][k] > 0 =>
                  \A e \in Descs \ {d} : given[e][k] = 0
  <2>1. GivenIsBehind
    BY Zenon, <1>3 DEF Inv, Fresh
  <2>2. PICK i \in Indices : k = Key("receive", i) \/ k = Key("change", i)
    BY Zenon DEF Keys, Key
  <2>3. d = "receive" \/ d = "change" \/ d = "imported"
    BY Zenon DEF Descs
  <2>4. given[d][k] = 0 \/ given[d][k] = 1
    BY Zenon, <2>1, <2>2, <2>3 DEF GivenIsBehind
  <2>5. ASSUME k \notin inherited, given[d][k] # 0, NEW e \in Descs, e # d PROVE given[e][k] = 0
    <3>1. e = "receive" \/ e = "change" \/ e = "imported"
      BY Zenon DEF Descs
    <3>2. CASE k = Key("receive", i)
      <4>1. given["change"][k] = 0 /\ given["imported"][k] = 0
        BY Zenon, <2>1, <2>5, <3>2 DEF GivenIsBehind
      <4> QED BY Zenon, <2>3, <2>5, <3>1, <4>1
    <3>3. CASE k = Key("change", i)
      <4>1. given["receive"][k] = 0 /\ given["imported"][k] = 0
        BY Zenon, <2>1, <3>3 DEF GivenIsBehind
      <4> QED BY Zenon, <2>3, <2>5, <3>1, <4>1
    <3> QED BY Zenon, <2>2, <3>2, <3>3
  <2>6. given[d][k] <= 1 /\ (given[d][k] > 0 => given[d][k] # 0)
    BY <2>4
  <2> QED BY Zenon, <2>5, <2>6
<1>4. ASSUME NEW p \in known, p.key.space = "change"
      PROVE  fileBase[p.desc] # None /\ (flag \/ flagLost)
  <2>1. p.key = KeyAt(FileBase, p.desc, p.index) /\ (flag \/ flagLost)
    BY Zenon, <1>1, <1>4 DEF PositionsAreRight
  <2>2. p.desc = "change" /\ FileBase # None
    BY <1>4, <2>1 DEF KeyAt, Key
  <2> QED BY Zenon, <2>1, <2>2 DEF FileBase
<1> QED BY Zenon, <1>2, <1>3, <1>4

(* Inv is an invariant.                                                    *)
LEMMA InvHolds == Spec => []Inv
<1>1. Init => Inv
  BY Zenon, InitTyped, InitOwn DEF Inv, Typed
<1> QED BY <1>1, NextInv, PTL DEF Spec

(* In a wallet whose change descriptor was not replaced, and that did not  *)
(* end with a failed write of next_index not made good, however many       *)
(* indices and however large a keypool: an address handed out, or found on *)
(* chain and recorded, stays the wallet's own (FindQuantumKeyForProgram).  *)
THEOREM AddressesAreRecognised == Spec => []OwnAddressesStayMine
  BY KnownIsMine, InvHolds, PTL

(* In a wallet whose change descriptor was not replaced it keeps its key   *)
(* across restarts, whatever write failed (LoadQuantumChangeIndexStates).  *)
THEOREM AddressesKeepTheirKeys == Spec => []AddressesNeverChange
<1>1. Inv => AddressesNeverChange
  BY Zenon, InvImplies
<1> QED BY <1>1, InvHolds, PTL

(* In a wallet whose change descriptor was not replaced, and that did not  *)
(* end with a failed write of next_index not made good, no descriptor      *)
(* hands out an address twice, nor one another descriptor has handed out,  *)
(* the change addresses of an earlier release excepted.                    *)
THEOREM AddressesAreFresh == Spec => []HandedOutOnce
<1>1. Inv => HandedOutOnce
  BY Zenon, InvImplies
<1> QED BY <1>1, InvHolds, PTL

(* In a wallet whose change descriptor was not replaced the base and the   *)
(* flag (unless its write failed) are on file before the first             *)
(* change-space address is known (EnsureQuantumStateForSpkmIndex).         *)
THEOREM ChangeIsFlagged == Spec => []FlaggedBeforeUse
<1>1. Inv => FlaggedBeforeUse
  BY Zenon, InvImplies
<1> QED BY <1>1, InvHolds, PTL
=============================================================================
