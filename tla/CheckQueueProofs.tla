------------------------- MODULE CheckQueueProofs ---------------------------
(***************************************************************************)
(* Theorems about CheckQueue, for any number of workers, masters, rounds   *)
(* and checks and any batch size.                                          *)
(***************************************************************************)
EXTENDS CheckQueue, FiniteSetTheorems, TLAPS

Steps == {"out", "open", "one", "all", "top", "work", "wait", "woken", "done", "gone"}

(* The threads that count as idle, and those that count as inside Loop; a  *)
(* worker that leaves at shutdown is never counted off nTotal.             *)
IdleSet == {t \in Threads : pc[t] \in {"wait", "woken"}}
LoopSet == {t \in Threads : pc[t] \in Inside \cup {"gone"} \/ CleaningUp(t)}

CTypes ==
  /\ queue \subseteq Checks /\ nIdle \in Int /\ nTotal \in Int /\ nTodo \in Int
  /\ pc \in [Threads -> Steps] /\ nNow \in [Threads -> Nat]
  /\ added \in Nat

CInv ==
  /\ CTypes
  /\ nIdle = Cardinality(IdleSet) /\ nTotal = Cardinality(LoopSet)
  /\ \A t \in Threads : (pc[t] = "work" => nNow[t] # 0) /\ (pc[t] = "gone" => stop)

-----------------------------------------------------------------------------
(* The threads and the checks are finitely many.                           *)
LEMMA Finite ==
  /\ IsFiniteSet(Threads) /\ IsFiniteSet(Checks)
  /\ \A S \in SUBSET Threads : IsFiniteSet(S)
  /\ \A S \in SUBSET Checks : IsFiniteSet(S) /\ Cardinality(S) \in Nat
  <1>1. IsFiniteSet(Threads)
    BY Zenon, QueueAssumption, FS_Union DEF Threads
  <1>2. IsFiniteSet(Checks)
    BY QueueAssumption, FS_Interval DEF Checks
  <1> QED
    BY Zenon, <1>1, <1>2, FS_Subset, FS_CardinalityType

(* A set changed in one element only.                                      *)
LEMMA OneMoves ==
  ASSUME NEW A, NEW B, NEW t, IsFiniteSet(A), B \ {t} = A \ {t}
  PROVE  Cardinality(B) = Cardinality(A) + (IF t \in B THEN 1 ELSE 0) - (IF t \in A THEN 1 ELSE 0)
  <1> DEFINE C == A \ {t}
  <1>1. IsFiniteSet(C) /\ Cardinality(C) = IF t \in A THEN Cardinality(A) - 1 ELSE Cardinality(A)
    BY Zenon, FS_RemoveElement
  <1>2. Cardinality(C \cup {t}) = Cardinality(C) + 1
    BY Zenon, <1>1, FS_AddElement
  <1>3. Cardinality(A) \in Nat
    BY Zenon, FS_CardinalityType
  <1>4. CASE t \in B
    <2>1. B = C \cup {t}
      BY Zenon, <1>4
    <2> QED
      BY <2>1, <1>1, <1>2, <1>3, <1>4
  <1>5. CASE t \notin B
    <2>1. B = C
      BY Zenon, <1>5
    <2> QED
      BY <2>1, <1>1, <1>3, <1>5
  <1> QED
    BY Zenon, <1>4, <1>5

-----------------------------------------------------------------------------
(* What a step of t leaves of the others: they may be woken.               *)
Others(t) ==
  \A u \in Threads : u # t =>
    /\ pc'[u] = pc[u] \/ (pc[u] = "wait" /\ pc'[u] = "woken")
    /\ nNow'[u] = nNow[u]

InIdle(p) == IF p \in {"wait", "woken"} THEN 1 ELSE 0
InLoop(p, n) == IF p \in Inside \cup {"gone"} \/ (p = "top" /\ n # 0) THEN 1 ELSE 0

(* A step of one thread that counts itself right keeps the counts right.   *)
LEMMA CountsMove ==
  ASSUME CInv, CTypes', NEW t \in Threads, Others(t),
         nIdle' = nIdle + InIdle(pc'[t]) - InIdle(pc[t]),
         nTotal' = nTotal + InLoop(pc'[t], nNow'[t]) - InLoop(pc[t], nNow[t]),
         pc'[t] = "work" => nNow'[t] # 0, pc'[t] = "gone" => stop', stop' = stop
  PROVE  CInv'
  <1>1. IsFiniteSet(IdleSet) /\ IsFiniteSet(LoopSet)
    BY Zenon, Finite DEF IdleSet, LoopSet
  <1>2. IdleSet' \ {t} = IdleSet \ {t} /\ LoopSet' \ {t} = LoopSet \ {t}
    BY Zenon DEF IdleSet, LoopSet, CleaningUp, Others, Inside
  <1>3. nIdle' = Cardinality(IdleSet')
    <2>1. t \in IdleSet <=> pc[t] \in {"wait", "woken"}
      BY Zenon DEF IdleSet
    <2>2. t \in IdleSet' <=> pc'[t] \in {"wait", "woken"}
      BY Zenon DEF IdleSet
    <2>3. Cardinality(IdleSet') = Cardinality(IdleSet) + (IF t \in IdleSet' THEN 1 ELSE 0)
                                    - (IF t \in IdleSet THEN 1 ELSE 0)
      BY <1>1, <1>2, OneMoves, Zenon
    <2> QED
      BY Zenon, <2>1, <2>2, <2>3 DEF InIdle, CInv
  <1>4. nTotal' = Cardinality(LoopSet')
    <2>1. t \in LoopSet <=> pc[t] \in Inside \cup {"gone"} \/ (pc[t] = "top" /\ nNow[t] # 0)
      BY Zenon DEF LoopSet, CleaningUp
    <2>2. t \in LoopSet' <=> pc'[t] \in Inside \cup {"gone"} \/ (pc'[t] = "top" /\ nNow'[t] # 0)
      BY Zenon DEF LoopSet, CleaningUp
    <2>3. Cardinality(LoopSet') = Cardinality(LoopSet) + (IF t \in LoopSet' THEN 1 ELSE 0)
                                    - (IF t \in LoopSet THEN 1 ELSE 0)
      BY <1>1, <1>2, OneMoves, Zenon
    <2> QED
      BY Zenon, <2>1, <2>2, <2>3 DEF InLoop, CInv
  <1>5. \A u \in Threads : (pc'[u] = "work" => nNow'[u] # 0) /\ (pc'[u] = "gone" => stop')
    BY Zenon DEF CInv, Others
  <1> QED
    BY Zenon, <1>3, <1>4, <1>5 DEF CInv

(* A critical section: t goes on at s, others are woken at most.           *)
LEMMA SectionMoves ==
  ASSUME CTypes, NEW t \in Threads, NEW s \in Steps, Section(t, s)
  PROVE  /\ pc' \in [Threads -> Steps] /\ pc'[t] = s /\ pc[t] \in {"top", "woken"}
         /\ nTodo' = Todo(t) /\ stop' = stop /\ added' = added
         /\ \A u \in Threads : u # t => pc'[u] = pc[u] \/ (pc[u] = "wait" /\ pc'[u] = "woken")
  <1>1. \A W \in Told(t) : W \subseteq Waiting
    BY Zenon DEF Told, One
  <1>2. PICK W \in Told(t) : GoWaking(t, s, W)
    BY Zenon DEF Section
  <1>3. "woken" \in Steps
    BY Zenon DEF Steps
  <1> QED
    BY Zenon, <1>1, <1>2, <1>3 DEF GoWaking, Waiting, CTypes, Section, rest

(* The counters a critical section computes.                               *)
LEMMA CountTypes ==
  ASSUME CTypes, NEW t \in Threads
  PROVE  Todo(t) \in Int /\ Total(t) \in Int /\ Idle(t) \in Int
  <1>1. nNow[t] \in Int
    BY DEF CTypes
  <1> QED
    BY <1>1 DEF CTypes, Todo, Total, Idle

(* The size of a batch is at least one.                                    *)
LEMMA HowManyPositive ==
  ASSUME CInv, NEW t \in Threads, pc[t] \in {"top", "woken"}
  PROVE  HowMany(t) \in Nat \ {0}
  <1>1. nIdle \in Nat /\ nTotal \in Nat
    BY Zenon, Finite, FS_CardinalityType DEF CInv, IdleSet, LoopSet
  <1>2. Total(t) \in Nat
    BY <1>1 DEF Total
  <1>3. Idle(t) \in Nat
    <2>1. CASE pc[t] # "woken"
      BY Zenon, <2>1, <1>1 DEF Idle
    <2>2. CASE pc[t] = "woken"
      <3>1. IdleSet # {} /\ IsFiniteSet(IdleSet)
        BY Zenon, <2>2, Finite DEF IdleSet
      <3>2. nIdle # 0
        BY Zenon, <3>1, FS_EmptySet DEF CInv
      <3> QED
        BY <3>2, <2>2, <1>1 DEF Idle
    <2> QED
      BY Zenon, <2>1, <2>2
  <1>4. Cardinality(queue) \in Nat
    BY Zenon, Finite DEF CInv, CTypes
  <1>5. Cardinality(queue) \div (Total(t) + Idle(t) + 1) \in Int
    <2> DEFINE q == Cardinality(queue)
               n == Total(t) + Idle(t) + 1
    <2>1. q \in Nat /\ n \in Nat /\ n > 0
      BY <1>2, <1>3, <1>4
    <2> HIDE DEF q, n
    <2>2. q \div n \in Int
      BY <2>1
    <2> QED
      BY Zenon, <2>2 DEF q, n
  <1> QED
    BY <1>5, QueueAssumption DEF HowMany

(* The threads inside Loop.                                                *)
LEMMA RunCounts ==
  ASSUME CInv, NEW t \in Threads, Run(t)
  PROVE  CInv'
  <1> USE DEF CInv
  <1>1. CASE Finish(t)
    <2>1. Section(t, "done") /\ "done" \in Steps
      BY Zenon, <1>1 DEF Finish, Steps
    <2>2. CTypes'
      <3>1. pc' \in [Threads -> Steps] /\ nTodo' \in Int /\ added' = added
        BY Zenon, <2>1, SectionMoves, CountTypes
      <3>2. nIdle' \in Int /\ nTotal' \in Int /\ queue' = queue /\ nNow' = nNow
        BY <1>1, CountTypes DEF Finish
      <3> QED
        BY Zenon, <3>1, <3>2 DEF CTypes
    <2>3. Others(t)
      BY Zenon, <2>1, <1>1, SectionMoves DEF Others, Finish
    <2>4. nIdle' = nIdle + InIdle(pc'[t]) - InIdle(pc[t])
      BY <2>1, <1>1, SectionMoves DEF Finish, Idle, InIdle, CTypes
    <2>5. nTotal' = nTotal + InLoop(pc'[t], nNow'[t]) - InLoop(pc[t], nNow[t])
      BY <2>1, <1>1, SectionMoves DEF Finish, Total, Starting, InLoop, CTypes, Inside
    <2> QED
      BY <2>1, <2>2, <2>3, <2>4, <2>5, SectionMoves, CountsMove
  <1>2. CASE Wait(t)
    <2>1. Section(t, "wait") /\ "wait" \in Steps
      BY Zenon, <1>2 DEF Wait, Steps
    <2>2. CTypes'
      <3>1. pc' \in [Threads -> Steps] /\ nTodo' \in Int /\ added' = added
        BY Zenon, <2>1, SectionMoves, CountTypes
      <3>2. nIdle' \in Int /\ nTotal' \in Int /\ queue' = queue /\ nNow' = nNow
        BY <1>2, CountTypes DEF Wait
      <3> QED
        BY Zenon, <3>1, <3>2 DEF CTypes
    <2>3. Others(t)
      BY Zenon, <2>1, <1>2, SectionMoves DEF Others, Wait
    <2>4. nIdle' = nIdle + InIdle(pc'[t]) - InIdle(pc[t])
      BY <2>1, <1>2, SectionMoves DEF Wait, Idle, InIdle, CTypes
    <2>5. nTotal' = nTotal + InLoop(pc'[t], nNow'[t]) - InLoop(pc[t], nNow[t])
      BY SMTT(30), <2>1, <1>2, SectionMoves DEF Wait, Total, Starting, InLoop, CTypes, Inside
    <2> QED
      BY <2>1, <2>2, <2>3, <2>4, <2>5, SectionMoves, CountsMove
  <1>3. CASE Leave(t)
    <2>1. Section(t, "gone") /\ "gone" \in Steps
      BY Zenon, <1>3 DEF Leave, Steps
    <2>2. CTypes'
      <3>1. pc' \in [Threads -> Steps] /\ nTodo' \in Int /\ added' = added
        BY Zenon, <2>1, SectionMoves, CountTypes
      <3>2. nIdle' \in Int /\ nTotal' \in Int /\ queue' = queue /\ nNow' = nNow
        BY Zenon, <1>3, CountTypes DEF Leave
      <3> QED
        BY Zenon, <3>1, <3>2 DEF CTypes
    <2>3. Others(t)
      BY Zenon, <2>1, <1>3, SectionMoves DEF Others, Leave
    <2>a. pc'[t] = "gone" /\ pc[t] \in {"top", "woken"} /\ nIdle' = Idle(t) /\ nTotal' = Total(t)
      BY ZenonT(60), <2>1, <1>3, SectionMoves DEF Leave
    <2>4. nIdle' = nIdle + InIdle(pc'[t]) - InIdle(pc[t])
      BY <2>a DEF Idle, InIdle, CTypes
    <2>5. nTotal' = nTotal + InLoop(pc'[t], nNow'[t]) - InLoop(pc[t], nNow[t])
      BY <2>a, <1>3 DEF Leave, Total, Starting, InLoop, CTypes, Inside
    <2> QED
      BY Zenon, <2>1, <2>2, <2>3, <2>4, <2>5, <1>3, SectionMoves, CountsMove DEF Leave
  <1>4. CASE Take(t)
    <2>1. Section(t, "work") /\ "work" \in Steps
      BY Zenon, <1>4 DEF Take, Steps
    <2>2. PICK S \in SUBSET queue :
            /\ Cardinality(S) = HowMany(t) /\ queue' = queue \ S
            /\ nNow' = [nNow EXCEPT ![t] = Cardinality(S)]
      BY Zenon, <1>4 DEF Take
    <2>3. Cardinality(S) \in Nat \ {0}
      BY Zenon, <2>1, <2>2, SectionMoves, HowManyPositive
    <2>4. /\ nNow' \in [Threads -> Nat] /\ nNow'[t] # 0
          /\ \A u \in Threads : u # t => nNow'[u] = nNow[u]
      BY Zenon, <2>2, <2>3 DEF CTypes
    <2>5. CTypes'
      <3>1. pc' \in [Threads -> Steps] /\ nTodo' \in Int /\ added' = added
        BY Zenon, <2>1, SectionMoves, CountTypes
      <3>2. nIdle' \in Int /\ nTotal' \in Int
        BY Zenon, <1>4, CountTypes DEF Take
      <3> QED
        BY Zenon, <3>1, <3>2, <2>2, <2>4 DEF CTypes
    <2>6. Others(t)
      BY Zenon, <2>1, <2>4, SectionMoves DEF Others
    <2>7. nIdle' = nIdle + InIdle(pc'[t]) - InIdle(pc[t])
      BY <2>1, <1>4, SectionMoves DEF Take, Idle, InIdle, CTypes
    <2>8. nTotal' = nTotal + InLoop(pc'[t], nNow'[t]) - InLoop(pc[t], nNow[t])
      BY <2>1, <1>4, SectionMoves DEF Take, Total, Starting, InLoop, CTypes, Inside
    <2> QED
      BY Zenon, <2>1, <2>4, <2>5, <2>6, <2>7, <2>8, SectionMoves, CountsMove
  <1>5. CASE Execute(t)
    <2>1. pc[t] = "work" /\ pc'[t] = "top" /\ Others(t) /\ nNow'[t] = nNow[t] /\ stop' = stop
      BY Zenon, <1>5 DEF Execute, Others, CTypes
    <2>2. CTypes'
      BY Zenon, <1>5 DEF Execute, CTypes, shared, rest, Steps
    <2>3. nIdle' = nIdle + InIdle(pc'[t]) - InIdle(pc[t])
      BY <2>1, <1>5 DEF Execute, InIdle, CTypes, shared
    <2>4. nTotal' = nTotal + InLoop(pc'[t], nNow'[t]) - InLoop(pc[t], nNow[t])
      BY <2>1, <1>5 DEF Execute, InLoop, CTypes, shared, Inside
    <2> QED
      BY Zenon, <2>1, <2>2, <2>3, <2>4, CountsMove
  <1> QED
    BY Zenon, <1>1, <1>2, <1>3, <1>4, <1>5 DEF Run

(* A step that wakes threads up and moves nobody else.                     *)
LEMMA OnlyWaking ==
  ASSUME CInv, UNCHANGED <<queue, nIdle, nTotal, nTodo, nNow, added>>, stop => stop',
         pc' \in [Threads -> Steps],
         \A u \in Threads : pc'[u] = pc[u] \/ (pc[u] = "wait" /\ pc'[u] = "woken")
  PROVE  CInv'
  <1>1. IdleSet' = IdleSet /\ LoopSet' = LoopSet
    BY Zenon DEF IdleSet, LoopSet, CleaningUp, Inside
  <1>2. CTypes'
    BY Zenon DEF CInv, CTypes
  <1>3. \A u \in Threads : (pc'[u] = "work" => nNow'[u] # 0) /\ (pc'[u] = "gone" => stop')
    BY Zenon DEF CInv
  <1> QED
    BY Zenon, <1>1, <1>2, <1>3 DEF CInv

(* A master that goes on outside Loop.                                     *)
LEMMA MasterMoves ==
  ASSUME CInv, NEW m \in Masters, NEW s \in {"out", "open", "one", "all", "top", "done"},
         pc[m] \in {"out", "open", "one", "all", "done"}, pc' \in [Threads -> Steps], pc'[m] = s,
         \A u \in Threads : u # m => pc'[u] = pc[u] \/ (pc[u] = "wait" /\ pc'[u] = "woken"),
         nNow' \in [Threads -> Nat], s = "top" => nNow'[m] = 0,
         \A u \in Threads : u # m => nNow'[u] = nNow[u],
         queue' \subseteq Checks, nTodo' \in Int, added' \in Nat, UNCHANGED <<nIdle, nTotal, stop>>
  PROVE  CInv'
  <1>1. m \in Threads
    BY Zenon DEF Threads
  <1>2. Others(m)
    BY Zenon DEF Others
  <1>3. CTypes'
    BY Zenon DEF CInv, CTypes
  <1>4. InIdle(pc[m]) = 0 /\ InIdle(pc'[m]) = 0
    BY Zenon DEF InIdle
  <1>5. InLoop(pc[m], nNow[m]) = 0 /\ InLoop(pc'[m], nNow'[m]) = 0
    BY Zenon DEF InLoop, Inside
  <1>6. nIdle \in Int /\ nTotal \in Int
    BY Zenon DEF CInv, CTypes
  <1> QED
    BY <1>1, <1>2, <1>3, <1>4, <1>5, <1>6, CountsMove

(* The master's calls.                                                     *)
LEMMA MasterCounts ==
  ASSUME CInv, NEW m \in Masters,
         Begin(m) \/ Add(m) \/ Notify(m) \/ Complete(m) \/ Release(m)
  PROVE  CInv'
  <1>t. m \in Threads
    BY Zenon DEF Threads
  <1>types. CTypes
    BY Zenon DEF CInv
  <1>1. CASE Begin(m)
    <2>1. pc[m] = "out" /\ pc' = [pc EXCEPT ![m] = "open"]
          /\ UNCHANGED <<queue, nIdle, nTotal, nTodo, nNow, stop, added>>
      BY Zenon, <1>1 DEF Begin, shared, locals
    <2> QED
      BY Zenon, <2>1, <1>t, <1>types, MasterMoves DEF CTypes, Steps
  <1>2. CASE Add(m)
    <2>1. PICK k \in 1 .. MaxAdd :
            /\ added + k <= MaxChecks /\ queue' = queue \cup ((added + 1) .. (added + k))
            /\ nTodo' = nTodo + k /\ added' = added + k
            /\ pc' = [pc EXCEPT ![m] = IF k = 1 THEN "one" ELSE "all"]
      BY Zenon, <1>2 DEF Add
    <2>2. pc[m] = "open" /\ UNCHANGED <<nIdle, nTotal, nNow, stop>>
      BY Zenon, <1>2 DEF Add, locals
    <2>3. added \in Nat => queue' \subseteq Checks
      BY <2>1, <1>types, QueueAssumption DEF CTypes, Checks
    <2>4. nTodo' \in Int /\ added' \in Nat
      BY <2>1, <1>types, QueueAssumption DEF CTypes
    <2> QED
      BY Zenon, <2>1, <2>2, <2>3, <2>4, <1>t, <1>types, MasterMoves DEF CTypes, Steps
  <1>3. CASE Notify(m)
    <2>1. PICK W \in SUBSET Waiting : GoWaking(m, "open", W)
      BY Zenon, <1>3 DEF Notify, One
    <2>2. pc[m] \in {"one", "all"} /\ UNCHANGED <<queue, nIdle, nTotal, nTodo, nNow, stop, added>>
      BY Zenon, <1>3 DEF Notify, shared, locals, rest
    <2> QED
      BY Zenon, <2>1, <2>2, <1>t, <1>types, MasterMoves DEF CTypes, Steps, GoWaking, Waiting
  <1>4. CASE Complete(m)
    <2>1. /\ pc[m] = "open" /\ pc' = [pc EXCEPT ![m] = "top"] /\ nNow' = [nNow EXCEPT ![m] = 0]
          /\ UNCHANGED <<queue, nIdle, nTotal, nTodo, stop, added>>
      BY Zenon, <1>4 DEF Complete, shared, rest
    <2> QED
      BY Zenon, <2>1, <1>t, <1>types, MasterMoves DEF CTypes, Steps
  <1>5. CASE Release(m)
    <2>1. pc[m] = "done" /\ pc' = [pc EXCEPT ![m] = "out"]
          /\ UNCHANGED <<queue, nIdle, nTotal, nTodo, nNow, stop, added>>
      BY Zenon, <1>5 DEF Release, shared, locals
    <2> QED
      BY Zenon, <2>1, <1>t, <1>types, MasterMoves DEF CTypes, Steps
  <1> QED
    BY Zenon, <1>1, <1>2, <1>3, <1>4, <1>5

(* Before any thread runs nothing is counted.                              *)
LEMMA InitCounts == Init => CInv
  <1> SUFFICES ASSUME Init PROVE CInv
    BY Zenon
  <1>1. IdleSet = {} /\ LoopSet = {}
    BY Zenon DEF Init, IdleSet, LoopSet, CleaningUp, Inside
  <1>2. CTypes
    BY DEF Init, CTypes, Steps
  <1> QED
    BY Zenon, <1>1, <1>2, FS_EmptySet DEF CInv, Init

(* Every step of the queue keeps the counts of idle threads and of threads *)
(* in the loop.                                                            *)
LEMMA NextCounts == CInv /\ [Next]_vars => CInv'
  <1> SUFFICES ASSUME CInv, [Next]_vars PROVE CInv'
    BY Zenon
  <1>types. CTypes
    BY Zenon DEF CInv
  <1>1. CASE \E t \in Threads : Run(t)
    BY Zenon, <1>1, RunCounts
  <1>2. CASE \E t \in Threads : SpuriousWakeup(t)
    BY <1>2, <1>types, OnlyWaking DEF SpuriousWakeup, shared, locals, rest, CTypes, Steps
  <1>3. CASE \E m \in Masters : Begin(m) \/ Add(m) \/ Notify(m) \/ Complete(m) \/ Release(m)
    BY Zenon, <1>3, MasterCounts
  <1>4. CASE Stop
    BY Zenon, <1>4, <1>types, OnlyWaking DEF Stop, Waiting, shared, locals, rest, CTypes, Steps
  <1>5. CASE Joined \/ UNCHANGED vars
    BY <1>5, <1>types, OnlyWaking DEF Joined, vars, shared, locals, rest, CTypes
  <1> QED
    BY Zenon, <1>1, <1>2, <1>3, <1>4, <1>5 DEF Next

(* nIdle and nTotal are what they are meant to count, for any number of    *)
(* threads (checkqueue.h:95, 102, 108 to 110).                             *)
THEOREM QueueCounts == Spec => []CountsAreTrue
  <1>1. CInv => CountsAreTrue
    <2> SUFFICES ASSUME CInv, ~stop PROVE
          /\ nIdle = Cardinality({t \in Threads : pc[t] \in {"wait", "woken"}})
          /\ nTotal = Cardinality({t \in Threads :
                                     pc[t] \in Inside \/ (pc[t] = "top" /\ nNow[t] # 0)})
      BY Zenon DEF CountsAreTrue
    <2>1. LoopSet = {t \in Threads : pc[t] \in Inside \/ (pc[t] = "top" /\ nNow[t] # 0)}
      BY Zenon DEF CInv, LoopSet, CleaningUp
    <2> QED
      BY Zenon, <2>1 DEF CInv, IdleSet
  <1> QED
    BY <1>1, InitCounts, NextCounts, PTL DEF Spec

-----------------------------------------------------------------------------
(* The checks and their errors.                                            *)
Held(t) == pc[t] = "work" \/ CleaningUp(t)

(* The checks that are queued or in a batch, and those of the round.       *)
All == {c \in Checks : c \in queue \/ \E t \in Threads : c \in batch[t]}
Round == first .. added

(* Between the constructor of the control and the return of Complete.      *)
Active == control # None /\ pc[control] # "done"

QTypes ==
  /\ mResult \in Results /\ stop \in BOOLEAN /\ local \in [Threads -> Results]
  /\ doWork \in [Threads -> BOOLEAN] /\ batch \in [Threads -> SUBSET Checks]
  /\ control \in Masters \cup {None} /\ added \in 0 .. MaxChecks
  /\ first \in Nat /\ rounds \in Nat /\ bad \subseteq Checks
  /\ verdict \in Verdicts \cup {None}

(* No check is in two places.                                              *)
Disjoint ==
  /\ \A t \in Threads : batch[t] \cap queue = {}
  /\ \A t, u \in Threads : t # u => batch[t] \cap batch[u] = {}

Batches ==
  \A t \in Threads : /\ Held(t) => nNow[t] = Cardinality(batch[t])
                     /\ ~Held(t) => batch[t] = {}

(* One master at a time, and none at shutdown.                             *)
Control ==
  /\ \A m \in Masters : m # control => pc[m] = "out"
  /\ stop => control = None

(* What the result says of the checks already counted off.                 *)
Errors ==
  /\ All \subseteq Round /\ first <= added + 1
  /\ ~Active => All = {} /\ mResult = None
  /\ mResult # None => mResult \in bad \cap Round
  /\ Active /\ mResult = None => bad \cap Round \subseteq All

(* What a thread knows of its batch.                                       *)
Locals ==
  \A t \in Threads :
    /\ CleaningUp(t) /\ doWork[t] =>
         /\ local[t] = None => batch[t] \cap bad = {}
         /\ local[t] # None => local[t] \in bad \cap batch[t]
    /\ Held(t) /\ ~doWork[t] => mResult # None

QInv ==
  /\ QTypes /\ Disjoint /\ nTodo = Cardinality(All) /\ Batches
  /\ Control /\ Errors /\ Locals /\ CompleteIsRight

(* The checks left when t has counted off its batch, whatever it takes.    *)
LEMMA SectionChecks ==
  ASSUME CInv, QInv, NEW t \in Threads, pc[t] \in {"top", "woken"}, NEW S \in SUBSET queue,
         queue' = queue \ S, batch' = [batch EXCEPT ![t] = S]
  PROVE  /\ All' = All \ batch[t] /\ Disjoint'
         /\ Todo(t) = Cardinality(All \ batch[t]) /\ IsFiniteSet(All \ batch[t])
  <1>1. batch'[t] = S /\ \A u \in Threads : u # t => batch'[u] = batch[u]
    BY Zenon DEF QInv, QTypes
  <1>2. queue \subseteq Checks /\ batch[t] \subseteq All
    BY Zenon DEF QInv, QTypes, CInv, CTypes, All
  <1>3. All' = All \ batch[t]
    <2>1. ASSUME NEW c \in Checks PROVE c \in All' <=> c \in All \ batch[t]
      <3>1. c \in All' <=> c \in queue \ S \/ c \in S \/ \E u \in Threads : u # t /\ c \in batch[u]
        BY Zenon, <1>1 DEF All
      <3>2. c \in All \ batch[t] <=> c \in queue \/ \E u \in Threads : u # t /\ c \in batch[u]
        BY Zenon DEF All, QInv, Disjoint
      <3> QED
        BY Zenon, <3>1, <3>2
    <2> QED
      BY Zenon, <2>1 DEF All
  <1>4. Disjoint'
    BY Zenon, <1>1 DEF QInv, Disjoint
  <1>5. IsFiniteSet(All) /\ IsFiniteSet(All \ batch[t]) /\ IsFiniteSet(batch[t])
    BY Zenon, Finite, <1>2 DEF All
  <1>6. Todo(t) = Cardinality(All \ batch[t])
    <2>1. CASE CleaningUp(t)
      <3>1. nNow[t] = Cardinality(batch[t])
        BY Zenon, <2>1 DEF QInv, Batches, Held
      <3>2. Cardinality(All \ batch[t]) = Cardinality(All) - Cardinality(All \cap batch[t])
        BY ZenonT(60), <1>5, FS_Difference
      <3>3. All \cap batch[t] = batch[t]
        BY Zenon, <1>2
      <3> QED
        BY Zenon, <2>1, <3>1, <3>2, <3>3 DEF Todo, QInv
    <2>2. CASE ~CleaningUp(t)
      <3>1. batch[t] = {}
        BY Zenon, <2>2 DEF QInv, Batches, Held
      <3>2. All \ batch[t] = All
        BY Zenon, <3>1
      <3> QED
        BY Zenon, <2>2, <3>2 DEF Todo, QInv
    <2> QED
      BY Zenon, <2>1, <2>2
  <1> QED
    BY Zenon, <1>3, <1>4, <1>5, <1>6

(* The result once t has handed in the error of its batch.                 *)
LEMMA SectionResult ==
  ASSUME CInv, QInv, NEW t \in Threads, pc[t] \in {"top", "woken"}
  PROVE  /\ Result(t) \in Results
         /\ Result(t) # None => Result(t) \in bad \cap Round
         /\ Active /\ Result(t) = None => bad \cap Round \subseteq All \ batch[t]
         /\ mResult # None => Result(t) # None
         /\ ~Active => Result(t) = None
  <1>1. batch[t] \subseteq All /\ All \subseteq Round
    BY Zenon DEF QInv, QTypes, All, Errors
  <1>2. Swaps(t) => local[t] \in bad \cap batch[t]
    BY Zenon DEF Swaps, QInv, Locals, Held
  <1>3. Result(t) # None => Result(t) \in bad \cap Round
    BY Zenon, <1>1, <1>2 DEF Result, QInv, Errors
  <1>4. ASSUME Active, Result(t) = None PROVE bad \cap Round \subseteq All \ batch[t]
    <2>1. mResult = None /\ ~Swaps(t)
      BY Zenon, <1>4 DEF Result, Swaps
    <2>2. bad \cap Round \subseteq All
      BY Zenon, <2>1, <1>4 DEF QInv, Errors
    <2>3. batch[t] \cap bad = {}
      <3>1. CASE CleaningUp(t)
        <4>1. local[t] = None
          BY Zenon, <2>1, <3>1 DEF Swaps
        <4>2. doWork[t]
          BY Zenon, <2>1, <3>1 DEF QInv, Locals, Held
        <4> QED
          BY Zenon, <4>1, <4>2, <3>1 DEF QInv, Locals
      <3>2. CASE ~CleaningUp(t)
        BY Zenon, <3>2 DEF QInv, Batches, Held
      <3> QED
        BY Zenon, <3>1, <3>2
    <2> QED
      BY Zenon, <2>2, <2>3
  <1>5. mResult # None => Result(t) # None
    BY Zenon DEF Result, Swaps
  <1>6. ASSUME ~Active PROVE Result(t) = None
    <2>1. batch[t] = {} /\ mResult = None
      BY Zenon, <1>1, <1>6 DEF QInv, Errors
    <2> QED
      BY Zenon, <2>1, <1>2 DEF Result
  <1>7. Result(t) \in Results
    BY Zenon DEF QInv, QTypes, Result
  <1> QED
    BY Zenon, <1>3, <1>4, <1>5, <1>6, <1>7

(* A critical section that does not end the round.                         *)
LEMMA SectionInv ==
  ASSUME CInv, QInv, NEW t \in Threads, NEW s \in {"wait", "gone", "work"}, Section(t, s),
         NEW S \in SUBSET queue, queue' = queue \ S, batch' = [batch EXCEPT ![t] = S],
         s # "work" => S = {} /\ UNCHANGED <<nNow, doWork>>,
         s = "work" => /\ nNow' = [nNow EXCEPT ![t] = Cardinality(S)]
                       /\ doWork' = [doWork EXCEPT ![t] = Result(t) = None],
         mResult' = Result(t), verdict' = verdict
  PROVE  QInv'
  <1>0. s \in Steps /\ CTypes
    BY Zenon DEF Steps, CInv
  <1>1. /\ pc'[t] = s /\ pc[t] \in {"top", "woken"} /\ nTodo' = Todo(t)
        /\ \A u \in Threads : u # t => pc'[u] = pc[u] \/ (pc[u] = "wait" /\ pc'[u] = "woken")
    BY Zenon, <1>0, SectionMoves
  <1>2. All' = All \ batch[t] /\ Disjoint' /\ nTodo' = Cardinality(All')
    BY Zenon, <1>1, SectionChecks
  <1>3. \A u \in Threads : u # t => /\ batch'[u] = batch[u] /\ nNow'[u] = nNow[u]
                                    /\ local'[u] = local[u] /\ doWork'[u] = doWork[u]
    BY ZenonT(60), <1>0 DEF QInv, QTypes, CTypes, Section
  <1>4. \A u \in Threads : u # t => (CleaningUp(u)' <=> CleaningUp(u)) /\ (Held(u)' <=> Held(u))
    BY Zenon, <1>1, <1>3 DEF Held, CleaningUp
  <1>5. batch'[t] = S /\ ~CleaningUp(t)' /\ (Held(t)' <=> s = "work")
    BY Zenon, <1>1 DEF Held, CleaningUp, QInv, QTypes
  <1>6. UNCHANGED <<stop, control, added, first, rounds, bad>>
    BY Zenon DEF Section, rest
  <1>7. Active' <=> Active
    <2>1. control \in Masters \cup {None}
      BY Zenon DEF QInv, QTypes
    <2>2. control \in Masters => control \in Threads
      BY Zenon DEF Threads
    <2> QED
      BY ZenonT(60), <2>1, <2>2, <1>1, <1>6 DEF Active
  <1>8. QTypes'
    <2>1. batch' \in [Threads -> SUBSET Checks]
      BY Zenon DEF QInv, QTypes, CInv, CTypes
    <2>2. local' \in [Threads -> Results]
      BY Zenon DEF QInv, QTypes, Section, Results
    <2>3. doWork' \in [Threads -> BOOLEAN]
      BY ZenonT(60) DEF QInv, QTypes
    <2>4. mResult' \in Results
      BY Zenon, <1>1, SectionResult
    <2> QED
      BY ZenonT(60), <2>1, <2>2, <2>3, <2>4, <1>6 DEF QInv, QTypes
  <1>9. Batches'
    BY SMTT(30), <1>0, <1>3, <1>4, <1>5 DEF QInv, Batches, CTypes
  <1>10. Control'
    <2>1. \A m \in Masters : m \in Threads
      BY Zenon DEF Threads
    <2> QED
      BY Zenon, <2>1, <1>1, <1>6 DEF QInv, Control
  <1>11. Errors'
    BY Zenon, <1>1, <1>2, <1>6, <1>7, SectionResult DEF QInv, Errors, Round
  <1>12. Locals'
    <2>1. ASSUME NEW u \in Threads, u # t PROVE
            /\ CleaningUp(u)' /\ doWork'[u] =>
                 /\ local'[u] = None => batch'[u] \cap bad' = {}
                 /\ local'[u] # None => local'[u] \in bad' \cap batch'[u]
            /\ Held(u)' /\ ~doWork'[u] => mResult' # None
      BY ZenonT(60), <2>1, <1>1, <1>3, <1>4, <1>6, SectionResult DEF QInv, Locals
    <2>2. Held(t)' /\ ~doWork'[t] => mResult' # None
      BY Zenon, <1>5 DEF QInv, QTypes
    <2> QED
      BY Zenon, <2>1, <2>2, <1>5 DEF Locals
  <1>13. CompleteIsRight'
    BY Zenon, <1>6 DEF QInv, CompleteIsRight
  <1> QED
    BY Zenon, <1>2, <1>8, <1>9, <1>10, <1>11, <1>12, <1>13 DEF QInv

(* The end of a round.                                                     *)
LEMMA FinishInv ==
  ASSUME CInv, QInv, NEW t \in Threads, Finish(t)
  PROVE  QInv'
  <1>0. Section(t, "done") /\ "done" \in Steps /\ CTypes
    BY Zenon DEF Finish, Steps, CInv
  <1>1. /\ pc'[t] = "done" /\ pc[t] \in {"top", "woken"} /\ nTodo' = Todo(t)
        /\ \A u \in Threads : u # t => pc'[u] = pc[u] \/ (pc[u] = "wait" /\ pc'[u] = "woken")
    BY Zenon, <1>0, SectionMoves
  <1>2. queue' = queue \ {} /\ queue = {} /\ batch' = [batch EXCEPT ![t] = {}] /\ Todo(t) = 0
    BY Zenon DEF Finish, AllDone
  <1>3. All' = All \ batch[t] /\ Disjoint' /\ nTodo' = Cardinality(All') /\ All' = {}
    <2>1. All' = All \ batch[t] /\ Disjoint' /\ Todo(t) = Cardinality(All \ batch[t])
          /\ IsFiniteSet(All \ batch[t])
      BY ZenonT(60), <1>1, <1>2, SectionChecks
    <2> QED
      BY Zenon, <2>1, <1>1, <1>2, FS_EmptySet
  <1>4. control = t /\ t \in Masters /\ Active
    <2>1. t \in Masters
      BY Zenon DEF Finish, AllDone
    <2>2. t # None
      BY Zenon, <2>1, QueueAssumption
    <2> QED
      BY Zenon, <2>1, <2>2, <1>1 DEF QInv, Control, Active
  <1>5. UNCHANGED <<stop, control, added, first, rounds, bad>> /\ mResult' = None
        /\ UNCHANGED <<nNow, doWork>>
    BY Zenon, <1>0 DEF Section, rest, Finish
  <1>6. ~Active'
    BY Zenon, <1>1, <1>4, <1>5 DEF Active
  <1>7. \A u \in Threads : batch'[u] = {}
    BY Zenon, <1>3, <1>2 DEF All, QInv, QTypes
  <1>8. Batches'
    <2>1. \A u \in Threads : u # t => (Held(u)' <=> Held(u)) /\ batch'[u] = batch[u]
      BY Zenon, <1>1, <1>2, <1>5 DEF Held, CleaningUp, QInv, QTypes
    <2>2. ~Held(t)'
      BY Zenon, <1>1 DEF Held, CleaningUp
    <2> QED
      BY ZenonT(60), <2>1, <2>2, <1>5, <1>7 DEF QInv, Batches
  <1>9. ASSUME NEW u \in Threads, Held(u)' PROVE FALSE
    <2>1. nNow'[u] = 0
      BY ZenonT(60), <1>7, <1>8, <1>9, FS_EmptySet DEF Batches
    <2>2. u # t /\ Held(u)
      BY Zenon, <1>9, <1>1, <1>5 DEF Held, CleaningUp
    <2> QED
      BY Zenon, <2>1, <2>2, <1>5 DEF Held, CleaningUp, CInv
  <1>10. verdict' = [first |-> first, last |-> added, result |-> Result(t)]
    BY Zenon DEF Finish
  <1>11. CompleteIsRight'
    <2>1. verdict'.first = first /\ verdict'.last = added /\ verdict'.result = Result(t)
      BY ZenonT(60), <1>10
    <2>2. IF Result(t) = None THEN bad \cap Round = {} ELSE Result(t) \in bad \cap Round
      BY Zenon, <1>1, <1>3, <1>4, SectionResult
    <2> QED
      BY Zenon, <2>1, <2>2, <1>5 DEF CompleteIsRight, Round
  <1>12. QTypes'
    <2>1. Result(t) \in Results
      BY ZenonT(60), <1>1, SectionResult
    <2>2. verdict' \in Verdicts
      <3>1. first \in Nat /\ added \in 0 .. MaxChecks
        BY Zenon DEF QInv, QTypes
      <3>2. added \in Nat
        BY <3>1, QueueAssumption
      <3> QED
        BY ZenonT(60), <2>1, <1>10, <3>1, <3>2 DEF Verdicts
    <2>3. local' \in [Threads -> Results]
      BY Zenon, <1>0 DEF QInv, QTypes, Section, Results
    <2>4. batch' \in [Threads -> SUBSET Checks] /\ mResult' \in Results
      BY Zenon, <1>2, <1>5 DEF QInv, QTypes, Results
    <2> QED
      BY Zenon, <2>2, <2>3, <2>4, <1>5 DEF QInv, QTypes
  <1>13. Control'
    <2>1. \A m \in Masters : m \in Threads
      BY Zenon DEF Threads
    <2> QED
      BY Zenon, <2>1, <1>1, <1>4, <1>5 DEF QInv, Control
  <1>14. Errors'
    BY ZenonT(60), <1>3, <1>5, <1>6 DEF QInv, Errors
  <1>15. Locals'
    BY Zenon, <1>9 DEF Locals, Held
  <1> QED
    BY Zenon, <1>3, <1>8, <1>11, <1>12, <1>13, <1>14, <1>15 DEF QInv

(* The checks of a batch are run.                                          *)
LEMMA ExecuteInv ==
  ASSUME CInv, QInv, NEW t \in Threads, Execute(t)
  PROVE  QInv'
  <1>1. /\ pc[t] = "work" /\ pc' = [pc EXCEPT ![t] = "top"] /\ UNCHANGED <<queue, nTodo, mResult>>
        /\ UNCHANGED <<stop, nNow, doWork, batch, control, added, first, rounds, bad, verdict>>
    BY Zenon DEF Execute, shared, rest
  <1>2. pc'[t] = "top" /\ \A u \in Threads : u # t => pc'[u] = pc[u]
    BY Zenon, <1>1 DEF CInv, CTypes
  <1>3. \A u \in Threads : (Held(u)' <=> Held(u)) /\ (u # t => (CleaningUp(u)' <=> CleaningUp(u)))
    BY ZenonT(60), <1>1, <1>2 DEF Held, CleaningUp, CInv
  <1>4. /\ \A u \in Threads : u # t => local'[u] = local[u]
        /\ local' \in [Threads -> Results]
        /\ doWork[t] /\ local'[t] = None => batch[t] \cap bad = {}
        /\ doWork[t] /\ local'[t] # None => local'[t] \in bad \cap batch[t]
    <2>1. QTypes /\ None \in Results /\ None \notin Checks
      BY QueueAssumption DEF QInv, Results, Checks
    <2>2. CASE doWork[t] /\ batch[t] \cap bad = {} /\ local' = [local EXCEPT ![t] = None]
      BY Zenon, <2>1, <2>2 DEF QTypes
    <2>3. CASE doWork[t] /\ \E c \in batch[t] \cap bad : local' = [local EXCEPT ![t] = c]
      <3>1. PICK c \in batch[t] \cap bad : local' = [local EXCEPT ![t] = c]
        BY ZenonT(60), <2>3
      <3>2. c \in Checks
        BY Zenon, <2>1 DEF QTypes
      <3> QED
        BY Zenon, <2>1, <3>1, <3>2 DEF QTypes, Results
    <2>4. CASE ~doWork[t] /\ local' = local
      BY Zenon, <2>1, <2>4 DEF QTypes
    <2> QED
      BY Zenon, <2>2, <2>3, <2>4 DEF Execute
  <1>5. All' = All /\ (Active' <=> Active) /\ Control'
    <2>1. All' = All
      BY Zenon, <1>1 DEF All
    <2>2. control \in Masters \cup {None} /\ \A m \in Masters : m \in Threads
      BY Zenon DEF QInv, QTypes, Threads
    <2> QED
      BY Zenon, <2>1, <2>2, <1>1, <1>2 DEF Active, QInv, Control
  <1>6. QTypes' /\ Disjoint' /\ Batches'
    BY Zenon, <1>1, <1>3, <1>4 DEF QInv, QTypes, Disjoint, Batches
  <1>7. Errors' /\ CompleteIsRight'
    BY ZenonT(60), <1>1, <1>5 DEF QInv, Errors, Round, CompleteIsRight
  <1>8. Locals'
    BY Zenon, <1>1, <1>3, <1>4 DEF QInv, Locals
  <1> QED
    BY ZenonT(60), <1>1, <1>5, <1>6, <1>7, <1>8 DEF QInv

(* A step that moves nobody into or out of a batch.                        *)
LEMMA QuietInv ==
  ASSUME CInv, QInv, UNCHANGED <<queue, nTodo, mResult, nNow, local, doWork, batch>>,
         UNCHANGED <<added, first, rounds, bad, verdict>>,
         stop' \in BOOLEAN, control' \in Masters \cup {None}, Control', Active' <=> Active,
         \A u \in Threads : pc'[u] = pc[u] \/ (pc[u] # "work" /\ pc'[u] \notin {"top", "work"}
                                                /\ pc[u] # "top")
  PROVE  QInv'
  <1>1. \A u \in Threads : (Held(u)' <=> Held(u)) /\ (CleaningUp(u)' <=> CleaningUp(u))
    BY Zenon DEF Held, CleaningUp
  <1>2. All' = All
    BY ZenonT(60) DEF All
  <1>3. QTypes' /\ Disjoint' /\ Batches'
    BY ZenonT(60), <1>1 DEF QInv, QTypes, Disjoint, Batches
  <1>4. Errors' /\ CompleteIsRight'
    BY Zenon, <1>2 DEF QInv, Errors, Round, CompleteIsRight
  <1>5. Locals'
    BY ZenonT(60), <1>1 DEF QInv, Locals
  <1> QED
    BY Zenon, <1>2, <1>3, <1>4, <1>5 DEF QInv

(* A control begins a round with the queue empty and no batch in hand      *)
(* (checkqueue.h:219).                                                     *)
LEMMA BeginInv ==
  ASSUME CInv, QInv, NEW m \in Masters, Begin(m)
  PROVE  QInv'
  <1>0. m \in Threads /\ m # None /\ CTypes
    BY Zenon, QueueAssumption DEF Threads, CInv
  <1>1. /\ pc[m] = "out" /\ control = None /\ ~stop /\ control' = m
        /\ rounds' = rounds + 1 /\ first' = added + 1 /\ pc' = [pc EXCEPT ![m] = "open"]
        /\ UNCHANGED <<queue, nTodo, mResult, stop, nNow, local, doWork, batch, added, bad, verdict>>
    BY Zenon DEF Begin, shared, locals
  <1>2. pc'[m] = "open" /\ \A u \in Threads : u # m => pc'[u] = pc[u]
    BY Zenon, <1>0, <1>1 DEF CTypes
  <1>3. \A u \in Threads : (Held(u)' <=> Held(u)) /\ (CleaningUp(u)' <=> CleaningUp(u))
    BY ZenonT(60), <1>1, <1>2 DEF Held, CleaningUp
  <1>4. All' = All /\ All = {} /\ mResult = None
    BY Zenon, <1>1 DEF All, QInv, Errors, Active
  <1>5. Active' /\ Round' = {}
    <2>1. added \in Nat
      BY ZenonT(60), <1>0 DEF CTypes
    <2> QED
      BY <2>1, <1>0, <1>1, <1>2 DEF Active, Round
  <1>6. QTypes' /\ Disjoint' /\ Batches'
    <2>1. added + 1 \in Nat /\ rounds + 1 \in Nat
      BY <1>0 DEF CTypes, QInv, QTypes
    <2> QED
      BY Zenon, <2>1, <1>1, <1>3 DEF QInv, QTypes, Disjoint, Batches
  <1>7. Control'
    <2>1. \A n \in Masters : n \in Threads /\ n # None
      BY Zenon, QueueAssumption DEF Threads
    <2> QED
      BY Zenon, <2>1, <1>1, <1>2 DEF QInv, Control
  <1>8. Errors' /\ CompleteIsRight'
    <2>1. first' <= added' + 1
      BY SMTT(30), <1>0, <1>1 DEF CTypes
    <2> QED
      BY Zenon, <2>1, <1>1, <1>4, <1>5 DEF QInv, Errors, CompleteIsRight
  <1>9. Locals'
    BY Zenon, <1>1, <1>3 DEF QInv, Locals
  <1> QED
    BY Zenon, <1>1, <1>4, <1>6, <1>7, <1>8, <1>9 DEF QInv

(* Add puts as many new checks in the queue as it adds to nTodo            *)
(* (checkqueue.h:172).                                                     *)
LEMMA AddInv ==
  ASSUME CInv, QInv, NEW m \in Masters, Add(m)
  PROVE  QInv'
  <1>0. m \in Threads /\ m # None /\ CTypes /\ QTypes
    BY Zenon, QueueAssumption DEF Threads, CInv, QInv
  <1>1. PICK k \in 1 .. MaxAdd :
          /\ added + k <= MaxChecks /\ queue' = queue \cup ((added + 1) .. (added + k))
          /\ nTodo' = nTodo + k /\ added' = added + k
          /\ pc' = [pc EXCEPT ![m] = IF k = 1 THEN "one" ELSE "all"]
    BY Zenon DEF Add
  <1>2. /\ pc[m] = "open"
        /\ UNCHANGED <<mResult, stop, nNow, local, doWork, batch, control, first, rounds, bad, verdict>>
    BY Zenon DEF Add, locals
  <1>3. pc'[m] \in {"one", "all"} /\ \A u \in Threads : u # m => pc'[u] = pc[u]
    BY Zenon, <1>0, <1>1 DEF CTypes
  <1>4. \A u \in Threads : (Held(u)' <=> Held(u)) /\ (CleaningUp(u)' <=> CleaningUp(u))
    BY Zenon, <1>2, <1>3 DEF Held, CleaningUp
  <1> DEFINE New == (added + 1) .. (added + k)
  <1>n. added \in Nat /\ k \in Nat \ {0} /\ first \in Nat /\ MaxChecks \in Nat
    BY <1>0, QueueAssumption DEF CTypes, QTypes
  <1>5. New \subseteq Checks /\ IsFiniteSet(New) /\ Cardinality(New) = k
    <2>1. New \subseteq Checks
      BY <1>1, <1>n DEF Checks
    <2>2. /\ IsFiniteSet(New)
          /\ Cardinality(New) = IF added + 1 > added + k THEN 0 ELSE (added + k) - (added + 1) + 1
      BY <1>n, FS_Interval
    <2> QED
      BY <2>1, <2>2, <1>n
  <1>6. All \cap New = {} /\ All' = All \cup New
    <2>1. All \subseteq first .. added
      BY Zenon DEF QInv, Errors, Round
    <2>2. All' = All \cup New
      BY Zenon, <1>1, <1>2, <1>5 DEF All
    <2> QED
      BY <2>1, <2>2, <1>n
  <1>7. nTodo' = Cardinality(All')
    <2>1. IsFiniteSet(All) /\ Cardinality(All) \in Nat
      BY Zenon, Finite DEF All
    <2>2. Cardinality(All \cup New) = Cardinality(All) + Cardinality(New) - Cardinality(All \cap New)
      BY Zenon, <2>1, <1>5, FS_Union
    <2>3. Cardinality(All \cap New) = 0
      BY ZenonT(60), <1>6, FS_EmptySet
    <2> QED
      BY SMTT(30), <2>1, <2>2, <2>3, <1>1, <1>5, <1>6, <1>n DEF QInv
  <1>8. Disjoint'
    <2>1. \A u \in Threads : batch[u] \subseteq All
      BY Zenon, <1>0 DEF All, QTypes
    <2> QED
      BY Zenon, <2>1, <1>1, <1>2, <1>6 DEF QInv, Disjoint
  <1>9. QTypes' /\ Batches'
    <2>1. added' \in 0 .. MaxChecks
      BY SMTT(30), <1>1, <1>n
    <2> QED
      BY ZenonT(60), <2>1, <1>0, <1>2, <1>4 DEF QInv, QTypes, Batches
  <1>10. control = m /\ Active /\ Active' /\ Control'
    <2>1. \A n \in Masters : n \in Threads
      BY Zenon DEF Threads
    <2>2. control = m
      BY Zenon, <1>2 DEF QInv, Control
    <2> QED
      BY Zenon, <2>1, <2>2, <1>0, <1>2, <1>3 DEF QInv, Control, Active
  <1>11. Errors'
    <2>1. Round' = Round \cup New /\ first' <= added' + 1
      BY SMTT(30), <1>1, <1>2, <1>n DEF Round, QInv, Errors
    <2> QED
      BY ZenonT(60), <2>1, <1>2, <1>6, <1>10 DEF QInv, Errors
  <1>12. Locals' /\ CompleteIsRight'
    BY Zenon, <1>2, <1>4 DEF QInv, Locals, CompleteIsRight
  <1> QED
    BY Zenon, <1>7, <1>8, <1>9, <1>10, <1>11, <1>12 DEF QInv

(* The master that enters Loop for its round changes no count and no check *)
(* (checkqueue.h:166).                                                     *)
LEMMA CompleteInv ==
  ASSUME CInv, QInv, NEW m \in Masters, Complete(m)
  PROVE  QInv'
  <1>0. m \in Threads /\ CTypes /\ QTypes
    BY Zenon DEF Threads, CInv, QInv
  <1>1. /\ pc[m] = "open" /\ pc' = [pc EXCEPT ![m] = "top"]
        /\ nNow' = [nNow EXCEPT ![m] = 0] /\ local' = [local EXCEPT ![m] = None]
        /\ UNCHANGED <<queue, nTodo, mResult, stop, doWork, batch, control, added, first, rounds>>
        /\ UNCHANGED <<bad, verdict>>
    BY Zenon DEF Complete, shared, rest
  <1>2. /\ pc'[m] = "top" /\ nNow'[m] = 0
        /\ \A u \in Threads : u # m => pc'[u] = pc[u] /\ nNow'[u] = nNow[u] /\ local'[u] = local[u]
    BY Zenon, <1>0, <1>1 DEF CTypes, QTypes
  <1>3. \A u \in Threads : (Held(u)' <=> Held(u)) /\ (CleaningUp(u)' <=> CleaningUp(u))
    BY Zenon, <1>1, <1>2 DEF Held, CleaningUp
  <1>4. ~Held(m) /\ ~CleaningUp(m)
    BY Zenon, <1>1 DEF Held, CleaningUp
  <1>5. All' = All /\ (Active' <=> Active) /\ Control'
    <2>1. All' = All
      BY Zenon, <1>1 DEF All
    <2>2. control \in Masters \cup {None} /\ \A n \in Masters : n \in Threads
      BY Zenon, <1>0 DEF QTypes, Threads
    <2> QED
      BY ZenonT(60), <2>1, <2>2, <1>1, <1>2 DEF Active, QInv, Control
  <1>6. QTypes' /\ Disjoint' /\ Batches'
    <2>1. local' \in [Threads -> Results]
      BY Zenon, <1>0, <1>1 DEF QTypes, Results
    <2> QED
      BY Zenon, <2>1, <1>0, <1>1, <1>2, <1>3, <1>4 DEF QInv, QTypes, Disjoint, Batches
  <1>7. Errors' /\ CompleteIsRight'
    BY ZenonT(60), <1>1, <1>5 DEF QInv, Errors, Round, CompleteIsRight
  <1>8. Locals'
    BY ZenonT(60), <1>1, <1>2, <1>3, <1>4 DEF QInv, Locals
  <1> QED
    BY Zenon, <1>1, <1>5, <1>6, <1>7, <1>8 DEF QInv

(* The threads inside Loop.                                                *)
LEMMA RunInv ==
  ASSUME CInv, QInv, NEW t \in Threads, Run(t)
  PROVE  QInv'
  <1>1. CASE Finish(t)
    BY Zenon, <1>1, FinishInv
  <1>2. CASE Wait(t)
    <2>1. queue' = queue \ {} /\ {} \in SUBSET queue
      BY Zenon, <1>2 DEF Wait
    <2> QED
      BY Zenon, <2>1, <1>2, SectionInv DEF Wait
  <1>3. CASE Leave(t)
    <2>1. queue' = queue \ {} /\ {} \in SUBSET queue
      BY Zenon, <1>3 DEF Leave
    <2> QED
      BY Zenon, <2>1, <1>3, SectionInv DEF Leave
  <1>4. CASE Take(t)
    <2>1. PICK S \in SUBSET queue :
            /\ queue' = queue \ S /\ batch' = [batch EXCEPT ![t] = S]
            /\ nNow' = [nNow EXCEPT ![t] = Cardinality(S)]
      BY ZenonT(60), <1>4 DEF Take
    <2> QED
      BY Zenon, <2>1, <1>4, SectionInv DEF Take
  <1>5. CASE Execute(t)
    BY Zenon, <1>5, ExecuteInv
  <1> QED
    BY Zenon, <1>1, <1>2, <1>3, <1>4, <1>5 DEF Run

(* The queue starts with no check and no round.                            *)
LEMMA InitChecks == Init => QInv
  <1> SUFFICES ASSUME Init PROVE QInv
    BY Zenon
  <1>1. All = {} /\ ~Active
    BY Zenon DEF Init, All, Active
  <1>2. \A t \in Threads : ~Held(t) /\ ~CleaningUp(t)
    BY Zenon DEF Init, Held, CleaningUp
  <1>3. QTypes
    <2>1. bad \subseteq Checks
      BY Zenon, QueueAssumption DEF Init
    <2>2. added \in 0 .. MaxChecks /\ first \in Nat /\ rounds \in Nat
      BY QueueAssumption DEF Init
    <2>3. local \in [Threads -> Results] /\ mResult \in Results
      BY Zenon DEF Init, Results
    <2>4. doWork \in [Threads -> BOOLEAN] /\ batch \in [Threads -> SUBSET Checks]
      BY Zenon DEF Init
    <2> QED
      BY ZenonT(60), <2>1, <2>2, <2>3, <2>4 DEF Init, QTypes
  <1>4. Disjoint /\ Batches /\ Locals
    BY Zenon, <1>2 DEF Init, Disjoint, Batches, Locals
  <1>5. Control
    BY Zenon, QueueAssumption DEF Init, Control, Threads
  <1>6. Errors /\ CompleteIsRight
    BY <1>1 DEF Init, Errors, CompleteIsRight
  <1>7. nTodo = Cardinality(All)
    BY Zenon, <1>1, FS_EmptySet DEF Init
  <1> QED
    BY Zenon, <1>3, <1>4, <1>5, <1>6, <1>7 DEF QInv

(* Every step of the queue keeps the checks accounted for, given that the  *)
(* counts are right.                                                       *)
LEMMA NextChecks == CInv /\ QInv /\ [Next]_vars => QInv'
  <1> SUFFICES ASSUME CInv, QInv, [Next]_vars PROVE QInv'
    BY Zenon
  <1>0. /\ CTypes /\ QTypes /\ control \in Masters \cup {None}
        /\ \A m \in Masters : m \in Threads /\ m # None
    BY Zenon, QueueAssumption DEF CInv, QInv, QTypes, Threads
  <1> DEFINE Woken == \A u \in Threads : pc'[u] = pc[u] \/ (pc[u] = "wait" /\ pc'[u] = "woken")
  <1>w. ASSUME Woken, stop' \in BOOLEAN, stop' => control = None,
               UNCHANGED <<queue, nTodo, mResult, nNow, local, doWork, batch>>,
               UNCHANGED <<added, first, rounds, bad, verdict, control>>
        PROVE QInv'
    <2>1. Control' /\ (Active' <=> Active) /\ control' \in Masters \cup {None}
      BY Zenon, <1>w, <1>0 DEF QInv, Control, Active
    <2> QED
      BY ZenonT(60), <2>1, <1>w, QuietInv
  <1>1. CASE \E t \in Threads : Run(t)
    BY ZenonT(60), <1>1, RunInv
  <1>2. CASE \E t \in Threads : SpuriousWakeup(t)
    <2>1. Woken
      BY Zenon, <1>2, <1>0 DEF SpuriousWakeup, CTypes
    <2> QED
      BY <2>1, <1>0, <1>2, <1>w DEF SpuriousWakeup, shared, locals, rest, QTypes, QInv, Control
  <1>3. ASSUME NEW m \in Masters, Begin(m) PROVE QInv'
    BY Zenon, <1>3, BeginInv
  <1>4. ASSUME NEW m \in Masters, Add(m) PROVE QInv'
    BY Zenon, <1>4, AddInv
  <1>5. ASSUME NEW m \in Masters, Notify(m) PROVE QInv'
    <2>1. PICK W \in SUBSET Waiting : GoWaking(m, "open", W)
      BY Zenon, <1>5 DEF Notify, One
    <2>2. /\ pc[m] \in {"one", "all"} /\ pc'[m] = "open"
          /\ \A u \in Threads : u # m => pc'[u] = pc[u] \/ (pc[u] = "wait" /\ pc'[u] = "woken")
      BY Zenon, <2>1, <1>0, <1>5 DEF GoWaking, Waiting, Notify
    <2>3. UNCHANGED <<queue, nTodo, mResult, nNow, local, doWork, batch>>
          /\ UNCHANGED <<added, first, rounds, bad, verdict, control, stop>>
      BY Zenon, <1>5 DEF Notify, shared, locals, rest
    <2>4. Control' /\ (Active' <=> Active)
      BY Zenon, <2>2, <2>3, <1>0 DEF QInv, Control, Active
    <2> QED
      BY Zenon, <2>2, <2>3, <2>4, <1>0, QuietInv DEF QTypes
  <1>6. ASSUME NEW m \in Masters, Complete(m) PROVE QInv'
    BY Zenon, <1>6, CompleteInv
  <1>7. ASSUME NEW m \in Masters, Release(m) PROVE QInv'
    <2>1. /\ pc[m] = "done" /\ pc'[m] = "out" /\ control' = None
          /\ \A u \in Threads : u # m => pc'[u] = pc[u]
      BY Zenon, <1>7, <1>0 DEF Release, CTypes
    <2>2. UNCHANGED <<queue, nTodo, mResult, nNow, local, doWork, batch>>
          /\ UNCHANGED <<added, first, rounds, bad, verdict, stop>>
      BY Zenon, <1>7 DEF Release, shared, locals
    <2>3. control = m
      BY Zenon, <2>1 DEF QInv, Control
    <2>4. Control' /\ ~Active' /\ ~Active
      BY ZenonT(60), <2>1, <2>2, <2>3, <1>0 DEF QInv, Control, Active
    <2> QED
      BY ZenonT(60), <2>1, <2>2, <2>4, <1>0, QuietInv DEF QTypes
  <1>8. CASE Stop
    <2>1. Woken
      BY ZenonT(60), <1>8 DEF Stop, Waiting
    <2> QED
      BY Zenon, <2>1, <1>8, <1>w DEF Stop, shared, locals, rest
  <1>9. CASE Joined \/ UNCHANGED vars
    <2>1. UNCHANGED vars
      BY Zenon, <1>9 DEF Joined
    <2> QED
      BY Zenon, <2>1, <1>0, <1>w DEF vars, shared, locals, rest, QTypes, QInv, Control
  <1> QED
    BY Zenon, <1>1, <1>2, <1>3, <1>4, <1>5, <1>6, <1>7, <1>8, <1>9 DEF Next

(* CInv and QInv are invariants.                                           *)
LEMMA QueueInvHolds == Spec => [](CInv /\ QInv)
  BY InitCounts, NextCounts, InitChecks, NextChecks, PTL DEF Spec

(* The queue, the counters and the batches stay well formed for any number *)
(* of threads, checks and rounds.                                          *)
THEOREM QueueTypes == Spec => []TypeOK
  <1>1. ASSUME CInv, QInv PROVE TypeOK
    <2>1. nIdle \in Nat /\ nTotal \in Nat
      BY Zenon, <1>1, Finite, FS_CardinalityType DEF CInv, IdleSet, LoopSet
    <2>2. nTodo \in Nat
      BY Zenon, <1>1, Finite DEF QInv, All
    <2> QED
      BY Zenon, <1>1, <2>1, <2>2 DEF CInv, CTypes, QInv, QTypes, TypeOK, Steps
  <1> QED
    BY <1>1, QueueInvHolds, PTL

(* Complete returns an error exactly when a check of its round fails, for  *)
(* any number of threads and checks (checkqueue.h:71 to 136).              *)
THEOREM QueueCompletes == Spec => []CompleteIsRight
  <1>1. QInv => CompleteIsRight
    BY Zenon DEF QInv
  <1> QED
    BY <1>1, QueueInvHolds, PTL

(* No check is queued or running once Complete has returned, so that what  *)
(* the checks point to may be freed.                                       *)
THEOREM QueueIsQuietAfterwards == Spec => []NothingRunsAfterwards
  <1>1. ASSUME CInv, QInv PROVE NothingRunsAfterwards
    <2> SUFFICES ASSUME ~Active PROVE queue = {} /\ \A t \in Threads : pc[t] # "work"
      BY Zenon DEF NothingRunsAfterwards, Active
    <2>1. All = {}
      BY Zenon, <1>1 DEF QInv, Errors
    <2>2. queue = {} /\ \A t \in Threads : batch[t] = {}
      BY Zenon, <1>1, <2>1 DEF All, CInv, CTypes, QInv, QTypes
    <2>3. ASSUME NEW t \in Threads, pc[t] = "work" PROVE FALSE
      BY ZenonT(60), <1>1, <2>2, <2>3, FS_EmptySet DEF QInv, Batches, Held, CInv
    <2> QED
      BY Zenon, <2>2, <2>3
  <1> QED
    BY <1>1, QueueInvHolds, PTL
=============================================================================
