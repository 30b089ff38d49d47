----------------------- MODULE MiningControllerProofs -----------------------
(***************************************************************************)
(* Theorems about MiningController.                                        *)
(***************************************************************************)
EXTENDS MiningController, TLAPS

HasUnit == \A i \in Miners : mpc[i] \in Building => unit[i] \in Units

(* What the mining threads keep true by themselves.                        *)
ThreadInv == MinerTypes /\ HasUnit

TInv == ChainTypes /\ SessionTypes /\ ThreadInv /\ ParentsKnown

CallerSteps == {"idle", "start", "create", "flags", "spawn", "emplace", "join",
                "rejoin", "clear", "reclear", "reset", "rereset"}

(* A step of a caller.                                                     *)
Calls(c) == CallStartMining(c) \/ StopMining(c) \/ CallerStep(c)

-----------------------------------------------------------------------------
(* The names of the threads.                                               *)
LEMMA MinerNames ==
  /\ \A i \in Miners : Index(i) \in Nat /\ Index(i) < MaxThreads
  /\ \A c \in Callers, k \in 0 .. MaxThreads - 1 :
       <<c, k>> \in Miners /\ Index(<<c, k>>) = k
  BY MiningAssumption DEF Miners, Index

-----------------------------------------------------------------------------
(* A step that leaves the threads alone.                                   *)
LEMMA ThreadsUnchanged ==
  ASSUME ThreadInv, UNCHANGED minerVars
  PROVE  ThreadInv'
  BY Zenon DEF ThreadInv, MinerTypes, HasUnit, minerVars

(* A thread that moves on inside MineBlock, or into it or out of it.       *)
LEMMA MovesInv ==
  ASSUME ThreadInv, NEW i \in Miners, mpc[i] # "exited",
         NEW p \in InMineBlock \cup {"loop", "exited"}, Moves(i, p),
         p \in Building => mpc[i] \in Building,
         UNCHANGED <<unit, nonce, stride>>
  PROVE  ThreadInv'
  <1>1. MinerTypes'
    BY Zenon DEF ThreadInv, MinerTypes, Moves
  <1>2. \A j \in Miners : j # i => mpc'[j] = mpc[j]
    BY Zenon DEF Moves, ThreadInv, MinerTypes
  <1>3. mpc'[i] = p
    BY Zenon DEF Moves, ThreadInv, MinerTypes
  <1>5. HasUnit'
    BY Zenon, <1>2, <1>3 DEF ThreadInv, HasUnit
  <1> QED
    BY Zenon, <1>1, <1>5 DEF ThreadInv

(* A thread that returns from MineBlock.                                   *)
LEMMA LeavesInv ==
  ASSUME ThreadInv, NEW i \in Miners, mpc[i] # "exited", Leaves(i)
  PROVE  ThreadInv'
  <1>1. MinerTypes'
    <2>1. 0 \in 0 .. MaxNonce + MaxThreads /\ 0 \in 0 .. MaxThreads
      BY MiningAssumption
    <2> QED
      BY Zenon, <2>1 DEF ThreadInv, MinerTypes, Moves, Leaves
  <1>2. \A j \in Miners : j # i => mpc'[j] = mpc[j] /\ unit'[j] = unit[j]
    BY Zenon DEF Leaves, Moves, ThreadInv, MinerTypes
  <1>3. mpc'[i] = "loop"
    BY Zenon DEF Leaves, Moves, ThreadInv, MinerTypes
  <1>5. HasUnit'
    BY Zenon, <1>2, <1>3 DEF ThreadInv, HasUnit, Building
  <1> QED
    BY Zenon, <1>1, <1>5 DEF ThreadInv

(* A thread that begins to hash a unit.                                    *)
LEMMA BeginInv ==
  ASSUME ThreadInv, NEW i \in Miners, mpc[i] # "exited",
         NEW w \in Units, Begin(i, w), numThreads \in 0 .. MaxThreads
  PROVE  ThreadInv'
  <1>1. MinerTypes'
    <2>1. /\ Index(i) \in 0 .. MaxNonce + MaxThreads
          /\ (IF numThreads > 1 THEN numThreads ELSE 1) \in 0 .. MaxThreads
      <3>1. Index(i) \in Nat /\ Index(i) < MaxThreads
        BY Zenon, MinerNames
      <3> QED
        BY <3>1, MiningAssumption
    <2> QED
      BY Zenon, <2>1 DEF ThreadInv, MinerTypes, Moves, Begin, InMineBlock
  <1>2. \A j \in Miners : j # i => mpc'[j] = mpc[j] /\ unit'[j] = unit[j]
    BY Zenon DEF Begin, Moves, ThreadInv, MinerTypes
  <1>3. mpc'[i] = "hash" /\ unit'[i] = w
    BY Zenon DEF Begin, Moves, ThreadInv, MinerTypes
  <1>5. HasUnit'
    BY Zenon, <1>2, <1>3 DEF ThreadInv, HasUnit, Building
  <1> QED
    BY Zenon, <1>1, <1>5 DEF ThreadInv

(* A thread that writes the unit it is building.                           *)
LEMMA BuildingInv ==
  ASSUME ThreadInv, NEW i \in Miners, mpc[i] # "exited",
         NEW p \in {"build", "check"}, Moves(i, p),
         NEW w \in Units, unit' = [unit EXCEPT ![i] = w], UNCHANGED <<nonce, stride>>
  PROVE  ThreadInv'
  <1>1. MinerTypes'
    BY Zenon DEF ThreadInv, MinerTypes, Moves, InMineBlock
  <1>2. \A j \in Miners : j # i => mpc'[j] = mpc[j] /\ unit'[j] = unit[j]
    BY Zenon DEF Moves, ThreadInv, MinerTypes
  <1>3. mpc'[i] = p /\ unit'[i] = w
    BY Zenon DEF Moves, ThreadInv, MinerTypes
  <1>5. HasUnit'
    BY Zenon, <1>2, <1>3 DEF ThreadInv, HasUnit, Building
  <1> QED
    BY Zenon, <1>1, <1>5 DEF ThreadInv

(* A caller that moves on.                                                 *)
LEMMA GoesType ==
  ASSUME SessionTypes, NEW c \in Callers, NEW p \in CallerSteps, Goes(c, p)
  PROVE  cpc' \in [Callers -> CallerSteps] /\ spawned' \in [Callers -> 0 .. MaxThreads]
  <1>1. 0 \in 0 .. MaxThreads
    BY MiningAssumption
  <1> QED
    BY Zenon, <1>1 DEF SessionTypes, Goes, CallerSteps

(* A block appended to the index, with or without a move of the tip.       *)
LEMMA AppendTypes ==
  ASSUME ChainTypes, NEW b \in [parent : Nat, time : Nat, nonce : Nat],
         blocks' = Append(blocks, b), tip' \in {tip, Len(blocks) + 1},
         pending' \in {pending, pending + 1}, UNCHANGED <<invalid, now, ibd, node>>
  PROVE  ChainTypes'
  <1>1. blocks' \in Seq([parent : Nat, time : Nat, nonce : Nat])
    BY DEF ChainTypes
  <1>2. Len(blocks') = Len(blocks) + 1 /\ Len(blocks) \in Nat
    BY DEF ChainTypes
  <1>3. DOMAIN blocks \subseteq DOMAIN blocks'
    BY SMTT(30), <1>1, <1>2 DEF ChainTypes
  <1> QED
    BY <1>1, <1>2, <1>3 DEF ChainTypes

(* The parent of a block is a position in the index, or 0 for genesis.     *)
LEMMA BlockFields ==
  ASSUME ChainTypes, NEW b \in DOMAIN blocks
  PROVE  blocks[b].parent \in Nat
  <1> DEFINE R == [parent : Nat, time : Nat, nonce : Nat]
  <1>1. blocks \in Seq(R)
    BY Zenon DEF ChainTypes
  <1> HIDE DEF R
  <1>2. blocks[b] \in R
    BY <1>1
  <1> QED
    BY Zenon, <1>2 DEF R

(* The initial state: nothing runs.                                        *)
LEMMA InitTInv == Init => TInv
  <1> SUFFICES ASSUME Init PROVE TInv
    BY Zenon
  <1>1. ChainTypes
    <2>1. [parent |-> 0, time |-> 0, nonce |-> MaxNonce + 1]
            \in [parent : Nat, time : Nat, nonce : Nat]
      BY MiningAssumption
    <2>2. blocks \in Seq([parent : Nat, time : Nat, nonce : Nat])
      <3> DEFINE R == [parent : Nat, time : Nat, nonce : Nat]
                 r == [parent |-> 0, time |-> 0, nonce |-> MaxNonce + 1]
      <3>1. blocks = <<>> \/ blocks = <<r>>
        BY Zenon DEF Init
      <3>2. r \in R
        BY Zenon, <2>1
      <3> HIDE DEF R, r
      <3>3. <<>> \in Seq(R) /\ <<r>> \in Seq(R)
        BY <3>2
      <3>4. blocks \in Seq(R)
        BY Zenon, <3>1, <3>3
      <3> QED
        BY Zenon, <3>4 DEF R
    <2>3. Len(blocks) \in Nat
      BY <2>2
    <2> QED
      BY <2>2, <2>3 DEF Init, ChainTypes
  <1>2. SessionTypes
    <2>1. 0 \in Nat /\ 0 \in 0 .. MaxThreads
      BY MiningAssumption
    <2> QED
      BY Zenon, <2>1 DEF Init, SessionTypes
  <1>3. ThreadInv
    BY MiningAssumption DEF Init, ThreadInv, MinerTypes, HasUnit, Building
  <1>4. ParentsKnown
    <2>1. \A b \in DOMAIN blocks : blocks[b].parent = 0
      BY DEF Init
    <2>2. Len(blocks) \in Nat
      BY <1>1 DEF ChainTypes
    <2> QED
      BY <2>1, <2>2 DEF Init, ParentsKnown
  <1> QED
    BY Zenon, <1>1, <1>2, <1>3, <1>4 DEF TInv

-----------------------------------------------------------------------------
(* What the steps of the three kinds leave alone.                          *)
LEMMA MinerFrame ==
  ASSUME NEW i \in Miners, MinerStep(i)
  PROVE  /\ UNCHANGED <<invalid, now, ibd, node, generation, context, listener,
                        shouldStop, threads, numThreads, callVars>>
         /\ ~SubmitNew(i) => UNCHANGED envVars
  BY Zenon DEF MinerStep, ThreadExits, EnterMineBlock, Acquire, TakeWork, ReadGeneration,
     CreateNewBlock, BuildWorkFails, BuildWork, Abandon, Exhaust, NoContext, Hash,
     SubmitRejected, SubmitKnown, SubmitNew, envVars, chainVars, flagVars

(* A miner's step moves that thread only, which runs before it and, unless *)
(* it leaves its loop, after it.                                           *)
LEMMA MinerMoves ==
  ASSUME MinerTypes, NEW i \in Miners, MinerStep(i)
  PROVE  /\ mpc[i] # "exited"
         /\ \A j \in Miners : j # i => mpc'[j] = mpc[j]
         /\ ThreadExits(i) \/ (mpc'[i] # "exited" /\ UNCHANGED active)
  <1> USE DEF MinerTypes, Moves
  <1>1. CASE ThreadExits(i)
    BY Zenon, <1>1 DEF ThreadExits
  <1>2. CASE EnterMineBlock(i) \/ ReadGeneration(i) \/ CreateNewBlock(i)
    BY Zenon, <1>2 DEF EnterMineBlock, ReadGeneration, CreateNewBlock, flagVars
  <1>3. CASE TakeWork(i)
    BY Zenon, <1>3 DEF TakeWork, Begin, NoTarget, Leaves, flagVars
  <1>4. CASE BuildWork(i)
    BY Zenon, <1>4 DEF BuildWork, Begin, NoTarget, Leaves, flagVars
  <1>5. CASE Hash(i)
    BY Zenon, <1>5 DEF Hash, flagVars
  <1>6. CASE \/ BuildWorkFails(i) \/ Abandon(i) \/ Exhaust(i) \/ NoContext(i)
             \/ SubmitRejected(i) \/ SubmitKnown(i) \/ SubmitNew(i)
    BY Zenon, <1>6 DEF BuildWorkFails, Abandon, Exhaust, NoContext, SubmitRejected,
       SubmitKnown, SubmitNew, Leaves, flagVars
  <1> QED
    BY Zenon, <1>1, <1>2, <1>3, <1>4, <1>5, <1>6 DEF MinerStep, Acquire

(* The calls do not touch the chain, nor the threads but when they start   *)
(* or join them.                                                           *)
LEMMA CallerFrame ==
  ASSUME NEW c \in Callers, Calls(c)
  PROVE  /\ UNCHANGED <<chainVars, pending, now, ibd, generation, found, unit, nonce,
                        stride>>
         /\ node' \in {node, "aborted"}
         /\ ~EmplaceBack(c) => UNCHANGED mpc
         /\ ~EmplaceBack(c) /\ ~Join(c) => UNCHANGED threads
         /\ ~EmplaceBack(c) => \E p \in CallerSteps : Goes(c, p)
  <1>1. CASE EmplaceBack(c)
    BY Zenon, <1>1 DEF EmplaceBack, MayCrash
  <1>2. CASE Join(c)
    BY Zenon, <1>2 DEF Join, MayCrash, minerVars, CallerSteps
  <1>3. CASE TearDown(c)
    BY Zenon, <1>3 DEF TearDown, MayCrash, flagVars, minerVars, CallerSteps
  <1>4. CASE ClearThreads(c)
    BY Zenon, <1>4 DEF ClearThreads, MayCrash, flagVars, minerVars, CallerSteps
  <1>5. CASE \/ CallStartMining(c) \/ StartMining(c) \/ StopMining(c) \/ CreateContext(c)
             \/ CreateFails(c) \/ SetFlags(c) \/ Started(c) \/ ResetFlags(c)
    BY Zenon, <1>5 DEF CallStartMining, StartMining, StopMining, CreateContext, CreateFails,
       SetFlags, Started, ResetFlags, envVars, flagVars, minerVars, CallerSteps
  <1> QED
    BY Zenon, <1>1, <1>2, <1>3, <1>4, <1>5 DEF Calls, CallerStep

(* The environment does not touch the miner, but for the listener.         *)
LEMMA EnvironmentFrame ==
  ASSUME Environment \/ UpdatedBlockTip
  PROVE  UNCHANGED <<work, context, flagVars, found, minerVars, callVars>>
  BY Zenon DEF Environment, ExternalBlock, InvalidateBlock, Tick, LeaveIBD,
     RequestShutdown, Shutdown, UpdatedBlockTip

-----------------------------------------------------------------------------
(* The types of the chain.                                                 *)
LEMMA NextChainTypes ==
  ASSUME TInv, [Next]_vars
  PROVE  ChainTypes'
  <1> ChainTypes /\ SessionTypes /\ ThreadInv
    BY Zenon DEF TInv
  <1>1. CASE ExternalBlock
    <2>1. [parent |-> tip, time |-> now, nonce |-> MaxNonce + 1]
            \in [parent : Nat, time : Nat, nonce : Nat]
      BY MiningAssumption DEF ChainTypes
    <2> QED
      BY Zenon, <1>1, <2>1, AppendTypes DEF ExternalBlock
  <1>2. ASSUME NEW i \in Miners, SubmitNew(i) PROVE ChainTypes'
    <2>1. unit[i] \in Units
      BY Zenon, <1>2 DEF ThreadInv, HasUnit, Building, SubmitNew
    <2>2. nonce[i] \in Nat
      BY MiningAssumption DEF ThreadInv, MinerTypes
    <2>3. Candidate(i) \in [parent : Nat, time : Nat, nonce : Nat]
      BY Zenon, <2>1, <2>2 DEF Candidate, Units
    <2> QED
      BY Zenon, <1>2, <2>3, AppendTypes DEF SubmitNew
  <1>3. ASSUME NEW i \in Miners, MinerStep(i), ~SubmitNew(i) PROVE ChainTypes'
    BY Zenon, <1>3, MinerFrame DEF ChainTypes, envVars, chainVars
  <1>4. ASSUME NEW c \in Callers, Calls(c)
        PROVE ChainTypes'
    BY Zenon, <1>4, CallerFrame DEF ChainTypes, chainVars
  <1>5. CASE UpdatedBlockTip
    BY <1>5 DEF UpdatedBlockTip, ChainTypes, chainVars
  <1>6. CASE Tick
    BY <1>6 DEF Tick, ChainTypes, chainVars
  <1>7. CASE LeaveIBD \/ RequestShutdown \/ Shutdown
    BY Zenon, <1>7 DEF LeaveIBD, RequestShutdown, Shutdown, ChainTypes, chainVars
  <1>8. CASE UNCHANGED vars
    BY Zenon, <1>8 DEF vars, ChainTypes, envVars, chainVars
  <1>9. CASE InvalidateBlock
    <2>1. Len(blocks) \in Nat /\ DOMAIN blocks = 1 .. Len(blocks) /\ tip \in DOMAIN blocks
      BY SMTT(30), <1>9 DEF InvalidateBlock, ChainTypes
    <2>p. blocks[tip].parent <= Len(blocks)
      BY Zenon, <2>1 DEF TInv, ParentsKnown
    <2>q. blocks[tip].parent \in Nat
      BY Zenon, <2>1, BlockFields
    <2>2. blocks[tip].parent \in 0 .. Len(blocks)
      BY <2>1, <2>p, <2>q
    <2>3. tip' \in 0 .. Len(blocks)
      BY <1>9, <2>1, <2>2 DEF InvalidateBlock
    <2>4. pending' \in Nat
      BY SMTT(30), <1>9 DEF InvalidateBlock, ChainTypes
    <2>5. invalid' \subseteq DOMAIN blocks
      BY Zenon, <1>9, <2>1 DEF InvalidateBlock, ChainTypes
    <2> QED
      BY Zenon, <1>9, <2>3, <2>4, <2>5 DEF InvalidateBlock, ChainTypes
  <1> QED
    BY Zenon, <1>1, <1>2, <1>3, <1>4, <1>5, <1>6, <1>7, <1>8, <1>9 DEF Next, Environment, Calls

(* The types of the controller's state.                                    *)
LEMMA NextSessionTypes ==
  ASSUME TInv, [Next]_vars
  PROVE  SessionTypes'
  <1> ChainTypes /\ SessionTypes /\ ThreadInv
    BY Zenon DEF TInv
  <1>1. CASE UpdatedBlockTip
    <2>1. generation' \in Nat
      BY <1>1 DEF UpdatedBlockTip, SessionTypes
    <2> QED
      BY Zenon, <1>1, <2>1 DEF UpdatedBlockTip, SessionTypes, flagVars, callVars
  <1>2. CASE Environment
    BY ZenonT(60), <1>2 DEF Environment, ExternalBlock, InvalidateBlock, Tick,
       LeaveIBD, RequestShutdown, Shutdown, SessionTypes, flagVars, callVars
  <1>3. ASSUME NEW c \in Callers, Calls(c)
        PROVE SessionTypes'
    <2>1. CASE EmplaceBack(c)
      <3>1. spawned[c] \in 0 .. MaxThreads - 1
        <4>1. spawned[c] < numThreads /\ spawned[c] \in 0 .. MaxThreads
              /\ numThreads \in 0 .. MaxThreads
          BY Zenon, <2>1 DEF EmplaceBack, SessionTypes
        <4> QED
          BY <4>1, MiningAssumption
      <3>2. <<c, spawned[c]>> \in Miners
        BY Zenon, <3>1, MinerNames
      <3>3. spawned[c] + 1 \in 0 .. MaxThreads
        BY <3>1, MiningAssumption
      <3>4. spawned' \in [Callers -> 0 .. MaxThreads]
        BY Zenon, <2>1, <3>3 DEF EmplaceBack, SessionTypes
      <3>5. threads' \subseteq Miners
        BY Zenon, <2>1, <3>2 DEF EmplaceBack, SessionTypes
      <3> QED
        BY Zenon, <2>1, <3>4, <3>5 DEF EmplaceBack, SessionTypes
    <2>2. CASE ~EmplaceBack(c)
      <3>1. /\ cpc' \in [Callers -> CallerSteps]
            /\ spawned' \in [Callers -> 0 .. MaxThreads]
        BY Zenon, <1>3, <2>2, CallerFrame, GoesType
      <3>2. numThreads' \in 0 .. MaxThreads
        <4>1. numThreads' \in {numThreads, 0} \cup (1 .. MaxThreads)
          BY Zenon, <1>3, <2>2 DEF Calls, CallStartMining, StartMining, StopMining,
             CallerStep, CreateContext, CreateFails, SetFlags, ClearThreads, Started, Join,
             TearDown, ResetFlags, flagVars
        <4> QED
          BY <4>1, MiningAssumption DEF SessionTypes
      <3>3. threads' \subseteq Miners
        BY Zenon, <1>3, <2>2, CallerFrame DEF Join, SessionTypes
      <3>4. work' \in Units \cup {None} /\ context' \in BOOLEAN /\ listener' \in BOOLEAN
        BY ZenonT(60), <1>3, <2>2 DEF Calls, CallStartMining, StartMining, StopMining,
           CallerStep, CreateContext, CreateFails, SetFlags, ClearThreads, Started, Join,
           TearDown, ResetFlags, SessionTypes
      <3>5. shouldStop' \in BOOLEAN /\ active' \in BOOLEAN
        BY ZenonT(60), <1>3, <2>2 DEF Calls, CallStartMining, StartMining, StopMining,
           CallerStep, CreateContext, CreateFails, SetFlags, ClearThreads, Started, Join,
           TearDown, ResetFlags, SessionTypes, flagVars
      <3> QED
        BY Zenon, <1>3, <3>1, <3>2, <3>3, <3>4, <3>5, CallerFrame DEF SessionTypes,
           CallerSteps
    <2> QED
      BY Zenon, <2>1, <2>2
  <1>4. ASSUME NEW i \in Miners, MinerStep(i) PROVE SessionTypes'
    <2>1. found' \in Nat /\ active' \in BOOLEAN
      <3>1. CASE SubmitKnown(i) \/ SubmitNew(i)
        <4>1. Count
          BY Zenon, <3>1 DEF SubmitKnown, SubmitNew
        <4>2. found \in Nat
          BY Zenon DEF SessionTypes
        <4>3. found' \in Nat
          BY SMTT(30), <4>1, <4>2 DEF Count
        <4> QED
          BY Zenon, <3>1, <4>3 DEF SubmitKnown, SubmitNew, SessionTypes, flagVars
      <3>2. CASE ~(SubmitKnown(i) \/ SubmitNew(i))
        BY Zenon, <1>4, <3>2 DEF MinerStep, ThreadExits, EnterMineBlock, Acquire,
           TakeWork, ReadGeneration, CreateNewBlock, BuildWorkFails, BuildWork,
           Abandon, Exhaust, NoContext, Hash, SubmitRejected, SessionTypes, flagVars
      <3> QED
        BY Zenon, <3>1, <3>2
    <2>2. work' \in Units \cup {None}
      <3>1. CASE BuildWork(i)
        <4>1. unit[i] \in Units /\ now \in Nat
          BY Zenon, <3>1 DEF BuildWork, ThreadInv, HasUnit, Building, ChainTypes
        <4> QED
          BY Zenon, <3>1, <4>1 DEF BuildWork, Units
      <3>2. CASE ~BuildWork(i)
        BY Zenon, <1>4, <3>2 DEF MinerStep, ThreadExits, EnterMineBlock, Acquire, TakeWork,
           ReadGeneration, CreateNewBlock, BuildWorkFails, BuildWork, Abandon,
           Exhaust, NoContext, Hash, SubmitRejected, SubmitKnown, SubmitNew,
           SessionTypes
      <3> QED
        BY Zenon, <3>1, <3>2
    <2> QED
      BY Zenon, <1>4, <2>1, <2>2, MinerFrame DEF SessionTypes, callVars
  <1>5. CASE UNCHANGED vars
    BY Zenon, <1>5 DEF vars, SessionTypes, flagVars, callVars
  <1> QED
    BY Zenon, <1>1, <1>2, <1>3, <1>4, <1>5 DEF Next, Calls

(* The threads keep their invariant, whatever the callers do at the same   *)
(* time.                                                                   *)
LEMMA NextThreadInv ==
  ASSUME TInv, [Next]_vars
  PROVE  ThreadInv'
  <1> ChainTypes /\ SessionTypes /\ ThreadInv
    BY Zenon DEF TInv
  <1>1. ASSUME NEW c \in Callers, EmplaceBack(c) PROVE ThreadInv'
    <2>1. /\ mpc' = [mpc EXCEPT ![<<c, spawned[c]>>] = "loop"]
          /\ UNCHANGED <<unit, nonce, stride>>
      BY Zenon, <1>1 DEF EmplaceBack
    <2> QED
      BY Zenon, <2>1 DEF ThreadInv, MinerTypes, HasUnit, Building
  <1>3. ASSUME NEW c \in Callers, Calls(c), ~EmplaceBack(c) PROVE ThreadInv'
    BY Zenon, <1>3, CallerFrame, ThreadsUnchanged DEF minerVars
  <1>4. ASSUME NEW i \in Miners, MinerStep(i) PROVE ThreadInv'
    <2>2. CASE ThreadExits(i) \/ EnterMineBlock(i)
      BY Zenon, <2>2, MovesInv DEF ThreadExits, EnterMineBlock, InMineBlock, Building
    <2>3. CASE TakeWork(i)
      <3>1. work \in Units /\ numThreads \in 0 .. MaxThreads
        BY Zenon, <2>3 DEF TakeWork, WorkIsCurrent, SessionTypes
      <3> QED
        BY Zenon, <2>3, <3>1, BeginInv, LeavesInv DEF TakeWork, NoTarget
    <2>4. CASE ReadGeneration(i)
      <3>1. [parent |-> 0, time |-> 0, generation |-> generation] \in Units
        BY Zenon DEF Units, SessionTypes
      <3> QED
        BY Zenon, <2>4, <3>1, BuildingInv DEF ReadGeneration
    <2>5. CASE CreateNewBlock(i)
      <3>1. unit[i] \in Units /\ tip \in Nat
        BY <2>5 DEF CreateNewBlock, ThreadInv, HasUnit, Building, ChainTypes
      <3>2. [unit[i] EXCEPT !.parent = tip] \in Units
        BY Zenon, <3>1 DEF Units
      <3>3. unit' = [unit EXCEPT ![i] = [unit[i] EXCEPT !.parent = tip]]
        BY Zenon, <2>5 DEF CreateNewBlock
      <3> QED
        BY Zenon, <2>5, <3>2, <3>3, BuildingInv DEF CreateNewBlock
    <2>6. CASE BuildWork(i)
      <3>1. unit[i] \in Units /\ now \in Nat
        BY ZenonT(60), <2>6 DEF BuildWork, ThreadInv, HasUnit, Building, ChainTypes
      <3>2. work' \in Units
        BY Zenon, <2>6, <3>1 DEF BuildWork, Units
      <3> QED
        BY Zenon, <2>6, <3>2, BeginInv, LeavesInv DEF BuildWork, NoTarget, SessionTypes
    <2>7. CASE Hash(i) /\ nonce[i] \in Winning
      BY Zenon, <2>7, MovesInv DEF Hash, InMineBlock, Building
    <2>8. CASE Hash(i) /\ nonce[i] \notin Winning
      <3>1. nonce[i] \in 0 .. MaxNonce + MaxThreads /\ stride[i] \in 0 .. MaxThreads
        BY Zenon DEF ThreadInv, MinerTypes
      <3>2. nonce[i] + stride[i] \in 0 .. MaxNonce + MaxThreads
        BY <2>8, <3>1, MiningAssumption DEF Hash, Exhausted
      <3>3. nonce' \in [Miners -> 0 .. MaxNonce + MaxThreads]
        BY Zenon, <2>8, <3>2 DEF Hash, ThreadInv, MinerTypes
      <3>4. mpc' = mpc
        BY SMTT(30), <2>8 DEF Hash, Moves, ThreadInv, MinerTypes
      <3> QED
        BY Zenon, <2>8, <3>3, <3>4 DEF Hash, ThreadInv, MinerTypes, HasUnit
    <2>9. CASE \/ BuildWorkFails(i) \/ Abandon(i) \/ Exhaust(i) \/ NoContext(i)
               \/ SubmitRejected(i) \/ SubmitKnown(i) \/ SubmitNew(i)
      BY Zenon, <2>9, LeavesInv DEF BuildWorkFails, Abandon, Exhaust,
         NoContext, SubmitRejected, SubmitKnown, SubmitNew
    <2> QED
      BY Zenon, <1>4, <2>2, <2>3, <2>4, <2>5, <2>6, <2>7, <2>8, <2>9 DEF MinerStep, Acquire
  <1>5. CASE Environment \/ UpdatedBlockTip
    BY Zenon, <1>5, EnvironmentFrame, ThreadsUnchanged DEF flagVars
  <1>6. CASE UNCHANGED vars
    BY Zenon, <1>6, ThreadsUnchanged DEF vars, flagVars
  <1> QED
    BY Zenon, <1>1, <1>3, <1>4, <1>5, <1>6 DEF Next, Calls

(* Every step keeps the parents known: a unit is built on the tip, and a   *)
(* block is appended with the parent of a unit.                            *)
LEMMA NextParentsKnown ==
  ASSUME TInv, [Next]_vars
  PROVE  ParentsKnown'
  <1> ChainTypes /\ SessionTypes /\ ThreadInv /\ ParentsKnown
    BY Zenon DEF TInv
  <1> USE MiningAssumption
  <1>0. Len(blocks) \in Nat /\ DOMAIN blocks = 1 .. Len(blocks) /\ tip \in 0 .. Len(blocks)
    BY DEF ChainTypes
  <1>p. /\ \A b \in DOMAIN blocks : blocks[b].parent \in Nat
        /\ \A i \in Miners : unit[i] # None => unit[i].parent \in Nat
        /\ work # None => work.parent \in Nat
    <2>1. \A b \in DOMAIN blocks : blocks[b].parent \in Nat
      BY Zenon, BlockFields
    <2>2. \A w \in Units : w.parent \in Nat
      BY Zenon DEF Units
    <2>3. work \in Units \cup {None} /\ \A i \in Miners : unit[i] \in Units \cup {None}
      BY Zenon DEF SessionTypes, ThreadInv, MinerTypes
    <2> QED
      BY Zenon, <2>1, <2>2, <2>3
  <1>1. ASSUME NEW b, blocks' = Append(blocks, b), b.parent \in 0 .. Len(blocks),
               UNCHANGED work, \A i \in Miners : unit'[i] \in {unit[i], None}
        PROVE  ParentsKnown'
    <2>1. Len(blocks') = Len(blocks) + 1 /\ DOMAIN blocks' = 1 .. Len(blocks) + 1
      BY <1>0, <1>1 DEF ChainTypes
    <2>2. \A a \in DOMAIN blocks : blocks'[a] = blocks[a]
      BY <1>0, <1>1 DEF ChainTypes
    <2>3. blocks'[Len(blocks) + 1] = b
      BY <1>0, <1>1 DEF ChainTypes
    <2>4. ASSUME NEW a \in DOMAIN blocks' PROVE blocks'[a].parent <= Len(blocks')
      <3>1. a \in DOMAIN blocks \/ a = Len(blocks) + 1
        BY <1>0, <2>1, <2>4
      <3> QED
        BY <1>0, <1>1, <1>p, <2>1, <2>2, <2>3, <3>1 DEF ParentsKnown
    <2> QED
      BY <1>0, <1>1, <1>p, <2>1, <2>4 DEF ParentsKnown
  <1>2. CASE ExternalBlock
    BY Zenon, <1>0, <1>1, <1>2 DEF ExternalBlock, minerVars
  <1>3. ASSUME NEW i \in Miners, SubmitNew(i) PROVE ParentsKnown'
    <2>1. unit[i] \in Units /\ unit[i] # None
      BY Zenon, <1>3 DEF ThreadInv, HasUnit, Building, SubmitNew, Units
    <2>2. Candidate(i).parent \in 0 .. Len(blocks)
      BY <1>0, <1>p, <2>1 DEF Candidate, ParentsKnown
    <2>3. \A j \in Miners : unit'[j] \in {unit[j], None}
      BY Zenon, <1>3 DEF SubmitNew, Leaves, ThreadInv, MinerTypes
    <2> QED
      BY Zenon, <1>1, <1>3, <2>2, <2>3 DEF SubmitNew
  <1>4. ASSUME NEW i \in Miners, UNCHANGED blocks, NEW w \in Units, w.parent <= Len(blocks),
               unit' = [unit EXCEPT ![i] = w], work' \in {w, work}
        PROVE  ParentsKnown'
    BY Zenon, <1>4 DEF ParentsKnown, ThreadInv, MinerTypes
  <1>5. ASSUME NEW i \in Miners, MinerStep(i), ~SubmitNew(i) PROVE ParentsKnown'
    <2>1. UNCHANGED blocks
      BY Zenon, <1>5, MinerFrame DEF envVars, chainVars
    <2>2. CASE TakeWork(i)
      <3>1. work \in Units /\ work # None
        BY Zenon, <2>2 DEF TakeWork, WorkIsCurrent, SessionTypes
      <3>2. work' = work /\ (unit' = [unit EXCEPT ![i] = work] \/ Leaves(i))
        BY Zenon, <2>2 DEF TakeWork, Begin, NoTarget
      <3>3. CASE Leaves(i)
        BY Zenon, <2>1, <3>2, <3>3 DEF Leaves, ParentsKnown, ThreadInv, MinerTypes
      <3> QED
        BY Zenon, <1>4, <2>1, <3>1, <3>2, <3>3 DEF ParentsKnown
    <2>3. CASE ReadGeneration(i)
      <3>. DEFINE w == [parent |-> 0, time |-> 0, generation |-> generation]
      <3>1. w \in Units /\ w.parent <= Len(blocks)
        BY <1>0 DEF Units, SessionTypes
      <3>2. unit' = [unit EXCEPT ![i] = w] /\ work' = work
        BY Zenon, <2>3 DEF ReadGeneration
      <3>. HIDE DEF w
      <3> QED
        BY Zenon, <1>4, <2>1, <3>1, <3>2
    <2>4. CASE CreateNewBlock(i)
      <3>. DEFINE w == [unit[i] EXCEPT !.parent = tip]
      <3>1. unit[i] \in Units
        BY Zenon, <2>4 DEF CreateNewBlock, ThreadInv, HasUnit, Building
      <3>2. w \in Units /\ w.parent <= Len(blocks)
        BY SMTT(30), <1>0, <3>1 DEF Units
      <3>3. unit' = [unit EXCEPT ![i] = w] /\ work' = work
        BY Zenon, <2>4 DEF CreateNewBlock
      <3>. HIDE DEF w
      <3> QED
        BY Zenon, <1>4, <2>1, <3>2, <3>3
    <2>5. CASE BuildWork(i)
      <3>1. unit[i] \in Units /\ unit[i] # None /\ now \in Nat
        BY Zenon, <2>5 DEF BuildWork, ThreadInv, HasUnit, Building, ChainTypes, Units
      <3>2. work' \in Units /\ work'.parent = unit[i].parent
        BY Zenon, <2>5, <3>1 DEF BuildWork, Units
      <3>3. unit' = [unit EXCEPT ![i] = work'] \/ Leaves(i)
        BY Zenon, <2>5 DEF BuildWork, Begin, NoTarget
      <3>4. CASE Leaves(i)
        BY Zenon, <2>1, <3>1, <3>2, <3>4 DEF Leaves, ParentsKnown, ThreadInv, MinerTypes
      <3> QED
        BY Zenon, <1>4, <2>1, <3>1, <3>2, <3>3, <3>4 DEF ParentsKnown
    <2>6. CASE ThreadExits(i) \/ EnterMineBlock(i) \/ Hash(i)
      BY Zenon, <2>1, <2>6 DEF ThreadExits, EnterMineBlock, Hash, ParentsKnown
    <2>7. CASE \/ BuildWorkFails(i) \/ Abandon(i) \/ Exhaust(i) \/ NoContext(i)
               \/ SubmitRejected(i) \/ SubmitKnown(i)
      <3>1. Leaves(i) /\ work' \in {work, None}
        BY Zenon, <2>7 DEF BuildWorkFails, Abandon, Exhaust, NoContext, SubmitRejected,
           SubmitKnown
      <3>2. \A j \in Miners : unit'[j] \in {unit[j], None}
        BY Zenon, <3>1 DEF Leaves, ThreadInv, MinerTypes
      <3> QED
        BY Zenon, <2>1, <3>1, <3>2 DEF ParentsKnown
    <2> QED
      BY Zenon, <1>5, <2>2, <2>3, <2>4, <2>5, <2>6, <2>7 DEF MinerStep, Acquire
  <1>6. ASSUME NEW c \in Callers, Calls(c)
        PROVE ParentsKnown'
    <2>1. UNCHANGED <<blocks, unit>>
      BY Zenon, <1>6, CallerFrame DEF chainVars
    <2>2. work' \in {work, None}
      BY ZenonT(60), <1>6 DEF Calls, CallStartMining, StartMining, StopMining, CallerStep,
         CreateContext, CreateFails, SetFlags, ClearThreads, EmplaceBack, Started, Join,
         TearDown, ResetFlags
    <2> QED
      BY Zenon, <2>1, <2>2 DEF ParentsKnown
  <1>7. CASE (Environment \/ UpdatedBlockTip) /\ ~ExternalBlock
    <2>1. UNCHANGED blocks
      BY Zenon, <1>7 DEF Environment, InvalidateBlock, Tick, LeaveIBD, RequestShutdown,
         Shutdown, UpdatedBlockTip, chainVars
    <2> QED
      BY Zenon, <1>7, <2>1, EnvironmentFrame DEF ParentsKnown, minerVars
  <1>8. CASE UNCHANGED vars
    BY Zenon, <1>8 DEF vars, envVars, chainVars, minerVars, ParentsKnown
  <1> QED
    BY Zenon, <1>2, <1>3, <1>5, <1>6, <1>7, <1>8 DEF Next, Calls

(* Every step keeps TInv.                                                  *)
LEMMA NextTInv ==
  ASSUME TInv, [Next]_vars
  PROVE  TInv'
  BY Zenon, NextChainTypes, NextSessionTypes, NextThreadInv, NextParentsKnown DEF TInv

-----------------------------------------------------------------------------
(* One caller at a time: the RPC client waits for one call before the next.*)
OneCaller == \E c : Callers = {c}

(* One caller never races with another for the vector of handles.          *)
LEMMA NoRace ==
  ASSUME OneCaller, NEW c \in Callers
  PROVE  ~VectorRace(c) /\ (MayCrash(c) => UNCHANGED node)
  BY Zenon DEF OneCaller, VectorRace, MayCrash

(* Every thread is started together with its handle, and handles go away   *)
(* only after their threads have ended.                                    *)
LEMMA NextNoThreadIsOrphaned ==
  ASSUME OneCaller, TInv, NoThreadIsOrphaned, [Next]_vars
  PROVE  NoThreadIsOrphaned'
  <1> MinerTypes
    BY Zenon DEF TInv, ThreadInv
  <1>1. ASSUME NEW c \in Callers, EmplaceBack(c) PROVE NoThreadIsOrphaned'
    BY Zenon, <1>1, NoRace DEF EmplaceBack, NoThreadIsOrphaned, MinerTypes
  <1>2. ASSUME NEW c \in Callers, Join(c) PROVE NoThreadIsOrphaned'
    BY Zenon, <1>2 DEF Join, NoThreadIsOrphaned, minerVars
  <1>3. ASSUME NEW c \in Callers, Calls(c), ~EmplaceBack(c), ~Join(c)
        PROVE NoThreadIsOrphaned'
    BY Zenon, <1>3, CallerFrame DEF NoThreadIsOrphaned
  <1>4. ASSUME NEW i \in Miners, MinerStep(i) PROVE NoThreadIsOrphaned'
    BY Zenon, <1>4, MinerFrame, MinerMoves DEF NoThreadIsOrphaned
  <1>5. CASE Environment \/ UpdatedBlockTip
    BY Zenon, <1>5, EnvironmentFrame DEF NoThreadIsOrphaned, flagVars, minerVars
  <1>6. CASE UNCHANGED vars
    BY Zenon, <1>6 DEF vars, NoThreadIsOrphaned, flagVars, minerVars
  <1> QED
    BY Zenon, <1>1, <1>2, <1>3, <1>4, <1>5, <1>6 DEF Next, Calls

(* A tip that moves queues a callback, and a callback that runs bumps the  *)
(* generation, because a thread only runs while the listener is registered.*)
LEMMA NextUnitInv ==
  ASSUME IInv, [Next]_vars
  PROVE  UnitInv'
  <1> TypeOK /\ NoThreadIsOrphaned /\ UnitInv /\ SessionInv
    BY Zenon DEF IInv
  <1>1. CASE ExternalBlock
    BY <1>1 DEF ExternalBlock, UnitInv, Noticed, SessionInv, NoThreadIsOrphaned,
       TypeOK, ChainTypes, SessionTypes, MinerTypes, Building, Units, envVars,
       chainVars, flagVars, minerVars
  <1>2. CASE UpdatedBlockTip
    <2> SUFFICES ASSUME NEW i \in Miners, mpc[i] \in Building
                 PROVE  unit[i] \in Units /\ unit[i].generation <= generation'
                        /\ (mpc[i] \in {"hash", "submit"} => unit[i].generation # generation')
      BY Zenon, <1>2 DEF UpdatedBlockTip, UnitInv, Noticed, minerVars, chainVars
    <2>1. mpc[i] # "exited"
      BY Zenon DEF Building
    <2>2. listener = TRUE
      BY Zenon, <1>2, <2>1 DEF NoThreadIsOrphaned, SessionInv, UpdatedBlockTip, TypeOK,
         SessionTypes
    <2>3. generation' = generation + 1
      BY Zenon, <1>2, <2>2 DEF UpdatedBlockTip
    <2>4. unit[i] \in Units /\ unit[i].generation <= generation
      BY Zenon DEF UnitInv
    <2> QED
      BY SMTT(30), <2>3, <2>4 DEF TypeOK, SessionTypes, Units
  <1>3. CASE Tick \/ LeaveIBD \/ RequestShutdown \/ Shutdown
    BY Zenon, <1>3 DEF Tick, LeaveIBD, RequestShutdown, Shutdown, UnitInv, Noticed,
       SessionInv, NoThreadIsOrphaned, TypeOK, ChainTypes, SessionTypes, MinerTypes,
       Building, Units, envVars, chainVars, flagVars, minerVars
  <1>4. ASSUME NEW c \in Callers, Calls(c), ~EmplaceBack(c) PROVE UnitInv'
    BY Zenon, <1>4, CallerFrame DEF UnitInv, Noticed, chainVars
  <1>7. ASSUME NEW c \in Callers, EmplaceBack(c) PROVE UnitInv'
    BY Zenon, <1>7 DEF EmplaceBack, UnitInv, Noticed, Building, TypeOK, MinerTypes, chainVars
  <1>8. ASSUME NEW i \in Miners, ThreadExits(i)
        PROVE UnitInv'
    BY <1>8 DEF ThreadExits, Moves, UnitInv, Noticed, SessionInv,
       NoThreadIsOrphaned, TypeOK, ChainTypes, SessionTypes, MinerTypes, Building,
       Units, envVars, chainVars, flagVars, minerVars
  <1>9. ASSUME NEW i \in Miners, EnterMineBlock(i)
        PROVE UnitInv'
    BY Zenon, <1>9 DEF EnterMineBlock, Moves, UnitInv, Noticed, SessionInv,
       NoThreadIsOrphaned, TypeOK, ChainTypes, SessionTypes, MinerTypes, Building,
       Units, envVars, chainVars, flagVars, minerVars
  <1>10. ASSUME NEW i \in Miners, TakeWork(i), ~NoTarget(i, work) PROVE UnitInv'
    <2>1. threads # {} /\ work # None
      BY Zenon, <1>10 DEF TakeWork, WorkIsCurrent, NoThreadIsOrphaned
    <2>2. work \in Units /\ Noticed(work) /\ work.generation <= generation
      BY Zenon, <2>1 DEF SessionInv, Noticed, TypeOK, SessionTypes
    <2>3. /\ unit'[i] = work
          /\ \A j \in Miners : j # i => mpc'[j] = mpc[j] /\ unit'[j] = unit[j]
          /\ UNCHANGED <<generation, tip, pending>>
      BY Zenon, <1>10 DEF TakeWork, Begin, Moves, TypeOK, MinerTypes, envVars, chainVars
    <2> QED
      BY Zenon, <2>2, <2>3 DEF UnitInv, Noticed
  <1>11. ASSUME NEW i \in Miners, ReadGeneration(i)
        PROVE UnitInv'
    BY <1>11 DEF ReadGeneration, Moves, UnitInv, Noticed, SessionInv,
       NoThreadIsOrphaned, TypeOK, ChainTypes, SessionTypes, MinerTypes, Building,
       Units, envVars, chainVars, flagVars, minerVars
  <1>12. ASSUME NEW i \in Miners, CreateNewBlock(i)
        PROVE UnitInv'
    <2>1. unit[i] \in Units /\ unit[i].generation <= generation /\ tip \in Nat
      BY <1>12 DEF CreateNewBlock, UnitInv, Building, TypeOK, ChainTypes
    <2>2. unit'[i] = [unit[i] EXCEPT !.parent = tip]
      BY Zenon, <1>12 DEF CreateNewBlock, TypeOK, MinerTypes
    <2>3. unit'[i] \in Units /\ unit'[i].generation = unit[i].generation
      BY Zenon, <2>1, <2>2 DEF Units
    <2>4. mpc'[i] = "check"
      BY Zenon, <1>12 DEF CreateNewBlock, Moves, TypeOK, MinerTypes
    <2>5. \A j \in Miners : j # i => mpc'[j] = mpc[j] /\ unit'[j] = unit[j]
      BY Zenon, <1>12 DEF CreateNewBlock, Moves, TypeOK, MinerTypes
    <2> QED
      BY Zenon, <1>12, <2>1, <2>3, <2>4, <2>5 DEF CreateNewBlock, UnitInv, Noticed,
         Building, envVars, chainVars
  <1>13. ASSUME NEW i \in Miners, BuildWork(i), ~NoTarget(i, work') PROVE UnitInv'
    <2>1. unit[i] \in Units /\ unit[i].generation <= generation /\ now \in Nat
      BY Zenon, <1>13 DEF BuildWork, UnitInv, Building, TypeOK, ChainTypes
    <2>2. /\ work' \in Units /\ work'.generation = unit[i].generation
          /\ work'.parent = tip
      BY Zenon, <1>13, <2>1 DEF BuildWork, Units
    <2>3. /\ unit'[i] = work'
          /\ \A j \in Miners : j # i => mpc'[j] = mpc[j] /\ unit'[j] = unit[j]
          /\ UNCHANGED <<generation, tip, pending>>
      BY Zenon, <1>13 DEF BuildWork, Begin, Moves, TypeOK, MinerTypes, envVars, chainVars
    <2> QED
      BY Zenon, <2>1, <2>2, <2>3 DEF UnitInv, Noticed
  <1>14. ASSUME NEW i \in Miners, Hash(i)
        PROVE UnitInv'
    BY SMTT(30), <1>14 DEF Hash, Moves, UnitInv, Noticed, SessionInv, NoThreadIsOrphaned,
       TypeOK, ChainTypes, SessionTypes, MinerTypes, Building, Units, envVars,
       chainVars, flagVars, minerVars
  <1>15. ASSUME NEW i \in Miners,
               \/ BuildWorkFails(i) \/ Abandon(i) \/ Exhaust(i) \/ NoContext(i)
               \/ SubmitRejected(i) \/ SubmitKnown(i)
               \/ TakeWork(i) /\ NoTarget(i, work)
               \/ BuildWork(i) /\ NoTarget(i, work')
        PROVE UnitInv'
    <2>1. Leaves(i) /\ UNCHANGED <<generation, tip, pending>>
      BY Zenon, <1>15 DEF BuildWorkFails, Abandon, Exhaust, NoContext, TakeWork, BuildWork,
         NoTarget, SubmitRejected, SubmitKnown, envVars, chainVars
    <2>2. mpc'[i] = "loop"
      BY Zenon, <2>1 DEF Leaves, Moves, TypeOK, MinerTypes
    <2>3. \A j \in Miners : j # i => mpc'[j] = mpc[j] /\ unit'[j] = unit[j]
      BY Zenon, <2>1 DEF Leaves, Moves, TypeOK, MinerTypes
    <2> QED
      BY Zenon, <2>1, <2>2, <2>3 DEF UnitInv, Noticed, Building
  <1>16. ASSUME NEW i \in Miners, SubmitNew(i)
        PROVE UnitInv'
    BY SMTT(30), <1>16 DEF SubmitNew, Leaves, Moves, UnitInv, Noticed, SessionInv,
       NoThreadIsOrphaned, TypeOK, ChainTypes, SessionTypes, MinerTypes, Building,
       Units, envVars, chainVars, flagVars, minerVars
  <1>17. CASE UNCHANGED vars
    BY Zenon, <1>17 DEF vars, UnitInv, Noticed, SessionInv, NoThreadIsOrphaned, TypeOK,
       ChainTypes, SessionTypes, MinerTypes, Building, Units, envVars, chainVars,
       flagVars, minerVars
  <1>18. CASE InvalidateBlock
    BY Zenon, <1>18 DEF InvalidateBlock, UnitInv, Noticed, minerVars
  <1> QED
    BY ZenonT(60), <1>1, <1>2, <1>3, <1>4, <1>7, <1>8, <1>9, <1>10,
       <1>11, <1>12, <1>13, <1>14, <1>15, <1>16, <1>17, <1>18
    DEF Next, Environment, Calls, Acquire, MinerStep

(* The caller sets up context and listener before it spawns threads, and   *)
(* takes them down after it has joined them.                               *)
LEMMA NextSessionInv ==
  ASSUME OneCaller, IInv, TypeOK', [Next]_vars
  PROVE  SessionInv'
  <1> TypeOK /\ NoThreadIsOrphaned /\ UnitInv /\ SessionInv
    BY Zenon DEF IInv
  <1>1. CASE ExternalBlock
    BY SMTT(30), <1>1 DEF ExternalBlock, OneCaller, SessionInv, Noticed, UnitInv,
       NoThreadIsOrphaned, TypeOK, ChainTypes, SessionTypes, MinerTypes, Building,
       Units, envVars, chainVars, flagVars, minerVars, callVars
  <1>2. CASE UpdatedBlockTip
    BY SMTT(30), <1>2 DEF UpdatedBlockTip, OneCaller, SessionInv, Noticed, UnitInv,
       NoThreadIsOrphaned, TypeOK, ChainTypes, SessionTypes, MinerTypes, Building,
       Units, envVars, chainVars, flagVars, minerVars, callVars
  <1>3. CASE Shutdown
    BY Zenon, <1>3 DEF Shutdown, OneCaller, SessionInv, Noticed, UnitInv,
       NoThreadIsOrphaned, TypeOK, ChainTypes, SessionTypes, MinerTypes, Building,
       Units, envVars, chainVars, flagVars, minerVars, callVars
  <1>4. CASE Tick \/ LeaveIBD \/ RequestShutdown
    BY Zenon, <1>4 DEF Tick, LeaveIBD, RequestShutdown, OneCaller, SessionInv,
       Noticed, UnitInv, NoThreadIsOrphaned, TypeOK, ChainTypes, SessionTypes,
       MinerTypes, Building, Units, envVars, chainVars, flagVars, minerVars, callVars
  <1>5. ASSUME NEW c \in Callers, CallStartMining(c) \/ StartMining(c) \/ Started(c)
        PROVE SessionInv'
    <2>1. UNCHANGED <<work, context, listener, node, generation, tip, pending, threads>>
      BY Zenon, <1>5 DEF CallStartMining, StartMining, Started, envVars, chainVars, flagVars
    <2>2. CASE CallStartMining(c)
      <3>1. cpc[c] = "idle" /\ cpc'[c] = "start" /\ node # "freed"
        BY Zenon, <2>2 DEF CallStartMining, Goes, TypeOK, SessionTypes
      <3> QED
        BY Zenon, <2>1, <3>1 DEF OneCaller, SessionInv, Noticed
    <2>3. CASE StartMining(c)
      <3>1. /\ cpc[c] = "start"
            /\ cpc'[c] = "rejoin" \/ (cpc'[c] = "create" /\ threads = {})
        BY Zenon, <2>3, NoRace DEF StartMining, Goes, TypeOK, SessionTypes
      <3>2. node # "freed"
        BY Zenon, <3>1 DEF SessionInv
      <3> QED
        BY Zenon, <2>1, <3>1, <3>2 DEF OneCaller, SessionInv, Noticed
    <2>4. CASE Started(c)
      <3>1. cpc[c] = "emplace" /\ cpc'[c] = "idle"
        BY Zenon, <2>4 DEF Started, Goes, TypeOK, SessionTypes
      <3> QED
        BY Zenon, <2>1, <3>1 DEF OneCaller, SessionInv, Noticed
    <2> QED
      BY Zenon, <1>5, <2>2, <2>3, <2>4
  <1>6. ASSUME NEW c \in Callers, CreateContext(c)
        PROVE SessionInv'
    BY Zenon, <1>6 DEF CreateContext, Goes, OneCaller, SessionInv, Noticed,
       UnitInv, NoThreadIsOrphaned, TypeOK, ChainTypes, SessionTypes, MinerTypes,
       Building, Units, envVars, chainVars, flagVars, minerVars, callVars
  <1>7. ASSUME NEW c \in Callers, CreateFails(c)
        PROVE SessionInv'
    BY SMTT(30), <1>7 DEF CreateFails, Goes, OneCaller, SessionInv, Noticed,
       UnitInv, NoThreadIsOrphaned, TypeOK, ChainTypes, SessionTypes, MinerTypes,
       Building, Units, envVars, chainVars, flagVars, minerVars, callVars
  <1>8. ASSUME NEW c \in Callers, SetFlags(c)
        PROVE SessionInv'
    BY Zenon, <1>8 DEF SetFlags, Goes, OneCaller, SessionInv, Noticed, UnitInv,
       NoThreadIsOrphaned, TypeOK, ChainTypes, SessionTypes, MinerTypes, Building,
       Units, envVars, chainVars, flagVars, minerVars, callVars
  <1>9. ASSUME NEW c \in Callers, ClearThreads(c) PROVE SessionInv'
    <2>1. /\ UNCHANGED <<threads, context, listener, work, node, generation, tip, pending>>
          /\ cpc[c] = "spawn" /\ cpc'[c] = "emplace" /\ threads = {} /\ node # "freed"
      BY Zenon, <1>9, NoRace DEF ClearThreads, Goes, SessionInv, TypeOK, SessionTypes, chainVars, flagVars
    <2> QED
      BY Zenon, <2>1 DEF OneCaller, SessionInv
  <1>25. ASSUME NEW c \in Callers, EmplaceBack(c) PROVE SessionInv'
    <2>1. UNCHANGED <<context, listener, work, node, generation, tip, pending, cpc>>
      BY Zenon, <1>25, NoRace DEF EmplaceBack, chainVars
    <2>2. cpc[c] = "emplace"
      BY Zenon, <1>25 DEF EmplaceBack
    <2> QED
      BY Zenon, <2>1, <2>2 DEF OneCaller, SessionInv, Noticed
  <1>10. ASSUME NEW c \in Callers, StopMining(c)
        PROVE SessionInv'
    BY SMTT(30), <1>10 DEF StopMining, Goes, OneCaller, SessionInv, Noticed,
       UnitInv, NoThreadIsOrphaned, TypeOK, ChainTypes, SessionTypes, MinerTypes,
       Building, Units, envVars, chainVars, flagVars, minerVars, callVars
  <1>11. ASSUME NEW c \in Callers, Join(c)
        PROVE SessionInv'
    BY SMTT(30), <1>11 DEF Join, MayCrash, VectorRace, Goes, OneCaller, SessionInv, Noticed, UnitInv,
       NoThreadIsOrphaned, TypeOK, ChainTypes, SessionTypes, MinerTypes, Building,
       Units, envVars, chainVars, flagVars, minerVars, callVars
  <1>12. ASSUME NEW c \in Callers, TearDown(c)
        PROVE SessionInv'
    BY SMTT(30), <1>12 DEF TearDown, MayCrash, VectorRace, Goes, OneCaller, SessionInv, Noticed, UnitInv,
       NoThreadIsOrphaned, TypeOK, ChainTypes, SessionTypes, MinerTypes, Building,
       Units, envVars, chainVars, flagVars, minerVars, callVars
  <1>13. ASSUME NEW c \in Callers, ResetFlags(c)
        PROVE SessionInv'
    BY SMTT(30), <1>13 DEF ResetFlags, Goes, OneCaller, SessionInv, Noticed,
       UnitInv, NoThreadIsOrphaned, TypeOK, ChainTypes, SessionTypes, MinerTypes,
       Building, Units, envVars, chainVars, flagVars, minerVars, callVars
  <1>14. ASSUME NEW i \in Miners,
               \/ ThreadExits(i) \/ EnterMineBlock(i) \/ TakeWork(i) \/ ReadGeneration(i)
               \/ CreateNewBlock(i) \/ Hash(i)
        PROVE SessionInv'
    <2>1. UNCHANGED <<work, context, listener, node, generation, tip, pending, threads, cpc>>
      BY Zenon, <1>14 DEF ThreadExits, EnterMineBlock, TakeWork, ReadGeneration,
         CreateNewBlock, Hash, envVars, chainVars, flagVars, callVars
    <2> QED
      BY Zenon, <2>1 DEF SessionInv, Noticed
  <1>19. ASSUME NEW i \in Miners, BuildWork(i)
        PROVE SessionInv'
    BY Zenon, <1>19 DEF BuildWork, OneCaller, SessionInv, Noticed,
       UnitInv, NoThreadIsOrphaned, TypeOK, ChainTypes, SessionTypes, MinerTypes,
       Building, Units, envVars, chainVars, flagVars, minerVars, callVars
  <1>21. ASSUME NEW i \in Miners,
               BuildWorkFails(i) \/ Abandon(i) \/ Exhaust(i) \/ NoContext(i)
                 \/ SubmitRejected(i) \/ SubmitKnown(i)
        PROVE SessionInv'
    BY ZenonT(60), <1>21 DEF BuildWorkFails, Abandon, Exhaust, NoContext,
       SubmitRejected, SubmitKnown, Leaves, Moves, OneCaller, SessionInv, Noticed,
       UnitInv, NoThreadIsOrphaned, TypeOK, ChainTypes, SessionTypes, MinerTypes,
       Building, Units, envVars, chainVars, flagVars, minerVars, callVars
  <1>22. ASSUME NEW i \in Miners, SubmitNew(i)
        PROVE SessionInv'
    <2>1. UNCHANGED <<threads, context, listener, node, work, generation, cpc>>
      BY Zenon, <1>22 DEF SubmitNew, flagVars, callVars
    <2>2. pending \in Nat
      BY Zenon DEF TypeOK, ChainTypes
    <2>3. (tip' = tip /\ pending' = pending) \/ pending' = pending + 1
      BY Zenon, <1>22 DEF SubmitNew
    <2>4. (tip' = tip /\ pending' = pending) \/ pending' > 0
      BY <2>2, <2>3
    <2>5. Noticed(work) => Noticed(work)'
      BY Zenon, <2>1, <2>4 DEF Noticed
    <2> QED
      BY Zenon, <2>1, <2>5 DEF SessionInv
  <1>23. CASE UNCHANGED vars
    BY Zenon, <1>23 DEF vars, OneCaller, SessionInv, Noticed, UnitInv,
       NoThreadIsOrphaned, TypeOK, ChainTypes, SessionTypes, MinerTypes, Building,
       Units, envVars, chainVars, flagVars, minerVars, callVars
  <1>24. CASE InvalidateBlock
    BY Zenon, <1>24 DEF InvalidateBlock, SessionInv, Noticed, flagVars, callVars
  <1> QED
    BY ZenonT(60), <1>1, <1>2, <1>3, <1>4, <1>5, <1>6, <1>7, <1>8, <1>9, <1>10, <1>11,
       <1>12, <1>13, <1>14, <1>19, <1>21, <1>22, <1>23, <1>24, <1>25
    DEF Next, Environment, CallerStep, Acquire, MinerStep

(* In a running node the flags and the threads agree between calls.        *)
LEMMA NextStatusInv ==
  ASSUME OneCaller, IInv, TypeOK', StatusInv, [Next]_vars
  PROVE  StatusInv'
  <1> USE MiningAssumption
  <1> TypeOK /\ NoThreadIsOrphaned /\ SessionInv
    BY Zenon DEF IInv
  <1>1. CASE ExternalBlock
    BY Zenon, <1>1 DEF ExternalBlock, OneCaller, StatusInv, SessionInv,
       NoThreadIsOrphaned, TypeOK, SessionTypes, MinerTypes, Miners, envVars,
       chainVars, flagVars, minerVars, callVars
  <1>2. CASE UpdatedBlockTip
    BY Zenon, <1>2 DEF UpdatedBlockTip, OneCaller, StatusInv, SessionInv,
       NoThreadIsOrphaned, TypeOK, SessionTypes, MinerTypes, Miners, envVars,
       chainVars, flagVars, minerVars, callVars
  <1>3. CASE Shutdown
    BY Zenon, <1>3 DEF Shutdown, OneCaller, StatusInv, SessionInv,
       NoThreadIsOrphaned, TypeOK, SessionTypes, MinerTypes, Miners, envVars,
       chainVars, flagVars, minerVars, callVars
  <1>4. CASE Tick \/ LeaveIBD \/ RequestShutdown
    BY ZenonT(60), <1>4 DEF Tick, LeaveIBD, RequestShutdown, OneCaller, StatusInv,
       SessionInv, NoThreadIsOrphaned, TypeOK, SessionTypes, MinerTypes, Miners,
       envVars, chainVars, flagVars, minerVars, callVars
  <1>5. ASSUME NEW c \in Callers, CallStartMining(c) \/ StartMining(c) \/ Started(c)
        PROVE StatusInv'
    BY SMTT(30), <1>5 DEF CallStartMining, StartMining, Started, Goes, OneCaller, StatusInv, SessionInv,
       NoThreadIsOrphaned, TypeOK, SessionTypes, MinerTypes, Miners, envVars,
       chainVars, flagVars, minerVars, callVars
  <1>6. ASSUME NEW c \in Callers, CreateContext(c)
        PROVE StatusInv'
    BY SMTT(30), <1>6 DEF CreateContext, Goes, OneCaller, StatusInv, SessionInv,
       NoThreadIsOrphaned, TypeOK, SessionTypes, MinerTypes, Miners, envVars,
       chainVars, flagVars, minerVars, callVars
  <1>7. ASSUME NEW c \in Callers, CreateFails(c)
        PROVE StatusInv'
    BY Zenon, <1>7 DEF CreateFails, Goes, OneCaller, StatusInv, SessionInv,
       NoThreadIsOrphaned, TypeOK, SessionTypes, MinerTypes, Miners, envVars,
       chainVars, flagVars, minerVars, callVars
  <1>8. ASSUME NEW c \in Callers, SetFlags(c)
        PROVE StatusInv'
    BY Zenon, <1>8 DEF SetFlags, Goes, OneCaller, StatusInv, SessionInv,
       NoThreadIsOrphaned, TypeOK, SessionTypes, MinerTypes, Miners, envVars,
       chainVars, flagVars, minerVars, callVars
  <1>9. ASSUME NEW c \in Callers, ClearThreads(c) PROVE StatusInv'
    <2>1. /\ UNCHANGED <<threads, shouldStop, active, numThreads>>
          /\ cpc[c] = "spawn" /\ cpc'[c] = "emplace" /\ spawned'[c] = 0 /\ threads = {}
      BY Zenon, <1>9, NoRace DEF ClearThreads, Goes, SessionInv, TypeOK, SessionTypes, flagVars
    <2> QED
      BY Zenon, <2>1 DEF OneCaller, StatusInv
  <1>25. ASSUME NEW c \in Callers, EmplaceBack(c) PROVE StatusInv'
    <2>1. /\ UNCHANGED <<shouldStop, active, numThreads, node, cpc>>
          /\ cpc[c] = "emplace" /\ threads' = threads \cup {<<c, spawned[c]>>}
          /\ \A i \in Miners : mpc'[i] = mpc[i] \/ mpc'[i] = "loop"
          /\ <<c, spawned[c]>> \in Miners => mpc'[<<c, spawned[c]>>] = "loop"
      BY Zenon, <1>25, NoRace DEF EmplaceBack, TypeOK, MinerTypes
    <2>2. threads \subseteq Miners /\ threads' \subseteq Miners
      BY Zenon DEF TypeOK, SessionTypes
    <2>3. threads = {} => active
      BY Zenon, <2>1 DEF StatusInv
    <2>4. node = "up" => active /\ \A i \in threads' : mpc'[i] # "exited"
      BY Zenon, <2>1, <2>2, <2>3 DEF StatusInv
    <2>5. spawned'[c] # 0
      <3>1. spawned'[c] = spawned[c] + 1 /\ spawned[c] \in 0 .. MaxThreads
        BY Zenon, <1>25 DEF EmplaceBack, TypeOK, SessionTypes
      <3> QED
        BY <3>1
    <2> QED
      BY Zenon, <2>1, <2>4, <2>5 DEF OneCaller, StatusInv
  <1>10. ASSUME NEW c \in Callers, StopMining(c)
        PROVE StatusInv'
    BY <1>10 DEF StopMining, Goes, OneCaller, StatusInv, SessionInv,
       NoThreadIsOrphaned, TypeOK, SessionTypes, MinerTypes, Miners, envVars,
       chainVars, flagVars, minerVars, callVars
  <1>11. ASSUME NEW c \in Callers, Join(c)
        PROVE StatusInv'
    BY SMTT(30), <1>11 DEF Join, MayCrash, VectorRace, Goes, OneCaller, StatusInv, SessionInv,
       NoThreadIsOrphaned, TypeOK, SessionTypes, MinerTypes, Miners, envVars,
       chainVars, flagVars, minerVars, callVars
  <1>12. ASSUME NEW c \in Callers, TearDown(c)
        PROVE StatusInv'
    BY SMTT(30), <1>12 DEF TearDown, MayCrash, VectorRace, Goes, OneCaller, StatusInv, SessionInv,
       NoThreadIsOrphaned, TypeOK, SessionTypes, MinerTypes, Miners, envVars,
       chainVars, flagVars, minerVars, callVars
  <1>13. ASSUME NEW c \in Callers, ResetFlags(c)
        PROVE StatusInv'
    BY SMTT(30), <1>13 DEF ResetFlags, Goes, OneCaller, StatusInv, SessionInv,
       NoThreadIsOrphaned, TypeOK, SessionTypes, MinerTypes, Miners, envVars,
       chainVars, flagVars, minerVars, callVars
  <1>14. ASSUME NEW i \in Miners, ThreadExits(i)
        PROVE StatusInv'
    BY Zenon, <1>14 DEF ThreadExits, Moves, OneCaller, StatusInv, SessionInv,
       NoThreadIsOrphaned, TypeOK, SessionTypes, MinerTypes, Miners, envVars,
       chainVars, flagVars, minerVars, callVars
  <1>15. ASSUME NEW i \in Miners, MinerStep(i), ~ThreadExits(i) PROVE StatusInv'
    <2>1. UNCHANGED <<shouldStop, active, numThreads, node, cpc, spawned, threads>>
      BY Zenon, <1>15, MinerFrame, MinerMoves DEF TypeOK, callVars
    <2>2. \A j \in threads : mpc[j] # "exited" => mpc'[j] # "exited"
      BY Zenon, <1>15, MinerMoves DEF TypeOK, SessionTypes
    <2> QED
      BY Zenon, <2>1, <2>2 DEF StatusInv
  <1>23. CASE UNCHANGED vars
    BY Zenon, <1>23 DEF vars, OneCaller, StatusInv, SessionInv, NoThreadIsOrphaned,
       TypeOK, SessionTypes, MinerTypes, Miners, envVars, chainVars, flagVars,
       minerVars, callVars
  <1>24. CASE InvalidateBlock
    BY Zenon, <1>24 DEF InvalidateBlock, StatusInv, flagVars, minerVars, callVars
  <1> QED
    BY ZenonT(60), <1>1, <1>2, <1>3, <1>4, <1>5, <1>6, <1>7, <1>8, <1>9, <1>10, <1>11,
       <1>12, <1>13, <1>14, <1>15, <1>23, <1>24, <1>25
    DEF Next, Environment, CallerStep

-----------------------------------------------------------------------------
(* Nonces.                                                                 *)

(* Two residues of one modulus never meet.                                 *)
LEMMA ResiduesDiffer ==
  ASSUME NEW n \in Nat, NEW i \in Nat, NEW j \in Nat, NEW p \in Nat, NEW q \in Nat,
         i < n, j < n, i + p * n = j + q * n
  PROVE  i = j
  <1>1. p * n \in Nat /\ q * n \in Nat
    OBVIOUS
  <1>2. ASSUME NEW a \in Nat, NEW b \in Nat, a < b PROVE a * n + n <= b * n
    <2>1. PICK d \in Nat : b = a + 1 + d
      <3>1. b - a - 1 \in Nat /\ b = a + 1 + (b - a - 1)
        BY <1>2
      <3> QED
        BY Zenon, <3>1
    <2>2. b * n = a * n + n + d * n /\ d * n \in Nat /\ a * n \in Nat
      BY <2>1
    <2> QED
      BY <2>2
  <1>3. CASE p < q
    BY <1>1, <1>2, <1>3
  <1>4. CASE q < p
    BY <1>1, <1>2, <1>4
  <1>5. CASE p = q
    BY <1>1, <1>5
  <1> QED
    BY <1>3, <1>4, <1>5

(* A thread that runs is one of the session's, so there is at least one.   *)
LEMMA RunningIsCounted ==
  ASSUME IInv, NonceInv, NEW i \in Miners, mpc[i] # "exited"
  PROVE  /\ i \in threads /\ threads # {} /\ numThreads \in Nat \ {0}
         /\ Index(i) \in Nat /\ Index(i) < numThreads
  <1>1. i \in threads /\ Index(i) \in Nat /\ Index(i) < numThreads
    BY Zenon, MinerNames DEF IInv, NoThreadIsOrphaned, NonceInv
  <1>2. numThreads \in Nat
    BY DEF IInv, TypeOK, SessionTypes
  <1> QED
    BY <1>1, <1>2

(* Every step of one caller's session keeps the nonces apart.              *)
LEMMA NextNonceInv ==
  ASSUME OneCaller, IInv, NonceInv, [Next]_vars
  PROVE  NonceInv'
  <1> USE MiningAssumption
  <1> DEFINE Hashing == {"hash", "submit"}
             OnGrid(i) == \E q \in 0 .. MaxNonce + 1 : nonce[i] = Index(i) + q * numThreads
  <1>0. TypeOK /\ NoThreadIsOrphaned /\ SessionInv
    BY Zenon DEF IInv
  <1>1. ASSUME NEW i \in Miners, UNCHANGED <<threads, numThreads>>,
               \A j \in Miners : j # i =>
                  mpc'[j] = mpc[j] /\ nonce'[j] = nonce[j] /\ stride'[j] = stride[j],
               mpc'[i] \in Hashing => stride'[i] = numThreads /\ OnGrid(i)'
        PROVE  NonceInv'
    <2> SUFFICES ASSUME NEW j \in Miners, mpc'[j] \in Hashing
                 PROVE  stride'[j] = numThreads' /\ OnGrid(j)'
      BY Zenon, <1>1 DEF NonceInv
    <2>1. CASE j = i
      BY Zenon, <1>1, <2>1
    <2>2. CASE j # i
      BY Zenon, <1>1, <2>2 DEF NonceInv
    <2> QED
      BY Zenon, <2>1, <2>2
  <1>2. ASSUME UNCHANGED <<threads, numThreads, mpc, nonce, stride>> PROVE NonceInv'
    BY Zenon, <1>2 DEF NonceInv
  <1>3. ASSUME threads' = {}, \A i \in Miners : mpc'[i] = "exited"
        PROVE  NonceInv'
    BY Zenon, <1>3 DEF NonceInv
  <1>4. threads = {} => \A i \in Miners : mpc[i] = "exited"
    BY Zenon, <1>0 DEF NoThreadIsOrphaned
  <1>5. ASSUME NEW c \in Callers, Calls(c)
        PROVE NonceInv'
    <2>1. UNCHANGED <<nonce, stride>>
      BY Zenon, <1>5, CallerFrame
    <2>2. CASE CreateContext(c) \/ CreateFails(c) \/ ResetFlags(c)
      <3>1. threads = {} /\ threads' = {} /\ mpc' = mpc
        BY Zenon, <1>0, <2>2 DEF CreateContext, CreateFails, ResetFlags, SessionInv, minerVars
      <3> QED
        BY Zenon, <1>3, <1>4, <3>1
    <2>3. CASE EmplaceBack(c)
      <3>1. spawned[c] \in 0 .. MaxThreads - 1 /\ spawned[c] < numThreads
        <4>1. spawned[c] < numThreads /\ spawned[c] \in 0 .. MaxThreads
              /\ numThreads \in 0 .. MaxThreads
          BY Zenon, <1>0, <2>3 DEF EmplaceBack, TypeOK, SessionTypes
        <4> QED
          BY <4>1
      <3>2. <<c, spawned[c]>> \in Miners /\ Index(<<c, spawned[c]>>) < numThreads
        BY Zenon, <3>1, MinerNames
      <3>3. /\ UNCHANGED numThreads /\ threads' = threads \cup {<<c, spawned[c]>>}
            /\ \A i \in Miners : mpc'[i] \in Hashing => mpc[i] = mpc'[i]
        BY Zenon, <1>0, <2>3, NoRace DEF EmplaceBack, TypeOK, MinerTypes
      <3> QED
        BY Zenon, <2>1, <3>2, <3>3 DEF NonceInv
    <2>4. CASE Join(c)
      BY Zenon, <1>0, <1>3, <2>4 DEF Join, NoThreadIsOrphaned, minerVars
    <2>5. CASE \/ CallStartMining(c) \/ StartMining(c) \/ StopMining(c) \/ SetFlags(c)
               \/ ClearThreads(c) \/ Started(c) \/ TearDown(c)
      BY Zenon, <1>2, <2>1, <2>5 DEF CallStartMining, StartMining, StopMining, SetFlags,
         ClearThreads, Started, TearDown, flagVars, minerVars
    <2> QED
      BY Zenon, <1>5, <2>2, <2>3, <2>4, <2>5 DEF Calls, CallerStep
  <1>6. ASSUME NEW i \in Miners, MinerStep(i) PROVE NonceInv'
    <2>1. UNCHANGED <<threads, numThreads>>
      BY Zenon, <1>6, MinerFrame
    <2>t. /\ mpc \in [Miners -> InMineBlock \cup {"loop", "exited"}]
          /\ nonce \in [Miners -> 0 .. MaxNonce + MaxThreads]
          /\ stride \in [Miners -> 0 .. MaxThreads]
      BY Zenon, <1>0 DEF TypeOK, MinerTypes
    <2>2. ASSUME NEW w, Begin(i, w), mpc[i] # "exited" PROVE NonceInv'
      <3>1. Index(i) < numThreads /\ numThreads \in Nat /\ numThreads # 0 /\ Index(i) \in Nat
        BY Zenon, <2>2, RunningIsCounted
      <3>2. \A j \in Miners : j # i =>
              mpc'[j] = mpc[j] /\ nonce'[j] = nonce[j] /\ stride'[j] = stride[j]
        BY Zenon, <2>2, <2>t DEF Begin, Moves
      <3>3. nonce'[i] = Index(i) /\ stride'[i] = numThreads
        BY <2>2, <2>t, <3>1 DEF Begin
      <3>4. 0 \in 0 .. MaxNonce + 1 /\ nonce'[i] = Index(i) + 0 * numThreads'
        BY <2>1, <3>1, <3>3
      <3> QED
        BY Zenon, <1>1, <2>1, <3>2, <3>3, <3>4
    <2>3. CASE (TakeWork(i) \/ BuildWork(i)) /\ ~Leaves(i)
      BY Zenon, <2>2, <2>3 DEF TakeWork, BuildWork, NoTarget
    <2>4. CASE Hash(i) /\ nonce[i] \in Winning
      <3>1. mpc[i] = "hash" /\ UNCHANGED <<nonce, stride>>
        BY Zenon, <2>4 DEF Hash
      <3>2. \A j \in Miners : j # i => mpc'[j] = mpc[j]
        BY Zenon, <2>4, <2>t DEF Hash, Moves
      <3>3. stride[i] = numThreads /\ OnGrid(i)
        BY Zenon, <3>1 DEF NonceInv
      <3> QED
        BY Zenon, <1>1, <2>1, <3>1, <3>2, <3>3
    <2>5. CASE Hash(i) /\ nonce[i] \notin Winning
      <3>1. /\ mpc[i] = "hash" /\ UNCHANGED stride /\ ~(nonce[i] > MaxNonce)
            /\ nonce' = [nonce EXCEPT ![i] = @ + stride[i]]
        BY Zenon, <2>5 DEF Hash, Exhausted
      <3>2. \A j \in Miners : j # i => mpc'[j] = mpc[j] /\ nonce'[j] = nonce[j]
        BY Zenon, <2>5, <2>t, <3>1 DEF Hash, Moves
      <3>3. stride[i] = numThreads /\ OnGrid(i)
        BY Zenon, <3>1 DEF NonceInv
      <3>4. PICK q \in 0 .. MaxNonce + 1 : nonce[i] = Index(i) + q * numThreads
        BY Zenon, <3>3
      <3>5. numThreads \in Nat /\ numThreads >= 1 /\ Index(i) \in Nat /\ q \in Nat
        BY <3>1, RunningIsCounted
      <3>6. q <= q * numThreads
        <4>1. PICK d \in Nat : numThreads = d + 1
          <5>1. numThreads - 1 \in Nat /\ numThreads = (numThreads - 1) + 1
            BY <3>5
          <5> QED
            BY Zenon, <5>1
        <4>2. q * numThreads = q * d + q /\ q * d \in Nat
          BY <3>5, <4>1
        <4> QED
          BY <3>5, <4>2
      <3>7. q * numThreads \in Nat
        BY <3>5
      <3>8. q + 1 \in 0 .. MaxNonce + 1
        BY <3>1, <3>4, <3>5, <3>6, <3>7
      <3>9. nonce'[i] = nonce[i] + numThreads
        BY Zenon, <2>t, <3>1, <3>3
      <3>10. (q + 1) * numThreads = q * numThreads + numThreads
        BY <3>5
      <3>11. nonce'[i] = Index(i) + (q + 1) * numThreads'
        BY <2>1, <3>4, <3>5, <3>7, <3>9, <3>10
      <3>12. OnGrid(i)'
        BY Zenon, <3>8, <3>11
      <3> QED
        BY Zenon, <1>1, <2>1, <3>1, <3>2, <3>3, <3>12
    <2>6. ASSUME NEW p \in {"exited", "acquire", "build", "check", "loop"}, Moves(i, p),
                 \A j \in Miners : j # i => nonce'[j] = nonce[j] /\ stride'[j] = stride[j]
          PROVE  NonceInv'
      <3>1. mpc'[i] = p /\ \A j \in Miners : j # i => mpc'[j] = mpc[j]
        BY Zenon, <2>6, <2>t DEF Moves
      <3> QED
        BY Zenon, <1>1, <2>1, <2>6, <3>1
    <2>7. CASE ThreadExits(i) \/ EnterMineBlock(i) \/ ReadGeneration(i) \/ CreateNewBlock(i)
      BY Zenon, <2>6, <2>7 DEF ThreadExits, EnterMineBlock, ReadGeneration, CreateNewBlock
    <2>8. CASE \/ BuildWorkFails(i) \/ Abandon(i) \/ Exhaust(i) \/ NoContext(i)
               \/ SubmitRejected(i) \/ SubmitKnown(i) \/ SubmitNew(i) \/ Leaves(i)
      <3>1. Leaves(i)
        BY Zenon, <2>8 DEF BuildWorkFails, Abandon, Exhaust, NoContext, SubmitRejected,
           SubmitKnown, SubmitNew
      <3>2. \A j \in Miners : j # i => nonce'[j] = nonce[j] /\ stride'[j] = stride[j]
        BY Zenon, <2>t, <3>1 DEF Leaves
      <3> QED
        BY Zenon, <2>6, <3>1, <3>2 DEF Leaves
    <2> QED
      BY Zenon, <1>6, <2>3, <2>4, <2>5, <2>7, <2>8 DEF MinerStep, Acquire
  <1>7. CASE Environment \/ UpdatedBlockTip
    BY Zenon, <1>2, <1>7, EnvironmentFrame DEF flagVars, minerVars
  <1>8. CASE UNCHANGED vars
    BY Zenon, <1>2, <1>8 DEF vars, flagVars, minerVars
  <1> QED
    BY Zenon, <1>5, <1>6, <1>7, <1>8 DEF Next, Calls

(* The invariant for one caller.                                           *)
MInv == TInv /\ IInv /\ StatusInv /\ NonceInv

(* It holds at first, and every step of one caller and of any number of    *)
(* threads keeps it.                                                       *)
LEMMA MInvInductive ==
  ASSUME OneCaller
  PROVE  (Init => MInv) /\ (MInv /\ [Next]_vars => MInv')
  <1>1. ASSUME Init PROVE MInv
    <2>1. TInv
      BY Zenon, <1>1, InitTInv
    <2>2. UnitInv /\ SessionInv /\ StatusInv /\ NonceInv
      BY Zenon, <1>1 DEF Init, UnitInv, SessionInv, StatusInv, NonceInv, Building
    <2> QED
      BY Zenon, <1>1, <2>1, <2>2 DEF Init, MInv, IInv, TInv, ThreadInv, TypeOK,
         NoThreadIsOrphaned
  <1>2. ASSUME MInv, [Next]_vars PROVE MInv'
    <2> TInv /\ IInv /\ StatusInv /\ NonceInv
      BY Zenon, <1>2 DEF MInv
    <2>1. TInv'
      BY Zenon, <1>2, NextTInv
    <2>2. (TypeOK /\ NoThreadIsOrphaned)'
      BY Zenon, <1>2, <2>1, NextNoThreadIsOrphaned DEF TInv, ThreadInv, TypeOK, IInv
    <2>3. UnitInv' /\ SessionInv' /\ StatusInv' /\ NonceInv'
      BY Zenon, <1>2, <2>2, NextUnitInv, NextSessionInv, NextStatusInv, NextNonceInv
    <2> QED
      BY Zenon, <2>1, <2>2, <2>3 DEF MInv, IInv
  <1> QED
    BY Zenon, <1>1, <1>2

-----------------------------------------------------------------------------
(* However calls of startmining and stopmining overlap, whenever the node  *)
(* shuts down and whatever invalidateblock does to the chain: the types    *)
(* hold, and a nonce leaves the 32-bit range by less than a stride.        *)
THEOREM MinerTypesHold == Spec => []TypeOK
  <1>1. TInv => TypeOK
    BY Zenon DEF TInv, ThreadInv, TypeOK
  <1> QED
    BY <1>1, InitTInv, NextTInv, PTL DEF Spec

(* With one caller, whenever the node shuts down: every running thread has *)
(* a handle that StopMining joins, in the middle of StartMining's loop too.*)
THEOREM MinerThreads ==
  ASSUME OneCaller
  PROVE  Spec => []NoThreadIsOrphaned
  <1>1. MInv => NoThreadIsOrphaned
    BY Zenon DEF MInv, IInv
  <1> QED
    BY <1>1, MInvInductive, PTL DEF Spec

(* With one caller and without invalidateblock: a thread never hashes a    *)
(* unit whose parent is not the tip unless it is about to be told.         *)
THEOREM MinerNoticesTips ==
  ASSUME ~InvalidateMayHappen, OneCaller
  PROVE  Spec => []StaleWorkIsNoticed
  <1>1. MInv => StaleWorkIsNoticed
    BY Zenon DEF MInv, IInv, UnitInv, Noticed, StaleWorkIsNoticed, Building
  <1> QED
    BY <1>1, MInvInductive, PTL DEF Spec

(* With one caller: no two threads ever try the same nonce on the same     *)
(* header, for any number of threads and any nonce range, across sessions  *)
(* of different thread counts.                                             *)
THEOREM MinerSharesNonces ==
  ASSUME OneCaller
  PROVE  Spec => []DisjointNonces
  <1>1. ASSUME MInv PROVE DisjointNonces
    <2> SUFFICES ASSUME NEW i \in Miners, NEW j \in Miners,
                        mpc[i] \in {"hash", "submit"}, mpc[j] \in {"hash", "submit"},
                        nonce[i] = nonce[j]
                 PROVE  i = j
      BY Zenon DEF DisjointNonces
    <2>1. /\ Index(i) \in Nat /\ Index(j) \in Nat
          /\ Index(i) < numThreads /\ Index(j) < numThreads /\ numThreads \in Nat
      BY Zenon, <1>1, RunningIsCounted DEF MInv
    <2>2. PICK p \in 0 .. MaxNonce + 1 : nonce[i] = Index(i) + p * numThreads
      BY Zenon, <1>1 DEF MInv, NonceInv
    <2>3. PICK q \in 0 .. MaxNonce + 1 : nonce[j] = Index(j) + q * numThreads
      BY Zenon, <1>1 DEF MInv, NonceInv
    <2>4. p \in Nat /\ q \in Nat
      BY MiningAssumption
    <2>5. Index(i) + p * numThreads = Index(j) + q * numThreads
      BY Zenon, <2>2, <2>3
    <2>6. Index(i) = Index(j)
      BY Zenon, <2>1, <2>4, <2>5, ResiduesDiffer
    <2> QED
      BY <2>6 DEF OneCaller, Miners, Index
  <1> QED
    BY <1>1, MInvInductive, PTL DEF Spec

(* With one caller: the RandomX context is there while a thread runs.      *)
THEOREM MinerKeepsContext ==
  ASSUME OneCaller
  PROVE  Spec => []ContextOutlivesThreads
  <1>1. MInv => ContextOutlivesThreads
    BY Zenon DEF MInv, IInv, SessionInv, NoThreadIsOrphaned, ContextOutlivesThreads
  <1> QED
    BY <1>1, MInvInductive, PTL DEF Spec

(* With one caller: between calls of a running node, getminingstatus tells *)
(* the truth.                                                              *)
THEOREM MinerStatus ==
  ASSUME OneCaller
  PROVE  Spec => []StatusIsTrue
  <1>1. ASSUME MInv PROVE StatusIsTrue
    <2> IInv /\ StatusInv
      BY Zenon, <1>1 DEF MInv
    <2> SUFFICES ASSUME node = "up", \A c \in Callers : cpc[c] = "idle"
                 PROVE  active <=> \E i \in Miners : mpc[i] # "exited"
      BY Zenon DEF StatusIsTrue
    <2>1. PICK c \in Callers : cpc[c] = "idle"
      BY Zenon DEF OneCaller
    <2>2. CASE threads = {}
      <3>1. ~active
        BY Zenon, <2>1, <2>2 DEF StatusInv
      <3>2. \A i \in Miners : mpc[i] = "exited"
        BY Zenon, <2>2 DEF IInv, NoThreadIsOrphaned
      <3> QED
        BY Zenon, <3>1, <3>2
    <2>3. CASE threads # {}
      <3>1. active /\ \A i \in threads : mpc[i] # "exited"
        BY Zenon, <2>1, <2>3 DEF StatusInv
      <3>2. \E i \in Miners : mpc[i] # "exited"
        BY Zenon, <2>3, <3>1 DEF IInv, TypeOK, SessionTypes
      <3> QED
        BY Zenon, <3>1, <3>2
    <2> QED
      BY Zenon, <2>2, <2>3
  <1> QED
    BY <1>1, MInvInductive, PTL DEF Spec
=============================================================================
