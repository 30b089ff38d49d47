-------------------------- MODULE MiningController --------------------------
(***************************************************************************)
(* The in-process miner (src/node/mining_controller.cpp) with what drives  *)
(* it: the startmining and stopmining RPCs (src/rpc/mining.cpp), the       *)
(* active chain (ProcessNewBlock, ActivateBestChain and InvalidateBlock in *)
(* src/validation.cpp), the UpdatedBlockTip callbacks, which run later on  *)
(* the scheduler thread (src/validationinterface.cpp), and Shutdown        *)
(* (src/init.cpp).                                                         *)
(*                                                                         *)
(* A block is its position in the sequence of all blocks accepted so far;  *)
(* 0 is the genesis block.  A header is a parent and a time: two units     *)
(* built on one parent at one time are the same header.  Whether a nonce   *)
(* meets the target is given by the set Winning.                           *)
(***************************************************************************)
EXTENDS Naturals, Sequences

CONSTANTS
  Callers,           \* RPC threads that call startmining and stopmining
  MaxThreads,        \* hardware_concurrency
  MaxNonce,          \* largest 32-bit nonce
  Winning,           \* nonces that meet the target
  Unminable,         \* blocks whose successor's nBits DeriveTarget refuses
  MaxAge,            \* WORK_MAX_AGE_US
  MaxTime, MaxBlocks, MaxFound,      \* bounds of a behaviour
  None,
  InvalidateMayHappen, ShutdownMayHappen, RejectMayHappen

(* A mining thread: the caller that starts it, and its thread_index.  One  *)
(* name serves the threads of later calls once its thread has ended.       *)
Miners == Callers \X (0 .. MaxThreads - 1)
Index(i) == i[2]

ASSUME MiningAssumption ==
  /\ MaxThreads \in Nat \ {0}
  /\ MaxNonce \in Nat /\ MaxAge \in Nat
  /\ MaxTime \in Nat /\ MaxBlocks \in Nat /\ MaxFound \in Nat
  /\ None \notin [parent : Nat, time : Nat, generation : Nat]
  /\ InvalidateMayHappen \in BOOLEAN /\ ShutdownMayHappen \in BOOLEAN
  /\ RejectMayHappen \in BOOLEAN

VARIABLES
  blocks, invalid, tip,      \* block index, BLOCK_FAILED_VALID, ActiveChain().Tip()
  pending,                   \* UpdatedBlockTip events queued on the scheduler
  now, ibd,
  node,                      \* "up", "stopping", "freed" or "aborted"
  generation,                \* m_tip_generation
  work,                      \* m_work
  context,                   \* m_mining_context is not null
  listener,                  \* m_tip_listener is registered
  shouldStop, active,        \* m_should_stop, m_mining_active
  threads,                   \* m_mining_threads: the handles not joined yet
  numThreads,                \* m_num_threads
  found,                     \* m_blocks_found
  mpc, unit, nonce, stride,  \* the mining threads: step, work unit, nonce and stride
  cpc, spawned               \* the callers: step, and threads started so far

chainVars == <<blocks, invalid, tip>>
envVars == <<chainVars, pending, now, ibd, node>>
flagVars == <<shouldStop, active, threads, numThreads>>
minerVars == <<mpc, unit, nonce, stride>>
callVars == <<cpc, spawned>>
vars == <<envVars, generation, work, context, listener, flagVars, found, minerVars, callVars>>

(* Nothing happens after the process has ended.                            *)
Moves(i, p) == node # "aborted" /\ mpc' = [mpc EXCEPT ![i] = p]
(* Back from MineBlock: its locals are gone.                               *)
Leaves(i) ==
  /\ Moves(i, "loop")
  /\ unit' = [unit EXCEPT ![i] = None] /\ nonce' = [nonce EXCEPT ![i] = 0]
  /\ stride' = [stride EXCEPT ![i] = 0]

Goes(c, p) ==
  /\ node # "aborted"
  /\ cpc' = [cpc EXCEPT ![c] = p] /\ spawned' = [spawned EXCEPT ![c] = 0]

(* m_mining_threads is a vector without a lock.  Another call that is at   *)
(* one of its operations at the same time makes the outcome undefined:     *)
(* here the process may end, a handle that is being stored may be          *)
(* overwritten, and empty() may return either value.                       *)
VectorRace(c) ==
  \E d \in Callers \ {c} :
    cpc[d] \in {"start", "spawn", "emplace", "join", "rejoin", "clear", "reclear"}
MayCrash(c) == node' \in {node} \cup (IF VectorRace(c) THEN {"aborted"} ELSE {})

-----------------------------------------------------------------------------
(* The chain.                                                              *)

(* A block from a peer that becomes the tip.  Its header is not one of     *)
(* ours, which a nonce beyond the range stands for.                        *)
ExternalBlock ==
  /\ node \in {"up", "stopping"} /\ Len(blocks) < MaxBlocks
  /\ blocks' = Append(blocks, [parent |-> tip, time |-> now, nonce |-> MaxNonce + 1])
  /\ tip' = Len(blocks) + 1
  /\ pending' = pending + 1
  /\ UNCHANGED <<invalid, now, ibd, node, generation, work, context, listener,
                 flagVars, found, minerVars, callVars>>

(* invalidateblock on the tip: InvalidateBlock disconnects it and does not *)
(* send UpdatedBlockTip; the ActivateBestChain that follows sends it only  *)
(* when there is another block to connect.                                 *)
InvalidateBlock ==
  /\ InvalidateMayHappen /\ node = "up" /\ tip # 0
  /\ invalid' = invalid \cup {tip}
  /\ LET parent == blocks[tip].parent
         others == {b \in DOMAIN blocks \ invalid' : blocks[b].parent = parent}
     IN \/ others = {} /\ tip' = parent /\ pending' = pending
        \/ tip' \in others /\ pending' = pending + 1
  /\ UNCHANGED <<blocks, now, ibd, node, generation, work, context, listener,
                 flagVars, found, minerVars, callVars>>

(* MiningTipListener::UpdatedBlockTip on the scheduler thread; an event    *)
(* that runs when no listener is registered is lost.                       *)
UpdatedBlockTip ==
  /\ pending > 0 /\ node \in {"up", "stopping"}
  /\ pending' = pending - 1
  /\ generation' = IF listener THEN generation + 1 ELSE generation
  /\ UNCHANGED <<chainVars, now, ibd, node, work, context, listener, flagVars,
                 found, minerVars, callVars>>

Tick ==
  /\ node # "aborted" /\ now < MaxTime /\ now' = now + 1
  /\ UNCHANGED <<chainVars, pending, ibd, node, generation, work, context,
                 listener, flagVars, found, minerVars, callVars>>

(* IsInitialBlockDownload latches to false.                                *)
LeaveIBD ==
  /\ node # "aborted" /\ ibd /\ ibd' = FALSE
  /\ UNCHANGED <<chainVars, pending, now, node, generation, work, context,
                 listener, flagVars, found, minerVars, callVars>>

(* The shutdown signal, which is also ChainstateManager::m_interrupt.      *)
RequestShutdown ==
  /\ ShutdownMayHappen /\ node = "up" /\ node' = "stopping"
  /\ UNCHANGED <<chainVars, pending, now, ibd, generation, work, context,
                 listener, flagVars, found, minerVars, callVars>>

(* Shutdown waits for the RPC threads and the queued callbacks, and resets *)
(* node.chainman; it does not stop the miner.                              *)
Shutdown ==
  /\ node = "stopping" /\ node' = "freed"
  /\ \A c \in Callers : cpc[c] = "idle"
  /\ pending = 0 /\ listener' = FALSE
  /\ UNCHANGED <<chainVars, pending, now, ibd, generation, work, context,
                 flagVars, found, minerVars, callVars>>

-----------------------------------------------------------------------------
(* startmining and stopmining.                                             *)

(* startmining refuses in IBD (but for the genesis tip) and when mining is *)
(* active.                                                                 *)
CallStartMining(c) ==
  /\ node \in {"up", "stopping"} /\ cpc[c] = "idle"
  /\ ~(ibd /\ tip # 0)
  /\ ~active
  /\ Goes(c, "start")
  /\ UNCHANGED <<envVars, generation, work, context, listener, flagVars, found,
                 minerVars>>

(* StartMining first stops threads that are still there.                   *)
StartMining(c) ==
  /\ cpc[c] = "start"
  /\ \/ (threads = {} \/ VectorRace(c)) /\ Goes(c, "create") /\ UNCHANGED shouldStop
     \/ (threads # {} \/ VectorRace(c)) /\ Goes(c, "rejoin") /\ shouldStop' = TRUE
  /\ UNCHANGED <<envVars, generation, work, context, listener, active, threads,
                 numThreads, found, minerVars>>

(* Mutant: the work unit of the last session is kept.                      *)
CreateContext_KeepsWork(c) ==
  /\ cpc[c] = "create" /\ Goes(c, "flags")
  /\ context' = TRUE /\ listener' = TRUE /\ work' = work
  /\ numThreads' \in 1 .. MaxThreads
  /\ active' = FALSE
  /\ UNCHANGED <<envVars, generation, shouldStop, threads, found, minerVars>>

(* The thread count is clamped, the context created and tried; m_work is   *)
(* dropped and the tip listener registered.                                *)
CreateContext(c) ==
  /\ cpc[c] = "create" /\ Goes(c, "flags")
  /\ context' = TRUE /\ listener' = TRUE /\ work' = None
  /\ numThreads' \in 1 .. MaxThreads
  /\ active' = FALSE
  /\ UNCHANGED <<envVars, generation, shouldStop, threads, found, minerVars>>

(* The context cannot be created, or its hash is not the consensus hash.   *)
CreateFails(c) ==
  /\ cpc[c] = "create" /\ Goes(c, "idle")
  /\ context' = FALSE
  /\ numThreads' \in 1 .. MaxThreads
  /\ active' = FALSE
  /\ UNCHANGED <<envVars, generation, work, listener, shouldStop, threads, found,
                 minerVars>>

SetFlags(c) ==
  /\ cpc[c] = "flags" /\ Goes(c, "spawn")
  /\ shouldStop' = FALSE /\ active' = TRUE
  /\ UNCHANGED <<envVars, generation, work, context, listener, threads,
                 numThreads, found, minerVars>>

(* m_mining_threads.clear() ends the process when a handle was not joined. *)
ClearThreads(c) ==
  /\ cpc[c] = "spawn" /\ Goes(c, "emplace")
  /\ \/ threads # {} /\ node' = "aborted"
     \/ threads = {} /\ MayCrash(c)
  /\ UNCHANGED <<chainVars, pending, now, ibd, generation, work, context,
                 listener, flagVars, found, minerVars>>

(* Mutant: the handle is dropped, as if the thread were detached.          *)
EmplaceBack_Detached(c) ==
  /\ cpc[c] = "emplace" /\ spawned[c] < numThreads
  /\ node # "aborted" /\ MayCrash(c)
  /\ mpc[<<c, spawned[c]>>] = "exited"
  /\ mpc' = [mpc EXCEPT ![<<c, spawned[c]>>] = "loop"]
  /\ threads' = threads
  /\ spawned' = [spawned EXCEPT ![c] = @ + 1]
  /\ UNCHANGED <<chainVars, pending, now, ibd, generation, work, context, listener,
                 shouldStop, active, numThreads, found, unit, nonce, stride, cpc>>

(* One turn of the loop that starts the threads.  The thread that last had *)
(* this name has ended: a bound of the model, which only a thread whose    *)
(* handle was lost can reach.                                              *)
EmplaceBack(c) ==
  /\ cpc[c] = "emplace" /\ spawned[c] < numThreads
  /\ node # "aborted" /\ MayCrash(c)
  /\ mpc[<<c, spawned[c]>>] = "exited"
  /\ mpc' = [mpc EXCEPT ![<<c, spawned[c]>>] = "loop"]
  /\ \/ threads' = threads \cup {<<c, spawned[c]>>}
     \/ VectorRace(c) /\ threads' = threads
  /\ spawned' = [spawned EXCEPT ![c] = @ + 1]
  /\ UNCHANGED <<chainVars, pending, now, ibd, generation, work, context, listener,
                 shouldStop, active, numThreads, found, unit, nonce, stride, cpc>>

(* m_num_threads, read again on every turn, is reached.                    *)
Started(c) ==
  /\ cpc[c] = "emplace" /\ spawned[c] >= numThreads /\ Goes(c, "idle")
  /\ UNCHANGED <<envVars, generation, work, context, listener, flagVars, found,
                 minerVars>>

(* Mutant: the context is destroyed before the threads are joined.         *)
StopMining_DestroysFirst(c) ==
  /\ cpc[c] = "idle" /\ Goes(c, "join")
  /\ shouldStop' = TRUE /\ context' = FALSE
  /\ UNCHANGED <<envVars, generation, work, listener, active, threads,
                 numThreads, found, minerVars>>

(* stopmining, and ~MiningController once Shutdown is done.                *)
StopMining(c) ==
  /\ cpc[c] = "idle" /\ Goes(c, "join")
  /\ shouldStop' = TRUE
  /\ UNCHANGED <<envVars, generation, work, context, listener, active, threads,
                 numThreads, found, minerVars>>

(* Mutant: the threads are not waited for.                                 *)
Join_NoWait(c) ==
  /\ cpc[c] \in {"join", "rejoin"}
  /\ Goes(c, IF cpc[c] = "join" THEN "clear" ELSE "reclear")
  /\ threads' = {}
  /\ UNCHANGED <<envVars, generation, work, context, listener, shouldStop,
                 active, numThreads, found, minerVars>>

(* StopMining joins the threads it finds in the vector.                    *)
Join(c) ==
  /\ cpc[c] \in {"join", "rejoin"}
  /\ \A i \in threads : mpc[i] = "exited"
  /\ Goes(c, IF cpc[c] = "join" THEN "clear" ELSE "reclear")
  /\ threads' = {}
  /\ MayCrash(c)
  /\ UNCHANGED <<chainVars, pending, now, ibd, generation, work, context,
                 listener, shouldStop, active, numThreads, found, minerVars>>

(* It clears the handles, unregisters the listener and destroys the        *)
(* context.                                                                *)
TearDown(c) ==
  /\ cpc[c] \in {"clear", "reclear"}
  /\ Goes(c, IF cpc[c] = "clear" THEN "reset" ELSE "rereset")
  /\ \/ threads # {} /\ node' = "aborted" /\ UNCHANGED <<listener, context>>
     \/ threads = {} /\ listener' = FALSE /\ context' = FALSE /\ MayCrash(c)
  /\ UNCHANGED <<chainVars, pending, now, ibd, generation, work, flagVars, found,
                 minerVars>>

ResetFlags(c) ==
  /\ cpc[c] \in {"reset", "rereset"}
  /\ Goes(c, IF cpc[c] = "reset" THEN "idle" ELSE "create")
  /\ active' = FALSE /\ shouldStop' = FALSE /\ numThreads' = 0
  /\ UNCHANGED <<envVars, generation, work, context, listener, threads, found,
                 minerVars>>

-----------------------------------------------------------------------------
(* The mining threads.                                                     *)

(* Mutant: the loop of MiningThread does not look at m_should_stop.        *)
ThreadExits_NotOnStop(i) ==
  /\ mpc[i] = "loop" /\ node # "up"
  /\ Moves(i, "exited") /\ active' = FALSE
  /\ UNCHANGED <<envVars, generation, work, context, listener, shouldStop,
                 threads, numThreads, found, unit, nonce, stride, callVars>>

(* Mutant: it does not look at the interrupt flag.                         *)
ThreadExits_NotOnShutdown(i) ==
  /\ mpc[i] = "loop" /\ shouldStop
  /\ Moves(i, "exited") /\ active' = FALSE
  /\ UNCHANGED <<envVars, generation, work, context, listener, shouldStop,
                 threads, numThreads, found, unit, nonce, stride, callVars>>

(* MiningThread leaves its loop when stopped or when the node shuts down.  *)
ThreadExits(i) ==
  /\ mpc[i] = "loop" /\ (shouldStop \/ node # "up")
  /\ Moves(i, "exited") /\ active' = FALSE
  /\ UNCHANGED <<envVars, generation, work, context, listener, shouldStop,
                 threads, numThreads, found, unit, nonce, stride, callVars>>

(* It enters MineBlock unless the node is in IBD above the genesis block.  *)
EnterMineBlock(i) ==
  /\ mpc[i] = "loop" /\ ~shouldStop /\ node = "up"
  /\ ~(ibd /\ tip # 0)
  /\ Moves(i, "acquire")
  /\ UNCHANGED <<envVars, generation, work, context, listener, flagVars, found,
                 unit, nonce, stride, callVars>>

(* m_work_mutex is held while a unit is built.                             *)
WorkMutexFree == \A i \in Miners : mpc[i] \notin {"build", "check"}

WorkIsCurrent ==
  work # None /\ work.generation = generation /\ now - work.time < MaxAge

(* Mutant: every thread tries every nonce from its own on.                 *)
Begin_StrideOne(i, w) ==
  /\ w.parent \notin Unminable /\ Moves(i, "hash")
  /\ unit' = [unit EXCEPT ![i] = w]
  /\ nonce' = [nonce EXCEPT ![i] = Index(i)]
  /\ stride' = [stride EXCEPT ![i] = 1]

(* MineBlock begins on unit w: thread i tries i, i + N, i + 2N, ...        *)
Begin(i, w) ==
  /\ w.parent \notin Unminable /\ Moves(i, "hash")
  /\ unit' = [unit EXCEPT ![i] = w]
  /\ nonce' = [nonce EXCEPT ![i] = Index(i)]
  /\ stride' = [stride EXCEPT ![i] = IF numThreads > 1 THEN numThreads ELSE 1]

(* Or it returns, because DeriveTarget refuses the nBits of the unit.      *)
NoTarget(i, w) == w.parent \in Unminable /\ Leaves(i)

(* AcquireWork takes the shared unit when it is current ...                *)
TakeWork(i) ==
  /\ mpc[i] = "acquire" /\ WorkMutexFree /\ WorkIsCurrent
  /\ Begin(i, work) \/ NoTarget(i, work)
  /\ UNCHANGED <<envVars, generation, work, context, listener, flagVars, found, callVars>>

(* ... and otherwise builds one for the generation it has just read.       *)
ReadGeneration(i) ==
  /\ mpc[i] = "acquire" /\ WorkMutexFree /\ ~WorkIsCurrent
  /\ Moves(i, "build")
  /\ unit' = [unit EXCEPT ![i] = [parent |-> 0, time |-> 0, generation |-> generation]]
  /\ UNCHANGED <<envVars, generation, work, context, listener, flagVars, found,
                 nonce, stride, callVars>>

(* BuildWork: CreateNewBlock assembles a template on the tip.              *)
CreateNewBlock(i) ==
  /\ mpc[i] = "build" /\ Moves(i, "check")
  /\ unit' = [unit EXCEPT ![i].parent = tip]
  /\ UNCHANGED <<envVars, generation, work, context, listener, flagVars, found,
                 nonce, stride, callVars>>

(* BuildWork: the template is dropped when the tip moved in the meantime.  *)
BuildWorkFails(i) ==
  /\ mpc[i] = "check" /\ unit[i].parent # tip
  /\ Leaves(i)
  /\ work' = None
  /\ UNCHANGED <<envVars, generation, context, listener, flagVars, found, callVars>>

(* BuildWork: the unit becomes the shared one.                             *)
BuildWork(i) ==
  /\ mpc[i] = "check" /\ unit[i].parent = tip
  /\ work' = [unit[i] EXCEPT !.time = now]
  /\ Begin(i, work') \/ NoTarget(i, work')
  /\ UNCHANGED <<envVars, generation, context, listener, flagVars, found, callVars>>

(* One turn of the loop of MineBlock: the tests in the code's order.       *)
Abandons(i) ==
  \/ shouldStop \/ node # "up"
  \/ generation # unit[i].generation
  \/ now - unit[i].time > MaxAge

Abandon(i) ==
  /\ mpc[i] = "hash" /\ Abandons(i)
  /\ Leaves(i)
  /\ UNCHANGED <<envVars, generation, work, context, listener, flagVars, found, callVars>>

(* Mutant: the end of the nonce range is tested with equality.             *)
Exhausted_Equal(i) == nonce[i] = MaxNonce + 1

Exhausted(i) == nonce[i] > MaxNonce

(* A thread that has used up its nonces drops the shared unit.             *)
Exhaust(i) ==
  /\ mpc[i] = "hash" /\ ~Abandons(i) /\ Exhausted(i) /\ WorkMutexFree
  /\ Leaves(i)
  /\ work' = None
  /\ UNCHANGED <<envVars, generation, context, listener, flagVars, found, callVars>>

NoContext(i) ==
  /\ mpc[i] = "hash" /\ ~Abandons(i) /\ ~Exhausted(i) /\ ~context
  /\ Leaves(i)
  /\ UNCHANGED <<envVars, generation, work, context, listener, flagVars, found, callVars>>

(* RandomXMiningHash and CheckProofOfWork.                                 *)
Hash(i) ==
  /\ mpc[i] = "hash" /\ ~Abandons(i) /\ ~Exhausted(i) /\ context
  /\ \/ nonce[i] \in Winning /\ Moves(i, "submit") /\ UNCHANGED nonce
     \/ /\ nonce[i] \notin Winning
        /\ nonce' = [nonce EXCEPT ![i] = @ + stride[i]]
        /\ Moves(i, "hash")
  /\ UNCHANGED <<envVars, generation, work, context, listener, flagVars, found,
                 unit, stride, callVars>>

Count == found' = IF found < MaxFound THEN found + 1 ELSE found

Candidate(i) ==
  [parent |-> unit[i].parent, time |-> unit[i].time, nonce |-> nonce[i]]

(* ProcessNewBlock refuses the block: it is known to be invalid, its       *)
(* parent is, or it fails a check (no quantum signature could be attached).*)
(* Blocks beyond MaxBlocks are refused too.                                *)
SubmitRejected(i) ==
  /\ mpc[i] = "submit"
  /\ \/ RejectMayHappen \/ Len(blocks) = MaxBlocks
     \/ unit[i].parent \in invalid
     \/ \E b \in invalid : blocks[b] = Candidate(i)
  /\ Leaves(i)
  /\ UNCHANGED <<envVars, generation, work, context, listener, flagVars, found, callVars>>

(* It already has the block: MineBlock returns true all the same.          *)
SubmitKnown(i) ==
  /\ mpc[i] = "submit"
  /\ \E b \in DOMAIN blocks \ invalid : blocks[b] = Candidate(i)
  /\ unit[i].parent \notin invalid
  /\ Leaves(i) /\ Count
  /\ UNCHANGED <<envVars, generation, work, context, listener, flagVars, callVars>>

(* The block is new.  ActivateBestChain connects it when it extends the    *)
(* tip, and queues UpdatedBlockTip in the same critical section.           *)
SubmitNew(i) ==
  /\ mpc[i] = "submit" /\ Len(blocks) < MaxBlocks
  /\ unit[i].parent \notin invalid
  /\ \A b \in DOMAIN blocks : blocks[b] # Candidate(i)
  /\ blocks' = Append(blocks, Candidate(i))
  /\ \/ unit[i].parent = tip /\ tip' = Len(blocks) + 1 /\ pending' = pending + 1
     \/ unit[i].parent # tip /\ UNCHANGED <<tip, pending>>
  /\ Leaves(i) /\ Count
  /\ UNCHANGED <<invalid, now, ibd, node, generation, work, context, listener,
                 flagVars, callVars>>

-----------------------------------------------------------------------------
Init ==
  /\ blocks \in {<<>>, <<[parent |-> 0, time |-> 0, nonce |-> MaxNonce + 1]>>}
  /\ invalid = {} /\ tip = Len(blocks)
  /\ pending = 0 /\ now = 0 /\ ibd \in BOOLEAN /\ node = "up"
  /\ generation = 0 /\ work = None /\ context = FALSE /\ listener = FALSE
  /\ shouldStop = FALSE /\ active = FALSE /\ threads = {} /\ numThreads = 0
  /\ found = 0
  /\ mpc = [i \in Miners |-> "exited"]
  /\ unit = [i \in Miners |-> None]
  /\ nonce = [i \in Miners |-> 0] /\ stride = [i \in Miners |-> 0]
  /\ cpc = [c \in Callers |-> "idle"] /\ spawned = [c \in Callers |-> 0]

Environment ==
  ExternalBlock \/ InvalidateBlock \/ Tick \/ LeaveIBD \/ RequestShutdown \/ Shutdown

CallerStep(c) ==
  \/ StartMining(c) \/ CreateContext(c) \/ CreateFails(c) \/ SetFlags(c)
  \/ ClearThreads(c) \/ EmplaceBack(c) \/ Started(c)
  \/ Join(c) \/ TearDown(c) \/ ResetFlags(c)

Acquire(i) ==
  TakeWork(i) \/ ReadGeneration(i) \/ CreateNewBlock(i) \/ BuildWorkFails(i) \/ BuildWork(i)

MinerStep(i) ==
  \/ ThreadExits(i) \/ EnterMineBlock(i) \/ Acquire(i)
  \/ Abandon(i) \/ Exhaust(i) \/ NoContext(i) \/ Hash(i)
  \/ SubmitRejected(i) \/ SubmitKnown(i) \/ SubmitNew(i)

Next ==
  \/ Environment \/ UpdatedBlockTip
  \/ \E c \in Callers : CallStartMining(c) \/ StopMining(c) \/ CallerStep(c)
  \/ \E i \in Miners : MinerStep(i)

Spec == Init /\ [][Next]_vars

(* Threads run; no call has to return.                                     *)
ThreadsRun == Spec /\ \A i \in Miners : WF_vars(MinerStep(i))

(* Threads run, and a call that has begun goes on; nobody has to start or  *)
(* stop the miner.  The join of a thread that has ended returns, whatever  *)
(* happens next, hence SF.                                                 *)
FairSpec == ThreadsRun /\ \A c \in Callers : SF_vars(CallerStep(c))

-----------------------------------------------------------------------------
Units == [parent : Nat, time : Nat, generation : Nat]

InMineBlock == {"acquire", "build", "check", "hash", "submit"}

ChainTypes ==
  /\ blocks \in Seq([parent : Nat, time : Nat, nonce : Nat])
  /\ tip \in 0 .. Len(blocks) /\ invalid \subseteq DOMAIN blocks
  /\ pending \in Nat /\ now \in Nat /\ ibd \in BOOLEAN
  /\ node \in {"up", "stopping", "freed", "aborted"}

SessionTypes ==
  /\ generation \in Nat /\ found \in Nat
  /\ work \in Units \cup {None}
  /\ context \in BOOLEAN /\ listener \in BOOLEAN
  /\ shouldStop \in BOOLEAN /\ active \in BOOLEAN
  /\ threads \subseteq Miners /\ numThreads \in 0 .. MaxThreads
  /\ cpc \in [Callers -> {"idle", "start", "create", "flags", "spawn", "emplace",
                          "join", "rejoin", "clear", "reclear", "reset", "rereset"}]
  /\ spawned \in [Callers -> 0 .. MaxThreads]

MinerTypes ==
  /\ mpc \in [Miners -> InMineBlock \cup {"loop", "exited"}]
  /\ unit \in [Miners -> Units \cup {None}]
  /\ nonce \in [Miners -> 0 .. MaxNonce + MaxThreads]
  /\ stride \in [Miners -> 0 .. MaxThreads]

(* The state has the types of the code's variables.  A nonce leaves the    *)
(* 32-bit range by less than a stride before MineBlock notices.            *)
TypeOK == ChainTypes /\ SessionTypes /\ MinerTypes

(* "Abandon the work unit the moment the tip moves (generation is bumped   *)
(* by the validation callback)", mining_controller.cpp:461: a thread that  *)
(* hashes a unit whose parent is not the tip sees another generation, or   *)
(* the callback that bumps it is on its way.  The generation is read       *)
(* before the tip, the shared unit is dropped between sessions, and every  *)
(* change of the tip queues a callback; without one of the three a thread  *)
(* goes on hashing a dead template for up to a minute.                     *)
StaleWorkIsNoticed ==
  \A i \in Miners :
    mpc[i] = "hash" /\ unit[i].generation = generation /\ unit[i].parent # tip
      => pending > 0

(* "No two threads share a header+nonce", mining_controller.cpp:450.       *)
DisjointNonces ==
  \A i, j \in Miners :
    /\ i # j /\ {mpc[i], mpc[j]} \subseteq {"hash", "submit"}
    /\ unit[i].parent = unit[j].parent /\ unit[i].time = unit[j].time
    => nonce[i] # nonce[j]

(* The RandomX context outlives the threads that hash with it: StopMining  *)
(* destroys it only after the last join.                                   *)
ContextOutlivesThreads ==
  \A i \in Miners : mpc[i] # "exited" => context

(* Between the turns of the loop that starts the threads as well as after  *)
(* it, m_mining_threads holds a handle of every mining thread that runs,   *)
(* so that StopMining ("Wait for worker threads to finish if they exist",  *)
(* mining_controller.cpp:269) waits for all of them before it destroys the *)
(* context.  It holds while calls do not overlap: two calls of startmining *)
(* that both passed the test of IsMining fill the vector at the same time, *)
(* and may overwrite each other's handles.                                 *)
NoThreadIsOrphaned ==
  \A i \in Miners : mpc[i] # "exited" => i \in threads

(* getminingstatus reports "Whether solo mining is running"                *)
(* (rpc/mining.cpp:801): between calls, m_mining_active is set exactly     *)
(* while mining threads run.                                               *)
StatusIsTrue ==
  node = "up" /\ (\A c \in Callers : cpc[c] = "idle")
    => (active <=> \E i \in Miners : mpc[i] # "exited")

(* stopmining returns, with "true if mining was stopped or was not         *)
(* running" (rpc/mining.cpp:776): the threads see m_should_stop wherever   *)
(* they are.                                                               *)
StopReturns ==
  \A c \in Callers :
    cpc[c] \in {"join", "rejoin"} ~> cpc[c] = "idle" \/ node = "aborted"

(* Once a shutdown is requested a mining thread exits by itself, however   *)
(* calls of startmining and stopmining overlap: one whose handle was lost, *)
(* which no stopmining waits for, too.                                     *)
ShutdownStopsMining ==
  \A i \in Miners : node = "stopping" ~> mpc[i] = "exited" \/ node = "aborted"

-----------------------------------------------------------------------------
(* The inductive invariant, for one caller.                                *)

(* Every parent, of a block or of work on one, is a block of the index.    *)
ParentsKnown ==
  /\ \A b \in DOMAIN blocks : blocks[b].parent <= Len(blocks)
  /\ \A i \in Miners : unit[i] # None => unit[i].parent <= Len(blocks)
  /\ work # None => work.parent <= Len(blocks)

Building == {"build", "check", "hash", "submit"}

(* A unit is not newer than the generation, and if it is of the current    *)
(* one its parent is the tip or a callback is queued, but for              *)
(* invalidateblock, which moves the tip and queues none.                   *)
Noticed(w) ==
  /\ w.generation <= generation
  /\ ~InvalidateMayHappen /\ w.generation = generation /\ w.parent # tip => pending > 0

UnitInv ==
  \A i \in Miners : mpc[i] \in Building =>
    /\ unit[i] \in Units /\ unit[i].generation <= generation
    /\ mpc[i] \in {"hash", "submit"} => Noticed(unit[i])

(* What the caller has set up when threads run, and what it has not when   *)
(* they do not.                                                            *)
SessionInv ==
  /\ threads # {} => context /\ (listener \/ node = "freed")
  /\ threads # {} /\ work # None => Noticed(work)
  /\ \A c \in Callers :
       /\ cpc[c] \notin {"idle", "start", "emplace", "join", "rejoin"} => threads = {}
       /\ cpc[c] \in {"flags", "spawn"} => context /\ listener /\ work = None
       /\ cpc[c] = "emplace" =>
            context /\ listener /\ (work # None => Noticed(work))
       /\ node = "freed" => cpc[c] \in {"idle", "join", "clear", "reset"}

IInv == TypeOK /\ NoThreadIsOrphaned /\ UnitInv /\ SessionInv

(* Behind DisjointNonces: the threads of a session step through their      *)
(* residues modulo the thread count, which no call changes under them.     *)
NonceInv ==
  /\ \A i \in threads : Index(i) < numThreads
  /\ \A i \in Miners : mpc[i] \in {"hash", "submit"} =>
       /\ stride[i] = numThreads
       /\ \E q \in 0 .. MaxNonce + 1 : nonce[i] = Index(i) + q * numThreads

(* Behind StatusIsTrue: m_should_stop is set only while a call stops the   *)
(* miner, so in a running node threads do not exit between calls.          *)
StatusInv ==
  \A c \in Callers :
    /\ cpc[c] \in {"idle", "start", "create", "flags", "spawn", "emplace"} => ~shouldStop
    /\ cpc[c] = "idle" /\ threads = {} => ~active
    /\ cpc[c] \in {"idle", "emplace"} /\ threads # {} /\ node = "up" =>
         active /\ \A i \in threads : mpc[i] # "exited"
    /\ cpc[c] = "spawn" => active
    /\ cpc[c] = "emplace" =>
         IF spawned[c] = 0 THEN active /\ threads = {} ELSE threads # {}
    /\ cpc[c] \in {"flags", "spawn", "emplace"} => numThreads > 0
=============================================================================
