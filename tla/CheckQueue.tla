---------------------------- MODULE CheckQueue ------------------------------
(***************************************************************************)
(* The pool of threads that verifies the scripts of a block (checkqueue.h).*)
(*                                                                         *)
(* A master opens a round (CCheckQueueControl), adds checks, and joins the *)
(* workers until none is left.  A critical section under m_mutex is one    *)
(* step; waiting on a condition variable, the checks themselves and the    *)
(* notifications made outside the lock are steps of their own.  A check is *)
(* its number in the order of addition, and an error is the check that     *)
(* failed; the queue is the set of checks waiting, and a batch its latest  *)
(* ones.                                                                   *)
(***************************************************************************)
EXTENDS Integers, FiniteSets

CONSTANTS
  Workers, Masters,
  BatchSize,    \* nBatchSize
  MaxRounds,    \* bound on the rounds opened
  MaxChecks,    \* bound on the checks added
  MaxAdd,       \* bound on the checks of one Add
  Failing,      \* the sets of checks that may be the failing ones
  None

Threads == Workers \cup Masters
Checks == 1 .. MaxChecks

ASSUME QueueAssumption ==
  /\ IsFiniteSet(Workers) /\ IsFiniteSet(Masters) /\ Workers \cap Masters = {}
  /\ BatchSize \in Nat \ {0} /\ MaxRounds \in Nat /\ MaxChecks \in Nat /\ MaxAdd \in Nat
  /\ Failing \subseteq SUBSET Checks
  /\ None \notin Nat /\ None \notin Masters

VARIABLES
  queue, nIdle, nTotal, nTodo, mResult, stop,
  pc,
  nNow, local, doWork,   \* locals of Loop
  batch,                 \* the checks taken and not yet counted off nTodo
  control,               \* the holder of m_control_mutex
  added, first, rounds,  \* checks added, the first of this round, rounds opened
  bad,                   \* the checks that fail
  verdict                \* what the last Complete returned, for which checks

shared == <<queue, nIdle, nTotal, nTodo, mResult>>
locals == <<nNow, local, doWork, batch>>
rest == <<control, added, first, rounds, bad>>
vars == <<shared, stop, pc, locals, rest, verdict>>

-----------------------------------------------------------------------------
(* Waking threads up.                                                      *)
Waiting == {t \in Threads : pc[t] = "wait"}

(* A thread goes on at s, and the threads of W leave their wait.           *)
GoWaking(t, s, W) ==
  pc' = [u \in Threads |-> IF u = t THEN s ELSE IF u \in W THEN "woken" ELSE pc[u]]

(* The outcomes of notify_one for a set of waiting threads.                *)
One(W) == IF W = {} THEN {{}} ELSE {{w} : w \in W}

-----------------------------------------------------------------------------
(* Loop.  A thread at "top" is about to lock m_mutex, to begin or to clean *)
(* up after a batch; one that is "woken" locks it again inside wait.       *)
Starting(t) == pc[t] = "top" /\ nNow[t] = 0
CleaningUp(t) == pc[t] = "top" /\ nNow[t] # 0

(* The error of the batch becomes the result unless there is one; if there *)
(* is, std::swap is not called and the thread keeps its own.               *)
Swaps(t) == CleaningUp(t) /\ local[t] # None /\ mResult = None
Result(t) == IF Swaps(t) THEN local[t] ELSE mResult

Todo(t) == IF CleaningUp(t) THEN nTodo - nNow[t] ELSE nTodo
Total(t) == IF Starting(t) THEN nTotal + 1 ELSE nTotal

(* Mutant: a thread that wakes up still counts as idle.                    *)
Idle_StillCounted(t) == nIdle

Idle(t) == IF pc[t] = "woken" THEN nIdle - 1 ELSE nIdle

(* Mutant: the last worker does not tell the master.                       *)
Told_Nobody(t) == {{}}

(* Who is told that the last check is done.                                *)
Told(t) ==
  IF CleaningUp(t) /\ Todo(t) = 0 /\ t \notin Masters THEN One(Waiting \cap Masters) ELSE {{}}

(* What every critical section does on its way to s.                       *)
Section(t, s) ==
  /\ pc[t] \in {"top", "woken"}
  /\ nTodo' = Todo(t)
  /\ local' = [local EXCEPT ![t] = IF Swaps(t) THEN None ELSE @]
  /\ \E W \in Told(t) : GoWaking(t, s, W)
  /\ UNCHANGED <<stop, rest>>

(* Mutant: the master leaves as soon as the queue is empty.                *)
AllDone_QueueOnly(t) == t \in Masters

AllDone(t) == t \in Masters /\ Todo(t) = 0

(* Mutant: what has failed is kept for the next round.                     *)
Finish_ResultKept(t) ==
  /\ queue = {} /\ ~stop /\ AllDone(t)
  /\ Section(t, "done")
  /\ verdict' = [first |-> first, last |-> added, result |-> Result(t)]
  /\ mResult' = Result(t) /\ nTotal' = Total(t) - 1 /\ nIdle' = Idle(t)
  /\ batch' = [batch EXCEPT ![t] = {}]
  /\ UNCHANGED <<queue, nNow, doWork>>

(* The master returns the result, and resets it for the next round.        *)
Finish(t) ==
  /\ queue = {} /\ ~stop /\ AllDone(t)
  /\ Section(t, "done")
  /\ verdict' = [first |-> first, last |-> added, result |-> Result(t)]
  /\ mResult' = None /\ nTotal' = Total(t) - 1 /\ nIdle' = Idle(t)
  /\ batch' = [batch EXCEPT ![t] = {}]
  /\ UNCHANGED <<queue, nNow, doWork>>

Wait(t) ==
  /\ queue = {} /\ ~stop /\ ~AllDone(t)
  /\ Section(t, "wait")
  /\ mResult' = Result(t) /\ nTotal' = Total(t) /\ nIdle' = Idle(t) + 1
  /\ batch' = [batch EXCEPT ![t] = {}]
  /\ UNCHANGED <<queue, nNow, doWork, verdict>>

(* m_request_stop is set.                                                  *)
Leave(t) ==
  /\ stop
  /\ Section(t, "gone")
  /\ mResult' = Result(t) /\ nTotal' = Total(t) /\ nIdle' = Idle(t)
  /\ batch' = [batch EXCEPT ![t] = {}]
  /\ UNCHANGED <<queue, nNow, doWork, verdict>>

(* The size of the next batch.                                             *)
HowMany(t) ==
  LET share == Cardinality(queue) \div (Total(t) + Idle(t) + 1)
      most == IF share < BatchSize THEN share ELSE BatchSize
  IN IF most < 1 THEN 1 ELSE most

Take(t) ==
  /\ queue # {} /\ ~stop
  /\ Section(t, "work")
  /\ \E S \in SUBSET queue :
       /\ Cardinality(S) = HowMany(t)
       /\ \A c \in S, d \in queue \ S : d < c
       /\ queue' = queue \ S
       /\ batch' = [batch EXCEPT ![t] = S]
       /\ nNow' = [nNow EXCEPT ![t] = Cardinality(S)]
  /\ doWork' = [doWork EXCEPT ![t] = Result(t) = None]
  /\ mResult' = Result(t) /\ nTotal' = Total(t) /\ nIdle' = Idle(t)
  /\ UNCHANGED verdict

(* Condition variables may wake up for no reason.                          *)
SpuriousWakeup(t) ==
  /\ pc[t] = "wait"
  /\ pc' = [pc EXCEPT ![t] = "woken"]
  /\ UNCHANGED <<shared, stop, locals, rest, verdict>>

(* The checks of the batch, up to the first that fails.                    *)
Execute(t) ==
  /\ pc[t] = "work"
  /\ \/ doWork[t] /\ batch[t] \cap bad = {} /\ local' = [local EXCEPT ![t] = None]
     \/ doWork[t] /\ \E c \in batch[t] \cap bad : local' = [local EXCEPT ![t] = c]
     \/ ~doWork[t] /\ local' = local
  /\ pc' = [pc EXCEPT ![t] = "top"]
  /\ UNCHANGED <<shared, stop, nNow, doWork, batch, rest, verdict>>

-----------------------------------------------------------------------------
(* The master's calls, and the destructor.                                 *)

(* The constructor of CCheckQueueControl.                                  *)
Begin(m) ==
  /\ pc[m] = "out" /\ control = None /\ ~stop /\ rounds < MaxRounds
  /\ control' = m /\ rounds' = rounds + 1 /\ first' = added + 1
  /\ pc' = [pc EXCEPT ![m] = "open"]
  /\ UNCHANGED <<shared, stop, locals, added, bad, verdict>>

(* Add, of k checks; with none it returns at once.                         *)
Add(m) ==
  /\ pc[m] = "open"
  /\ \E k \in 1 .. MaxAdd :
       /\ added + k <= MaxChecks
       /\ queue' = queue \cup ((added + 1) .. (added + k))
       /\ nTodo' = nTodo + k
       /\ added' = added + k
       /\ pc' = [pc EXCEPT ![m] = IF k = 1 THEN "one" ELSE "all"]
  /\ UNCHANGED <<nIdle, nTotal, mResult, stop, locals, control, first, rounds, bad, verdict>>

(* Its notification, after the lock is released.                           *)
Notify(m) ==
  /\ \/ pc[m] = "one" /\ \E W \in One(Waiting \cap Workers) : GoWaking(m, "open", W)
     \/ pc[m] = "all" /\ GoWaking(m, "open", Waiting \cap Workers)
  /\ UNCHANGED <<shared, stop, locals, rest, verdict>>

(* Complete, called by the master or by the destructor of the control.     *)
Complete(m) ==
  /\ pc[m] = "open"
  /\ pc' = [pc EXCEPT ![m] = "top"]
  /\ nNow' = [nNow EXCEPT ![m] = 0] /\ local' = [local EXCEPT ![m] = None]
  /\ UNCHANGED <<shared, stop, doWork, batch, rest, verdict>>

(* The end of the control: m_control_mutex is released.                    *)
Release(m) ==
  /\ pc[m] = "done"
  /\ control' = None
  /\ pc' = [pc EXCEPT ![m] = "out"]
  /\ UNCHANGED <<shared, stop, locals, added, first, rounds, bad, verdict>>

(* Mutant: the workers are joined without being woken.                     *)
Stop_Silent ==
  /\ control = None /\ ~stop
  /\ stop' = TRUE
  /\ UNCHANGED <<shared, pc, locals, rest, verdict>>

(* ~CCheckQueue, once no master is left.  No worker can begin to wait      *)
(* between the write of m_request_stop and notify_all.                     *)
Stop ==
  /\ control = None /\ ~stop
  /\ stop' = TRUE
  /\ pc' = [t \in Threads |-> IF t \in Waiting \cap Workers THEN "woken" ELSE pc[t]]
  /\ UNCHANGED <<shared, locals, rest, verdict>>

(* All threads are joined: the queue is gone.                              *)
Joined ==
  /\ stop /\ \A w \in Workers : pc[w] = "gone"
  /\ UNCHANGED vars

-----------------------------------------------------------------------------
Init ==
  /\ queue = {} /\ nIdle = 0 /\ nTotal = 0 /\ nTodo = 0 /\ mResult = None /\ stop = FALSE
  /\ pc = [t \in Threads |-> IF t \in Workers THEN "top" ELSE "out"]
  /\ nNow = [t \in Threads |-> 0] /\ local = [t \in Threads |-> None]
  /\ doWork = [t \in Threads |-> FALSE] /\ batch = [t \in Threads |-> {}]
  /\ control = None /\ added = 0 /\ first = 1 /\ rounds = 0 /\ bad \in Failing
  /\ verdict = None

Run(t) == Finish(t) \/ Wait(t) \/ Leave(t) \/ Take(t) \/ Execute(t)

Next ==
  \/ \E t \in Threads : Run(t) \/ SpuriousWakeup(t)
  \/ \E m \in Masters : Begin(m) \/ Add(m) \/ Notify(m) \/ Complete(m) \/ Release(m)
  \/ Stop \/ Joined

Spec == Init /\ [][Next]_vars

(* A thread that can run is run in the end, and a round is brought to its  *)
(* end.                                                                    *)
Fairness ==
  /\ \A t \in Threads : WF_vars(Run(t))
  /\ \A m \in Masters : WF_vars(Notify(m)) /\ WF_vars(Complete(m)) /\ WF_vars(Release(m))

FairSpec == Spec /\ Fairness

-----------------------------------------------------------------------------
Results == Checks \cup {None}
Verdicts == [first : Nat, last : Nat, result : Results]

(* The variables keep their types.                                         *)
TypeOK ==
  /\ queue \subseteq Checks /\ nIdle \in Nat /\ nTotal \in Nat /\ nTodo \in Nat
  /\ mResult \in Results /\ stop \in BOOLEAN
  /\ pc \in [Threads -> {"out", "open", "one", "all", "top", "work", "wait", "woken",
                         "done", "gone"}]
  /\ nNow \in [Threads -> Nat] /\ local \in [Threads -> Results]
  /\ doWork \in [Threads -> BOOLEAN] /\ batch \in [Threads -> SUBSET Checks]
  /\ control \in Masters \cup {None}
  /\ added \in 0 .. MaxChecks /\ first \in Nat /\ rounds \in Nat /\ bad \subseteq Checks
  /\ verdict \in Verdicts \cup {None}

(* Complete returns an error if and only if a check added in this round    *)
(* fails, and then the error of such a check ("If at least one evaluation  *)
(* wasn't successful, return its error", checkqueue.h:165): no error is    *)
(* lost when a worker skips its batch or loses the race for m_result, and  *)
(* none is left over from a round before.                                  *)
CompleteIsRight ==
  verdict # None =>
    IF verdict.result = None THEN bad \cap (verdict.first .. verdict.last) = {}
    ELSE verdict.result \in bad \cap (verdict.first .. verdict.last)

(* Once Complete has returned no thread holds a check: its pointers into   *)
(* the block's transactions may die ("Precomputed transaction data         *)
(* pointers must not be invalidated until after `control` has run the      *)
(* script checks", validation.cpp:2538).                                   *)
NothingRunsAfterwards ==
  (control = None \/ pc[control] = "done") =>
    queue = {} /\ \A t \in Threads : pc[t] # "work"

(* nIdle is the number of threads in a wait or just out of it, and nTotal  *)
(* the number of threads inside Loop: the batch sizes are computed from    *)
(* both, and a count that drifts is never repaired.                        *)
Inside == {"work", "wait", "woken"}
CountsAreTrue ==
  ~stop => /\ nIdle = Cardinality({t \in Threads : pc[t] \in {"wait", "woken"}})
           /\ nTotal = Cardinality({t \in Threads :
                                      pc[t] \in Inside \/ (pc[t] = "top" /\ nNow[t] # 0)})

(* Complete returns: no wakeup is lost between the workers and the master. *)
CompleteReturns ==
  \A m \in Masters : (pc[m] = "top" /\ nNow[m] = 0) ~> (pc[m] = "done")

(* The destructor joins every worker.                                      *)
WorkersJoined == stop ~> (\A w \in Workers : pc[w] = "gone")
=============================================================================
