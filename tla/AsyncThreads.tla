---------------------------- MODULE AsyncThreads ----------------------------
(***************************************************************************)
(* The scheduler of asynchronous functions inside one ExecutionState       *)
(* (asyncMode).  Executor::run asks scheduleAsync which thread executes    *)
(* the next instruction: the main thread (-1) or one of the auxiliary      *)
(* threads 0, 1, ...  Threads are cooperative: whoever runs keeps running  *)
(* until it reaches a basic block boundary (preemptable) or terminates.    *)
(*                                                                         *)
(* An instruction that neither ends a basic block, nor initiates an        *)
(* asynchronous function, nor forks, nor returns from the outermost frame  *)
(* leaves this state alone and is a stuttering step.  No life-cycle model  *)
(* is set (hasLCM() is false).                                             *)
(***************************************************************************)
EXTENDS Integers, Sequences, SequencesExt

CONSTANTS
  Fns,          \* asynchronous functions, ordered as std::map orders names
  MaxInitiate,  \* bound: how often one function is initiated
  MaxThreads    \* bound: nothing is initiated once this many threads exist

ASSUME FnsAssumption == Fns \subseteq Nat
ASSUME BoundsAssumption == MaxInitiate \in Nat /\ MaxThreads \in Nat

VARIABLES
  spawning,       \* program: functions that initiate asynchronous functions
  threads,        \* ExecutionState::threads; thread tid is threads[tid + 1]
  threadsQueue,   \* ExecutionState::threadsQueue
  rtid,           \* running thread id
  preemptable,    \* may the main thread be preempted?
  waiting,        \* waitingForThreadsToTerminate
  initiated,      \* initiatedAsync: count and numstarted of each function
  chosen,         \* what scheduleAsync returned, None before it is called
  status          \* "running", "exited" (state removed), "aborted" (assert)

vars == <<spawning, threads, threadsQueue, rtid, preemptable, waiting, initiated,
          chosen, status>>

Main == -1
None == -2
Tids == 0 .. Len(threads) - 1

Thread(t) == threads[t + 1]
Live == {t \in Tids : ~Thread(t).terminated}
Pending(f) == initiated[f].numstarted < initiated[f].count

activeThreads == Live # {}

\* The loops of setWaitingForThreadsToTerminate and terminateThread: all of the
\* queue is popped, and what is not x is pushed again.
Without(q, x) ==
  LET temp[i \in 0 .. Len(q)] ==
        IF i = 0 THEN <<>>
        ELSE IF q[i] # x THEN Append(temp[i - 1], q[i]) ELSE temp[i - 1]
  IN temp[Len(q)]

NothingInitiated == [f \in Fns |-> [count |-> 0, numstarted |-> 0]]

Init ==
  /\ spawning \in SUBSET Fns
  /\ threads = <<>>
  /\ threadsQueue = <<Main>>
  /\ rtid = Main
  /\ preemptable = FALSE
  /\ waiting = FALSE
  /\ initiated = NothingInitiated
  /\ chosen = None
  /\ status = "running"

-----------------------------------------------------------------------------
(* scheduleAsync, one action for each way it returns *)

Scheduling == status = "running" /\ chosen = None

MainGoesOn == ~waiting /\ rtid = Main /\ ~preemptable
ThreadGoesOn == rtid # Main /\ ~Thread(rtid).preemptable

\* The running thread has not reached a basic block boundary.
ScheduleAgain ==
  /\ Scheduling
  /\ MainGoesOn \/ ThreadGoesOn
  /\ chosen' = rtid
  /\ UNCHANGED <<spawning, threads, threadsQueue, rtid, preemptable, waiting, initiated,
                 status>>

\* The first initiated function, in name order, with an instance to start.
StartAsync(f) ==
  /\ Scheduling /\ ~MainGoesOn /\ ~ThreadGoesOn
  /\ Pending(f)
  /\ \A g \in Fns : Pending(g) => f <= g
  /\ LET tid == Len(threads) IN
       /\ threads' = Append(threads, [fn |-> f, preemptable |-> FALSE,
                                      terminated |-> FALSE])
       /\ threadsQueue' =
            (IF threadsQueue = <<>> THEN <<Main>> ELSE threadsQueue) \o <<tid>>
       /\ rtid' = tid
       /\ chosen' = tid
  /\ initiated' = [initiated EXCEPT ![f].numstarted = @ + 1]
  /\ UNCHANGED <<spawning, preemptable, waiting, status>>

ChoosesFromQueue ==
  Scheduling /\ ~MainGoesOn /\ ~ThreadGoesOn /\ \A f \in Fns : ~Pending(f)

\* No thread is left: the main thread goes ahead and terminates.
QueueEmpty ==
  /\ ChoosesFromQueue
  /\ threadsQueue = <<>>
  /\ chosen' = Main
  /\ UNCHANGED <<spawning, threads, threadsQueue, rtid, preemptable, waiting, initiated,
                 status>>

Requeue(next) == IF ~waiting \/ next # Main THEN <<next>> ELSE <<>>

\* The main thread is popped while it waits: assert(!waitingForThreadsTo...).
MainPoppedWhileWaiting ==
  /\ ChoosesFromQueue
  /\ threadsQueue # <<>> /\ Head(threadsQueue) = Main /\ waiting
  /\ threadsQueue' = Tail(threadsQueue) \o Requeue(Main)
  /\ status' = "aborted"
  /\ UNCHANGED <<spawning, threads, rtid, preemptable, waiting, initiated, chosen>>

\* Mutant: the scheduled thread is not pushed back.
RoundRobinNoRequeue ==
  /\ ChoosesFromQueue
  /\ threadsQueue # <<>> /\ ~(Head(threadsQueue) = Main /\ waiting)
  /\ LET next == Head(threadsQueue) IN
       /\ threadsQueue' = Tail(threadsQueue)
       /\ rtid' = next
       /\ chosen' = next
       /\ IF next = Main
            THEN preemptable' = FALSE /\ UNCHANGED threads
            ELSE /\ threads' = [threads EXCEPT ![next + 1].preemptable = FALSE]
                 /\ UNCHANGED preemptable
  /\ UNCHANGED <<spawning, waiting, initiated, status>>

RoundRobin ==
  /\ ChoosesFromQueue
  /\ threadsQueue # <<>> /\ ~(Head(threadsQueue) = Main /\ waiting)
  /\ LET next == Head(threadsQueue) IN
       /\ threadsQueue' = Tail(threadsQueue) \o Requeue(next)
       /\ rtid' = next
       /\ chosen' = next
       /\ IF next = Main
            THEN preemptable' = FALSE /\ UNCHANGED threads
            ELSE /\ threads' = [threads EXCEPT ![next + 1].preemptable = FALSE]
                 /\ UNCHANGED preemptable
  /\ UNCHANGED <<spawning, waiting, initiated, status>>

-----------------------------------------------------------------------------
(* The instruction that the chosen thread executes *)

MainExecutes == status = "running" /\ chosen = Main /\ ~waiting
ThreadExecutes == status = "running" /\ chosen \in Tids

\* transferToBasicBlock, transferToBasicBlockThread: setPreemptable(tid, true)
BasicBlockEnds ==
  \/ chosen = Main /\ preemptable' = TRUE /\ UNCHANGED threads
  \/ /\ chosen # Main
     /\ threads' = [threads EXCEPT ![chosen + 1].preemptable = TRUE]
     /\ UNCHANGED preemptable

Transfer ==
  /\ MainExecutes \/ ThreadExecutes
  /\ BasicBlockEnds
  /\ chosen' = None
  /\ UNCHANGED <<spawning, threadsQueue, rtid, waiting, initiated, status>>

\* A call of an initiating or enabling function.
initiateAsync(f) ==
  /\ MainExecutes \/ (ThreadExecutes /\ Thread(chosen).fn \in spawning)
  /\ initiated[f].count < MaxInitiate /\ Len(threads) < MaxThreads
  /\ initiated' = [initiated EXCEPT ![f].count = @ + 1]
  /\ chosen' = None
  /\ UNCHANGED <<spawning, threads, threadsQueue, rtid, preemptable, waiting, status>>

\* A fork, followed into the new state: the copy constructor copies threads,
\* queue, rtid and waiting, and neither initiatedAsync nor preemptable.  At a
\* branch both states then transfer to their basic block.
ForkCopy(atBranch) ==
  /\ MainExecutes \/ ThreadExecutes
  /\ initiated' = NothingInitiated
  /\ preemptable' = (atBranch /\ chosen = Main)
  /\ threads' = IF atBranch /\ chosen # Main
                  THEN [threads EXCEPT ![chosen + 1].preemptable = TRUE]
                  ELSE threads
  /\ chosen' = None
  /\ UNCHANGED <<spawning, threadsQueue, rtid, waiting, status>>

\* Mutant of MainReturns: running threads are not waited for.
MainReturnsAtOnce ==
  /\ MainExecutes
  /\ status' = "exited"
  /\ chosen' = None
  /\ UNCHANGED <<spawning, threads, threadsQueue, rtid, preemptable, waiting,
                 initiated>>

\* Mutant of MainReturns: main waits and stays in the queue.
MainReturnsQueued ==
  /\ MainExecutes
  /\ IF activeThreads THEN waiting' = TRUE /\ UNCHANGED status
                      ELSE status' = "exited" /\ UNCHANGED waiting
  /\ chosen' = None
  /\ UNCHANGED <<spawning, threads, threadsQueue, rtid, preemptable, initiated>>

\* Ret of the main thread's outermost frame.
MainReturns ==
  /\ MainExecutes
  /\ IF activeThreads
       THEN /\ waiting' = TRUE
            /\ threadsQueue' = Without(threadsQueue, Main)
            /\ UNCHANGED status
       ELSE status' = "exited" /\ UNCHANGED <<waiting, threadsQueue>>
  /\ chosen' = None
  /\ UNCHANGED <<spawning, threads, rtid, preemptable, initiated>>

\* run: main was chosen while waiting, terminateStateOnExit.
ExitAfterThreads ==
  /\ status = "running" /\ chosen = Main /\ waiting
  /\ status' = "exited"
  /\ chosen' = None
  /\ UNCHANGED <<spawning, threads, threadsQueue, rtid, preemptable, waiting, initiated>>

\* Mutant of terminateThread: the thread stays in the queue.
terminateThreadQueued ==
  /\ ThreadExecutes
  /\ threads' = [threads EXCEPT ![chosen + 1].terminated = TRUE,
                                ![chosen + 1].preemptable = TRUE]
  /\ chosen' = None
  /\ UNCHANGED <<spawning, threadsQueue, rtid, preemptable, waiting, initiated,
                 status>>

\* Ret of a thread's outermost frame, or an error in the thread.
terminateThread ==
  /\ ThreadExecutes
  /\ threads' = [threads EXCEPT ![chosen + 1].terminated = TRUE,
                                ![chosen + 1].preemptable = TRUE]
  /\ threadsQueue' = Without(threadsQueue, chosen)
  /\ chosen' = None
  /\ UNCHANGED <<spawning, rtid, preemptable, waiting, initiated, status>>

-----------------------------------------------------------------------------
schedule ==
  \/ ScheduleAgain
  \/ \E f \in Fns : StartAsync(f)
  \/ QueueEmpty
  \/ RoundRobin
  \/ MainPoppedWhileWaiting

execute ==
  \/ Transfer
  \/ \E f \in Fns : initiateAsync(f)
  \/ \E atBranch \in BOOLEAN : ForkCopy(atBranch)
  \/ MainReturns
  \/ ExitAfterThreads
  \/ terminateThread

Next == schedule \/ execute

Spec == Init /\ [][Next]_vars

(***************************************************************************)
(* Fairness.  The executor keeps stepping the state, and basic blocks are  *)
(* finite: whoever runs reaches the end of its block or terminates.        *)
(* Nothing is assumed about which of the two happens, or about how long a  *)
(* loop runs.                                                              *)
(***************************************************************************)
BlockEnds == Transfer \/ ForkCopy(TRUE) \/ MainReturns \/ terminateThread

Fairness == WF_vars(Next) /\ SF_vars(BlockEnds)
FairSpec == Spec /\ Fairness

-----------------------------------------------------------------------------
(* What the comments and the loop in run rely on *)

\* The queue never loses a thread that still has instructions to run, never
\* holds one twice, and never offers a terminated one, in whatever order main
\* and threads initiate, fork and return.
QueueHoldsLive ==
  /\ \A i, j \in DOMAIN threadsQueue : threadsQueue[i] = threadsQueue[j] => i = j
  /\ ToSet(threadsQueue) \ {Main} = Live
  /\ ~waiting => Main \in ToSet(threadsQueue)

\* The assert(!waitingForThreadsToTerminate) of scheduleAsync (main, once it has
\* returned from its outermost frame, is never scheduled from the queue) holds
\* for programs whose asynchronous functions initiate no
\* further ones, although functions that main initiated may still start after
\* main has returned.
AssertHoldsWithoutSpawning == spawning = {} => status # "aborted"

\* A path ends only when every thread that was started has terminated: no
\* instruction of a started asynchronous function is skipped at exit.
ExitOnlyWhenThreadsDone == status = "exited" => ~activeThreads

\* Round robin starves nobody, forks included: every started thread, and main
\* until it returns, executes again, whatever the others do.
EveryThreadRuns ==
  /\ \A t \in 0 .. MaxThreads + 2 :
       (status = "running" /\ t \in Live)
         ~> (chosen = t \/ t \in Tids \ Live \/ status # "running")
  /\ (status = "running" /\ ~waiting)
         ~> (chosen = Main \/ waiting \/ status # "running")
=============================================================================
