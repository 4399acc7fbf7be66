----------------------------- MODULE ThreadPool -----------------------------
(***************************************************************************)
(* The worker-thread pool of potato_old/threadPool.c.                      *)
(*                                                                         *)
(* One manager ("master") thread calls poThreadPool_runTask(),             *)
(* poThreadPool_checkIdleThreadTimeout() and poThreadPool_destroy(); the   *)
(* pool's own threads run workerCallback().  Everything in struct          *)
(* POThreadPool is protected by one mutex, so an action below is exactly   *)
(* one critical section: from a lock, or the wake-up of a                  *)
(* pthread_cond_wait(), to the next unlock or wait.  The user callbacks    *)
(* run between two critical sections of their worker.                      *)
(*                                                                         *)
(* A condition variable has a single possible waiter here, so p->cond is   *)
(* the flag `signaled' (a signal is lost when the master does not wait)    *)
(* and worker->cond is the step from state "waiting" to "signaled".        *)
(*                                                                         *)
(* Tasks are numbered in the order in which the master submits them.       *)
(*                                                                         *)
(* A definition Name_Fault stands before Name and is Name with a fault     *)
(* seeded; the mutants of PROJECT.json use it to show that a property      *)
(* would notice.                                                           *)
(***************************************************************************)
EXTENDS Integers, Sequences, FiniteSets

CONSTANTS
    QueueLength,     \* PO_THREADPOOL_QUEUE_LENGTH, 0 for no queue
    MaxNumThreads,   \* PO_THREADPOOL_MAX_NUM_THREADS
    MaxIdleTime,     \* PO_THREADPOOL_MAX_IDLE_TIME: -1 no timeout, 0 no idle threads
    NumTasks         \* bound: how many tasks the master submits

ASSUME QueueLengthAssumption   == QueueLength \in Nat
ASSUME MaxNumThreadsAssumption == MaxNumThreads \in Nat \ {0}
ASSUME MaxIdleTimeAssumption   == MaxIdleTime \in Int /\ MaxIdleTime >= -1
ASSUME NumTasksAssumption      == NumTasks \in Nat

Worker == 0 .. MaxNumThreads - 1
Task   == 1 .. NumTasks
NoTask == 0                     \* userCallback == NULL

VARIABLES
    \* struct POThreadPool
    num_threads,
    slot, nextReadIndex, num,   \* p->task, the ring of queued tasks
    handoff,                    \* p->task when there is no queue
    idle, unused,               \* worker lists, the top is the last element
    cleanup, detachThread, taskWaitingToBeRun,
    \* struct POThreadPool_worker and the worker's stack
    userTask,                   \* worker->userCallback with its userData
    current,                    \* the worker's local userCallback
    wpc,                        \* where the worker's thread is
    \* the master
    mpc, mtask, joining, signaled,
    \* what a client of the pool observes
    submitted,                  \* number of runTask() calls made
    starts,                     \* how often each task's callback was called
    finished,                   \* tasks whose callback has returned
    zombies                     \* threads that ended neither detached nor joined

queueVars  == <<slot, nextReadIndex, num, handoff>>
listVars   == <<idle, unused>>
flagVars   == <<cleanup, detachThread, taskWaitingToBeRun>>
workerVars == <<userTask, current, wpc>>
masterVars == <<mpc, mtask, joining, signaled>>
clientVars == <<submitted, starts, finished, zombies>>
vars == <<num_threads, queueVars, listVars, flagVars, workerVars, masterVars,
          clientVars>>

-----------------------------------------------------------------------------
(* Worker lists and the task ring.                                         *)

Top(list)         == list[Len(list)]
listPush(list, w) == Append(list, w)

listPop(list) == SubSeq(list, 1, Len(list) - 1)

Bottom(list)   == Head(list)
listPull_Top(list) == SubSeq(list, 1, Len(list) - 1)
listPull(list) == Tail(list)

\* The slot after i, as queueGetNext() advances nextReadIndex.
nextIndex_NoWrap(i) == i + 1
nextIndex_WrapsEarly(i) == IF i < QueueLength - 2 THEN i + 1 ELSE 0
nextIndex(i) == IF i < QueueLength - 1 THEN i + 1 ELSE 0

\* The slot that queueMakeNewEntry() fills.
freeIndex == (nextReadIndex + num) % QueueLength

queueFull_OneTooLate == num = QueueLength + 1
queueFull == num = QueueLength

queueGetNext ==
    /\ num > 0
    /\ nextReadIndex' = nextIndex(nextReadIndex)
    /\ num' = num - 1
    /\ UNCHANGED <<slot, handoff>>

queueMakeNewEntry(t) ==
    /\ ~queueFull
    /\ slot' = [slot EXCEPT ![freeIndex] = t]
    /\ num' = num + 1
    /\ UNCHANGED <<nextReadIndex, handoff>>

-----------------------------------------------------------------------------
(* poThreadPool_create()                                                   *)

Init ==
    /\ num_threads = 0
    /\ slot = [i \in 0 .. QueueLength - 1 |-> NoTask]
    /\ nextReadIndex = 0 /\ num = 0 /\ handoff = NoTask
    /\ idle = <<>>
    /\ unused = [i \in 1 .. MaxNumThreads |-> MaxNumThreads - i]
    /\ cleanup = FALSE /\ detachThread = TRUE /\ taskWaitingToBeRun = FALSE
    /\ userTask = [w \in Worker |-> NoTask]
    /\ current = [w \in Worker |-> NoTask]
    /\ wpc = [w \in Worker |-> "none"]
    /\ mpc = "ready" /\ mtask = NoTask /\ joining = 0 /\ signaled = FALSE
    /\ submitted = 0
    /\ starts = [t \in Task |-> 0]
    /\ finished = {}
    /\ zombies = {}

-----------------------------------------------------------------------------
(* The worker threads.                                                     *)

\* pthread_cond_signal(&p->cond): lost unless the master waits.
MasterWaits == mpc \in {"startWait", "fullWait", "cleanupWait"}
SignalMaster == signaled' = MasterWaits

\* How often a callback was called: never, once, or (2) more than once.
OneMore(n) == IF n < 2 THEN n + 1 ELSE 2

\* The worker's thread leaves the critical section to run task t.
Work(w, t) ==
    /\ current' = [current EXCEPT ![w] = t]
    /\ wpc' = [wpc EXCEPT ![w] = "working"]
    /\ starts' = [starts EXCEPT ![t] = OneMore(@)]

\* lookForWork() would return a callback.
WorkToDo_LeavesOne == IF QueueLength > 0 THEN num > 1 ELSE taskWaitingToBeRun
WorkToDo_QueueOnly == num > 0
WorkToDo == IF QueueLength > 0 THEN num > 0 ELSE taskWaitingToBeRun

\* lookForWork() tells the blocked master that a queue entry became free.
WakeBlockedMaster_Never == UNCHANGED signaled
WakeBlockedMaster ==
    IF taskWaitingToBeRun THEN SignalMaster ELSE UNCHANGED signaled

\* lookForWork() returning a callback that the worker then runs.
lookForWork(w) ==
    /\ WorkToDo
    /\ WakeBlockedMaster
    /\ IF QueueLength > 0
         THEN queueGetNext /\ Work(w, slot[nextReadIndex])
         ELSE UNCHANGED queueVars /\ Work(w, handoff)
    /\ UNCHANGED <<num_threads, listVars, flagVars, userTask, mpc, mtask,
                   joining, submitted, zombies>>

\* The end of workerCallback(): the worker struct becomes unused again.
ThreadReturns(w) ==
    /\ unused' = listPush(unused, w)
    /\ num_threads' = num_threads - 1
    /\ wpc' = [wpc EXCEPT ![w] = "none"]
    /\ zombies' = IF detachThread THEN zombies ELSE zombies \cup {w}
    /\ UNCHANGED <<queueVars, idle, flagVars, userTask, current, mpc, mtask,
                   joining, submitted, starts>>

\* workerCallback() up to its first callback.
WorkerStart(w) ==
    /\ wpc[w] = "created"
    /\ num_threads' = num_threads + 1
    /\ SignalMaster
    /\ Work(w, userTask[w])
    /\ UNCHANGED <<queueVars, listVars, flagVars, userTask, mpc, mtask,
                   joining, submitted, finished, zombies>>

CallbackReturns(w) ==
    /\ wpc[w] = "working"
    /\ finished' = finished \cup {current[w]}

\* After its callback the worker finds another task ...
TakeNext(w) == CallbackReturns(w) /\ lookForWork(w)

\* ... or, when the pool is being destroyed, ends, the last thread waking
\* the master ...
LastThread_AfterDecrement == num_threads = 0
LastThread == num_threads = 1

EndInCleanup(w) ==
    /\ CallbackReturns(w)
    /\ ~WorkToDo /\ cleanup
    /\ IF LastThread THEN SignalMaster ELSE UNCHANGED signaled
    /\ ThreadReturns(w)

\* worker->userCallback = NULL: a later wake-up without a task is seen as such.
ForgetTask_Not(w) == UNCHANGED userTask
ForgetTask(w) == userTask' = [userTask EXCEPT ![w] = NoTask]

\* ... or becomes idle ...
BecomeIdle(w) ==
    /\ CallbackReturns(w)
    /\ ~WorkToDo /\ ~cleanup /\ MaxIdleTime # 0
    /\ ForgetTask(w)
    /\ idle' = listPush(idle, w)
    /\ wpc' = [wpc EXCEPT ![w] = "waiting"]
    /\ UNCHANGED <<num_threads, queueVars, unused, flagVars, current,
                   masterVars, submitted, starts, zombies>>

\* ... or ends, in a pool without idle threads.
EndIdleless(w) ==
    /\ CallbackReturns(w)
    /\ ~WorkToDo /\ ~cleanup /\ MaxIdleTime = 0
    /\ UNCHANGED signaled
    /\ ThreadReturns(w)

\* The idle worker's condWait() returns, with a task of its own ...
WakeWithTask(w) ==
    /\ wpc[w] = "signaled" /\ userTask[w] # NoTask
    /\ Work(w, userTask[w])
    /\ UNCHANGED <<num_threads, queueVars, listVars, flagVars, userTask,
                   masterVars, submitted, finished, zombies>>

\* ... or without, when a task has come into the queue meanwhile ...
WakeTakeNext(w) ==
    /\ wpc[w] = "signaled" /\ userTask[w] = NoTask
    /\ lookForWork(w)
    /\ UNCHANGED finished

\* ... or to end.
WakeEnd(w) ==
    /\ wpc[w] = "signaled" /\ userTask[w] = NoTask
    /\ ~WorkToDo
    /\ ThreadReturns(w)
    /\ UNCHANGED <<signaled, finished>>

workerCallback(w) ==
    \/ WorkerStart(w)
    \/ TakeNext(w)
    \/ EndInCleanup(w)
    \/ BecomeIdle(w)
    \/ EndIdleless(w)
    \/ WakeWithTask(w)
    \/ WakeTakeNext(w)
    \/ WakeEnd(w)

-----------------------------------------------------------------------------
(* The master.                                                             *)

\* _poThreadPool_checkThreadTimeout() removes the bottom idle worker if it
\* has been idle for too long (the clock is left open).
TimeoutPossible(list) == MaxIdleTime > 0 /\ num_threads > 2 /\ list # <<>>

\* runTask() hands task t to the top idle worker and checks the timeouts.
RunOnIdle(t) ==
    /\ idle # <<>>
    /\ LET w == Top(idle) rest == listPop(idle) IN
       /\ userTask' = [userTask EXCEPT ![w] = t]
       /\ \/ /\ idle' = rest
             /\ wpc' = [wpc EXCEPT ![w] = "signaled"]
          \/ /\ TimeoutPossible(rest)
             /\ idle' = listPull(rest)
             /\ wpc' = [wpc EXCEPT ![w] = "signaled",
                                   ![Bottom(rest)] = "signaled"]
    /\ mpc' = "ready" /\ mtask' = NoTask
    /\ UNCHANGED <<num_threads, queueVars, unused, current>>

\* runTask() creates a thread and waits for it to start.
RunOnNewThread(t) ==
    /\ idle = <<>> /\ unused # <<>>
    /\ LET w == Top(unused) IN
       /\ userTask' = [userTask EXCEPT ![w] = t]
       /\ wpc' = [wpc EXCEPT ![w] = "created"]
    /\ unused' = listPop(unused)
    /\ mpc' = "startWait" /\ mtask' = t
    /\ UNCHANGED <<num_threads, queueVars, idle, current>>

\* runTask() queues the task.
RunLater(t) ==
    /\ idle = <<>> /\ unused = <<>> /\ QueueLength > 0
    /\ queueMakeNewEntry(t)
    /\ mpc' = "ready" /\ mtask' = NoTask
    /\ UNCHANGED <<num_threads, listVars, workerVars>>

\* runTask() finds no room for the task and waits for a worker.
Block(t) ==
    /\ idle = <<>> /\ unused = <<>> /\ queueFull
    /\ handoff' = IF QueueLength > 0 THEN handoff ELSE t
    /\ mpc' = "fullWait" /\ mtask' = t
    /\ UNCHANGED <<num_threads, slot, nextReadIndex, num, listVars, workerVars>>

\* One round of runTask()'s loop.
RunOrWait(t) ==
    /\ signaled' = FALSE
    /\ \/ RunOnIdle(t)      /\ taskWaitingToBeRun' = FALSE
       \/ RunOnNewThread(t) /\ taskWaitingToBeRun' = FALSE
       \/ RunLater(t)       /\ taskWaitingToBeRun' = FALSE
       \/ Block(t)          /\ taskWaitingToBeRun' = TRUE
    /\ UNCHANGED <<cleanup, detachThread, joining, starts, finished, zombies>>

runTask ==
    /\ mpc = "ready" /\ submitted < NumTasks
    /\ submitted' = submitted + 1
    /\ RunOrWait(submitted + 1)

\* The new thread has started: runTask() returns.
ThreadStarted ==
    /\ mpc = "startWait" /\ signaled
    /\ mpc' = "ready" /\ mtask' = NoTask /\ signaled' = FALSE
    /\ UNCHANGED <<num_threads, queueVars, listVars, flagVars, workerVars,
                   joining, clientVars>>

\* A worker took a queued task: the blocked runTask() tries again.
RetryRun ==
    /\ mpc = "fullWait" /\ signaled /\ QueueLength > 0
    /\ RunOrWait(mtask)
    /\ UNCHANGED submitted

\* Without a queue a worker took the task itself: runTask() returns.
HandoffTaken ==
    /\ mpc = "fullWait" /\ signaled /\ QueueLength = 0
    /\ taskWaitingToBeRun' = FALSE
    /\ mpc' = "ready" /\ mtask' = NoTask /\ signaled' = FALSE
    /\ UNCHANGED <<num_threads, queueVars, listVars, cleanup, detachThread,
                   workerVars, joining, clientVars>>

checkIdleThreadTimeout ==
    /\ mpc = "ready"
    /\ TimeoutPossible(idle)
    /\ idle' = listPull(idle)
    /\ wpc' = [wpc EXCEPT ![Bottom(idle)] = "signaled"]
    /\ UNCHANGED <<num_threads, queueVars, unused, flagVars, userTask, current,
                   masterVars, clientVars>>

\* destroy() tells the top idle worker to end and joins it.
JoinIdle ==
    /\ idle # <<>>
    /\ joining' = Top(idle)
    /\ idle' = listPop(idle)
    /\ ForgetTask(Top(idle))
    /\ wpc' = [wpc EXCEPT ![Top(idle)] = "signaled"]
    /\ detachThread' = FALSE
    /\ mpc' = "joinWait"
    /\ UNCHANGED cleanup

\* The threads that destroy() does not join detach themselves again.
DetachAgain_Not == UNCHANGED detachThread
DetachAgain == detachThread' = TRUE

\* destroy() waits for the threads that still work ...
AwaitWorkers ==
    /\ idle = <<>> /\ num_threads > 0
    /\ cleanup' = TRUE /\ DetachAgain
    /\ mpc' = "cleanupWait"
    /\ UNCHANGED <<idle, userTask, wpc, joining>>

\* ... or is done.
AllGone ==
    /\ idle = <<>> /\ num_threads = 0
    /\ DetachAgain
    /\ mpc' = "destroyed"
    /\ UNCHANGED <<idle, userTask, wpc, joining, cleanup>>

DestroyRound ==
    /\ JoinIdle \/ AwaitWorkers \/ AllGone
    /\ signaled' = FALSE
    /\ UNCHANGED <<num_threads, queueVars, unused, taskWaitingToBeRun, current,
                   mtask, submitted, starts, finished>>

destroy ==
    /\ mpc = "ready"
    /\ DestroyRound
    /\ UNCHANGED zombies

\* pthread_join() returns once the idle worker's thread has ended.
Joined ==
    /\ mpc = "joinWait" /\ wpc[joining] = "none"
    /\ zombies' = zombies \ {joining}
    /\ DestroyRound

CleanupDone ==
    /\ mpc = "cleanupWait" /\ signaled
    /\ mpc' = "destroyed" /\ signaled' = FALSE
    /\ UNCHANGED <<num_threads, queueVars, listVars, flagVars, workerVars,
                   mtask, joining, clientVars>>

MasterContinues ==
    \/ ThreadStarted
    \/ RetryRun
    \/ HandoffTaken
    \/ Joined
    \/ CleanupDone

\* The program is over once the pool is destroyed and no thread is left.
Terminated ==
    /\ mpc = "destroyed" /\ \A w \in Worker : wpc[w] = "none"
    /\ UNCHANGED vars

Next ==
    \/ \E w \in Worker : workerCallback(w)
    \/ runTask
    \/ checkIdleThreadTimeout
    \/ destroy
    \/ MasterContinues
    \/ Terminated

Spec == Init /\ [][Next]_vars

\* Callbacks return, and the mutex and the scheduler starve nobody.  The
\* master is free to submit, to poll or to destroy, or to do nothing.
Fairness ==
    /\ \A w \in Worker : WF_vars(workerCallback(w))
    /\ WF_vars(MasterContinues)

FairSpec == Spec /\ Fairness

-----------------------------------------------------------------------------
(* Properties.                                                             *)

queueTypeOK ==
    /\ slot \in [0 .. QueueLength - 1 -> Task \cup {NoTask}]
    /\ nextReadIndex \in Nat
    /\ QueueLength > 0 => nextReadIndex < QueueLength
    /\ num \in 0 .. QueueLength
    /\ handoff \in Task \cup {NoTask}

listTypeOK == idle \in Seq(Worker) /\ unused \in Seq(Worker)

flagTypeOK ==
    /\ cleanup \in BOOLEAN
    /\ detachThread \in BOOLEAN
    /\ taskWaitingToBeRun \in BOOLEAN

workerTypeOK ==
    /\ userTask \in [Worker -> Task \cup {NoTask}]
    /\ current \in [Worker -> Task \cup {NoTask}]
    /\ wpc \in [Worker -> {"none", "created", "working", "waiting", "signaled"}]

masterTypeOK ==
    /\ mpc \in {"ready", "startWait", "fullWait", "joinWait", "cleanupWait",
                "destroyed"}
    /\ mtask \in Task \cup {NoTask}
    /\ joining \in Worker
    /\ signaled \in BOOLEAN

clientTypeOK ==
    /\ submitted \in 0 .. NumTasks
    /\ starts \in [Task -> 0 .. 2]
    /\ finished \in SUBSET Task
    /\ zombies \in SUBSET Worker

\* Every variable has its type; in particular the counters stay within the
\* sizes of the arrays of struct POThreadPool (its DASSERTs) and only real
\* tasks are ever finished.
TypeOK ==
    /\ num_threads \in 0 .. MaxNumThreads
    /\ queueTypeOK
    /\ listTypeOK
    /\ flagTypeOK
    /\ workerTypeOK
    /\ masterTypeOK
    /\ clientTypeOK

\* The list holds the workers that pc puts in state s, each one once.
Lists(list, pc, s) ==
    /\ \A i \in 1 .. Len(list) : pc[list[i]] = s
    /\ \A i, j \in 1 .. Len(list) : list[i] = list[j] => i = j
    /\ \A w \in Worker : pc[w] = s => \E i \in 1 .. Len(list) : list[i] = w

\* The workers whose thread is somewhere in workerCallback().
Live == {w \in Worker : wpc[w] \notin {"none", "created"}}

\* A worker struct is in the idle list exactly while its thread sleeps there,
\* in the unused list exactly while it has no thread, never twice, and
\* num_threads counts the threads that have begun workerCallback().
WorkersAccounted ==
    /\ Lists(idle, wpc, "waiting")
    /\ Lists(unused, wpc, "none")
    /\ num_threads = Cardinality(Live)

\* The assertions of lookForWork(), runTask() and destroy(): while a task is
\* in the queue no worker is idle and none is unused.
NoIdlerWhileTasksQueued == num > 0 => idle = <<>> /\ unused = <<>>

\* runTask() sleeps only while the queue is full and every thread is busy, so
\* that one of them will come back to lookForWork() and wake it.
BlockedOnlyWhenFull ==
    mpc = "fullWait" /\ ~signaled =>
        /\ num = QueueLength /\ taskWaitingToBeRun
        /\ \A w \in Worker : wpc[w] \in {"working", "signaled"}

\* The last task that is no longer in a caller's hands.
LastHandedIn ==
    IF mpc = "fullWait" /\ QueueLength > 0 THEN submitted - 1 ELSE submitted

\* The ring, read from nextReadIndex, holds the latest tasks in the order of
\* the runTask() calls: none is lost, doubled or overtaken when the ring wraps.
RingInOrder ==
    \A k \in 0 .. num - 1 :
        slot[(nextReadIndex + k) % QueueLength] = LastHandedIn - num + 1 + k

\* Worker w has been given task t and has not finished it.
Holds(w, t) ==
    \/ wpc[w] \in {"created", "signaled"} /\ userTask[w] = t
    \/ wpc[w] = "working" /\ current[w] = t

\* A task is given to one thread, once: no two threads hold it, none holds a
\* finished one, and its callback is never called a second time.
RunsOnce ==
    \A t \in Task :
        /\ starts[t] <= 1
        /\ \A v, w \in Worker : Holds(v, t) /\ Holds(w, t) => v = w
        /\ t \in finished => \A w \in Worker : ~Holds(w, t)

\* Every task given to runTask() is finished, held by a thread, in the queue,
\* or still with the blocked caller.
NoTaskLost ==
    \A t \in 1 .. submitted :
        \/ t \in finished
        \/ \E w \in Worker : Holds(w, t)
        \/ \E k \in 0 .. num - 1 : slot[(nextReadIndex + k) % QueueLength] = t
        \/ mpc = "fullWait" /\ mtask = t

\* With a queue, every task given to runTask() is at each moment in exactly one
\* place on its way from the caller through the ring and a thread to its end.
\* (Without one a second worker can take it: the hand-over flag is cleared late.)
EachTaskOnce == RunsOnce /\ NoTaskLost

\* "threads detach before returning/exiting except in some cases", the cases
\* being those the master joins: no thread ends without one of the two.
NoThreadLeaked ==
    zombies \subseteq (IF mpc = "joinWait" THEN {joining} ELSE {})

\* When destroy() has returned all tasks are finished, no thread uses the
\* pool's mutexes and condition variables any more, and, in the builds without
\* an idle timeout, none of the threads that ended is left to be joined.
DestroyedIsQuiet ==
    /\ mpc = "destroyed" =>
          /\ finished = 1 .. submitted
          /\ \A w \in Worker : wpc[w] = "none"
    /\ MaxIdleTime <= 0 => NoThreadLeaked

\* Every task given to the pool is finished some day.
TasksFinish == \A t \in Task : submitted >= t ~> t \in finished

\* A destroy() that has begun returns.
DestroyReturns == mpc \in {"joinWait", "cleanupWait"} ~> mpc = "destroyed"

-----------------------------------------------------------------------------
(* The inductive invariant.                                                *)

\* What the flags say about where the master is; a created thread is the one
\* the master waits for.
FlagsFollowMaster ==
    /\ taskWaitingToBeRun <=> mpc = "fullWait"
    /\ cleanup => mpc \in {"cleanupWait", "destroyed"}
    /\ signaled => MasterWaits
    /\ mpc = "fullWait" => mtask = submitted /\ submitted > 0
    /\ mpc = "fullWait" /\ QueueLength = 0 => handoff = mtask
    /\ \A w \in Worker : wpc[w] = "created" => mpc = "startWait" /\ ~signaled
    /\ \A v, w \in Worker : wpc[v] = "created" /\ wpc[w] = "created" => v = w

\* A thread that runs, or is about to, has a real task; an idle one has none.
TasksInHand ==
    /\ \A w \in Worker : wpc[w] = "created" => userTask[w] # NoTask
    /\ \A w \in Worker : wpc[w] = "working" => current[w] # NoTask
    /\ \A w \in Worker : wpc[w] = "waiting" => userTask[w] = NoTask
    /\ num <= LastHandedIn

IInv ==
    /\ queueTypeOK /\ listTypeOK /\ flagTypeOK
    /\ workerTypeOK /\ masterTypeOK /\ clientTypeOK
    /\ WorkersAccounted
    /\ NoIdlerWhileTasksQueued
    /\ BlockedOnlyWhenFull
    /\ RingInOrder
    /\ FlagsFollowMaster
    /\ TasksInHand

\* The tasks 1 .. Given are those that a thread has been given: all but the
\* queued ones and the one a blocked caller still has (without a queue, until the
\* first thread takes it and signals).
Given ==
    submitted - num
       - (IF mpc = "fullWait" /\ (QueueLength > 0 \/ ~signaled) THEN 1 ELSE 0)

\* Exactly the tasks that were given to a thread are finished or in one's hands.
TasksKept ==
    /\ \A t \in 1 .. Given : t \in finished \/ \E w \in Worker : Holds(w, t)
    /\ finished \subseteq 1 .. Given
    /\ \A w \in Worker, t \in Task : Holds(w, t) => t <= Given

\* With a queue the callback of a task is called when a thread that was given the
\* task starts or wakes up, not before.
StartsOnce ==
    QueueLength > 0 =>
        /\ RunsOnce
        /\ \A t \in Task : t > Given => starts[t] = 0
        /\ \A w \in Worker, t \in Task :
              wpc[w] \in {"created", "signaled"} /\ userTask[w] = t => starts[t] = 0

\* Who may end without being detached: in the builds without an idle timeout the
\* only thread that wakes up without a task is the one destroy() is joining.
JoinsInStep ==
    /\ ~detachThread => mpc = "joinWait"
    /\ MaxIdleTime = 0 => idle = <<>> /\ mpc # "joinWait"
    /\ MaxIdleTime <= 0 =>
          /\ NoThreadLeaked
          /\ \A w \in Worker : wpc[w] = "signaled" /\ userTask[w] = NoTask =>
                mpc = "joinWait" /\ w = joining

\* The master is told that the pool is empty only when it is.
GoneInStep ==
    mpc = "destroyed" \/ (mpc = "cleanupWait" /\ signaled) =>
        \A w \in Worker : wpc[w] = "none"

TaskInv == TasksKept /\ StartsOnce /\ JoinsInStep /\ GoneInStep

-----------------------------------------------------------------------------
\* The pool keeps the promise of TaskExecutor.
Executor == INSTANCE TaskExecutor WITH
    accepted   <- submitted,
    dispatched <- LastHandedIn - num,
    completed  <- finished,
    closed     <- mpc = "destroyed"

\* Refinement: in-order dispatch, exactly once, bounded, complete at the end.
ImplementsExecutor == Executor!ESpec

=============================================================================
