----------------------- MODULE ThreadPoolTasks_proofs -----------------------
(***************************************************************************)
(* Proofs about the tasks of ThreadPool: none is lost, with a queue none   *)
(* runs twice, destroy() returns to a quiet pool, and with a queue the     *)
(* pool implements TaskExecutor.                                           *)
(*                                                                         *)
(* The second inductive invariant, TaskInv, rests on the first, IInv of    *)
(* ThreadPool_proofs.  Every step of the pool is summarised by what it     *)
(* does to the tasks (the operators of the first section), and the         *)
(* invariant and the refinement are proved from the summary.               *)
(***************************************************************************)
EXTENDS ThreadPool_proofs

USE QueueLengthAssumption, MaxNumThreadsAssumption, MaxIdleTimeAssumption,
    NumTasksAssumption

-----------------------------------------------------------------------------
(* What a step does to the tasks.                                          *)

\* The thread has a task of its own that it has not begun.
Fresh(w) == wpc[w] \in {"created", "signaled"}

\* The task that each thread has been given and has not finished.
hand == [w \in Worker |-> IF Fresh(w) THEN userTask[w]
                          ELSE IF wpc[w] = "working" THEN current[w] ELSE NoTask]

\* No thread but w gets a task.
NoOtherFresh(w) == \A v \in Worker : v # w /\ Fresh(v)' /\ hand[v] # NoTask => Fresh(v)

\* The step leaves the tasks where they are.
Leaves ==
    /\ Given' = Given /\ hand' = hand /\ UNCHANGED <<finished, starts>>
    /\ \A v \in Worker : Fresh(v)' /\ hand[v] # NoTask => Fresh(v)

\* The master gives the next task to thread w, past an empty queue.
Gives(w) ==
    /\ num = 0 /\ hand[w] = NoTask /\ Given' = Given + 1 /\ Given + 1 \in Task
    /\ hand' = [hand EXCEPT ![w] = Given + 1]
    /\ UNCHANGED <<finished, starts>>
    /\ NoOtherFresh(w)

\* Thread w begins the task it was given.
Begins(w) ==
    /\ Fresh(w) /\ hand[w] \in Task
    /\ Given' = Given /\ hand' = hand /\ UNCHANGED finished
    /\ starts' = [starts EXCEPT ![hand[w]] = OneMore(@)]
    /\ ~Fresh(w)' /\ NoOtherFresh(w)

\* Thread w finishes the task it has begun.
Finishes(w) ==
    /\ ~Fresh(w) /\ hand[w] \in Task
    /\ finished' = finished \cup {hand[w]}

\* Thread w finishes its task and has no other.
Ends(w) ==
    /\ Finishes(w)
    /\ Given' = Given /\ hand' = [hand EXCEPT ![w] = NoTask] /\ UNCHANGED starts
    /\ ~Fresh(w)' /\ NoOtherFresh(w)

\* Thread w finds task t, the next one or, without a queue, perhaps the one that
\* another thread has taken just before.
Finds(w, t) ==
    /\ hand' = [hand EXCEPT ![w] = t] /\ t \in Task
    /\ starts' = [starts EXCEPT ![t] = OneMore(@)]
    /\ \/ t = Given + 1 /\ Given' = Given + 1
       \/ QueueLength = 0 /\ t = Given /\ Given' = Given
    /\ ~Fresh(w)' /\ NoOtherFresh(w)

\* A step of thread w.
ThreadStep(w) ==
    \/ Begins(w)
    \/ Ends(w)
    \/ \E t \in Task : Finds(w, t) /\ Finishes(w)
    \/ \E t \in Task : Finds(w, t) /\ hand[w] = NoTask /\ UNCHANGED finished
    \/ Leaves

\* The invariants as facts about hand.
LEMMA HandFacts ==
    ASSUME IInv
    PROVE  /\ hand \in [Worker -> Task \cup {NoTask}] /\ NoTask \notin Task
           /\ \A w \in Worker, t \in Task : Holds(w, t) <=> hand[w] = t
           /\ \A w \in Worker : wpc[w] \in {"none", "waiting"} => hand[w] = NoTask
           /\ \A w \in Worker : wpc[w] = "working" => hand[w] = current[w] /\ hand[w] \in Task
           /\ \A w \in Worker : Fresh(w) => hand[w] = userTask[w]
           /\ \A w \in Worker : wpc[w] = "created" => hand[w] \in Task
           /\ Given \in Int /\ num \in Nat /\ submitted \in Nat
           /\ QueueLength > 0 => Given = LastHandedIn - num
  <1>1. /\ userTask \in [Worker -> Task \cup {NoTask}]
        /\ current \in [Worker -> Task \cup {NoTask}]
        /\ wpc \in [Worker -> WorkerState]
    BY ListFacts DEF IInv, workerTypeOK
  <1>2. NoTask \notin Task
    BY DEF NoTask, Task
  <1>3. /\ \A w \in Worker : wpc[w] = "working" => current[w] # NoTask
        /\ \A w \in Worker : wpc[w] = "created" => userTask[w] # NoTask
    BY DEF IInv, TasksInHand
  <1>4. num \in Nat /\ submitted \in Nat
    BY DEF IInv, queueTypeOK, clientTypeOK
  <1>5. Given \in Int /\ (QueueLength > 0 => Given = LastHandedIn - num)
    BY <1>4 DEF Given, LastHandedIn
  <1>6. \A w \in Worker, t \in Task : Holds(w, t) <=> hand[w] = t
    BY <1>1, <1>2 DEF Holds, hand, Fresh
  <1> QED BY <1>1, <1>2, <1>3, <1>4, <1>5, <1>6 DEF hand, Fresh

LEMMA HandFactsNext ==
    ASSUME IInv'
    PROVE  /\ hand' \in [Worker -> Task \cup {NoTask}]
           /\ \A w \in Worker, t \in Task : Holds(w, t)' <=> hand'[w] = t
  <1>1. /\ userTask' \in [Worker -> Task \cup {NoTask}]
        /\ current' \in [Worker -> Task \cup {NoTask}]
    BY DEF IInv, workerTypeOK
  <1>2. NoTask \notin Task
    BY DEF NoTask, Task
  <1>3. \A w \in Worker, t \in Task : Holds(w, t)' <=> hand'[w] = t
    BY <1>1, <1>2 DEF Holds, hand, Fresh
  <1> QED BY <1>1, <1>3 DEF hand, Fresh

\* A thread that takes up its next task.
LEMMA WorkEffect ==
    ASSUME IInv, NEW w \in Worker, NEW t \in Task, Work(w, t), UNCHANGED userTask
    PROVE  /\ hand' = [hand EXCEPT ![w] = t]
           /\ starts' = [starts EXCEPT ![t] = OneMore(@)]
           /\ ~Fresh(w)' /\ NoOtherFresh(w)
  <1>1. /\ wpc' = [wpc EXCEPT ![w] = "working"] /\ userTask' = userTask
        /\ current' = [current EXCEPT ![w] = t]
        /\ starts' = [starts EXCEPT ![t] = OneMore(@)]
    BY DEF Work
  <1>2. wpc \in [Worker -> WorkerState] /\ current \in [Worker -> Task \cup {NoTask}]
    BY ListFacts DEF IInv, workerTypeOK
  <1>3. ~Fresh(w)' /\ \A v \in Worker : v # w => (Fresh(v)' <=> Fresh(v))
    BY <1>1, <1>2 DEF Fresh
  <1>4. \A v \in Worker : hand'[v] = IF v = w THEN t ELSE hand[v]
    BY <1>1, <1>2, <1>3 DEF hand, Fresh
  <1>5. hand' = [hand EXCEPT ![w] = t]
    BY <1>4 DEF hand
  <1> QED BY <1>1, <1>3, <1>5 DEF NoOtherFresh

\* A thread that goes to sleep or returns.
LEMMA RestEffect ==
    ASSUME IInv, NEW w \in Worker, NEW s \in {"none", "waiting"},
           wpc' = [wpc EXCEPT ![w] = s], UNCHANGED current,
           UNCHANGED userTask \/ userTask' = [userTask EXCEPT ![w] = NoTask]
    PROVE  /\ hand' = [hand EXCEPT ![w] = NoTask]
           /\ ~Fresh(w)' /\ NoOtherFresh(w)
  <1>1. /\ wpc \in [Worker -> WorkerState] /\ current \in [Worker -> Task \cup {NoTask}]
        /\ userTask \in [Worker -> Task \cup {NoTask}]
    BY ListFacts DEF IInv, workerTypeOK
  <1>2. wpc'[w] = s /\ \A v \in Worker : v # w => wpc'[v] = wpc[v] /\ userTask'[v] = userTask[v]
    BY <1>1
  <1>3. ~Fresh(w)' /\ \A v \in Worker : v # w => (Fresh(v)' <=> Fresh(v))
    BY <1>2 DEF Fresh
  <1>4. \A v \in Worker : hand'[v] = IF v = w THEN NoTask ELSE hand[v]
    BY <1>2, <1>3 DEF hand, Fresh
  <1>5. hand' = [hand EXCEPT ![w] = NoTask]
    BY <1>4 DEF hand
  <1> QED BY <1>3, <1>5 DEF NoOtherFresh

\* lookForWork() finds the next task, or what is still offered.
LEMMA FindEffect ==
    ASSUME IInv, NEW w \in Worker, lookForWork(w)
    PROVE  \E t \in Task : Finds(w, t)
  <1> DEFINE t == IF QueueLength > 0 THEN slot[nextReadIndex] ELSE handoff
  <1>1. /\ t \in Task /\ Work(w, t) /\ UNCHANGED <<userTask, mpc, submitted>>
        /\ QueueLength > 0 => num' = num - 1 /\ t = LastHandedIn - num + 1
        /\ QueueLength = 0 => num' = num /\ taskWaitingToBeRun /\ t = handoff
        /\ WakeBlockedMaster
    BY FoundTask DEF lookForWork, queueGetNext, queueVars, WorkToDo
  <1> HIDE DEF t
  <1>2. /\ hand' = [hand EXCEPT ![w] = t] /\ starts' = [starts EXCEPT ![t] = OneMore(@)]
        /\ ~Fresh(w)' /\ NoOtherFresh(w)
    BY <1>1, WorkEffect
  <1>3. \/ t = Given + 1 /\ Given' = Given + 1
        \/ QueueLength = 0 /\ t = Given /\ Given' = Given
    <2>1. CASE QueueLength > 0
      BY <2>1, <1>1, HandFacts DEF Given, LastHandedIn
    <2>2. CASE QueueLength = 0
      <3>1. /\ mpc = "fullWait" /\ t = submitted /\ num = 0
        BY <2>2, <1>1 DEF IInv, FlagsFollowMaster, queueTypeOK
      <3>2. signaled' = TRUE
        <4>1. MasterWaits
          BY <3>1 DEF MasterWaits
        <4>2. SignalMaster
          BY <2>2, <1>1 DEF WakeBlockedMaster
        <4> QED BY <4>1, <4>2, Zenon DEF SignalMaster
      <3>3. Given' = submitted /\ (~signaled => Given = submitted - 1)
            /\ (signaled => Given = submitted)
        BY <2>2, <3>1, <3>2, <1>1, HandFacts DEF Given
      <3> QED BY <2>2, <3>1, <3>3, HandFacts
    <2> QED BY <2>1, <2>2
  <1> QED BY <1>1, <1>2, <1>3 DEF Finds

\* Every step of a thread.
LEMMA ThreadEffect ==
    ASSUME IInv, NEW w \in Worker, workerCallback(w)
    PROVE  ThreadStep(w)
  <1>1. ASSUME WorkerStart(w) \/ WakeWithTask(w) PROVE ThreadStep(w)
    <2>1. /\ Fresh(w) /\ userTask[w] \in Task /\ Work(w, userTask[w])
          /\ UNCHANGED <<userTask, finished, num, mpc, submitted>>
          /\ UNCHANGED signaled \/ mpc # "fullWait"
      <3>1. CASE WorkerStart(w)
        <4>1. userTask[w] \in Task /\ mpc = "startWait"
          BY <3>1 DEF WorkerStart, IInv, TasksInHand, workerTypeOK, FlagsFollowMaster
        <4> QED BY <3>1, <4>1 DEF WorkerStart, Fresh, queueVars
      <3>2. CASE WakeWithTask(w)
        <4>1. userTask[w] \in Task
          BY <3>2 DEF WakeWithTask, IInv, workerTypeOK
        <4> QED BY <3>2, <4>1 DEF WakeWithTask, Fresh, queueVars, masterVars
      <3> QED BY <1>1, <3>1, <3>2
    <2>2. hand[w] = userTask[w] /\ hand[w] \in Task /\ hand \in [Worker -> Task \cup {NoTask}]
      BY <2>1, HandFacts
    <2>3. /\ hand' = [hand EXCEPT ![w] = userTask[w]]
          /\ starts' = [starts EXCEPT ![userTask[w]] = OneMore(@)]
          /\ ~Fresh(w)' /\ NoOtherFresh(w)
      BY <2>1, WorkEffect
    <2>4. hand' = hand
      BY <2>2, <2>3
    <2>5. Given' = Given
      BY <2>1 DEF Given
    <2> QED BY <2>1, <2>2, <2>3, <2>4, <2>5 DEF ThreadStep, Begins
  <1>2. ASSUME CallbackReturns(w) PROVE Finishes(w)
    BY <1>2, HandFacts DEF CallbackReturns, Finishes, Fresh
  <1>3. CASE TakeNext(w)
    BY <1>3, <1>2, FindEffect DEF TakeNext, ThreadStep
  <1>4. CASE WakeTakeNext(w)
    <2>1. hand[w] = NoTask
      BY <1>4, HandFacts DEF WakeTakeNext, Fresh
    <2> QED BY <1>4, <2>1, FindEffect DEF WakeTakeNext, ThreadStep
  <1>5. CASE EndInCleanup(w) \/ EndIdleless(w) \/ BecomeIdle(w)
    <2>1. /\ CallbackReturns(w) /\ UNCHANGED <<current, starts, num, mpc, submitted>>
          /\ \E s \in {"none", "waiting"} : wpc' = [wpc EXCEPT ![w] = s]
          /\ UNCHANGED userTask \/ userTask' = [userTask EXCEPT ![w] = NoTask]
      BY <1>5 DEF EndInCleanup, EndIdleless, BecomeIdle, ThreadReturns, ForgetTask,
         queueVars, masterVars
    <2>2. UNCHANGED signaled \/ mpc # "fullWait"
      BY <1>5 DEF EndInCleanup, EndIdleless, BecomeIdle, masterVars, IInv,
         FlagsFollowMaster
    <2>3. Given' = Given
      BY <2>1, <2>2 DEF Given
    <2>4. hand' = [hand EXCEPT ![w] = NoTask] /\ ~Fresh(w)' /\ NoOtherFresh(w)
      BY <2>1, RestEffect
    <2> QED BY <2>1, <2>3, <2>4, <1>2 DEF ThreadStep, Ends
  <1>6. CASE WakeEnd(w)
    <2>1. /\ wpc' = [wpc EXCEPT ![w] = "none"]
          /\ UNCHANGED <<current, userTask, starts, finished, num, mpc, submitted, signaled>>
          /\ hand[w] = NoTask
      BY <1>6, HandFacts DEF WakeEnd, ThreadReturns, queueVars, Fresh
    <2>2. hand' = [hand EXCEPT ![w] = NoTask] /\ ~Fresh(w)' /\ NoOtherFresh(w)
      BY <2>1, RestEffect
    <2>3. hand' = hand
      BY <2>1, <2>2, HandFacts
    <2>4. Given' = Given
      BY <2>1 DEF Given
    <2> QED BY <2>1, <2>2, <2>3, <2>4 DEF ThreadStep, Leaves, NoOtherFresh
  <1> QED BY <1>1, <1>3, <1>4, <1>5, <1>6 DEF workerCallback

\* Waking up idle threads without a task changes nothing.
LEMMA WakeEffect ==
    ASSUME IInv, NEW S \in SUBSET Worker, \A v \in S : wpc[v] = "waiting",
           \A v \in Worker : wpc'[v] = IF v \in S THEN "signaled" ELSE wpc[v],
           \A v \in Worker : userTask'[v] = userTask[v], UNCHANGED current
    PROVE  /\ hand' = hand
           /\ \A v \in Worker : Fresh(v)' /\ hand[v] # NoTask => Fresh(v)
  <1>1. \A v \in S : userTask[v] = NoTask /\ hand[v] = NoTask
    BY HandFacts DEF IInv, TasksInHand
  <1>2. \A v \in Worker : v \notin S => (Fresh(v)' <=> Fresh(v))
    BY DEF Fresh
  <1>3. \A v \in Worker : hand'[v] = hand[v]
    BY <1>1, <1>2 DEF hand, Fresh
  <1>4. hand' = hand
    BY <1>3 DEF hand
  <1> QED BY <1>1, <1>2, <1>4

\* The master gives task t to a thread that has none, and may wake up others.
LEMMA GiveEffect ==
    ASSUME IInv, NEW w \in Worker, wpc[w] \in {"none", "waiting"}, NEW t \in Task,
           NEW s \in {"created", "signaled"},
           NEW S \in SUBSET Worker, \A v \in S : wpc[v] = "waiting",
           \A v \in Worker : wpc'[v] = IF v = w THEN s
                                      ELSE IF v \in S THEN "signaled" ELSE wpc[v],
           userTask' = [userTask EXCEPT ![w] = t], UNCHANGED current
    PROVE  /\ hand[w] = NoTask
           /\ hand' = [hand EXCEPT ![w] = t]
           /\ NoOtherFresh(w)
  <1>0. userTask \in [Worker -> Task \cup {NoTask}]
    BY DEF IInv, workerTypeOK
  <1>1. \A v \in S : userTask[v] = NoTask /\ hand[v] = NoTask
    BY HandFacts DEF IInv, TasksInHand
  <1>2. \A v \in Worker : v \notin S /\ v # w => (Fresh(v)' <=> Fresh(v))
    BY DEF Fresh
  <1>3. \A v \in Worker : hand'[v] = IF v = w THEN t ELSE hand[v]
    BY <1>0, <1>1, <1>2 DEF hand, Fresh
  <1>4. hand' = [hand EXCEPT ![w] = t]
    BY <1>3 DEF hand
  <1> QED BY <1>1, <1>2, <1>4, HandFacts DEF NoOtherFresh

\* One round of runTask()'s loop: the task goes to a thread, or stays.
LEMMA RunEffect ==
    ASSUME IInv, runTask \/ RetryRun
    PROVE  Leaves \/ \E w \in Worker : Gives(w)
  <1>1. PICK t \in Task :
           /\ RunOrWait(t) /\ submitted' = t
           /\ \/ mpc = "ready" /\ submitted + 1 = t
              \/ mpc = "fullWait" /\ QueueLength > 0 /\ submitted = t
    <2>1. CASE runTask
      BY <2>1 DEF runTask, IInv, clientTypeOK, Task
    <2>2. CASE RetryRun
      BY <2>2 DEF RetryRun, IInv, clientTypeOK, Task, FlagsFollowMaster
    <2> QED BY <2>1, <2>2
  <1>2. /\ UNCHANGED <<starts, finished>> /\ signaled' = FALSE
        /\ Given = t - 1 - num /\ num \in Nat /\ t \in Nat
    BY <1>1, HandFacts DEF RunOrWait, Given, Task
  <1>3. ASSUME RunOnIdle(t) \/ RunOnNewThread(t)
        PROVE  /\ mpc' # "fullWait" /\ num = 0 /\ num' = 0
    BY <1>3, HandFacts DEF RunOnIdle, RunOnNewThread, queueVars, IInv,
       NoIdlerWhileTasksQueued
  <1>4. ASSUME NEW w \in Worker, hand[w] = NoTask, hand' = [hand EXCEPT ![w] = t],
               NoOtherFresh(w), mpc' # "fullWait", num = 0, num' = 0
        PROVE  Gives(w)
    <2>1. Given + 1 = t /\ Given' = t
      BY <1>1, <1>2, <1>4 DEF Given
    <2> QED BY <1>2, <1>4, <2>1 DEF Gives
  <1>5. CASE RunOnIdle(t)
    <2> DEFINE w == Top(idle)
               rest == listPop(idle)
               b == Bottom(rest)
    <2>1. /\ idle # <<>> /\ UNCHANGED current
          /\ userTask' = [userTask EXCEPT ![w] = t]
          /\ \/ wpc' = [wpc EXCEPT ![w] = "signaled"]
             \/ /\ rest # <<>>
                /\ wpc' = [wpc EXCEPT ![w] = "signaled", ![b] = "signaled"]
      BY <1>5, Zenon DEF RunOnIdle, TimeoutPossible
    <2>2. w \in Worker /\ wpc[w] = "waiting" /\ wpc \in [Worker -> WorkerState]
      BY <2>1, PoppedWorkers, ListFacts
    <2>3. rest # <<>> => b \in Worker /\ wpc[b] = "waiting"
      BY <2>1, RestOfIdle
    <2> HIDE DEF w, rest, b
    <2>4. PICK S \in SUBSET Worker :
             /\ \A v \in S : wpc[v] = "waiting"
             /\ \A v \in Worker : wpc'[v] = IF v = w THEN "signaled"
                                         ELSE IF v \in S THEN "signaled" ELSE wpc[v]
      <3>1. CASE wpc' = [wpc EXCEPT ![w] = "signaled"]
        <4> WITNESS {} \in SUBSET Worker
        <4> QED BY <3>1, <2>2
      <3>2. CASE rest # <<>> /\ wpc' = [wpc EXCEPT ![w] = "signaled", ![b] = "signaled"]
        <4>1. {b} \in SUBSET Worker
          BY <3>2, <2>3
        <4>2. \A v \in {b} : wpc[v] = "waiting"
          BY <3>2, <2>3
        <4>3. \A v \in Worker : wpc'[v] = IF v = w THEN "signaled"
                                       ELSE IF v \in {b} THEN "signaled" ELSE wpc[v]
          BY <3>2, <2>2, <2>3
        <4> QED BY <4>1, <4>2, <4>3
      <3> QED BY <2>1, <3>1, <3>2
    <2>5. hand[w] = NoTask /\ hand' = [hand EXCEPT ![w] = t] /\ NoOtherFresh(w)
      BY <2>1, <2>2, <2>4, GiveEffect, "signaled" \in {"created", "signaled"}
    <2> QED BY <1>3, <1>4, <1>5, <2>2, <2>5
  <1>6. CASE RunOnNewThread(t)
    <2> DEFINE w == Top(unused)
    <2>1. /\ unused # <<>> /\ UNCHANGED current
          /\ userTask' = [userTask EXCEPT ![w] = t]
          /\ wpc' = [wpc EXCEPT ![w] = "created"]
      BY <1>6 DEF RunOnNewThread
    <2>2. w \in Worker /\ wpc[w] = "none" /\ wpc \in [Worker -> WorkerState]
      BY <2>1, PoppedWorkers, ListFacts
    <2> HIDE DEF w
    <2>3. \A v \in Worker : wpc'[v] = IF v = w THEN "created"
                                   ELSE IF v \in {} THEN "signaled" ELSE wpc[v]
      BY <2>1, <2>2
    <2>4. hand[w] = NoTask /\ hand' = [hand EXCEPT ![w] = t] /\ NoOtherFresh(w)
      BY <2>1, <2>2, <2>3, GiveEffect, "created" \in {"created", "signaled"},
         {} \in SUBSET Worker
    <2> QED BY <1>3, <1>4, <1>6, <2>2, <2>4
  <1>7. CASE RunLater(t) \/ Block(t)
    <2>1. UNCHANGED workerVars
      BY <1>7 DEF RunLater, Block
    <2>2. hand' = hand /\ \A v \in Worker : Fresh(v)' <=> Fresh(v)
      BY <2>1 DEF workerVars, hand, Fresh
    <2>3. Given' = Given
      <3>1. CASE RunLater(t)
        BY <3>1, <1>1, <1>2 DEF RunLater, queueMakeNewEntry, Given
      <3>2. CASE Block(t)
        BY <3>2, <1>1, <1>2 DEF Block, Given
      <3> QED BY <1>7, <3>1, <3>2
    <2> QED BY <1>2, <2>2, <2>3 DEF Leaves
  <1> QED BY <1>1, <1>5, <1>6, <1>7 DEF RunOrWait

\* The other steps of the master leave the tasks where they are.
LEMMA MasterEffect ==
    ASSUME IInv, \/ checkIdleThreadTimeout \/ destroy \/ Joined \/ ThreadStarted
                 \/ HandoffTaken \/ CleanupDone \/ UNCHANGED vars
    PROVE  Leaves
  <1>t. wpc \in [Worker -> WorkerState] /\ userTask \in [Worker -> Task \cup {NoTask}]
    BY ListFacts DEF IInv, workerTypeOK
  <1>1. CASE checkIdleThreadTimeout
    <2> DEFINE b == Bottom(idle)
    <2>1. /\ idle # <<>> /\ wpc' = [wpc EXCEPT ![b] = "signaled"]
          /\ UNCHANGED <<userTask, current, finished, starts, num, mpc, submitted, signaled>>
      BY <1>1 DEF checkIdleThreadTimeout, TimeoutPossible, queueVars, masterVars, clientVars
    <2>2. b \in Worker /\ wpc[b] = "waiting"
      BY <2>1, PoppedWorkers
    <2> HIDE DEF b
    <2>3. \A v \in Worker : wpc'[v] = IF v \in {b} THEN "signaled" ELSE wpc[v]
      BY <2>1, <2>2, <1>t
    <2>4. /\ hand' = hand
          /\ \A v \in Worker : Fresh(v)' /\ hand[v] # NoTask => Fresh(v)
      BY <2>1, <2>2, <2>3, WakeEffect, {b} \in SUBSET Worker
    <2>5. Given' = Given
      BY <2>1 DEF Given
    <2> QED BY <2>1, <2>4, <2>5 DEF Leaves
  <1>2. CASE destroy \/ Joined
    <2>1. /\ DestroyRound /\ UNCHANGED <<finished, starts, num, submitted, current>>
          /\ mpc # "fullWait" /\ mpc' # "fullWait"
      BY <1>2 DEF destroy, Joined, DestroyRound, JoinIdle, AwaitWorkers, AllGone, queueVars
    <2>2. Given' = Given
      BY <2>1 DEF Given
    <2>3. CASE JoinIdle
      <3> DEFINE b == Top(idle)
      <3>1. /\ idle # <<>> /\ wpc' = [wpc EXCEPT ![b] = "signaled"]
            /\ userTask' = [userTask EXCEPT ![b] = NoTask]
        BY <2>3 DEF JoinIdle, ForgetTask
      <3>2. b \in Worker /\ wpc[b] = "waiting"
        BY <3>1, PoppedWorkers
      <3> HIDE DEF b
      <3>3. /\ \A v \in Worker : wpc'[v] = IF v \in {b} THEN "signaled" ELSE wpc[v]
            /\ \A v \in Worker : userTask'[v] = userTask[v]
        BY <3>1, <3>2, <1>t DEF IInv, TasksInHand
      <3>4. /\ hand' = hand
            /\ \A v \in Worker : Fresh(v)' /\ hand[v] # NoTask => Fresh(v)
        BY <2>1, <3>2, <3>3, WakeEffect, {b} \in SUBSET Worker
      <3> QED BY <2>1, <2>2, <3>4 DEF Leaves
    <2>4. CASE AwaitWorkers \/ AllGone
      <3>1. UNCHANGED <<wpc, userTask>>
        BY <2>4 DEF AwaitWorkers, AllGone
      <3>2. hand' = hand /\ \A v \in Worker : Fresh(v)' <=> Fresh(v)
        BY <2>1, <3>1 DEF hand, Fresh
      <3> QED BY <2>1, <2>2, <3>2 DEF Leaves
    <2> QED BY <2>1, <2>3, <2>4 DEF DestroyRound
  <1>3. CASE ThreadStarted \/ HandoffTaken \/ CleanupDone \/ UNCHANGED vars
    <2>1. UNCHANGED <<workerVars, num, submitted, finished, starts>>
      BY <1>3 DEF ThreadStarted, HandoffTaken, CleanupDone, vars, queueVars, clientVars
    <2>2. hand' = hand /\ \A v \in Worker : Fresh(v)' <=> Fresh(v)
      BY <2>1 DEF workerVars, hand, Fresh
    <2>3. Given' = Given
      BY <1>3, <2>1 DEF ThreadStarted, HandoffTaken, CleanupDone, vars, masterVars, Given
    <2> QED BY <2>1, <2>2, <2>3 DEF Leaves
  <1> QED BY <1>1, <1>2, <1>3

\* Every step of the pool.
LEMMA StepEffect ==
    ASSUME IInv, [Next]_vars
    PROVE  Leaves \/ \E w \in Worker : Gives(w) \/ ThreadStep(w)
  BY ThreadEffect, RunEffect, MasterEffect DEF Next, MasterContinues, Terminated

-----------------------------------------------------------------------------
(* Tasks are kept, and with a queue begun once.                            *)

\* TasksKept and StartsOnce as facts about hand h, finished f, Given g and starts s;
\* F is the set of the threads that have not begun their task.
Kept(h, f, g) ==
    /\ \A t \in 1 .. g : t \in f \/ \E w \in Worker : h[w] = t
    /\ f \subseteq 1 .. g
    /\ \A w \in Worker : h[w] \in Task => h[w] <= g

Once(h, f, g, s, F) ==
    \A t \in Task :
        /\ s[t] <= 1
        /\ \A v, w \in Worker : h[v] = t /\ h[w] = t => v = w
        /\ t \in f => \A w \in Worker : h[w] # t
        /\ t > g => s[t] = 0
        /\ \A w \in F : h[w] = t => s[t] = 0

FreshOnes == {w \in Worker : Fresh(w)}

LEMMA GivenBound ==
    ASSUME IInv
    PROVE  Given \in Int /\ Given <= NumTasks /\ 1 .. Given \subseteq Task
  <1>1. num \in Nat /\ submitted \in 0 .. NumTasks
    BY DEF IInv, queueTypeOK, clientTypeOK
  <1>2. Given \in Int /\ Given <= NumTasks
    BY <1>1 DEF Given
  <1> QED BY <1>2 DEF Task

LEMMA KeptMeansKept ==
    ASSUME IInv
    PROVE  /\ TasksKept <=> Kept(hand, finished, Given)
           /\ StartsOnce <=> (QueueLength > 0 =>
                                 Once(hand, finished, Given, starts, FreshOnes))
  <1>1. TasksKept <=> Kept(hand, finished, Given)
    BY HandFacts, GivenBound DEF TasksKept, Kept
  <1>2. \A w \in Worker, t \in Task :
           (wpc[w] \in {"created", "signaled"} /\ userTask[w] = t) <=>
              (w \in FreshOnes /\ hand[w] = t)
    BY DEF FreshOnes, Fresh, hand
  <1>3. StartsOnce <=> (QueueLength > 0 =>
                           Once(hand, finished, Given, starts, FreshOnes))
    BY HandFacts, <1>2 DEF StartsOnce, RunsOnce, Once, FreshOnes
  <1> QED BY <1>1, <1>3

LEMMA KeptMeansKeptNext ==
    ASSUME IInv'
    PROVE  /\ Kept(hand', finished', Given') => TasksKept'
           /\ (QueueLength > 0 =>
                 Once(hand', finished', Given', starts', FreshOnes')) => StartsOnce'
  <1>0. Given' \in Int /\ 1 .. Given' \subseteq Task
    <2>1. num' \in Nat /\ submitted' \in 0 .. NumTasks
      BY DEF IInv, queueTypeOK, clientTypeOK
    <2>2. Given' = submitted' - num' \/ Given' = submitted' - num' - 1
      <3>1. ASSUME NEW c \in {0, 1}, Given' = submitted' - num' - c
            PROVE  Given' = submitted' - num' \/ Given' = submitted' - num' - 1
        BY <2>1, <3>1
      <3>2. Given' = submitted' - num' - 0 \/ Given' = submitted' - num' - 1
        BY Zenon DEF Given
      <3> QED BY <3>1, <3>2
    <2>3. Given' \in Int /\ Given' <= NumTasks
      BY <2>1, <2>2
    <2> QED BY <2>3 DEF Task
  <1>1. Kept(hand', finished', Given') => TasksKept'
    BY HandFactsNext, <1>0 DEF TasksKept, Kept
  <1>2. \A w \in Worker, t \in Task :
           (wpc'[w] \in {"created", "signaled"} /\ userTask'[w] = t) <=>
              (w \in FreshOnes' /\ hand'[w] = t)
    BY DEF FreshOnes, Fresh, hand
  <1>3. (QueueLength > 0 => Once(hand', finished', Given', starts', FreshOnes'))
          => StartsOnce'
    BY HandFactsNext, <1>2 DEF StartsOnce, RunsOnce, Once, FreshOnes
  <1> QED BY <1>1, <1>3

\* A task that was given to a thread stays with it until it is finished.
LEMMA KeptStep ==
    ASSUME IInv, IInv', TasksKept, [Next]_vars
    PROVE  TasksKept'
  <1> DEFINE K == Kept(hand', finished', Given')
  <1>1. /\ hand \in [Worker -> Task \cup {NoTask}] /\ NoTask \notin Task
        /\ Given \in Int /\ finished \subseteq Task
        /\ Kept(hand, finished, Given)
    BY HandFacts, KeptMeansKept DEF IInv, clientTypeOK
  <1>2. ASSUME Leaves PROVE K
    BY <1>1, <1>2 DEF Leaves, Kept
  <1>3. ASSUME NEW w \in Worker, Gives(w) PROVE K
    BY <1>1, <1>3 DEF Gives, Kept, Task
  <1>4. ASSUME NEW w \in Worker, ThreadStep(w) PROVE K
    <2>1. CASE Begins(w)
      BY <1>1, <2>1 DEF Begins, Kept
    <2>2. CASE Ends(w)
      <3>1. /\ hand[w] \in Task /\ hand[w] \in 1 .. Given /\ finished' = finished \cup {hand[w]}
            /\ Given' = Given /\ hand'[w] = NoTask
            /\ \A v \in Worker : v # w => hand'[v] = hand[v]
        BY <1>1, <2>2 DEF Ends, Finishes, Kept, Task
      <3> QED BY <1>1, <3>1 DEF Kept
    <2>3. ASSUME NEW t \in Task, Finds(w, t), Finishes(w) PROVE K
      <3>1. /\ hand[w] \in Task /\ hand[w] \in 1 .. Given /\ finished' = finished \cup {hand[w]}
            /\ hand'[w] = t
            /\ \A v \in Worker : v # w => hand'[v] = hand[v]
        BY <1>1, <2>3 DEF Finds, Finishes, Kept, Task
      <3>2. (Given' = Given /\ t = Given) \/ (t = Given + 1 /\ Given' = Given + 1)
        BY <2>3 DEF Finds
      <3>3. \A u \in 1 .. Given' : u \in finished' \/ \E v \in Worker : hand'[v] = u
        <4> TAKE u \in 1 .. Given'
        <4>1. CASE u = t
          BY <4>1, <3>1
        <4>2. CASE u # t
          <5>1. u \in 1 .. Given
            BY <4>2, <3>2, <1>1
          <5>2. u \in finished \/ \E v \in Worker : hand[v] = u
            BY <5>1, <1>1 DEF Kept
          <5> QED BY <5>2, <3>1
        <4> QED BY <4>1, <4>2
      <3>4. finished' \subseteq 1 .. Given'
        <4>1. \A u \in 1 .. Given : u \in 1 .. Given'
          BY <1>1, <3>2
        <4>2. finished \subseteq 1 .. Given
          BY <1>1 DEF Kept
        <4> QED BY <3>1, <4>1, <4>2
      <3>5. \A v \in Worker : hand'[v] \in Task => hand'[v] <= Given'
        BY <1>1, <3>1, <3>2 DEF Kept, Task
      <3> QED BY <3>3, <3>4, <3>5 DEF Kept
    <2>4. ASSUME NEW t \in Task, Finds(w, t), hand[w] = NoTask, UNCHANGED finished
          PROVE  K
      BY <1>1, <2>4 DEF Finds, Kept, Task
    <2>5. CASE Leaves
      BY <1>1, <2>5 DEF Leaves, Kept
    <2> QED BY <1>4, <2>1, <2>2, <2>3, <2>4, <2>5 DEF ThreadStep
  <1>5. K
    BY <1>2, <1>3, <1>4, StepEffect
  <1> QED BY <1>5, KeptMeansKeptNext

\* With a queue no task is given or begun twice.
LEMMA OnceStep ==
    ASSUME IInv, IInv', TasksKept, StartsOnce, [Next]_vars
    PROVE  StartsOnce'
  <1> SUFFICES ASSUME QueueLength > 0
               PROVE  Once(hand', finished', Given', starts', FreshOnes')
    BY KeptMeansKeptNext
  <1> DEFINE O == Once(hand', finished', Given', starts', FreshOnes')
  <1>1. /\ hand \in [Worker -> Task \cup {NoTask}] /\ NoTask \notin Task
        /\ Given \in Int /\ starts \in [Task -> 0 .. 2]
        /\ Kept(hand, finished, Given)
        /\ Once(hand, finished, Given, starts, FreshOnes)
    BY HandFacts, KeptMeansKept DEF IInv, clientTypeOK
  <1>2. \A t \in Task : starts[t] = 0 => OneMore(starts[t]) = 1
    BY <1>1 DEF OneMore
  <1>l. ASSUME Leaves PROVE O
    <2>1. \A t \in Task, v \in FreshOnes' : hand[v] = t => v \in FreshOnes
      BY <1>l, <1>1 DEF Leaves, FreshOnes
    <2> QED BY <1>1, <1>l, <2>1 DEF Leaves, Once
  <1>o. ASSUME NEW w \in Worker, NoOtherFresh(w)
        PROVE  \A t \in Task, v \in FreshOnes' : v # w /\ hand[v] = t => v \in FreshOnes
    BY <1>o, <1>1 DEF NoOtherFresh, FreshOnes
  <1>3. ASSUME NEW w \in Worker, Gives(w) PROVE O
    <2>1. \A t \in Task, v \in FreshOnes' : v # w /\ hand[v] = t => v \in FreshOnes
      BY <1>3, <1>o DEF Gives
    <2>2. starts[Given + 1] = 0 /\ Given + 1 \notin finished
          /\ \A v \in Worker : hand[v] # Given + 1
      BY <1>1, <1>3 DEF Gives, Once, Kept, Task
    <2> QED BY <1>1, <1>3, <2>1, <2>2 DEF Gives, Once, FreshOnes, Task
  <1>4. ASSUME NEW w \in Worker, ThreadStep(w) PROVE O
    <2>1. CASE Begins(w)
      <3> DEFINE t == hand[w]
      <3>1. \A u \in Task, v \in FreshOnes' : v # w /\ hand[v] = u => v \in FreshOnes
        BY <2>1, <1>o DEF Begins
      <3>2. t \in Task /\ starts[t] = 0 /\ t <= Given /\ w \notin FreshOnes'
        BY <1>1, <2>1 DEF Begins, Once, Kept, FreshOnes
      <3>3. \A u \in Task : starts'[u] = IF u = t THEN 1 ELSE starts[u]
        BY <1>1, <1>2, <2>1, <3>2 DEF Begins
      <3>4. hand' = hand /\ Given' = Given /\ finished' = finished
        BY <2>1 DEF Begins
      <3>5. \A v \in FreshOnes' : v \in Worker
        BY DEF FreshOnes
      <3> QED BY <1>1, <3>1, <3>2, <3>3, <3>4, <3>5 DEF Once, Task
    <2>2. CASE Ends(w)
      <3>1. \A u \in Task, v \in FreshOnes' : v # w /\ hand[v] = u => v \in FreshOnes
        BY <2>2, <1>o DEF Ends
      <3>2. \A v \in FreshOnes' : v \in Worker
        BY DEF FreshOnes
      <3> QED BY <1>1, <2>2, <3>1, <3>2 DEF Ends, Finishes, Once
    <2>3. ASSUME NEW t \in Task, Finds(w, t),
                 Finishes(w) \/ (hand[w] = NoTask /\ UNCHANGED finished)
          PROVE  O
      <3>1. \A u \in Task, v \in FreshOnes' : v # w /\ hand[v] = u => v \in FreshOnes
        BY <2>3, <1>o DEF Finds
      <3>2. t = Given + 1 /\ Given' = Given + 1 /\ w \notin FreshOnes'
            /\ hand' = [hand EXCEPT ![w] = t]
        BY <2>3 DEF Finds, FreshOnes
      <3>3. starts[t] = 0 /\ t \notin finished /\ \A v \in Worker : hand[v] # t
        BY <1>1, <3>2 DEF Once, Kept, Task
      <3>4. \A u \in Task : starts'[u] = IF u = t THEN 1 ELSE starts[u]
        BY <1>1, <1>2, <2>3, <3>3 DEF Finds
      <3>5. \A v \in FreshOnes' : v \in Worker
        BY DEF FreshOnes
      <3>6. finished' = finished \/ (hand[w] \in Task /\ finished' = finished \cup {hand[w]})
        BY <2>3 DEF Finishes
      <3> QED BY <1>1, <3>1, <3>2, <3>3, <3>4, <3>5, <3>6 DEF Once, Task
    <2>4. CASE Leaves
      BY <2>4, <1>l
    <2> QED BY <1>4, <2>1, <2>2, <2>3, <2>4 DEF ThreadStep
  <1> QED BY <1>l, <1>3, <1>4, StepEffect

-----------------------------------------------------------------------------
(* Threads that end, and the end of the pool.                              *)

\* The worker's own part of the state: a thread's step leaves the master alone.
LEMMA ThreadLeavesMaster ==
    ASSUME NEW w \in Worker, workerCallback(w)
    PROVE  UNCHANGED <<flagVars, mpc, mtask, joining, submitted>>
  BY DEF workerCallback, WorkerStart, TakeNext, EndInCleanup, BecomeIdle, EndIdleless,
     WakeWithTask, WakeTakeNext, WakeEnd, lookForWork, ThreadReturns, masterVars

\* Only the thread that is being joined ends without being detached.
LEMMA JoinsStep ==
    ASSUME IInv, JoinsInStep, [Next]_vars
    PROVE  JoinsInStep'
  <1>0. /\ wpc \in [Worker -> WorkerState] /\ detachThread \in BOOLEAN
        /\ userTask \in [Worker -> Task \cup {NoTask}] /\ NoTask \notin Task
    BY ListFacts, HandFacts DEF IInv, workerTypeOK, flagTypeOK
  <1>1. /\ ~detachThread => mpc = "joinWait"
        /\ MaxIdleTime = 0 => idle = <<>> /\ mpc # "joinWait"
        /\ MaxIdleTime <= 0 => NoThreadLeaked
        /\ MaxIdleTime <= 0 => \A v \in Worker :
              wpc[v] = "signaled" /\ userTask[v] = NoTask => mpc = "joinWait" /\ v = joining
    BY DEF JoinsInStep
  <1>w. ASSUME NEW w \in Worker, workerCallback(w) PROVE JoinsInStep'
    <2>1. mpc' = mpc /\ joining' = joining /\ detachThread' = detachThread
      BY <1>w, ThreadLeavesMaster DEF flagVars
    <2>2. MaxIdleTime = 0 => idle' = <<>>
      BY <1>w, <1>1 DEF workerCallback, WorkerStart, TakeNext, EndInCleanup, BecomeIdle,
         EndIdleless, WakeWithTask, WakeTakeNext, WakeEnd, lookForWork, ThreadReturns,
         listVars
    <2>3. /\ \E s \in {"working", "none", "waiting"} : wpc' = [wpc EXCEPT ![w] = s]
          /\ \A v \in Worker : v # w => userTask'[v] = userTask[v]
      BY <1>w, <1>0 DEF workerCallback, WorkerStart, TakeNext, EndInCleanup, BecomeIdle,
         EndIdleless, WakeWithTask, WakeTakeNext, WakeEnd, lookForWork, ThreadReturns,
         Work, ForgetTask
    <2>4. MaxIdleTime <= 0 => \A v \in Worker :
             wpc'[v] = "signaled" /\ userTask'[v] = NoTask => mpc' = "joinWait" /\ v = joining'
      BY <2>1, <2>3, <1>0, <1>1
    <2>5. zombies' = zombies \/ (~detachThread /\ ThreadReturns(w))
      BY <1>w DEF workerCallback, WorkerStart, TakeNext, EndInCleanup, BecomeIdle,
         EndIdleless, WakeWithTask, WakeTakeNext, WakeEnd, lookForWork, ThreadReturns
    <2>6. ASSUME MaxIdleTime <= 0 PROVE NoThreadLeaked'
      <3>1. CASE zombies' = zombies
        BY <3>1, <2>1, <2>6, <1>1 DEF NoThreadLeaked
      <3>2. CASE ~detachThread /\ ThreadReturns(w)
        <4>1. mpc = "joinWait" /\ MaxIdleTime # 0 /\ ~cleanup
          BY <3>2, <1>1 DEF IInv, FlagsFollowMaster
        <4>2. wpc'[w] = "none"
          BY <3>2, <1>0 DEF ThreadReturns
        <4>3. ~WorkerStart(w) /\ ~TakeNext(w) /\ ~WakeWithTask(w) /\ ~WakeTakeNext(w)
              /\ ~BecomeIdle(w)
          BY <4>2, <1>0 DEF WorkerStart, TakeNext, WakeWithTask, WakeTakeNext, BecomeIdle,
             lookForWork, Work
        <4>4. WakeEnd(w)
          BY <1>w, <4>1, <4>3 DEF workerCallback, EndInCleanup, EndIdleless
        <4>5. w = joining
          BY <4>4, <2>6, <1>1 DEF WakeEnd
        <4>6. zombies' = zombies \cup {w}
          BY <3>2 DEF ThreadReturns
        <4> QED BY <4>1, <4>5, <4>6, <2>1, <2>6, <1>1 DEF NoThreadLeaked
      <3> QED BY <2>5, <3>1, <3>2
    <2> QED BY <2>1, <2>2, <2>4, <2>6, <1>1 DEF JoinsInStep
  \* Outside destroy() nobody is joined, and nobody wakes up without a task.
  <1>m. ASSUME mpc # "joinWait", mpc' # "joinWait", detachThread' = detachThread,
               zombies' = zombies, MaxIdleTime = 0 => idle' = <<>>,
               MaxIdleTime <= 0 => \A v \in Worker :
                  wpc'[v] = "signaled" /\ userTask'[v] = NoTask =>
                     wpc[v] = "signaled" /\ userTask[v] = NoTask
        PROVE  JoinsInStep'
    BY <1>m, <1>1 DEF JoinsInStep, NoThreadLeaked
  <1>r. ASSUME runTask \/ RetryRun PROVE JoinsInStep'
    <2>1. PICK t \in Task : RunOrWait(t)
      BY <1>r DEF runTask, RetryRun, IInv, clientTypeOK, Task, FlagsFollowMaster
    <2>2. /\ mpc # "joinWait" /\ mpc' # "joinWait" /\ detachThread' = detachThread
          /\ zombies' = zombies
      BY <1>r, <2>1 DEF runTask, RetryRun, RunOrWait, RunOnIdle, RunOnNewThread, RunLater,
         Block
    <2>3. CASE RunOnIdle(t)
      <3> DEFINE w == Top(idle)
      <3>1. idle # <<>>
        BY <2>3 DEF RunOnIdle
      <3>2. w \in Worker
        BY <3>1, PoppedWorkers
      <3>3. /\ userTask' = [userTask EXCEPT ![w] = t]
            /\ MaxIdleTime <= 0 => wpc' = [wpc EXCEPT ![w] = "signaled"]
        BY <2>3 DEF RunOnIdle, TimeoutPossible
      <3> HIDE DEF w
      <3>4. MaxIdleTime <= 0 => \A v \in Worker :
               wpc'[v] = "signaled" /\ userTask'[v] = NoTask =>
                  wpc[v] = "signaled" /\ userTask[v] = NoTask
        BY <3>2, <3>3, <1>0
      <3> QED BY <3>1, <3>4, <2>2, <1>1, <1>m
    <2>4. CASE RunOnNewThread(t)
      <3> DEFINE w == Top(unused)
      <3>1. /\ userTask' = [userTask EXCEPT ![w] = t] /\ idle' = idle
            /\ wpc' = [wpc EXCEPT ![w] = "created"]
        BY <2>4 DEF RunOnNewThread
      <3> HIDE DEF w
      <3>2. \A v \in Worker : wpc'[v] = "signaled" /\ userTask'[v] = NoTask =>
               wpc[v] = "signaled" /\ userTask[v] = NoTask
        BY <3>1, <1>0
      <3> QED BY <3>1, <3>2, <2>2, <1>1, <1>m
    <2>5. CASE RunLater(t) \/ Block(t)
      <3>1. UNCHANGED <<idle, wpc, userTask>>
        BY <2>5 DEF RunLater, Block, listVars, workerVars
      <3> QED BY <3>1, <2>2, <1>1, <1>m
    <2> QED BY <2>1, <2>3, <2>4, <2>5 DEF RunOrWait
  <1>c. ASSUME checkIdleThreadTimeout PROVE JoinsInStep'
    BY <1>c, <1>1 DEF checkIdleThreadTimeout, TimeoutPossible, flagVars, masterVars,
       JoinsInStep
  <1>d. ASSUME destroy \/ Joined PROVE JoinsInStep'
    <2>1. /\ DestroyRound
          /\ MaxIdleTime <= 0 => zombies' = {}
          /\ MaxIdleTime <= 0 => \A v \in Worker :
                ~(wpc[v] = "signaled" /\ userTask[v] = NoTask)
      BY <1>d, <1>1 DEF destroy, Joined, NoThreadLeaked
    <2>2. CASE JoinIdle
      <3> DEFINE w == Top(idle)
      <3>1. /\ idle # <<>> /\ mpc' = "joinWait" /\ joining' = w
            /\ wpc' = [wpc EXCEPT ![w] = "signaled"]
            /\ userTask' = [userTask EXCEPT ![w] = NoTask]
        BY <2>2 DEF JoinIdle, ForgetTask
      <3> HIDE DEF w
      <3>2. \A v \in Worker : v # w => wpc'[v] = wpc[v] /\ userTask'[v] = userTask[v]
        BY <3>1, <1>0
      <3> QED BY <3>1, <3>2, <2>1, <1>1 DEF JoinsInStep, NoThreadLeaked
    <2>3. CASE AwaitWorkers \/ AllGone
      <3>1. /\ idle' = <<>> /\ mpc' # "joinWait" /\ detachThread' = TRUE
            /\ wpc' = wpc /\ userTask' = userTask
        BY <2>3 DEF AwaitWorkers, AllGone, DetachAgain
      <3> QED BY <3>1, <2>1 DEF JoinsInStep, NoThreadLeaked
    <2> QED BY <2>1, <2>2, <2>3 DEF DestroyRound
  <1>s. ASSUME ThreadStarted \/ HandoffTaken \/ CleanupDone PROVE JoinsInStep'
    <2>1. /\ mpc # "joinWait" /\ mpc' # "joinWait"
          /\ UNCHANGED <<detachThread, zombies, idle, wpc, userTask>>
      BY <1>s DEF ThreadStarted, HandoffTaken, CleanupDone, flagVars, clientVars, listVars,
         workerVars
    <2> QED BY <2>1, <1>1, <1>m
  <1>u. ASSUME UNCHANGED vars PROVE JoinsInStep'
    BY <1>u, <1>1 DEF vars, flagVars, clientVars, listVars, workerVars, masterVars,
       JoinsInStep, NoThreadLeaked
  <1> QED BY <1>w, <1>r, <1>c, <1>d, <1>s, <1>u DEF Next, MasterContinues, Terminated

\* The last thread of the pool: there is no other.
LEMMA LastOne ==
    ASSUME IInv, mpc # "startWait"
    PROVE  /\ num_threads = 0 => \A v \in Worker : wpc[v] = "none"
           /\ \A w \in Worker :
                 num_threads = 1 /\ wpc[w] = "working" =>
                    \A v \in Worker : v # w => wpc[v] = "none"
  <1>1. \A v \in Worker : v \notin Live => wpc[v] = "none"
    BY ListFacts DEF Live, IInv, FlagsFollowMaster
  <1>2. num_threads = Cardinality(Live) /\ IsFiniteSet(Live)
    BY LiveFinite DEF IInv, WorkersAccounted
  <1>3. num_threads = 0 => Live = {}
    BY <1>2, FS_EmptySet
  <1>4. ASSUME NEW w \in Worker, num_threads = 1, wpc[w] = "working"
        PROVE  Live = {w}
    <2>1. {w} \in SUBSET Live
      BY <1>4 DEF Live
    <2>2. Cardinality({w}) = 1
      BY FS_Singleton
    <2> QED BY <2>1, <2>2, <1>2, <1>4, FS_Subset
  <1> QED BY <1>1, <1>3, <1>4

\* destroy() is told that the pool is empty only when it is.
LEMMA GoneStep ==
    ASSUME IInv, GoneInStep, [Next]_vars
    PROVE  GoneInStep'
  <1>0. wpc \in [Worker -> WorkerState] /\ signaled \in BOOLEAN
    BY ListFacts DEF IInv, masterTypeOK
  <1>w. ASSUME NEW w \in Worker, workerCallback(w) PROVE GoneInStep'
    <2>1. mpc' = mpc
      BY <1>w, ThreadLeavesMaster
    <2>2. wpc[w] # "none"
      BY <1>w DEF workerCallback, WorkerStart, TakeNext, EndInCleanup, BecomeIdle,
         EndIdleless, WakeWithTask, WakeTakeNext, WakeEnd, CallbackReturns
    <2>3. mpc # "destroyed" /\ ~(mpc = "cleanupWait" /\ signaled)
      BY <2>2 DEF GoneInStep
    <2>4. CASE EndInCleanup(w) /\ LastThread
      <3>1. /\ wpc[w] = "working" /\ num_threads = 1 /\ mpc # "startWait"
            /\ wpc' = [wpc EXCEPT ![w] = "none"]
        BY <2>4 DEF EndInCleanup, LastThread, CallbackReturns, ThreadReturns, IInv,
           FlagsFollowMaster
      <3>2. \A v \in Worker : wpc'[v] = "none"
        BY <3>1, <1>0, LastOne
      <3> QED BY <3>2 DEF GoneInStep
    <2>5. CASE ~(EndInCleanup(w) /\ LastThread)
      <3>1. signaled' = signaled \/ mpc \in {"startWait", "fullWait"}
        BY <1>w, <2>5 DEF workerCallback, WorkerStart, TakeNext, EndInCleanup, BecomeIdle,
           EndIdleless, WakeWithTask, WakeTakeNext, WakeEnd, lookForWork, masterVars,
           WakeBlockedMaster, IInv, FlagsFollowMaster
      <3> QED BY <2>1, <2>3, <3>1 DEF GoneInStep
    <2> QED BY <2>4, <2>5
  <1>r. ASSUME runTask \/ RetryRun PROVE GoneInStep'
    <2>1. mpc' \in {"ready", "startWait", "fullWait"}
      BY <1>r DEF runTask, RetryRun, RunOrWait, RunOnIdle, RunOnNewThread, RunLater, Block
    <2> QED BY <2>1 DEF GoneInStep
  <1>d. ASSUME destroy \/ Joined PROVE GoneInStep'
    <2>1. /\ JoinIdle \/ AwaitWorkers \/ AllGone
          /\ signaled' = FALSE /\ mpc # "startWait"
      BY <1>d DEF destroy, Joined, DestroyRound
    <2>2. CASE JoinIdle \/ AwaitWorkers
      BY <2>1, <2>2 DEF JoinIdle, AwaitWorkers, GoneInStep
    <2>3. CASE AllGone
      BY <2>1, <2>3, LastOne DEF AllGone, GoneInStep
    <2> QED BY <2>1, <2>2, <2>3
  <1>s. ASSUME ThreadStarted \/ HandoffTaken \/ checkIdleThreadTimeout PROVE GoneInStep'
    <2>1. mpc' = "ready"
      BY <1>s DEF ThreadStarted, HandoffTaken, checkIdleThreadTimeout, masterVars
    <2> QED BY <2>1 DEF GoneInStep
  <1>e. ASSUME CleanupDone PROVE GoneInStep'
    BY <1>e DEF CleanupDone, workerVars, GoneInStep
  <1>u. ASSUME UNCHANGED vars PROVE GoneInStep'
    BY <1>u DEF vars, workerVars, masterVars, GoneInStep
  <1> QED BY <1>w, <1>r, <1>d, <1>s, <1>e, <1>u DEF Next, MasterContinues, Terminated

-----------------------------------------------------------------------------
(* The theorems.                                                           *)

LEMMA InitTaskInv == Init => TaskInv
  <1> SUFFICES ASSUME Init PROVE TaskInv
    OBVIOUS
  <1> USE DEF Init
  <1>1. Given = 0
    BY DEF Given
  <1>2. TasksKept
    BY <1>1 DEF TasksKept, Holds
  <1>3. StartsOnce
    BY <1>1 DEF StartsOnce, RunsOnce, Holds
  <1>4. JoinsInStep /\ GoneInStep
    BY DEF JoinsInStep, GoneInStep, NoThreadLeaked
  <1> QED BY <1>2, <1>3, <1>4 DEF TaskInv

\* The second invariant is inductive relative to the first.
THEOREM TaskInvariance == Spec => [](IInv /\ TaskInv)
  <1>1. IInv /\ IInv' /\ TaskInv /\ [Next]_vars => TaskInv'
    BY KeptStep, OnceStep, JoinsStep, GoneStep DEF TaskInv
  <1> QED BY InitTaskInv, <1>1, Invariance, PTL DEF Spec

\* A queue means that each task given to runTask() is at every moment in exactly
\* one place between its caller and its end, and its callback is called once, for
\* every number of threads and tasks and every idle time.
THEOREM TasksRunOnce == ASSUME QueueLength > 0 PROVE Spec => []EachTaskOnce
  <1>1. IInv /\ TaskInv => EachTaskOnce
    <2> SUFFICES ASSUME IInv, TaskInv PROVE EachTaskOnce
      OBVIOUS
    <2>1. RunsOnce
      BY DEF TaskInv, StartsOnce
    <2>2. NoTaskLost
      <3>1. /\ num \in 0 .. QueueLength /\ submitted \in Nat
            /\ Given = LastHandedIn - num /\ Given \in Int
            /\ mpc = "fullWait" => mtask = submitted /\ LastHandedIn = submitted - 1
            /\ mpc # "fullWait" => LastHandedIn = submitted
        BY HandFacts DEF IInv, queueTypeOK, FlagsFollowMaster, LastHandedIn
      <3> SUFFICES ASSUME NEW t \in 1 .. submitted
                   PROVE  \/ t \in finished
                          \/ \E w \in Worker : Holds(w, t)
                          \/ \E k \in 0 .. num - 1 :
                                slot[(nextReadIndex + k) % QueueLength] = t
                          \/ mpc = "fullWait" /\ mtask = t
        BY DEF NoTaskLost
      <3>2. CASE t <= Given
        BY <3>1, <3>2 DEF TaskInv, TasksKept
      <3>3. CASE t > Given /\ t <= LastHandedIn
        <4> DEFINE k == t - Given - 1
        <4>1. k \in 0 .. num - 1 /\ LastHandedIn - num + 1 + k = t
          BY <3>1, <3>3
        <4>2. \A j \in 0 .. num - 1 :
                 slot[(nextReadIndex + j) % QueueLength] = LastHandedIn - num + 1 + j
          BY DEF IInv, RingInOrder
        <4> HIDE DEF k
        <4>3. slot[(nextReadIndex + k) % QueueLength] = t
          BY <4>1, <4>2
        <4> QED BY <4>1, <4>3
      <3>4. CASE t > LastHandedIn
        BY <3>1, <3>4
      <3> QED BY <3>1, <3>2, <3>3, <3>4
    <2> QED BY <2>1, <2>2 DEF EachTaskOnce
  <1> QED BY <1>1, TaskInvariance, PTL

\* A pool without threads has no tasks left.
LEMMA NothingLeftToDo ==
    ASSUME IInv, TasksKept, \A w \in Worker : wpc[w] = "none", mpc # "fullWait"
    PROVE  finished = 1 .. submitted /\ num = 0
  <1>1. num = 0
    <2>1. 0 \in Worker /\ wpc[0] = "none"
      BY DEF Worker
    <2>2. unused # <<>>
      BY <2>1, ListFacts DEF Lists
    <2> QED BY <2>2, HandFacts DEF IInv, NoIdlerWhileTasksQueued
  <1>2. Given = submitted
    BY <1>1, HandFacts DEF Given
  <1>3. \A w \in Worker, t \in Task : ~Holds(w, t)
    BY DEF Holds
  <1>4. 1 .. submitted \subseteq Task
    BY <1>2, GivenBound
  <1> QED BY <1>1, <1>2, <1>3, <1>4 DEF TasksKept

\* When poThreadPool_destroy() returns all tasks are finished and no thread is
\* left, and without an idle timeout every thread was detached or joined, for
\* every size of the pool, with or without a queue.
THEOREM DestroyLeavesQuiet == Spec => []DestroyedIsQuiet
  <1>1. IInv /\ TaskInv => DestroyedIsQuiet
    BY NothingLeftToDo DEF TaskInv, JoinsInStep, GoneInStep, DestroyedIsQuiet
  <1> QED BY <1>1, TaskInvariance, PTL

-----------------------------------------------------------------------------
(* The pool implements TaskExecutor.                                       *)

\* While a thread has no task, fewer than MaxNumThreads tasks are in progress.
LEMMA RoomForOne ==
    ASSUME IInv, TasksKept, QueueLength > 0,
           NEW w \in Worker, hand[w] = NoTask
    PROVE  Given - Cardinality(finished) < MaxNumThreads
  <1>0. /\ Kept(hand, finished, Given) /\ Given \in Nat
        /\ hand \in [Worker -> Task \cup {NoTask}] /\ NoTask \notin Task
        /\ 1 .. Given \subseteq Task
    <2>1. Given \in Nat
      BY HandFacts DEF IInv, TasksInHand, LastHandedIn
    <2> QED BY <2>1, KeptMeansKept, HandFacts, GivenBound
  <1> DEFINE T == (1 .. Given) \ finished
             S == {v \in Worker : hand[v] \in T}
             f == [v \in S |-> hand[v]]
  <1>1. IsFiniteSet(1 .. Given) /\ Cardinality(1 .. Given) = Given
    BY <1>0, FS_Interval
  <1>2. IsFiniteSet(T) /\ Cardinality(T) = Given - Cardinality(finished)
    <2>1. (1 .. Given) \cap finished = finished
      BY <1>0 DEF Kept
    <2>2. /\ IsFiniteSet((1 .. Given) \ finished)
          /\ Cardinality((1 .. Given) \ finished)
                = Cardinality(1 .. Given) - Cardinality((1 .. Given) \cap finished)
      BY <1>1, FS_Difference, Zenon
    <2> QED BY <1>1, <2>1, <2>2, Zenon
  <1>3. IsFiniteSet(Worker) /\ Cardinality(Worker) = MaxNumThreads
    BY FS_Interval DEF Worker
  <1>4. IsFiniteSet(Worker \ {w}) /\ Cardinality(Worker \ {w}) = MaxNumThreads - 1
    BY <1>3, FS_RemoveElement
  <1>5. S \in SUBSET (Worker \ {w})
    BY <1>0
  <1>6. /\ IsFiniteSet(S) /\ Cardinality(S) <= MaxNumThreads - 1
        /\ Cardinality(S) \in Nat
    BY <1>4, <1>5, FS_Subset, FS_CardinalityType
  <1>7. f \in Surjection(S, T)
    <2>1. f \in [S -> T]
      OBVIOUS
    <2>2. \A t \in T : \E v \in S : f[v] = t
      BY <1>0 DEF Kept
    <2> QED BY <2>1, <2>2 DEF Surjection
  <1>8. Cardinality(T) <= Cardinality(S)
    BY <1>6, <1>7, FS_Surjection
  <1>9. Cardinality(T) \in Nat
    BY <1>2, FS_CardinalityType
  <1> HIDE DEF T, S, f
  <1> QED BY <1>2, <1>6, <1>8, <1>9

\* What the clients of the pool see of a step.
LEMMA ClientSees ==
    ASSUME IInv, [Next]_vars
    PROVE  \/ submitted' = submitted
           \/ /\ mpc = "ready" /\ submitted' = submitted + 1
              /\ Leaves \/ \E w \in Worker : Gives(w)
  <1>1. ASSUME runTask
        PROVE  /\ mpc = "ready" /\ submitted' = submitted + 1
               /\ Leaves \/ \E w \in Worker : Gives(w)
    BY <1>1, RunEffect DEF runTask
  <1>2. ASSUME NEW w \in Worker, workerCallback(w) PROVE submitted' = submitted
    BY <1>2, ThreadLeavesMaster
  <1> QED BY <1>1, <1>2 DEF Next, MasterContinues, Terminated, RetryRun,
          checkIdleThreadTimeout, destroy, Joined, DestroyRound, ThreadStarted,
          HandoffTaken, CleanupDone, vars, clientVars

\* The pool becomes destroyed by itself, when nothing is left to do, and stays so.
LEMMA ClosedEffect ==
    ASSUME IInv, IInv', TaskInv, TaskInv', [Next]_vars
    PROVE  \/ (mpc' = "destroyed") <=> (mpc = "destroyed")
           \/ /\ mpc \notin {"destroyed", "fullWait"} /\ mpc' = "destroyed"
              /\ UNCHANGED <<num, finished, submitted>>
              /\ finished = 1 .. submitted
  <1>1. ASSUME mpc # "destroyed", mpc' = "destroyed"
        PROVE  destroy \/ Joined \/ CleanupDone
    <2>1. ASSUME NEW w \in Worker, workerCallback(w) PROVE FALSE
      BY <1>1, <2>1, ThreadLeavesMaster
    <2> QED BY <1>1, <2>1 DEF Next, MasterContinues, Terminated, runTask, RetryRun,
            RunOrWait, RunOnIdle, RunOnNewThread, RunLater, Block, ThreadStarted,
            HandoffTaken, checkIdleThreadTimeout, vars, masterVars
  <1>2. ASSUME mpc # "destroyed", mpc' = "destroyed"
        PROVE  /\ mpc # "fullWait" /\ UNCHANGED <<num, finished, submitted, wpc>>
    BY <1>1, <1>2 DEF destroy, Joined, CleanupDone, DestroyRound, JoinIdle, AwaitWorkers,
       AllGone, queueVars, clientVars, workerVars
  <1>3. ASSUME mpc # "destroyed", mpc' = "destroyed" PROVE finished = 1 .. submitted
    <2>1. \A w \in Worker : wpc[w] = "none"
      BY <1>2, <1>3 DEF TaskInv, GoneInStep
    <2> QED BY <1>2, <1>3, <2>1, NothingLeftToDo DEF TaskInv
  <1>4. ASSUME mpc = "destroyed" PROVE mpc' = "destroyed"
    <2>1. ASSUME NEW w \in Worker, workerCallback(w) PROVE mpc' = mpc
      BY <2>1, ThreadLeavesMaster
    <2> QED BY <1>4, <2>1 DEF Next, MasterContinues, Terminated, runTask, RetryRun,
            ThreadStarted, HandoffTaken, checkIdleThreadTimeout, destroy, Joined,
            CleanupDone, vars, masterVars
  <1> QED BY <1>2, <1>3, <1>4

\* A step of the pool is one of TaskExecutor's, or is not seen by the clients.
LEMMA RefinementStep ==
    ASSUME IInv, IInv', TaskInv, TaskInv', [Next]_vars, QueueLength > 0
    PROVE  [Executor!ENext]_(Executor!evars)
  <1> DEFINE D == LastHandedIn - num
  <1>1. /\ Given = D /\ Given' = D' /\ Given \in Nat /\ submitted \in Nat /\ num \in Nat
        /\ num <= QueueLength
        /\ submitted - Given \in {num, num + 1}
        /\ mpc = "ready" => submitted - Given = num
    <2>1. Given' = D'
      BY HandFacts DEF IInv, queueTypeOK, clientTypeOK, Given, LastHandedIn
    <2> QED BY <2>1, HandFacts DEF IInv, TasksInHand, LastHandedIn, queueTypeOK
  <1>2. submitted' - Given' >= 0 /\ submitted' \in Nat /\ Given' \in Int
    <2>1. num' \in Nat /\ submitted' \in Nat
      BY DEF IInv, queueTypeOK, clientTypeOK
    <2>2. LastHandedIn' = submitted' \/ LastHandedIn' = submitted' - 1
      BY Zenon DEF LastHandedIn
    <2> QED BY <1>1, <2>1, <2>2
  <1>3. /\ Kept(hand, finished, Given) /\ Once(hand, finished, Given, starts, FreshOnes)
        /\ hand \in [Worker -> Task \cup {NoTask}] /\ NoTask \notin Task
    BY KeptMeansKept, HandFacts DEF TaskInv
  <1>4. ASSUME NEW w \in Worker, hand[w] = NoTask PROVE Executor!CanDispatch
    <2>1. Executor!Cardinality(finished) = Cardinality(finished)
      BY Zenon DEF Executor!Cardinality, Cardinality
    <2>2. Given - Cardinality(finished) < MaxNumThreads
      BY <1>4, RoomForOne DEF TaskInv
    <2> QED BY <1>1, <2>1, <2>2, Zenon DEF Executor!CanDispatch
  <1>5. ASSUME NEW w \in Worker, Finishes(w) PROVE hand[w] \in Executor!InProgress
    <2>1. hand[w] \in Task /\ hand[w] \in 1 .. Given /\ hand[w] \notin finished
      BY <1>1, <1>3, <1>5 DEF Finishes, Kept, Once, Task
    <2>2. Executor!InProgress = (1 .. Given) \ finished
      BY <1>1, Zenon DEF Executor!InProgress
    <2> QED BY <2>1, <2>2
  <1>6. CASE ~((mpc' = "destroyed") <=> (mpc = "destroyed"))
    <2>1. /\ mpc \notin {"destroyed", "fullWait"} /\ mpc' = "destroyed"
          /\ UNCHANGED <<num, finished, submitted>> /\ finished = 1 .. submitted
      BY <1>6, ClosedEffect
    <2>2. D' = D
      BY <2>1 DEF LastHandedIn
    <2>3. Executor!Close
      BY <2>1, <2>2, Zenon DEF Executor!Close
    <2> QED BY <2>3 DEF Executor!ENext
  <1>7. CASE (mpc' = "destroyed") <=> (mpc = "destroyed")
    <2>0. (mpc' = "destroyed") = (mpc = "destroyed")
      BY <1>7, Zenon
    <2>1. ASSUME submitted' = submitted, Given' = Given, finished' = finished
          PROVE  UNCHANGED Executor!evars
      BY <1>1, <2>0, <2>1, Zenon DEF Executor!evars
    <2>2. ASSUME submitted' = submitted, Given' = Given + 1, finished' = finished,
                 NEW w \in Worker, hand[w] = NoTask
          PROVE  Executor!Dispatch
      <3>1. D < submitted /\ D' = D + 1
        BY <1>1, <1>2, <2>2
      <3> QED BY <3>1, <1>4, <2>0, <2>2, Zenon DEF Executor!Dispatch
    <2>3. ASSUME submitted' = submitted, Given' \in {Given, Given + 1},
                 NEW w \in Worker, Finishes(w)
          PROVE  \E t \in Executor!InProgress : Executor!Complete(t)
      <3>1. D' = D \/ (D < submitted /\ D' = D + 1)
        BY <1>1, <1>2, <2>3
      <3>2. hand[w] \in Executor!InProgress /\ finished' = finished \cup {hand[w]}
        BY <1>5, <2>3 DEF Finishes
      <3>3. Executor!Complete(hand[w])
        BY <3>1, <3>2, <2>0, <2>3, Zenon DEF Executor!Complete
      <3> QED BY <3>2, <3>3
    <2>4. ASSUME mpc = "ready", submitted' = submitted + 1, Leaves
          PROVE  Executor!AcceptForLater
      <3>1. submitted - D <= QueueLength /\ D' = D /\ finished' = finished
        BY <1>1, <2>4 DEF Leaves
      <3> QED BY <3>1, <2>0, <2>4, Zenon DEF Executor!AcceptForLater
    <2>5. ASSUME mpc = "ready", submitted' = submitted + 1, NEW w \in Worker, Gives(w)
          PROVE  Executor!AcceptAndDispatch
      <3>1. submitted = D /\ D' = D + 1 /\ finished' = finished /\ hand[w] = NoTask
        BY <1>1, <2>5 DEF Gives
      <3> QED BY <3>1, <1>4, <2>0, <2>5, Zenon DEF Executor!AcceptAndDispatch
    <2>6. CASE submitted' = submitted
      <3>1. CASE Leaves
        BY <2>1, <2>6, <3>1 DEF Leaves
      <3>2. ASSUME NEW w \in Worker, Gives(w) PROVE Executor!ENext
        BY <2>2, <2>6, <3>2 DEF Gives, Executor!ENext
      <3>3. ASSUME NEW w \in Worker, Begins(w) PROVE UNCHANGED Executor!evars
        BY <2>1, <2>6, <3>3 DEF Begins
      <3>4. ASSUME NEW w \in Worker, Ends(w) PROVE Executor!ENext
        BY <2>3, <2>6, <3>4 DEF Ends, Executor!ENext
      <3>5. ASSUME NEW w \in Worker, NEW t \in Task, Finds(w, t), Finishes(w)
            PROVE  Executor!ENext
        BY <2>3, <2>6, <3>5 DEF Finds, Executor!ENext
      <3>6. ASSUME NEW w \in Worker, NEW t \in Task, Finds(w, t), hand[w] = NoTask,
                   UNCHANGED finished
            PROVE  Executor!ENext
        BY <2>2, <2>6, <3>6 DEF Finds, Executor!ENext
      <3> QED BY <3>1, <3>2, <3>3, <3>4, <3>5, <3>6, StepEffect DEF ThreadStep
    <2>7. CASE submitted' # submitted
      BY <2>4, <2>5, <2>7, ClientSees DEF Executor!ENext
    <2> QED BY <2>6, <2>7
  <1> QED BY <1>6, <1>7

\* The pool keeps the promise of TaskExecutor for every queue length but 0, every
\* number of threads and tasks, and every idle time: tasks are handed to threads
\* in the order of the calls, each once, at most MaxNumThreads at a time, at most
\* QueueLength of them waiting, and destroy() returns when all are finished.
THEOREM PoolImplementsExecutor == ASSUME QueueLength > 0 PROVE Spec => ImplementsExecutor
  <1>1. Init => Executor!EInit
    BY DEF Init, Executor!EInit, LastHandedIn
  <1>2. IInv /\ IInv' /\ TaskInv /\ TaskInv' /\ [Next]_vars => [Executor!ENext]_(Executor!evars)
    BY RefinementStep
  <1> QED BY <1>1, <1>2, TaskInvariance, PTL DEF Spec, ImplementsExecutor, Executor!ESpec

=============================================================================
