-------------------------- MODULE ThreadPool_proofs --------------------------
(***************************************************************************)
(* Proofs about ThreadPool, for every size of the pool and of its queue    *)
(* and every idle time.                                                    *)
(***************************************************************************)
EXTENDS ThreadPool, FiniteSetTheorems, SequenceTheorems, TLAPS

-----------------------------------------------------------------------------
(* The ring: one wrap at most.                                             *)

\* The remainder that queueMakeNewEntry() computes is one conditional
\* subtraction, because its argument is less than twice the length.
LEMMA ModOnce ==
    ASSUME NEW q \in Nat, q > 0, NEW a \in Nat, a < 2 * q
    PROVE  a % q = IF a < q THEN a ELSE a - q
  <1>1. a = q * (a \div q) + (a % q) /\ a % q \in 0 .. q - 1 /\ a \div q \in Int
    OBVIOUS
  <1>2. a \div q \in {0, 1}
    <2>1. CASE a \div q >= 2
      BY <2>1, <1>1
    <2>2. CASE a \div q <= -1
      BY <2>2, <1>1
    <2> QED BY <2>1, <2>2, <1>1
  <1> QED BY <1>1, <1>2

-----------------------------------------------------------------------------
(* Worker lists.                                                           *)

WorkerState == {"none", "created", "working", "waiting", "signaled"}

\* listPush() of a worker that enters the list's state.
LEMMA PushKeepsLists ==
    ASSUME NEW list \in Seq(Worker), NEW pc \in [Worker -> WorkerState],
           NEW s \in WorkerState, NEW w \in Worker,
           Lists(list, pc, s), pc[w] # s
    PROVE  /\ listPush(list, w) \in Seq(Worker)
           /\ Lists(listPush(list, w), [pc EXCEPT ![w] = s], s)
  <1> DEFINE l == Append(list, w)
  <1>1. /\ l \in Seq(Worker) /\ Len(l) = Len(list) + 1
        /\ \A i \in 1 .. Len(list) : l[i] = list[i] /\ list[i] \in Worker
        /\ l[Len(list) + 1] = w
    OBVIOUS
  <1>2. \A i \in 1 .. Len(list) : list[i] # w
    BY DEF Lists
  <1> HIDE DEF l
  <1>3. Lists(l, [pc EXCEPT ![w] = s], s)
    BY <1>1, <1>2 DEF Lists
  <1> QED BY <1>1, <1>3 DEF listPush, l

\* listPop() of the top worker, which leaves the list's state.
LEMMA PopKeepsLists ==
    ASSUME NEW list \in Seq(Worker), NEW pc \in [Worker -> WorkerState],
           NEW s \in WorkerState, NEW u \in WorkerState,
           Lists(list, pc, s), u # s, list # <<>>
    PROVE  /\ listPop(list) \in Seq(Worker) /\ Top(list) \in Worker
           /\ pc[Top(list)] = s
           /\ Lists(listPop(list), [pc EXCEPT ![Top(list)] = u], s)
  <1> DEFINE l == SubSeq(list, 1, Len(list) - 1)
             w == list[Len(list)]
  <1>0. /\ Len(list) \in Nat /\ Len(list) > 0
        /\ \A i \in 1 .. Len(list) : list[i] \in Worker
    OBVIOUS
  <1>1. /\ l \in Seq(Worker) /\ Len(l) = Len(list) - 1 /\ Len(list) \in Nat
        /\ Len(list) > 0
        /\ \A i \in 1 .. Len(l) : l[i] = list[i] /\ list[i] \in Worker
        /\ w \in Worker
    <2> DEFINE n == Len(list) - 1
    <2>3. /\ n \in Int /\ 0 <= n
          /\ \A i \in 1 .. n : list[i] \in Worker
      BY <1>0
    <2> HIDE DEF n
    <2>4. /\ SubSeq(list, 1, n) \in Seq(Worker)
          /\ Len(SubSeq(list, 1, n)) = n
          /\ \A i \in 1 .. n : SubSeq(list, 1, n)[i] = list[i]
      BY <2>3, SubSeqProperties
    <2> QED BY <1>0, <2>3, <2>4 DEF n
  <1>2. pc[w] = s /\ \A i \in 1 .. Len(l) : list[i] # w
    BY <1>1 DEF Lists
  <1> HIDE DEF l
  <1>3. Lists(l, [pc EXCEPT ![w] = u], s)
    BY <1>1, <1>2 DEF Lists
  <1> QED BY <1>1, <1>2, <1>3 DEF listPop, Top, l

\* listPull() of the bottom worker, which leaves the list's state.
LEMMA PullKeepsLists ==
    ASSUME NEW list \in Seq(Worker), NEW pc \in [Worker -> WorkerState],
           NEW s \in WorkerState, NEW u \in WorkerState,
           Lists(list, pc, s), u # s, list # <<>>
    PROVE  /\ listPull(list) \in Seq(Worker) /\ Bottom(list) \in Worker
           /\ pc[Bottom(list)] = s
           /\ Lists(listPull(list), [pc EXCEPT ![Bottom(list)] = u], s)
  <1> DEFINE l == Tail(list)
             w == Head(list)
  <1>1. /\ l \in Seq(Worker) /\ Len(l) = Len(list) - 1 /\ Len(list) \in Nat
        /\ Len(list) > 0
        /\ \A i \in 1 .. Len(l) : l[i] = list[i + 1] /\ list[i + 1] \in Worker
        /\ w = list[1] /\ w \in Worker
    OBVIOUS
  <1>2. pc[w] = s /\ \A i \in 1 .. Len(l) : list[i + 1] # w
    BY <1>1 DEF Lists
  <1> HIDE DEF l, w
  <1>3. \A v \in Worker : pc[v] = s /\ v # w => \E i \in 1 .. Len(l) : l[i] = v
    <2> SUFFICES ASSUME NEW v \in Worker, pc[v] = s, v # w
                 PROVE  \E i \in 1 .. Len(l) : l[i] = v
      OBVIOUS
    <2>1. PICK i \in 1 .. Len(list) : list[i] = v
      BY DEF Lists
    <2>2. i - 1 \in 1 .. Len(l) /\ l[i - 1] = v
      BY <2>1, <1>1
    <2> QED BY <2>2
  <1>4. \A i, j \in 1 .. Len(l) : l[i] = l[j] => i = j
    <2> SUFFICES ASSUME NEW i \in 1 .. Len(l), NEW j \in 1 .. Len(l), l[i] = l[j]
                 PROVE  i = j
      OBVIOUS
    <2>1. i + 1 \in 1 .. Len(list) /\ j + 1 \in 1 .. Len(list)
      BY <1>1
    <2>2. i + 1 = j + 1
      BY <1>1, <2>1, SMTT(20) DEF Lists
    <2> QED BY <2>2
  <1>5. \A i \in 1 .. Len(l) : l[i] \in Worker /\ l[i] # w /\ pc[l[i]] = s
    BY <1>1, <1>2, SMTT(20) DEF Lists
  <1>6. Lists(l, [pc EXCEPT ![w] = u], s)
    BY <1>1, <1>3, <1>4, <1>5 DEF Lists
  <1> QED BY <1>1, <1>2, <1>6 DEF listPull, Bottom, l, w

\* A worker that moves between two other states does not concern the list.
LEMMA OthersKeepLists ==
    ASSUME NEW list \in Seq(Worker), NEW pc \in [Worker -> WorkerState],
           NEW s \in WorkerState, NEW u \in WorkerState, NEW w \in Worker,
           Lists(list, pc, s), u # s, pc[w] # s
    PROVE  Lists(list, [pc EXCEPT ![w] = u], s)
  BY DEF Lists

-----------------------------------------------------------------------------
(* The inductive invariant.                                                *)

USE QueueLengthAssumption, MaxNumThreadsAssumption, NumTasksAssumption

Types == /\ queueTypeOK /\ listTypeOK /\ flagTypeOK
         /\ workerTypeOK /\ masterTypeOK /\ clientTypeOK

\* What lookForWork() finds is a task: the oldest of the ring, or the blocked
\* caller's.
LEMMA FoundTask ==
    ASSUME IInv, WorkToDo
    PROVE  /\ QueueLength > 0 => /\ num > 0 /\ slot[nextReadIndex] \in Task
                                 /\ slot[nextReadIndex] = LastHandedIn - num + 1
           /\ QueueLength = 0 => handoff \in Task
  <1>1. CASE QueueLength > 0
    <2>1. /\ num > 0 /\ num \in Nat /\ nextReadIndex \in 0 .. QueueLength - 1
          /\ slot \in [0 .. QueueLength - 1 -> Task \cup {NoTask}]
      BY <1>1 DEF IInv, WorkToDo, queueTypeOK
    <2>2. (nextReadIndex + 0) % QueueLength = nextReadIndex
      BY <1>1, <2>1, ModOnce
    <2>3. slot[nextReadIndex] = LastHandedIn - num + 1 + 0
      BY <2>1, <2>2 DEF IInv, RingInOrder
    <2>4. LastHandedIn \in Int /\ num <= LastHandedIn
      BY DEF IInv, TasksInHand, LastHandedIn, clientTypeOK
    <2>5. slot[nextReadIndex] > 0 /\ slot[nextReadIndex] \in Task \cup {NoTask}
      BY <2>1, <2>3, <2>4
    <2> QED BY <1>1, <2>1, <2>3, <2>4, <2>5 DEF Task, NoTask
  <1>2. CASE QueueLength = 0
    BY <1>2 DEF IInv, WorkToDo, FlagsFollowMaster, queueTypeOK, clientTypeOK,
                Task, NoTask
  <1> QED BY <1>1, <1>2

\* A signal to the master, sent or not, leaves a truth value.
LEMMA SignalType ==
    ASSUME Types, SignalMaster \/ UNCHANGED signaled
    PROVE  signaled' \in BOOLEAN
  <1>1. CASE SignalMaster
    BY <1>1 DEF SignalMaster, MasterWaits
  <1>2. CASE UNCHANGED signaled
    BY <1>2 DEF Types, masterTypeOK
  <1> QED BY <1>1, <1>2

\* Running a task keeps the types of what Work() changes.
LEMMA WorkTypes ==
    ASSUME Types, NEW w \in Worker, NEW t \in Task, Work(w, t)
    PROVE  /\ current' \in [Worker -> Task \cup {NoTask}]
           /\ wpc' \in [Worker -> WorkerState]
           /\ starts' \in [Task -> 0 .. 2]
  <1>1. OneMore(starts[t]) \in 0 .. 2
    BY DEF Types, clientTypeOK, OneMore
  <1>2. starts' \in [Task -> 0 .. 2]
    BY <1>1 DEF Types, clientTypeOK, Work
  <1> QED BY <1>2 DEF Types, workerTypeOK, Work, WorkerState

\* lookForWork() keeps the types.
LEMMA LookForWorkTypes ==
    ASSUME IInv, NEW w \in Worker, lookForWork(w), finished' \in SUBSET Task
    PROVE  Types'
  <1> DEFINE t == IF QueueLength > 0 THEN slot[nextReadIndex] ELSE handoff
  <1>1. t \in Task /\ Work(w, t) /\ (QueueLength > 0 => num > 0)
    BY FoundTask DEF lookForWork
  <1>2. /\ current' \in [Worker -> Task \cup {NoTask}]
        /\ wpc' \in [Worker -> WorkerState]
        /\ starts' \in [Task -> 0 .. 2]
    BY <1>1, WorkTypes DEF IInv, Types
  <1>3. queueTypeOK'
    <2>1. CASE QueueLength > 0
      <3>1. /\ num' = num - 1 /\ num' \in 0 .. QueueLength
            /\ slot' = slot /\ handoff' = handoff
            /\ nextReadIndex' = nextIndex(nextReadIndex)
        BY <2>1, <1>1 DEF lookForWork, queueGetNext, IInv, queueTypeOK
      <3>2. nextIndex(nextReadIndex) \in 0 .. QueueLength - 1
        BY <2>1 DEF nextIndex, IInv, queueTypeOK
      <3> QED BY <3>1, <3>2 DEF IInv, queueTypeOK
    <2>2. CASE QueueLength = 0
      BY <2>2 DEF lookForWork, queueVars, IInv, queueTypeOK
    <2> QED BY <2>1, <2>2
  <1>4. signaled' \in BOOLEAN
    BY SignalType DEF Types, IInv, lookForWork, WakeBlockedMaster
  <1> QED
    BY <1>2, <1>3, <1>4 DEF Types, IInv, lookForWork, listVars, flagVars,
       listTypeOK, flagTypeOK, workerTypeOK, masterTypeOK, clientTypeOK, WorkerState

\* The end of a thread keeps the types.
LEMMA ThreadReturnsTypes ==
    ASSUME Types, NEW w \in Worker, ThreadReturns(w),
           finished' \in SUBSET Task, signaled' \in BOOLEAN
    PROVE  Types'
  BY DEF Types, ThreadReturns, listPush, queueVars, flagVars, queueTypeOK,
     listTypeOK, flagTypeOK, workerTypeOK, masterTypeOK, clientTypeOK

\* The idle and the unused list obey the list lemmas.
LEMMA ListFacts ==
    ASSUME IInv
    PROVE  /\ idle \in Seq(Worker) /\ Lists(idle, wpc, "waiting")
           /\ unused \in Seq(Worker) /\ Lists(unused, wpc, "none")
           /\ wpc \in [Worker -> WorkerState]
           /\ "waiting" \in WorkerState /\ "none" \in WorkerState
           /\ "signaled" \in WorkerState /\ "created" \in WorkerState
           /\ "working" \in WorkerState
           /\ "signaled" # "waiting" /\ "created" # "none"
  BY DEF IInv, listTypeOK, workerTypeOK, WorkersAccounted, WorkerState

\* What popping or pulling the idle list, and popping the unused list, yields.
LEMMA PoppedWorkers ==
    ASSUME IInv
    PROVE  /\ idle # <<>> =>
                /\ Top(idle) \in Worker /\ wpc[Top(idle)] = "waiting"
                /\ listPop(idle) \in Seq(Worker)
                /\ Bottom(idle) \in Worker /\ wpc[Bottom(idle)] = "waiting"
                /\ listPull(idle) \in Seq(Worker)
           /\ unused # <<>> =>
                /\ Top(unused) \in Worker /\ wpc[Top(unused)] = "none"
                /\ listPop(unused) \in Seq(Worker)
  <1>1. ASSUME idle # <<>>
        PROVE  /\ Top(idle) \in Worker /\ wpc[Top(idle)] = "waiting"
               /\ listPop(idle) \in Seq(Worker)
    BY <1>1, ListFacts, PopKeepsLists
  <1>2. ASSUME idle # <<>>
        PROVE  /\ Bottom(idle) \in Worker /\ wpc[Bottom(idle)] = "waiting"
               /\ listPull(idle) \in Seq(Worker)
    BY <1>2, ListFacts, PullKeepsLists
  <1>3. ASSUME unused # <<>>
        PROVE  /\ Top(unused) \in Worker /\ wpc[Top(unused)] = "none"
               /\ listPop(unused) \in Seq(Worker)
    BY <1>3, ListFacts, PopKeepsLists
  <1> QED BY <1>1, <1>2, <1>3

\* After the top idle worker has been popped and told to run, the rest of the
\* list is again a list of waiting workers.
LEMMA RestOfIdle ==
    ASSUME IInv, idle # <<>>
    PROVE  LET w == Top(idle) rest == listPop(idle)
               pc == [wpc EXCEPT ![w] = "signaled"] IN
           /\ Lists(rest, pc, "waiting")
           /\ pc \in [Worker -> WorkerState]
           /\ rest # <<>> =>
                /\ Bottom(rest) \in Worker /\ wpc[Bottom(rest)] = "waiting"
                /\ Bottom(rest) # w
                /\ listPull(rest) \in Seq(Worker)
                /\ Lists(listPull(rest), [pc EXCEPT ![Bottom(rest)] = "signaled"],
                         "waiting")
  <1> DEFINE w == Top(idle)
             rest == listPop(idle)
             pc == [wpc EXCEPT ![w] = "signaled"]
  <1>0. w \in Worker /\ rest \in Seq(Worker) /\ Lists(rest, pc, "waiting")
    BY ListFacts, PopKeepsLists, Zenon
  <1>1. /\ w \in Worker /\ rest \in Seq(Worker) /\ Lists(rest, pc, "waiting")
        /\ pc \in [Worker -> WorkerState]
    BY <1>0, ListFacts
  <1>2. ASSUME rest # <<>>
        PROVE  /\ Bottom(rest) \in Worker /\ pc[Bottom(rest)] = "waiting"
               /\ listPull(rest) \in Seq(Worker)
               /\ Lists(listPull(rest), [pc EXCEPT ![Bottom(rest)] = "signaled"],
                        "waiting")
    <2> HIDE DEF rest, pc
    <2> QED BY <1>1, <1>2, ListFacts, PullKeepsLists, Zenon
  <1>3. ASSUME rest # <<>>
        PROVE  Bottom(rest) # w /\ wpc[Bottom(rest)] = "waiting"
    BY <1>1, <1>2, <1>3, ListFacts
  <1> QED BY <1>1, <1>2, <1>3

\* A round of runTask()'s loop keeps the types.
LEMMA RunOrWaitTypes ==
    ASSUME IInv, NEW t \in Task, RunOrWait(t), submitted' \in 0 .. NumTasks
    PROVE  Types'
  <1> USE DEF Types
  <1>0. Types
    BY DEF IInv
  <1>1. flagTypeOK' /\ clientTypeOK' /\ joining' \in Worker /\ signaled' \in BOOLEAN
    BY <1>0 DEF RunOrWait, flagTypeOK, clientTypeOK, masterTypeOK
  <1>2. CASE RunOnIdle(t)
    <2> DEFINE w == Top(idle)
               rest == listPop(idle)
    <2>1. /\ w \in Worker /\ rest \in Seq(Worker)
          /\ rest # <<>> => Bottom(rest) \in Worker /\ listPull(rest) \in Seq(Worker)
      BY <1>2, PoppedWorkers, RestOfIdle DEF RunOnIdle
    <2>2. /\ userTask' = [userTask EXCEPT ![w] = t]
          /\ \/ /\ idle' = rest
                /\ wpc' = [wpc EXCEPT ![w] = "signaled"]
             \/ /\ rest # <<>>
                /\ idle' = listPull(rest)
                /\ wpc' = [wpc EXCEPT ![w] = "signaled", ![Bottom(rest)] = "signaled"]
      BY <1>2, Zenon DEF RunOnIdle, TimeoutPossible
    <2>3. listTypeOK'
      BY <1>2, <2>1, <2>2, <1>0 DEF RunOnIdle, listTypeOK
    <2>4. workerTypeOK'
      <3> HIDE DEF w, rest
      <3> QED BY <1>2, <2>2, <1>0 DEF RunOnIdle, workerTypeOK
    <2> QED BY <1>2, <1>1, <2>3, <2>4, <1>0
         DEF RunOnIdle, queueVars, queueTypeOK, masterTypeOK
  <1>3. CASE RunOnNewThread(t)
    BY <1>3, <1>1, <1>0, PoppedWorkers DEF RunOnNewThread, queueVars,
       queueTypeOK, masterTypeOK, workerTypeOK, listTypeOK
  <1>4. CASE RunLater(t)
    <2>1. freeIndex \in 0 .. QueueLength - 1
      BY <1>4, <1>0 DEF RunLater, freeIndex, queueTypeOK
    <2> QED BY <1>4, <2>1, <1>1, <1>0 DEF RunLater, queueMakeNewEntry, queueFull,
         listVars, workerVars, queueTypeOK, masterTypeOK, workerTypeOK, listTypeOK
  <1>5. CASE Block(t)
    BY <1>5, <1>1, <1>0 DEF Block, listVars, workerVars, queueTypeOK,
       masterTypeOK, workerTypeOK, listTypeOK
  <1> QED BY <1>2, <1>3, <1>4, <1>5 DEF RunOrWait

\* A round of destroy() keeps the types.
LEMMA DestroyRoundTypes ==
    ASSUME IInv, DestroyRound, zombies' \in SUBSET Worker
    PROVE  Types'
  <1> USE DEF Types
  <1>0. Types
    BY DEF IInv
  <1>1. queueTypeOK' /\ clientTypeOK'
    BY <1>0 DEF DestroyRound, queueVars, queueTypeOK, clientTypeOK
  <1>2. CASE JoinIdle
    BY <1>2, <1>1, <1>0, PoppedWorkers DEF DestroyRound, JoinIdle, ForgetTask,
       listTypeOK, flagTypeOK, workerTypeOK, masterTypeOK
  <1>3. CASE AwaitWorkers \/ AllGone
    BY <1>3, <1>1, <1>0 DEF DestroyRound, AwaitWorkers, AllGone, DetachAgain,
       listTypeOK, flagTypeOK, workerTypeOK, masterTypeOK
  <1> QED BY <1>2, <1>3 DEF DestroyRound

\* The type part of the invariant, action by action.
LEMMA TypesStep == IInv /\ [Next]_vars => Types'
  <1> SUFFICES ASSUME IInv, [Next]_vars PROVE Types'
    OBVIOUS
  <1> USE DEF Types
  <1>0. Types
    BY DEF IInv
  <1>w. ASSUME NEW w \in Worker, workerCallback(w) PROVE Types'
    <2>0. wpc[w] = "working" => finished \cup {current[w]} \in SUBSET Task
      BY DEF IInv, TasksInHand, workerTypeOK, clientTypeOK
    <2>1. CASE WorkerStart(w)
      <3>1. userTask[w] \in Task
        BY <2>1 DEF WorkerStart, IInv, TasksInHand, workerTypeOK
      <3>2. /\ current' \in [Worker -> Task \cup {NoTask}]
            /\ wpc' \in [Worker -> WorkerState]
            /\ starts' \in [Task -> 0 .. 2]
        BY <2>1, <3>1, <1>0, WorkTypes DEF WorkerStart
      <3> QED
        BY <2>1, <3>2, <1>0 DEF WorkerStart, SignalMaster, MasterWaits, queueVars,
           listVars, flagVars, queueTypeOK, listTypeOK, flagTypeOK,
           workerTypeOK, masterTypeOK, clientTypeOK, WorkerState
    <2>2. CASE TakeNext(w)
      BY <2>2, <2>0, LookForWorkTypes DEF TakeNext, CallbackReturns
    <2>3. CASE EndInCleanup(w)
      <3>1. finished' \in SUBSET Task /\ ThreadReturns(w)
        BY <2>3, <2>0 DEF EndInCleanup, CallbackReturns
      <3>2. signaled' \in BOOLEAN
        BY <2>3, <1>0, SignalType DEF EndInCleanup
      <3> QED BY <3>1, <3>2, <1>0, ThreadReturnsTypes
    <2>4. CASE BecomeIdle(w)
      BY <2>4, <2>0, <1>0 DEF BecomeIdle, CallbackReturns, ForgetTask, listPush,
         queueVars, flagVars, masterVars, queueTypeOK, listTypeOK,
         flagTypeOK, workerTypeOK, masterTypeOK, clientTypeOK
    <2>5. CASE EndIdleless(w)
      BY <2>5, <2>0, <1>0, ThreadReturnsTypes DEF EndIdleless, CallbackReturns,
         masterTypeOK
    <2>6. CASE WakeWithTask(w)
      <3>1. userTask[w] \in Task
        BY <2>6 DEF WakeWithTask, IInv, workerTypeOK
      <3>2. /\ current' \in [Worker -> Task \cup {NoTask}]
            /\ wpc' \in [Worker -> WorkerState]
            /\ starts' \in [Task -> 0 .. 2]
        BY <2>6, <3>1, <1>0, WorkTypes DEF WakeWithTask
      <3> QED
        BY <2>6, <3>2, <1>0 DEF WakeWithTask, queueVars, listVars, flagVars,
           masterVars, queueTypeOK, listTypeOK, flagTypeOK,
           workerTypeOK, masterTypeOK, clientTypeOK, WorkerState
    <2>7. CASE WakeTakeNext(w)
      BY <2>7, <1>0, LookForWorkTypes DEF WakeTakeNext, clientTypeOK
    <2>8. CASE WakeEnd(w)
      BY <2>8, <1>0, ThreadReturnsTypes DEF WakeEnd, clientTypeOK, masterTypeOK
    <2> QED BY <1>w, <2>1, <2>2, <2>3, <2>4, <2>5, <2>6, <2>7, <2>8
         DEF workerCallback
  <1>r. ASSUME runTask PROVE Types'
    <2>1. submitted + 1 \in Task /\ submitted' \in 0 .. NumTasks
      BY <1>r, <1>0 DEF runTask, clientTypeOK, Task
    <2> QED BY <1>r, <2>1, RunOrWaitTypes DEF runTask
  <1>c. ASSUME checkIdleThreadTimeout PROVE Types'
    BY <1>c, <1>0, PoppedWorkers DEF checkIdleThreadTimeout, TimeoutPossible,
       queueVars, flagVars, masterVars, clientVars, queueTypeOK, listTypeOK,
       flagTypeOK, workerTypeOK, masterTypeOK, clientTypeOK
  <1>d. ASSUME destroy PROVE Types'
    BY <1>d, <1>0, DestroyRoundTypes DEF destroy, clientTypeOK
  <1>m. ASSUME MasterContinues PROVE Types'
    <2>1. CASE ThreadStarted \/ HandoffTaken \/ CleanupDone
      BY <2>1, <1>0 DEF ThreadStarted, HandoffTaken, CleanupDone, queueVars,
         listVars, flagVars, workerVars, clientVars, queueTypeOK, listTypeOK,
         flagTypeOK, workerTypeOK, masterTypeOK, clientTypeOK
    <2>2. CASE RetryRun
      <3>1. mtask \in Task /\ submitted' \in 0 .. NumTasks
        BY <2>2, <1>0 DEF RetryRun, IInv, FlagsFollowMaster, clientTypeOK, Task
      <3> QED BY <2>2, <3>1, RunOrWaitTypes DEF RetryRun
    <2>3. CASE Joined
      BY <2>3, <1>0, DestroyRoundTypes DEF Joined, clientTypeOK
    <2> QED BY <1>m, <2>1, <2>2, <2>3 DEF MasterContinues
  <1>u. ASSUME UNCHANGED vars PROVE Types'
    BY <1>u, <1>0 DEF vars, queueVars, listVars, flagVars, workerVars, masterVars,
       clientVars, queueTypeOK, listTypeOK, flagTypeOK, workerTypeOK,
       masterTypeOK, clientTypeOK
  <1> QED BY <1>w, <1>r, <1>c, <1>d, <1>m, <1>u DEF Next, Terminated

-----------------------------------------------------------------------------
(* Worker structs and threads.                                             *)

\* There are finitely many live threads, at most MaxNumThreads.
LEMMA LiveFinite ==
    IsFiniteSet(Live) /\ Cardinality(Live) \in 0 .. MaxNumThreads
  <1>1. IsFiniteSet(Worker) /\ Cardinality(Worker) = MaxNumThreads
    BY FS_Interval DEF Worker
  <1>2. Live \in SUBSET Worker
    BY DEF Live
  <1>3. IsFiniteSet(Live) /\ Cardinality(Live) <= Cardinality(Worker)
    BY <1>1, <1>2, FS_Subset
  <1>4. Cardinality(Live) \in Nat
    BY <1>3, FS_CardinalityType
  <1> QED BY <1>1, <1>3, <1>4

\* A worker that enters or leaves workerCallback() changes the count by one.
LEMMA LiveChanges ==
    ASSUME NEW w \in Worker, Types
    PROVE  /\ /\ wpc[w] \in {"none", "created"}
              /\ wpc' = [wpc EXCEPT ![w] = "working"]
              => Cardinality(Live') = Cardinality(Live) + 1
           /\ /\ wpc[w] \notin {"none", "created"}
              /\ wpc' = [wpc EXCEPT ![w] = "none"]
              => Cardinality(Live') = Cardinality(Live) - 1
  <1>1. ASSUME wpc[w] \in {"none", "created"}, wpc' = [wpc EXCEPT ![w] = "working"]
        PROVE  Cardinality(Live') = Cardinality(Live) + 1
    <2>1. Live' = Live \cup {w} /\ w \notin Live
      BY <1>1 DEF Live, Types, workerTypeOK
    <2> QED BY <2>1, LiveFinite, FS_AddElement
  <1>2. ASSUME wpc[w] \notin {"none", "created"}, wpc' = [wpc EXCEPT ![w] = "none"]
        PROVE  Cardinality(Live') = Cardinality(Live) - 1
    <2>1. Live' = Live \ {w} /\ w \in Live
      BY <1>2 DEF Live, Types, workerTypeOK
    <2> QED BY <2>1, LiveFinite, FS_RemoveElement
  <1> QED BY <1>1, <1>2

\* A thread that goes on to work is in neither list, before and after.
LEMMA WorkAccounted ==
    ASSUME IInv, NEW w \in Worker, wpc[w] \notin {"none", "waiting"},
           wpc' = [wpc EXCEPT ![w] = "working"], UNCHANGED listVars
    PROVE  Lists(idle', wpc', "waiting") /\ Lists(unused', wpc', "none")
  <1>1. Lists(idle, [wpc EXCEPT ![w] = "working"], "waiting")
    BY ListFacts, OthersKeepLists
  <1>2. Lists(unused, [wpc EXCEPT ![w] = "working"], "none")
    BY ListFacts, OthersKeepLists
  <1> QED BY <1>1, <1>2 DEF listVars

\* A thread that ends moves to the unused list and leaves the count.
LEMMA ThreadReturnsAccounted ==
    ASSUME IInv, NEW w \in Worker, wpc[w] \in {"working", "signaled"},
           ThreadReturns(w)
    PROVE  WorkersAccounted'
  <1>1. Lists(idle, [wpc EXCEPT ![w] = "none"], "waiting")
    BY ListFacts, OthersKeepLists
  <1>2. Lists(listPush(unused, w), [wpc EXCEPT ![w] = "none"], "none")
    BY ListFacts, PushKeepsLists
  <1>3. Cardinality(Live') = Cardinality(Live) - 1
    BY LiveChanges DEF ThreadReturns, IInv, Types
  <1>4. /\ Lists(idle', wpc', "waiting")
        /\ Lists(unused', wpc', "none")
        /\ num_threads' = Cardinality(Live')
    BY <1>1, <1>2, <1>3 DEF ThreadReturns, IInv, WorkersAccounted
  <1> QED BY <1>4 DEF WorkersAccounted

\* The same threads, in other states.
LEMMA SameLive ==
    ASSUME IInv, UNCHANGED num_threads,
           Live' = Live,
           Lists(idle', wpc', "waiting"), Lists(unused', wpc', "none")
    PROVE  WorkersAccounted'
  <1>1. num_threads' = Cardinality(Live')
    BY DEF IInv, WorkersAccounted
  <1> QED BY <1>1 DEF WorkersAccounted

\* A round of runTask()'s loop keeps the accounting.
LEMMA RunOrWaitAccounted ==
    ASSUME IInv, NEW t \in Task, RunOrWait(t)
    PROVE  WorkersAccounted'
  <1>1. CASE RunOnIdle(t)
    <2> DEFINE w == Top(idle)
               rest == listPop(idle)
               pc == [wpc EXCEPT ![w] = "signaled"]
    <2>1. /\ idle # <<>> /\ UNCHANGED <<unused, num_threads>>
          /\ \/ /\ idle' = rest
                /\ wpc' = [wpc EXCEPT ![w] = "signaled"]
             \/ /\ rest # <<>>
                /\ idle' = listPull(rest)
                /\ wpc' = [wpc EXCEPT ![w] = "signaled", ![Bottom(rest)] = "signaled"]
      BY <1>1, Zenon DEF RunOnIdle, TimeoutPossible
    <2>2. w \in Worker /\ wpc[w] = "waiting" /\ Lists(rest, pc, "waiting")
          /\ pc \in [Worker -> WorkerState]
      BY <2>1, PoppedWorkers, RestOfIdle
    <2>3. Lists(unused, pc, "none")
      BY <2>2, ListFacts, OthersKeepLists
    <2>4. CASE idle' = rest /\ wpc' = pc
      <3>1. Live' = Live
        BY <2>2, <2>4, ListFacts DEF Live
      <3>2. Lists(idle', wpc', "waiting") /\ Lists(unused', wpc', "none")
        BY <2>1, <2>2, <2>3, <2>4
      <3> QED BY <2>1, <3>1, <3>2, SameLive
    <2>5. CASE /\ rest # <<>> /\ idle' = listPull(rest)
               /\ wpc' = [wpc EXCEPT ![w] = "signaled", ![Bottom(rest)] = "signaled"]
      <3> DEFINE b == Bottom(rest)
                 pc2 == [pc EXCEPT ![b] = "signaled"]
      <3>1. /\ b \in Worker /\ wpc[b] = "waiting" /\ b # w
            /\ Lists(listPull(rest), pc2, "waiting")
        BY <2>1, <2>5, RestOfIdle
      <3>2. wpc' = pc2 /\ pc[b] = "waiting"
        BY <2>5, <2>2, <3>1, ListFacts
      <3>3. Lists(unused, pc2, "none")
        <4> HIDE DEF pc, b
        <4> QED BY <2>2, <2>3, <3>1, <3>2, ListFacts, OthersKeepLists
      <3>4. Live' = Live
        BY <2>2, <3>1, <3>2, ListFacts DEF Live
      <3>5. Lists(idle', wpc', "waiting") /\ Lists(unused', wpc', "none")
        BY <2>1, <2>5, <3>1, <3>2, <3>3
      <3> QED BY <2>1, <3>4, <3>5, SameLive
    <2> QED BY <2>1, <2>4, <2>5
  <1>2. CASE RunOnNewThread(t)
    <2> DEFINE w == Top(unused)
               pc == [wpc EXCEPT ![w] = "created"]
    <2>1. /\ unused # <<>> /\ UNCHANGED <<idle, num_threads>>
          /\ unused' = listPop(unused) /\ wpc' = pc
      BY <1>2 DEF RunOnNewThread
    <2>2. w \in Worker /\ wpc[w] = "none" /\ Lists(listPop(unused), pc, "none")
      BY <2>1, ListFacts, PopKeepsLists, Zenon
    <2>3. Lists(idle, pc, "waiting")
      BY <2>2, ListFacts, OthersKeepLists
    <2>4. Live' = Live
      BY <2>1, <2>2, ListFacts DEF Live
    <2>5. Lists(idle', wpc', "waiting") /\ Lists(unused', wpc', "none")
      BY <2>1, <2>2, <2>3
    <2> QED BY <2>1, <2>4, <2>5, SameLive
  <1>3. CASE RunLater(t) \/ Block(t)
    BY <1>3 DEF RunLater, Block, listVars, workerVars, IInv, WorkersAccounted, Live
  <1> QED BY <1>1, <1>2, <1>3 DEF RunOrWait

\* A round of destroy() keeps the accounting.
LEMMA DestroyRoundAccounted ==
    ASSUME IInv, DestroyRound
    PROVE  WorkersAccounted'
  <1>1. CASE JoinIdle
    <2> DEFINE w == Top(idle)
               pc == [wpc EXCEPT ![w] = "signaled"]
    <2>1. /\ idle # <<>> /\ UNCHANGED <<unused, num_threads>>
          /\ idle' = listPop(idle) /\ wpc' = pc
      BY <1>1 DEF DestroyRound, JoinIdle
    <2>2. w \in Worker /\ wpc[w] = "waiting" /\ Lists(listPop(idle), pc, "waiting")
      BY <2>1, PoppedWorkers, RestOfIdle
    <2>3. Lists(unused, pc, "none")
      BY <2>2, ListFacts, OthersKeepLists
    <2>4. Live' = Live
      BY <2>1, <2>2, ListFacts DEF Live
    <2>5. Lists(idle', wpc', "waiting") /\ Lists(unused', wpc', "none")
      BY <2>1, <2>2, <2>3
    <2> QED BY <2>1, <2>4, <2>5, SameLive
  <1>2. CASE AwaitWorkers \/ AllGone
    BY <1>2 DEF DestroyRound, AwaitWorkers, AllGone, IInv, WorkersAccounted, Live
  <1> QED BY <1>1, <1>2 DEF DestroyRound

\* Every worker struct is accounted for after every step.
LEMMA AccountedStep == IInv /\ [Next]_vars => WorkersAccounted'
  <1> SUFFICES ASSUME IInv, [Next]_vars PROVE WorkersAccounted'
    OBVIOUS
  <1>0. Types
    BY DEF IInv, Types
  <1>w. ASSUME NEW w \in Worker, workerCallback(w) PROVE WorkersAccounted'
    <2>1. CASE WorkerStart(w)
      <3>1. /\ wpc[w] = "created" /\ wpc' = [wpc EXCEPT ![w] = "working"]
            /\ UNCHANGED listVars /\ num_threads' = num_threads + 1
        BY <2>1 DEF WorkerStart, Work
      <3>2. Lists(idle', wpc', "waiting") /\ Lists(unused', wpc', "none")
        BY <3>1, WorkAccounted
      <3>3. Cardinality(Live') = Cardinality(Live) + 1
        BY <3>1, <1>0, LiveChanges
      <3>4. num_threads' = Cardinality(Live')
        BY <3>1, <3>3 DEF IInv, WorkersAccounted
      <3> QED BY <3>2, <3>4 DEF WorkersAccounted
    <2>2. CASE TakeNext(w) \/ WakeTakeNext(w) \/ WakeWithTask(w)
      <3>1. /\ wpc[w] \in {"working", "signaled"}
            /\ wpc' = [wpc EXCEPT ![w] = "working"]
            /\ UNCHANGED <<listVars, num_threads>>
        BY <2>2 DEF TakeNext, WakeTakeNext, WakeWithTask, CallbackReturns,
           lookForWork, Work
      <3>2. Lists(idle', wpc', "waiting") /\ Lists(unused', wpc', "none")
        BY <3>1, WorkAccounted
      <3>3. Live' = Live
        BY <3>1, ListFacts DEF Live
      <3> QED BY <3>1, <3>2, <3>3, SameLive
    <2>3. CASE EndInCleanup(w) \/ EndIdleless(w) \/ WakeEnd(w)
      BY <2>3, ThreadReturnsAccounted DEF EndInCleanup, EndIdleless, WakeEnd,
         CallbackReturns
    <2>4. CASE BecomeIdle(w)
      <3> DEFINE pc == [wpc EXCEPT ![w] = "waiting"]
      <3>1. /\ wpc[w] = "working" /\ wpc' = pc /\ idle' = listPush(idle, w)
            /\ UNCHANGED <<unused, num_threads>>
        BY <2>4 DEF BecomeIdle, CallbackReturns
      <3>2. Lists(listPush(idle, w), pc, "waiting")
        BY <3>1, ListFacts, PushKeepsLists
      <3>3. Lists(unused, pc, "none")
        BY <3>1, ListFacts, OthersKeepLists
      <3>4. Live' = Live
        BY <3>1, ListFacts DEF Live
      <3>5. Lists(idle', wpc', "waiting") /\ Lists(unused', wpc', "none")
        BY <3>1, <3>2, <3>3
      <3> QED BY <3>1, <3>4, <3>5, SameLive
    <2> QED BY <1>w, <2>1, <2>2, <2>3, <2>4 DEF workerCallback
  <1>r. ASSUME runTask \/ RetryRun PROVE WorkersAccounted'
    <2>1. PICK t \in Task : RunOrWait(t)
      BY <1>r, <1>0 DEF runTask, RetryRun, IInv, FlagsFollowMaster, Types,
         clientTypeOK, Task
    <2> QED BY <2>1, RunOrWaitAccounted
  <1>c. ASSUME checkIdleThreadTimeout PROVE WorkersAccounted'
    <2> DEFINE b == Bottom(idle)
               pc == [wpc EXCEPT ![b] = "signaled"]
    <2>1. /\ idle # <<>> /\ UNCHANGED <<unused, num_threads>>
          /\ idle' = listPull(idle) /\ wpc' = pc
      BY <1>c DEF checkIdleThreadTimeout, TimeoutPossible
    <2>2. b \in Worker /\ wpc[b] = "waiting" /\ Lists(listPull(idle), pc, "waiting")
      BY <2>1, ListFacts, PullKeepsLists, Zenon
    <2>3. Lists(unused, pc, "none")
      BY <2>2, ListFacts, OthersKeepLists
    <2>4. Live' = Live
      BY <2>1, <2>2, ListFacts DEF Live
    <2>5. Lists(idle', wpc', "waiting") /\ Lists(unused', wpc', "none")
      BY <2>1, <2>2, <2>3
    <2> QED BY <2>1, <2>4, <2>5, SameLive
  <1>d. ASSUME destroy \/ Joined PROVE WorkersAccounted'
    BY <1>d, DestroyRoundAccounted DEF destroy, Joined
  <1>u. ASSUME ThreadStarted \/ HandoffTaken \/ CleanupDone \/ UNCHANGED vars
        PROVE  WorkersAccounted'
    BY <1>u DEF ThreadStarted, HandoffTaken, CleanupDone, vars, listVars,
       workerVars, IInv, WorkersAccounted, Live
  <1> QED BY <1>w, <1>r, <1>c, <1>d, <1>u DEF Next, MasterContinues, Terminated

-----------------------------------------------------------------------------
(* The queue, the flags and the blocked master.                            *)

\* Nobody becomes idle or unused while tasks are queued, and tasks are queued
\* only when nobody is.
LEMMA NoIdlerStep == IInv /\ [Next]_vars => NoIdlerWhileTasksQueued'
  <1> SUFFICES ASSUME IInv, [Next]_vars PROVE NoIdlerWhileTasksQueued'
    OBVIOUS
  <1> USE DEF NoIdlerWhileTasksQueued
  <1>0. NoIdlerWhileTasksQueued /\ num \in 0 .. QueueLength
    BY DEF IInv, queueTypeOK
  <1>w. ASSUME NEW w \in Worker, workerCallback(w) PROVE NoIdlerWhileTasksQueued'
    <2>1. CASE WorkerStart(w) \/ WakeWithTask(w)
      BY <2>1, <1>0 DEF WorkerStart, WakeWithTask, queueVars, listVars
    <2>2. CASE TakeNext(w) \/ WakeTakeNext(w)
      BY <2>2, <1>0 DEF TakeNext, WakeTakeNext, lookForWork, queueGetNext,
         queueVars, listVars
    <2>3. CASE EndInCleanup(w) \/ EndIdleless(w) \/ WakeEnd(w) \/ BecomeIdle(w)
      <3>1. num = 0 /\ num' = num
        BY <2>3, <1>0 DEF EndInCleanup, EndIdleless, WakeEnd, BecomeIdle,
           ThreadReturns, WorkToDo, queueVars
      <3> QED BY <3>1
    <2> QED BY <1>w, <2>1, <2>2, <2>3 DEF workerCallback
  <1>r. ASSUME NEW t, RunOrWait(t) PROVE NoIdlerWhileTasksQueued'
    <2>1. CASE RunOnIdle(t) \/ RunOnNewThread(t)
      <3>1. num = 0 /\ num' = num
        BY <2>1, <1>0 DEF RunOnIdle, RunOnNewThread, queueVars
      <3> QED BY <3>1
    <2>2. CASE RunLater(t) \/ Block(t)
      BY <2>2 DEF RunLater, Block, listVars
    <2> QED BY <1>r, <2>1, <2>2 DEF RunOrWait
  <1>c. ASSUME checkIdleThreadTimeout \/ DestroyRound PROVE NoIdlerWhileTasksQueued'
    <2>1. num' = num /\ unused' = unused /\ (idle = <<>> => idle' = <<>>)
      BY <1>c DEF checkIdleThreadTimeout, TimeoutPossible, DestroyRound,
         JoinIdle, AwaitWorkers, AllGone, queueVars
    <2> QED BY <2>1, <1>0
  <1>u. ASSUME ThreadStarted \/ HandoffTaken \/ CleanupDone \/ UNCHANGED vars
        PROVE  NoIdlerWhileTasksQueued'
    BY <1>u, <1>0 DEF ThreadStarted, HandoffTaken, CleanupDone, vars, listVars,
       queueVars
  <1> QED BY <1>w, <1>r, <1>c, <1>u
       DEF Next, MasterContinues, Terminated, runTask, RetryRun, destroy, Joined

\* The flags follow the master.
LEMMA FlagsStep == IInv /\ [Next]_vars => FlagsFollowMaster'
  <1> SUFFICES ASSUME IInv, [Next]_vars PROVE FlagsFollowMaster'
    OBVIOUS
  <1> USE DEF FlagsFollowMaster, MasterWaits
  <1>0. FlagsFollowMaster /\ wpc \in [Worker -> WorkerState]
    BY ListFacts DEF IInv
  <1>w. ASSUME NEW w \in Worker, workerCallback(w) PROVE FlagsFollowMaster'
    <2>1. CASE WorkerStart(w)
      <3>1. /\ wpc[w] = "created" /\ wpc' = [wpc EXCEPT ![w] = "working"]
            /\ UNCHANGED <<flagVars, mpc, mtask, submitted, handoff>>
            /\ mpc = "startWait"
        BY <2>1, <1>0 DEF WorkerStart, Work, queueVars
      <3>2. \A v \in Worker : wpc'[v] # "created"
        BY <3>1, <1>0
      <3> QED BY <3>1, <3>2, <1>0 DEF flagVars
    <2>2. CASE TakeNext(w) \/ WakeTakeNext(w) \/ WakeWithTask(w)
      <3>1. /\ UNCHANGED <<flagVars, mpc, mtask, submitted, handoff>>
            /\ wpc' = [wpc EXCEPT ![w] = "working"]
            /\ UNCHANGED signaled \/ mpc = "fullWait"
        BY <2>2, <1>0 DEF TakeNext, WakeTakeNext, WakeWithTask, lookForWork, Work,
           WakeBlockedMaster, queueGetNext, queueVars, masterVars
      <3>2. \A v \in Worker : wpc'[v] = "created" => wpc[v] = "created"
        BY <3>1, <1>0
      <3> QED BY <3>1, <3>2, <1>0 DEF flagVars
    <2>3. CASE EndInCleanup(w) \/ EndIdleless(w) \/ WakeEnd(w) \/ BecomeIdle(w)
      <3>1. /\ UNCHANGED <<flagVars, mpc, mtask, submitted, handoff>>
            /\ \E s \in {"none", "waiting"} : wpc' = [wpc EXCEPT ![w] = s]
        BY <2>3 DEF EndInCleanup, EndIdleless, WakeEnd, BecomeIdle, ThreadReturns,
           queueVars, masterVars
      <3>2. UNCHANGED signaled \/ (cleanup /\ (signaled' => MasterWaits))
        BY <2>3 DEF EndInCleanup, EndIdleless, WakeEnd, BecomeIdle, masterVars,
           SignalMaster
      <3>3. \A v \in Worker : wpc'[v] = "created" => wpc[v] = "created"
        BY <3>1, <1>0
      <3>4. CASE UNCHANGED signaled
        BY <3>1, <3>3, <3>4, <1>0 DEF flagVars
      <3>5. CASE cleanup /\ (signaled' => MasterWaits)
        BY <3>1, <3>3, <3>5, <1>0 DEF flagVars
      <3> QED BY <3>2, <3>4, <3>5
    <2> QED BY <1>w, <2>1, <2>2, <2>3 DEF workerCallback
  <1>r. ASSUME runTask \/ RetryRun PROVE FlagsFollowMaster'
    <2>1. PICK t \in Task : /\ RunOrWait(t) /\ submitted' = t /\ ~cleanup
                            /\ \A v \in Worker : wpc[v] # "created"
      BY <1>r, <1>0 DEF runTask, RetryRun, IInv, clientTypeOK, Task
    <2>2. CASE RunOnIdle(t)
      <3>1. /\ ~taskWaitingToBeRun' /\ ~cleanup' /\ ~signaled' /\ mpc' = "ready"
        BY <2>1, <2>2 DEF RunOrWait, RunOnIdle, Block, RunLater, RunOnNewThread
      <3>2. \A v \in Worker : wpc'[v] # "created"
        BY <2>1, <2>2, <1>0 DEF RunOnIdle
      <3> QED BY <3>1, <3>2
    <2>3. CASE RunOnNewThread(t)
      <3>1. /\ ~taskWaitingToBeRun' /\ ~cleanup' /\ ~signaled' /\ mpc' = "startWait"
            /\ wpc' = [wpc EXCEPT ![Top(unused)] = "created"]
        BY <2>1, <2>3 DEF RunOrWait, RunOnNewThread, RunOnIdle, Block, RunLater
      <3>2. \A v \in Worker : wpc'[v] = "created" => v = Top(unused)
        BY <2>1, <3>1, <1>0
      <3> QED BY <3>1, <3>2
    <2>4. CASE RunLater(t)
      <3>1. /\ ~taskWaitingToBeRun' /\ ~cleanup' /\ ~signaled' /\ mpc' = "ready"
            /\ wpc' = wpc
        BY <2>1, <2>4 DEF RunOrWait, RunLater, Block, queueMakeNewEntry, queueFull,
           RunOnIdle, RunOnNewThread, workerVars
      <3> QED BY <2>1, <3>1
    <2>5. CASE Block(t)
      <3>1. /\ taskWaitingToBeRun' /\ ~cleanup' /\ ~signaled' /\ mpc' = "fullWait"
            /\ wpc' = wpc /\ mtask' = t
            /\ QueueLength = 0 => handoff' = t
        BY <2>1, <2>5 DEF RunOrWait, RunLater, Block, queueMakeNewEntry,
           RunOnIdle, RunOnNewThread, workerVars
      <3> QED BY <2>1, <3>1 DEF Task
    <2> QED BY <2>1, <2>2, <2>3, <2>4, <2>5 DEF RunOrWait
  <1>c. ASSUME checkIdleThreadTimeout PROVE FlagsFollowMaster'
    <2>1. \A v \in Worker : wpc'[v] = "created" => wpc[v] = "created"
      BY <1>c, <1>0 DEF checkIdleThreadTimeout
    <2> QED BY <1>c, <2>1, <1>0 DEF checkIdleThreadTimeout, flagVars, masterVars,
         clientVars, queueVars
  <1>d. ASSUME destroy \/ Joined PROVE FlagsFollowMaster'
    <2>1. /\ mpc' \in {"joinWait", "cleanupWait", "destroyed"} /\ ~signaled'
          /\ ~taskWaitingToBeRun' /\ (cleanup' => mpc' # "joinWait")
          /\ \A v \in Worker : wpc[v] # "created"
      BY <1>d, <1>0 DEF destroy, Joined, DestroyRound, JoinIdle, AwaitWorkers, AllGone
    <2>2. \A v \in Worker : wpc'[v] # "created"
      BY <1>d, <2>1, <1>0 DEF destroy, Joined, DestroyRound, JoinIdle,
         AwaitWorkers, AllGone
    <2> QED BY <2>1, <2>2
  <1>u. ASSUME ThreadStarted \/ HandoffTaken \/ CleanupDone \/ UNCHANGED vars
        PROVE  FlagsFollowMaster'
    BY <1>u, <1>0 DEF ThreadStarted, HandoffTaken, CleanupDone, vars, flagVars,
       queueVars, workerVars, masterVars, clientVars
  <1> QED BY <1>w, <1>r, <1>c, <1>d, <1>u DEF Next, MasterContinues, Terminated

\* While no signal is on its way, the blocked master faces a full queue and
\* busy threads: whoever would change that finds work, and signals.
LEMMA BlockedStep == IInv /\ [Next]_vars => BlockedOnlyWhenFull'
  <1> SUFFICES ASSUME IInv, [Next]_vars, mpc' = "fullWait", ~signaled'
               PROVE  /\ num' = QueueLength /\ taskWaitingToBeRun'
                      /\ \A w \in Worker : wpc'[w] \in {"working", "signaled"}
    BY DEF BlockedOnlyWhenFull
  <1>0. /\ FlagsFollowMaster /\ BlockedOnlyWhenFull /\ wpc \in [Worker -> WorkerState]
        /\ num \in 0 .. QueueLength
    BY ListFacts DEF IInv, queueTypeOK
  <1>b. ASSUME mpc = "fullWait", ~signaled
        PROVE  /\ WorkToDo /\ num = QueueLength /\ taskWaitingToBeRun
               /\ \A w \in Worker : wpc[w] \in {"working", "signaled"}
    BY <1>b, <1>0 DEF BlockedOnlyWhenFull, WorkToDo
  <1>w. ASSUME NEW w \in Worker, workerCallback(w)
        PROVE  /\ num' = QueueLength /\ taskWaitingToBeRun'
               /\ \A v \in Worker : wpc'[v] \in {"working", "signaled"}
    <2>0. mpc = "fullWait"
      BY <1>w DEF workerCallback, WorkerStart, TakeNext, EndInCleanup, BecomeIdle,
         EndIdleless, WakeWithTask, WakeTakeNext, WakeEnd, lookForWork,
         ThreadReturns, masterVars
    <2>1. CASE WorkerStart(w)
      BY <2>0, <2>1, <1>0 DEF WorkerStart, FlagsFollowMaster
    <2>2. CASE TakeNext(w) \/ WakeTakeNext(w)
      BY <2>0, <2>2, <1>0 DEF TakeNext, WakeTakeNext, lookForWork,
         WakeBlockedMaster, SignalMaster, MasterWaits, FlagsFollowMaster
    <2>3. CASE EndInCleanup(w)
      BY <2>0, <2>3, <1>0 DEF EndInCleanup, FlagsFollowMaster
    <2>4. CASE EndIdleless(w) \/ WakeEnd(w) \/ BecomeIdle(w)
      BY <2>0, <2>4, <1>b DEF EndIdleless, WakeEnd, BecomeIdle, masterVars
    <2>5. CASE WakeWithTask(w)
      <3>1. ~signaled /\ num' = num /\ taskWaitingToBeRun' = taskWaitingToBeRun
            /\ wpc' = [wpc EXCEPT ![w] = "working"]
        BY <2>5 DEF WakeWithTask, Work, masterVars, queueVars, flagVars
      <3> QED BY <2>0, <3>1, <1>b, <1>0
    <2> QED BY <1>w, <2>1, <2>2, <2>3, <2>4, <2>5 DEF workerCallback
  <1>r. ASSUME runTask \/ RetryRun
        PROVE  /\ num' = QueueLength /\ taskWaitingToBeRun'
               /\ \A v \in Worker : wpc'[v] \in {"working", "signaled"}
    <2>1. PICK t : /\ RunOrWait(t)
                   /\ \A v \in Worker : wpc[v] # "created"
      BY <1>r, <1>0 DEF runTask, RetryRun, FlagsFollowMaster
    <2>2. Block(t) /\ taskWaitingToBeRun'
      BY <2>1 DEF RunOrWait, RunOnIdle, RunOnNewThread, RunLater
    <2>3. \A v \in Worker : wpc[v] \notin {"waiting", "none"}
      <3>1. Len(idle) = 0 /\ Len(unused) = 0
        BY <2>2 DEF Block
      <3> QED BY <3>1, ListFacts DEF Lists
    <2>4. \A v \in Worker : wpc[v] \in {"working", "signaled"}
      BY <2>1, <2>3, <1>0 DEF WorkerState
    <2> QED BY <2>2, <2>4 DEF Block, queueFull, workerVars
  <1>c. ASSUME checkIdleThreadTimeout \/ destroy \/ Joined
        PROVE  FALSE
    BY <1>c DEF checkIdleThreadTimeout, masterVars, destroy, Joined, DestroyRound,
       JoinIdle, AwaitWorkers, AllGone
  <1>s. ASSUME ThreadStarted \/ HandoffTaken \/ CleanupDone
        PROVE  FALSE
    BY <1>s DEF ThreadStarted, HandoffTaken, CleanupDone
  <1>u. ASSUME UNCHANGED vars
        PROVE  /\ num' = QueueLength /\ taskWaitingToBeRun'
               /\ \A v \in Worker : wpc'[v] \in {"working", "signaled"}
    BY <1>u, <1>b DEF vars, queueVars, flagVars, workerVars, masterVars
  <1> QED BY <1>w, <1>r, <1>c, <1>s, <1>u DEF Next, MasterContinues, Terminated

\* Threads hold real tasks, idle ones none, and the ring is not longer than
\* what was handed in.
LEMMA InHandStep == IInv /\ [Next]_vars => TasksInHand'
  <1> SUFFICES ASSUME IInv, [Next]_vars PROVE TasksInHand'
    OBVIOUS
  <1> USE DEF TasksInHand
  <1>0. /\ TasksInHand /\ FlagsFollowMaster /\ Types
        /\ wpc \in [Worker -> WorkerState]
        /\ userTask \in [Worker -> Task \cup {NoTask}]
        /\ current \in [Worker -> Task \cup {NoTask}]
        /\ num \in Nat /\ submitted \in Nat
        /\ NoTask \notin Task
    BY ListFacts DEF IInv, Types, queueTypeOK, clientTypeOK, workerTypeOK, Task, NoTask
  <1>w. ASSUME NEW w \in Worker, workerCallback(w) PROVE TasksInHand'
    <2>1. CASE WorkerStart(w) \/ WakeWithTask(w)
      <3>1. /\ wpc' = [wpc EXCEPT ![w] = "working"] /\ userTask' = userTask
            /\ current' = [current EXCEPT ![w] = userTask[w]]
            /\ userTask[w] # NoTask
            /\ UNCHANGED <<mpc, num, submitted>>
        BY <2>1, <1>0 DEF WorkerStart, WakeWithTask, Work, queueVars, masterVars
      <3> QED BY <3>1, <1>0 DEF LastHandedIn
    <2>2. CASE TakeNext(w) \/ WakeTakeNext(w)
      <3>1. PICK t \in Task : /\ wpc' = [wpc EXCEPT ![w] = "working"]
                              /\ current' = [current EXCEPT ![w] = t]
                              /\ UNCHANGED <<userTask, mpc, submitted>>
                              /\ num' <= num /\ num' \in Int
        BY <2>2, FoundTask, <1>0 DEF TakeNext, WakeTakeNext, lookForWork, Work,
           queueGetNext, queueVars
      <3> QED BY <3>1, <1>0 DEF LastHandedIn
    <2>3. CASE EndInCleanup(w) \/ EndIdleless(w) \/ WakeEnd(w)
      <3>1. /\ wpc' = [wpc EXCEPT ![w] = "none"]
            /\ UNCHANGED <<userTask, current, mpc, num, submitted>>
        BY <2>3 DEF EndInCleanup, EndIdleless, WakeEnd, ThreadReturns, queueVars
      <3> QED BY <3>1, <1>0 DEF LastHandedIn
    <2>4. CASE BecomeIdle(w)
      <3>1. /\ wpc' = [wpc EXCEPT ![w] = "waiting"]
            /\ userTask' = [userTask EXCEPT ![w] = NoTask]
            /\ UNCHANGED <<current, mpc, num, submitted>>
        BY <2>4 DEF BecomeIdle, ForgetTask, queueVars, masterVars
      <3> QED BY <3>1, <1>0 DEF LastHandedIn
    <2> QED BY <1>w, <2>1, <2>2, <2>3, <2>4 DEF workerCallback
  <1>r. ASSUME runTask \/ RetryRun PROVE TasksInHand'
    <2>1. PICK t \in Task : /\ RunOrWait(t) /\ submitted' = t
                            /\ num <= t - 1
      BY <1>r, <1>0 DEF runTask, RetryRun, FlagsFollowMaster, LastHandedIn, Types,
         clientTypeOK, Task
    <2>2. CASE RunOnIdle(t)
      <3> DEFINE u == Top(idle)
      <3>1. u \in Worker /\ wpc[u] = "waiting"
        BY <2>2, PoppedWorkers DEF RunOnIdle
      <3>2. /\ \A v \in Worker : v # u /\ wpc'[v] # "signaled" => wpc'[v] = wpc[v]
            /\ wpc'[u] = "signaled"
            /\ userTask' = [userTask EXCEPT ![u] = t]
            /\ current' = current /\ num' = num /\ mpc' = "ready"
        BY <2>2, <3>1, <1>0 DEF RunOnIdle, queueVars
      <3> HIDE DEF u
      <3> QED BY <2>1, <3>1, <3>2, <1>0 DEF LastHandedIn, Task
    <2>3. CASE RunOnNewThread(t)
      <3> DEFINE u == Top(unused)
      <3>1. u \in Worker /\ wpc[u] = "none"
        BY <2>3, PoppedWorkers DEF RunOnNewThread
      <3>2. /\ wpc' = [wpc EXCEPT ![u] = "created"]
            /\ userTask' = [userTask EXCEPT ![u] = t]
            /\ current' = current /\ num' = num /\ mpc' = "startWait"
        BY <2>3 DEF RunOnNewThread, queueVars
      <3> HIDE DEF u
      <3> QED BY <2>1, <3>1, <3>2, <1>0 DEF LastHandedIn, Task
    <2>4. CASE RunLater(t)
      <3>1. UNCHANGED workerVars /\ num' = num + 1 /\ mpc' = "ready"
        BY <2>4 DEF RunLater, queueMakeNewEntry
      <3> QED BY <2>1, <3>1, <1>0 DEF LastHandedIn, Task, workerVars
    <2>5. CASE Block(t)
      <3>1. UNCHANGED workerVars /\ num' = num
        BY <2>5 DEF Block
      <3> QED BY <2>1, <3>1, <1>0 DEF LastHandedIn, Task, workerVars
    <2> QED BY <2>1, <2>2, <2>3, <2>4, <2>5 DEF RunOrWait
  <1>c. ASSUME checkIdleThreadTimeout PROVE TasksInHand'
    <2>1. /\ wpc' = [wpc EXCEPT ![Bottom(idle)] = "signaled"]
          /\ UNCHANGED <<userTask, current, mpc, num, submitted>>
      BY <1>c DEF checkIdleThreadTimeout, queueVars, masterVars, clientVars
    <2> QED BY <2>1, <1>0 DEF LastHandedIn
  <1>d. ASSUME destroy \/ Joined PROVE TasksInHand'
    <2>1. mpc # "fullWait" /\ mpc' # "fullWait" /\ DestroyRound
      BY <1>d DEF destroy, Joined, DestroyRound, JoinIdle, AwaitWorkers, AllGone
    <2>2. UNCHANGED <<current, num, submitted>>
      BY <2>1 DEF DestroyRound, queueVars
    <2>3. \/ /\ wpc' = [wpc EXCEPT ![Top(idle)] = "signaled"]
             /\ userTask' = [userTask EXCEPT ![Top(idle)] = NoTask]
          \/ UNCHANGED <<wpc, userTask>>
      BY <2>1 DEF DestroyRound, JoinIdle, AwaitWorkers, AllGone, ForgetTask
    <2>4. \A v \in Worker : wpc'[v] # "signaled" =>
             wpc'[v] = wpc[v] /\ (userTask'[v] = userTask[v])
      BY <2>3, <1>0
    <2> QED BY <2>1, <2>2, <2>4, <1>0 DEF LastHandedIn
  <1>s. ASSUME ThreadStarted \/ HandoffTaken \/ CleanupDone PROVE TasksInHand'
    BY <1>s, <1>0 DEF ThreadStarted, HandoffTaken, CleanupDone, workerVars,
       queueVars, clientVars, LastHandedIn
  <1>u. ASSUME UNCHANGED vars PROVE TasksInHand'
    BY <1>u, <1>0 DEF vars, workerVars, queueVars, clientVars, masterVars,
       LastHandedIn
  <1> QED BY <1>w, <1>r, <1>c, <1>d, <1>s, <1>u DEF Next, MasterContinues, Terminated

-----------------------------------------------------------------------------
(* The ring.                                                               *)

\* The k-th entry after the next one is the (k+1)-th entry.
LEMMA NextIndexShifts ==
    ASSUME QueueLength > 0, NEW i \in 0 .. QueueLength - 1,
           NEW k \in 0 .. QueueLength - 2
    PROVE  (nextIndex(i) + k) % QueueLength = (i + (k + 1)) % QueueLength
  <1>1. CASE i < QueueLength - 1
    BY <1>1 DEF nextIndex
  <1>2. CASE i = QueueLength - 1
    <2>1. nextIndex(i) + k = k /\ i + (k + 1) = k + QueueLength
      BY <1>2 DEF nextIndex
    <2>2. k % QueueLength = k /\ (k + QueueLength) % QueueLength = k
      BY ModOnce
    <2> QED BY <2>1, <2>2
  <1> QED BY <1>1, <1>2

\* The free slot is none of the slots in use.
LEMMA FreeIndexIsFree ==
    ASSUME QueueLength > 0, NEW i \in 0 .. QueueLength - 1,
           NEW n \in 0 .. QueueLength - 1, NEW k \in 0 .. n - 1
    PROVE  /\ (i + k) % QueueLength # (i + n) % QueueLength
           /\ (i + k) % QueueLength \in 0 .. QueueLength - 1
           /\ (i + n) % QueueLength \in 0 .. QueueLength - 1
  <1>1. /\ (i + k) % QueueLength =
               IF i + k < QueueLength THEN i + k ELSE i + k - QueueLength
        /\ (i + n) % QueueLength =
               IF i + n < QueueLength THEN i + n ELSE i + n - QueueLength
    BY ModOnce
  <1> QED BY <1>1

\* The ring holds the latest tasks in the order of the calls.
LEMMA RingStep == IInv /\ [Next]_vars => RingInOrder'
  <1> SUFFICES ASSUME IInv, [Next]_vars PROVE RingInOrder'
    OBVIOUS
  <1>0. /\ RingInOrder /\ FlagsFollowMaster /\ NoIdlerWhileTasksQueued
        /\ num \in 0 .. QueueLength /\ submitted \in Nat
        /\ nextReadIndex \in Nat
        /\ QueueLength > 0 => nextReadIndex \in 0 .. QueueLength - 1
        /\ slot \in [0 .. QueueLength - 1 -> Task \cup {NoTask}]
        /\ LastHandedIn \in Int
    BY DEF IInv, queueTypeOK, clientTypeOK, LastHandedIn
  <1>same. ASSUME UNCHANGED <<slot, nextReadIndex, num>>,
                  num = 0 \/ LastHandedIn' = LastHandedIn
           PROVE  RingInOrder'
    <2>1. CASE num = 0
      <3>1. num' = 0
        BY <2>1, <1>same
      <3> QED BY <3>1 DEF RingInOrder
    <2>2. CASE LastHandedIn' = LastHandedIn
      BY <2>2, <1>same, <1>0 DEF RingInOrder
    <2> QED BY <2>1, <2>2, <1>same
  <1>w. ASSUME NEW w \in Worker, workerCallback(w) PROVE RingInOrder'
    <2>0. LastHandedIn' = LastHandedIn
      BY <1>w DEF workerCallback, WorkerStart, TakeNext, EndInCleanup, BecomeIdle,
         EndIdleless, WakeWithTask, WakeTakeNext, WakeEnd, lookForWork,
         ThreadReturns, masterVars, LastHandedIn
    <2>1. CASE TakeNext(w) \/ WakeTakeNext(w)
      <3>1. CASE QueueLength > 0
        <4>1. /\ num > 0 /\ num' = num - 1 /\ slot' = slot
              /\ nextReadIndex' = nextIndex(nextReadIndex)
          BY <2>1, <3>1 DEF TakeNext, WakeTakeNext, lookForWork, queueGetNext
        <4>2. ASSUME NEW k \in 0 .. num' - 1
              PROVE  slot'[(nextReadIndex' + k) % QueueLength]
                        = LastHandedIn' - num' + 1 + k
          <5>1. k \in 0 .. QueueLength - 2 /\ k + 1 \in 0 .. num - 1
            BY <4>1, <1>0
          <5>2. (nextIndex(nextReadIndex) + k) % QueueLength
                   = (nextReadIndex + (k + 1)) % QueueLength
            BY <5>1, <3>1, <1>0, NextIndexShifts
          <5>3. slot[(nextReadIndex + (k + 1)) % QueueLength]
                   = LastHandedIn - num + 1 + (k + 1)
            BY <5>1, <1>0 DEF RingInOrder
          <5>4. LastHandedIn - num + 1 + (k + 1) = LastHandedIn' - num' + 1 + k
            BY <2>0, <4>1, <1>0
          <5> QED BY <4>1, <5>2, <5>3, <5>4
        <4> QED BY <4>2 DEF RingInOrder
      <3>2. CASE QueueLength = 0
        BY <2>0, <2>1, <3>2, <1>same DEF TakeNext, WakeTakeNext, lookForWork, queueVars
      <3> QED BY <3>1, <3>2
    <2>2. CASE ~(TakeNext(w) \/ WakeTakeNext(w))
      BY <1>w, <2>0, <2>2, <1>same DEF workerCallback, WorkerStart, EndInCleanup,
         BecomeIdle, EndIdleless, WakeWithTask, WakeEnd, ThreadReturns, queueVars
    <2> QED BY <2>1, <2>2
  <1>r. ASSUME runTask \/ RetryRun PROVE RingInOrder'
    <2>1. PICK t \in Nat : /\ RunOrWait(t) /\ submitted' = t
                           /\ num > 0 => LastHandedIn = t - 1
      BY <1>r, <1>0 DEF runTask, RetryRun, FlagsFollowMaster, LastHandedIn
    <2>2. CASE RunOnIdle(t) \/ RunOnNewThread(t)
      <3>1. num = 0 /\ UNCHANGED queueVars
        BY <2>2, <1>0 DEF RunOnIdle, RunOnNewThread, NoIdlerWhileTasksQueued
      <3> QED BY <3>1, <1>same DEF queueVars
    <2>3. CASE RunLater(t)
      <3>1. /\ QueueLength > 0 /\ num < QueueLength /\ num' = num + 1
            /\ nextReadIndex' = nextReadIndex
            /\ slot' = [slot EXCEPT ![(nextReadIndex + num) % QueueLength] = t]
            /\ LastHandedIn' = t
        BY <2>1, <2>3, <1>0 DEF RunLater, queueMakeNewEntry, queueFull, freeIndex,
           LastHandedIn
      <3>2. (nextReadIndex + num) % QueueLength \in 0 .. QueueLength - 1
        BY <3>1, <1>0
      <3>3. ASSUME NEW k \in 0 .. num - 1
            PROVE  slot'[(nextReadIndex + k) % QueueLength] = t - (num + 1) + 1 + k
        <4>1. /\ (nextReadIndex + k) % QueueLength # (nextReadIndex + num) % QueueLength
              /\ (nextReadIndex + k) % QueueLength \in 0 .. QueueLength - 1
          BY <3>1, <1>0, FreeIndexIsFree
        <4>2. slot[(nextReadIndex + k) % QueueLength] = LastHandedIn - num + 1 + k
          BY <1>0 DEF RingInOrder
        <4>3. LastHandedIn = t - 1
          BY <2>1, <1>0
        <4> QED BY <3>1, <4>1, <4>2, <4>3, <1>0
      <3>4. slot'[(nextReadIndex + num) % QueueLength] = t - (num + 1) + 1 + num
        BY <3>1, <3>2, <1>0
      <3>5. \A k \in 0 .. num :
               slot'[(nextReadIndex + k) % QueueLength] = t - (num + 1) + 1 + k
        <4> SUFFICES ASSUME NEW k \in 0 .. num
                     PROVE  slot'[(nextReadIndex + k) % QueueLength]
                               = t - (num + 1) + 1 + k
          OBVIOUS
        <4>1. CASE k = num
          BY <3>4, <4>1
        <4>2. CASE k \in 0 .. num - 1
          BY <3>3, <4>2
        <4> QED BY <4>1, <4>2, <1>0
      <3> QED BY <3>1, <3>5, <1>0 DEF RingInOrder
    <2>4. CASE Block(t)
      <3>1. UNCHANGED <<slot, nextReadIndex, num>> /\ mpc' = "fullWait"
        BY <2>4 DEF Block
      <3>2. num = 0 \/ LastHandedIn' = LastHandedIn
        BY <2>1, <3>1, <1>0 DEF LastHandedIn
      <3> QED BY <3>1, <3>2, <1>same
    <2> QED BY <2>1, <2>2, <2>3, <2>4 DEF RunOrWait
  <1>m. ASSUME \/ checkIdleThreadTimeout \/ destroy \/ Joined
               \/ ThreadStarted \/ CleanupDone \/ UNCHANGED vars
        PROVE  RingInOrder'
    <2>1. UNCHANGED queueVars
      BY <1>m DEF checkIdleThreadTimeout, destroy, Joined, DestroyRound,
         ThreadStarted, CleanupDone, vars
    <2>2. LastHandedIn' = LastHandedIn
      BY <1>m DEF checkIdleThreadTimeout, destroy, Joined, DestroyRound, JoinIdle,
         AwaitWorkers, AllGone, ThreadStarted, CleanupDone, vars, masterVars,
         clientVars, LastHandedIn
    <2> QED BY <2>1, <2>2, <1>same DEF queueVars
  <1>h. ASSUME HandoffTaken PROVE RingInOrder'
    BY <1>h, <1>0, <1>same DEF HandoffTaken, queueVars
  <1> QED BY <1>w, <1>r, <1>m, <1>h DEF Next, MasterContinues, Terminated

-----------------------------------------------------------------------------
(* The theorems.                                                           *)

\* poThreadPool_create() establishes the invariant.
LEMMA InitIInv == Init => IInv
  <1> SUFFICES ASSUME Init PROVE IInv
    OBVIOUS
  <1> USE DEF Init
  <1>1. unused \in Seq(Worker) /\ Len(unused) = MaxNumThreads
    BY DEF Worker
  <1>2. Types
    <2>1. listTypeOK
      BY <1>1 DEF listTypeOK
    <2>2. queueTypeOK
      BY DEF queueTypeOK, Task, NoTask
    <2>3. flagTypeOK /\ masterTypeOK
      <3>1. flagTypeOK /\ signaled \in BOOLEAN
        BY Zenon DEF flagTypeOK
      <3>2. joining \in Worker
        BY DEF Worker
      <3>3. mpc = "ready" /\ mtask = NoTask
        OBVIOUS
      <3> QED BY <3>1, <3>2, <3>3, Zenon DEF masterTypeOK
    <2>4. workerTypeOK /\ clientTypeOK
      BY DEF workerTypeOK, clientTypeOK, Worker, Task, NoTask
    <2> QED BY <2>1, <2>2, <2>3, <2>4 DEF Types
  <1>3. Lists(idle, wpc, "waiting")
    BY DEF Lists
  <1>4. Lists(unused, wpc, "none")
    <2>1. \A w \in Worker : /\ MaxNumThreads - w \in 1 .. Len(unused)
                            /\ unused[MaxNumThreads - w] = w
      BY <1>1 DEF Worker
    <2>2. \A i \in 1 .. Len(unused) : unused[i] = MaxNumThreads - i /\ unused[i] \in Worker
      BY <1>1 DEF Worker
    <2>3. \A i, j \in 1 .. Len(unused) : unused[i] = unused[j] => i = j
      BY <1>1, <2>2
    <2>4. \A i \in 1 .. Len(unused) : wpc[unused[i]] = "none"
      BY <2>2
    <2> QED BY <2>1, <2>3, <2>4 DEF Lists
  <1>5. num_threads = Cardinality(Live)
    <2>1. Live = {}
      BY DEF Live
    <2> QED BY <2>1, FS_EmptySet
  <1>6. WorkersAccounted
    BY <1>3, <1>4, <1>5 DEF WorkersAccounted
  <1>7. NoIdlerWhileTasksQueued /\ BlockedOnlyWhenFull /\ RingInOrder
    BY DEF NoIdlerWhileTasksQueued, BlockedOnlyWhenFull, RingInOrder
  <1>8. FlagsFollowMaster /\ TasksInHand
    BY DEF FlagsFollowMaster, TasksInHand, MasterWaits, LastHandedIn
  <1> QED BY <1>2, <1>6, <1>7, <1>8 DEF IInv, Types

\* The invariant is inductive and holds in every reachable state.
THEOREM Invariance == Spec => []IInv
  <1>1. IInv /\ [Next]_vars => IInv'
    BY TypesStep, AccountedStep, NoIdlerStep, BlockedStep, RingStep, FlagsStep,
       InHandStep DEF IInv, Types
  <1> QED BY InitIInv, <1>1, PTL DEF Spec

\* Type correctness for every size of the pool: the counters of struct
\* POThreadPool stay within the arrays they index and bound.
THEOREM TypeCorrect == Spec => []TypeOK
  <1>1. IInv => TypeOK
    BY LiveFinite DEF IInv, TypeOK, WorkersAccounted
  <1> QED BY <1>1, Invariance, PTL

\* For every size of the pool, whatever the idle time: worker structs are
\* never in two lists, and num_threads is the number of threads.
THEOREM WorkersAreAccounted == Spec => []WorkersAccounted
  <1>1. IInv => WorkersAccounted
    BY DEF IInv
  <1> QED BY <1>1, Invariance, PTL

\* The DVASSERTs of threadPool.c on idle workers and queued tasks never fire.
THEOREM NobodyIdlesWhileTasksQueued == Spec => []NoIdlerWhileTasksQueued
  <1>1. IInv => NoIdlerWhileTasksQueued
    BY DEF IInv
  <1> QED BY <1>1, Invariance, PTL

\* runTask() never sleeps through a wake-up: unless one is under way, the
\* queue is full and every thread is busy.
THEOREM NoMissedWakeup == Spec => []BlockedOnlyWhenFull
  <1>1. IInv => BlockedOnlyWhenFull
    BY DEF IInv
  <1> QED BY <1>1, Invariance, PTL

\* The ring never loses, doubles or reorders a task, for every queue length.
THEOREM RingIsFIFO == Spec => []RingInOrder
  <1>1. IInv => RingInOrder
    BY DEF IInv
  <1> QED BY <1>1, Invariance, PTL

=============================================================================
