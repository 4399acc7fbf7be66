------------------------- MODULE ServerEdges_proofs -------------------------
(***************************************************************************)
(* Proof that the server loses no edge of the edge-triggered epoll: as     *)
(* long as there is something to read or room to write, and a callback for *)
(* it, a worker is at the connection, or a task for it is on its way, or   *)
(* the kernel or the batch of events still has the edge.                   *)
(*                                                                         *)
(* The steps of a worker that runs callbacks (ServeStep) change the flags  *)
(* and the callbacks of its own connection only, whose mutex it holds.  Of *)
(* the others, FlagEvent moves an edge from the batch to the flags and to  *)
(* a task, EpollWait from the ready list to the batch; the rest leaves a   *)
(* connection in use as it is, or adds an edge.                            *)
(***************************************************************************)
EXTENDS Server_proofs

ServeStep(w) ==
    \/ ReadStage(w) \/ WriteStage(w) \/ CallbackReturns(w) \/ CallbackCloses(w)
    \/ echoRequest(w) \/ echoWrite(w) \/ setReadCallback(w) \/ setWriteCallback(w)

PoolStep(w) ==
    TakeTask(w) \/ LockConn(w) \/ TooLate(w) \/ LockServer(w) \/ FinishService(w)

RestStep == OtherStep \/ \E w \in Thread : PoolStep(w)

LEMMA ServeOrRest == [Next]_vars => RestStep \/ \E w \in Thread : ServeStep(w)
  BY StepsAre DEF RestStep, ServeStep, PoolStep, ThreadStep

-----------------------------------------------------------------------------
(* What the other steps do to a connection.                                *)

ConnStep(c) ==
    \/ conn'[c] = conn[c]
    \/ InUse(c) /\ conn'[c] = [conn[c] EXCEPT !.marked = TRUE]
    \/ ~Locked(c) /\ conn'[c] = FreeConn(conn[c].changeCount + 1)
    \/ /\ ~Locked(c) /\ ~InUse(c) /\ (InUse(c))' /\ Has(ready', conn'[c].client)
       /\ conn'[c] = [conn[c] EXCEPT !.client = Accepted, !.readCb = TRUE]
    \/ FlagEvent /\ c = ev.ptr /\ conn'[c] = Flagged(conn[c])

LEMMA TrySteps ==
    ASSUME IInv, NEW d \in Conn, InUse(d), checkTryRemoveConnection(d), NEW c \in Conn
    PROVE  ConnStep(c)
  <1>0. conn \in [Conn -> ConnRec]
    BY DEF IInv, TypeOK, connTypeOK
  <1>1. CASE Removes(d)
    BY <1>0, <1>1 DEF Removes, removeConnection, ConnStep
  <1>2. CASE MarksForRemoval(d)
    BY <1>0, <1>2 DEF MarksForRemoval, ConnStep
  <1> QED BY <1>1, <1>2 DEF checkTryRemoveConnection

LEMMA AcceptSteps ==
    ASSUME IInv, accept, waiting # <<>>, unused # <<>>, NEW c \in Conn
    PROVE  ConnStep(c)
  <1>0. conn \in [Conn -> ConnRec] /\ Data /\ waiting \in Seq(Listener)
    BY IInvData DEF Data, connTypeOK
  <1> DEFINE h == Head(unused)
  <1>1. h \in Conn /\ ~InUse(h)
    BY <1>0, TailList DEF Data, ListsApart
  <1>2. CASE NothingToAccept
    BY <1>2 DEF NothingToAccept, ConnStep
  <1>4. CASE addConnection
    <2> DEFINE r == [conn[h] EXCEPT !.client = Accepted, !.readCb = TRUE]
    <2>1. /\ conn' = [conn EXCEPT ![h] = r] /\ ~Locked(h) /\ TakeFromBacklog
          /\ ready' = Append(ready, Accepted)
      BY <1>0, <1>1, <1>4 DEF addConnection
    <2>2. Accepted \in Client
      BY <1>0, <2>1, BacklogTaken
    <2>3. Has(ready', Accepted)
      <3> DEFINE S == Listener \cup Client
      <3>1. Accepted \in S /\ ready \in Seq(S)
        BY <2>2, <1>0 DEF Data, kernelTypeOK
      <3> HIDE DEF S
      <3> QED BY <3>1, <2>1, AppendList
    <2>4. r.client = Accepted
      BY <1>0, <1>1 DEF ConnRec
    <2>5. CASE c = h
      <3>1. conn'[c] = [conn[c] EXCEPT !.client = Accepted, !.readCb = TRUE]
            /\ conn'[c].client = Accepted
        BY <1>0, <2>1, <2>4, <2>5
      <3>2. (InUse(c))'
        BY <3>1, <2>2, ClientIsSome DEF InUse
      <3> QED BY <3>1, <3>2, <2>1, <2>3, <2>5, <1>1 DEF ConnStep
    <2>6. CASE c # h
      BY <2>1, <2>6 DEF ConnStep
    <2> QED BY <2>5, <2>6
  <1> QED BY <1>2, <1>4 DEF accept

LEMMA ConnSteps ==
    ASSUME IInv, [Next]_vars, RestStep, NEW c \in Conn
    PROVE  ConnStep(c)
  <1>0. /\ used \in Seq(Conn) /\ conn \in [Conn -> ConnRec] /\ MasterInStep /\ ListsApart
        /\ TasksFresh /\ task \in [Thread -> TaskRec]
    BY DEF IInv, TypeOK, listTypeOK, connTypeOK, workerTypeOK
  <1>h. used # <<>> => Head(used) \in Conn /\ InUse(Head(used))
    BY <1>0, TailList DEF ListsApart
  <1>1. CASE LockTop \/ Clock \/ LoopDone \/ LookDone \/ EpollWait \/ LockEvents
             \/ ListenerDown \/ ListenerEvent \/ EventOfRemoved \/ ConnectionEvent \/ RunTask
             \/ Relock \/ EventsDone \/ ShutdownLock \/ shutdown \/ AcceptAsserts
             \/ DestroyBegins \/ PoolDestroyed \/ DestroyEnds \/ ClientStep \/ UNCHANGED vars
    <2>1. conn' = conn
      BY <1>1, Zenon DEF AcceptAsserts, DestroyBegins, PoolDestroyed, DestroyEnds,
         LockTop, Clock, LoopDone, LookDone, EpollWait, LockEvents,
         ListenerDown, ListenerEvent, EventOfRemoved, ConnectionEvent, RunTask, Relock,
         EventsDone, ShutdownLock, shutdown, ClientStep, Connect, Send, Drain, HangUp, vars
    <2> QED BY <2>1 DEF ConnStep
  <1>2. CASE RemoveVeryOld
    <2>1. used # <<>>
      <3>1. veryOld > 0 /\ veryOld \in Nat /\ veryOld <= Len(used)
        BY <1>2, <1>0 DEF RemoveVeryOld, MasterInStep, IInv, TypeOK, masterTypeOK
      <3>2. used = <<>> => Len(used) = 0
        OBVIOUS
      <3> QED BY <3>1, <3>2
    <2>2. checkTryRemoveConnection(Head(used))
      BY <1>2 DEF RemoveVeryOld, checkTryRemoveConnection
    <2> QED BY <2>1, <2>2, <1>h, TrySteps
  <1>3. CASE LookRemoves
    <2>1. used # <<>> /\ checkTryRemoveConnection(Head(used))
      BY <1>3 DEF LookRemoves, LookGoesOn, checkTryRemoveConnection
    <2> QED BY <2>1, <1>h, TrySteps
  <1>4. CASE EventWithoutCallback
    BY <1>4, TrySteps DEF EventWithoutCallback
  <1>5. CASE EventEnds
    <2>1. ev.ptr \in Conn
      BY <1>5, <1>0 DEF EventEnds, MasterInStep
    <2>2. CASE InUse(ev.ptr) /\ "HUP" \in ev.mask
      BY <2>1, <2>2, <1>5, TrySteps DEF EventEnds
    <2>3. CASE ~(InUse(ev.ptr) /\ "HUP" \in ev.mask)
      BY <2>3, <1>5 DEF EventEnds, ConnStep
    <2> QED BY <2>2, <2>3
  <1>6. CASE AcceptWaiting \/ LookAccepts \/ EventAccepts
    <2>1. accept /\ waiting # <<>> /\ unused # <<>>
      BY <1>6, <1>0 DEF AcceptWaiting, LookAccepts, EventAccepts, MasterInStep
    <2> QED BY <2>1, AcceptSteps
  <1>7. CASE FlagEvent
    <2>1. conn' = [conn EXCEPT ![ev.ptr] = Flagged(conn[ev.ptr])]
      BY <1>7 DEF FlagEvent
    <2> QED BY <2>1, <1>0, <1>7 DEF ConnStep
  <1>8. CASE DestroyRemoves
    <2>1. \A w \in Thread : wpc[w] = "idle"
      BY <1>8 DEF DestroyRemoves, IInv, MasterAlone, IdleThreads
    <2>2. ~Locked(Head(used))
      BY <2>1 DEF Locked, Serving
    <2>3. Removes(Head(used)) /\ used # <<>>
      BY <1>8, <2>2 DEF DestroyRemoves, Removes
    <2> QED BY <2>3, <1>h, TrySteps DEF checkTryRemoveConnection
  <1>9. ASSUME NEW w \in Thread, PoolStep(w) PROVE ConnStep(c)
    <2>1. CASE FinishService(w) /\ MustRemove(w)
      BY <2>1, <1>0 DEF FinishService, removeConnection, ConnStep
    <2>2. CASE ~(FinishService(w) /\ MustRemove(w))
      <3>1. conn' = conn
        BY <1>9, <2>2, Zenon DEF PoolStep, TakeTask, LockConn, TooLate, LockServer,
           FinishService
      <3> QED BY <3>1 DEF ConnStep
    <2> QED BY <2>1, <2>2
  <1> QED BY <1>1, <1>2, <1>3, <1>4, <1>5, <1>6, <1>7, <1>8, <1>9
          DEF RestStep, OtherStep, MasterStep, destroy

-----------------------------------------------------------------------------
(* The callbacks alternate.                                                *)

\* The pool gives and takes tasks; no thread gets into or out of a callback.
LEMMA RestThreads ==
    ASSUME IInv, RestStep, NEW w \in Thread,
           wpc'[w] \in {"inRead", "inWrite", "setRead", "setWrite", "returned", "writeStage"}
    PROVE  wpc'[w] = wpc[w] /\ task'[w] = task[w]
  <1>0. /\ wpc \in [Thread -> Serving \cup {"idle", "lock", "stale", "gap", "both"}]
        /\ task \in [Thread -> TaskRec]
    BY DEF IInv, TypeOK, workerTypeOK
  <1>1. CASE OtherStep
    BY <1>1, OthersMove DEF OtherMoves, workerVars
  <1>2. ASSUME NEW v \in Thread, PoolStep(v) PROVE wpc'[w] = wpc[w] /\ task'[w] = task[w]
    <2>1. \E p \in {"lock", "readStage", "stale", "idle", "both"} :
             wpc' = [wpc EXCEPT ![v] = p]
      BY <1>2 DEF PoolStep, TakeTask, LockConn, TooLate, LockServer, FinishService,
         ThreadIdles, Goto
    <2>2. task' = task \/ \E t : task' = [task EXCEPT ![v] = t]
      BY <1>2 DEF PoolStep, TakeTask, LockConn, TooLate, LockServer, FinishService,
         ThreadIdles
    <2>3. w # v
      BY <2>1, <1>0
    <2> QED BY <2>1, <2>2, <2>3, <1>0
  <1> QED BY <1>1, <1>2 DEF RestStep

\* A worker that serves has its connection for itself, and its step leaves the
\* others alone.
LEMMA ServeAlone ==
    ASSUME IInv, NEW w \in Thread, ServeStep(w)
    PROVE  /\ task' = task /\ task[w].conn \in Conn /\ InUse(task[w].conn)
           /\ conn[task[w].conn] \in ConnRec /\ conn[task[w].conn].client \in Client
           /\ wpc[w] \in Serving /\ UNCHANGED <<masterVars, tasks, ready>>
           /\ \E p \in Serving \cup {"gap"} : wpc' = [wpc EXCEPT ![w] = p] /\ wpc'[w] = p
           /\ \A v \in Thread : v # w => wpc'[v] = wpc[v]
           /\ \A v \in Thread : v # w /\ task[v].conn = task[w].conn => wpc[v] \notin Holding
           /\ \A c \in Conn : c # task[w].conn => conn'[c] = conn[c]
           /\ \A k \in Client : k # conn[task[w].conn].client => sock'[k] = sock[k]
  <1>0. /\ wpc \in [Thread -> Serving \cup {"idle", "lock", "stale", "gap", "both"}]
        /\ task \in [Thread -> TaskRec] /\ conn \in [Conn -> ConnRec]
        /\ MutexesExclude /\ TasksFresh
    BY DEF IInv, TypeOK, workerTypeOK, connTypeOK
  <1> DEFINE c0 == task[w].conn
  <1>1. wpc[w] \in Serving
    BY DEF ServeStep, ReadStage, WriteStage, CallbackReturns, CallbackCloses, echoRequest,
       echoWrite, setReadCallback, setWriteCallback, Serving
  <1>2. UNCHANGED <<masterVars, tasks, task, ready>>
    BY Zenon DEF ServeStep, ReadStage, WriteStage, CallbackReturns, CallbackCloses,
       echoRequest,
       echoWrite, setReadCallback, setWriteCallback, kernelVars
  <1>3. c0 \in Conn /\ conn[c0] \in ConnRec
    BY <1>0 DEF TaskRec
  <1>4. InUse(c0)
    <2>1. wpc[w] # "idle"
      BY <1>1 DEF Serving
    <2> QED BY <2>1, <1>0, <1>1 DEF TasksFresh, Fresh
  <1>5. conn[c0].client \in Client
    BY <1>3, <1>4 DEF ConnRec, InUse
  <1>6. \E p \in Serving \cup {"gap"} : wpc' = [wpc EXCEPT ![w] = p]
    <2>1. ThreadStep(w)
      BY DEF ServeStep, ThreadStep
    <2>2. WorkerMoves(w)
      BY <2>1, WorkersMove
    <2>3. wpc[w] # "lock" /\ wpc[w] # "gap" /\ wpc[w] # "idle"
      BY <1>1 DEF Serving
    <2>4. ~ThreadIdles(w)
      <3>1. ThreadIdles(w) => wpc'[w] = "idle"
        BY <1>0 DEF ThreadIdles, Goto
      <3>2. \E p \in Serving \cup {"gap"} : Goto(w, p)
        BY DEF ServeStep, ReadStage, WriteStage, CallbackReturns, CallbackCloses,
           echoRequest,
           echoWrite, setReadCallback, setWriteCallback, Goto, Serving
      <3>3. wpc'[w] # "idle"
        BY <3>2, <1>0 DEF Goto, Serving
      <3> QED BY <3>1, <3>3
    <2> QED BY <2>2, <2>3, <2>4 DEF WorkerMoves, TakeTask, Goto
  <1>7. \A v \in Thread : v # w /\ task[v].conn = c0 => wpc[v] \notin Holding
    BY <1>0, <1>1 DEF MutexesExclude, Holding
  <1>8. \A c \in Conn : c # c0 => conn'[c] = conn[c]
    <2>1. \/ conn' = conn
          \/ \E r : conn' = [conn EXCEPT ![c0] = r]
      <3>1. CASE ReadStage(w) \/ WriteStage(w)
        BY <3>1 DEF ReadStage, WriteStage
      <3>2. CASE CallbackReturns(w)
        BY <3>2 DEF CallbackReturns
      <3>3. CASE CallbackCloses(w)
        <4>1. conn' = [conn EXCEPT ![c0] = [conn[c0] EXCEPT !.readCb = FALSE, !.writeCb = FALSE]]
          BY <3>3, <1>0, <1>3 DEF CallbackCloses
        <4> QED BY <4>1
      <3>4. CASE echoRequest(w)
        BY <3>4 DEF echoRequest
      <3>5. CASE echoWrite(w)
        BY <3>5 DEF echoWrite
      <3>6. CASE setReadCallback(w) \/ setWriteCallback(w)
        BY <3>6 DEF setReadCallback, setWriteCallback
      <3> QED BY <3>1, <3>2, <3>3, <3>4, <3>5, <3>6 DEF ServeStep
    <2> QED BY <2>1, <1>0
  <1>9. \A k \in Client : k # conn[c0].client => sock'[k] = sock[k]
    <2>0. sock \in [Client -> SockRec]
      BY DEF IInv, TypeOK, kernelTypeOK
    <2>1. \/ sock' = sock
          \/ \E r : sock' = [sock EXCEPT ![conn[c0].client] = r]
      <3>1. CASE echoRequest(w)
        BY <3>1 DEF echoRequest
      <3>2. CASE echoWrite(w)
        BY <3>2 DEF echoWrite
      <3>3. CASE ~echoRequest(w) /\ ~echoWrite(w)
        <4>1. sock' = sock
          BY <3>3, Zenon DEF ServeStep, ReadStage, WriteStage, CallbackReturns,
             CallbackCloses,
             setReadCallback, setWriteCallback, kernelVars
        <4> QED BY <4>1
      <3> QED BY <3>1, <3>2, <3>3
    <2> QED BY <2>0, <2>1
  <1> HIDE DEF c0
  <1> QED BY <1>0, <1>1, <1>2, <1>3, <1>4, <1>5, <1>6, <1>7, <1>8, <1>9 DEF c0

LEMMA AlternateKept ==
    IInv /\ CallbacksAlternate /\ [Next]_vars => CallbacksAlternate'
  <1> SUFFICES ASSUME IInv, CallbacksAlternate, [Next]_vars PROVE CallbacksAlternate'
    OBVIOUS
  <1>0. /\ conn \in [Conn -> ConnRec] /\ task \in [Thread -> TaskRec]
    BY DEF IInv, TypeOK, connTypeOK, workerTypeOK
  <1> DEFINE Fine(c) == /\ ~(conn'[c].readCb /\ conn'[c].writeCb)
                        /\ conn'[c].client = NoClient =>
                              ~conn'[c].readCb /\ ~conn'[c].writeCb
             Keeps(w) == LET c == task'[w].conn IN
                           /\ wpc'[w] = "inRead" => conn'[c].readCb
                           /\ wpc'[w] = "inWrite" => conn'[c].writeCb
                           /\ wpc'[w] \in {"setRead", "setWrite"} =>
                                 ~conn'[c].readCb /\ ~conn'[c].writeCb
  <1>1. (\A c \in Conn : Fine(c)) /\ (\A w \in Thread : Keeps(w)) => CallbacksAlternate'
    BY DEF CallbacksAlternate, NoCallback, InUse
  <1>2. \A c \in Conn : conn'[c] = conn[c] => Fine(c)
    BY DEF CallbacksAlternate, NoCallback, InUse
  <1>3. \A w \in Thread : /\ wpc'[w] = wpc[w] /\ task'[w] = task[w]
                          /\ conn'[task[w].conn].readCb = conn[task[w].conn].readCb
                          /\ conn'[task[w].conn].writeCb = conn[task[w].conn].writeCb
                          => Keeps(w)
    BY Zenon DEF CallbacksAlternate, NoCallback
  <1>4. CASE RestStep
    <2>1. ASSUME NEW c \in Conn
          PROVE  /\ Fine(c)
                 /\ Locked(c) => /\ conn'[c].readCb = conn[c].readCb
                                 /\ conn'[c].writeCb = conn[c].writeCb
      <3>0. conn[c] \in ConnRec
        BY <1>0
      <3>1. CASE conn'[c] = conn[c]
        BY <3>1, <1>2
      <3>2. CASE InUse(c) /\ conn'[c] = [conn[c] EXCEPT !.marked = TRUE]
        <4>1. /\ conn'[c].readCb = conn[c].readCb /\ conn'[c].writeCb = conn[c].writeCb
              /\ conn'[c].client = conn[c].client
          BY <3>0, <3>2 DEF ConnRec
        <4> QED BY <4>1, <3>2 DEF CallbacksAlternate, InUse
      <3>3. CASE ~Locked(c) /\ conn'[c] = FreeConn(conn[c].changeCount + 1)
        <4>1. conn'[c].readCb = FALSE /\ conn'[c].writeCb = FALSE
          BY <3>3 DEF FreeConn
        <4> QED BY <4>1, <3>3
      <3>4. CASE /\ ~Locked(c) /\ ~InUse(c) /\ (InUse(c))'
                 /\ conn'[c] = [conn[c] EXCEPT !.client = Accepted, !.readCb = TRUE]
        <4>1. conn'[c].writeCb = conn[c].writeCb /\ ~conn[c].writeCb
          BY <3>0, <3>4 DEF ConnRec, CallbacksAlternate, NoCallback
        <4> QED BY <4>1, <3>4 DEF InUse
      <3>5. CASE FlagEvent /\ c = ev.ptr /\ conn'[c] = Flagged(conn[c])
        <4>1. /\ conn'[c].readCb = conn[c].readCb /\ conn'[c].writeCb = conn[c].writeCb
              /\ conn'[c].client = conn[c].client
          BY <3>0, <3>5 DEF ConnRec, Flagged
        <4> QED BY <4>1 DEF CallbacksAlternate, InUse, NoCallback
      <3> QED BY <3>1, <3>2, <3>3, <3>4, <3>5, <1>4, ConnSteps DEF ConnStep
    <2>2. ASSUME NEW w \in Thread PROVE Keeps(w)
      <3>1. CASE wpc'[w] \notin {"inRead", "inWrite", "setRead", "setWrite"}
        BY <3>1
      <3>2. CASE wpc'[w] \in {"inRead", "inWrite", "setRead", "setWrite"}
        <4>1. wpc'[w] = wpc[w] /\ task'[w] = task[w]
          BY <1>4, <3>2, RestThreads
        <4>2. task[w].conn \in Conn /\ Locked(task[w].conn)
          BY <1>0, <3>2, <4>1 DEF TaskRec, Locked, Serving
        <4> QED BY <4>1, <4>2, <2>1, <1>3
      <3> QED BY <3>1, <3>2
    <2> HIDE DEF Fine, Keeps
    <2> QED BY <2>1, <2>2, <1>1
  <1>5. ASSUME NEW w \in Thread, ServeStep(w) PROVE CallbacksAlternate'
    <2> DEFINE c == task[w].conn
               r == conn[c]
               q == conn'[c]
    <2>1. /\ task' = task /\ c \in Conn /\ InUse(c) /\ r \in ConnRec
          /\ \A v \in Thread : v # w => wpc'[v] = wpc[v]
          /\ \A v \in Thread : v # w /\ task[v].conn = c => wpc[v] \notin Holding
          /\ \A d \in Conn : d # c => conn'[d] = conn[d]
      BY <1>5, ServeAlone
    <2>2. wpc \in [Thread -> Serving \cup {"idle", "lock", "stale", "gap", "both"}]
      BY DEF IInv, TypeOK, workerTypeOK
    <2>3. q.client = r.client /\ q.client # NoClient
      <3>1. Locked(c)
        <4>1. wpc[w] \in Serving
          BY <1>5, ServeAlone
        <4> QED BY <4>1 DEF Locked
      <3> QED BY <3>1, <2>1, LockedStays DEF InUse
    <2>4. \A v \in Thread : v # w => Keeps(v)
      <3> SUFFICES ASSUME NEW v \in Thread, v # w PROVE Keeps(v)
        OBVIOUS
      <3>1. CASE task[v].conn = c
        <4>1. wpc'[v] \notin Holding
          BY <3>1, <2>1
        <4>2. wpc'[v] \notin {"inRead", "inWrite", "setRead", "setWrite"}
          BY <4>1 DEF Holding, Serving
        <4> QED BY <4>2
      <3>2. CASE task[v].conn # c
        <4>1. conn'[task[v].conn] = conn[task[v].conn] /\ wpc'[v] = wpc[v] /\ task'[v] = task[v]
          BY <3>2, <2>1, <1>0 DEF TaskRec
        <4> QED BY <4>1, <1>3
      <3> QED BY <3>1, <3>2
    <2>5. \A d \in Conn : d # c => Fine(d)
      BY <2>1, <1>2
    <2>6. ASSUME ~(q.readCb /\ q.writeCb),
                 wpc'[w] = "inRead" => q.readCb,
                 wpc'[w] = "inWrite" => q.writeCb,
                 wpc'[w] \in {"setRead", "setWrite"} => ~q.readCb /\ ~q.writeCb
          PROVE  CallbacksAlternate'
      <3>1. Fine(c)
        BY <2>6, <2>3
      <3>2. Keeps(w)
        BY <2>1, <2>6
      <3> HIDE DEF Fine, Keeps
      <3> QED BY <3>1, <3>2, <2>4, <2>5, <1>1
    <2>7. /\ ~(r.readCb /\ r.writeCb)
          /\ wpc[w] = "inRead" => r.readCb
          /\ wpc[w] = "inWrite" => r.writeCb
          /\ wpc[w] \in {"setRead", "setWrite"} => ~r.readCb /\ ~r.writeCb
      BY <2>1 DEF CallbacksAlternate, NoCallback
    <2>8. CASE ReadStage(w) \/ WriteStage(w)
      <3>1. q = r
        BY <2>8 DEF ReadStage, WriteStage
      <3>2. \/ wpc'[w] = "inRead" /\ r.readCb
            \/ wpc'[w] = "inWrite" /\ r.writeCb
            \/ wpc'[w] \in {"writeStage", "gap"}
        BY <2>2, <2>8 DEF ReadStage, WriteStage, Goto
      <3> QED BY <3>1, <3>2, <2>6, <2>7
    <2>9. CASE CallbackReturns(w) \/ CallbackCloses(w)
      <3>1. wpc'[w] \in {"writeStage", "gap"}
        BY <2>2, <2>9 DEF CallbackReturns, CallbackCloses, Goto
      <3>2. (q.readCb => r.readCb) /\ (q.writeCb => r.writeCb)
        <4>1. CASE CallbackReturns(w)
          BY <4>1, <1>0, <2>1 DEF CallbackReturns, ConnRec
        <4>2. CASE CallbackCloses(w)
          BY <4>2, <1>0, <2>1 DEF CallbackCloses, ConnRec
        <4> QED BY <2>9, <4>1, <4>2
      <3> QED BY <3>1, <3>2, <2>6, <2>7
    <2>10. CASE echoRequest(w)
      <3>1. \/ wpc'[w] = "setWrite" /\ ~q.readCb /\ q.writeCb = r.writeCb
            \/ wpc'[w] = "returned" /\ q = r
        <4>1. \/ conn' = [conn EXCEPT ![c].readCb = FALSE] /\ Goto(w, "setWrite")
              \/ conn' = conn /\ Goto(w, "returned")
          BY <2>10, Zenon DEF echoRequest
        <4> QED BY <4>1, <2>2, <1>0, <2>1 DEF Goto, ConnRec
      <3>2. wpc[w] = "inRead"
        BY <2>10 DEF echoRequest
      <3> QED BY <3>1, <3>2, <2>6, <2>7
    <2>11. CASE echoWrite(w)
      <3>1. \/ wpc'[w] = "setRead" /\ ~q.writeCb /\ q.readCb = r.readCb
            \/ wpc'[w] = "returned" /\ q = r
        BY <2>2, <2>11, <1>0, <2>1 DEF echoWrite, Goto, ConnRec
      <3>2. wpc[w] = "inWrite"
        BY <2>11 DEF echoWrite
      <3> QED BY <3>1, <3>2, <2>6, <2>7
    <2>12. CASE setReadCallback(w)
      <3>1. wpc'[w] \in {"inRead", "returned"} /\ q.readCb /\ q.writeCb = r.writeCb
            /\ wpc[w] = "setRead"
        BY <2>2, <2>12, <1>0, <2>1 DEF setReadCallback, Goto, ConnRec
      <3> QED BY <3>1, <2>6, <2>7
    <2>13. CASE setWriteCallback(w)
      <3>1. wpc'[w] \in {"inWrite", "returned"} /\ q.writeCb /\ q.readCb = r.readCb
            /\ wpc[w] = "setWrite"
        BY <2>2, <2>13, <1>0, <2>1 DEF setWriteCallback, Goto, ConnRec
      <3> QED BY <3>1, <2>6, <2>7
    <2> QED BY <1>5, <2>8, <2>9, <2>10, <2>11, <2>12, <2>13 DEF ServeStep
  <1> QED BY <1>4, <1>5, ServeOrRest

-----------------------------------------------------------------------------
(* The batch of events.                                                    *)

LEMMA BatchKept == IInv /\ BatchInStep /\ [Next]_vars => BatchInStep'
  <1> SUFFICES ASSUME IInv, BatchInStep, [Next]_vars PROVE BatchInStep'
    OBVIOUS
  <1>1. CASE mpc' = mpc /\ batch' = batch
    BY <1>1 DEF BatchInStep, ev
  <1>2. CASE LockTop \/ Clock \/ LoopDone \/ LookAccepts \/ ShutdownLock \/ shutdown
    BY <1>2 DEF BatchInStep, ev, LockTop, Clock, LoopDone, LookAccepts, ShutdownLock,
       shutdown
  <1>3. CASE LookRemoves \/ LookDone
    BY <1>3 DEF BatchInStep, ev, LookRemoves, LookDone, LookEnds
  <1>4. CASE ListenerEvent
    BY <1>4 DEF BatchInStep, ev, ListenerEvent, EventDone
  <1>5. CASE EventsDone
    BY <1>5 DEF BatchInStep, ev, EventsDone
  <1>6. CASE EpollWait \/ LockEvents \/ ListenerDown \/ EventAccepts \/ EventOfRemoved
             \/ EventWithoutCallback \/ ConnectionEvent \/ FlagEvent \/ RunTask \/ Relock
             \/ EventEnds \/ AcceptAsserts \/ destroy
    <2>1. mpc' \in {"lockEvents", "event", "evLock", "evPost", "runTask", "relock",
                    "asserted", "poolWait", "removing", "destroyed"}
      BY <1>6 DEF EpollWait, LockEvents, ListenerDown, EventAccepts, EventOfRemoved,
         EventWithoutCallback, ConnectionEvent, FlagEvent, RunTask, Relock, EventEnds,
         AcceptAsserts, destroy, DestroyBegins, PoolDestroyed, DestroyRemoves, DestroyEnds,
         EventDone, masterVars
    <2> QED BY <2>1 DEF BatchInStep
  <1>7. CASE RemoveVeryOld \/ AcceptWaiting \/ ClientStep \/ UNCHANGED vars
    <2>1. mpc' = mpc /\ batch' = batch
      BY <1>7, Zenon DEF RemoveVeryOld, AcceptWaiting, ClientStep, Connect, Send, Drain,
         HangUp, vars, masterVars
    <2> QED BY <2>1, <1>1
  <1>8. ASSUME NEW w \in Thread, ThreadStep(w) PROVE BatchInStep'
    BY <1>1, <1>8, WorkersMove DEF WorkerMoves, masterVars
  <1> QED BY <1>2, <1>3, <1>4, <1>5, <1>6, <1>7, <1>8, StepsAre DEF OtherStep, MasterStep

-----------------------------------------------------------------------------
(* Edges, tasks and workers of a connection that goes on being used.       *)

\* Of a connection that stays, the socket is as it was or is ready again.
ReadyStays(k) ==
    /\ Has(ready, k) => Has(ready', k)
    /\ sock'[k] = sock[k] \/ Has(ready', k)

LEMMA ReadySteps ==
    ASSUME IInv, [Next]_vars, RestStep, ~EpollWait, NEW c \in Conn, InUse(c), (InUse(c))'
    PROVE  ReadyStays(conn[c].client)
  <1> DEFINE k == conn[c].client
  <1>0. /\ Data /\ waiting \in Seq(Listener) /\ used \in Seq(Conn) /\ conn \in [Conn -> ConnRec]
        /\ MasterInStep /\ ListsApart /\ ClientsApart
        /\ sock \in [Client -> SockRec] /\ ready \in Seq(Listener \cup Client) /\ Distinct(ready)
        /\ k \in Client
    BY IInvData DEF IInv, Data, connTypeOK, kernelTypeOK, ReadyAreServed, ConnRec, InUse
  <1>1. CASE sock' = sock /\ ready' = ready
    BY <1>1 DEF ReadyStays
  <1>2. ASSUME NEW d \in Conn, InUse(d), removeConnection(d) PROVE ReadyStays(k)
    <2> DEFINE j == conn[d].client
    <2>1. conn'[d].client = NoClient
      BY <1>0, <1>2 DEF removeConnection, FreeConn
    <2>2. d # c
      BY <2>1 DEF InUse
    <2>3. k # j
      BY <2>2, <1>0 DEF ListsApart
    <2>4. sock' = [sock EXCEPT ![j] = ClosedSock] /\ ready' = Without(ready, j)
      BY <1>2 DEF removeConnection
    <2> HIDE DEF j, k
    <2>5. \A y : Has(Without(ready, j), y) <=> Has(ready, y) /\ y # j
      BY <1>0, WithoutList
    <2> QED BY <2>3, <2>4, <2>5, <1>0 DEF ReadyStays
  <1>3. ASSUME NEW d \in Conn, InUse(d), checkTryRemoveConnection(d) PROVE ReadyStays(k)
    BY <1>1, <1>2, <1>3 DEF checkTryRemoveConnection, Removes, MarksForRemoval
  <1>4. ASSUME NEW x \in Listener \cup Client, ready' = With(ready, x), sock'[k] = sock[k] \/ x = k
        PROVE  ReadyStays(k)
    <2> DEFINE S == Listener \cup Client
    <2>1. x \in S /\ ready \in Seq(S)
      BY <1>0, <1>4
    <2> HIDE DEF S, k
    <2>2. \A y : Has(With(ready, x), y) <=> Has(ready, y) \/ y = x
      BY <2>1, WithList
    <2> QED BY <2>2, <1>4 DEF ReadyStays
  <1>5. ASSUME accept, waiting # <<>> PROVE ReadyStays(k)
    <2>1. CASE NothingToAccept
      BY <2>1, <1>1 DEF NothingToAccept
    <2>3. CASE addConnection
      <3>1. TakeFromBacklog /\ ready' = Append(ready, Accepted) /\ sock' = sock
        BY <2>3 DEF addConnection
      <3>2. Accepted \in Client
        BY <3>1, <1>0, <1>5, BacklogTaken
      <3> DEFINE S == Listener \cup Client
      <3>3. Accepted \in S /\ ready \in Seq(S)
        BY <3>2, <1>0
      <3> HIDE DEF S, k
      <3>4. \A y : Has(Append(ready, Accepted), y) <=> Has(ready, y) \/ y = Accepted
        BY <3>3, AppendList
      <3> QED BY <3>1, <3>4 DEF ReadyStays
    <2> QED BY <1>5, <2>1, <2>3 DEF accept
  <1>h. used # <<>> => Head(used) \in Conn /\ InUse(Head(used))
    BY <1>0, TailList DEF ListsApart
  <1>6. CASE LockTop \/ Clock \/ LoopDone \/ LookDone \/ LockEvents \/ ListenerDown
             \/ ListenerEvent \/ EventOfRemoved \/ ConnectionEvent \/ FlagEvent \/ RunTask
             \/ Relock \/ EventsDone \/ ShutdownLock \/ AcceptAsserts \/ PoolDestroyed
             \/ DestroyEnds \/ UNCHANGED vars
    <2>1. sock' = sock /\ ready' = ready
      BY <1>6, Zenon DEF AcceptAsserts, PoolDestroyed, DestroyEnds, LockTop, Clock,
         LoopDone, LookDone, LockEvents, ListenerDown,
         ListenerEvent, EventOfRemoved, ConnectionEvent, FlagEvent, RunTask, Relock,
         EventsDone, ShutdownLock, vars, kernelVars
    <2> QED BY <2>1, <1>1
  <1>7. CASE RemoveVeryOld
    <2>1. used # <<>>
      <3>1. veryOld > 0 /\ veryOld \in Nat /\ veryOld <= Len(used)
        BY <1>7, <1>0 DEF RemoveVeryOld, MasterInStep, IInv, TypeOK, masterTypeOK
      <3>2. used = <<>> => Len(used) = 0
        OBVIOUS
      <3> QED BY <3>1, <3>2
    <2>2. checkTryRemoveConnection(Head(used))
      BY <1>7 DEF RemoveVeryOld, checkTryRemoveConnection
    <2> QED BY <2>1, <2>2, <1>h, <1>3
  <1>8. CASE LookRemoves
    <2>1. used # <<>> /\ checkTryRemoveConnection(Head(used))
      BY <1>8 DEF LookRemoves, LookGoesOn, checkTryRemoveConnection
    <2> QED BY <2>1, <1>h, <1>3
  <1>9. CASE EventWithoutCallback
    BY <1>9, <1>3 DEF EventWithoutCallback
  <1>10. CASE EventEnds
    <2>1. ev.ptr \in Conn
      BY <1>10, <1>0 DEF EventEnds, MasterInStep
    <2>2. CASE InUse(ev.ptr) /\ "HUP" \in ev.mask
      BY <2>1, <2>2, <1>10, <1>3 DEF EventEnds
    <2>3. CASE ~(InUse(ev.ptr) /\ "HUP" \in ev.mask)
      BY <2>3, <1>10, <1>1 DEF EventEnds
    <2> QED BY <2>2, <2>3
  <1>11. CASE AcceptWaiting \/ LookAccepts \/ EventAccepts
    <2>1. accept /\ waiting # <<>>
      BY <1>11, <1>0 DEF AcceptWaiting, LookAccepts, EventAccepts, MasterInStep
    <2> QED BY <2>1, <1>5
  <1>12. CASE ListenersClose
    <2>1. CASE UNCHANGED <<backlog, ready, sock>>
      BY <2>1, <1>1
    <2>2. ASSUME /\ ready' = Filter(ready, Client)
                 /\ sock' = [j \in Client |-> IF InBacklog(j) THEN ClosedSock ELSE sock[j]]
          PROVE  ReadyStays(k)
      <3>1. ~InBacklog(k)
        BY <1>0 DEF ClientsApart, InBacklog
      <3>2. \A x : Has(ready', x) <=> Has(ready, x) /\ x \in Client
        BY <2>2, <1>0, FilterKeeps
      <3> HIDE DEF k
      <3>3. sock'[k] = sock[k]
        BY <2>2, <3>1, <1>0
      <3> QED BY <3>2, <3>3, <1>0 DEF ReadyStays
    <2> QED BY <1>12, <2>1, <2>2 DEF ListenersClose
  <1>13. CASE shutdown \/ DestroyBegins \/ DestroyRemoves
    BY <1>1, <1>2, <1>12, <1>13, <1>h DEF shutdown, DestroyBegins, DestroyRemoves
  <1>14. ASSUME NEW l \in Listener, Connect(l) PROVE ReadyStays(k)
    <2>1. ready' = With(ready, l) /\ sock' = [sock EXCEPT ![arrived + 1] = NewSock]
      BY <1>14 DEF Connect
    <2>2. k <= arrived /\ k \in Nat /\ arrived \in Nat
      <3>1. k <= arrived
        BY <1>0 DEF ClientsApart
      <3>2. arrived \in 0 .. NumClients
        BY DEF IInv, TypeOK, kernelTypeOK
      <3>3. arrived \in Nat
        BY <3>2, BoundsAssumption
      <3> QED BY <3>1, <3>3, <1>0, ClientIsSome
    <2>3. k # arrived + 1
      BY <2>2
    <2> HIDE DEF k
    <2>4. sock'[k] = sock[k]
      BY <2>1, <2>3, <1>0
    <2> QED BY <2>1, <2>4, <1>4
  <1>15. ASSUME NEW j \in Client, Send(j) \/ Drain(j) \/ HangUp(j) PROVE ReadyStays(k)
    <2>1. Raise(j) /\ \E r : sock' = [sock EXCEPT ![j] = r]
      <3>1. Raise(j)
        BY <1>15, Zenon DEF Send, Drain, HangUp
      <3>2. CASE Send(j)
        <4>1. sock' = [sock EXCEPT ![j] = [sock[j] EXCEPT !.sent = sock[j].sent + 1,
                                                         !.unread = sock[j].unread + 1]]
          BY <3>2, <1>0 DEF Send
        <4> QED BY <3>1, <4>1
      <3>3. CASE Drain(j) \/ HangUp(j)
        BY <3>1, <3>3 DEF Drain, HangUp
      <3> QED BY <1>15, <3>2, <3>3
    <2>2. CASE j = k
      <3>1. ready' = With(ready, j)
        BY <2>1, <2>2 DEF Raise
      <3> QED BY <3>1, <2>2, <1>4
    <2>3. CASE j # k
      <3>1. sock'[k] = sock[k]
        BY <2>1, <2>3, <1>0
      <3>2. CASE ready' = ready
        BY <3>1, <3>2 DEF ReadyStays
      <3>3. CASE ready' = With(ready, j)
        BY <3>1, <3>3, <1>4
      <3> QED BY <2>1, <3>2, <3>3 DEF Raise
    <2> QED BY <2>2, <2>3
  <1>16. ASSUME NEW w \in Thread, PoolStep(w) PROVE ReadyStays(k)
    <2>1. CASE FinishService(w) /\ MustRemove(w)
      <3>1. wpc[w] # "idle" /\ task[w].conn \in Conn
        BY <2>1 DEF FinishService, IInv, TypeOK, workerTypeOK, TaskRec
      <3>2. InUse(task[w].conn)
        BY <2>1, <3>1, <1>0 DEF MustRemove, IInv, TasksFresh, Fresh, ListsApart
      <3> QED BY <2>1, <3>1, <3>2, <1>2 DEF FinishService
    <2>2. CASE ~(FinishService(w) /\ MustRemove(w))
      <3>1. sock' = sock /\ ready' = ready
        BY <1>16, <2>2, Zenon DEF PoolStep, TakeTask, LockConn, TooLate, LockServer,
           FinishService, kernelVars
      <3> QED BY <3>1, <1>1
    <2> QED BY <2>1, <2>2
  <1> QED BY <1>6, <1>7, <1>8, <1>9, <1>10, <1>11, <1>12, <1>13, <1>14, <1>15, <1>16
          DEF RestStep, OtherStep, MasterStep, ClientStep, destroy

\* Where the first event of the batch has been handled already.
Past == {"runTask", "relock", "evPost"}

\* An edge stays pending until FlagEvent handles it, or epoll_wait() moves it.
LEMMA PendingStays ==
    ASSUME IInv, BatchInStep, [Next]_vars, RestStep, ~EpollWait,
           NEW c \in Conn, InUse(c), (InUse(c))', conn'[c].client = conn[c].client,
           ~conn'[c].marked, ~(FlagEvent /\ c = ev.ptr),
           NEW what \in {"IN", "OUT"}, EdgePending(c, what)
    PROVE  (EdgePending(c, what))'
  <1>0. batch \in Seq(EventRec) /\ MasterInStep /\ conn \in [Conn -> ConnRec]
    BY DEF IInv, TypeOK, masterTypeOK, connTypeOK
  <1>1. CASE Has(ready, conn[c].client)
    BY <1>1, ReadySteps DEF ReadyStays, EdgePending
  <1>2. ASSUME NEW i \in 1 .. Len(batch), batch[i].ptr = c, what \in batch[i].mask,
               i = 1 => mpc \notin Past
        PROVE  (EdgePending(c, what))'
    <2>1. ASSUME batch' = batch, mpc' \notin Past \/ mpc \in Past \/ i # 1
          PROVE  (EdgePending(c, what))'
      BY <1>2, <2>1 DEF EdgePending, Past
    <2>2. ASSUME batch' = Tail(batch), batch # <<>>, mpc' = "event", i # 1
          PROVE  (EdgePending(c, what))'
      <3>1. i - 1 \in 1 .. Len(batch') /\ batch'[i - 1] = batch[i]
        <4>1. /\ Len(Tail(batch)) = Len(batch) - 1 /\ Len(batch) \in Nat
              /\ \A j \in 1 .. Len(Tail(batch)) : Tail(batch)[j] = batch[j + 1]
          BY <1>0, <2>2
        <4>2. i - 1 \in 1 .. Len(batch) - 1 /\ (i - 1) + 1 = i
          BY <4>1, <2>2
        <4> QED BY <4>1, <4>2, <2>2
      <3>2. mpc' \notin Past
        BY <2>2 DEF Past
      <3> QED BY <3>1, <3>2, <1>2 DEF EdgePending, Past
    <2>3. i = 1 => ev.ptr = c /\ what \in ev.mask
      BY <1>0, <1>2 DEF ev
    <2>4. c \notin Listener /\ batch # <<>>
      <3>1. batch = <<>> => Len(batch) = 0
        OBVIOUS
      <3> QED BY <3>1, ListsAssumption
    <2>5. CASE LockTop \/ Clock \/ LoopDone \/ LookAccepts \/ LockEvents \/ ShutdownLock
               \/ shutdown \/ EventsDone \/ RunTask \/ Relock \/ AcceptAsserts \/ destroy
      <3>1. batch' = batch /\ (mpc' \notin Past \/ mpc \in Past)
        BY <2>5 DEF LockTop, Clock, LoopDone, LookAccepts, LockEvents, ShutdownLock,
           shutdown, EventsDone, RunTask, Relock, AcceptAsserts, destroy, DestroyBegins,
           PoolDestroyed, DestroyRemoves, DestroyEnds, masterVars, Past
      <3> QED BY <3>1, <2>1
    <2>6. CASE LookRemoves \/ LookDone
      <3>1. mpc = "look" /\ ((mpc' = "lookAccept" /\ batch' = batch) \/ LookEnds)
        BY <2>6 DEF LookRemoves, LookDone
      <3>2. CASE mpc' = "lookAccept" /\ batch' = batch
        BY <3>2, <2>1 DEF Past
      <3>3. CASE LookEnds
        <4>1. ev.ptr \in Listener
          BY <3>1, <2>4 DEF BatchInStep
        <4> QED BY <3>3, <4>1, <2>2, <2>3, <2>4 DEF LookEnds
      <3> QED BY <3>1, <3>2, <3>3
    <2>7. CASE ListenerDown \/ ListenerEvent \/ EventAccepts
      <3>1. ev.ptr \in Listener
        BY <2>7, <2>4 DEF ListenerDown, ListenerEvent, EventAccepts, BatchInStep
      <3>2. i # 1
        BY <3>1, <2>3, <2>4
      <3>3. batch' = batch \/ (batch' = Tail(batch) /\ mpc' = "event")
        BY <2>7 DEF ListenerDown, ListenerEvent, EventAccepts, EventDone
      <3> QED BY <3>2, <3>3, <2>1, <2>2, <2>4
    <2>8. CASE EventOfRemoved \/ EventWithoutCallback
      <3>1. ev.ptr # c
        <4>1. CASE EventOfRemoved
          BY <4>1 DEF EventOfRemoved
        <4>2. CASE EventWithoutCallback
          <5> SUFFICES ASSUME ev.ptr = c PROVE FALSE
            OBVIOUS
          <5>1. Removes(c) \/ MarksForRemoval(c)
            BY <4>2 DEF EventWithoutCallback, checkTryRemoveConnection
          <5>2. CASE Removes(c)
            BY <5>2, <1>0 DEF Removes, removeConnection, FreeConn, InUse
          <5>3. CASE MarksForRemoval(c)
            <6>1. conn'[c].marked = TRUE
              BY <5>3, <1>0 DEF MarksForRemoval, ConnRec
            <6> QED BY <6>1
          <5> QED BY <5>1, <5>2, <5>3
        <4> QED BY <2>8, <4>1, <4>2
      <3>2. EventDone
        BY <2>8, Zenon DEF EventOfRemoved, EventWithoutCallback
      <3> QED BY <3>1, <3>2, <2>2, <2>3, <2>4 DEF EventDone
    <2>9. CASE ConnectionEvent
      <3>1. batch' = batch /\ (mpc' = "evLock" \/ (mpc' = "evPost" /\ ev.mask \cap {"IN", "OUT"} = {}))
        BY <2>9 DEF ConnectionEvent
      <3>2. mpc' \notin Past \/ i # 1
        BY <3>1, <2>3 DEF Past
      <3> QED BY <3>1, <3>2, <2>1
    <2>10. CASE FlagEvent
      <3>1. batch' = batch /\ i # 1
        BY <2>10, <2>3 DEF FlagEvent
      <3> QED BY <3>1, <2>1
    <2>11. CASE EventEnds
      <3>1. mpc = "evPost" /\ EventDone
        BY <2>11 DEF EventEnds
      <3>2. i # 1
        BY <3>1, <1>2 DEF Past
      <3> QED BY <3>1, <3>2, <2>2, <2>4 DEF EventDone
    <2>13. CASE RemoveVeryOld \/ AcceptWaiting \/ ClientStep \/ UNCHANGED vars
      <3>1. mpc' = mpc /\ batch' = batch
        BY <2>13, Zenon DEF RemoveVeryOld, AcceptWaiting, ClientStep, Connect, Send, Drain,
           HangUp, vars, masterVars
      <3> QED BY <3>1, <2>1
    <2>14. ASSUME NEW w \in Thread, PoolStep(w) PROVE (EdgePending(c, what))'
      <3>1. ThreadStep(w)
        BY <2>14 DEF PoolStep, ThreadStep
      <3>2. mpc' = mpc /\ batch' = batch
        BY <3>1, WorkersMove DEF WorkerMoves, masterVars
      <3> QED BY <3>2, <2>1
    <2> QED BY <2>5, <2>6, <2>7, <2>8, <2>9, <2>10, <2>11, <2>13, <2>14
            DEF RestStep, OtherStep, MasterStep
  <1> QED BY <1>1, <1>2 DEF EdgePending, Past

\* epoll_wait() moves an edge to the batch or keeps it, as long as it is one.
LEMMA PendingPolled ==
    ASSUME IInv, BatchInStep, EpollWait, NEW c \in Conn, InUse(c),
           NEW what \in {"IN", "OUT"}, EdgePending(c, what),
           what = "IN" => Input(c), what = "OUT" => Room(c)
    PROVE  (EdgePending(c, what))'
  <1> DEFINE k   == conn[c].client
             now == Filter(ready, Reported)
             n   == IF Len(now) < MaxEvents THEN Len(now) ELSE MaxEvents
  <1>0. /\ ready \in Seq(Listener \cup Client) /\ Distinct(ready) /\ ListsApart
        /\ conn \in [Conn -> ConnRec] /\ k \in Client
    BY DEF IInv, TypeOK, kernelTypeOK, connTypeOK, ReadyAreServed, ConnRec, InUse
  <1>1. Has(ready, k)
    <2>1. batch = <<>>
      BY DEF EpollWait, BatchInStep
    <2>2. Len(batch) = 0 /\ 1 .. 0 = {}
      BY <2>1
    <2> QED BY <2>2 DEF EdgePending
  <1>2. k \notin Listener
    BY <1>0, ListsAssumption DEF Client
  <1>3. what \in Mask(k)
    <2>1. CASE what = "IN"
      BY <2>1, <1>2 DEF Mask, Input
    <2>2. CASE what = "OUT"
      BY <2>2, <1>2 DEF Mask, Room
    <2> QED BY <2>1, <2>2
  <1>4. k \in Reported
    BY <1>0, <1>3 DEF Reported
  <1>5. now \in Seq(Listener \cup Client) /\ Distinct(now) /\ Has(now, k)
    BY <1>0, <1>1, <1>4, FilterKeeps
  <1>6. /\ batch' = [j \in 1 .. n |-> Event(now[j])]
        /\ ready' = SubSeq(now, n + 1, Len(now))
        /\ mpc' = "lockEvents" /\ conn' = conn
    BY DEF EpollWait
  <1>7. ConnOf(k) = c
    <2>1. ConnOf(k) \in Conn /\ conn[ConnOf(k)].client = k
      BY DEF ConnOf
    <2> QED BY <2>1 DEF IInv, ListsApart
  <1>8. Event(k).ptr = c /\ Event(k).mask = Mask(k)
    BY <1>2, <1>7 DEF Event
  <1> HIDE DEF now, k
  <1>9. PICK j \in 1 .. Len(now) : now[j] = k
    BY <1>5 DEF Has
  <1>10. Len(now) \in Nat /\ n \in Nat /\ n <= Len(now)
    BY <1>5, EventsAssumption
  <1>11. CASE j <= n
    <2> HIDE DEF n
    <2>1. j \in 1 .. n
      BY <1>9, <1>10, <1>11
    <2>2. Len(batch') = n /\ batch'[j] = Event(k)
      <3>1. \A i \in 1 .. n : Event(now[i]) \in EventRec
        <4> TAKE i \in 1 .. n
        <4>1. Has(now, now[i])
          BY <1>5, <1>10 DEF Has
        <4>2. Has(ready, now[i])
          BY <4>1, <1>0, FilterKeeps DEF now
        <4> QED BY <4>2, EventTypes, IInvData
      <3> QED BY <3>1, <2>1, <1>6, <1>9, <1>10
    <2> QED BY <2>1, <2>2, <1>3, <1>6, <1>8 DEF EdgePending
  <1>12. CASE j > n
    <2> HIDE DEF n
    <2>1. n + 1 \in Nat /\ n + 1 >= 1 /\ j \in n + 1 .. Len(now)
      BY <1>9, <1>10, <1>12
    <2>2. Has(ready', k)
      BY <2>1, <1>5, <1>6, <1>9, RestList
    <2> QED BY <2>2, <1>6 DEF EdgePending, k
  <1> QED BY <1>9, <1>10, <1>11, <1>12

\* A task on its way stays on its way until a worker is at the connection.
LEMMA OnWayStays ==
    ASSUME IInv, [Next]_vars, RestStep, NEW c \in Conn,
           conn'[c].changeCount = conn[c].changeCount, OnItsWay(c)
    PROVE  (OnItsWay(c))' \/ (Served(c))'
  <1> DEFINE t == [conn |-> c, count |-> conn[c].changeCount]
  <1>0. /\ tasks \in Seq(TaskRec) /\ task \in [Thread -> TaskRec] /\ mtask \in TaskRec
        /\ wpc \in [Thread -> Serving \cup {"idle", "lock", "stale", "gap", "both"}]
        /\ t \in TaskRec
    BY DEF IInv, TypeOK, workerTypeOK, masterTypeOK, connTypeOK, ConnRec, TaskRec
  <1>1. /\ t.conn = c /\ t.count = conn[c].changeCount
        /\ t = [conn |-> c, count |-> conn'[c].changeCount]
    OBVIOUS
  <1>2. \/ mpc = "runTask" /\ mtask = t
        \/ Has(tasks, t)
        \/ \E w \in Thread : wpc[w] = "lock" /\ task[w] = t
    BY DEF OnItsWay
  <1>3. \/ mpc' = "runTask" /\ mtask' = t
        \/ Has(tasks', t)
        \/ \E w \in Thread : wpc'[w] = "lock" /\ task'[w] = t
        => (OnItsWay(c))'
    BY DEF OnItsWay
  <1> HIDE DEF t
  <1>4. CASE OtherStep
    <2>1. wpc' = wpc /\ task' = task /\ (tasks' = tasks \/ tasks' = Append(tasks, mtask))
      BY <1>4, OthersMove DEF OtherMoves, workerVars, RunTask
    <2>2. Has(tasks, t) => Has(tasks', t)
      <3>1. \A y : Has(Append(tasks, mtask), y) <=> Has(tasks, y) \/ y = mtask
        BY <1>0, AppendList
      <3>2. CASE tasks' = tasks
        BY <3>2
      <3>3. CASE tasks' = Append(tasks, mtask)
        BY <3>1, <3>3
      <3> QED BY <2>1, <3>2, <3>3
    <2>3. CASE mpc = "runTask" /\ mtask = t
      <3>1. RunTask \/ (mpc' = mpc /\ mtask' = mtask)
        <4>1. MasterStep \/ shutdown \/ destroy => RunTask
          BY <2>3 DEF MasterStep, LockTop, Clock, RemoveVeryOld, AcceptWaiting,
             LoopDone, LookRemoves, LookAccepts, LookDone, EpollWait, LockEvents, ListenerDown,
             ListenerEvent, EventAccepts, EventOfRemoved, EventWithoutCallback,
             ConnectionEvent, FlagEvent, Relock, EventEnds, EventsDone, ShutdownLock,
             shutdown, AcceptAsserts, destroy, DestroyBegins, PoolDestroyed, DestroyRemoves,
             DestroyEnds
        <4>2. ClientStep \/ UNCHANGED vars => mpc' = mpc /\ mtask' = mtask
          BY Zenon DEF ClientStep, Connect, Send, Drain, HangUp, vars, masterVars
        <4> QED BY <1>4, <4>1, <4>2 DEF OtherStep
      <3>2. CASE RunTask
        <4>1. tasks' = Append(tasks, t)
          BY <2>3, <3>2 DEF RunTask
        <4>2. Has(tasks', t)
          BY <4>1, <1>0, AppendList
        <4> QED BY <4>2, <1>3
      <3> QED BY <3>1, <3>2, <2>3, <1>3
    <2> QED BY <2>1, <2>2, <2>3, <1>2, <1>3
  <1>5. ASSUME NEW v \in Thread, PoolStep(v) PROVE (OnItsWay(c))' \/ (Served(c))'
    <2>1. mpc' = mpc /\ mtask' = mtask
      <3>1. ThreadStep(v)
        BY <1>5 DEF PoolStep, ThreadStep
      <3> QED BY <3>1, WorkersMove DEF WorkerMoves, masterVars
    <2>2. CASE TakeTask(v)
      <3>1. /\ wpc[v] = "idle" /\ tasks # <<>> /\ tasks' = Tail(tasks)
            /\ task' = [task EXCEPT ![v] = Head(tasks)] /\ wpc' = [wpc EXCEPT ![v] = "lock"]
        BY <2>2 DEF TakeTask, Goto
      <3>2. /\ wpc'[v] = "lock" /\ task'[v] = Head(tasks)
            /\ \A w \in Thread : w # v => wpc'[w] = wpc[w] /\ task'[w] = task[w]
        BY <3>1, <1>0
      <3>3. CASE Has(tasks, t)
        <4>1. Has(Tail(tasks), t) \/ t = Head(tasks)
          BY <3>1, <3>3, <1>0, TailList
        <4> QED BY <4>1, <3>1, <3>2, <1>3
      <3> QED BY <3>1, <3>2, <3>3, <2>1, <1>2, <1>3
    <2>3. CASE LockConn(v)
      <3>1. /\ wpc[v] = "lock" /\ tasks' = tasks /\ task' = task
            /\ \A w \in Thread : w # v => wpc'[w] = wpc[w]
            /\ task[v].count = conn[task[v].conn].changeCount => wpc'[v] = "readStage"
        BY <2>3, <1>0 DEF LockConn, Goto
      <3>2. CASE task[v] = t
        <4>1. wpc'[v] = "readStage" /\ task'[v].conn = c
          BY <3>1, <3>2, <1>1
        <4> QED BY <4>1 DEF Served, Serving
      <3>3. CASE task[v] # t
        BY <3>1, <3>3, <2>1, <1>2, <1>3
      <3> QED BY <3>2, <3>3
    <2>4. CASE TooLate(v) \/ LockServer(v) \/ FinishService(v)
      <3>1. wpc[v] # "lock" /\ tasks' = tasks
        BY <2>4 DEF TooLate, LockServer, FinishService
      <3>2. \A w \in Thread : w # v => wpc'[w] = wpc[w] /\ task'[w] = task[w]
        BY <2>4, <1>0 DEF TooLate, LockServer, FinishService, ThreadIdles, Goto
      <3> QED BY <3>1, <3>2, <2>1, <1>2, <1>3
    <2> QED BY <1>5, <2>2, <2>3, <2>4 DEF PoolStep
  <1> QED BY <1>4, <1>5 DEF RestStep

\* A worker stays at the connection.
LEMMA ServedStays ==
    ASSUME IInv, RestStep, NEW c \in Conn, Served(c)
    PROVE  (Served(c))'
  <1>0. /\ task \in [Thread -> TaskRec]
        /\ wpc \in [Thread -> Serving \cup {"idle", "lock", "stale", "gap", "both"}]
    BY DEF IInv, TypeOK, workerTypeOK
  <1>1. CASE OtherStep
    BY <1>1, OthersMove DEF OtherMoves, workerVars, Served
  <1>2. ASSUME NEW v \in Thread, PoolStep(v) PROVE (Served(c))'
    <2>1. wpc[v] \notin Serving
      BY <1>2 DEF PoolStep, TakeTask, LockConn, TooLate, LockServer, FinishService, Serving
    <2>2. \A w \in Thread : w # v => wpc'[w] = wpc[w] /\ task'[w] = task[w]
      BY <1>2, <1>0 DEF PoolStep, TakeTask, LockConn, TooLate, LockServer, FinishService,
         ThreadIdles, Goto
    <2> QED BY <2>1, <2>2 DEF Served
  <1> QED BY <1>1, <1>2 DEF RestStep

-----------------------------------------------------------------------------
(* No edge is lost by the other steps.                                     *)

\* A connection that is not touched, whose edges and tasks stay.
LEMMA Undisturbed ==
    ASSUME NEW c \in Conn, EdgesOf(c), conn'[c] = conn[c],
           (Input(c))' => \/ (EdgePending(c, "IN"))'
                          \/ Input(c) /\ (EdgePending(c, "IN") => (EdgePending(c, "IN"))'),
           (Room(c))' => \/ (EdgePending(c, "OUT"))'
                         \/ Room(c) /\ (EdgePending(c, "OUT") => (EdgePending(c, "OUT"))'),
           Served(c) => (Served(c))',
           OnItsWay(c) => (OnItsWay(c))' \/ (Served(c))',
           \A w \in Thread :
              task'[w].conn = c /\ wpc'[w] \in {"returned", "writeStage"}
                  => wpc'[w] = wpc[w] /\ task'[w] = task[w]
    PROVE  (EdgesOf(c))'
  <1>1. (Input(c))' => conn'[c].readReady \/ (EdgePending(c, "IN"))'
    BY DEF EdgesOf
  <1>2. (Room(c))' => conn'[c].writeReady \/ (EdgePending(c, "OUT"))'
    BY DEF EdgesOf
  <1>3. ~(Served(c))' =>
           /\ conn'[c].readCb /\ (Input(c))' => (OnItsWay(c))' \/ (EdgePending(c, "IN"))'
           /\ conn'[c].writeCb /\ (Room(c))' => (OnItsWay(c))' \/ (EdgePending(c, "OUT"))'
    BY DEF EdgesOf
  <1>4. ASSUME NEW w \in Thread, task'[w].conn = c
        PROVE  /\ wpc'[w] \in {"returned", "writeStage"} /\ conn'[c].readCb /\ (Input(c))'
                     => (EdgePending(c, "IN"))'
               /\ wpc'[w] = "returned" /\ conn'[c].writeCb /\ (Room(c))'
                     => (EdgePending(c, "OUT"))'
    BY <1>4 DEF EdgesOf
  <1> QED BY <1>1, <1>2, <1>3, <1>4 DEF EdgesOf

\* FlagEvent takes the edge out of the batch, and notes it and makes a task of it.
LEMMA FlagEdges ==
    ASSUME EInv, FlagEvent, NEW c \in Conn, c = ev.ptr, InUse(c), ~conn[c].marked
    PROVE  (EdgesOf(c))'
  <1> DEFINE t == [conn |-> c, count |-> conn[c].changeCount]
  <1>0. conn \in [Conn -> ConnRec] /\ batch \in Seq(EventRec) /\ conn[c] \in ConnRec
    BY DEF EInv, IInv, TypeOK, connTypeOK, masterTypeOK
  <1>1. EdgesOf(c)
    BY <1>0 DEF EInv, EdgesKept
  <1>2. /\ mpc = "evLock" /\ batch' = batch /\ ready' = ready /\ sock' = sock /\ tasks' = tasks
        /\ wpc' = wpc /\ task' = task /\ mpc' \in {"runTask", "evPost"}
        /\ CallIt(conn'[c]) => mpc' = "runTask" /\ mtask' = t
    BY DEF FlagEvent, kernelVars, workerVars
  <1>3. \A w \in Thread : task[w].conn = c => wpc[w] \notin Serving
    BY DEF FlagEvent, Locked
  <1>4. /\ conn'[c].client = conn[c].client /\ conn'[c].changeCount = conn[c].changeCount
        /\ conn'[c].readCb = conn[c].readCb /\ conn'[c].writeCb = conn[c].writeCb
        /\ conn'[c].readReady <=> conn[c].readReady \/ "IN" \in ev.mask
        /\ conn'[c].writeReady <=> conn[c].writeReady \/ "OUT" \in ev.mask
    <2>1. conn'[c] = Flagged(conn[c])
      BY <1>0 DEF FlagEvent
    <2> QED BY <2>1, <1>0 DEF Flagged, ConnRec
  <1>5. ((Input(c))' <=> Input(c)) /\ ((Room(c))' <=> Room(c))
    BY <1>2, <1>4 DEF Input, Room
  <1>6. ASSUME NEW what \in {"IN", "OUT"}, EdgePending(c, what)
        PROVE  (EdgePending(c, what))' \/ what \in ev.mask
    <2>1. CASE Has(ready, conn[c].client)
      BY <2>1, <1>2, <1>4 DEF EdgePending
    <2>2. ASSUME NEW i \in 1 .. Len(batch), batch[i].ptr = c, what \in batch[i].mask
          PROVE  (EdgePending(c, what))' \/ what \in ev.mask
      <3>1. CASE i = 1
        BY <2>2, <3>1, <1>0 DEF ev
      <3>2. CASE i # 1
        BY <2>2, <3>2, <1>2 DEF EdgePending
      <3> QED BY <3>1, <3>2
    <2> QED BY <1>6, <2>1, <2>2 DEF EdgePending
  <1>7. CallIt(conn'[c]) => (OnItsWay(c))'
    BY <1>2, <1>4 DEF OnItsWay
  <1>8. OnItsWay(c) => (OnItsWay(c))'
    <2>1. t = [conn |-> c, count |-> conn'[c].changeCount]
      BY <1>4
    <2> HIDE DEF t
    <2> QED BY <2>1, <1>2 DEF OnItsWay, t
  <1>9. ~(Served(c))' /\ ~Served(c)
    BY <1>2, <1>3 DEF Served
  <1>10. (Input(c))' => conn'[c].readReady \/ (EdgePending(c, "IN"))'
    BY <1>1, <1>4, <1>5, <1>6 DEF EdgesOf
  <1>11. (Room(c))' => conn'[c].writeReady \/ (EdgePending(c, "OUT"))'
    BY <1>1, <1>4, <1>5, <1>6 DEF EdgesOf
  <1>12. /\ conn'[c].readCb /\ (Input(c))' => (OnItsWay(c))' \/ (EdgePending(c, "IN"))'
         /\ conn'[c].writeCb /\ (Room(c))' => (OnItsWay(c))' \/ (EdgePending(c, "OUT"))'
    BY <1>7, <1>10, <1>11 DEF CallIt
  <1>13. \A w \in Thread : task'[w].conn = c => wpc'[w] \notin {"returned", "writeStage"}
    BY <1>2, <1>3 DEF Serving
  <1> QED BY <1>10, <1>11, <1>12, <1>13 DEF EdgesOf

LEMMA RestEdges ==
    ASSUME EInv, [Next]_vars, RestStep, NEW c \in Conn, (InUse(c))', ~conn'[c].marked
    PROVE  (EdgesOf(c))'
  <1>0. IInv /\ BatchInStep /\ conn \in [Conn -> ConnRec] /\ conn[c] \in ConnRec
    BY DEF EInv, IInv, TypeOK, connTypeOK
  <1>1. ASSUME conn'[c] = conn[c], ~(FlagEvent /\ c = ev.ptr) PROVE (EdgesOf(c))'
    <2>1. InUse(c) /\ ~conn[c].marked /\ conn'[c].client = conn[c].client
          /\ conn'[c].changeCount = conn[c].changeCount
      BY <1>1 DEF InUse
    <2>2. EdgesOf(c)
      BY <2>1 DEF EInv, EdgesKept
    <2>3. Served(c) => (Served(c))'
      BY <1>0, ServedStays
    <2>4. OnItsWay(c) => (OnItsWay(c))' \/ (Served(c))'
      BY <1>0, <2>1, OnWayStays
    <2>5. \A w \in Thread :
             task'[w].conn = c /\ wpc'[w] \in {"returned", "writeStage"}
                 => wpc'[w] = wpc[w] /\ task'[w] = task[w]
      BY <1>0, RestThreads
    <2>6. CASE EpollWait
      <3>1. ((Input(c))' <=> Input(c)) /\ ((Room(c))' <=> Room(c))
        BY <2>1, <2>6 DEF EpollWait, Input, Room
      <3>2. Input(c) => (EdgePending(c, "IN") => (EdgePending(c, "IN"))')
        BY <1>0, <2>1, <2>6, PendingPolled
      <3>3. Room(c) => (EdgePending(c, "OUT") => (EdgePending(c, "OUT"))')
        BY <1>0, <2>1, <2>6, PendingPolled
      <3> QED BY <3>1, <3>2, <3>3, <2>2, <2>3, <2>4, <2>5, <1>1, Undisturbed
    <2>7. CASE ~EpollWait
      <3>1. ReadyStays(conn[c].client)
        BY <1>0, <2>1, <2>7, ReadySteps
      <3>2. /\ EdgePending(c, "IN") => (EdgePending(c, "IN"))'
            /\ EdgePending(c, "OUT") => (EdgePending(c, "OUT"))'
        BY <1>0, <1>1, <2>1, <2>7, PendingStays
      <3>3. CASE Has(ready', conn[c].client)
        <4>1. (EdgePending(c, "IN"))' /\ (EdgePending(c, "OUT"))'
          BY <3>3, <2>1 DEF EdgePending
        <4> QED BY <4>1, <2>2, <2>3, <2>4, <2>5, <1>1, Undisturbed
      <3>4. CASE sock'[conn[c].client] = sock[conn[c].client]
        <4>1. ((Input(c))' <=> Input(c)) /\ ((Room(c))' <=> Room(c))
          BY <2>1, <3>4 DEF Input, Room
        <4> QED BY <4>1, <3>2, <2>2, <2>3, <2>4, <2>5, <1>1, Undisturbed
      <3> QED BY <3>1, <3>3, <3>4 DEF ReadyStays
    <2> QED BY <2>6, <2>7
  <1>2. CASE conn'[c] = [conn[c] EXCEPT !.marked = TRUE]
    <2>1. conn'[c].marked = TRUE
      BY <1>0, <1>2 DEF ConnRec
    <2> QED BY <2>1
  <1>3. CASE conn'[c] = FreeConn(conn[c].changeCount + 1)
    BY <1>3 DEF FreeConn, InUse
  <1>4. CASE Has(ready', conn'[c].client)
    <2>1. (EdgePending(c, "IN"))' /\ (EdgePending(c, "OUT"))'
      BY <1>4 DEF EdgePending
    <2> QED BY <2>1 DEF EdgesOf
  <1>5. CASE FlagEvent /\ c = ev.ptr
    <2>1. conn'[c] = Flagged(conn[c])
      BY <1>0, <1>5 DEF FlagEvent
    <2>2. conn'[c].client = conn[c].client /\ conn'[c].marked = conn[c].marked
      BY <2>1, <1>0 DEF Flagged, ConnRec
    <2> QED BY <2>2, <1>5, FlagEdges DEF InUse
  <1> QED BY <1>0, <1>1, <1>2, <1>3, <1>4, <1>5, ConnSteps DEF ConnStep

-----------------------------------------------------------------------------
(* Nor by a worker that serves.                                            *)

\* Other connections do not notice.
LEMMA ServeElsewhere ==
    ASSUME EInv, NEW w \in Thread, ServeStep(w), NEW c \in Conn, c # task[w].conn,
           InUse(c), ~conn[c].marked
    PROVE  (EdgesOf(c))'
  <1> DEFINE k == conn[c].client
  <1>0. IInv /\ ListsApart /\ conn \in [Conn -> ConnRec] /\ k \in Client /\ EdgesOf(c)
    BY DEF EInv, IInv, TypeOK, connTypeOK, ConnRec, InUse, EdgesKept
  <1>1. /\ task' = task /\ wpc[w] \in Serving /\ UNCHANGED <<masterVars, tasks, ready>>
        /\ task[w].conn \in Conn /\ InUse(task[w].conn)
        /\ \A v \in Thread : v # w => wpc'[v] = wpc[v]
        /\ conn'[c] = conn[c]
        /\ k # conn[task[w].conn].client => sock'[k] = sock[k]
    BY <1>0, ServeAlone
  <1>2. sock'[k] = sock[k]
    BY <1>0, <1>1 DEF ListsApart
  <1>3. ((Input(c))' <=> Input(c)) /\ ((Room(c))' <=> Room(c))
    BY <1>1, <1>2 DEF Input, Room
  <1>4. /\ (EdgePending(c, "IN"))' <=> EdgePending(c, "IN")
        /\ (EdgePending(c, "OUT"))' <=> EdgePending(c, "OUT")
    BY <1>1 DEF EdgePending, masterVars
  <1>5. Served(c) => (Served(c))'
    BY <1>1 DEF Served
  <1>6. OnItsWay(c) => (OnItsWay(c))'
    <2> DEFINE t == [conn |-> c, count |-> conn[c].changeCount]
    <2>1. t = [conn |-> c, count |-> conn'[c].changeCount] /\ t.conn = c
      BY <1>1
    <2>2. mpc' = mpc /\ mtask' = mtask /\ tasks' = tasks
      BY <1>1 DEF masterVars
    <2>3. \A v \in Thread : wpc[v] = "lock" => v # w /\ wpc'[v] = "lock" /\ task'[v] = task[v]
      BY <1>1 DEF Serving
    <2> SUFFICES ASSUME OnItsWay(c) PROVE (OnItsWay(c))'
      OBVIOUS
    <2>4. \/ mpc = "runTask" /\ mtask = t
          \/ Has(tasks, t)
          \/ \E v \in Thread : wpc[v] = "lock" /\ task[v] = t
      BY DEF OnItsWay
    <2>5. \/ mpc' = "runTask" /\ mtask' = t
          \/ Has(tasks', t)
          \/ \E v \in Thread : wpc'[v] = "lock" /\ task'[v] = t
          => (OnItsWay(c))'
      BY <2>1 DEF OnItsWay
    <2> HIDE DEF t
    <2> QED BY <2>2, <2>3, <2>4, <2>5
  <1>7. \A v \in Thread :
           task'[v].conn = c /\ wpc'[v] \in {"returned", "writeStage"}
               => wpc'[v] = wpc[v] /\ task'[v] = task[v]
    BY <1>1
  <1> QED BY <1>0, <1>1, <1>3, <1>4, <1>5, <1>6, <1>7, Undisturbed

\* What a serving worker has to keep, at p and with the record r of its connection,
\* where there is input or room; in and out say that an edge is pending.
Keeps(p, r, input, room, in, out) ==
    /\ input => r.readReady \/ in
    /\ room => r.writeReady \/ out
    /\ p \in {"returned", "writeStage", "gap"} /\ r.readCb /\ input => in
    /\ p \in {"returned", "gap"} /\ r.writeCb /\ room => out

\* At its own connection: what the steps of the worker keep.
LEMMA ServeHere ==
    ASSUME EInv, NEW w \in Thread, ServeStep(w), NEW c \in Conn, c = task[w].conn,
           NEW in \in BOOLEAN, NEW out \in BOOLEAN,
           Keeps(wpc[w], conn[c], Input(c), Room(c), in, out)
    PROVE  /\ Keeps(wpc'[w], conn'[c], (Input(c))', (Room(c))', in, out)
           /\ conn'[c].client = conn[c].client
  <1> DEFINE r == conn[c]
             k == conn[c].client
  <1>0. /\ IInv /\ CallbacksAlternate /\ conn \in [Conn -> ConnRec] /\ r \in ConnRec
        /\ sock \in [Client -> SockRec] /\ k \in Client
        /\ wpc \in [Thread -> Serving \cup {"idle", "lock", "stale", "gap", "both"}]
    BY ServeAlone DEF EInv, IInv, TypeOK, connTypeOK, kernelTypeOK, workerTypeOK
  <1>1. /\ ~(r.readCb /\ r.writeCb)
        /\ wpc[w] = "inRead" => r.readCb
        /\ wpc[w] = "inWrite" => r.writeCb
        /\ wpc[w] \in {"setRead", "setWrite"} => ~r.readCb /\ ~r.writeCb
    BY <1>0 DEF CallbacksAlternate, NoCallback
  <1>2. ASSUME conn' = conn, sock' = sock
        PROVE  conn'[c] = r /\ ((Input(c))' <=> Input(c)) /\ ((Room(c))' <=> Room(c))
    BY <1>2 DEF Input, Room
  <1>3. ASSUME conn'[c].client = k, sock' = sock
        PROVE  ((Input(c))' <=> Input(c)) /\ ((Room(c))' <=> Room(c))
    BY <1>3 DEF Input, Room
  <1>4. CASE ReadStage(w)
    <2>1. /\ conn' = conn /\ sock' = sock
          /\ wpc'[w] = IF r.readReady /\ r.readCb THEN "inRead" ELSE "writeStage"
      BY <1>0, <1>4 DEF ReadStage, Goto, kernelVars
    <2> QED BY <2>1, <1>2 DEF Keeps
  <1>5. CASE WriteStage(w)
    <2>1. /\ conn' = conn /\ sock' = sock /\ wpc[w] = "writeStage"
          /\ wpc'[w] = IF r.writeReady /\ r.writeCb THEN "inWrite" ELSE "gap"
      BY <1>0, <1>5 DEF WriteStage, Goto, kernelVars
    <2> QED BY <2>1, <1>2 DEF Keeps
  <1>6. CASE CallbackReturns(w) /\ caller[w] = "read"
    <2>1. /\ conn' = [conn EXCEPT ![c].readReady = r.readReady /\ ~r.readCb]
          /\ sock' = sock /\ wpc[w] = "returned" /\ wpc'[w] = "writeStage"
      BY <1>0, <1>6 DEF CallbackReturns, Goto, kernelVars
    <2>2. /\ conn'[c].client = k
          /\ conn'[c].readReady <=> r.readReady /\ ~r.readCb
          /\ conn'[c].writeReady <=> r.writeReady
          /\ (conn'[c].readCb <=> r.readCb) /\ (conn'[c].writeCb <=> r.writeCb)
      BY <2>1, <1>0 DEF ConnRec
    <2> QED BY <2>1, <2>2, <1>3 DEF Keeps
  <1>7. CASE CallbackReturns(w) /\ caller[w] # "read"
    <2>1. /\ conn' = [conn EXCEPT ![c].writeReady = r.writeReady /\ ~r.writeCb]
          /\ sock' = sock /\ wpc[w] = "returned" /\ wpc'[w] = "gap"
      BY <1>0, <1>7 DEF CallbackReturns, Goto, kernelVars
    <2>2. /\ conn'[c].client = k
          /\ conn'[c].writeReady <=> r.writeReady /\ ~r.writeCb
          /\ conn'[c].readReady <=> r.readReady
          /\ (conn'[c].readCb <=> r.readCb) /\ (conn'[c].writeCb <=> r.writeCb)
      BY <2>1, <1>0 DEF ConnRec
    <2> QED BY <2>1, <2>2, <1>3 DEF Keeps
  <1>8. CASE CallbackCloses(w)
    <2>1. /\ conn' = [conn EXCEPT ![c].readCb = FALSE, ![c].writeCb = FALSE] /\ sock' = sock
      BY <1>8 DEF CallbackCloses, kernelVars
    <2>2. /\ conn'[c].client = k /\ ~conn'[c].readCb /\ ~conn'[c].writeCb
          /\ conn'[c].writeReady = r.writeReady /\ conn'[c].readReady = r.readReady
      BY <2>1, <1>0 DEF ConnRec
    <2> QED BY <2>1, <2>2, <1>3 DEF Keeps
  <1>9. CASE echoRequest(w)
    <2>1. CASE /\ sock[k].unread > 0 /\ sock' = [sock EXCEPT ![k].unread = @ - 1]
               /\ conn' = [conn EXCEPT ![c].readCb = FALSE] /\ Goto(w, "setWrite")
      <3>1. /\ conn'[c].client = k /\ ~conn'[c].readCb /\ conn'[c].writeCb = r.writeCb
            /\ conn'[c].writeReady = r.writeReady /\ conn'[c].readReady = r.readReady
        BY <2>1, <1>0 DEF ConnRec
      <3>2. Input(c) /\ sock'[k].writable = sock[k].writable
        <4>1. Input(c)
          BY <2>1 DEF Input
        <4>2. sock[k] \in SockRec /\ sock'[k] = [sock[k] EXCEPT !.unread = @ - 1]
          BY <2>1, <1>0
        <4> QED BY <4>1, <4>2 DEF SockRec
      <3>3. (Room(c))' <=> Room(c)
        BY <3>1, <3>2 DEF Room
      <3>4. wpc'[w] = "setWrite"
        BY <2>1, <1>0 DEF Goto
      <3> QED BY <3>1, <3>2, <3>3, <3>4 DEF Keeps
    <2>2. CASE sock[k].unread = 0 /\ Goto(w, "returned") /\ UNCHANGED <<sock, conn>>
      <3>1. ~Input(c) /\ wpc'[w] = "returned" /\ conn' = conn /\ sock' = sock
        BY <2>2, <1>0 DEF Input, Goto
      <3>2. ~r.writeCb
        BY <1>1, <1>9 DEF echoRequest
      <3> QED BY <3>1, <3>2, <1>2 DEF Keeps
    <2> QED BY <2>1, <2>2, <1>9 DEF echoRequest
  <1>10. CASE echoWrite(w)
    <2>1. CASE conn' = [conn EXCEPT ![c].writeCb = FALSE] /\ Goto(w, "setRead") /\ sock' = sock
      <3>1. /\ conn'[c].client = k /\ ~conn'[c].writeCb /\ conn'[c].readCb = r.readCb
            /\ conn'[c].writeReady = r.writeReady /\ conn'[c].readReady = r.readReady
        BY <2>1, <1>0 DEF ConnRec
      <3>2. wpc'[w] = "setRead"
        BY <2>1, <1>0 DEF Goto
      <3> QED BY <3>1, <3>2, <2>1, <1>3 DEF Keeps
    <2>2. CASE /\ sock' = [sock EXCEPT ![k].writable = FALSE] /\ Goto(w, "returned")
               /\ conn' = conn
      <3>1. ~sock'[k].writable /\ sock'[k].unread = sock[k].unread
        BY <2>2, <1>0 DEF SockRec
      <3>2. ~(Room(c))' /\ ((Input(c))' <=> Input(c)) /\ conn'[c] = r
        BY <3>1, <2>2 DEF Input, Room
      <3>3. ~r.readCb
        BY <1>1, <1>10 DEF echoWrite
      <3> QED BY <3>2, <3>3 DEF Keeps
    <2> QED BY <2>1, <2>2, <1>10 DEF echoWrite
  <1>11. CASE setReadCallback(w)
    <2>1. /\ conn' = [conn EXCEPT ![c].readCb = TRUE] /\ sock' = sock /\ ~r.writeCb
          /\ wpc'[w] = IF r.readReady THEN "inRead" ELSE "returned"
      BY <1>0, <1>1, <1>11 DEF setReadCallback, Goto, kernelVars
    <2>2. /\ conn'[c].client = k /\ ~conn'[c].writeCb
          /\ conn'[c].writeReady = r.writeReady /\ conn'[c].readReady = r.readReady
      BY <2>1, <1>0 DEF ConnRec
    <2> QED BY <2>1, <2>2, <1>3 DEF Keeps
  <1>12. CASE setWriteCallback(w)
    <2>1. /\ conn' = [conn EXCEPT ![c].writeCb = TRUE] /\ sock' = sock /\ ~r.readCb
          /\ wpc'[w] = IF r.writeReady THEN "inWrite" ELSE "returned"
      BY <1>0, <1>1, <1>12 DEF setWriteCallback, Goto, kernelVars
    <2>2. /\ conn'[c].client = k /\ ~conn'[c].readCb
          /\ conn'[c].writeReady = r.writeReady /\ conn'[c].readReady = r.readReady
      BY <2>1, <1>0 DEF ConnRec
    <2> QED BY <2>1, <2>2, <1>3 DEF Keeps
  <1> QED BY <1>4, <1>5, <1>6, <1>7, <1>8, <1>9, <1>10, <1>11, <1>12 DEF ServeStep

LEMMA ServeEdges ==
    ASSUME EInv, NEW w \in Thread, ServeStep(w), NEW c \in Conn, c = task[w].conn,
           ~conn[c].marked
    PROVE  (EdgesOf(c))'
  <1> DEFINE in  == EdgePending(c, "IN")
             out == EdgePending(c, "OUT")
  <1>1. /\ IInv /\ InUse(c) /\ task' = task /\ wpc[w] \in Serving
        /\ UNCHANGED <<masterVars, tasks, ready>>
        /\ wpc'[w] \in Serving \cup {"gap"}
        /\ \A v \in Thread : v # w => wpc'[v] = wpc[v]
        /\ \A v \in Thread : v # w /\ task[v].conn = c => wpc[v] \notin Holding
    BY ServeAlone DEF EInv
  <1>2. EdgesOf(c)
    BY <1>1 DEF EInv, EdgesKept
  <1>3. Keeps(wpc[w], conn[c], Input(c), Room(c), in, out)
    <2>1. wpc[w] # "gap"
      BY <1>1 DEF Serving
    <2> QED BY <2>1, <1>2 DEF EdgesOf, Keeps
  <1>4. in \in BOOLEAN /\ out \in BOOLEAN
    BY DEF EdgePending
  <1>5. /\ Keeps(wpc'[w], conn'[c], (Input(c))', (Room(c))', in, out)
        /\ conn'[c].client = conn[c].client
    <2> HIDE DEF in, out
    <2> QED BY <1>3, <1>4, ServeHere
  <1>6. ((EdgePending(c, "IN"))' <=> in) /\ ((EdgePending(c, "OUT"))' <=> out)
    BY <1>1, <1>5 DEF EdgePending, masterVars
  <1>7. (Served(c))' \/ wpc'[w] = "gap"
    BY <1>1 DEF Served
  <1>8. \A v \in Thread : v # w /\ task'[v].conn = c => wpc'[v] \notin {"returned", "writeStage"}
    BY <1>1 DEF Holding, Serving
  <1> HIDE DEF in, out
  <1>9. ((Input(c))' => conn'[c].readReady \/ in) /\ ((Room(c))' => conn'[c].writeReady \/ out)
    BY <1>5 DEF Keeps
  <1>10. ~(Served(c))' => /\ conn'[c].readCb /\ (Input(c))' => in
                          /\ conn'[c].writeCb /\ (Room(c))' => out
    BY <1>5, <1>7 DEF Keeps
  <1>11. ASSUME NEW v \in Thread, task'[v].conn = c
         PROVE  /\ wpc'[v] \in {"returned", "writeStage"} /\ conn'[c].readCb /\ (Input(c))'
                      => in
                /\ wpc'[v] = "returned" /\ conn'[c].writeCb /\ (Room(c))' => out
    BY <1>5, <1>8, <1>11 DEF Keeps
  <1> QED BY <1>6, <1>9, <1>10, <1>11 DEF EdgesOf

LEMMA EdgesStay == EInv /\ [Next]_vars => EdgesKept'
  <1> SUFFICES ASSUME EInv, [Next]_vars, NEW c \in Conn, (InUse(c))', ~conn'[c].marked
               PROVE  (EdgesOf(c))'
    BY DEF EdgesKept
  <1>1. CASE RestStep
    BY <1>1, RestEdges
  <1>2. ASSUME NEW w \in Thread, ServeStep(w) PROVE (EdgesOf(c))'
    <2>1. IInv /\ conn \in [Conn -> ConnRec] /\ conn[c] \in ConnRec
      BY DEF EInv, IInv, TypeOK, connTypeOK
    <2>2. conn'[c].client = conn[c].client /\ conn'[c].marked = conn[c].marked
      <3>1. CASE c # task[w].conn
        BY <3>1, <2>1, <1>2, ServeAlone
      <3>2. CASE c = task[w].conn
        <4>1. \/ conn' = conn
              \/ \E x : \/ conn' = [conn EXCEPT ![c].readReady = x]
                        \/ conn' = [conn EXCEPT ![c].writeReady = x]
                        \/ conn' = [conn EXCEPT ![c].readCb = x]
                        \/ conn' = [conn EXCEPT ![c].writeCb = x]
                        \/ conn' = [conn EXCEPT ![c].readCb = x, ![c].writeCb = x]
          BY <3>2, <1>2, Zenon DEF ServeStep, ReadStage, WriteStage, CallbackReturns,
             CallbackCloses, echoRequest, echoWrite, setReadCallback, setWriteCallback
        <4> QED BY <4>1, <2>1 DEF ConnRec
      <3> QED BY <3>1, <3>2
    <2>3. InUse(c) /\ ~conn[c].marked
      BY <2>2 DEF InUse
    <2> QED BY <2>3, <1>2, ServeElsewhere, ServeEdges
  <1> QED BY <1>1, <1>2, ServeOrRest

LEMMA InitEdges == Init => EInv
  <1> SUFFICES ASSUME Init PROVE EInv
    OBVIOUS
  <1>1. \A c \in Conn : ~InUse(c) /\ ~conn[c].readCb /\ ~conn[c].writeCb
    BY DEF Init, FreeConn, InUse
  <1>2. CallbacksAlternate
    BY <1>1 DEF CallbacksAlternate, NoCallback, Init
  <1>3. BatchInStep
    BY DEF BatchInStep, Init
  <1>4. EdgesKept
    BY <1>1 DEF EdgesKept
  <1> QED BY <1>2, <1>3, <1>4, InitIInv DEF EInv

\* The inductive invariant of the edges: what there is to read or to write at a
\* connection in use is flagged or pending, and someone is at it or will be.
THEOREM EdgeInvariance == Spec => []EInv
  <1>1. EInv /\ [Next]_vars => EInv'
    BY NextIInv, AlternateKept, BatchKept, EdgesStay DEF EInv
  <1> QED BY <1>1, InitEdges, PTL DEF Spec

\* epoll reports an edge once, and the server never forgets one: when nobody
\* holds the mutex of a connection that is not about to be removed, and there is
\* input for its read callback or room for its write callback, a task for it is on
\* its way (doEvent()), or the edge is still in the kernel or in s->event[].
THEOREM NoEdgeIsLost == Spec => []NoEdgeLost
  <1>1. EInv => NoEdgeLost
    <2> SUFFICES ASSUME EInv, NEW c \in Conn, InUse(c), ~Locked(c), ~conn[c].marked
                 PROVE  /\ conn[c].readCb /\ sock[conn[c].client].unread > 0
                              => OnItsWay(c) \/ EdgePending(c, "IN")
                        /\ conn[c].writeCb /\ sock[conn[c].client].writable
                              => OnItsWay(c) \/ EdgePending(c, "OUT")
      BY DEF NoEdgeLost
    <2>1. EdgesOf(c)
      BY DEF EInv, EdgesKept
    <2>2. ~Served(c)
      BY DEF Served, Locked
    <2> QED BY <2>1, <2>2 DEF EdgesOf, Input, Room
  <1> QED BY <1>1, EdgeInvariance, PTL
=============================================================================
