------------------------------- MODULE Server -------------------------------
(***************************************************************************)
(* The epoll server of potato_old/server.c, built with the thread pool     *)
(* (PO_SERVER_THREADPOOL), serving potato_old/serverEchoRequest.c.         *)
(*                                                                         *)
(* The master thread runs poServer_doNextEvents(): it closes old           *)
(* connections, accepts waiting clients, calls epoll_wait() and turns      *)
(* events into tasks of the thread pool.  A task is a call of              *)
(* ServiceConnection(), which runs the connection's callbacks in a worker  *)
(* thread.                                                                 *)
(*                                                                         *)
(* There are two kinds of mutex.  s->mutex protects the lists, and a       *)
(* connection is given to a new client only by the master.  conn->mutex    *)
(* is held while the callbacks of the connection run.  Who holds a mutex   *)
(* follows from where the threads are, so the mutexes are no variables:    *)
(* see ServerLocked and Locked.  An action is what a thread does from one  *)
(* lock, unlock or unlocked access of shared state to the next one.        *)
(*                                                                         *)
(* The kernel is modelled by what the server sees of it: the backlog of    *)
(* each listening socket, the list of descriptors that epoll_wait() will   *)
(* report (edge triggered), and for each client's socket what there is to  *)
(* read, whether there is room to write, and whether the peer hung up.     *)
(*                                                                         *)
(* The thread pool is modelled by what it promises (module TaskExecutor):  *)
(* tasks start in the order in which they were submitted, each once, and   *)
(* poThreadPool_runTask() blocks while threads and queue are full.         *)
(*                                                                         *)
(* A failed ASSERT() does not return: it exits or sleeps for ever.  What   *)
(* the code does after one is never reached, and the master is then        *)
(* "asserted".                                                             *)
(*                                                                         *)
(* A definition Name_Fault stands before Name and is Name with a fault     *)
(* seeded; the mutants of PROJECT.json use it to show that a property      *)
(* would notice.                                                           *)
(***************************************************************************)
EXTENDS Integers, Sequences, FiniteSets, SequencesExt

CONSTANTS
    Listener,       \* s->listener[], each listening when the loop starts
    Conn,           \* s->conn[], PO_SERVER_MAX_CONNECTIONS of them
    Thread,         \* PO_THREADPOOL_MAX_NUM_THREADS worker threads
    QueueLength,    \* PO_THREADPOOL_QUEUE_LENGTH
    MaxEvents,      \* PO_SERVER_MAX_EPOLL_EVENTS
    WaitTimeout,    \* PO_SERVER_CONNECTION_WAIT_TIMEOUT # -1
    LongTimeout,    \* PO_SERVER_CONNECTION_LONG_TIMEOUT # -1
    NumClients,     \* bound: how many clients ever connect
    MaxSends        \* bound: how many chunks a client sends

ASSUME ListsAssumption ==
    /\ IsFiniteSet(Listener) /\ Listener # {}
    /\ IsFiniteSet(Conn) /\ Conn # {}
    /\ Listener \cap Conn = {} /\ Listener \cap (1 .. NumClients) = {}
ASSUME PoolAssumption ==
    /\ IsFiniteSet(Thread) /\ Thread # {}
    /\ QueueLength \in Nat
ASSUME EventsAssumption  == MaxEvents \in Nat \ {0}
ASSUME TimeoutAssumption == WaitTimeout \in BOOLEAN /\ LongTimeout \in BOOLEAN
ASSUME BoundsAssumption  == NumClients \in Nat /\ MaxSends \in Nat

Client   == 1 .. NumClients
NoClient == 0                   \* conn->fd == -1

VARIABLES
    \* struct POServer and its connections
    used,        \* s->used, oldest connection first
    unused,      \* s->unused
    waiting,     \* s->waiting, listeners with clients to accept
    listening,   \* listener[i].fd >= 0: FALSE once shutdown closed them
    conn,        \* s->conn[]: who is served, its flags and its callbacks
    \* the master thread
    mpc,
    batch,       \* s->event[], the events not yet handled
    mtask,       \* the task being given to poThreadPool_runTask()
    veryOld,     \* how many of s->used are past the long timeout
    old,         \* how many of s->used are past the wait timeout
    \* the thread pool and its threads
    tasks,       \* tasks no thread has yet
    wpc, task, removeMe,
    caller,      \* which if() of ServiceConnection() called the callback
    \* the kernel and the clients
    arrived,     \* clients 1 .. arrived have connected
    backlog,     \* of each listener, clients to accept
    ready,       \* epoll's ready list, of listeners and clients
    sock         \* each client's socket

listVars   == <<used, unused, waiting, listening>>
masterVars == <<mpc, batch, mtask, veryOld, old>>
workerVars == <<wpc, task, removeMe, caller>>
kernelVars == <<arrived, backlog, ready, sock>>
vars == <<listVars, conn, masterVars, tasks, workerVars, kernelVars>>

-----------------------------------------------------------------------------
(* Mutexes.                                                                *)

\* In ServiceConnection(), holding conn->mutex, the callbacks may run.
Serving == {"readStage", "inRead", "setWrite", "inWrite", "setRead",
            "returned", "writeStage"}

\* Someone holds the connection's mutex.
Locked(c) == \E w \in Thread :
                 task[w].conn = c /\ wpc[w] \in Serving \cup {"stale"}

\* Someone holds s->mutex.
MasterHolds == mpc \in {"clock", "loop", "look", "lookAccept", "event",
                        "evAccept", "evLock", "evPost", "asserted"}
ServerLocked == MasterHolds \/ \E w \in Thread : wpc[w] = "both"

-----------------------------------------------------------------------------
(* Connections and sockets.                                                *)

FreeConn(count) ==
    [client |-> NoClient, changeCount |-> count, marked |-> FALSE,
     readCb |-> FALSE, writeCb |-> FALSE,
     readReady |-> FALSE, writeReady |-> FALSE]

InUse(c) == conn[c].client # NoClient

NewSock    == [state |-> "open", sent |-> 0, unread |-> 0,
               writable |-> TRUE, hup |-> FALSE]
AwaySock   == [NewSock EXCEPT !.state = "away"]
ClosedSock == [NewSock EXCEPT !.state = "closed"]

\* Lists: membership, removal, and insertion at the end.
Has(s, x)      == \E i \in 1 .. Len(s) : s[i] = x
Position(s, x) == CHOOSE i \in 1 .. Len(s) : s[i] = x
Without(s, x)  == IF Has(s, x) THEN RemoveAt(s, Position(s, x)) ELSE s
With(s, x)     == IF Has(s, x) THEN s ELSE Append(s, x)

\* What of s is in the set T, in order.  (SelectSeq(), as a recursive function
\* that can be reasoned about.)
Filter(s, T) ==
    LET kept[i \in 0 .. Len(s)] ==
            IF i = 0 THEN <<>>
            ELSE IF s[i] \in T THEN Append(kept[i - 1], s[i]) ELSE kept[i - 1]
    IN  kept[Len(s)]

\* The client waits to be accepted.
InBacklog(k) == \E l \in Listener : \E i \in 1 .. Len(backlog[l]) : backlog[l][i] = k

\* What a client's socket or a listener is ready for.
Mask(x) ==
    IF x \in Listener
    THEN IF backlog[x] # <<>> THEN {"IN"} ELSE {}
    ELSE (IF sock[x].unread > 0 \/ sock[x].hup THEN {"IN"} ELSE {})
         \cup (IF sock[x].writable THEN {"OUT"} ELSE {})
         \cup (IF sock[x].hup THEN {"HUP"} ELSE {})

\* listRemove() with unusedPush(), the reset of the struct, and close(),
\* which also takes the socket out of epoll.
removeConnection_KeepsCount(c) ==
    /\ used' = Without(used, c)
    /\ unused' = Append(unused, c)
    /\ conn' = [conn EXCEPT ![c] = FreeConn(@.changeCount)]
    /\ sock' = [sock EXCEPT ![conn[c].client] = ClosedSock]
    /\ ready' = Without(ready, conn[c].client)
removeConnection(c) ==
    /\ used' = Without(used, c)
    /\ unused' = Append(unused, c)
    /\ conn' = [conn EXCEPT ![c] = FreeConn(@.changeCount + 1)]
    /\ sock' = [sock EXCEPT ![conn[c].client] = ClosedSock]
    /\ ready' = Without(ready, conn[c].client)

\* The outcome of checkTryRemoveConnection(): removed, or left to the thread
\* that holds the connection's mutex.
Removes(c) == ~Locked(c) /\ removeConnection(c)
MarksForRemoval(c) ==
    /\ Locked(c)
    /\ conn' = [conn EXCEPT ![c].marked = TRUE]
    /\ UNCHANGED <<used, unused, sock, ready>>

checkTryRemoveConnection(c) == Removes(c) \/ MarksForRemoval(c)

-----------------------------------------------------------------------------
(* poServer_create() and poServer_listenerSetup() for every listener.      *)

NoTask == [conn |-> CHOOSE c \in Conn : TRUE, count |-> 0]

Init ==
    /\ used = <<>>
    /\ unused = SetToSeq(Conn)
    /\ waiting = <<>>
    /\ listening = TRUE
    /\ conn = [c \in Conn |-> FreeConn(0)]
    /\ mpc = "top" /\ batch = <<>> /\ veryOld = 0 /\ old = 0
    /\ tasks = <<>>
    /\ mtask = NoTask
    /\ task = [w \in Thread |-> NoTask]
    /\ wpc = [w \in Thread |-> "idle"]
    /\ removeMe = [w \in Thread |-> FALSE]
    /\ caller = [w \in Thread |-> "read"]
    /\ arrived = 0
    /\ backlog = [l \in Listener |-> <<>>]
    /\ ready = <<>>
    /\ sock = [k \in Client |-> AwaySock]

-----------------------------------------------------------------------------
(* The kernel and the clients (external).                                  *)

\* A client's socket changes in a way that epoll reports, once accepted.
Raise(k) == ready' = IF \E c \in Conn : conn[c].client = k
                     THEN With(ready, k)
                     ELSE ready

\* In poServer_destroy(), which closes the listening sockets first.
Destroying == {"poolWait", "removing", "destroyed"}

Connect(l) ==
    /\ listening /\ mpc \notin Destroying \cup {"asserted"}
    /\ arrived < NumClients
    /\ arrived' = arrived + 1
    /\ backlog' = [backlog EXCEPT ![l] = Append(@, arrived + 1)]
    /\ sock' = [sock EXCEPT ![arrived + 1] = NewSock]
    /\ ready' = With(ready, l)
    /\ UNCHANGED <<listVars, conn, masterVars, tasks, workerVars>>

Send(k) ==
    /\ sock[k].state = "open" /\ ~sock[k].hup
    /\ sock[k].sent < MaxSends
    /\ sock' = [sock EXCEPT ![k].sent = @ + 1, ![k].unread = @ + 1]
    /\ Raise(k)
    /\ UNCHANGED <<listVars, conn, masterVars, tasks, workerVars, arrived, backlog>>

\* The peer reads, so that there is room to write again.
Drain(k) ==
    /\ sock[k].state = "open" /\ ~sock[k].writable
    /\ sock' = [sock EXCEPT ![k].writable = TRUE]
    /\ Raise(k)
    /\ UNCHANGED <<listVars, conn, masterVars, tasks, workerVars, arrived, backlog>>

\* The peer closes its end, or the connection breaks.
HangUp(k) ==
    /\ sock[k].state = "open" /\ ~sock[k].hup
    /\ sock' = [sock EXCEPT ![k].hup = TRUE]
    /\ Raise(k)
    /\ UNCHANGED <<listVars, conn, masterVars, tasks, workerVars, arrived, backlog>>

-----------------------------------------------------------------------------
(* accept()                                                                *)

queuePush(l) == waiting' = With(waiting, l)

\* accept() fails with EAGAIN.
NothingToAccept ==
    /\ backlog[Head(waiting)] = <<>>
    /\ waiting' = Tail(waiting)                               \* queuePull()
    /\ UNCHANGED <<used, unused, conn, backlog, ready, sock>>

\* accept() takes the first client in the backlog; the listener goes on waiting.
Accepted == Head(backlog[Head(waiting)])
TakeFromBacklog_StopsWaiting ==
    /\ backlog[Head(waiting)] # <<>>
    /\ backlog' = [backlog EXCEPT ![Head(waiting)] = Tail(@)]
    /\ waiting' = Tail(waiting)
TakeFromBacklog ==
    /\ backlog[Head(waiting)] # <<>>
    /\ backlog' = [backlog EXCEPT ![Head(waiting)] = Tail(@)]
    /\ UNCHANGED waiting

\* addConnection(); listAddNew() waits for the mutex of the unused struct.
addConnection ==
    /\ TakeFromBacklog
    /\ LET c == Head(unused) IN
          /\ ~Locked(c)
          /\ used' = Append(used, c)
          /\ unused' = Tail(unused)
          /\ conn' = [conn EXCEPT ![c].client = Accepted, ![c].readCb = TRUE]
          /\ ready' = Append(ready, Accepted)
    /\ UNCHANGED sock

accept == NothingToAccept \/ addConnection

-----------------------------------------------------------------------------
(* The master: _poServer_doNextEvent() up to epoll_wait().                 *)

LockTop ==
    /\ mpc = "top" /\ ~ServerLocked
    /\ mpc' = "clock"
    /\ UNCHANGED <<listVars, conn, batch, mtask, veryOld, old, tasks, workerVars,
                   kernelVars>>

\* t = poTime_getDouble().  s->used is in the order of acceptTime, so the
\* connections past a timeout are the first ones.
Clock_SparesNewest ==
    /\ mpc = "clock"
    /\ veryOld' \in IF LongTimeout /\ used # <<>> THEN 0 .. Len(used) - 1 ELSE {0}
    /\ old' \in IF LongTimeout /\ WaitTimeout THEN veryOld' .. Len(used) ELSE {0}
    /\ mpc' = "loop"
    /\ UNCHANGED <<listVars, conn, batch, mtask, tasks, workerVars, kernelVars>>
Clock ==
    /\ mpc = "clock"
    /\ veryOld' \in IF LongTimeout THEN 0 .. Len(used) ELSE {0}
    /\ old' \in IF LongTimeout /\ WaitTimeout THEN veryOld' .. Len(used) ELSE {0}
    /\ mpc' = "loop"
    /\ UNCHANGED <<listVars, conn, batch, mtask, tasks, workerVars, kernelVars>>

\* One round of the loop that removes very old connections.  It spins while
\* a worker has the connection's mutex.
RemoveVeryOld ==
    /\ mpc = "loop" /\ veryOld > 0
    /\ \/ /\ Removes(Head(used))
          /\ veryOld' = veryOld - 1
          /\ old' = IF old > 0 THEN old - 1 ELSE 0
       \/ MarksForRemoval(Head(used)) /\ UNCHANGED <<veryOld, old>>
    /\ UNCHANGED <<waiting, listening, mpc, batch, mtask, tasks, workerVars,
                   arrived, backlog>>

AcceptWaiting ==
    /\ mpc = "loop" /\ veryOld = 0
    /\ waiting # <<>> /\ unused # <<>>
    /\ accept
    /\ UNCHANGED <<listening, masterVars, tasks, workerVars, arrived>>

\* accept() fails otherwise than with EAGAIN, or fcntl() or epoll_ctl() for the
\* new connection does: an ASSERT() that does not return, with s->mutex locked.
AcceptAsserts ==
    /\ \/ mpc = "loop" /\ veryOld = 0 /\ waiting # <<>> /\ unused # <<>>
       \/ mpc \in {"lookAccept", "evAccept"}
    /\ mpc' = "asserted"
    /\ UNCHANGED <<listVars, conn, batch, mtask, veryOld, old, tasks, workerVars,
                   kernelVars>>

\* Into lookForAcceptFromTimedOutConns(), which reads the clock if that is
\* not done yet, or straight to epoll_wait().
LoopDone ==
    /\ mpc = "loop" /\ veryOld = 0
    /\ waiting = <<>> \/ unused = <<>>
    /\ IF WaitTimeout /\ waiting # <<>> /\ used # <<>>
       THEN /\ mpc' = "look"
            /\ old' \in IF LongTimeout THEN {old} ELSE 0 .. Len(used)
       ELSE /\ mpc' = "epoll"
            /\ old' = 0
    /\ UNCHANGED <<listVars, conn, batch, mtask, veryOld, tasks, workerVars,
                   kernelVars>>

\* lookForAcceptFromTimedOutConns() is called before epoll_wait() and, with
\* the listener's event still first in the batch, from doEvent().
LookGoesOn_OneMore == used # <<>> /\ waiting # <<>> /\ old >= 0
LookGoesOn == used # <<>> /\ waiting # <<>> /\ old > 0
LookEnds ==
    /\ old' = 0
    /\ IF batch = <<>>
       THEN mpc' = "epoll" /\ UNCHANGED batch
       ELSE mpc' = "event" /\ batch' = Tail(batch)

LookRemoves ==
    /\ mpc = "look" /\ LookGoesOn
    /\ \/ /\ Removes(Head(used))
          /\ mpc' = "lookAccept"
          /\ old' = old - 1
          /\ UNCHANGED batch
       \/ MarksForRemoval(Head(used)) /\ LookEnds
    /\ UNCHANGED <<waiting, listening, mtask, veryOld, tasks, workerVars,
                   arrived, backlog>>

LookAccepts ==
    /\ mpc = "lookAccept"
    /\ accept
    /\ mpc' = "look"
    /\ UNCHANGED <<listening, batch, mtask, veryOld, old, tasks, workerVars, arrived>>

LookDone ==
    /\ mpc = "look" /\ ~LookGoesOn
    /\ LookEnds
    /\ UNCHANGED <<listVars, conn, mtask, veryOld, tasks, workerVars, kernelVars>>

-----------------------------------------------------------------------------
(* The master: epoll_wait() and its events.                                *)

ConnOf(k) == CHOOSE c \in Conn : conn[c].client = k

\* An event names the listener or the connection struct (ev->data.ptr);
\* `of' is the descriptor that was ready, which the code does not keep.
Event(x) == [ptr  |-> IF x \in Listener THEN x ELSE ConnOf(x),
             mask |-> Mask(x), of |-> x]

\* epoll_wait() reports the first MaxEvents of the ready list that are still
\* ready, or times out (or is interrupted) when there are none.
Reported == {x \in Listener \cup Client : Mask(x) # {}}
EpollWait ==
    /\ mpc = "epoll"
    /\ LET now == Filter(ready, Reported)
           n   == IF Len(now) < MaxEvents THEN Len(now) ELSE MaxEvents
       IN  /\ batch' = [i \in 1 .. n |-> Event(now[i])]
           /\ ready' = SubSeq(now, n + 1, Len(now))
    /\ mpc' = "lockEvents"
    /\ UNCHANGED <<listVars, conn, mtask, veryOld, old, tasks, workerVars, arrived,
                   backlog, sock>>

LockEvents ==
    /\ mpc = "lockEvents" /\ ~ServerLocked
    /\ mpc' = "event"
    /\ UNCHANGED <<listVars, conn, batch, mtask, veryOld, old, tasks, workerVars,
                   kernelVars>>

ev == Head(batch)
EventDone == mpc' = "event" /\ batch' = Tail(batch)

\* doEvent() for a listener whose socket is closed: we are shutting down.
ListenerDown ==
    /\ mpc = "event" /\ batch # <<>> /\ ev.ptr \in Listener
    /\ ~listening
    /\ EventDone
    /\ UNCHANGED <<listVars, conn, mtask, veryOld, old, tasks, workerVars,
                   kernelVars>>

\* doEvent() for a listener.
ListenerEvent ==
    /\ mpc = "event" /\ batch # <<>> /\ ev.ptr \in Listener
    /\ listening
    /\ queuePush(ev.ptr)
    /\ \/ unused # <<>> /\ mpc' = "evAccept" /\ UNCHANGED <<batch, old>>
       \/ /\ unused = <<>> /\ WaitTimeout
          /\ mpc' = "look"
          /\ old' \in 0 .. Len(used)
          /\ UNCHANGED batch
       \/ unused = <<>> /\ ~WaitTimeout /\ EventDone /\ UNCHANGED old
    /\ UNCHANGED <<used, unused, listening, conn, mtask, veryOld, tasks, workerVars,
                   kernelVars>>

EventAccepts ==
    /\ mpc = "evAccept"
    /\ accept
    /\ EventDone
    /\ UNCHANGED <<listening, mtask, veryOld, old, tasks, workerVars, arrived>>

\* doEvent() for a connection, up to the lock of its mutex: the connection is
\* gone; or it has no callback (read without the mutex); or it needs service.
NoCallback(c) == ~conn[c].readCb /\ ~conn[c].writeCb

EventOfRemoved ==
    /\ mpc = "event" /\ batch # <<>> /\ ev.ptr \in Conn
    /\ ~InUse(ev.ptr)
    /\ EventDone
    /\ UNCHANGED <<listVars, conn, mtask, veryOld, old, tasks, workerVars,
                   kernelVars>>

EventWithoutCallback ==
    /\ mpc = "event" /\ batch # <<>> /\ ev.ptr \in Conn
    /\ InUse(ev.ptr) /\ NoCallback(ev.ptr)
    /\ checkTryRemoveConnection(ev.ptr)
    /\ EventDone
    /\ UNCHANGED <<waiting, listening, mtask, veryOld, old, tasks, workerVars,
                   arrived, backlog>>

ConnectionEvent ==
    /\ mpc = "event" /\ batch # <<>> /\ ev.ptr \in Conn
    /\ InUse(ev.ptr) /\ ~NoCallback(ev.ptr)
    /\ mpc' = IF ev.mask \cap {"IN", "OUT"} # {} THEN "evLock" ELSE "evPost"
    /\ UNCHANGED <<listVars, conn, batch, mtask, veryOld, old, tasks, workerVars,
                   kernelVars>>

\* With both mutexes: note what is ready, and prepare the task if there is a
\* callback for it.
Flagged(r) == [r EXCEPT !.readReady  = @ \/ "IN" \in ev.mask,
                        !.writeReady = @ \/ "OUT" \in ev.mask]
CallIt(r) == (r.readReady /\ r.readCb) \/ (r.writeReady /\ r.writeCb)

FlagEvent_NoLock ==
    /\ mpc = "evLock"
    /\ conn' = [conn EXCEPT ![ev.ptr] = Flagged(@)]
    /\ IF CallIt(conn'[ev.ptr])
       THEN /\ mtask' = [conn |-> ev.ptr, count |-> conn[ev.ptr].changeCount]
            /\ mpc' = "runTask"
       ELSE mpc' = "evPost" /\ UNCHANGED mtask
    /\ UNCHANGED <<listVars, batch, veryOld, old, tasks, workerVars, kernelVars>>
FlagEvent ==
    /\ mpc = "evLock" /\ ~Locked(ev.ptr)
    /\ conn' = [conn EXCEPT ![ev.ptr] = Flagged(@)]
    /\ IF CallIt(conn'[ev.ptr])
       THEN /\ mtask' = [conn |-> ev.ptr, count |-> conn[ev.ptr].changeCount]
            /\ mpc' = "runTask"
       ELSE mpc' = "evPost" /\ UNCHANGED mtask
    /\ UNCHANGED <<listVars, batch, veryOld, old, tasks, workerVars, kernelVars>>

\* poThreadPool_runTask(), without a mutex; blocks while the pool is full.
IdleThreads == {w \in Thread : wpc[w] = "idle"}
RunTask ==
    /\ mpc = "runTask"
    /\ Len(tasks) < QueueLength + Cardinality(IdleThreads)
    /\ tasks' = Append(tasks, mtask)
    /\ mtask' = NoTask
    /\ mpc' = "relock"
    /\ UNCHANGED <<listVars, conn, batch, veryOld, old, workerVars, kernelVars>>

Relock ==
    /\ mpc = "relock" /\ ~ServerLocked
    /\ mpc' = "evPost"
    /\ UNCHANGED <<listVars, conn, batch, mtask, veryOld, old, tasks, workerVars,
                   kernelVars>>

\* The end of doEvent(): the peer hung up, and no worker has noticed yet.
EventEnds ==
    /\ mpc = "evPost"
    /\ IF InUse(ev.ptr) /\ "HUP" \in ev.mask
       THEN checkTryRemoveConnection(ev.ptr)
       ELSE UNCHANGED <<conn, used, unused, sock, ready>>
    /\ EventDone
    /\ UNCHANGED <<waiting, listening, mtask, veryOld, old, tasks, workerVars,
                   arrived, backlog>>

\* _poServer_doNextEvent() returns to poServer_doNextEvents(), which unlocks,
\* or to the loop in poServer_shutdown().
EventsDone ==
    /\ mpc = "event" /\ batch = <<>>
    /\ mpc' = IF listening THEN "top" ELSE IF used # <<>> THEN "clock" ELSE "drained"
    /\ UNCHANGED <<listVars, conn, batch, mtask, veryOld, old, tasks, workerVars,
                   kernelVars>>

-----------------------------------------------------------------------------
(* poServer_shutdown() and poServer_destroy(), with or without shutdown.   *)

\* close() of the listening sockets.  When another process has a copy of them
\* (they were handed off, or there are forked servers) the clients stay in the
\* backlog, and epoll still reports the sockets.
ListenersClose ==
    \/ UNCHANGED <<backlog, ready, sock>>
    \/ /\ backlog' = [l \in Listener |-> <<>>]
       /\ ready' = Filter(ready, Client)
       /\ sock' = [k \in Client |-> IF InBacklog(k) THEN ClosedSock ELSE sock[k]]

\* The listening sockets are closed and the waiting queue is emptied.
shutdown ==
    /\ mpc = "top" /\ listening
    /\ listening' = FALSE
    /\ waiting' = <<>>
    /\ mpc' = "shutdownLock"
    /\ ListenersClose
    /\ UNCHANGED <<used, unused, conn, batch, mtask, veryOld, old, tasks, workerVars,
                   arrived>>

ShutdownLock ==
    /\ mpc = "shutdownLock" /\ ~ServerLocked
    /\ mpc' = IF used # <<>> THEN "clock" ELSE "drained"
    /\ UNCHANGED <<listVars, conn, batch, mtask, veryOld, old, tasks, workerVars,
                   kernelVars>>

\* The first loop closes the listening sockets, unless shutdown did, but keeps
\* their numbers in listener[i].fd.  Then poThreadPool_destroy() is called.
DestroyBegins_RemovesFirst ==
    /\ mpc \in {"top", "drained"}
    /\ IF listening THEN ListenersClose ELSE UNCHANGED <<backlog, ready, sock>>
    /\ mpc' = "removing"
    /\ UNCHANGED <<listVars, conn, batch, mtask, veryOld, old, tasks, workerVars,
                   arrived>>
DestroyBegins ==
    /\ mpc \in {"top", "drained"}
    /\ IF listening THEN ListenersClose ELSE UNCHANGED <<backlog, ready, sock>>
    /\ mpc' = "poolWait"
    /\ UNCHANGED <<listVars, conn, batch, mtask, veryOld, old, tasks, workerVars,
                   arrived>>

\* poThreadPool_destroy() returns, if it does: not before all that was given to
\* the pool is done (module ThreadPool, DestroyedIsQuiet and EachTaskOnce).
PoolDestroyed ==
    /\ mpc = "poolWait"
    /\ tasks = <<>> /\ IdleThreads = Thread
    /\ mpc' = "removing"
    /\ UNCHANGED <<listVars, conn, batch, mtask, veryOld, old, tasks, workerVars,
                   kernelVars>>

\* while(s->used.first) removeConnection(), without a mutex.
DestroyRemoves ==
    /\ mpc = "removing" /\ used # <<>>
    /\ removeConnection(Head(used))
    /\ UNCHANGED <<waiting, listening, masterVars, tasks, workerVars, arrived, backlog>>

\* The last loop closes again what is >= 0 in listener[i].fd and asserts that
\* this works: without a shutdown it does not, and ASSERT() does not return.
DestroyEnds ==
    /\ mpc = "removing" /\ used = <<>>
    /\ mpc' = IF listening THEN "asserted" ELSE "destroyed"
    /\ UNCHANGED <<listVars, conn, batch, mtask, veryOld, old, tasks, workerVars,
                   kernelVars>>

destroy == DestroyBegins \/ PoolDestroyed \/ DestroyRemoves \/ DestroyEnds

Terminated == mpc \in {"asserted", "destroyed"} /\ UNCHANGED vars

-----------------------------------------------------------------------------
(* The worker threads: ServiceConnection().                                *)

Goto(w, pc) == wpc' = [wpc EXCEPT ![w] = pc]

\* The pool gives the oldest task to a thread.
TakeTask(w) ==
    /\ wpc[w] = "idle" /\ tasks # <<>>
    /\ task' = [task EXCEPT ![w] = Head(tasks)]
    /\ tasks' = Tail(tasks)
    /\ Goto(w, "lock")
    /\ UNCHANGED <<listVars, conn, masterVars, removeMe, caller, kernelVars>>

\* mutexLock(&conn->mutex): is this still the connection the task is for?
LockConn(w) ==
    /\ wpc[w] = "lock" /\ ~Locked(task[w].conn)
    /\ Goto(w, IF task[w].count = conn[task[w].conn].changeCount
               THEN "readStage" ELSE "stale")
    /\ UNCHANGED <<listVars, conn, masterVars, tasks, task, removeMe, caller,
                   kernelVars>>

ThreadIdles(w) ==
    /\ Goto(w, "idle")
    /\ task' = [task EXCEPT ![w] = NoTask]
    /\ removeMe' = [removeMe EXCEPT ![w] = FALSE]
    /\ caller' = [caller EXCEPT ![w] = "read"]

TooLate_KeepsMutex(w) == wpc[w] = "stale" /\ UNCHANGED vars
TooLate(w) ==
    /\ wpc[w] = "stale"
    /\ ThreadIdles(w)
    /\ UNCHANGED <<listVars, conn, masterVars, tasks, kernelVars>>

\* if(conn->readReady && conn->readCallback) ...
ReadStage(w) ==
    /\ wpc[w] = "readStage"
    /\ LET r == conn[task[w].conn] IN
          Goto(w, IF r.readReady /\ r.readCb THEN "inRead" ELSE "writeStage")
    /\ UNCHANGED <<listVars, conn, masterVars, tasks, task, removeMe, caller,
                   kernelVars>>

\* if(conn->writeReady && conn->writeCallback) ..., and the first unlock.
WriteStage(w) ==
    /\ wpc[w] = "writeStage"
    /\ LET r == conn[task[w].conn] IN
          IF r.writeReady /\ r.writeCb
          THEN /\ Goto(w, "inWrite")
               /\ caller' = [caller EXCEPT ![w] = "write"]
               /\ UNCHANGED removeMe
          ELSE /\ Goto(w, "gap")
               /\ removeMe' = [removeMe EXCEPT ![w] =
                                  @ \/ NoCallback(task[w].conn)]
               /\ UNCHANGED caller
    /\ UNCHANGED <<listVars, conn, masterVars, tasks, task, kernelVars>>

\* The callback that ServiceConnection() called returns zero.
CallbackReturns(w) ==
    /\ wpc[w] = "returned"
    /\ LET c == task[w].conn
           r == conn[c]
       IN  IF caller[w] = "read"
           THEN /\ conn' = [conn EXCEPT ![c].readReady = @ /\ ~r.readCb]
                /\ Goto(w, "writeStage")
                /\ UNCHANGED removeMe
           ELSE /\ conn' = [conn EXCEPT ![c].writeReady = @ /\ ~r.writeCb]
                /\ Goto(w, "gap")
                /\ removeMe' = [removeMe EXCEPT ![w] = NoCallback(c)]
    /\ UNCHANGED <<listVars, masterVars, tasks, task, caller, kernelVars>>

\* It returns non-zero: both callbacks are removed, and with them the rest.
CallbackCloses(w) ==
    /\ wpc[w] \in {"inRead", "inWrite"}
    /\ conn' = [conn EXCEPT ![task[w].conn].readCb = FALSE,
                            ![task[w].conn].writeCb = FALSE]
    /\ removeMe' = [removeMe EXCEPT ![w] = TRUE]
    /\ Goto(w, "writeStage")
    /\ UNCHANGED <<listVars, masterVars, tasks, task, caller, kernelVars>>

\* The second part, with both mutexes.
LockServer(w) ==
    /\ wpc[w] = "gap" /\ ~ServerLocked
    /\ Goto(w, "both")
    /\ UNCHANGED <<listVars, conn, masterVars, tasks, task, removeMe, caller,
                   kernelVars>>

MustRemove_AnyClient(w) == removeMe[w] \/ conn[task[w].conn].marked
MustRemove(w) ==
    LET r == conn[task[w].conn] IN
       (r.changeCount = task[w].count /\ removeMe[w]) \/ r.marked

FinishService(w) ==
    /\ wpc[w] = "both" /\ ~Locked(task[w].conn)
    /\ IF MustRemove(w)
       THEN removeConnection(task[w].conn)
       ELSE UNCHANGED <<used, unused, conn, sock, ready>>
    /\ ThreadIdles(w)
    /\ UNCHANGED <<waiting, listening, masterVars, tasks, arrived, backlog>>

-----------------------------------------------------------------------------
(* The callbacks, run by a worker with the connection's mutex:             *)
(* poServer_echoRequest() and echoWrite() of serverEchoRequest.c, with     *)
(* poServer_setReadCallback() and poServer_setWriteCallback().  Removing   *)
(* one callback and setting the other are two steps, because doEvent()     *)
(* looks at the callbacks without the mutex.                               *)

\* read() gets a chunk, which is to be echoed; or EWOULDBLOCK.  (At the end
\* of the stream, or on an error, CallbackCloses.)
echoRequest(w) ==
    /\ wpc[w] = "inRead"
    /\ LET c == task[w].conn
           k == conn[c].client
       IN  \/ /\ sock[k].unread > 0
              /\ sock' = [sock EXCEPT ![k].unread = @ - 1]
              /\ conn' = [conn EXCEPT ![c].readCb = FALSE]
              /\ Goto(w, "setWrite")
           \/ /\ sock[k].unread = 0 /\ ~sock[k].hup
              /\ Goto(w, "returned")
              /\ UNCHANGED <<sock, conn>>
    /\ UNCHANGED <<listVars, masterVars, tasks, task, removeMe, caller, arrived,
                   backlog, ready>>

\* write() takes all of it, or a part until the socket's buffer is full.
echoWrite(w) ==
    /\ wpc[w] = "inWrite"
    /\ LET c == task[w].conn
           k == conn[c].client
       IN  \/ /\ sock[k].writable
              /\ conn' = [conn EXCEPT ![c].writeCb = FALSE]
              /\ Goto(w, "setRead")
              /\ UNCHANGED sock
           \/ /\ sock' = [sock EXCEPT ![k].writable = FALSE]
              /\ Goto(w, "returned")
              /\ UNCHANGED conn
    /\ UNCHANGED <<listVars, masterVars, tasks, task, removeMe, caller, arrived,
                   backlog, ready>>

\* The new callback is called at once when its side is flagged as ready.
setReadCallback_NeverCalls(w) ==
    /\ wpc[w] = "setRead"
    /\ conn' = [conn EXCEPT ![task[w].conn].readCb = TRUE]
    /\ Goto(w, "returned")
    /\ UNCHANGED <<listVars, masterVars, tasks, task, removeMe, caller, kernelVars>>
setReadCallback(w) ==
    /\ wpc[w] = "setRead"
    /\ conn' = [conn EXCEPT ![task[w].conn].readCb = TRUE]
    /\ Goto(w, IF conn[task[w].conn].readReady THEN "inRead" ELSE "returned")
    /\ UNCHANGED <<listVars, masterVars, tasks, task, removeMe, caller, kernelVars>>

setWriteCallback(w) ==
    /\ wpc[w] = "setWrite"
    /\ conn' = [conn EXCEPT ![task[w].conn].writeCb = TRUE]
    /\ Goto(w, IF conn[task[w].conn].writeReady THEN "inWrite" ELSE "returned")
    /\ UNCHANGED <<listVars, masterVars, tasks, task, removeMe, caller, kernelVars>>

-----------------------------------------------------------------------------
MasterStep ==
    \/ LockTop \/ Clock \/ RemoveVeryOld \/ AcceptWaiting \/ AcceptAsserts \/ LoopDone
    \/ LookRemoves \/ LookAccepts \/ LookDone
    \/ EpollWait \/ LockEvents
    \/ ListenerDown \/ ListenerEvent \/ EventAccepts
    \/ EventOfRemoved \/ EventWithoutCallback \/ ConnectionEvent
    \/ FlagEvent \/ RunTask \/ Relock \/ EventEnds \/ EventsDone
    \/ ShutdownLock

ThreadStep(w) ==
    \/ TakeTask(w) \/ LockConn(w) \/ TooLate(w)
    \/ ReadStage(w) \/ WriteStage(w) \/ CallbackReturns(w) \/ CallbackCloses(w)
    \/ echoRequest(w) \/ echoWrite(w) \/ setReadCallback(w) \/ setWriteCallback(w)
    \/ LockServer(w) \/ FinishService(w)

ClientStep ==
    \/ \E l \in Listener : Connect(l)
    \/ \E k \in Client : Send(k) \/ Drain(k) \/ HangUp(k)

Next ==
    \/ MasterStep
    \/ shutdown \/ destroy
    \/ \E w \in Thread : ThreadStep(w)
    \/ ClientStep
    \/ Terminated

Spec == Init /\ [][Next]_vars

\* Fairness.  Threads that can run do run, callbacks return, and a mutex that
\* is released again and again is got in the end: strong fairness of every
\* thread.  Time passes: if the clock is read again and again, in the end
\* every connection is past the timeouts.  A client that stays connected reads
\* what it is sent, and an echo is finite, so that it is not always written in
\* part.  Nothing is assumed of what clients send, of who calls shutdown and
\* destroy, or of poThreadPool_destroy(), which with the idle timeout may never
\* return.
ClockRunsOut == Clock /\ (LongTimeout => veryOld' = Len(used))
WaitRunsOut ==
    LoopDone /\ (mpc' = "look" => old' = IF LongTimeout THEN old ELSE Len(used))

Fairness ==
    /\ SF_vars(MasterStep)
    /\ SF_vars(ClockRunsOut) /\ SF_vars(WaitRunsOut)
    /\ \A w \in Thread : SF_vars(ThreadStep(w))
    /\ \A k \in Client : WF_vars(Drain(k))
    /\ SF_vars(\E w \in Thread : echoWrite(w) /\ conn' # conn)

FairSpec == Spec /\ Fairness

-----------------------------------------------------------------------------
(* Properties.                                                             *)

TaskRec  == [conn : Conn, count : Nat]
ConnRec  == [client : Client \cup {NoClient}, changeCount : Nat, marked : BOOLEAN,
             readCb : BOOLEAN, writeCb : BOOLEAN, readReady : BOOLEAN,
             writeReady : BOOLEAN]
SockRec  == [state : {"away", "open", "closed"}, sent : Nat, unread : Nat,
             writable : BOOLEAN, hup : BOOLEAN]
EventRec == [ptr : Listener \cup Conn, mask : SUBSET {"IN", "OUT", "HUP"},
             of : Listener \cup Client]

listTypeOK ==
    /\ used \in Seq(Conn) /\ unused \in Seq(Conn) /\ waiting \in Seq(Listener)
    /\ listening \in BOOLEAN
connTypeOK == conn \in [Conn -> ConnRec]
masterTypeOK ==
    /\ mpc \in {"top", "clock", "loop", "look", "lookAccept", "epoll",
                "lockEvents", "event", "evAccept", "evLock", "runTask", "relock",
                "evPost", "shutdownLock", "drained", "asserted"} \cup Destroying
    /\ batch \in Seq(EventRec)
    /\ mtask \in TaskRec
    /\ veryOld \in Nat /\ old \in Nat
workerTypeOK ==
    /\ tasks \in Seq(TaskRec)
    /\ wpc \in [Thread -> Serving \cup {"idle", "lock", "stale", "gap", "both"}]
    /\ task \in [Thread -> TaskRec]
    /\ removeMe \in [Thread -> BOOLEAN]
    /\ caller \in [Thread -> {"read", "write"}]
kernelTypeOK ==
    /\ arrived \in 0 .. NumClients
    /\ backlog \in [Listener -> Seq(Client)]
    /\ ready \in Seq(Listener \cup Client)
    /\ sock \in [Client -> SockRec]

\* Every field has a value of its type in server.h.
TypeOK == listTypeOK /\ connTypeOK /\ masterTypeOK /\ workerTypeOK /\ kernelTypeOK

\* "A connection struct is in the used list or in the unused queue" (server.h),
\* in one of them and once, and it is in the used list exactly while it has
\* an open descriptor, which no other struct has.  A mark made by
\* checkTryRemoveConnection() never outlives the connection: the struct of the
\* next client is not marked, and who finds the mark has something to close
\* (DASSERT in removeConnection()).
UsedOrUnused ==
    /\ \A c \in Conn :
          Cardinality({i \in 1 .. Len(used) : used[i] = c})
          + Cardinality({i \in 1 .. Len(unused) : unused[i] = c}) = 1
    /\ \A c \in Conn : InUse(c) <=> Has(used, c)
    /\ \A c, d \in Conn : InUse(c) /\ conn[c].client = conn[d].client => c = d
    /\ \A c \in Conn : InUse(c) => sock[conn[c].client].state = "open"
    /\ \A c \in Conn : conn[c].marked => InUse(c)

\* While ServiceConnection() runs callbacks, the connection is the one its
\* task was made for (DASSERT(conn->fd >= 0)), whatever the master and the
\* other workers remove in the meantime, and no second thread is at it.
CallbacksOnTheirConnection ==
    \A w \in Thread : wpc[w] \in Serving =>
       /\ InUse(task[w].conn)
       /\ conn[task[w].conn].changeCount = task[w].count
       /\ \A v \in Thread \ {w} :
             wpc[v] \in Serving => task[v].conn # task[w].conn

\* A task for what the connection is used for now is on its way.
OnItsWay(c) ==
    LET t == [conn |-> c, count |-> conn[c].changeCount] IN
       \/ mpc = "runTask" /\ mtask = t
       \/ Has(tasks, t)
       \/ \E w \in Thread : wpc[w] = "lock" /\ task[w] = t

\* The kernel or the master still has an edge `what' for the connection.
EdgePending(c, what) ==
    \/ Has(ready, conn[c].client)
    \/ \E i \in 1 .. Len(batch) :
          /\ batch[i].ptr = c /\ what \in batch[i].mask
          /\ i = 1 => mpc \notin {"runTask", "relock", "evPost"}

\* epoll is edge triggered: it reports input once.  As long as a connection
\* has unread input and a read callback, or room to write and a write
\* callback, someone is at it or will be: no edge is lost between the
\* kernel, the batch of events, the readReady and writeReady flags that
\* worker and master both write, and the tasks.
NoEdgeLost ==
    \A c \in Conn :
       InUse(c) /\ ~Locked(c) /\ ~conn[c].marked =>
          /\ conn[c].readCb /\ sock[conn[c].client].unread > 0
                => OnItsWay(c) \/ EdgePending(c, "IN")
          /\ conn[c].writeCb /\ sock[conn[c].client].writable
                => OnItsWay(c) \/ EdgePending(c, "OUT")

\* No descriptor is lost.  A client's socket that is open waits in a backlog
\* or belongs to a connection struct that is in use, whichever of accept(),
\* epoll_ctl(), a worker, a stale task, the timeouts and shutdown come in between.
\* "There are no other threads now so we don't need mutexes" (poServer_destroy()):
\* when the connections that are left are removed, no worker is at one of them or
\* will be; and when that is done, none that was accepted is open.
NoDescriptorLost ==
    /\ \A k \in Client : sock[k].state = "open" =>
          InBacklog(k) \/ \E c \in Conn : conn[c].client = k
    /\ \A c \in Conn :
          mpc = "removing" /\ InUse(c) => ~Locked(c) /\ ~OnItsWay(c)
    /\ \A k \in Client : mpc = "destroyed" /\ sock[k].state = "open" => InBacklog(k)

\* The master handles no events any more: in poServer_destroy(), or asserted.
Stopped == mpc \in Destroying \cup {"asserted"}

\* What a client sends is read, or the client is closed, in the end, unless the
\* server is destroyed.
InputIsRead ==
    \A k \in Client :
       (sock[k].unread > 0 /\ \E c \in Conn : conn[c].client = k)
           ~> (sock[k].unread = 0 \/ Stopped)

\* With PO_SERVER_CONNECTION_LONG_TIMEOUT no client keeps a connection for ever,
\* though the master, which has to remove it, finds its mutex taken by workers
\* whose callbacks read and write, and they in turn wait for s->mutex, which the
\* master keeps while it tries.
EveryConnectionEnds ==
    \A k \in Client : (\E c \in Conn : conn[c].client = k)
                          ~> (sock[k].state = "closed" \/ Stopped)

\* A client in the backlog is accepted in the end, though all connections
\* are taken by others that stay, if there is a timeout for them.
WaitersAreAccepted ==
    \A k \in Client : InBacklog(k) ~> (~InBacklog(k) \/ ~listening \/ Stopped)

\* poServer_shutdown() comes to an end when there is a long timeout, and what
\* poThreadPool_destroy() is then to wait for comes true: every connection is
\* closed, and every task that the pool was given is done.  (Whether that call
\* returns is the pool's matter: without idle timeout it does, DestroyReturns of
\* module ThreadPool; with it, it may not, as run tp_timed_destroy shows.)
ShutdownEnds ==
    ~listening ~> /\ mpc \in {"drained"} \cup Destroying
                  /\ used = <<>> /\ tasks = <<>> /\ IdleThreads = Thread

\* "We know that the worker thread will remove it because they had the lock
\* and are forced by the server mutex to look at this flag"
\* (checkTryRemoveConnection()): a marked connection has a worker that will
\* come to its second part.
MarkWillBeSeen ==
    \A c \in Conn : conn[c].marked =>
       \/ OnItsWay(c)
       \/ \E w \in Thread :
             task[w].conn = c /\ wpc[w] \in Serving \cup {"gap", "both"}

\* DLOG("got EPOLLRDHUP for fd=%d"): the connection that doEvent() closes
\* because the peer hung up is one whose peer did.
HangUpIsItsOwn ==
    mpc = "evPost" /\ InUse(ev.ptr) /\ "HUP" \in ev.mask
        => sock[conn[ev.ptr].client].hup

-----------------------------------------------------------------------------
(* The inductive invariant, which Server_proofs shows to hold.             *)

Distinct(s) == \A i, j \in 1 .. Len(s) : s[i] = s[j] => i = j

\* A connection struct is in one list and once, with a client of its own while
\* it is in the used list.
ListsApart ==
    /\ Distinct(used) /\ Distinct(unused)
    /\ \A c \in Conn : InUse(c) <=> Has(used, c)
    /\ \A c \in Conn : ~InUse(c) <=> Has(unused, c)
    /\ \A c, d \in Conn : InUse(c) /\ conn[c].client = conn[d].client => c = d
    /\ \A c \in Conn : conn[c].marked => InUse(c)

\* Clients that are served or wait in a backlog have connected and are open, and
\* one that waits is in one place and is not served.
ClientsApart ==
    /\ \A c \in Conn :
          InUse(c) => conn[c].client <= arrived /\ sock[conn[c].client].state = "open"
    /\ \A l \in Listener : \A i \in 1 .. Len(backlog[l]) :
          /\ backlog[l][i] <= arrived /\ sock[backlog[l][i]].state = "open"
          /\ \A c \in Conn : conn[c].client # backlog[l][i]
    /\ \A l, m \in Listener :
          \A i \in 1 .. Len(backlog[l]), j \in 1 .. Len(backlog[m]) :
             backlog[l][i] = backlog[m][j] => l = m /\ i = j

\* epoll has each descriptor once, and of clients only those that are served.
ReadyAreServed ==
    /\ Distinct(ready)
    /\ \A i \in 1 .. Len(ready) :
          ready[i] \in Client => \E c \in Conn : conn[c].client = ready[i]

\* The mutexes exclude.
Holding == Serving \cup {"stale"}
MutexesExclude ==
    /\ \A w \in Thread : wpc[w] = "both" =>
          ~MasterHolds /\ \A v \in Thread \ {w} : wpc[v] # "both"
    /\ \A v, w \in Thread :
          wpc[v] \in Holding /\ wpc[w] \in Holding /\ task[v].conn = task[w].conn
              => v = w

\* What the master relies on without looking again, because it holds s->mutex.
MasterInStep ==
    /\ mpc \in {"lookAccept", "evAccept"} => waiting # <<>> /\ unused # <<>>
    /\ mpc = "loop" => veryOld <= Len(used)
    /\ mpc \in {"evAccept", "evLock", "runTask", "relock", "evPost"} => batch # <<>>
    /\ mpc \in {"evLock", "runTask", "relock", "evPost"} => ev.ptr \in Conn
    /\ mpc = "evLock" => InUse(ev.ptr)

\* A task that is not begun or not finished is for what the connection is used
\* for now, or for an earlier use.
Fresh(t) ==
    /\ t.count <= conn[t.conn].changeCount
    /\ t.count = conn[t.conn].changeCount => InUse(t.conn)
TasksFresh ==
    /\ mpc = "runTask" => Fresh(mtask)
    /\ \A i \in 1 .. Len(tasks) : Fresh(tasks[i])
    /\ \A w \in Thread : wpc[w] # "idle" => Fresh(task[w])
    /\ \A w \in Thread :
          wpc[w] \in Serving => task[w].count = conn[task[w].conn].changeCount

\* Every open socket has an owner.
OpenAreOwned ==
    \A k \in Client : sock[k].state = "open" =>
       InBacklog(k) \/ \E c \in Conn : conn[c].client = k

\* When the pool is destroyed the master is alone, and removes what is left.
MasterAlone ==
    /\ mpc \in {"removing", "destroyed"} => tasks = <<>> /\ IdleThreads = Thread
    /\ mpc = "destroyed" => used = <<>>

IInv ==
    /\ TypeOK /\ ListsApart /\ ClientsApart /\ ReadyAreServed /\ MutexesExclude
    /\ MasterInStep /\ TasksFresh /\ OpenAreOwned /\ MasterAlone

\* The callbacks of a connection alternate, as the echo service sets them.
CallbacksAlternate ==
    /\ \A c \in Conn : ~(conn[c].readCb /\ conn[c].writeCb)
    /\ \A c \in Conn : ~InUse(c) => NoCallback(c)
    /\ \A w \in Thread :
          /\ wpc[w] = "inRead" => conn[task[w].conn].readCb
          /\ wpc[w] = "inWrite" => conn[task[w].conn].writeCb
          /\ wpc[w] \in {"setRead", "setWrite"} => NoCallback(task[w].conn)

Served(c) == \E w \in Thread : task[w].conn = c /\ wpc[w] \in Serving
Input(c)  == sock[conn[c].client].unread > 0
Room(c)   == sock[conn[c].client].writable

\* epoll_wait() overwrites no event, and accept() is for a listener's event.
BatchInStep ==
    /\ mpc \in {"top", "clock", "loop", "epoll", "shutdownLock", "drained"}
          => batch = <<>>
    /\ mpc \in {"look", "lookAccept", "evAccept"} /\ batch # <<>>
          => ev.ptr \in Listener

\* What there is to read or to write is flagged or an edge is pending; if no
\* worker is at it, a task or an edge is; and a worker that has passed the place
\* where it would call the callback leaves an edge behind.
EdgesOf(c) ==
    /\ Input(c) => conn[c].readReady \/ EdgePending(c, "IN")
    /\ Room(c) => conn[c].writeReady \/ EdgePending(c, "OUT")
    /\ ~Served(c) =>
          /\ conn[c].readCb /\ Input(c) => OnItsWay(c) \/ EdgePending(c, "IN")
          /\ conn[c].writeCb /\ Room(c) => OnItsWay(c) \/ EdgePending(c, "OUT")
    /\ \A w \in Thread : task[w].conn = c =>
          /\ wpc[w] \in {"returned", "writeStage"} /\ conn[c].readCb /\ Input(c)
                => EdgePending(c, "IN")
          /\ wpc[w] = "returned" /\ conn[c].writeCb /\ Room(c)
                => EdgePending(c, "OUT")
EdgesKept == \A c \in Conn : InUse(c) /\ ~conn[c].marked => EdgesOf(c)

EInv == IInv /\ CallbacksAlternate /\ BatchInStep /\ EdgesKept

=============================================================================
