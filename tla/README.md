# A TLA+ verification of tidbits: the potato server library and the CRTS radio

`tidbits` is a collection of small projects.  Two of them have concurrent logic
of their own.  `potato_old` is a C library for network servers: a pool of worker
threads, an edge-triggered `epoll` server on top of it, services with or without
TLS on top of the server, forked server processes, and a protocol with which a
starting server takes the listening sockets over from a running one.
`lanceman2_crts` has a software radio, `crts_radio`, with a receiving and a
transmitting thread.  This directory models both in TLA+, checks the models with
TLC and proves the safety of the thread pool, the server, the hand-off, the
children, the service and the radio with TLAPS, for every size of the system.

Paths below are relative to `src/potato_old/` unless they say otherwise.

## 1. Inventory

| Component | State | Operations | Interacts with | What is hard | What makes it correct |
|---|---|---|---|---|---|
| Thread pool (`threadPool.c/h`) | ring of tasks, idle and unused worker lists, `num_threads`, the flags `cleanup`, `detachThread`, `taskWaitingToBeRun` | `runTask`, `checkIdleThreadTimeout`, `destroy`, the worker's loop | pthreads; called by the server's master thread | wake-ups, idle timeouts racing `destroy`, a full ring, hand-over without a ring | tasks start in order, each once; no worker idles while tasks wait; no lost wake-up; worker structs are in one place; `destroy` returns and nothing runs after it |
| Server (`server.c/h`) | connection structs in a used list and an unused queue, listeners that wait for a struct, per-connection flags, callbacks and `changeCount` | `doNextEvents`, `shutdown`, `destroy`, `ServiceConnection` in workers, `set{Read,Write}Callback` | kernel (epoll, sockets), thread pool, callbacks | structs are reused while tasks and events for them are around; edge-triggered events; two kinds of mutex; timeouts | a callback runs on the connection its task was made for, alone; no event is lost; every connection ends; clients in the backlog get a turn |
| Echo service (`serverEchoRequest.c`) | a buffer per connection | read callback, write callback | server | swaps its callbacks while the master looks at them | what is sent is read |
| Hand-off (`potato.c`, `listenerSetup` and `shutdown` of `server.c`) | the servers' listeners, `shutdownFd`, handed-over sockets | `passListeners` (SIGUSR1/2), `termHandler` (SIGINT), `signalHandOff`, `findListenerFd`, `handoffCleanup` | two processes, a UNIX domain socket, signals | a handler interrupts the main thread anywhere; either process dies in the middle | no address is without a listening socket; the protocol stays in step; the new process runs or fails |
| Forked children (`potato.c`) | `childPids`, `numChildren`, `exitStatus` | `fork`, `removeChildren`, SIGCHLD handler | processes, signals | the handler interrupts the parent in system calls and in list updates | no child outlives `removeChildren`, which signals and waits for its own children only; no status is counted twice |
| Service (`service.c/h`), TLS (`tls.c/h`), HTTP stubs (`http.c`) | per session an input buffer and a queue of buffers and files to write; the count of TLS sessions | `Setup`, `Read`, `Write`, `Cleanup`, `send`, `sendF`, `sendFD`, `sendPath`, the user's return codes | server callbacks, GnuTLS | partial writes, `Write` called from inside `Read`, cleanup in the middle, edge-triggered events | bytes leave in order, once; a close flushes; what is queued leaves or is freed; what arrives is read |
| Helpers (`util.h`, `hashTable.h`, `murmurHash.c`, `randSequence.c`, `pthreadWrap.h`, `aSsert.h`, `elog.*`, `tIme.h`) | little or none | | all of the above | | |
| CRTS radio (`src/lanceman2_crts/bin`) | two loop flags, a barrier, a mutex for FFTW | main, RX and TX threads, SIGINT, `crtsExit` | UHD, liquid-dsp, plug-ins | the signal comes at any point, blocked reads at the end | FFTW is used by one thread at a time, modules outlive the threads, the radio is left quiet, the program ends |
| CRTS tunnels and plug-ins, `src/tun_pipe` | descriptors | system calls in sequence | | | |
| `src/suffixbuild`, tutorials, installation scripts | none | generators, examples, scripts | | | |

`PROJECT.json` lists every component with its status, and every hazard with its
source line and the properties that cover it.

## 2. Plan

| Step | Module | State |
|---|---|---|
| 1 | `TaskExecutor`: what the thread pool promises | done |
| 2 | `ThreadPool`: the pool, shown to implement `TaskExecutor` | done |
| 3 | `ThreadPool_proofs`: types, worker accounting, no lost wake-up, FIFO | done |
| 4 | `Server`: server and echo service, over the pool's promise | done |
| 5 | `Handoff`: two processes and the UNIX domain socket | done |
| 6 | `Children`: fork, SIGCHLD, `removeChildren`, exit status | done |
| 7 | `Service`: read/write queues with partial I/O, TLS or TCP; `ByteStream`, the abstract ordered stream it implements; the TLS session count | done |
| 8 | `Radio`: the three threads of the CRTS radio, barrier and SIGINT | done |
| 9 | `Radio_proofs`: FFTW, modules, the radio left quiet | done |
| 10 | `ThreadPoolTasks_proofs`: each task once, quiet after `destroy`, the refinement of `TaskExecutor` | done |
| 11 | `Server_proofs`: types, lists, callbacks on their connection, no descriptor lost; `ServerEdges_proofs`: no edge is lost | done |
| 12 | `Children_proofs`: no child left behind, no foreign pid; `Service_proofs`: callbacks and queue, close, cleanup, the refinement of `ByteStream` | done |
| 13 | `Handoff_proofs`: the protocol in step, no socket too many, no downtime | done |
| 14 | `NeverOvercounts` in `Children_proofs`, with the sum as a recursive function | done |
| 15 | descriptor passing of `getTunViaUSocket`, hash table and random sequence against reference definitions | open |

`Server` composes with the thread pool through `TaskExecutor`: it uses a queue of
tasks that start in order, each once, with a blocking submit, which is exactly
what `ThreadPool` is shown to implement.  `Handoff` takes from `Server` that
connections end, so that `poServer_shutdown()` does.  It does not take more: that
`poServer_destroy()` returns after it depends on `poThreadPool_destroy()`, which
with an idle timeout may not (section 7).  `Service` takes from `Server`
that a worker has its connection to itself, that an event is not lost between
two of its tasks, and that a connection that is to be removed is removed.

## 3. The modules

### `TaskExecutor` and `ThreadPool`

All of `struct POThreadPool` is under one mutex, so an action of `ThreadPool` is
one critical section: from a lock or the return of a `pthread_cond_wait()` to
the next unlock or wait.  User callbacks run between two critical sections of
their worker.  `wpc[w]` says where worker `w`'s thread is, `mpc` where the
master is; `slot`, `nextReadIndex`, `num` are the ring, `idle` and `unused` the
lists (top last).  `runTask` is one action per entry and one per return from a
wait (`RetryRun`, `ThreadStarted`, `HandoffTaken`); the worker's loop is
`WorkerStart`, `TakeNext`, `EndInCleanup`, `BecomeIdle`, `EndIdleless`,
`WakeWithTask`, `WakeTakeNext`, `WakeEnd`; `destroy` is `destroy`, `Joined` and
`CleanupDone`.  The build's macros are constants: `QueueLength` (0 is the build
without a queue), `MaxNumThreads`, `MaxIdleTime` (-1, 0, or a time).  The clock
is abstracted: whenever the code compares a time, both outcomes are possible.
Tasks are numbered in the order of the calls; `submitted`, `starts`, `finished`
and `zombies` are what a client of the pool can observe and are only read by
properties.  `TaskExecutor` has the same tasks as two counters; the mapping
counts a task as dispatched once it left the queue or the blocked caller.

A `pthread_cond_wait()` returns only when signalled, which is what the code
assumes.

### `Server`

The master's `doNextEvents` is a sequence of actions between lock, unlock and
unlocked accesses; `ServiceConnection` in a worker likewise.  Who holds which
mutex follows from where the threads are (`ServerLocked`, `Locked`), so no state
can have a mutex held by nobody.  A try-lock is a test of `Locked`.  `conn[c]`
has the fields of `struct POServer_connection` that control depends on: the
client (`fd`), `changeCount`, the mark for removal, the two callbacks, the two
ready flags.  The kernel is modelled from how `server.c` uses it (external): the
backlog of each listener, epoll's ready list, and for each client what is
unread, whether there is room to write and whether it hung up.  Events are edge
triggered: `Raise` puts a descriptor on the ready list when something changes
and `EpollWait` takes up to `MaxEvents` of them, in order.  Timeouts are the two
counters `veryOld` and `old` of connections past the limit at the head of the
list, chosen when the code reads the clock.  The echo callbacks read, exchange
callbacks in two steps, write in part or completely, and exchange back.

`destroy` is four kinds of steps: the listeners are closed and the pool is told to
end (`DestroyBegins`), the pool returns when its tasks are done (`PoolDestroyed`,
without fairness), the connections that are left are removed one by one
(`DestroyRemoves`), and the mutexes go (`DestroyEnds`).  A failed `ASSERT()` does not
return and is the state "asserted"; it is where `destroy` ends that was not preceded
by a `shutdown`, because it closes the listeners twice (section 7).

### `Handoff`

Both processes, with the old one's main thread (`opc`), its signal handler
(`hpc`, which runs while the main thread does not) and the new one (`npc`).  The
UNIX domain socket is `stream` with one message per write: the count, an address
with its descriptor, the end character.  A socket is known by its address (port
and interface) and is listening as long as some process, or a message on its way
to a living process, holds it.  The option `--replace` or `--copy` is the new
process's input.  SIGINT may interrupt anything, the handler
included, and a kill may take either process at any point.  A blocked
`epoll_wait()` returns when a handler ran; a handler that runs just before the
call does not prevent it, and the wait then takes its time limit.  An `ASSERT()`
of the handler that fails does not return (`HandlerAsserts`): nobody listens at the
path any more, the other end is closed, or the listener to be sent was closed by a
shutdown that SIGINT began.  The old process ends, or sleeps, as its build says.

`MCHandoff` has the instance: an old process with two servers of two listeners,
and a new one that takes one address of each, leaves the others, opens one that
nobody had, and has another interface of a port of the old one.

### `Children`

The parent is one thread (`pc`) whose SIGCHLD handler (`sigChildHandler`) runs
between any two of its steps; a step has at most one access to what the handler
shares (`childPids`, `numChildren`, `exitStatus`), so `++numChildren`, `realloc()`,
the assignment of its result and the storing of the pid are four actions, and
reading and writing back the exit status are two.  The new entry of a grown array is
`Junk` until the pid is stored: were it to look like a pid, the handler would clear
it, and the pid is stored over it in either case.  SIGCHLD is not queued: a second
one while one is pending is dropped.  Children start or fail, tell the parent
through the pipe, stop and continue, return, exit at the second SIGINT or are
killed; SIGINT comes to the parent alone or, as from a terminal, to all.
`removeChildren` is reached by SIGINT or because a new server took the listeners
over (`passListeners`, which clears `isRunning` and leaves `terminating` alone: a
first SIGINT after that ends the process, until `poServer_destroy` has taken its
servers away).  A child may be replaced too (`ChildReplaced`), and a child that is
forked after the parent was told to end ends at once.  A failed `ASSERT()` does not
return, so that what follows it is the state "aborted".

### `ByteStream` and `Service`

One session.  `pc` is where the worker is inside `ServiceConnection`, with one
system call per step, because the peer and the kernel act between any two;
`caller` says whether `Write` was called by the server or, from inside the user's
callback, by a send.  An item of the queue `out` is a buffer or a file and knows
the position of its first byte in the stream of all that was queued.  The socket
has `room` for a few bytes; it takes a part of what TCP is given (`Takes`), a
record or nothing of what TLS is given; `noSpace` and `edge` are the
edge-triggered EPOLLOUT.  Input is a sequence of sizes, which TLS reads one by one
and TCP as their sum.  The user may send buffers and files and return any of the
four codes, which includes what the callbacks of `http.c` and `service_test.c`
do.  `closing` says that the user has closed, and `ended` why the connection ends:
"broken" is a write that failed for the peer's sake, "cut" a file that a writer gave
up.  `ByteStream` has positions only: what was queued, up to where it was sent,
and how much of that was left out, which only a lossy stream may do.

### `Radio`

The three threads with one action per access to what they share: the flags, the FFTW
mutex, the barrier, the radio.  SIGINT is pending until `main` unblocks it; the
handler is reset after it ran, so that a second signal kills.  The input of the TX
thread may give data, end (by itself or through `crtsExit`) or keep it waiting for
ever, and so may the output of the RX thread, whose `write()` "can block if it needs
to" (`include/crts/RadioOutput.hpp:15`).  `bin/GNUmakefile` builds with `-DDEBUG`: a
`DASSERT` that fails in the RX thread keeps it (the place "assert"), and the
handler's `DSPEW` waits for the mutex of `lib/debug.c` for ever if it interrupted a
`DSPEW` of `main` (`CatcherHangs`).  `late` counts the frames that begin after the
handler ran, up to `LateCap`.

## 4. Runs

| Run | Question | Result |
|---|---|---|
| `tp_notimeout` | pool of 3 with idle threads, ring of 2, 6 tasks: the ring in order, `destroy` returns, and leaves nothing running and no thread unjoined | holds |
| `tp_timed` | the build with an idle timeout, whose clock may expire at every check: workers accounted for, none idle while tasks wait, each task once, the refinement of `TaskExecutor`, tasks finish | holds (except for `destroy`, below) |
| `tp_bare` | the build without a queue and without idle threads: the caller sleeps only while the pool is full, every task is taken and finishes | holds |
| `tp_timed_destroy` | with an idle timeout: does `destroy` return? | **violated** |
| `sv_echo` | echo callbacks on a struct used by two clients, two workers, timeouts, shutdown, and destroy with or without it: lists, marks, change counts, no descriptor lost, connections removed behind no worker's back | holds |
| `sv_edges` | input during a blocked write: is an edge lost, is everything that is sent read? | holds |
| `sv_ends` | one struct, two clients that send and may stay, a worker that reads and writes while the master tries to remove: does every connection end, is everyone accepted, does shutdown end with the pool's tasks done? | holds |
| `ho_handoff` | `--replace` and `--copy` with kills, SIGINT and failing assertions: no downtime, protocol, extra sockets, the new process decides unless the old one sleeps in an assertion | holds |
| `ch_children` | two forks with every kind of end of a child, SIGINTs and hand-overs: is a child left behind, a foreign pid signalled, a status counted twice, do fork and removal end? | holds |
| `se_service` | a session with or without TLS over a small socket: callbacks and queue, close, cleanup, the refinement of `ByteStream`, output leaves, input is read | holds |
| `se_gap` | with TLS: is the rest of a buffer longer than a record sent? | **violated** |
| `ra_radio` | every choice of modules, inputs that end or block, outputs that block, two SIGINTs: FFTW, modules, what the radio is left doing, the end of the program, if no module and no debug code keeps a thread | holds |

What the violations mean is in section 7.

Deadlock is checked in the server's runs and in `tp_notimeout` and `tp_bare`,
where the only states without another step are those after `destroy`
(`Terminated`).  It is not checked with an idle timeout, where `destroy` may wait
for ever (section 7), nor in the four modules whose system may stop: both
processes of `Handoff` may be gone (and a new process whose `accept()` nobody
answers does wait for ever), the programs of `Children` and `Radio` end, and a
session of `Service` is closed, or its peer stays silent.

### Bounds and why they are enough

* Thread pool: an idle timeout needs `num_threads > 2`, so 3 threads; a ring of
  2 with 6 tasks wraps three times and blocks the master while all threads are
  busy; with one task more than threads and ring together can hold the master
  retries.  `starts` saturates at 2, enough to tell "twice" from "once".  The
  proofs cover every size.
* Server: one struct with two clients forces reuse; two threads are a stale worker
  and a live one, and a third would add another one of either kind; `MaxEvents` 2
  makes batches in which an accept precedes an event of the struct it fills;
  `MaxSends` 2 lets input arrive during a blocked write and again afterwards.
  `QueueLength` 1 lets `runTask` block, and 0, in `sv_ends`, makes it block whenever
  the worker is busy.  `sv_ends` has one worker, which is enough for the master to
  find the mutex taken by a callback that reads or writes, and for the second client
  to wait while the first one stays; 117 thousand states with three liveness
  properties are what five minutes allow.  `sv_echo` uses symmetry of threads
  (safety only).
* Hand-off: two servers are the smallest case in which the sum of the listeners,
  the order of shutdowns and "the last server" differ from the trivial one; two
  listeners each are the smallest in which the handler can interrupt the closing
  between two of them.
* Children: two are the smallest number with which an earlier child's SIGCHLD
  meets the fork of a later one, and two ends coalesce; the statuses 0 to 2 with
  the cap at 2 reach the cap.  Two SIGINTs are all that the handlers tell apart.
* Service: the socket has room for 2 bytes and a record takes 2; buffers of 1
  and 3 and files of 0, 2 and 3 bytes are below, at and above each of room, record
  and file buffer, and two items are enough for one to wait behind another.  The
  input buffer grows by 2 to at most 4, and two arrivals of up to 2 bytes fill it
  exactly, or leave a message that waits for more.
* Radio: the bound is on SIGINTs only; the second is the last that can be caught.

### Fairness

* Thread pool: weak fairness of each worker and of the master while it is inside
  a call.  Callbacks return.  Nothing obliges the master to call anything.
* Server: strong fairness of the master and each worker, because they compete
  for mutexes that are released again and again (pthread mutexes do not starve a
  thread for ever on the scheduler in use, which is what the library relies on).
  The clock runs: if it is read again and again, timeouts do expire.  A client
  that stays connected reads what it is sent, and an echo has finite length.
  Nothing is assumed of what clients send, or of when they hang up, nor of
  `destroy`: `ShutdownEnds` says that `poServer_shutdown` ends and that what
  `poThreadPool_destroy` waits for comes true, not that it returns.
* Hand-off: weak fairness of the handler, the old main thread and the new
  process; `PO_SERVER_EPOLL_WAIT_TIME` is finite, as in every configuration of
  the repository, and connections end.  With the value -1 a signal that comes
  between the test of `isRunning` and `epoll_wait()` would leave the new process
  waiting for the next client of the old one.
* Children: the handler runs once its signal is pending (weak), and the parent
  gets its turn between signals (strong, because each one disables it for a
  moment).  A child starts or fails, a stopped one is continued one day, and one
  that was told to end does so (strong, because it may be stopped in between).
  The last rests on the child's own `poServer_destroy`: a child whose pool has an
  idle timeout may hang there (section 7), and its parent then waits for it.
* Service: weak fairness of the worker inside a task, of the server's look at
  its events and of a removal, which `Server` shows, and of the peer's reading.
  Not of the handshake, which needs a peer that answers, nor of what the peer or
  the user sends.
* Radio: weak fairness of the three threads and of the handler.  Nothing is assumed
  of the modules: `ExitFollows` says of the RX thread's end that it needs `write()`
  to return and no `DASSERT` to fail, whatever the input does, and of the program's
  end that it also needs the TX thread not to wait in `read()` for ever; in both
  cases, that the handler does not hang.

## 5. Proofs

Every theorem is for all values of the constants that satisfy the assumptions of
the module it is about, so for every number of threads, connections, clients,
children or bytes; TLC's instances are examples of them.  The assumptions say
what kind of thing a constant is (a finite non-empty set, a natural number, a
Boolean); in `Service`, in which order the sizes are: a file buffer fits in a
TLS record, and a record in the socket's buffer; and in `Handoff`, that an address
is a port and an interface, that the servers of the old process have as many
listeners each (`PO_SERVER_NUM_LISTENERS` is a macro), and that two sockets of a
process do not listen on the same port.  Two theorems add that the thread
pool has a queue, and say so.

### Thread pool

`ThreadPool_proofs` proves, for every number of threads, every queue length
(0 included), every kind of idle time and every number of tasks, under the four
assumptions on the constants in `ThreadPool`:

* `TypeCorrect`: counters and indexes stay within the arrays they bound;
* `WorkersAreAccounted`: a worker struct is in the idle list, in the unused list
  or running, once, and `num_threads` is the number of threads;
* `NobodyIdlesWhileTasksQueued`: the DVASSERTs of `threadPool.c`;
* `NoMissedWakeup`: the master sleeps in `runTask` only while there is nothing to
  be done for it, or its wake-up is on the way;
* `RingIsFIFO`: the ring holds the tasks not yet dispatched, in order.

All follow from `Invariance`, the theorem that `IInv` is inductive.  None of the
properties is inductive alone.  `NoIdlerWhileTasksQueued` needs that the idle
list holds exactly the workers at their `condWait` without a task
(`WorkersAccounted`), because a worker that stops waiting must leave the list;
`BlockedOnlyWhenFull` needs `FlagsFollowMaster`, which says where the master is
when `cleanup`, `taskWaitingToBeRun` and `detachThread` have their values; and
`RingInOrder` needs `TasksInHand`, which says that the task the master holds is
the last one submitted.  The proof has one lemma per conjunct, with one step per
action, over lemmas on what `listPush`, `listPop` and `listPull` do to a list
without duplicates and on the ring's index arithmetic.

`ThreadPoolTasks_proofs` builds on it.  `TaskInvariance` adds what becomes of a
task: exactly the tasks that left the ring and the blocked caller are finished or
in a worker's hands (`TasksKept`); with a queue, a callback is called when the
thread that was given the task starts or wakes up and not before (`StartsOnce`);
without an idle timeout only the thread that `destroy` is joining wakes up without
a task (`JoinsInStep`); and `destroy` is told that the pool is empty only when it is
(`GoneInStep`).  The steps of the model are first summarised
by what they do to the tasks, so that each conjunct is shown for a handful of
effects and not for every action.  From it follow

* `TasksRunOnce`: each task is started once;
* `DestroyLeavesQuiet`: after `destroy` all tasks are finished and no thread is
  left, and none unjoined without an idle timeout;
* `PoolImplementsExecutor`: the refinement of `TaskExecutor`, the tasks dispatched
  being those submitted that are neither in the ring nor with the blocked caller.

The first and the third assume `QueueLength > 0`.  That is what the code needs:
without a queue two workers can take the same task (section 7).

### Server

`Server_proofs` proves that `IInv` of `Server` is inductive (`Invariance`), and
from it `TypeCorrect`, `StructsAreUsedOrUnused`, `CallbacksAreSafe` and
`DescriptorsAreOwned`.  The parts of `IInv`, and why they are needed:

* `ListsApart`, `ClientsApart`, `ReadyAreServed`: a struct is in one list, with a
  client that no other struct, no backlog and, once it is closed, not epoll has.
  Accepting a client and removing one each need all three, because either would
  break the others if a descriptor were in two places;
* `MutexesExclude`: mutexes are not variables, so that two threads never hold the
  same one is a fact to be proved;
* `MasterInStep`: what the master found under `s->mutex` and relies on until it
  gives the mutex back, that there is a free struct and a waiting listener, or
  that its event is of a connection in use;
* `TasksFresh`: a task's count is at most the connection's `changeCount`, and when
  they are equal the connection is in use.  That is the whole protection against
  stale tasks, and the inequality is the part that a second reuse needs;
* `OpenAreOwned`: an open socket is in a backlog or has a struct.  Accepting moves it
  from one to the other, and every removal closes it with the struct it leaves;
* `MasterAlone`: once the pool is destroyed no task is queued and no thread is at one,
  which every later step of `destroy` keeps.

The proof classifies the steps by what they do to the lists and sockets
(`Changes`), to the use of a struct (`UseStep`) and to the threads (`WorkerMoves`,
`OtherMoves`), and shows each part of `IInv` for the classes.  What `Filter` keeps
of the ready list, a recursive function, is shown by induction over a set of
lengths.

`ServerEdges_proofs` proves `NoEdgeIsLost` from a larger invariant, `EInv`.
`EdgesOf` says of a connection in use and not marked that what there is to read
or to write is flagged or an edge for it is pending; that, if no worker is at it,
a task or an edge is on its way for the callback it has; and that a worker that has
passed the place where it would call the callback leaves an edge behind.  The
last part is what `ServiceConnection` relies on when it clears `readReady` after
the callback's last `read()`.  It needs `CallbacksAlternate` (the echo service has
at most one callback set and sets one only when there is none) and `BatchInStep`
(no event is overwritten).  The proof follows an edge: `EpollWait` moves it from
the ready list to the batch, `FlagEvent` from the batch to the flags and a task,
`LockConn` from the task to a worker, and every other step leaves it where it is.

### Hand-off

`Handoff_proofs` proves, for any number of servers in the old process, any number of
listeners in both, any addresses that they share or not, and SIGINT and kills at any
point, that `IInv` of `Handoff` is inductive (`Invariance`), and from it
`TypeCorrect`, `MessagesInOrder`, `ServesWhatItHolds` and `AlwaysListening`.  The
parts of `IInv`, and why they are needed:

* `ClosingInStep`: `isRunning` is cleared for all servers at once, and while it is set
  the main thread is in its first server and has closed nothing.  So unless SIGINT was
  there before, a handler counts and sends listeners that are all open;
* `HandlerInStep`: the handler runs once, after its signal, and `shutdownFd` is open
  only when it is done;
* `StreamInStep`: the number comes first, the end character last, sockets between;
* `CountInStep`: while the handler sends, the sockets that the new process has, those
  on their way and those still to be sent are together the number that was announced,
  and once it is done the first two are.  This is what makes the new process leave its
  loop exactly when the sockets are through, and it also holds with listeners that
  SIGINT made the old process close, where the number is smaller than that of all;
* `SocketsKept`: what the handler went past is with the new process or on its way,
  and without SIGINT that number is that of all listeners.  `NoDowntime` alone says
  nothing of the time before `shutdownFd` is set, and thus is far from inductive;
* `SetupInStep`: the listeners are set up in order, so what the new process has
  is what it asked for so far.  That `listenerSetup` takes an address that was handed
  over, and does not lose another one with it, rests on the ports being different.

The announced number is a sum over the servers, `LastServers`, written as a
recursive function whose existence (`LastServersExists`) is shown by induction over
a set of numbers (`NumberInduction`).  That `findListenerFd` has a first socket to
find rests on the same lemma (`SmallestNumber`).

### Children, service, radio

`Children_proofs` proves, for every number of forks and signals, that a running
child is in the list where `removeChildren`, by whichever signal it is reached,
still will find it (`ChildrenAreRemoved`), that it signals and waits for its own
children only (`KillsAreSafe`), and that no child's status is counted twice
(`StatusesCountedOnce`).  The invariant says for each place of the parent how long
the list is and that an entry is its child's pid, or was cleared after the child
ended (`ListInStep`, also of the copy that `realloc` makes while the handler may
run); that a pending SIGCHLD that calls a child dead is right (`SignalIsTrue`),
without which the handler could clear the entry of a living one; and that the
removal goes downwards, past children that are dead (`RemovedAbove`).

`NeverOvercounts` needs to say which child has contributed what so far: 1 for a child
killed by a signal once the handler has seen it, its status for one that exited once
the removal is past it, and 0 before (`Counted`).  `exitStatus` is at most the sum of
these (`CountedOnce`); it may be less, because the handler can add between the reading
and the writing of `exitStatus` and its addition is then lost, but never more: the sum
that was read is not ahead, and the status at hand is that of the child at hand
(`AddsInStep`).  No step takes a contribution back (`CountedGrows`), and a step that
adds raises one by as much.  `Sum` is a recursive function over the children; that it
exists and grows with its parts (`SumGrows`) is shown by induction over a set of
numbers.

`Service_proofs` proves, for all sizes of buffers, records, files and room,
`TypeCorrect`, `CallbackFollowsOutput`, `CloseSendsAll`, `CleanupIsComplete` and
`SessionIsByteStream`, the refinement of `ByteStream`.  The invariant says which
session there is by the callbacks that are set and by where the worker is
(`SessionInStep`, `CallbackInStep`), that the items of the queue follow each other
in the stream up to what was queued last and only the first was begun
(`OutInOrder`), and how far the socket is behind the first item (`SentInStep`),
which is what the refinement needs.  `CloseFlushes` is about a connection that is
gone, and its queue with it; `ClosedInStep` therefore says that a session that the
user closed reads no more, and that only a write that failed ends it with output
left in the queue.  The four writers are summarised by one effect (`WriteEffect`):
the stream goes on, without TLS from where it was, and the queue keeps the rest.

`Radio_proofs` proves, for every choice of modules and any number of signals
(`MaxSigInt` is any natural number), that the types hold (`TypeCorrect`),
`FftwExclusive`, `ModulesOutliveThreads` and `RadioLeftQuiet`.  The inductive
invariant `IInv` of `Radio` says who holds the FFTW mutex (`MutexHeld`), which
threads exist and have ended according to where `main` is (`ThreadsFollowMain`),
and where the threads are while the radio streams, a burst is open or a frame has
begun after the signal (`RadioFollowsThreads`).  `ModulesOutliveThreads` needs the
second, because the modules are safe only if no thread can start after the joins;
`RadioLeftQuiet` needs the second and the third, which the second SIGINT, a signal
before the barrier and a missing thread all have to respect.

### What is only model-checked

* Liveness, which needs fairness and is out of this prover's reach: `TasksFinish`,
  `DestroyReturns`, `InputIsRead`, `EveryConnectionEnds`, `WaitersAreAccepted`,
  `ShutdownEnds`, `NewServerDecides`, `ForkDecides`, `RemovalReturns`,
  `OutputLeaves`, `Service`'s `InputIsRead`, `ExitFollows`.

A remark on the prover: tlapm's SMT translation states of every value, sequence or
not, that its length is N exactly if its domain is 1..N.  The proofs do not depend
on the doubtful direction: they also go through with that axiom weakened to the
implication that holds.

## 6. What is left out, and why

Listed with reasons in `PROJECT.json`.  Within the modelled parts:
`poThreadPool_destroyForce`, which nobody calls and which is a TODO in front of the
freeing; failures of `malloc`, `pthread_create` and of system calls that the code
answers with an assertion; logging; the content of messages and buffers; `accept()`
failing with anything but EAGAIN; in the hand-off, several new processes at a time,
a new process with several servers, and signals that arrive while the old process is
still setting up its listeners; of the children, those that fork again; of the
service, the set-up of TLS and a count of TLS sessions that two workers change at
once; of the radio, the options, the set-up of the device and the samples.  The
build without a thread pool calls `ServiceConnection` in the master thread and has
no mutexes; its behaviours are those of `Server` in which the worker runs at once.

### Not modelled

The simple client (a sequential program that tests use), the hash table and the
random sequence (pure helpers, without a property that more than restates them
before there is a reference to compare with), the TUN helpers and `tun_pipe`
(system calls in sequence), `suffixbuild` (a generator of make files), tutorials
of other libraries and installation scripts.

## 7. Disagreements between code and comments

Two are runs that TLC finds violated; `PROJECT.json` quotes the lines.

* `tp_timed_destroy`: the last thread, told to end by the idle timeout, ends
  without the signal `destroy` waits for (`threadPool.c:514`).
* `se_gap`: of a buffer longer than a TLS record only the first record is sent,
  because of a stray semicolon (`service.c:178`).

The modules state the following as well, without a run of their own.  Adding
`INVARIANT` with the name to the cfg shows each of them violated:

* `RunsOnce` in `tp_bare.cfg`: without a queue, two workers that finish before
  the caller wakes both take its task (`threadPool.c:380`).
* `NoThreadLeaked` in `tp_timed.cfg`: a worker told to end by the idle timeout
  can end while `destroy` joins another one, and is then neither joined nor
  detached (`threadPool.c:532`).
* `MarkWillBeSeen` in `sv_echo.cfg`: a worker with a stale task makes the master
  leave a removal to nobody (`server.c:642`; the comment at `server.c:408` says
  that the worker thread will remove it).
* `HangUpIsItsOwn` in `sv_echo.cfg`: an event later in a batch is applied to a
  client that an earlier one put in the struct (`server.c:901`).
* `ClosedBeforeContinue` in `ho_handoff.cfg`: the new server is told to continue
  before the listeners are closed (`server.c:1028`; `potato.c:264`, `potato.c:311`).
* `FileIsFinished` in `se_service.cfg`: `TCPWrite_path` returns -1 and the connection
  ends when `sendfile()` takes a part of the file (`service.c:467`), where its comment
  says that it "returns 2 if we exhausted the socket for writing and we'll be back"
  (`service.c:402`).  `CloseFlushes` and `IsByteStream` allow for the cut file.
* `StatusIsSum` in `ch_children.cfg`: the handler removes a child that exited
  from the list without adding its status (`potato.c:762`), and so
  `removeChildren` returns less than the "sum of return codes" of `potato.h:36`.

Observed while modelling, without a property:

* an idle worker's `condWait` is not in a loop (`threadPool.c:496`): a spurious
  wake-up, which POSIX allows and the model leaves out, would put its struct in
  both lists;
* the callbacks are read without the connection's mutex, in the middle of their
  exchange (`server.c:849`), and the connection is marked for removal
  (`EventWithoutCallback`);
* `poServer_destroy` without a `poServer_shutdown` before it closes the listeners at
  `server.c:1074` without marking them closed, and again at `server.c:1102`, where the
  `ASSERT()` of `close() == 0` fails (`DestroyEnds` goes to "asserted");
* an old process that sleeps in a failed `ASSERT()` of its handler keeps its end of
  the UNIX domain socket open, and the new one waits in `recvFd` or `readn`, which
  have no time limit, for ever.  A SIGINT just before the hand-over is enough for
  it: the handler then sends a listener that is already closed;
* a parent that is replaced while it is still forking gives its later children a copy
  of `shutdownFd`: module `Handoff` has one old process, and so does not show that a
  child tells the new server to continue;
* in the debug build the radio's signal handler can wait for itself
  (`src/lanceman2_crts/bin/crts_radio.cpp:188`, `lib/debug.c:26`), and a module that
  writes less than a payload puts the RX thread to sleep (`rxThread.cpp:54`);
* a failed fork "is not fatal for the parent process" (`potato.c:842`), but the
  `ASSERT()` that leads there does not return; and a child that the handler took
  from the list is waited for by nobody and stays a zombie until the parent ends;
* with TLS a short record ends the reading of the socket although more may have
  arrived (`service.c:575`), and a file whose last chunk has to wait ends the
  session in place of being finished (`service.c:286`);
* file locks are compiled under `POSERVICE_FLOCK`, while `service.h:25` defines
  `PO_SERVICE_FLOCK`.

## 8. Running

    tlc -config tp_notimeout.cfg MCThreadPool      # likewise the other tp_*.cfg
    tlc -config sv_echo.cfg MCServer               # likewise the other sv_*.cfg
    tlc -config ho_handoff.cfg MCHandoff
    tlc -config ch_children.cfg MCChildren
    tlc -config se_service.cfg MCService           # likewise se_gap.cfg
    tlc -config ra_radio.cfg MCRadio
    tlapm ThreadPool_proofs.tla                    # likewise the other *_proofs.tla
