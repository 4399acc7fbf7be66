------------------------------ MODULE Handoff -------------------------------
(***************************************************************************)
(* The hand-off of listening sockets from a running potato process (the    *)
(* old one) to a starting one (the new one), of potato_old/potato.c with   *)
(* the parts of server.c that it interacts with.                           *)
(*                                                                         *)
(* The new process binds a UNIX domain socket, signals the old one, and    *)
(* gets the listening sockets from its signal handler passListeners().     *)
(* With SIGUSR1 (--replace) the old process then shuts down and writes a   *)
(* character when the new one may go on; with SIGUSR2 (--copy) both run.   *)
(*                                                                         *)
(* The handler interrupts the old process's main thread, which goes on     *)
(* when the handler returns, and SIGINT may interrupt both; the new        *)
(* process runs all the time.  Either process may be killed.  An ASSERT    *)
(* that fails ends the process or has it sleep; for the new process, of    *)
(* which nothing is claimed then, both are "failed".  A listening socket   *)
(* is known by its address and lives as long as some process, or a message *)
(* on its way, holds it.                                                   *)
(*                                                                         *)
(* A definition Name_Fault stands before Name and is Name with a fault     *)
(* seeded; the mutants of PROJECT.json use it to show that a property      *)
(* would notice.                                                           *)
(***************************************************************************)
EXTENDS Integers, Sequences

CONSTANTS
    OldListeners,   \* of each server of the old process, its addresses
    NewListeners,   \* the addresses the new process sets up, in that order
    SigInt,         \* the old process may get SIGINT
    Kills           \* processes that may be killed: a subset of {"old", "new"}

Server  == 1 .. Len(OldListeners)
Slot(s) == 1 .. Len(OldListeners[s])
OldAddr == UNION {{OldListeners[s][i] : i \in Slot(s)} : s \in Server}
NewAddr == {NewListeners[i] : i \in 1 .. Len(NewListeners)}
Addr    == OldAddr \cup NewAddr

\* An address is a port and an interface.
ASSUME AddrAssumption ==
    /\ OldListeners \in Seq(Seq(Addr)) /\ NewListeners \in Seq(Addr)
    /\ \A a \in Addr : DOMAIN a = {"port", "ip"}
\* PO_SERVER_NUM_LISTENERS is the same for all servers of a program, and sockets
\* of the same port cannot listen at the same time.
ASSUME ListenersAssumption ==
    /\ OldListeners # <<>> /\ \A s, t \in Server : Slot(s) = Slot(t)
    /\ \A s, t \in Server : \A i \in Slot(s), j \in Slot(t) :
          OldListeners[s][i].port = OldListeners[t][j].port => s = t /\ i = j
    /\ \A i, j \in 1 .. Len(NewListeners) :
          NewListeners[i].port = NewListeners[j].port => i = j
ASSUME SigIntAssumption == SigInt \in BOOLEAN
ASSUME KillsAssumption == Kills \subseteq {"old", "new"}

VARIABLES
    \* the old process: struct POTato and its servers
    isRunning,      \* s->isRunning
    listenersDown,  \* s->listenersDown
    numListeners,   \* s->numListeners
    open,           \* s->listener[i].fd >= 0
    shutdownFd,     \* po.shutdownFd # -1
    ignoring,       \* SIGUSR1 and SIGUSR2 are ignored
    terminating,    \* po.terminating
    opc, cur, slot, \* its main thread: where, in which server and listener
    hpc, hs, hi,    \* its signal handler
    \* the UNIX domain socket
    bound,          \* the new process listens at the path
    stream,         \* what was written and not yet read
    oldEnd, newEnd, \* each process has its end open
    signal,         \* SIGUSR1 or SIGUSR2 is pending
    replace,        \* it is SIGUSR1 (--replace), else SIGUSR2 (--copy)
    \* the new process
    npc,            \* where it is
    expected,       \* the number of sockets it was told to expect
    handoff,        \* po.handoffSockets
    mine,           \* the sockets of its server
    next            \* the listener to set up next

oldVars    == <<isRunning, listenersDown, numListeners, open, shutdownFd,
                ignoring, terminating>>
mainVars   == <<opc, cur, slot>>
handVars   == <<hpc, hs, hi>>
sigVars    == <<signal, replace>>
streamVars == <<bound, stream, oldEnd, newEnd, sigVars>>
newVars    == <<npc, expected, handoff, mine, next>>
vars == <<oldVars, mainVars, handVars, streamVars, newVars>>

\* A handed-over socket that was taken or closed, fd = -1.
NoFd == [port |-> 0, ip |-> 0]

\* What is written to the UNIX domain socket.
Count(n) == [type |-> "count", num |-> n]
Fd(a)    == [type |-> "fd", addr |-> a]
EndChar  == [type |-> "end"]

Init ==
    /\ isRunning = [s \in Server |-> TRUE]
    /\ listenersDown = [s \in Server |-> FALSE]
    /\ numListeners = [s \in Server |-> Len(OldListeners[s])]
    /\ open = [s \in Server |-> [i \in Slot(s) |-> TRUE]]
    /\ shutdownFd = FALSE /\ ignoring = FALSE /\ terminating = FALSE
    /\ opc = "loop" /\ cur = 1 /\ slot = 1
    /\ hpc = "none" /\ hs = 1 /\ hi = 0
    /\ bound = FALSE /\ stream = <<>> /\ oldEnd = FALSE /\ newEnd = FALSE
    /\ signal = FALSE /\ replace = FALSE
    /\ npc = "start" /\ expected = 0 /\ handoff = <<>> /\ mine = {} /\ next = 1

-----------------------------------------------------------------------------
(* Who holds a listening socket.                                           *)

OldHolds(a) == \E s \in Server : \E i \in Slot(s) :
                   open[s][i] /\ OldListeners[s][i] = a
NewHolds(a) == a \in mine \/ \E i \in 1 .. Len(handoff) : handoff[i] = a
InFlight(a) == newEnd /\ \E i \in 1 .. Len(stream) : stream[i] = Fd(a)
Listening(a) == OldHolds(a) \/ NewHolds(a) \/ InFlight(a)

-----------------------------------------------------------------------------
(* The old process's signal handler passListeners().                       *)

\* The process is gone, with everything it has open.
OldGone ==
    /\ opc' = "dead" /\ hpc' = "none"
    /\ open' = [s \in Server |-> [i \in Slot(s) |-> FALSE]]
    /\ oldEnd' = FALSE /\ shutdownFd' = FALSE
    /\ UNCHANGED <<isRunning, listenersDown, numListeners, ignoring, terminating,
                   cur, slot, hs, hi, bound, stream, newEnd, sigVars, newVars>>

RunsMain == opc # "dead" /\ hpc = "none"

\* A signal handler makes a blocked epoll_wait() return (EINTR), but it does
\* not keep the main thread from calling it after the handler.
Interrupted == opc' = IF opc = "epoll" THEN "loop" ELSE opc

\* The signal is delivered.
HandlerStarts ==
    /\ signal /\ RunsMain
    /\ signal' = FALSE
    /\ IF ignoring
       THEN UNCHANGED <<hpc, opc>>
       ELSE hpc' = "connect" /\ Interrupted
    /\ UNCHANGED <<oldVars, cur, slot, hs, hi, bound, stream, oldEnd, newEnd, replace,
                   newVars>>

HandlerFails ==
    /\ hpc' = "none"
    /\ oldEnd' = FALSE
    /\ shutdownFd' = FALSE

\* An ASSERT of the handler fails and does not return: on connect() when nobody
\* listens at the path, in the debug build on a write() to a closed end, and on the
\* sendmsg() of sendFd() when that end is closed or, after a SIGINT, the listener.
\* It ends the process or, so the build says, has it sleep for a debugger.
HandlerAsserts ==
    /\ \/ hpc = "connect" /\ ~bound
       \/ hpc = "count" /\ ~newEnd
       \/ /\ hpc = "send" /\ hs <= Len(OldListeners) /\ hi > 0
          /\ ~(newEnd /\ open[hs][hi])
    /\ \/ OldGone
       \/ /\ hpc' = "asserting"
          /\ UNCHANGED <<oldVars, mainVars, hs, hi, streamVars, newVars>>

HandlerConnects ==
    /\ hpc = "connect" /\ bound
    /\ hpc' = "count"
    /\ oldEnd' = TRUE /\ newEnd' = TRUE
    /\ UNCHANGED <<oldVars, mainVars, hs, hi, bound, stream, sigVars, newVars>>

\* The number of listeners of the last k servers, and of all.
LastServers(number) ==
    LET sum[k \in 0 .. Len(OldListeners)] ==
            IF k = 0 THEN 0 ELSE sum[k - 1] + number[Len(OldListeners) - k + 1]
    IN  sum
TotalListeners_First == numListeners[1]
TotalListeners == LastServers(numListeners)[Len(OldListeners)]

\* The handler's loop goes through the servers, and in each through the
\* listeners from the last to the first.
LastOf(s) == IF s \in Server THEN numListeners[s] ELSE 0

HandlerWritesCount ==
    /\ hpc = "count"
    /\ IF newEnd
       THEN /\ stream' = Append(stream, Count(TotalListeners))
            /\ hpc' = "send"
            /\ hs' = 1 /\ hi' = LastOf(1)
            /\ UNCHANGED <<oldEnd, shutdownFd>>
       ELSE HandlerFails /\ UNCHANGED <<stream, hs, hi>>
    /\ UNCHANGED <<isRunning, listenersDown, numListeners, open, ignoring,
                   terminating, mainVars, bound, newEnd, sigVars, newVars>>

\* writen() of the address and sendFd() of the descriptor.
HandlerSends ==
    /\ hpc = "send" /\ hs <= Len(OldListeners) /\ hi > 0
    /\ newEnd => open[hs][hi]
    /\ IF newEnd
       THEN /\ stream' = Append(stream, Fd(OldListeners[hs][hi]))
            /\ hi' = hi - 1
            /\ UNCHANGED <<hpc, oldEnd, shutdownFd>>
       ELSE HandlerFails /\ UNCHANGED <<stream, hi>>
    /\ UNCHANGED <<isRunning, listenersDown, numListeners, open, ignoring,
                   terminating, mainVars, hs, bound, newEnd, sigVars, newVars>>

HandlerNextServer ==
    /\ hpc = "send" /\ hs <= Len(OldListeners) /\ hi = 0
    /\ hs' = hs + 1 /\ hi' = LastOf(hs + 1)
    /\ UNCHANGED <<oldVars, mainVars, hpc, streamVars, newVars>>

HandlerDone_LeavesRunning ==
    /\ hpc = "send" /\ hs > Len(OldListeners)
    /\ hpc' = "none"
    /\ ignoring' = TRUE
    /\ shutdownFd' = TRUE
    /\ UNCHANGED <<isRunning, listenersDown, numListeners, open, terminating,
                   mainVars, hs, hi, streamVars, newVars>>
HandlerDone ==
    /\ hpc = "send" /\ hs > Len(OldListeners)
    /\ hpc' = "none"
    /\ IF replace
       THEN /\ ignoring' = TRUE
            /\ shutdownFd' = TRUE
            /\ isRunning' = [s \in Server |-> FALSE]
            /\ UNCHANGED oldEnd
       ELSE /\ oldEnd' = FALSE
            /\ UNCHANGED <<ignoring, shutdownFd, isRunning>>
    /\ UNCHANGED <<listenersDown, numListeners, open, terminating, mainVars, hs, hi,
                   bound, stream, newEnd, sigVars, newVars>>

-----------------------------------------------------------------------------
(* The old process's main thread: the loop over poServer_doNextEvents(),   *)
(* then poServer_shutdown() of each server, and the end of the process.    *)

\* SIGINT, termHandler() with terminate().
termHandler ==
    /\ SigInt /\ opc # "dead"
    /\ IF terminating \/ \E s \in Server : ~isRunning[s]
       THEN OldGone
       ELSE /\ terminating' = TRUE
            /\ isRunning' = [s \in Server |-> FALSE]
            /\ Interrupted
            /\ UNCHANGED <<listenersDown, numListeners, open, shutdownFd, ignoring,
                           cur, slot, handVars, streamVars, newVars>>

OldGoesTo(pc) ==
    /\ opc' = pc
    /\ UNCHANGED <<oldVars, cur, slot, handVars, streamVars, newVars>>

\* poServer_isRunning() is found true and poServer_doNextEvents() called, which
\* comes to epoll_wait() some time later.  That returns when there are events
\* (module Server says what becomes of them) or the wait time is over.
doNextEvents == RunsMain /\ opc = "loop" /\ isRunning[cur] /\ OldGoesTo("events")
EpollWait    == RunsMain /\ opc = "events" /\ OldGoesTo("epoll")
EpollReturns == RunsMain /\ opc = "epoll" /\ OldGoesTo("loop")

\* poServer_isRunning() is found false, and poServer_shutdown() sets the flag
\* that the server's listeners are down.
ShutdownBegins ==
    /\ RunsMain /\ opc = "loop"
    /\ ~isRunning[cur]
    /\ listenersDown' = [listenersDown EXCEPT ![cur] = TRUE]
    /\ opc' = "check"
    /\ UNCHANGED <<isRunning, numListeners, open, shutdownFd, ignoring, terminating,
                   cur, slot, handVars, streamVars, newVars>>

\* _poTato_checkSignalNewServerContinue()
checkSignalNewServerContinue ==
    /\ RunsMain /\ opc = "check"
    /\ IF shutdownFd /\ \A s \in Server : listenersDown[s]
       THEN /\ stream' = IF newEnd THEN Append(stream, EndChar) ELSE stream
            /\ oldEnd' = FALSE
            /\ shutdownFd' = FALSE
       ELSE UNCHANGED <<stream, oldEnd, shutdownFd>>
    /\ opc' = "close" /\ slot' = 1
    /\ UNCHANGED <<isRunning, listenersDown, numListeners, open, ignoring,
                   terminating, cur, handVars, bound, newEnd, sigVars, newVars>>

CloseListener ==
    /\ RunsMain /\ opc = "close" /\ slot <= Len(OldListeners[cur])
    /\ open' = [open EXCEPT ![cur][slot] = FALSE]
    /\ numListeners' = [numListeners EXCEPT ![cur] = @ - 1]
    /\ slot' = slot + 1
    /\ UNCHANGED <<isRunning, listenersDown, shutdownFd, ignoring, terminating, opc,
                   cur, handVars, streamVars, newVars>>

\* The last connections finish (module Server) and the next server's turn
\* comes, or the process ends.
ShutdownEnds ==
    /\ RunsMain /\ opc = "close" /\ slot > Len(OldListeners[cur])
    /\ IF cur < Len(OldListeners)
       THEN /\ cur' = cur + 1
            /\ opc' = "loop"
            /\ UNCHANGED <<oldVars, slot, handVars, streamVars, newVars>>
       ELSE OldGone

OldKilled == "old" \in Kills /\ opc # "dead" /\ OldGone

-----------------------------------------------------------------------------
(* The new process: poTato_signalHandOff(), then poServer_listenerSetup()  *)
(* for each of its listeners.                                              *)

NewGone ==
    /\ npc' = "failed"
    /\ bound' = FALSE /\ newEnd' = FALSE
    /\ handoff' = <<>> /\ mine' = {}

\* bind(), listen() and kill().
SignalOld ==
    /\ npc = "start"
    /\ IF opc = "dead"
       THEN /\ NewGone
            /\ UNCHANGED sigVars
       ELSE /\ npc' = "accept"
            /\ bound' = TRUE
            /\ signal' = TRUE
            /\ replace' \in BOOLEAN
            /\ UNCHANGED <<newEnd, handoff, mine>>
    /\ UNCHANGED <<oldVars, mainVars, handVars, stream, oldEnd, expected, next>>

\* accept(), unlink() and close() of the listening UNIX domain socket.
AcceptOld ==
    /\ npc = "accept" /\ newEnd
    /\ npc' = "count"
    /\ bound' = FALSE
    /\ UNCHANGED <<oldVars, mainVars, handVars, stream, oldEnd, newEnd, sigVars,
                   expected, handoff, mine, next>>

\* readn() blocks until there is something to read or the other end is closed.
Readable == stream # <<>> \/ ~oldEnd

ReadCount ==
    /\ npc = "count" /\ Readable
    /\ IF stream = <<>>
       THEN NewGone /\ UNCHANGED <<stream, expected>>
       ELSE /\ expected' = Head(stream).num
            /\ stream' = Tail(stream)
            /\ npc' = "receive"
            /\ UNCHANGED <<bound, newEnd, handoff, mine>>
    /\ UNCHANGED <<oldVars, mainVars, handVars, oldEnd, sigVars, next>>

\* readn() of the address and recvFd().  The end character is no address, and
\* the end of the stream follows it.
Receive ==
    /\ npc = "receive" /\ Len(handoff) < expected /\ Readable
    /\ IF stream = <<>> \/ Head(stream) = EndChar
       THEN NewGone /\ UNCHANGED stream
       ELSE /\ handoff' = Append(handoff, Head(stream).addr)
            /\ stream' = Tail(stream)
            /\ UNCHANGED <<npc, bound, newEnd, mine>>
    /\ UNCHANGED <<oldVars, mainVars, handVars, oldEnd, sigVars, expected, next>>

ReceivedAll ==
    /\ npc = "receive" /\ Len(handoff) = expected
    /\ IF replace
       THEN npc' = "wait" /\ UNCHANGED newEnd
       ELSE npc' = "setup" /\ newEnd' = FALSE
    /\ UNCHANGED <<oldVars, mainVars, handVars, bound, stream, oldEnd, sigVars,
                   expected, handoff, mine, next>>

\* The old server says that it closed its listeners, or it is gone.
WaitForOld ==
    /\ npc = "wait" /\ Readable
    /\ IF stream = <<>> \/ Head(stream) # EndChar
       THEN NewGone /\ UNCHANGED stream
       ELSE /\ stream' = Tail(stream)
            /\ npc' = "setup"
            /\ newEnd' = FALSE
            /\ UNCHANGED <<bound, handoff, mine>>
    /\ UNCHANGED <<oldVars, mainVars, handVars, oldEnd, sigVars, expected, next>>

\* _poTato_findListenerFd(): the first one with the port; it is taken if the
\* address is the same too, else closed.
SamePort(a) ==
    {i \in 1 .. Len(handoff) :
                   handoff[i] # NoFd /\ handoff[i].port = a.port}
findListenerFd(a) == CHOOSE i \in SamePort(a) : \A j \in SamePort(a) : i <= j

\* socket() and bind(), possible while nothing else listens on the port.
PortFree(a, others) == \A b \in Addr : b.port = a.port => b \notin others
HeldWithout(i) == {b \in Addr : \/ OldHolds(b) \/ b \in mine \/ InFlight(b)
                                \/ \E j \in (1 .. Len(handoff)) \ {i} : handoff[j] = b}

listenerSetup_AlwaysReopens ==
    /\ npc = "setup" /\ next <= Len(NewListeners)
    /\ LET a == NewListeners[next] IN
          IF SamePort(a) # {}
          THEN /\ handoff' = [handoff EXCEPT ![findListenerFd(a)] = NoFd]
               /\ UNCHANGED <<npc, bound, newEnd, mine, next>>
          ELSE IF PortFree(a, HeldWithout(0))
               THEN /\ mine' = mine \cup {a}
                    /\ next' = next + 1
                    /\ UNCHANGED <<npc, bound, newEnd, handoff>>
               ELSE NewGone /\ UNCHANGED next
    /\ UNCHANGED <<oldVars, mainVars, handVars, stream, oldEnd, sigVars, expected>>
listenerSetup ==
    /\ npc = "setup" /\ next <= Len(NewListeners)
    /\ LET a == NewListeners[next]
           i == IF SamePort(a) = {} THEN 0 ELSE findListenerFd(a)
       IN  IF (i # 0 /\ handoff[i] = a) \/ PortFree(a, HeldWithout(i))
           THEN /\ mine' = mine \cup {a}
                /\ handoff' = [j \in DOMAIN handoff |->
                                  IF j = i THEN NoFd ELSE handoff[j]]
                /\ next' = next + 1
                /\ UNCHANGED <<npc, bound, newEnd>>
           ELSE NewGone /\ UNCHANGED next
    /\ UNCHANGED <<oldVars, mainVars, handVars, stream, oldEnd, sigVars, expected>>

\* The last poServer_listenerSetup() calls _poTato_handoffCleanup().
handoffCleanup_Forgets ==
    /\ npc = "setup" /\ next > Len(NewListeners)
    /\ npc' = "running"
    /\ UNCHANGED <<oldVars, mainVars, handVars, streamVars, expected, handoff, mine,
                   next>>
handoffCleanup ==
    /\ npc = "setup" /\ next > Len(NewListeners)
    /\ npc' = "running"
    /\ handoff' = <<>>
    /\ UNCHANGED <<oldVars, mainVars, handVars, streamVars, expected, mine, next>>

NewKilled ==
    /\ "new" \in Kills /\ npc \notin {"start", "failed"}
    /\ NewGone
    /\ UNCHANGED <<oldVars, mainVars, handVars, stream, oldEnd, sigVars, expected, next>>

-----------------------------------------------------------------------------
HandlerStep ==
    \/ HandlerStarts \/ HandlerAsserts \/ HandlerConnects \/ HandlerWritesCount
    \/ HandlerSends \/ HandlerNextServer \/ HandlerDone

OldStep ==
    \/ doNextEvents \/ EpollWait \/ EpollReturns
    \/ ShutdownBegins \/ checkSignalNewServerContinue \/ CloseListener \/ ShutdownEnds

NewStep ==
    \/ SignalOld \/ AcceptOld \/ ReadCount \/ Receive \/ ReceivedAll \/ WaitForOld
    \/ listenerSetup \/ handoffCleanup

Next == HandlerStep \/ OldStep \/ NewStep \/ termHandler \/ OldKilled \/ NewKilled

Spec == Init /\ [][Next]_vars

\* Both processes run when they can, epoll_wait() has a time limit, and the
\* connections that the old server still has finish in the end.
FairSpec ==
    /\ Spec
    /\ WF_vars(HandlerStep) /\ WF_vars(OldStep) /\ WF_vars(NewStep)

-----------------------------------------------------------------------------
(* Properties.                                                             *)

Message == [type : {"count"}, num : Nat] \cup [type : {"fd"}, addr : Addr] \cup {EndChar}

oldTypeOK ==
    /\ isRunning \in [Server -> BOOLEAN] /\ listenersDown \in [Server -> BOOLEAN]
    /\ numListeners \in [Server -> Nat] /\ open \in [Server -> [Slot(1) -> BOOLEAN]]
    /\ \A s \in Server : numListeners[s] <= Len(OldListeners[s])
    /\ shutdownFd \in BOOLEAN /\ ignoring \in BOOLEAN /\ terminating \in BOOLEAN
    /\ opc \in {"loop", "events", "epoll", "check", "close", "dead"}
    /\ cur \in Server /\ slot \in Nat \ {0}
handlerTypeOK ==
    /\ hpc \in {"none", "connect", "count", "send", "asserting"}
    /\ hs \in 1 .. Len(OldListeners) + 1
    /\ hi \in Nat /\ (hs \in Server => hi <= Len(OldListeners[hs]))
streamTypeOK ==
    /\ stream \in Seq(Message) /\ bound \in BOOLEAN /\ oldEnd \in BOOLEAN
    /\ newEnd \in BOOLEAN /\ signal \in BOOLEAN /\ replace \in BOOLEAN
newTypeOK ==
    /\ npc \in {"start", "accept", "count", "receive", "wait", "setup", "running",
                "failed"}
    /\ expected \in Nat /\ handoff \in Seq(Addr \cup {NoFd}) /\ mine \subseteq Addr
    /\ next \in Nat \ {0}

\* Every variable has a value of its type, and no listener is counted out twice.
TypeOK == oldTypeOK /\ handlerTypeOK /\ streamTypeOK /\ newTypeOK

\* The point of handing sockets off instead of opening them again: from the
\* moment the old server is told to shut down for the new one, an address that
\* both serve has a listening socket without interruption, unless the new
\* server fails or the old one was stopped by SIGINT before.
NoDowntime ==
    ~terminating /\ npc # "failed" /\ (shutdownFd \/ npc \in {"wait", "setup", "running"})
        => \A a \in OldAddr \cap NewAddr : Listening(a)

\* Once it runs, the new server holds the sockets that it serves and no other
\* one of those it was handed: nothing would ever accept() from them.
OnlyItsOwnSockets ==
    npc = "running" => {a \in Addr : NewHolds(a)} = NewAddr

\* What the handler says it will send is what it sends: the new process never
\* takes the go-ahead, or the end of the stream, for a socket.
ProtocolInStep ==
    stream # <<>> =>
        /\ npc = "count" => Head(stream).type = "count"
        /\ npc = "receive" /\ Len(handoff) < expected => Head(stream).type = "fd"
        /\ npc = "wait" => Head(stream).type = "end"

\* A new process that got through to the old one never hangs: it runs or
\* fails, also when the old one is killed in the middle.  The exception is an
\* old process that sleeps in an ASSERT, which keeps its end open: recvFd() and
\* readn() of the new one have no time limit.
NewServerDecides ==
    newEnd ~> npc \in {"running", "failed"} \/ hpc = "asserting"

\* "We must get all listeners closed before the other server is allowed to
\* continue running" (passListeners()).
ClosedBeforeContinue ==
    replace /\ npc = "setup" => \A a \in OldAddr : ~OldHolds(a)

-----------------------------------------------------------------------------
(* The inductive invariant, which Handoff_proofs shows to hold.            *)

Talking  == npc \in {"accept", "count", "receive", "wait"}
HasCount == npc \in {"accept", "count"}
HasEnd   == stream # <<>> /\ stream[Len(stream)] = EndChar

\* The handler has written the number of sockets.
Begun == stream # <<>> \/ npc \in {"receive", "wait"}

\* What the new process is or will be told to expect, what it has, how many sockets
\* are on their way, and how many the handler has still to send when the servers
\* have that number of listeners and it is at listener i of server s.
Total  == IF HasCount THEN Head(stream).num ELSE expected
OnWay  == Len(stream) - (IF HasCount THEN 1 ELSE 0) - (IF HasEnd THEN 1 ELSE 0)
ToSend(number, s, i) == IF s > Len(OldListeners) THEN 0
                        ELSE i + LastServers(number)[Len(OldListeners) - s]
AllListeners == [s \in Server |-> Len(OldListeners[s])]

\* The flag is set for all servers, and no listener is closed before it is.
AllRunning == \A s \in Server : isRunning[s]
ClosingInStep ==
    /\ AllRunning \/ \A s \in Server : ~isRunning[s]
    /\ AllRunning => cur = 1 /\ opc \notin {"check", "close"}
                     /\ numListeners = AllListeners
    /\ opc = "close" => numListeners[cur] >= Len(OldListeners[cur]) + 1 - slot
    /\ opc \in {"loop", "events", "epoll", "check"} =>
          numListeners[cur] >= Len(OldListeners[cur])
    /\ opc # "dead" => \A s \in Server : s > cur => numListeners[s] >= Len(OldListeners[s])

\* The handler runs once, after it was signalled, and only it or SIGINT stops the
\* servers.
HandlerInStep ==
    /\ npc = "start" => ~signal /\ hpc = "none" /\ stream = <<>> /\ ~newEnd /\ ~shutdownFd
    /\ signal => hpc = "none"
    /\ signal \/ hpc = "connect" =>
          stream = <<>> /\ ~shutdownFd /\ ~newEnd /\ npc \in {"accept", "failed"}
    /\ hpc = "count" =>
          stream = <<>> /\ ~shutdownFd /\ npc \in {"accept", "count", "failed"}
    /\ hpc = "send" => ~shutdownFd
    /\ shutdownFd => hs > Len(OldListeners)
    /\ ~terminating /\ (npc = "start" \/ signal \/ hpc # "none") => AllRunning

\* The number comes first and the end character last.
StreamInStep ==
    /\ Talking =>
          \A i \in 1 .. Len(stream) :
             /\ stream[i].type = "count" <=> i = 1 /\ HasCount
             /\ stream[i].type = "end" => i = Len(stream)
    /\ Talking /\ (Begun \/ npc = "count") => newEnd

\* The sockets on their way, and those to come, are those that are expected.
CountInStep ==
    Talking =>
        /\ Begun => Len(handoff) + OnWay <= Total
        /\ hpc = "send" => /\ Begun /\ ~HasEnd
                           /\ Len(handoff) + OnWay + ToSend(numListeners, hs, hi) = Total
        /\ shutdownFd \/ HasEnd => Begun /\ Len(handoff) + OnWay = Total
        /\ shutdownFd => ~HasEnd
        /\ npc = "wait" => Len(handoff) = expected

\* What the handler has sent is with the new process or on its way.
Passed(s, i) == s < hs \/ (s = hs /\ i > hi)
SocketsKept ==
    /\ ~terminating /\ Talking /\ Begun =>
          /\ Len(handoff) + OnWay + ToSend(AllListeners, hs, hi) = Total
          /\ \A s \in Server : \A i \in Slot(s) : Passed(s, i) =>
                \/ \E j \in 1 .. Len(handoff) : handoff[j] = OldListeners[s][i]
                \/ \E j \in 1 .. Len(stream) : stream[j] = Fd(OldListeners[s][i])
    /\ ~terminating /\ npc = "setup" =>
          \A a \in OldAddr \cap NewAddr :
             a \in mine \/ \E j \in 1 .. Len(handoff) : handoff[j] = a

\* The listeners are set up in order.
SetupInStep ==
    /\ npc # "failed" => mine = {NewListeners[j] : j \in 1 .. next - 1}
    /\ next <= Len(NewListeners) + 1
    /\ npc \notin {"setup", "running", "failed"} => next = 1
    /\ npc \in {"start", "accept", "count"} => handoff = <<>>
    /\ npc = "running" => next = Len(NewListeners) + 1 /\ handoff = <<>>

IInv ==
    /\ TypeOK /\ ClosingInStep /\ HandlerInStep /\ StreamInStep /\ CountInStep
    /\ SocketsKept /\ SetupInStep
=============================================================================
