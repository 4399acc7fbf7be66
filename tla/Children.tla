------------------------------ MODULE Children ------------------------------
(***************************************************************************)
(* The forked servers of potato_old/potato.c (--fork): poTato_fork(), the  *)
(* SIGCHLD handler, and poTato_removeChildren(), in the order in which the *)
(* main() of service_test.c and of http_test.c calls them.                 *)
(*                                                                         *)
(* The parent is one thread.  Its SIGCHLD handler runs between any two of  *)
(* its steps, and before the next one once the signal is pending: a step   *)
(* is therefore at most one access to what the handler shares, namely      *)
(* childPids, numChildren and exitStatus.  SIGCHLD is not queued: while    *)
(* one is pending a second is dropped.  The children run all the time.     *)
(*                                                                         *)
(* A failed ASSERT() does not return (it exits, or sleeps for ever), so    *)
(* the code after the labels parentFail1 and parentFail2 is never reached. *)
(*                                                                         *)
(* A definition Name_Fault stands before Name and is Name with a fault     *)
(* seeded; the mutants of PROJECT.json use it to show that a property      *)
(* would notice.                                                           *)
(***************************************************************************)
EXTENDS Integers, Sequences, FiniteSetsExt

CONSTANTS
    NumForks,   \* the largest argument of --fork
    MaxStatus,  \* 255, where the sum of exit statuses stops
    Status,     \* the statuses with which a child returns from main()
    MaxSigInt   \* bound: SIGINTs from the terminal or from kill(1)

ASSUME ChildrenAssumption ==
    /\ NumForks \in Nat /\ MaxSigInt \in Nat
    /\ MaxStatus \in Nat \ {0} /\ Status \subseteq 0 .. MaxStatus

Child == 1 .. NumForks   \* a child is known by its pid, the order of forking
Gone  == 0               \* a pid replaced by -1
Junk  == -1              \* memory that realloc() did not initialize: the handler
                         \* may clear it if it looks like a pid, StorePid sets it
                         \* in either case

VARIABLES
    \* the parent, struct POTato po
    left,        \* numForks of poTato_doOptionsFork(): forks to do
    childPids,   \* po.childPids, <<>> for NULL
    numChildren, \* po.numChildren
    exitStatus,  \* po.exitStatus
    terminating, \* po.terminating, after SIGINT
    replaced,    \* isRunning of its servers was cleared by passListeners()
    pc,          \* where its main thread is
    pid, cur,    \* locals: the child at hand, and i + 1 of the loop
    newPids,     \* the array that realloc() made
    status, sum, \* what waitpid() gave, and exitStatus as it was read
    \* the signals
    sigChld,     \* the pending SIGCHLD, NoSignal if there is none
    sigInts,     \* SIGINTs sent from outside
    \* the children
    child,       \* "none", "starting", "up", "stopped", "zombie" or "reaped"
    ints,        \* 1 if its servers are to end, 2 if a SIGINT came after that
    how,         \* how it ended: -1 killed by a signal, else its status
    pipe         \* the pipe of the fork at hand: "open", "written", "closed"

listVars  == <<childPids, numChildren>>
stopVars  == <<terminating, replaced>>
localVars == <<pid, cur, newPids, status, sum>>
sigVars   == <<sigChld, sigInts>>
childVars == <<child, ints, how>>
vars == <<left, listVars, exitStatus, stopVars, pc, localVars, sigVars,
          childVars, pipe>>

NoSignal == [from |-> 0, code |-> "none"]
Killed   == -1

Init ==
    /\ left \in 0 .. NumForks
    /\ childPids = <<>> /\ numChildren = 0 /\ exitStatus = 0
    /\ terminating = FALSE /\ replaced = FALSE
    /\ pc = "fork" /\ pid = 0 /\ cur = 0 /\ newPids = <<>> /\ status = 0 /\ sum = 0
    /\ sigChld = NoSignal /\ sigInts = 0
    /\ child = [c \in Child |-> "none"]
    /\ ints = [c \in Child |-> 0] /\ how = [c \in Child |-> 0]
    /\ pipe = "closed"

Alive(c)  == child[c] \in {"starting", "up", "stopped"}
Capped(n) == Min({n, MaxStatus})

\* SIGCHLD from c: a signal that is pending already stays as it is.
Notify(c, code) ==
    sigChld' = IF sigChld = NoSignal THEN [from |-> c, code |-> code] ELSE sigChld

\* The parent has ended; its children may still be there.
ParentRuns == pc \notin {"return", "aborted"}
\* A pending signal is delivered before the main thread goes on.
MainAt(p) == pc = p /\ sigChld = NoSignal
Goto(p)   == pc' = p
\* The places of poTato_fork().
Forking == pc \in {"fork", "readPipe", "grow", "realloc", "assign", "store"}

-----------------------------------------------------------------------------
(* poTato_doOptionsFork() and poTato_fork() in the parent.                 *)

\* fork() in the parent.  The child is a copy, po.terminating and isRunning
\* included.
Fork ==
    /\ MainAt("fork") /\ left > 0
    /\ LET c == CHOOSE k \in Child : child[k] = "none" /\ \A j \in 1 .. k - 1 : child[j] # "none"
       IN  /\ pid' = c
           /\ child' = [child EXCEPT ![c] = "starting"]
           /\ ints' = [ints EXCEPT ![c] = IF terminating \/ replaced THEN 1 ELSE 0]
    /\ left' = left - 1
    /\ pipe' = "open"
    /\ Goto("readPipe")
    /\ UNCHANGED <<listVars, exitStatus, stopVars, cur, newPids, status, sum,
                   sigVars, how>>

\* The child wrote its character, or the read() finds the pipe closed, which
\* the ASSERT() does not survive.
ReadPipe_KeepsWriter ==
    /\ MainAt("readPipe") /\ pipe = "written"
    /\ Goto("grow")
    /\ UNCHANGED <<left, listVars, exitStatus, stopVars, localVars, sigVars,
                   childVars, pipe>>

ReadPipe ==
    /\ MainAt("readPipe") /\ pipe # "open"
    /\ Goto(IF pipe = "written" THEN "grow" ELSE "aborted")
    /\ UNCHANGED <<left, listVars, exitStatus, stopVars, localVars, sigVars,
                   childVars, pipe>>

\* childPids = realloc(childPids, sizeof(pid_t)*(++numChildren)), in the order
\* in which memory changes: the count, the copy, the pointer.
CountChild ==
    /\ MainAt("grow")
    /\ numChildren' = numChildren + 1
    /\ Goto("realloc")
    /\ UNCHANGED <<left, childPids, exitStatus, stopVars, localVars, sigVars,
                   childVars, pipe>>

Realloc ==
    /\ MainAt("realloc")
    /\ newPids' = Append(childPids, Junk)
    /\ Goto("assign")
    /\ UNCHANGED <<left, listVars, exitStatus, stopVars, pid, cur, status, sum,
                   sigVars, childVars, pipe>>

AssignPids ==
    /\ MainAt("assign")
    /\ childPids' = newPids
    /\ newPids' = <<>>
    /\ Goto("store")
    /\ UNCHANGED <<left, numChildren, exitStatus, stopVars, pid, cur, status, sum,
                   sigVars, childVars, pipe>>

StorePid ==
    /\ MainAt("store")
    /\ childPids' = [childPids EXCEPT ![numChildren] = pid]
    /\ Goto("fork")
    /\ UNCHANGED <<left, numChildren, exitStatus, stopVars, localVars, sigVars,
                   childVars, pipe>>

\* All forks are done: the loop of main() around poServer_doNextEvents().
Serve ==
    /\ MainAt("fork") /\ left = 0
    /\ Goto("serving")
    /\ UNCHANGED <<left, listVars, exitStatus, stopVars, localVars, sigVars,
                   childVars, pipe>>

-----------------------------------------------------------------------------
(* The parent's signal handlers.                                           *)

\* A handler interrupts read(), which may already be waiting (EINTR; there is
\* no SA_RESTART), or not yet.
InterruptsRead ==
    pc' \in IF pc = "readPipe" /\ pipe = "open" THEN {pc, "aborted"} ELSE {pc}

\* removePidFromChildList(): goes through numChildren entries of childPids.
\* What it finds behind the array's end, or in an entry not yet written, is not
\* a pid of this module: a match there changes nothing that is read later.
removePidFromChildList(p) ==
    childPids' = [i \in DOMAIN childPids |->
                     IF childPids[i] = p THEN Gone ELSE childPids[i]]

sigChildHandler_Stops ==
    /\ ParentRuns /\ sigChld # NoSignal
    /\ IF childPids = <<>> /\ numChildren > 0
       THEN Goto("aborted") /\ UNCHANGED childPids
       ELSE removePidFromChildList(sigChld.from) /\ InterruptsRead
    /\ exitStatus' = IF sigChld.code = "killed" THEN Capped(exitStatus + 1) ELSE exitStatus
    /\ sigChld' = NoSignal
    /\ UNCHANGED <<left, numChildren, stopVars, localVars, sigInts, childVars, pipe>>

sigChildHandler_Reaps ==
    /\ ParentRuns /\ sigChld # NoSignal
    /\ UNCHANGED childPids /\ InterruptsRead
    /\ child' = [child EXCEPT ![sigChld.from] = IF @ = "zombie" THEN "reaped" ELSE @]
    /\ exitStatus' = IF sigChld.code = "killed" THEN Capped(exitStatus + 1) ELSE exitStatus
    /\ sigChld' = NoSignal
    /\ UNCHANGED <<left, numChildren, stopVars, localVars, sigInts, ints, how, pipe>>

sigChildHandler_CountsExits ==
    /\ ParentRuns /\ sigChld # NoSignal
    /\ UNCHANGED childPids /\ InterruptsRead
    /\ exitStatus' = CASE sigChld.code = "killed" -> Capped(exitStatus + 1)
                       [] sigChld.code = "exited" -> Capped(exitStatus + how[sigChld.from])
                       [] OTHER -> exitStatus
    /\ sigChld' = NoSignal
    /\ UNCHANGED <<left, numChildren, stopVars, localVars, sigInts, childVars, pipe>>

\* SIGCHLD.  A child that was killed counts 1; a child that exited is only
\* taken from the list; one that stopped or goes on is left alone.  Before the
\* first realloc() returned, and after the last free(), the array is NULL.
sigChildHandler ==
    /\ ParentRuns /\ sigChld # NoSignal
    /\ sigChld' = NoSignal
    /\ exitStatus' = IF sigChld.code = "killed" THEN Capped(exitStatus + 1) ELSE exitStatus
    /\ \/ /\ sigChld.code \in {"killed", "exited"}
          /\ IF childPids = <<>> /\ numChildren > 0
             THEN Goto("aborted") /\ UNCHANGED childPids
             ELSE removePidFromChildList(sigChld.from) /\ InterruptsRead
       \/ /\ sigChld.code \notin {"killed", "exited"}
          /\ InterruptsRead /\ UNCHANGED childPids
    /\ UNCHANGED <<left, numChildren, stopVars, localVars, sigInts, childVars, pipe>>

\* The pid was signalled n times: a signal that is pending (in a process that
\* is stopped) and comes again is one signal.
Signalled(c) ==
    ints'[c] \in IF child[c] = "stopped" /\ ints[c] > 0
                 THEN {ints[c], Min({ints[c] + 1, 2})}
                 ELSE {Min({ints[c] + 1, 2})}

\* po.servers is not empty: poServer_destroy() takes the servers out of it.
HasServers == Forking \/ pc = "serving"

\* SIGUSR1 or SIGUSR2, by which another server takes the listeners over (module
\* Handoff has the exchange).  After SIGUSR1 the servers are to end, and both
\* signals are ignored from then on; SIGUSR2, and a hand-over that fails, change
\* nothing here; and an ASSERT() of the handler may fail.
passListeners ==
    /\ ParentRuns /\ ~replaced
    /\ \/ HasServers /\ replaced' = TRUE /\ InterruptsRead
       \/ UNCHANGED replaced /\ InterruptsRead
       \/ UNCHANGED replaced /\ Goto("aborted")
    /\ UNCHANGED <<left, listVars, exitStatus, terminating, localVars, sigVars,
                   childVars, pipe>>

\* SIGINT from outside, to the parent (kill) or to the whole process group
\* (the terminal).  termHandler() and terminate(): the first makes the servers
\* end, and ends the process if a server was to end already; the second ends it.
termHandler(everyone) ==
    /\ ParentRuns /\ sigInts < MaxSigInt
    /\ sigInts' = sigInts + 1
    /\ terminating' = TRUE
    /\ IF terminating \/ (replaced /\ HasServers) THEN Goto("aborted") ELSE InterruptsRead
    /\ ints' \in [Child -> 0 .. 2]
    /\ \A c \in Child : IF everyone /\ Alive(c) THEN Signalled(c) ELSE ints'[c] = ints[c]
    /\ UNCHANGED <<left, listVars, exitStatus, replaced, localVars, sigChld, child, how,
                   pipe>>

-----------------------------------------------------------------------------
(* poTato_removeChildren().                                                *)

\* isRunning became false, in terminate() or in passListeners(); main() has been
\* through poServer_shutdown() and poServer_destroy().
removeChildren ==
    /\ MainAt("serving") /\ (terminating \/ replaced)
    /\ cur' = numChildren
    /\ Goto(IF childPids = <<>> THEN "return" ELSE "pick")
    /\ UNCHANGED <<left, listVars, exitStatus, stopVars, pid, newPids, status, sum,
                   sigVars, childVars, pipe>>

\* pid = childPids[i]: a child that the handler removed is passed over.
PickChild ==
    /\ MainAt("pick") /\ cur > 0
    /\ pid' = childPids[cur]
    /\ \/ childPids[cur] = Gone /\ cur' = cur - 1 /\ UNCHANGED pc
       \/ childPids[cur] # Gone /\ Goto("kill") /\ UNCHANGED cur
    /\ UNCHANGED <<left, listVars, exitStatus, stopVars, newPids, status, sum,
                   sigVars, childVars, pipe>>

KillChild_NoSignal ==
    /\ MainAt("kill")
    /\ Goto("check")
    /\ UNCHANGED <<left, listVars, exitStatus, stopVars, localVars, sigVars,
                   childVars, pipe>>

\* kill(pid, SIGINT); a zombie takes no notice.
KillChild ==
    /\ MainAt("kill")
    /\ ints' \in [Child -> 0 .. 2]
    /\ \A c \in Child : IF c = pid /\ Alive(c) THEN Signalled(c) ELSE ints'[c] = ints[c]
    /\ Goto("check")
    /\ UNCHANGED <<left, listVars, exitStatus, stopVars, localVars, sigVars,
                   child, how, pipe>>

\* The child may have ended meanwhile; it is then not waited for.
CheckChild ==
    /\ MainAt("check")
    /\ \/ childPids[cur] = Gone /\ cur' = cur - 1 /\ Goto("pick")
       \/ childPids[cur] # Gone /\ Goto("wait") /\ UNCHANGED cur
    /\ UNCHANGED <<left, listVars, exitStatus, stopVars, pid, newPids, status, sum,
                   sigVars, childVars, pipe>>

\* waitpid(), called again for EINTR.  WEXITSTATUS of a killed child is 0.
WaitChild ==
    /\ MainAt("wait") /\ child[pid] = "zombie"
    /\ child' = [child EXCEPT ![pid] = "reaped"]
    /\ status' = IF how[pid] = Killed THEN 0 ELSE how[pid]
    /\ Goto("count")
    /\ UNCHANGED <<left, listVars, exitStatus, stopVars, pid, cur, newPids, sum,
                   sigVars, ints, how, pipe>>

\* exitStatus is read, if the child failed and the handler did not remove it,
CountStatus ==
    /\ MainAt("count")
    /\ \/ status # 0 /\ childPids[cur] # Gone /\ Goto("add") /\ sum' = exitStatus
       \/ (status = 0 \/ childPids[cur] = Gone) /\ Goto("clear") /\ UNCHANGED sum
    /\ UNCHANGED <<left, listVars, exitStatus, stopVars, pid, cur, newPids, status,
                   sigVars, childVars, pipe>>

\* and written.
AddStatus ==
    /\ MainAt("add")
    /\ exitStatus' = Capped(sum + status)
    /\ Goto("clear")
    /\ UNCHANGED <<left, listVars, stopVars, localVars, sigVars, childVars, pipe>>

ClearPid ==
    /\ MainAt("clear")
    /\ childPids' = [childPids EXCEPT ![cur] = Gone]
    /\ cur' = cur - 1
    /\ Goto("pick")
    /\ UNCHANGED <<left, numChildren, exitStatus, stopVars, pid, newPids, status, sum,
                   sigVars, childVars, pipe>>

\* free(childPids); childPids = NULL,
FreePids ==
    /\ MainAt("pick") /\ cur = 0
    /\ childPids' = <<>>
    /\ Goto("zero")
    /\ UNCHANGED <<left, numChildren, exitStatus, stopVars, localVars, sigVars,
                   childVars, pipe>>

\* numChildren = 0, and main() returns exitStatus.
ZeroChildren ==
    /\ MainAt("zero")
    /\ numChildren' = 0
    /\ Goto("return")
    /\ UNCHANGED <<left, childPids, exitStatus, stopVars, localVars, sigVars,
                   childVars, pipe>>

-----------------------------------------------------------------------------
(* The children.                                                           *)

\* The end of the pipe that a child of the fork at hand holds goes with it.
PipeOf(c) == pipe' = IF c = pid /\ pipe = "open" THEN "closed" ELSE pipe

parentOnly == <<left, listVars, exitStatus, stopVars, pc, localVars, sigInts>>

Ends(c, result, code) ==
    /\ child' = [child EXCEPT ![c] = "zombie"]
    /\ how' = [how EXCEPT ![c] = result]
    /\ Notify(c, code)
    /\ PipeOf(c)
    /\ UNCHANGED <<parentOnly, ints>>

\* The child has a new epoll with its listeners in it, and tells the parent.
\* Its write() would fail, and so does it, if the parent is gone.
ChildUp(c) ==
    /\ child[c] = "starting" /\ ParentRuns
    /\ child' = [child EXCEPT ![c] = "up"]
    /\ pipe' = "written"
    /\ UNCHANGED <<parentOnly, sigChld, ints, how>>

\* An ASSERT() of the child fails, or exit(1) at its end.
ChildFails(c) ==
    /\ child[c] = "starting"
    /\ Ends(c, 1, "exited")

\* The second SIGINT: exit(1) of termHandler().
ChildExits(c) ==
    /\ child[c] \in {"starting", "up"} /\ ints[c] = 2
    /\ Ends(c, 1, "exited")

\* The child's servers end after the first SIGINT, and main() returns.
ChildReturns(c) ==
    /\ child[c] = "up" /\ ints[c] > 0
    /\ \E s \in Status : Ends(c, s, "exited")

\* passListeners() of the child: its servers are to end, as after a first SIGINT.
ChildReplaced(c) ==
    /\ child[c] \in {"starting", "up"} /\ ints[c] = 0
    /\ ints' = [ints EXCEPT ![c] = 1]
    /\ UNCHANGED <<parentOnly, sigChld, child, how, pipe>>

\* SIGKILL or SIGSEGV, from outside or of the child's own making.
ChildKilled(c) ==
    /\ Alive(c)
    /\ Ends(c, Killed, "killed")

ChildStops(c) ==
    /\ child[c] = "up"
    /\ child' = [child EXCEPT ![c] = "stopped"]
    /\ Notify(c, "stopped")
    /\ UNCHANGED <<parentOnly, ints, how, pipe>>

ChildContinues(c) ==
    /\ child[c] = "stopped"
    /\ child' = [child EXCEPT ![c] = "up"]
    /\ Notify(c, "continued")
    /\ UNCHANGED <<parentOnly, ints, how, pipe>>

-----------------------------------------------------------------------------
Parent ==
    \/ Fork \/ ReadPipe \/ CountChild \/ Realloc \/ AssignPids \/ StorePid \/ Serve
    \/ removeChildren \/ PickChild \/ KillChild \/ CheckChild \/ WaitChild
    \/ CountStatus \/ AddStatus \/ ClearPid \/ FreePids \/ ZeroChildren

Next ==
    \/ Parent
    \/ sigChildHandler \/ passListeners
    \/ \E everyone \in BOOLEAN : termHandler(everyone)
    \/ \E c \in Child :
          \/ ChildUp(c) \/ ChildFails(c) \/ ChildExits(c) \/ ChildReturns(c)
          \/ ChildReplaced(c) \/ ChildKilled(c) \/ ChildStops(c) \/ ChildContinues(c)

Spec == Init /\ [][Next]_vars

\* The parent and its handler run on, and signals do not come so fast that the
\* parent never gets between two of them.  A child starts or fails, a stopped child
\* is one day continued, and one that was told to end ends, however often it is
\* stopped before.
FairSpec ==
    /\ Spec
    /\ SF_vars(Parent) /\ WF_vars(sigChildHandler)
    /\ \A c \in Child : /\ WF_vars(ChildUp(c) \/ ChildFails(c))
                        /\ WF_vars(ChildContinues(c))
                        /\ SF_vars(ChildExits(c) \/ ChildReturns(c))

-----------------------------------------------------------------------------
(* Properties.                                                             *)

PidList == Seq(Child \cup {Gone, Junk})

listTypeOK ==
    /\ childPids \in PidList /\ Len(childPids) <= NumForks
    /\ newPids \in PidList /\ Len(newPids) <= NumForks

parentTypeOK ==
    /\ left \in 0 .. NumForks /\ numChildren \in 0 .. NumForks
    /\ exitStatus \in 0 .. MaxStatus /\ sum \in 0 .. MaxStatus /\ status \in 0 .. MaxStatus
    /\ pc \in {"fork", "readPipe", "grow", "realloc", "assign", "store", "serving",
               "pick", "kill", "check", "wait", "count", "add", "clear", "zero",
               "return", "aborted"}
    /\ pid \in Child \cup {Gone} /\ cur \in 0 .. NumForks

childTypeOK ==
    /\ sigChld \in {NoSignal} \cup
          [from : Child, code : {"killed", "exited", "stopped", "continued"}]
    /\ sigInts \in 0 .. MaxSigInt
    /\ child \in [Child -> {"none", "starting", "up", "stopped", "zombie", "reaped"}]
    /\ ints \in [Child -> 0 .. 2] /\ how \in [Child -> {Killed} \cup 0 .. MaxStatus]
    /\ pipe \in {"open", "written", "closed"}

stopTypeOK == terminating \in BOOLEAN /\ replaced \in BOOLEAN

\* The types.
TypeOK == listTypeOK /\ parentTypeOK /\ childTypeOK /\ stopTypeOK

Removing == pc \in {"pick", "kill", "check", "wait", "count", "add", "clear"}

\* A child that still runs is in the list, before the place the removal has
\* reached, from the end of the forks on; so when removeChildren() frees the list
\* none is left running, whatever the handler did to the list meanwhile.
NoChildLeftBehind ==
    /\ pc = "serving" => \A c \in Child : Alive(c) => \E i \in DOMAIN childPids : childPids[i] = c
    /\ Removing => \A c \in Child : Alive(c) =>
                      \E i \in 1 .. cur : childPids[i] = c
    /\ pc \in {"zero", "return"} => \A c \in Child : ~Alive(c)

\* The pid that removeChildren() signals, and waits for, is a child that was not
\* waited for before: it can be nobody else's pid, and waitpid() does return.
KillsOnlyItsOwn ==
    pc \in {"kill", "check", "wait"} => pid \in Child /\ child[pid] \notin {"none", "reaped"}

\* What a child that ended contributes to the sum of return codes.
Code(c) == IF ~Alive(c) /\ child[c] # "none"
           THEN IF how[c] = Killed THEN 1 ELSE how[c]
           ELSE 0
Sum(code) ==
    LET of[n \in 0 .. NumForks] == IF n = 0 THEN 0 ELSE of[n - 1] + code[n]
    IN  of[NumForks]
SumOfCodes == Sum([c \in Child |-> Code(c)])

\* No child is counted twice, once by the handler and once by removeChildren(),
\* and the sum never exceeds MaxStatus, whichever of the two adds to it last.
NeverOvercounts == exitStatus <= Capped(SumOfCodes)

\* potato.h says of poTato_removeChildren() that it "returns status which is sum
\* of return codes. max at 255".
StatusIsSum == pc = "return" => exitStatus = Capped(SumOfCodes)

\* A fork comes to a decision: the parent goes on or gives up, whenever the
\* child dies.
ForkDecides == pc = "readPipe" ~> pc # "readPipe"

\* removeChildren() returns, or the process is ended by a second SIGINT, even if
\* children stop, die, or are signalled by the terminal before.
RemovalReturns == Removing ~> pc \in {"return", "aborted"}
-----------------------------------------------------------------------------
(* The inductive invariant.                                                *)

Ended(c) == child[c] \in {"zombie", "reaped"}

\* The places of poTato_fork() where numChildren is behind fork(), or childPids
\* behind numChildren.
Forked  == IF pc \in {"readPipe", "grow"} THEN numChildren + 1 ELSE numChildren
Listed  == IF pc \in {"realloc", "assign"} THEN numChildren - 1 ELSE numChildren

\* The children are forked in order, as many as were asked for, and the one at
\* hand is the last.
ForkedInOrder ==
    /\ Forking \/ pc = "serving" \/ Removing \/ pc = "zero" =>
          \A c \in Child : child[c] # "none" <=> c <= Forked
    /\ Forking => Forked + left <= NumForks
    /\ pc \in {"readPipe", "grow", "realloc", "assign", "store"} =>
          pid = Forked /\ pid \in Child

\* Each child has its own entry, and an entry is cleared only after its child
\* ended: also in the copy that realloc() makes while the handler may run.
Entries(p, n) == \A i \in 1 .. n : p[i] = i \/ (p[i] = Gone /\ Ended(i))
ListInStep ==
    /\ pc \in {"fork", "readPipe", "grow", "realloc", "assign", "serving"} \/ Removing =>
          Len(childPids) = Listed /\ Entries(childPids, Listed)
    /\ pc = "assign" => Len(newPids) = numChildren /\ Entries(newPids, numChildren - 1)
    /\ pc = "store" => Len(childPids) = numChildren /\ Entries(childPids, numChildren - 1)
    /\ pc \in {"zero", "return"} => childPids = <<>>

\* A child that the pending SIGCHLD calls dead is dead.
SignalIsTrue == sigChld.code \in {"killed", "exited"} => Ended(sigChld.from)

\* The removal goes downwards: what is above it is dead, and what waitpid() got
\* is above it or at hand.
RemovedAbove ==
    /\ Forking \/ pc = "serving" => \A c \in Child : child[c] # "reaped"
    /\ Removing =>
          /\ cur <= numChildren
          /\ \A c \in Child : c > cur => ~Alive(c)
          /\ \A c \in Child : c < cur => child[c] # "reaped"
    /\ pc \in {"kill", "check", "wait"} => cur > 0 /\ pid = cur /\ child[cur] # "reaped"
    /\ pc = "pick" /\ cur > 0 => child[cur] # "reaped"
    /\ pc \in {"count", "add", "clear"} => cur > 0 /\ pid = cur /\ child[cur] = "reaped"
    /\ pc \in {"zero", "return"} => \A c \in Child : ~Alive(c)

\* What a child has contributed to exitStatus so far, at most: nothing before
\* the handler ran for its death by a signal, or removeChildren() came past it.
\* An addition may get lost, but none is made twice.
Past(c) ==
    \/ pc \in {"zero", "return", "aborted"}
    \/ Removing /\ (c > cur \/ (c = cur /\ pc = "clear"))
Unseen(c) == sigChld = [from |-> c, code |-> "killed"]
Counted ==
    [c \in Child |->
       IF ~Ended(c) THEN 0
       ELSE IF how[c] = Killed THEN IF Unseen(c) THEN 0 ELSE 1
       ELSE IF Past(c) THEN how[c] ELSE 0]
CountedOnce == exitStatus <= Sum(Counted)

\* What is about to be added is the status of the child at hand, to a sum that
\* may be behind exitStatus.
AddsInStep ==
    /\ pc \in {"count", "add"} => status = IF how[pid] = Killed THEN 0 ELSE how[pid]
    /\ pc = "add" => status # 0 /\ sum <= exitStatus
    /\ \A c \in Child : Unseen(c) => how[c] = Killed

IInv ==
    /\ TypeOK /\ ForkedInOrder /\ ListInStep /\ SignalIsTrue /\ RemovedAbove
    /\ CountedOnce /\ AddsInStep
=============================================================================
