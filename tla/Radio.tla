-------------------------------- MODULE Radio -------------------------------
(***************************************************************************)
(* The threads of crts_radio (lanceman2_crts/bin): main(), the RX thread   *)
(* that receives and writes to the output module, the TX thread that reads *)
(* from the input module and transmits, and the signal SIGINT with which   *)
(* the user, or a module through crtsExit(), ends them.                    *)
(*                                                                         *)
(* The two loop flags are atomic and each is read by one thread, so that   *)
(* every read is a step and the handler's two writes are one.  The build   *)
(* is that of bin/GNUmakefile, with -DDEBUG and -DSPEW_LEVEL_DEBUG: a       *)
(* DASSERT that fails puts its thread to sleep, and DSPEW locks a mutex.    *)
(* The radio is here by what it was told: whether it streams to the host,  *)
(* and whether a burst that was begun is still open.                       *)
(*                                                                         *)
(* A definition Name_Fault stands before Name and is Name with a fault     *)
(* seeded; the mutants of PROJECT.json use it to show that a property      *)
(* would notice.                                                           *)
(***************************************************************************)
EXTENDS Naturals, FiniteSets

CONSTANT MaxSigInt   \* bound: SIGINTs from the terminal

ASSUME MaxSigIntAssumption == MaxSigInt \in Nat

VARIABLES
    hasRx, hasTx,    \* an output module, an input module was asked for
    main, rx, tx,    \* where the threads are
    modules,         \* the modules: "none", "loaded" or "destroyed"
    blocked,         \* main() has SIGINT blocked
    pending,         \* SIGINT is pending
    sigInts,         \* SIGINTs from the terminal so far
    caught,          \* the handler ran to its end; SA_RESETHAND took it out
    isRXLooping, isTXLooping,
    fftw,            \* who has fftw3_mutex
    arrived,         \* who came to the barrier
    streaming,       \* the radio streams samples to the host
    burst,           \* the transmission: "none", "open" or "ended"
    late             \* frames begun after the handler ran, up to LateCap

envVars   == <<hasRx, hasTx, modules, sigInts>>
sigVars   == <<blocked, pending, caught>>
flagVars  == <<isRXLooping, isTXLooping>>
radioVars == <<streaming, burst, late>>
vars == <<envVars, main, rx, tx, sigVars, flagVars, fftw, arrived, radioVars>>

\* main() has set up its handler and blocked SIGINT, which the threads inherit.
Init ==
    /\ hasRx \in BOOLEAN /\ hasTx \in BOOLEAN
    /\ main = "load" /\ rx = "none" /\ tx = "none" /\ modules = "none"
    /\ blocked = TRUE /\ pending = FALSE /\ sigInts = 0 /\ caught = FALSE
    /\ isRXLooping = TRUE /\ isTXLooping = TRUE
    /\ fftw = "free" /\ arrived = {}
    /\ streaming = FALSE /\ burst = "none" /\ late = 0

\* Bound: the frames after the signal are counted no further.
LateCap == 2

Running == main \notin {"exit", "killed"}
Ended   == ~Running

-----------------------------------------------------------------------------
(* SIGINT.                                                                 *)

SigInt ==
    /\ Running /\ sigInts < MaxSigInt
    /\ sigInts' = sigInts + 1
    /\ pending' = TRUE
    /\ UNCHANGED <<hasRx, hasTx, modules, main, rx, tx, blocked, caught, flagVars, fftw,
                   arrived, radioVars>>

\* The signal interrupts main() in a DSPEW: the handler's own DSPEW waits for the
\* mutex of _vspew() that main() holds, and the flags are not cleared.  SIGINT is
\* blocked while the handler runs, so that another one does not end it.
Spewing == main \in {"barrier", "joinRx", "destroy", "return"}
CatcherHangs ==
    /\ pending /\ ~blocked /\ ~caught /\ Spewing
    /\ pending' = FALSE /\ main' = "hung"
    /\ UNCHANGED <<envVars, rx, tx, blocked, caught, flagVars, fftw, arrived, radioVars>>

signalExitProgramCatcher_OnlyRx ==
    /\ Running /\ main # "hung" /\ pending /\ ~blocked
    /\ pending' = FALSE /\ caught' = TRUE
    /\ IF caught THEN main' = "killed" ELSE UNCHANGED main
    /\ isRXLooping' = FALSE
    /\ UNCHANGED <<envVars, rx, tx, blocked, isTXLooping, fftw, arrived, radioVars>>

\* The first SIGINT that main() gets clears both flags; the second, with the
\* handler gone, kills the process.
signalExitProgramCatcher ==
    /\ Running /\ main # "hung" /\ pending /\ ~blocked
    /\ pending' = FALSE /\ caught' = TRUE
    /\ IF caught THEN main' = "killed" ELSE UNCHANGED main
    /\ isTXLooping' = FALSE /\ isRXLooping' = FALSE
    /\ UNCHANGED <<envVars, rx, tx, blocked, fftw, arrived, radioVars>>

-----------------------------------------------------------------------------
(* main().                                                                 *)

MainGoes(from, to) == main = from /\ main' = to

\* The options are parsed and the modules are loaded; with a wrong option, or
\* without a module that it was asked for, the program returns.
LoadModules ==
    /\ \/ MainGoes("load", "createRx") /\ modules' = "loaded"
       \/ MainGoes("load", "exit") /\ UNCHANGED modules
    /\ UNCHANGED <<hasRx, hasTx, rx, tx, sigInts, sigVars, flagVars, fftw, arrived, radioVars>>

CreateRx ==
    /\ MainGoes("createRx", "createTx")
    /\ rx' = IF hasRx THEN "lock" ELSE rx
    /\ UNCHANGED <<envVars, tx, sigVars, flagVars, fftw, arrived, radioVars>>

CreateTx ==
    /\ MainGoes("createTx", "unblock")
    /\ tx' = IF hasTx THEN "lock" ELSE tx
    /\ UNCHANGED <<envVars, rx, sigVars, flagVars, fftw, arrived, radioVars>>

\* Only now may the main thread catch the signal.
UnblockSignals ==
    /\ MainGoes("unblock", "barrier")
    /\ blocked' = FALSE
    /\ UNCHANGED <<envVars, rx, tx, pending, caught, flagVars, fftw, arrived, radioVars>>

\* The count given to pthread_barrier_init().
Participants == (IF hasRx THEN 1 ELSE 0) + (IF hasTx THEN 1 ELSE 0) + 1
BarrierOpen  == Cardinality(arrived) >= Participants

MainArrives ==
    /\ MainGoes("barrier", "inBarrier")
    /\ arrived' = arrived \cup {"main"}
    /\ UNCHANGED <<envVars, rx, tx, sigVars, flagVars, fftw, radioVars>>

MainPasses ==
    /\ BarrierOpen /\ MainGoes("inBarrier", "joinRx")
    /\ UNCHANGED <<envVars, rx, tx, sigVars, flagVars, fftw, arrived, radioVars>>

JoinRx ==
    /\ hasRx => rx = "done"
    /\ MainGoes("joinRx", "joinTx")
    /\ UNCHANGED <<envVars, rx, tx, sigVars, flagVars, fftw, arrived, radioVars>>

JoinTx_NotWaiting ==
    /\ MainGoes("joinTx", "destroy")
    /\ UNCHANGED <<envVars, rx, tx, sigVars, flagVars, fftw, arrived, radioVars>>

JoinTx ==
    /\ hasTx => tx = "done"
    /\ MainGoes("joinTx", "destroy")
    /\ UNCHANGED <<envVars, rx, tx, sigVars, flagVars, fftw, arrived, radioVars>>

DestroyModules ==
    /\ MainGoes("destroy", "return")
    /\ modules' = "destroyed"
    /\ UNCHANGED <<hasRx, hasTx, rx, tx, sigInts, sigVars, flagVars, fftw, arrived, radioVars>>

MainReturns ==
    /\ MainGoes("return", "exit")
    /\ UNCHANGED <<envVars, rx, tx, sigVars, flagVars, fftw, arrived, radioVars>>

Main == \/ LoadModules \/ CreateRx \/ CreateTx \/ UnblockSignals \/ MainArrives
        \/ MainPasses \/ JoinRx \/ JoinTx \/ DestroyModules \/ MainReturns

-----------------------------------------------------------------------------
(* RXThreadCallback().                                                     *)

RxGoes(from, to) == Running /\ rx = from /\ rx' = to
mainKeeps == <<envVars, main, sigVars>>

\* FFTW_LOCK(), before the frame synchronizer is created and destroyed.
RxLocks(from, to) ==
    /\ RxGoes(from, to)
    /\ fftw = "free" /\ fftw' = "rx"
    /\ UNCHANGED <<mainKeeps, tx, flagVars, arrived, radioVars>>

RxUnlocks(from, to) ==
    /\ RxGoes(from, to)
    /\ fftw' = "free"
    /\ UNCHANGED <<mainKeeps, tx, flagVars, arrived, radioVars>>

RxCreates == RxLocks("lock", "create") \/ RxUnlocks("create", "barrier")

RxArrives ==
    /\ RxGoes("barrier", "inBarrier")
    /\ arrived' = arrived \cup {"rx"}
    /\ UNCHANGED <<mainKeeps, tx, flagVars, fftw, radioVars>>

RxPasses ==
    /\ BarrierOpen /\ RxGoes("inBarrier", "begin")
    /\ UNCHANGED <<mainKeeps, tx, flagVars, fftw, arrived, radioVars>>

\* The flag is read once for the stream command,
RxBegins ==
    /\ RxGoes("begin", IF isRXLooping THEN "start" ELSE "loop")
    /\ UNCHANGED <<mainKeeps, tx, flagVars, fftw, arrived, radioVars>>

RxStarts ==
    /\ RxGoes("start", "loop")
    /\ streaming' = TRUE
    /\ UNCHANGED <<mainKeeps, tx, flagVars, fftw, arrived, burst, late>>

\* and again for every round.
RxLoops ==
    /\ RxGoes("loop", IF isRXLooping THEN "recv" ELSE "stop")
    /\ UNCHANGED <<mainKeeps, tx, flagVars, fftw, arrived, radioVars>>

\* recv() returns, with a frame or with none, after a second at the latest.  That
\* samples come with an error code is ruled out by a DASSERT.
RxReceives ==
    /\ \E to \in {"loop", "write", "assert"} : RxGoes("recv", to)
    /\ UNCHANGED <<mainKeeps, tx, flagVars, fftw, arrived, radioVars>>

\* rxFrameSyncCallback(): the payload goes to the module, whose write() returns
\* after however long; with less than the payload, a DASSERT fails.
RxWrites ==
    /\ \E to \in {"loop", "assert"} : RxGoes("write", to)
    /\ UNCHANGED <<mainKeeps, tx, flagVars, fftw, arrived, radioVars>>

RxStops_IfLooping ==
    /\ RxGoes("stop", "lock2")
    /\ streaming' = IF isRXLooping THEN FALSE ELSE streaming
    /\ UNCHANGED <<mainKeeps, tx, flagVars, fftw, arrived, burst, late>>

\* The stream is stopped, whether or not it was started.
RxStops ==
    /\ RxGoes("stop", "lock2")
    /\ streaming' = FALSE
    /\ UNCHANGED <<mainKeeps, tx, flagVars, fftw, arrived, burst, late>>

RxDestroys_NoLock ==
    \/ /\ RxGoes("lock2", "destroy")
       /\ UNCHANGED <<mainKeeps, tx, flagVars, fftw, arrived, radioVars>>
    \/ /\ RxGoes("destroy", "done")
       /\ UNCHANGED <<mainKeeps, tx, flagVars, fftw, arrived, radioVars>>

RxDestroys == RxLocks("lock2", "destroy") \/ RxUnlocks("destroy", "done")

\* All that the RX thread does by itself: the output may keep it waiting.
Rx == \/ RxCreates \/ RxArrives \/ RxPasses \/ RxBegins \/ RxStarts \/ RxLoops
      \/ RxReceives \/ RxStops \/ RxDestroys

-----------------------------------------------------------------------------
(* TXThreadCallback().                                                     *)

TxGoes(from, to) == Running /\ tx = from /\ tx' = to

TxLocks(from, to) ==
    /\ TxGoes(from, to)
    /\ fftw = "free" /\ fftw' = "tx"
    /\ UNCHANGED <<mainKeeps, rx, flagVars, arrived, radioVars>>

TxUnlocks(from, to) ==
    /\ TxGoes(from, to)
    /\ fftw' = "free"
    /\ UNCHANGED <<mainKeeps, rx, flagVars, arrived, radioVars>>

TxCreates == TxLocks("lock", "create") \/ TxUnlocks("create", "barrier")

TxArrives ==
    /\ TxGoes("barrier", "inBarrier")
    /\ arrived' = arrived \cup {"tx"}
    /\ UNCHANGED <<mainKeeps, rx, flagVars, fftw, radioVars>>

TxPasses ==
    /\ BarrierOpen /\ TxGoes("inBarrier", "loop")
    /\ UNCHANGED <<mainKeeps, rx, flagVars, fftw, arrived, radioVars>>

\* The flag is read before every TXReadTransmitLoop().
TxLoops ==
    /\ TxGoes("loop", IF isTXLooping THEN "read" ELSE "finish")
    /\ UNCHANGED <<mainKeeps, rx, flagVars, fftw, arrived, radioVars>>

\* read() of the input module returns data, after however long.
TxReads ==
    /\ TxGoes("read", "send")
    /\ late' = IF caught /\ late < LateCap THEN late + 1 ELSE late
    /\ UNCHANGED <<mainKeeps, rx, flagVars, fftw, arrived, streaming, burst>>

\* crtsExit() signals the main thread.
crtsExit == pending' = TRUE

\* read() of the input module returns 0 at the end of the input, or less than 0;
\* cleanExit() of the readline module calls crtsExit() before it does.
ReadEnds(exits) == IF exits THEN crtsExit ELSE UNCHANGED pending

TxReadsEnd(exits) ==
    /\ TxGoes("read", "finish")
    /\ ReadEnds(exits)
    /\ UNCHANGED <<envVars, main, blocked, caught, rx, flagVars, fftw, arrived, radioVars>>

\* usrpSend() of a symbol; the last one of a frame is sent once more.
TxSends ==
    /\ \E to \in {"send", "loop"} : TxGoes("send", to)
    /\ burst' = "open"
    /\ UNCHANGED <<mainKeeps, rx, flagVars, fftw, arrived, streaming, late>>

\* totalBytesRead > 0: the end of the burst is sent.
TxFinishes ==
    /\ TxGoes("finish", "lock2")
    /\ burst' = IF burst = "open" THEN "ended" ELSE burst
    /\ UNCHANGED <<mainKeeps, rx, flagVars, fftw, arrived, streaming, late>>

TxDestroys == TxLocks("lock2", "destroy") \/ TxUnlocks("destroy", "done")

\* All that the TX thread does by itself: the input may keep it waiting.
Tx == \/ TxCreates \/ TxArrives \/ TxPasses \/ TxLoops \/ TxSends \/ TxFinishes
      \/ TxDestroys

-----------------------------------------------------------------------------
Next ==
    \/ SigInt \/ CatcherHangs \/ signalExitProgramCatcher
    \/ Main \/ Rx \/ Tx
    \/ RxWrites \/ TxReads \/ \E exits \in BOOLEAN : TxReadsEnd(exits)

Spec == Init /\ [][Next]_vars

\* Threads run, a signal is delivered, a frame has a last symbol.  Nothing is
\* assumed of the modules, whose read() and write() may block.
FairSpec ==
    /\ Spec
    /\ WF_vars(Main) /\ WF_vars(signalExitProgramCatcher)
    /\ WF_vars(Rx) /\ WF_vars(Tx)

-----------------------------------------------------------------------------
(* Properties.                                                             *)

flagTypeOK ==
    /\ hasRx \in BOOLEAN /\ hasTx \in BOOLEAN
    /\ blocked \in BOOLEAN /\ pending \in BOOLEAN /\ caught \in BOOLEAN
    /\ isRXLooping \in BOOLEAN /\ isTXLooping \in BOOLEAN
    /\ streaming \in BOOLEAN

placeTypeOK ==
    /\ main \in {"load", "createRx", "createTx", "unblock", "barrier", "inBarrier",
                 "joinRx", "joinTx", "destroy", "return", "exit", "killed", "hung"}
    /\ rx \in {"none", "lock", "create", "barrier", "inBarrier", "begin", "start", "loop",
               "recv", "write", "assert", "stop", "lock2", "destroy", "done"}
    /\ tx \in {"none", "lock", "create", "barrier", "inBarrier", "loop", "read", "send",
               "finish", "lock2", "destroy", "done"}
    /\ modules \in {"none", "loaded", "destroyed"}
    /\ sigInts \in 0 .. MaxSigInt
    /\ fftw \in {"free", "rx", "tx"} /\ arrived \subseteq {"main", "rx", "tx"}
    /\ burst \in {"none", "open", "ended"} /\ late \in 0 .. LateCap

\* The types.
TypeOK == flagTypeOK /\ placeTypeOK

\* FFTW is not thread safe where it creates and destroys: never both threads.
FftwExclusive ==
    ~(rx \in {"create", "destroy"} /\ tx \in {"create", "destroy"})

\* A module is destroyed only when neither thread can call it any more.
ModulesOutliveThreads ==
    modules = "destroyed" => rx \in {"none", "done"} /\ tx \in {"none", "done"}

\* After the signal at most one more frame is transmitted, the one whose input
\* the TX thread was reading, and a program that ends by itself leaves the radio
\* silent: the stream is stopped and a burst that was begun is ended, wherever the
\* signal found the threads.
RadioLeftQuiet ==
    /\ late <= 1
    /\ main \in {"destroy", "return", "exit"} => ~streaming /\ burst # "open"

\* After the signal the receiving thread ends whatever the input does, and the
\* program ends, unless a module keeps its thread for ever, the RX thread sleeps in a
\* DASSERT, or the handler hangs.
WriteReturns == []<>(rx \notin {"write", "assert"})
ReadReturns  == []<>(tx # "read")
ExitFollows ==
    /\ WriteReturns => ((pending /\ hasRx) ~> (rx = "done" \/ Ended \/ main = "hung"))
    /\ WriteReturns /\ ReadReturns => (pending ~> (Ended \/ main = "hung"))

-----------------------------------------------------------------------------
(* The inductive invariant.                                                *)

\* fftw3_mutex is held by the thread that creates or destroys, by no other.
MutexHeld ==
    /\ rx \in {"create", "destroy"} <=> fftw = "rx"
    /\ tx \in {"create", "destroy"} <=> fftw = "tx"

\* What main() has and has not done decides which threads there are.
ThreadsFollowMain ==
    /\ ~hasRx => rx = "none"
    /\ ~hasTx => tx = "none"
    /\ main \in {"load", "createRx"} => rx = "none"
    /\ main \in {"load", "createRx", "createTx"} => tx = "none"
    /\ main \in {"joinTx", "destroy", "return", "exit"} => rx \in {"none", "done"}
    /\ main \in {"destroy", "return", "exit"} => tx \in {"none", "done"}
    /\ modules = "destroyed" => main \in {"return", "exit", "killed", "hung"}

\* Where the threads are while the radio streams or a burst is open, and that the
\* TX thread does not read again once it began a frame after the signal.
RadioFollowsThreads ==
    /\ streaming => rx \in {"loop", "recv", "write", "assert", "stop"}
    /\ burst = "open" => tx \in {"send", "loop", "read", "finish"}
    /\ caught => ~isTXLooping
    /\ late > 0 => late = 1 /\ caught /\ tx # "read"

IInv ==
    /\ TypeOK /\ MutexHeld /\ ThreadsFollowMain /\ ModulesOutliveThreads
    /\ RadioFollowsThreads
=============================================================================
