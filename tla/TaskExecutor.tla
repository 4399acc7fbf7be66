---------------------------- MODULE TaskExecutor ----------------------------
(***************************************************************************)
(* What the thread pool promises its client (potato_old/threadPool.h): the *)
(* tasks given to poThreadPool_runTask() are handed to threads in the      *)
(* order of the calls, each exactly once, no more than MaxNumThreads at a  *)
(* time, with at most QueueLength of them waiting besides the one whose    *)
(* caller is being blocked; and poThreadPool_destroy() returns only when   *)
(* all of them are finished.                                               *)
(*                                                                         *)
(* Tasks are the numbers 1, 2, 3 ... in the order of the calls, so the     *)
(* whole state of the queue is two counters.                               *)
(***************************************************************************)
EXTENDS Integers, FiniteSets

CONSTANTS QueueLength, MaxNumThreads

VARIABLES
    accepted,     \* tasks 1 .. accepted have been given to the pool
    dispatched,   \* tasks 1 .. dispatched have been given to a thread
    completed,    \* tasks whose callback has returned
    closed        \* the pool is destroyed

evars == <<accepted, dispatched, completed, closed>>

EInit ==
    /\ accepted = 0
    /\ dispatched = 0
    /\ completed = {}
    /\ closed = FALSE

InProgress == (1 .. dispatched) \ completed

\* A thread is free for the next task.
CanDispatch == dispatched - Cardinality(completed) < MaxNumThreads

\* The client's task waits for its turn.
AcceptForLater ==
    /\ ~closed
    /\ accepted - dispatched <= QueueLength
    /\ accepted' = accepted + 1
    /\ UNCHANGED <<dispatched, completed, closed>>

\* The client's task overtakes nobody and starts at once.
AcceptAndDispatch ==
    /\ ~closed
    /\ accepted = dispatched
    /\ CanDispatch
    /\ accepted' = accepted + 1
    /\ dispatched' = dispatched + 1
    /\ UNCHANGED <<completed, closed>>

\* The oldest waiting task is given to a free thread.
Dispatch ==
    /\ dispatched < accepted
    /\ CanDispatch
    /\ dispatched' = dispatched + 1
    /\ UNCHANGED <<accepted, completed, closed>>

\* A thread finishes its task and, in the same step, may take the oldest
\* waiting one.
Complete(t) ==
    /\ t \in InProgress
    /\ completed' = completed \cup {t}
    /\ \/ dispatched' = dispatched
       \/ dispatched < accepted /\ dispatched' = dispatched + 1
    /\ UNCHANGED <<accepted, closed>>

Close ==
    /\ ~closed
    /\ completed = 1 .. accepted
    /\ closed' = TRUE
    /\ UNCHANGED <<accepted, dispatched, completed>>

ENext ==
    \/ AcceptForLater
    \/ AcceptAndDispatch
    \/ Dispatch
    \/ \E t \in InProgress : Complete(t)
    \/ Close

ESpec == EInit /\ [][ENext]_evars

=============================================================================
