------------------------------ MODULE MCServer ------------------------------
(***************************************************************************)
(* Instances of Server for TLC.                                            *)
(***************************************************************************)
EXTENDS Server

\* Threads are interchangeable.
ThreadSymmetry == Permutations(Thread)

=============================================================================
