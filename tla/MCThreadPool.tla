---------------------------- MODULE MCThreadPool ----------------------------
(***************************************************************************)
(* Instances of ThreadPool for TLC.                                        *)
(***************************************************************************)
EXTENDS ThreadPool

\* PO_THREADPOOL_MAX_IDLE_TIME: idle threads wait for ever.
NoTimeout == -1
=============================================================================
