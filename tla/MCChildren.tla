----------------------------- MODULE MCChildren -----------------------------
(* Instances of module Children for TLC.                                   *)
EXTENDS Children

\* A child of a child failed twice, once, or not at all.
Statuses == {0, 1, 2}
=============================================================================
