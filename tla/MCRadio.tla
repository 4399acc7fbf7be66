------------------------------ MODULE MCRadio -------------------------------
(* Instances of module Radio for TLC.                                      *)
EXTENDS Radio

\* The user types Ctrl-C, is not answered, and types it again.
Impatient == 2
=============================================================================
