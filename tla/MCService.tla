----------------------------- MODULE MCService ------------------------------
(* Instances of module Service for TLC.                                    *)
EXTENDS Service

\* A buffer that fits the socket and a record, and one that fits neither.
Buffers == {1, 3}
\* An empty file, one that fills the file buffer, and one that overfills it.
Files == {0, 2, 3}
=============================================================================
