----------------------------- MODULE MCHandoff ------------------------------
(* Instances of module Handoff for TLC.                                    *)
EXTENDS Handoff

At(port, ip) == [port |-> port, ip |-> ip]

\* Two servers in the old process.
TwoServers == << <<At(1, 1), At(2, 1)>>, <<At(3, 1), At(4, 1)>> >>

\* The new server takes one address of each, opens one that nobody had, and has
\* another interface of a port of the old one; it leaves the others.
Overlap == <<At(2, 1), At(3, 1), At(5, 1), At(1, 2)>>
=============================================================================
