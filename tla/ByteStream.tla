----------------------------- MODULE ByteStream -----------------------------
(***************************************************************************)
(* What a service session promises about its output: the bytes that the    *)
(* user queued reach the socket in the order in which they were queued,    *)
(* none twice, none that was not queued, and none once the connection is   *)
(* closed.  Unless the stream is lossy none is left out either.            *)
(***************************************************************************)
EXTENDS Naturals

VARIABLES
    queued,   \* the bytes the user has sent so far
    sent,     \* the position up to which the socket has taken them
    skipped,  \* how many before that position it never got
    lossy,    \* bytes may be left out
    open      \* the connection is open

vars == <<queued, sent, skipped, lossy, open>>

Init ==
    /\ queued = 0 /\ sent = 0 /\ skipped = 0
    /\ lossy \in BOOLEAN /\ open = TRUE

Queue ==
    /\ open
    /\ queued' > queued
    /\ UNCHANGED <<sent, skipped, lossy, open>>

\* The bytes after position from, up to sent', reach the socket.
Deliver ==
    /\ open
    /\ sent' > sent /\ sent' <= queued
    /\ \E from \in sent .. sent' - 1 :
          /\ skipped' = skipped + (from - sent)
          /\ ~lossy => from = sent
    /\ UNCHANGED <<queued, lossy, open>>

Close ==
    /\ open /\ open' = FALSE
    /\ UNCHANGED <<queued, sent, skipped, lossy>>

Next == Queue \/ Deliver \/ Close

Spec == Init /\ [][Next]_vars
=============================================================================
