------------------------------ MODULE Service -------------------------------
(***************************************************************************)
(* One session of a service, of potato_old/service.c with tls.c: the       *)
(* callbacks Setup(), Read(), Write() and Cleanup() that it gives to the   *)
(* server, its input buffer, its queue of output, and the user's request   *)
(* callback (poHttp_read(), poHttp_redirectToHttps() of http.c and Read()  *)
(* of service_test.c are instances of it).                                 *)
(*                                                                         *)
(* The server is here by what module Server shows of it: a worker that     *)
(* runs ServiceConnection() has the connection to itself, it is called     *)
(* again after an event, and a removal waits for it.  The socket is        *)
(* edge-triggered: epoll reports what is ready after a change, once.  The  *)
(* peer and the kernel act between any two system calls of the worker, so  *)
(* a step has one of them.                                                 *)
(*                                                                         *)
(* Bytes are counted, not named.  The output of the session is a stream,   *)
(* and an item of the queue knows at which position of it it starts.       *)
(*                                                                         *)
(* A definition Name_Fault stands before Name and is Name with a fault     *)
(* seeded; the mutants of PROJECT.json use it to show that a property      *)
(* would notice.                                                           *)
(***************************************************************************)
EXTENDS Integers, Sequences

CONSTANTS
    ChunkLen,     \* PO_SERVICE_CHUNKLEN
    MaxMessage,   \* maxMessageLength of poService_create()
    FileBuf,      \* the size of OutPathTls.buffer
    MaxRecord,    \* the most that one gnutls_record_send() takes
    MaxRoom,      \* the socket's send buffer
    BufLens,      \* bound: the lengths of the buffers that the user sends
    FileLens,     \* bound: the lengths of the files
    MaxSends,     \* bound: what the user sends in one session
    MaxInput,     \* bound: the bytes the peer sends at once
    MaxArrivals   \* bound: how often the peer sends

ASSUME ServiceAssumption ==
    /\ ChunkLen \in Nat \ {0} /\ MaxMessage \in Nat /\ MaxMessage >= 2
    /\ FileBuf \in Nat \ {0} /\ FileBuf <= MaxRecord
    /\ MaxRecord \in Nat /\ MaxRoom \in Nat /\ MaxRecord <= MaxRoom
    /\ BufLens \subseteq Nat \ {0} /\ FileLens \subseteq Nat
    /\ MaxSends \in Nat /\ MaxInput \in Nat /\ MaxArrivals \in Nat

VARIABLES
    tls,         \* the service has TLS
    \* the connection, struct POServer_connection
    conn,        \* "open" or "closed"
    readCb,      \* readCallback: "Setup", "Read" or "none" for NULL
    writeCb,     \* writeCallback is Write(), else NULL
    readReady, writeReady,
    due,         \* the server has a task for this connection
    doomed,      \* the server wants it removed, or marked it for removal
    \* the worker
    pc,          \* where it is
    caller,      \* who called Write(): "server" or the "user" through a send
    removeMe,    \* ServiceConnection(): a callback returned not 0
    \* the session, struct POService_session
    session,     \* "none", "open", "freed" or "leaked"
    inSize, inLen,
    out,         \* the queue from firstOut to lastOut
    sessionCount,\* tls->sessionCount, as far as this session goes
    \* the socket
    inbox,       \* the sizes of what arrived and was not read: the records of
                 \* TLS, or the one stretch of bytes of TCP
    room,        \* what is left of its send buffer
    noSpace,     \* a write met the end of the room
    edge,        \* epoll has an event to report
    eof,         \* the peer hung up
    \* what the user did, what became of it, and why the session ended
    sends, arrivals, queued, sent, skipped,
    closing,     \* the user asked for the end, POSERVICE_CLOSE
    ended

cbVars     == <<readCb, writeCb, readReady, writeReady>>
taskVars   == <<due, doomed>>
workVars   == <<pc, caller, removeMe>>
inVars     == <<inSize, inLen, inbox>>
roomVars   == <<room, noSpace>>
streamVars == <<sends, queued, sent, skipped>>
peerVars   == <<edge, eof, arrivals>>
vars == <<tls, closing, conn, cbVars, taskVars, workVars, session, inVars, out,
          sessionCount, roomVars, streamVars, peerVars, ended>>

Init ==
    /\ tls \in BOOLEAN
    /\ conn = "open" /\ readCb = "Setup" /\ writeCb = FALSE
    /\ readReady = FALSE /\ writeReady = FALSE
    /\ due = FALSE /\ doomed = FALSE
    /\ pc = "idle" /\ caller = "server" /\ removeMe = FALSE
    /\ session = "none" /\ inSize = 0 /\ inLen = 0 /\ out = <<>> /\ sessionCount = 0
    /\ inbox = <<>> /\ room = MaxRoom /\ noSpace = FALSE
    /\ edge = TRUE /\ eof = FALSE /\ arrivals = 0
    /\ sends = 0 /\ queued = 0 /\ sent = 0 /\ skipped = 0
    /\ closing = FALSE /\ ended = "no"

Least(a, b) == IF a < b THEN a ELSE b

-----------------------------------------------------------------------------
(* The peer and the kernel.                                                *)

\* Records arrive one after the other, the bytes of TCP join those before them.
PeerSends ==
    /\ conn = "open" /\ ~eof /\ arrivals < MaxArrivals
    /\ arrivals' = arrivals + 1
    /\ \E n \in 1 .. MaxInput :
          inbox' = IF tls \/ inbox = <<>> THEN Append(inbox, n) ELSE <<Head(inbox) + n>>
    /\ edge' = TRUE
    /\ UNCHANGED <<tls, closing, conn, cbVars, taskVars, workVars, session, inSize,
                   inLen, out, sessionCount, roomVars, streamVars, eof, ended>>

PeerHangsUp ==
    /\ conn = "open" /\ ~eof
    /\ eof' = TRUE /\ edge' = TRUE
    /\ UNCHANGED <<tls, closing, conn, cbVars, taskVars, workVars, session, inVars,
                   out, sessionCount, roomVars, streamVars, arrivals, ended>>

\* The peer reads.  Room is an event only for a socket that ran out of it.
PeerReads ==
    /\ conn = "open" /\ room < MaxRoom
    /\ room' \in room + 1 .. MaxRoom
    /\ noSpace' = FALSE
    /\ edge' = (edge \/ noSpace)
    /\ UNCHANGED <<tls, closing, conn, cbVars, taskVars, workVars, session, inVars,
                   out, sessionCount, streamVars, eof, arrivals, ended>>

-----------------------------------------------------------------------------
(* The server.                                                             *)

MutexFree == pc \in {"idle", "end"}

\* doEvent(): with the connection's mutex; a hang-up has the connection removed
\* after that.
doEvent ==
    /\ conn = "open" /\ edge /\ MutexFree
    /\ edge' = FALSE
    /\ readReady' = (readReady \/ inbox # <<>> \/ eof)
    /\ writeReady' = (writeReady \/ room > 0)
    /\ due' = (due \/ (readReady' /\ readCb # "none") \/ (writeReady' /\ writeCb))
    /\ doomed' = (doomed \/ eof)
    /\ UNCHANGED <<tls, closing, conn, readCb, writeCb, workVars, session, inVars, out,
                   sessionCount, roomVars, streamVars, eof, arrivals, ended>>

\* A connection is too old, or the server shuts down.
Timeout ==
    /\ conn = "open" /\ ~doomed
    /\ doomed' = TRUE
    /\ UNCHANGED <<tls, closing, conn, cbVars, due, workVars, session, inVars, out,
                   sessionCount, roomVars, streamVars, peerVars, ended>>

Cleanup_KeepsTls ==
    IF session = "open"
    THEN session' = "freed" /\ out' = <<>> /\ UNCHANGED sessionCount
    ELSE UNCHANGED <<session, out, sessionCount>>

\* Cleanup(), if Setup() came to set it: the TLS session, the input buffer, the
\* queue and the session are freed.  poTlsSession_destroy() says goodbye once.
Cleanup ==
    IF session = "open"
    THEN /\ session' = "freed" /\ out' = <<>>
         /\ sessionCount' = IF tls THEN sessionCount - 1 ELSE sessionCount
    ELSE UNCHANGED <<session, out, sessionCount>>

removeConnection(why) ==
    /\ conn' = "closed"
    /\ readCb' = "none" /\ writeCb' = FALSE /\ due' = FALSE
    /\ pc' = "idle" /\ removeMe' = FALSE
    /\ ended' = why
    /\ Cleanup
    /\ UNCHANGED <<tls, closing, readReady, writeReady, doomed, caller, inVars,
                   roomVars, streamVars, peerVars>>

ServerRemoves ==
    /\ conn = "open" /\ doomed /\ MutexFree
    /\ removeConnection("doomed")

\* The end of the read stage: a callback that returned not 0 was the last,
ReadFails(why) ==
    /\ pc' = "stage" /\ removeMe' = TRUE /\ ended' = why
    /\ readCb' = "none" /\ writeCb' = FALSE
    /\ UNCHANGED readReady
\* and one that is still there has read all there was.
ReadExhausted ==
    /\ pc' = "readDone"
    /\ UNCHANGED <<removeMe, readCb, writeCb, readReady, ended>>

ReadStageEnds ==
    /\ pc = "readDone"
    /\ pc' = "stage" /\ readReady' = FALSE
    /\ UNCHANGED <<tls, closing, conn, readCb, writeCb, writeReady, taskVars, caller,
                   removeMe, session, inVars, out, sessionCount, roomVars, streamVars,
                   peerVars, ended>>

\* The read stage of ServiceConnection().  Setup() makes the session (with TLS,
\* after the handshake) and goes on as Read().
ServiceConnection ==
    /\ conn = "open" /\ due /\ pc = "idle"
    /\ due' = FALSE /\ removeMe' = FALSE
    /\ \/ /\ readReady /\ readCb = "Setup" /\ tls
          /\ pc' = "handshake"
          /\ UNCHANGED <<readCb, session, inSize>>
       \/ /\ readReady /\ readCb = "Setup" /\ ~tls
          /\ pc' = "recv" /\ readCb' = "Read" /\ session' = "open" /\ inSize' = ChunkLen
       \/ /\ readReady /\ readCb = "Read"
          /\ pc' = "recv"
          /\ UNCHANGED <<readCb, session, inSize>>
       \/ /\ ~readReady \/ readCb = "none"
          /\ pc' = "stage"
          /\ UNCHANGED <<readCb, session, inSize>>
    /\ UNCHANGED <<tls, closing, conn, writeCb, readReady, writeReady, doomed, caller,
                   inLen, inbox, out, sessionCount, roomVars, streamVars, peerVars,
                   ended>>

\* gnutls_handshake(), repeated until it succeeds or fails.
Handshake ==
    /\ pc = "handshake"
    /\ pc' = "recv" /\ readCb' = "Read" /\ session' = "open" /\ inSize' = ChunkLen
    /\ sessionCount' = sessionCount + 1
    /\ UNCHANGED <<tls, closing, conn, writeCb, readReady, writeReady, taskVars,
                   caller, removeMe, inLen, inbox, out, roomVars, streamVars, peerVars,
                   ended>>

\* Setup() returns -1 before the cleanup callback is set: nobody frees the session.
HandshakeFails ==
    /\ pc = "handshake"
    /\ ReadFails("handshake")
    /\ session' = "leaked"
    /\ UNCHANGED <<tls, closing, conn, writeReady, taskVars, caller, inVars, out,
                   sessionCount, roomVars, streamVars, peerVars>>

\* The write stage.
WriteStage ==
    /\ pc = "stage"
    /\ IF writeReady /\ writeCb
       THEN pc' = "write" /\ caller' = "server"
       ELSE pc' = "end" /\ UNCHANGED caller
    /\ UNCHANGED <<tls, closing, conn, cbVars, taskVars, removeMe, session, inVars,
                   out, sessionCount, roomVars, streamVars, peerVars, ended>>

\* A write callback that is still there has filled the socket.
WriteStageEnds ==
    /\ pc = "writeDone"
    /\ pc' = "end" /\ writeReady' = FALSE
    /\ UNCHANGED <<tls, closing, conn, readCb, writeCb, readReady, taskVars, caller,
                   removeMe, session, inVars, out, sessionCount, roomVars, streamVars,
                   peerVars, ended>>

\* The end: removal, if a callback asked for it, none is left, or it was marked.
Finish ==
    /\ pc = "end"
    /\ LET gone == removeMe \/ (readCb = "none" /\ ~writeCb)
       IN  \/ (gone \/ doomed) /\ removeConnection(IF gone THEN ended ELSE "doomed")
           \/ /\ ~(gone \/ doomed)
              /\ pc' = "idle"
              /\ UNCHANGED <<tls, closing, conn, cbVars, taskVars, caller, removeMe,
                             session, inVars, out, sessionCount, roomVars, streamVars,
                             peerVars, ended>>

-----------------------------------------------------------------------------
(* Read() and the user's callback.                                         *)

\* What is left of the arrivals after n bytes of the first were read.
Rest(n) ==
    IF n = Head(inbox) THEN Tail(inbox) ELSE <<Head(inbox) - n>> \o Tail(inbox)

MayGrow_Once == inSize <= MaxMessage
MayGrow == inSize < MaxMessage

ReadSome_StopsWhenFull ==
    /\ pc = "recv" /\ inbox # <<>>
    /\ LET n == Least(inSize - inLen, Head(inbox))
       IN  inLen' = inLen + n /\ inbox' = Rest(n)
    /\ inSize' = IF inLen' = inSize THEN inSize + ChunkLen ELSE inSize
    /\ pc' = "user"
    /\ UNCHANGED <<tls, closing, conn, cbVars, taskVars, caller, removeMe, session,
                   out, sessionCount, roomVars, streamVars, peerVars, ended>>

\* One read() of TCPRead(), or one gnutls_record_recv() of TLSRead().  A read
\* that does not fill the buffer is the last; a full buffer grows, or the
\* message is too long.
ReadSome ==
    /\ pc = "recv" /\ inbox # <<>>
    /\ LET n == Least(inSize - inLen, Head(inbox))
       IN  /\ inLen' = inLen + n
           /\ inbox' = Rest(n)
    /\ \/ /\ inLen' < inSize
          /\ pc' = "user" /\ UNCHANGED <<inSize, readCb, writeCb, readReady, removeMe, ended>>
       \/ /\ inLen' = inSize /\ MayGrow
          /\ inSize' = inSize + ChunkLen
          /\ UNCHANGED <<pc, readCb, writeCb, readReady, removeMe, ended>>
       \/ /\ inLen' = inSize /\ ~MayGrow
          /\ ReadFails("too long") /\ UNCHANGED inSize
    /\ UNCHANGED <<tls, closing, conn, writeReady, taskVars, caller, session, out,
                   sessionCount, roomVars, streamVars, peerVars>>

\* EAGAIN: Read() calls the user again if an earlier message waits for more.
ReadAgain ==
    /\ pc = "recv" /\ inbox = <<>> /\ ~eof
    /\ IF inLen < 1
       THEN ReadExhausted
       ELSE pc' = "user" /\ UNCHANGED <<removeMe, readCb, writeCb, readReady, ended>>
    /\ UNCHANGED <<tls, closing, conn, writeReady, taskVars, caller, session, inVars,
                   out, sessionCount, roomVars, streamVars, peerVars>>

ReadEof ==
    /\ pc = "recv" /\ inbox = <<>> /\ eof
    /\ ReadFails("eof")
    /\ UNCHANGED <<tls, closing, conn, writeReady, taskVars, caller, session, inVars,
                   out, sessionCount, roomVars, streamVars, peerVars>>

\* An item of the output queue.  Of a file, read is the offset of its descriptor,
\* of which the last held bytes are in the buffer, and left is fileLeft; of a
\* buffer, read is its index.
Item(file, n) == [file |-> file, start |-> queued, len |-> n, read |-> 0, held |-> 0, left |-> 0]

\* poService_send(), poService_sendF(), poService_sendFD(), poService_sendPath():
\* Write() is called at once if the socket is ready and no other output waits.
send(file, n) ==
    /\ pc = "user" /\ sends < MaxSends
    /\ sends' = sends + 1
    /\ queued' = queued + n
    /\ out' = Append(out, Item(file, n))
    /\ writeCb' = TRUE
    /\ IF ~writeCb /\ writeReady
       THEN pc' = "write" /\ caller' = "user"
       ELSE UNCHANGED <<pc, caller>>
    /\ UNCHANGED <<tls, closing, conn, readCb, readReady, writeReady, taskVars,
                   removeMe, session, inVars, sessionCount, roomVars, sent, skipped,
                   peerVars, ended>>

userKeeps == <<tls, conn, writeReady, taskVars, caller, session, inSize, inbox, out,
               sessionCount, roomVars, streamVars, peerVars>>

\* POSERVICE_CONTINUE: the message was complete; POSERVICE_WAIT: it was not.
UserContinues ==
    /\ pc = "user"
    /\ inLen' \in {0, inLen}
    /\ ReadExhausted
    /\ UNCHANGED <<userKeeps, closing>>

\* POSERVICE_CLOSE: at once if all is sent, else the last Write() closes.
UserCloses ==
    /\ pc = "user"
    /\ closing' = TRUE
    /\ \/ /\ out = <<>>
          /\ ReadFails("close")
       \/ /\ out # <<>>
          /\ pc' = "stage" /\ readCb' = "none"
          /\ UNCHANGED <<readReady, writeCb, removeMe, ended>>
    /\ UNCHANGED <<userKeeps, inLen>>

\* POSERVICE_ERROR
UserFails ==
    /\ pc = "user"
    /\ ReadFails("error")
    /\ UNCHANGED <<userKeeps, inLen, closing>>

-----------------------------------------------------------------------------
(* Write() and the four writers.                                           *)

\* Write() returns to the user, who takes no notice, or to the server.
WriteReturns(failed, keep) ==
    /\ UNCHANGED writeReady
    /\ IF caller = "user"
       THEN pc' = "user" /\ writeCb' = keep /\ UNCHANGED <<readCb, removeMe>>
       ELSE /\ pc' = IF keep /\ ~failed THEN "writeDone" ELSE "end"
            /\ removeMe' = (removeMe \/ failed)
            /\ readCb' = IF failed THEN "none" ELSE readCb
            /\ writeCb' = (keep /\ ~failed)

NextOut_KeepsCallback ==
    /\ out' = Tail(out)
    /\ IF Tail(out) # <<>>
       THEN UNCHANGED <<pc, readCb, writeCb, writeReady, removeMe, ended>>
       ELSE WriteReturns(readCb = "none", TRUE) /\ UNCHANGED ended

\* The item at the head of the queue is done, ret 0.  After the last one the
\* callback is taken out, and without a read callback the connection ends.
NextOut ==
    /\ out' = Tail(out)
    /\ IF Tail(out) # <<>>
       THEN UNCHANGED <<pc, readCb, writeCb, writeReady, removeMe, ended>>
       ELSE /\ WriteReturns(readCb = "none", FALSE)
            /\ ended' = IF caller = "server" /\ readCb = "none" THEN "close" ELSE ended

WriteLater_DropsCallback(item) ==
    /\ out' = [out EXCEPT ![1] = item]
    /\ WriteReturns(FALSE, FALSE)
    /\ UNCHANGED ended

\* It is to go on later, ret 2.
WriteLater(item) ==
    /\ out' = [out EXCEPT ![1] = item]
    /\ WriteReturns(FALSE, TRUE)
    /\ UNCHANGED ended
\* The connection is to be closed: ret 1, it is "broken", or -1, the item is "cut".
WriteFails(item, why) ==
    /\ out' = [out EXCEPT ![1] = item]
    /\ WriteReturns(TRUE, TRUE)
    /\ ended' = IF caller = "server" THEN why ELSE ended

\* The socket takes the n bytes at position from, of wanted ones.
Takes(from, n, wanted) ==
    /\ room' = room - n
    /\ noSpace' = (noSpace \/ n < wanted)
    /\ sent' = IF n > 0 THEN from + n ELSE sent
    /\ skipped' = IF n > 0 THEN skipped + (from - sent) ELSE skipped

writeKeeps == <<tls, closing, conn, readReady, taskVars, caller, session, inVars,
                sessionCount, sends, queued, peerVars>>

Writing(file, secure) == pc = "write" /\ out[1].file = file /\ tls = secure

TCPWrite_buffer_KeepsIndex ==
    /\ Writing(FALSE, FALSE)
    /\ LET b == out[1]
           n == Least(b.len - b.read, room)
       IN  /\ Takes(b.start + b.read, n, b.len - b.read)
           /\ \/ n = b.len - b.read /\ NextOut
              \/ n < b.len - b.read /\ WriteLater(b)
    /\ UNCHANGED writeKeeps

TCPWrite_buffer ==
    /\ Writing(FALSE, FALSE)
    /\ LET b == out[1]
           n == Least(b.len - b.read, room)
       IN  /\ Takes(b.start + b.read, n, b.len - b.read)
           /\ \/ n = b.len - b.read /\ NextOut
              \/ n < b.len - b.read /\ WriteLater([b EXCEPT !.read = @ + n])
    /\ UNCHANGED writeKeeps

\* One gnutls_record_send() takes a record or nothing.  Whatever it takes counts
\* as all of the buffer: the if at service.c:178 has an empty statement.
TLSWrite_buffer ==
    /\ Writing(FALSE, TRUE)
    /\ LET b == out[1]
           n == Least(b.len - b.read, MaxRecord)
       IN  \/ n <= room /\ Takes(b.start + b.read, n, n) /\ NextOut
           \/ n > room /\ Takes(b.start + b.read, 0, n) /\ WriteLater(b)
    /\ UNCHANGED writeKeeps

TCPWrite_path_PartIsDone ==
    /\ Writing(TRUE, FALSE)
    /\ LET p == out[1]
           n == Least(p.len - p.read, room)
       IN  /\ Takes(p.start + p.read, n, p.len - p.read)
           /\ IF n > 0 THEN NextOut ELSE WriteLater(p)
    /\ UNCHANGED writeKeeps

\* sendfile() of the whole size, from where the descriptor is.  What it takes of
\* that and not all is an error; and so is an empty file.
TCPWrite_path ==
    /\ Writing(TRUE, FALSE)
    /\ LET p == out[1]
           n == Least(p.len - p.read, room)
       IN  /\ Takes(p.start + p.read, n, p.len - p.read)
           /\ \/ p.len > 0 /\ n = p.len /\ NextOut
              \/ p.read < p.len /\ room = 0 /\ WriteLater(p)
              \/ /\ p.len = 0 \/ (n < p.len /\ (n > 0 \/ p.read = p.len))
                 /\ WriteFails([p EXCEPT !.read = @ + n], "cut")
    /\ UNCHANGED writeKeeps

\* fileLeft is the size of the file on every entry with nothing left, the buffer
\* is filled, which fails at the end of the file, and sent as one record.
TLSWrite_path ==
    /\ Writing(TRUE, TRUE)
    /\ LET p    == out[1]
           left == IF p.left = 0 THEN p.len ELSE p.left
           fill == Least(FileBuf - p.held, left)
           q    == [p EXCEPT !.read = @ + fill, !.held = @ + fill, !.left = left - fill]
           from == q.start + q.read - q.held
       IN  \/ /\ p.len = 0 \/ fill > p.len - p.read
              /\ WriteFails(p, "cut") /\ UNCHANGED <<roomVars, sent, skipped>>
           \/ /\ p.len > 0 /\ fill <= p.len - p.read /\ q.held > room
              /\ Takes(from, 0, q.held) /\ WriteLater(q)
           \/ /\ p.len > 0 /\ fill <= p.len - p.read /\ q.held <= room
              /\ Takes(from, q.held, q.held)
              /\ IF q.left = 0
                 THEN NextOut
                 ELSE /\ out' = [out EXCEPT ![1] = [q EXCEPT !.held = 0]]
                      /\ UNCHANGED <<pc, readCb, writeCb, writeReady, removeMe, ended>>
    /\ UNCHANGED writeKeeps

\* EPIPE or ECONNRESET, or a fatal error of TLS.
WriteBroken ==
    /\ pc = "write" /\ eof
    /\ WriteFails(out[1], "broken")
    /\ UNCHANGED <<writeKeeps, roomVars, sent, skipped>>

Write == TCPWrite_buffer \/ TLSWrite_buffer \/ TCPWrite_path \/ TLSWrite_path \/ WriteBroken

-----------------------------------------------------------------------------
UserReturns == UserContinues \/ UserCloses \/ UserFails

\* What the worker does by itself: not the handshake, for which it needs the peer.
Worker ==
    \/ ServiceConnection \/ ReadStageEnds \/ WriteStage \/ WriteStageEnds \/ Finish
    \/ ReadSome \/ ReadAgain \/ ReadEof
    \/ UserReturns \/ Write

Next ==
    \/ PeerSends \/ PeerHangsUp \/ PeerReads
    \/ doEvent \/ Timeout \/ ServerRemoves
    \/ Handshake \/ HandshakeFails
    \/ \E n \in BufLens : send(FALSE, n)
    \/ \E n \in FileLens : send(TRUE, n)
    \/ Worker

Spec == Init /\ [][Next]_vars

\* Workers run, callbacks return, the server looks at its events, and the peer
\* reads what it is sent.
FairSpec ==
    /\ Spec
    /\ WF_vars(Worker) /\ WF_vars(doEvent) /\ WF_vars(ServerRemoves) /\ WF_vars(PeerReads)

-----------------------------------------------------------------------------
(* Properties.                                                             *)

\* read() is never called for 0 bytes (it would return 0, taken for a hang-up),
\* and the user gets a message, with room for a '\0' behind it.
BufferHasRoom ==
    /\ pc \in {"recv", "user"} => inLen < inSize
    /\ pc = "user" => inLen > 0

flagTypeOK ==
    /\ tls \in BOOLEAN /\ closing \in BOOLEAN /\ writeCb \in BOOLEAN
    /\ readReady \in BOOLEAN /\ writeReady \in BOOLEAN
    /\ due \in BOOLEAN /\ doomed \in BOOLEAN /\ removeMe \in BOOLEAN
    /\ noSpace \in BOOLEAN /\ edge \in BOOLEAN /\ eof \in BOOLEAN

placeTypeOK ==
    /\ conn \in {"open", "closed"} /\ readCb \in {"Setup", "Read", "none"}
    /\ pc \in {"idle", "handshake", "recv", "user", "readDone", "stage",
               "write", "writeDone", "end"}
    /\ caller \in {"server", "user"}
    /\ session \in {"none", "open", "freed", "leaked"}
    /\ ended \in {"no", "doomed", "handshake", "too long", "eof", "close", "error",
                  "broken", "cut"}

countTypeOK ==
    /\ inSize \in 0 .. ChunkLen + MaxMessage - 1 /\ inLen \in 0 .. inSize
    /\ sessionCount \in 0 .. 1 /\ room \in 0 .. MaxRoom
    /\ sends \in 0 .. MaxSends /\ arrivals \in 0 .. MaxArrivals
    /\ queued \in Nat /\ sent \in Nat /\ skipped \in Nat

OutItem == [file : BOOLEAN, start : Nat, len : Nat, read : Nat, held : Nat, left : Nat]

\* The types; the input buffer stops growing less than one chunk above
\* maxMessageLength, the session count does not go below zero when a session ends
\* that never got its TLS session, and no writer overruns the socket's room.
TypeOK ==
    /\ flagTypeOK /\ placeTypeOK /\ countTypeOK /\ BufferHasRoom
    /\ out \in Seq(OutItem) /\ inbox \in Seq(Nat \ {0})

\* The write callback is set exactly while output waits, whether Write() was
\* called by the server or, in the middle of Read(), by a send: what the DASSERTs
\* of Write(), poService_send() and Read() require.
CallbackIffOutput ==
    /\ conn = "open" /\ ~removeMe => (writeCb <=> out # <<>>)
    /\ pc = "write" => out # <<>>

\* A user who closes (POSERVICE_CLOSE, "close socket when sends are complete") may
\* do so with output in the queue that a send could not write, or failed to.  Without
\* TLS all of it reaches the socket before the connection is closed, unless the server
\* has to remove the connection, the peer breaks it, or a file is cut.
CloseFlushes ==
    ~tls /\ closing /\ conn = "closed" =>
        sent = queued \/ ended \in {"doomed", "broken", "cut"}

\* Only an empty file is cut: TCPWrite_path() "returns 2 if we exhausted the socket
\* for writing and we'll be back".  That does not hold, it returns -1 when sendfile()
\* takes a part of the file.
FileIsFinished == ended = "cut" /\ conn = "open" => Head(out).len = 0

\* Once a connection is removed its session is not left allocated (unless Setup()
\* leaked it), nor its output, and poTls_destroy() finds no TLS session.
NothingLeft == conn = "closed" => session # "open" /\ out = <<>> /\ sessionCount = 0

\* The bytes reach the socket in order, none twice, none after the end, and
\* without TLS none is left out.
Stream == INSTANCE ByteStream WITH lossy <- tls, open <- conn = "open"
IsByteStream == Stream!Spec

\* The same with TLS: comments of TLSWrite_buffer() say that it "returns 2 if we
\* exhausted the socket for writing and we'll be back" for what it did not send.
NoGap == skipped = 0

\* What is queued is sent or given up: no event for more room is lost between the
\* write that failed and the flag that is cleared after it.
OutputLeaves == out # <<>> ~> out = <<>>

\* Without TLS, what arrives is read unless the session ends: Read() goes on
\* until the socket has no more, and no event for it is lost meanwhile.
InputIsRead ==
    (~tls /\ inbox # <<>>) ~> (inbox = <<>> \/ conn = "closed" \/ readCb = "none")
-----------------------------------------------------------------------------
(* The inductive invariant.                                                *)

\* A send is at work in the middle of Read().
InUser == pc = "user" \/ (pc = "write" /\ caller = "user")

\* Which session there is, by the callback that is set and by where the worker is.
SessionInStep ==
    /\ conn = "closed" => pc = "idle" /\ session # "open"
    /\ readCb = "Setup" => session = "none" /\ inLen = 0
    /\ readCb = "Read" => session = "open" /\ inLen < inSize
    /\ pc = "handshake" => readCb = "Setup" /\ tls
    /\ pc = "recv" \/ InUser => readCb = "Read"
    /\ InUser => inLen > 0
    /\ out # <<>> => session = "open"
    /\ sessionCount = IF tls /\ session = "open" THEN 1 ELSE 0

\* A callback that failed is the last one called, and Write() runs only while it
\* is set.
CallbackInStep ==
    /\ CallbackIffOutput
    /\ removeMe => pc \in {"stage", "end"} /\ ~writeCb
    /\ pc = "write" => writeCb

\* The items follow each other in the stream, up to what was queued last.  Of an
\* item only bytes that were read are held, and only the first was begun.
OutInOrder ==
    /\ \A i \in 1 .. Len(out) :
          /\ out[i].start + out[i].len <= queued
          /\ out[i].held <= out[i].read /\ out[i].read <= out[i].len
          /\ out[i].held <= FileBuf
          /\ ~tls => out[i].held = 0
          /\ i > 1 => out[i].read = 0 /\ out[i].held = 0
          /\ i < Len(out) => out[i + 1].start = out[i].start + out[i].len
          /\ i = Len(out) => out[i].start + out[i].len = queued

\* The socket has nothing from behind the place where the first item stands, and
\* without TLS it has all before it.
SentInStep ==
    /\ sent <= queued
    /\ out # <<>> => sent <= out[1].start + out[1].read - out[1].held
    /\ ~tls /\ conn = "open" =>
          sent = IF out = <<>> THEN queued ELSE out[1].start + out[1].read

\* A session that the user closed reads no more, and what ends it before its output
\* is sent is a write that failed.
ClosedInStep ==
    /\ closing => readCb = "none"
    /\ closing /\ removeMe => out = <<>> \/ ended \in {"broken", "cut"}
    /\ CloseFlushes

IInv ==
    /\ TypeOK /\ SessionInStep /\ CallbackInStep /\ OutInOrder /\ SentInStep
    /\ ClosedInStep
=============================================================================
