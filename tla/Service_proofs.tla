--------------------------- MODULE Service_proofs ---------------------------
(***************************************************************************)
(* Proofs about Service, with and without TLS, for every size of buffers,  *)
(* messages, records and socket, and whatever the user and the peer send.  *)
(***************************************************************************)
EXTENDS Service, TLAPS

-----------------------------------------------------------------------------
(* What one call of a writer does, seen from the session.                  *)

\* Write() goes on with the queue, or returns to the send or to the server.
ControlEffect ==
    \/ /\ out' # <<>>
       /\ UNCHANGED <<pc, readCb, writeCb, writeReady, removeMe, ended>>
    \/ /\ caller = "user" /\ pc' = "user"
       /\ UNCHANGED <<readCb, writeReady, removeMe, ended>>
       /\ \/ out' # <<>> /\ writeCb' = TRUE
          \/ out' = <<>> /\ writeCb' = FALSE
    \/ /\ caller = "server" /\ pc' = "end"
       /\ removeMe' = TRUE /\ readCb' = "none" /\ writeCb' = FALSE
       /\ UNCHANGED writeReady
       /\ \/ ended' \in {"broken", "cut"}
          \/ ended' = "close" /\ out' = <<>>
    \/ /\ caller = "server"
       /\ UNCHANGED <<readCb, writeReady, removeMe, ended>>
       /\ \/ out' # <<>> /\ writeCb' = TRUE /\ pc' = "writeDone"
          \/ out' = <<>> /\ writeCb' = FALSE /\ pc' = "end"

\* The first item is done, and the socket has no byte from behind it, or it stays
\* at a place that the socket has not passed.
OutEffect ==
    \/ /\ out' = Tail(out)
       /\ sent' <= out[1].start + out[1].len
       /\ ~tls => sent' = out[1].start + out[1].len
    \/ \E item \in OutItem :
          /\ out' = [out EXCEPT ![1] = item]
          /\ item.start = out[1].start /\ item.len = out[1].len
          /\ item.held <= item.read /\ item.read <= item.len
          /\ item.held <= FileBuf
          /\ sent' <= item.start + item.read - item.held
          /\ ~tls => item.held = 0 /\ sent' = item.start + item.read

\* The socket took nothing, or bytes that follow those it has.
StreamEffect ==
    \/ UNCHANGED <<sent, skipped>>
    \/ /\ sent' \in Nat /\ sent' > sent /\ sent' <= queued
       /\ \E from \in sent .. sent' - 1 :
             skipped' = skipped + (from - sent) /\ (~tls => from = sent)

WriteEffect ==
    /\ pc = "write" /\ UNCHANGED writeKeeps
    /\ ControlEffect /\ OutEffect /\ StreamEffect
    /\ room' \in 0 .. MaxRoom /\ noSpace' \in BOOLEAN

-----------------------------------------------------------------------------
(* The writers have this effect.                                           *)

\* Write() returns to the user as it is asked to, to the server with the flags
\* that its result decides.
LEMMA WriteReturnsTo ==
    ASSUME flagTypeOK, NEW failed \in BOOLEAN, NEW keep \in BOOLEAN,
           WriteReturns(failed, keep)
    PROVE  /\ UNCHANGED writeReady
           /\ caller = "user" =>
                 pc' = "user" /\ writeCb' = keep /\ UNCHANGED <<readCb, removeMe>>
           /\ caller # "user" /\ failed =>
                 /\ pc' = "end" /\ removeMe' = TRUE
                 /\ readCb' = "none" /\ writeCb' = FALSE
           /\ caller # "user" /\ ~failed =>
                 /\ pc' = IF keep THEN "writeDone" ELSE "end"
                 /\ writeCb' = keep /\ UNCHANGED <<readCb, removeMe>>
  <1>1. CASE caller = "user"
    BY <1>1, Zenon DEF WriteReturns
  <1>2. CASE caller # "user" /\ failed = TRUE
    BY <1>2, Zenon DEF WriteReturns
  <1>3. CASE caller # "user" /\ failed = FALSE
    <2>1. removeMe' = removeMe
      BY <1>3, Zenon DEF WriteReturns, flagTypeOK
    <2>2. writeCb' = keep /\ readCb' = readCb /\ pc' = IF keep THEN "writeDone" ELSE "end"
      BY <1>3, Zenon DEF WriteReturns
    <2> QED BY <1>3, <2>1, <2>2, Zenon DEF WriteReturns
  <1> QED BY <1>1, <1>2, <1>3, Zenon

\* Changing the first item of a queue keeps the queue.
LEMMA FirstChanged ==
    ASSUME NEW q \in Seq(OutItem), q # <<>>, NEW item \in OutItem
    PROVE  /\ [q EXCEPT ![1] = item] \in Seq(OutItem) /\ [q EXCEPT ![1] = item] # <<>>
           /\ Len([q EXCEPT ![1] = item]) = Len(q)
  OBVIOUS

\* An item that is done, ret 0.
LEMMA NextOutEffect ==
    ASSUME TypeOK, NextOut
    PROVE  out' = Tail(out) /\ ControlEffect
  <1>1. out' = Tail(out)
    BY DEF NextOut
  <1>2. CASE Tail(out) # <<>>
    BY <1>1, <1>2 DEF NextOut, ControlEffect
  <1>3. CASE Tail(out) = <<>>
    <2>1. /\ WriteReturns(readCb = "none", FALSE)
          /\ ended' = IF caller = "server" /\ readCb = "none" THEN "close" ELSE ended
      BY <1>3, Zenon DEF NextOut
    <2>2. CASE readCb = "none"
      <3>1. WriteReturns(TRUE, FALSE)
        BY <2>1, <2>2, Zenon
      <3> QED BY <1>1, <1>3, <2>1, <2>2, <3>1, WriteReturnsTo
          DEF ControlEffect, TypeOK, placeTypeOK
    <2>3. CASE readCb # "none"
      <3>1. WriteReturns(FALSE, FALSE)
        BY <2>1, <2>3, Zenon
      <3> QED BY <1>1, <1>3, <2>1, <2>3, <3>1, WriteReturnsTo
          DEF ControlEffect, TypeOK, placeTypeOK
    <2> QED BY <2>2, <2>3
  <1> QED BY <1>1, <1>2, <1>3

\* An item that is to go on later, ret 2.
LEMMA WriteLaterEffect ==
    ASSUME TypeOK, out # <<>>, NEW item \in OutItem, WriteLater(item)
    PROVE  out' = [out EXCEPT ![1] = item] /\ ControlEffect
  <1>1. out' = [out EXCEPT ![1] = item] /\ WriteReturns(FALSE, TRUE) /\ ended' = ended
    BY DEF WriteLater
  <1>2. out' # <<>>
    BY <1>1, FirstChanged DEF TypeOK
  <1> QED BY <1>1, <1>2, WriteReturnsTo DEF ControlEffect, TypeOK, placeTypeOK

\* An item that ends the connection, ret 1 or -1.
LEMMA WriteFailsEffect ==
    ASSUME TypeOK, out # <<>>, NEW item \in OutItem, NEW why \in {"broken", "cut"},
           WriteFails(item, why)
    PROVE  out' = [out EXCEPT ![1] = item] /\ ControlEffect
  <1>1. /\ out' = [out EXCEPT ![1] = item] /\ WriteReturns(TRUE, TRUE)
        /\ ended' = IF caller = "server" THEN why ELSE ended
    BY DEF WriteFails
  <1>2. out' # <<>>
    BY <1>1, FirstChanged DEF TypeOK
  <1> QED BY <1>1, <1>2, WriteReturnsTo DEF ControlEffect, TypeOK, placeTypeOK

\* What the invariant says of the item at hand.
LEMMA FirstItem ==
    ASSUME IInv, pc = "write"
    PROVE  /\ out # <<>> /\ out \in Seq(OutItem) /\ out[1] \in OutItem /\ conn = "open"
           /\ out[1].start + out[1].len <= queued
           /\ out[1].held <= out[1].read /\ out[1].read <= out[1].len
           /\ out[1].held <= FileBuf
           /\ sent <= out[1].start + out[1].read - out[1].held
           /\ ~tls => out[1].held = 0 /\ sent = out[1].start + out[1].read
  <1>1. out # <<>> /\ out \in Seq(OutItem) /\ conn = "open"
    BY DEF IInv, TypeOK, placeTypeOK, CallbackInStep, CallbackIffOutput, SessionInStep
  <1>2. 1 \in 1 .. Len(out) /\ out[1] \in OutItem
    BY <1>1
  <1> QED BY <1>1, <1>2 DEF IInv, OutInOrder, SentInStep

\* The socket takes bytes that follow those it has, and no more than it has room
\* for.
LEMMA TakesEffect ==
    ASSUME IInv, NEW from \in Nat, NEW n \in Nat, NEW wanted \in Nat,
           Takes(from, n, wanted), n <= room, sent <= from, from + n <= queued,
           ~tls => from = sent
    PROVE  /\ StreamEffect /\ sent' = IF n > 0 THEN from + n ELSE sent
           /\ room' \in 0 .. MaxRoom /\ noSpace' \in BOOLEAN
  <1>1. noSpace' \in BOOLEAN
    BY Zenon DEF Takes
  <1>2. room' \in 0 .. MaxRoom /\ sent' = IF n > 0 THEN from + n ELSE sent
    BY ServiceAssumption DEF Takes, IInv, TypeOK, countTypeOK
  <1>3. StreamEffect
    <2>1. CASE n = 0
      BY <2>1 DEF Takes, StreamEffect
    <2>2. CASE n > 0
      <3>1. /\ sent' = from + n /\ skipped' = skipped + (from - sent)
            /\ sent \in Nat /\ queued \in Nat
        BY <2>2 DEF Takes, IInv, TypeOK, countTypeOK
      <3>2. from \in sent .. sent' - 1
        BY <2>2, <3>1
      <3> QED BY <2>2, <3>1, <3>2 DEF StreamEffect
    <2> QED BY <2>1, <2>2
  <1> QED BY <1>1, <1>2, <1>3

\* The item stays, at a place that the socket has not passed.
LEMMA KeepsItem ==
    ASSUME NEW item \in OutItem, out' = [out EXCEPT ![1] = item],
           item.start = out[1].start, item.len = out[1].len,
           item.held <= item.read, item.read <= item.len, item.held <= FileBuf,
           sent' <= item.start + item.read - item.held,
           ~tls => item.held = 0 /\ sent' = item.start + item.read
    PROVE  OutEffect
  BY Zenon DEF OutEffect

\* A buffer without TLS: the part that was sent is remembered.
LEMMA TCPWrite_bufferEffect == IInv /\ TCPWrite_buffer => WriteEffect
  <1> SUFFICES ASSUME IInv, TCPWrite_buffer PROVE WriteEffect
    OBVIOUS
  <1> DEFINE b == out[1]
             n == Least(b.len - b.read, room)
             item == [b EXCEPT !.read = @ + n]
  <1>1. /\ pc = "write" /\ tls = FALSE /\ UNCHANGED writeKeeps
        /\ Takes(b.start + b.read, n, b.len - b.read)
        /\ \/ n = b.len - b.read /\ NextOut
           \/ n < b.len - b.read /\ WriteLater(item)
    BY DEF TCPWrite_buffer, Writing
  <1>2. TypeOK /\ room \in Nat /\ sent \in Nat /\ queued \in Nat
    BY ServiceAssumption DEF IInv, TypeOK, countTypeOK
  <1>3. /\ out # <<>> /\ b \in OutItem
        /\ b.start + b.len <= queued /\ b.read <= b.len /\ b.held = 0
        /\ sent = b.start + b.read
    BY <1>1, FirstItem
  <1>4. /\ b.start \in Nat /\ b.len \in Nat /\ b.read \in Nat
        /\ n \in Nat /\ n <= room /\ n <= b.len - b.read
    BY <1>2, <1>3 DEF OutItem, Least
  <1>a. b = out[1]
    OBVIOUS
  <1> HIDE DEF b, n
  <1>5. /\ StreamEffect /\ sent' = IF n > 0 THEN b.start + b.read + n ELSE sent
        /\ room' \in 0 .. MaxRoom /\ noSpace' \in BOOLEAN
    <2>1. /\ b.start + b.read \in Nat /\ b.len - b.read \in Nat
          /\ b.start + b.read + n <= queued
      BY <1>2, <1>3, <1>4
    <2> QED BY <1>1, <1>3, <1>4, <2>1, TakesEffect
  <1>6. sent' = b.start + b.read + n
    BY <1>3, <1>4, <1>5
  <1>7. CASE n = b.len - b.read /\ NextOut
    <2>1. out' = Tail(out) /\ ControlEffect
      BY <1>2, <1>7, NextOutEffect
    <2>2. OutEffect
      BY <1>a, <1>1, <1>4, <1>6, <1>7, <2>1 DEF OutEffect
    <2> QED BY <1>1, <1>5, <2>1, <2>2 DEF WriteEffect
  <1>8. CASE n < b.len - b.read /\ WriteLater(item)
    <2>1. /\ item \in OutItem /\ item.start = b.start /\ item.len = b.len
          /\ item.read = b.read + n /\ item.held = 0
      BY <1>3, <1>4 DEF OutItem
    <2>2. out' = [out EXCEPT ![1] = item] /\ ControlEffect
      BY <1>2, <1>3, <1>8, <2>1, WriteLaterEffect
    <2>3. OutEffect
      <3>1. /\ item.held <= item.read /\ item.read <= item.len /\ item.held <= FileBuf
            /\ sent' <= item.start + item.read - item.held
            /\ item.held = 0 /\ sent' = item.start + item.read
        BY <1>4, <1>6, <1>8, <2>1, ServiceAssumption
      <3> QED BY <1>a, <2>1, <2>2, <3>1, KeepsItem
    <2> QED BY <1>1, <1>5, <2>2, <2>3 DEF WriteEffect
  <1> QED BY <1>1, <1>7, <1>8

\* A buffer with TLS: what the record does not take is left out.
LEMMA TLSWrite_bufferEffect == IInv /\ TLSWrite_buffer => WriteEffect
  <1> SUFFICES ASSUME IInv, TLSWrite_buffer PROVE WriteEffect
    OBVIOUS
  <1> DEFINE b == out[1]
             n == Least(b.len - b.read, MaxRecord)
  <1>1. /\ pc = "write" /\ tls = TRUE /\ UNCHANGED writeKeeps
        /\ \/ n <= room /\ Takes(b.start + b.read, n, n) /\ NextOut
           \/ n > room /\ Takes(b.start + b.read, 0, n) /\ WriteLater(b)
    BY DEF TLSWrite_buffer, Writing
  <1>2. TypeOK /\ room \in Nat /\ sent \in Nat /\ queued \in Nat
    BY ServiceAssumption DEF IInv, TypeOK, countTypeOK
  <1>3. /\ out # <<>> /\ b \in OutItem
        /\ b.start + b.len <= queued /\ b.read <= b.len
        /\ b.held <= b.read /\ b.held <= FileBuf
        /\ sent <= b.start + b.read - b.held
    BY <1>1, FirstItem
  <1>4. /\ b.start \in Nat /\ b.len \in Nat /\ b.read \in Nat /\ b.held \in Nat
        /\ n \in Nat /\ n <= b.len - b.read
    BY <1>2, <1>3, ServiceAssumption DEF OutItem, Least
  <1>a. b = out[1]
    OBVIOUS
  <1> HIDE DEF b, n
  <1>5. /\ b.start + b.read \in Nat /\ sent <= b.start + b.read
        /\ b.start + b.read + n <= queued /\ b.start + b.read + 0 <= queued
    BY <1>2, <1>3, <1>4, SMTT(20)
  <1>6. CASE n <= room /\ Takes(b.start + b.read, n, n) /\ NextOut
    <2>1. out' = Tail(out) /\ ControlEffect
      BY <1>2, <1>6, NextOutEffect
    <2>2. /\ StreamEffect /\ sent' = IF n > 0 THEN b.start + b.read + n ELSE sent
          /\ room' \in 0 .. MaxRoom /\ noSpace' \in BOOLEAN
      BY <1>1, <1>4, <1>5, <1>6, TakesEffect
    <2>3. OutEffect
      <3>1. sent' <= b.start + b.len
        BY <1>2, <1>3, <1>4, <1>5, <2>2, SMTT(20)
      <3> QED BY <1>a, <1>1, <2>1, <3>1 DEF OutEffect
    <2> QED BY <1>1, <2>1, <2>2, <2>3 DEF WriteEffect
  <1>7. CASE n > room /\ Takes(b.start + b.read, 0, n) /\ WriteLater(b)
    <2>1. out' = [out EXCEPT ![1] = b] /\ ControlEffect
      BY <1>2, <1>3, <1>7, WriteLaterEffect
    <2>2. /\ StreamEffect /\ sent' = IF 0 > 0 THEN b.start + b.read + 0 ELSE sent
          /\ room' \in 0 .. MaxRoom /\ noSpace' \in BOOLEAN
      BY <1>1, <1>2, <1>4, <1>5, <1>7, TakesEffect
    <2>3. OutEffect
      <3>1. sent' <= b.start + b.read - b.held
        BY <1>3, <2>2
      <3> QED BY <1>a, <1>1, <1>3, <2>1, <3>1, KeepsItem
    <2> QED BY <1>1, <2>1, <2>2, <2>3 DEF WriteEffect
  <1> QED BY <1>1, <1>6, <1>7

\* A file without TLS: what sendfile() took moves the descriptor.
LEMMA TCPWrite_pathEffect == IInv /\ TCPWrite_path => WriteEffect
  <1> SUFFICES ASSUME IInv, TCPWrite_path PROVE WriteEffect
    OBVIOUS
  <1> DEFINE p == out[1]
             n == Least(p.len - p.read, room)
             item == [p EXCEPT !.read = @ + n]
  <1>1. /\ pc = "write" /\ tls = FALSE /\ UNCHANGED writeKeeps
        /\ Takes(p.start + p.read, n, p.len - p.read)
        /\ \/ p.len > 0 /\ n = p.len /\ NextOut
           \/ p.read < p.len /\ room = 0 /\ WriteLater(p)
           \/ WriteFails(item, "cut")
    BY DEF TCPWrite_path, Writing
  <1>2. TypeOK /\ room \in Nat /\ sent \in Nat /\ queued \in Nat
    BY ServiceAssumption DEF IInv, TypeOK, countTypeOK
  <1>3. /\ out # <<>> /\ p \in OutItem
        /\ p.start + p.len <= queued /\ p.read <= p.len /\ p.held = 0
        /\ sent = p.start + p.read
    BY <1>1, FirstItem
  <1>4. /\ p.start \in Nat /\ p.len \in Nat /\ p.read \in Nat
        /\ n \in Nat /\ n <= room /\ n <= p.len - p.read
    BY <1>2, <1>3 DEF OutItem, Least
  <1>a. p = out[1]
    OBVIOUS
  <1> HIDE DEF p, n
  <1>5. /\ StreamEffect /\ sent' = IF n > 0 THEN p.start + p.read + n ELSE sent
        /\ room' \in 0 .. MaxRoom /\ noSpace' \in BOOLEAN
    <2>1. /\ p.start + p.read \in Nat /\ p.len - p.read \in Nat
          /\ p.start + p.read + n <= queued
      BY <1>2, <1>3, <1>4
    <2> QED BY <1>1, <1>3, <1>4, <2>1, TakesEffect
  <1>6. sent' = p.start + p.read + n
    BY <1>3, <1>4, <1>5
  <1>7. CASE p.len > 0 /\ n = p.len /\ NextOut
    <2>1. out' = Tail(out) /\ ControlEffect
      BY <1>2, <1>7, NextOutEffect
    <2>2. OutEffect
      BY <1>a, <1>1, <1>4, <1>6, <1>7, <2>1 DEF OutEffect
    <2> QED BY <1>1, <1>5, <2>1, <2>2 DEF WriteEffect
  <1>8. CASE p.read < p.len /\ room = 0 /\ WriteLater(p)
    <2>1. out' = [out EXCEPT ![1] = p] /\ ControlEffect
      BY <1>2, <1>3, <1>8, WriteLaterEffect
    <2>2. n = 0
      BY <1>4, <1>8
    <2>3. OutEffect
      <3>1. /\ p.held <= p.read /\ p.held <= FileBuf
            /\ sent' <= p.start + p.read - p.held /\ sent' = p.start + p.read
        BY <1>3, <1>4, <1>6, <2>2, ServiceAssumption
      <3> QED BY <1>a, <1>3, <2>1, <3>1, KeepsItem
    <2> QED BY <1>1, <1>5, <2>1, <2>3 DEF WriteEffect
  <1>9. CASE WriteFails(item, "cut")
    <2>1. /\ item \in OutItem /\ item.start = p.start /\ item.len = p.len
          /\ item.read = p.read + n /\ item.held = 0
      BY <1>3, <1>4 DEF OutItem
    <2>2. out' = [out EXCEPT ![1] = item] /\ ControlEffect
      BY <1>2, <1>3, <1>9, <2>1, WriteFailsEffect
    <2>3. OutEffect
      <3>1. /\ item.held <= item.read /\ item.read <= item.len /\ item.held <= FileBuf
            /\ sent' <= item.start + item.read - item.held
            /\ item.held = 0 /\ sent' = item.start + item.read
        BY <1>4, <1>6, <2>1, ServiceAssumption
      <3> QED BY <1>a, <2>1, <2>2, <3>1, KeepsItem
    <2> QED BY <1>1, <1>5, <2>2, <2>3 DEF WriteEffect
  <1> QED BY <1>1, <1>7, <1>8, <1>9

\* A file with TLS: the bytes in the buffer are behind the descriptor, and follow
\* those that the socket has.
LEMMA TLSWrite_pathEffect == IInv /\ TLSWrite_path => WriteEffect
  <1> SUFFICES ASSUME IInv, TLSWrite_path PROVE WriteEffect
    OBVIOUS
  <1> DEFINE p    == out[1]
             lft  == IF p.left = 0 THEN p.len ELSE p.left
             fill == Least(FileBuf - p.held, lft)
             q    == [p EXCEPT !.read = @ + fill, !.held = @ + fill, !.left = lft - fill]
             from == q.start + q.read - q.held
             item == [q EXCEPT !.held = 0]
  <1>1. /\ pc = "write" /\ tls = TRUE /\ UNCHANGED writeKeeps
        /\ \/ WriteFails(p, "cut") /\ UNCHANGED <<roomVars, sent, skipped>>
           \/ /\ fill <= p.len - p.read
              /\ Takes(from, 0, q.held) /\ WriteLater(q)
           \/ /\ fill <= p.len - p.read /\ q.held <= room
              /\ Takes(from, q.held, q.held)
              /\ \/ NextOut
                 \/ /\ out' = [out EXCEPT ![1] = item]
                    /\ UNCHANGED <<pc, readCb, writeCb, writeReady, removeMe, ended>>
    BY DEF TLSWrite_path, Writing
  <1>2. /\ TypeOK /\ room \in Nat /\ sent \in Nat /\ queued \in Nat
        /\ room \in 0 .. MaxRoom
    BY ServiceAssumption DEF IInv, TypeOK, countTypeOK
  <1>3. /\ out # <<>> /\ out \in Seq(OutItem) /\ p \in OutItem
        /\ p.start + p.len <= queued /\ p.read <= p.len
        /\ p.held <= p.read /\ p.held <= FileBuf
        /\ sent <= p.start + p.read - p.held
    BY <1>1, FirstItem
  <1>4. /\ p.start \in Nat /\ p.len \in Nat /\ p.read \in Nat /\ p.held \in Nat
        /\ p.left \in Nat
    BY <1>3 DEF OutItem
  <1>5. fill \in Nat /\ fill <= FileBuf - p.held /\ fill <= lft /\ lft \in Nat
    BY <1>3, <1>4, ServiceAssumption, SMTT(20) DEF Least
  <1>b. p.read + fill \in Nat /\ p.held + fill \in Nat /\ lft - fill \in Nat
    BY <1>4, <1>5
  <1>a. p = out[1]
    OBVIOUS
  <1> HIDE DEF p, fill, lft
  <1>6. /\ q \in OutItem /\ q.start = p.start /\ q.len = p.len
        /\ q.read = p.read + fill /\ q.held = p.held + fill
    BY <1>3, <1>b DEF OutItem
  <1> HIDE DEF q
  <1>7. /\ item \in OutItem /\ item.start = p.start /\ item.len = p.len
        /\ item.read = p.read + fill /\ item.held = 0
    BY <1>6 DEF OutItem
  <1> HIDE DEF item
  <1>8. from = p.start + p.read - p.held /\ from \in Nat /\ sent <= from
    BY <1>3, <1>4, <1>5, <1>6, SMTT(20)
  <1> HIDE DEF from
  <1>c. /\ q.held \in Nat /\ from + 0 <= queued
        /\ q.held <= q.read /\ q.held <= FileBuf /\ sent <= q.start + q.read - q.held
        /\ from + q.held = p.start + p.read + fill
        /\ sent <= p.start + p.read + fill
        /\ fill <= p.len - p.read => q.read <= q.len /\ from + q.held <= queued
    <2> DEFINE s == p.start
               l == p.len
               r == p.read
               h == p.held
    <2>1. /\ s \in Nat /\ l \in Nat /\ r \in Nat /\ h \in Nat /\ fill \in Nat
          /\ from = s + r - h /\ sent <= s + r - h /\ s + l <= queued /\ r <= l
          /\ h <= r /\ h <= FileBuf /\ fill <= FileBuf - h
          /\ q.start = s /\ q.len = l /\ q.read = r + fill /\ q.held = h + fill
      BY <1>3, <1>4, <1>5, <1>6, <1>8
    <2> HIDE DEF s, l, r, h
    <2>2. /\ h + fill \in Nat /\ s + r - h + 0 <= queued
          /\ h + fill <= r + fill /\ h + fill <= FileBuf /\ sent <= s + (r + fill) - (h + fill)
          /\ s + r - h + (h + fill) = s + r + fill /\ sent <= s + r + fill
          /\ fill <= l - r => r + fill <= l /\ s + r - h + (h + fill) <= queued
      BY <1>2, <2>1, ServiceAssumption
    <2>3. fill <= l - r => q.read <= q.len /\ from + q.held <= queued
      BY <2>1, <2>2
    <2> QED BY <2>1, <2>2, <2>3 DEF s, l, r, h
  <1>9. CASE WriteFails(p, "cut") /\ UNCHANGED <<roomVars, sent, skipped>>
    <2>1. out' = [out EXCEPT ![1] = p] /\ ControlEffect
      BY <1>2, <1>3, <1>9, WriteFailsEffect
    <2>2. OutEffect
      BY <1>a, <1>1, <1>3, <1>4, <1>9, <2>1 DEF OutEffect
    <2>3. noSpace' \in BOOLEAN
      BY <1>2, <1>9, Zenon DEF roomVars, TypeOK, flagTypeOK
    <2>4. room' \in 0 .. MaxRoom
      BY <1>2, <1>9 DEF roomVars
    <2> QED BY <1>1, <1>9, <2>1, <2>2, <2>3, <2>4 DEF WriteEffect, StreamEffect
  <1>10. CASE fill <= p.len - p.read /\ Takes(from, 0, q.held) /\ WriteLater(q)
    <2>1. out' = [out EXCEPT ![1] = q] /\ ControlEffect
      BY <1>2, <1>3, <1>6, <1>10, WriteLaterEffect
    <2>2. /\ StreamEffect /\ sent' = IF 0 > 0 THEN from + 0 ELSE sent
          /\ room' \in 0 .. MaxRoom /\ noSpace' \in BOOLEAN
      <3>1. q.held \in Nat /\ 0 <= room /\ from + 0 <= queued
        BY <1>2, <1>c
      <3> QED BY <1>1, <1>8, <1>10, <3>1, TakesEffect
    <2>3. OutEffect
      <3>1. /\ q.held <= q.read /\ q.read <= q.len /\ q.held <= FileBuf
            /\ sent' <= q.start + q.read - q.held
        BY <1>c, <1>10, <2>2
      <3> QED BY <1>a, <1>1, <1>6, <2>1, <3>1, KeepsItem
    <2> QED BY <1>1, <2>1, <2>2, <2>3 DEF WriteEffect
  <1>11. CASE /\ fill <= p.len - p.read /\ q.held <= room /\ Takes(from, q.held, q.held)
              /\ \/ NextOut
                 \/ /\ out' = [out EXCEPT ![1] = item]
                    /\ UNCHANGED <<pc, readCb, writeCb, writeReady, removeMe, ended>>
    <2>1. /\ StreamEffect /\ sent' = IF q.held > 0 THEN from + q.held ELSE sent
          /\ room' \in 0 .. MaxRoom /\ noSpace' \in BOOLEAN
      <3>1. q.held \in Nat /\ from + q.held <= queued
        BY <1>c, <1>11
      <3> QED BY <1>1, <1>8, <1>11, <3>1, TakesEffect
    <2>2. sent' <= p.start + p.read + fill
      BY <1>c, <2>1
    <2>3. CASE NextOut
      <3>1. out' = Tail(out) /\ ControlEffect
        BY <1>2, <2>3, NextOutEffect
      <3>2. sent' \in Nat /\ sent' <= p.start + p.len
        BY <1>2, <1>4, <1>5, <1>6, <1>8, <1>11, <2>1, <2>2
      <3>3. OutEffect
        BY <1>a, <1>1, <3>1, <3>2 DEF OutEffect
      <3> QED BY <1>1, <2>1, <3>1, <3>3 DEF WriteEffect
    <2>4. CASE /\ out' = [out EXCEPT ![1] = item]
               /\ UNCHANGED <<pc, readCb, writeCb, writeReady, removeMe, ended>>
      <3>1. ControlEffect
        BY <1>3, <1>7, <2>4, FirstChanged DEF ControlEffect
      <3>2. OutEffect
        <4>1. /\ item.held <= item.read /\ item.read <= item.len /\ item.held <= FileBuf
              /\ sent' <= item.start + item.read - item.held
          BY <1>4, <1>5, <1>7, <1>11, <2>2, ServiceAssumption
        <4> QED BY <1>a, <1>1, <1>7, <2>4, <4>1, KeepsItem
      <3> QED BY <1>1, <2>1, <3>1, <3>2 DEF WriteEffect
    <2> QED BY <1>11, <2>3, <2>4
  <1> QED BY <1>1, <1>9, <1>10, <1>11

\* A socket that is broken takes nothing.
LEMMA WriteBrokenEffect == IInv /\ WriteBroken => WriteEffect
  <1> SUFFICES ASSUME IInv, WriteBroken PROVE WriteEffect
    OBVIOUS
  <1>1. /\ pc = "write" /\ UNCHANGED writeKeeps /\ WriteFails(out[1], "broken")
        /\ UNCHANGED <<roomVars, sent, skipped>>
    BY DEF WriteBroken
  <1>2. /\ TypeOK /\ room \in 0 .. MaxRoom /\ out # <<>> /\ out[1] \in OutItem
        /\ out[1].held <= out[1].read /\ out[1].read <= out[1].len
        /\ out[1].held <= FileBuf
        /\ sent <= out[1].start + out[1].read - out[1].held
        /\ ~tls => out[1].held = 0 /\ sent = out[1].start + out[1].read
    BY <1>1, FirstItem DEF IInv, TypeOK, countTypeOK
  <1>3. out' = [out EXCEPT ![1] = out[1]] /\ ControlEffect
    BY <1>1, <1>2, WriteFailsEffect
  <1>4. tls' = tls /\ sent' = sent
    BY <1>1 DEF writeKeeps
  <1>5. OutEffect
    BY <1>2, <1>3, <1>4 DEF OutEffect
  <1>6. noSpace' \in BOOLEAN
    BY <1>1, <1>2, Zenon DEF roomVars, TypeOK, flagTypeOK
  <1> QED BY <1>1, <1>2, <1>3, <1>5, <1>6 DEF WriteEffect, StreamEffect, roomVars

\* Every step of Write() is one of the five.
LEMMA WriteIsEffect == IInv /\ Write => WriteEffect
  BY TCPWrite_bufferEffect, TLSWrite_bufferEffect, TCPWrite_pathEffect,
     TLSWrite_pathEffect, WriteBrokenEffect DEF Write

-----------------------------------------------------------------------------
(* The invariant.                                                          *)

\* Of a sequence without its first element, element i is the next one.
LEMMA TailOf ==
    ASSUME NEW S, NEW q \in Seq(S), q # <<>>
    PROVE  /\ Tail(q) \in Seq(S) /\ Len(Tail(q)) = Len(q) - 1
           /\ \A i \in 1 .. Len(q) - 1 : Tail(q)[i] = q[i + 1]
  OBVIOUS

\* An item that is queued starts where the last one ends.
LEMMA AppendKeepsOrder ==
    ASSUME OutInOrder, out \in Seq(OutItem), queued \in Nat,
           NEW file \in BOOLEAN, NEW n \in Nat, Item(file, n) \in OutItem,
           out' = Append(out, Item(file, n)), queued' = queued + n, tls' = tls
    PROVE  OutInOrder'
  <1>1. /\ Len(out') = Len(out) + 1 /\ Len(out) \in Nat
        /\ \A i \in 1 .. Len(out) : out'[i] = out[i] /\ out[i] \in OutItem
        /\ out'[Len(out) + 1] = Item(file, n)
    OBVIOUS
  <1>2. /\ Item(file, n).start = queued /\ Item(file, n).len = n
        /\ Item(file, n).read = 0 /\ Item(file, n).held = 0
    BY DEF Item
  <1> SUFFICES ASSUME NEW i \in 1 .. Len(out')
               PROVE  /\ out'[i].start + out'[i].len <= queued'
                      /\ out'[i].held <= out'[i].read /\ out'[i].read <= out'[i].len
                      /\ out'[i].held <= FileBuf
                      /\ ~tls => out'[i].held = 0
                      /\ i > 1 => out'[i].read = 0 /\ out'[i].held = 0
                      /\ i < Len(out') => out'[i + 1].start = out'[i].start + out'[i].len
                      /\ i = Len(out') => out'[i].start + out'[i].len = queued'
    BY DEF OutInOrder
  <1>3. CASE i = Len(out) + 1
    BY <1>1, <1>2, <1>3, ServiceAssumption
  <1>4. CASE i \in 1 .. Len(out)
    <2>1. out'[i] = out[i] /\ out[i].start \in Nat /\ out[i].len \in Nat
      BY <1>1, <1>4 DEF OutItem
    <2>2. i < Len(out) => out'[i + 1] = out[i + 1]
      BY <1>1, <1>4
    <2>3. i = Len(out) => out'[i + 1].start = queued
      BY <1>1, <1>2
    <2> QED BY <1>1, <1>4, <2>1, <2>2, <2>3, SMTT(20) DEF OutInOrder
  <1> QED BY <1>1, <1>3, <1>4

\* A writer takes the first item away, or moves its place.
LEMMA WriteKeepsOrder ==
    ASSUME OutInOrder, out \in Seq(OutItem), out # <<>>, OutEffect,
           queued' = queued, tls' = tls
    PROVE  OutInOrder'
  <1>1. CASE out' = Tail(out)
    BY <1>1, TailOf DEF OutInOrder
  <1>2. ASSUME NEW item \in OutItem, out' = [out EXCEPT ![1] = item],
               item.start = out[1].start, item.len = out[1].len,
               item.held <= item.read, item.read <= item.len, item.held <= FileBuf,
               ~tls => item.held = 0
        PROVE  OutInOrder'
    <2>1. /\ Len(out') = Len(out) /\ out'[1] = item
          /\ \A i \in 1 .. Len(out) : i > 1 => out'[i] = out[i]
      BY <1>2
    <2> SUFFICES ASSUME NEW i \in 1 .. Len(out')
                 PROVE  /\ out'[i].start + out'[i].len <= queued'
                        /\ out'[i].held <= out'[i].read /\ out'[i].read <= out'[i].len
                        /\ out'[i].held <= FileBuf
                        /\ ~tls => out'[i].held = 0
                        /\ i > 1 => out'[i].read = 0 /\ out'[i].held = 0
                        /\ i < Len(out') => out'[i + 1].start = out'[i].start + out'[i].len
                        /\ i = Len(out') => out'[i].start + out'[i].len = queued'
      BY DEF OutInOrder
    <2>2. out'[i].start = out[i].start /\ out'[i].len = out[i].len
      BY <1>2, <2>1
    <2>3. i < Len(out) => out'[i + 1] = out[i + 1]
      BY <2>1
    <2>4. CASE i = 1
      <3>1. /\ out[i].start + out[i].len <= queued
            /\ i < Len(out) => out[i + 1].start = out[i].start + out[i].len
            /\ i = Len(out) => out[i].start + out[i].len = queued
        BY <2>1 DEF OutInOrder
      <3>2. out'[i] = item
        BY <2>1, <2>4
      <3> QED BY <1>2, <2>1, <2>2, <2>3, <2>4, <3>1, <3>2
    <2>5. CASE i > 1
      BY <2>1, <2>2, <2>3, <2>5 DEF OutInOrder
    <2> QED BY <2>4, <2>5
  <1> QED BY <1>1, <1>2 DEF OutEffect

\* And the socket stays behind it.
LEMMA WriteKeepsPlace ==
    ASSUME OutInOrder, out \in Seq(OutItem), out # <<>>, OutEffect,
           queued \in Nat, sent' \in Nat, sent' <= queued, queued' = queued, tls' = tls
    PROVE  SentInStep'
  <1>1. /\ Len(out) \in Nat \ {0} /\ out[1] \in OutItem /\ 1 \in 1 .. Len(out)
        /\ out[1].start \in Nat /\ out[1].len \in Nat
    <2>1. Len(out) \in Nat \ {0} /\ 1 \in 1 .. Len(out) /\ out[1] \in OutItem
      OBVIOUS
    <2> QED BY <2>1 DEF OutItem
  <1>a. Len(out) = 1 \/ Len(out) > 1
    <2>1. Len(out) \in Nat /\ Len(out) # 0
      OBVIOUS
    <2>2. \A k \in Nat : k # 0 => k = 1 \/ k > 1
      OBVIOUS
    <2> QED BY <2>1, <2>2, Zenon
  <1>2. ASSUME out' = Tail(out), sent' <= out[1].start + out[1].len,
               ~tls => sent' = out[1].start + out[1].len
        PROVE  SentInStep'
    <2>1. CASE Len(out) = 1
      BY <1>1, <1>2, <2>1, TailOf DEF SentInStep, OutInOrder
    <2>2. CASE Len(out) > 1
      <3>a. Len(out') = Len(out) - 1 /\ 1 \in 1 .. Len(out) - 1 /\ 2 \in 1 .. Len(out)
        BY <1>1, <1>2, <2>2, TailOf
      <3>b. out'[1] = out[1 + 1]
        BY <1>2, <3>a, TailOf
      <3>1. out' # <<>> /\ out'[1] = out[2] /\ 2 \in 1 .. Len(out) /\ out[2] \in OutItem
        BY <1>1, <2>2, <3>a, <3>b
      <3>2. /\ out[2].start = out[1].start + out[1].len
            /\ out[2].read = 0 /\ out[2].held = 0
        BY <1>1, <2>2, <3>1 DEF OutInOrder
      <3> QED BY <1>1, <1>2, <3>1, <3>2 DEF SentInStep
    <2> QED BY <1>a, <2>1, <2>2, Zenon
  <1>3. ASSUME NEW item \in OutItem, out' = [out EXCEPT ![1] = item],
               sent' <= item.start + item.read - item.held,
               ~tls => item.held = 0 /\ sent' = item.start + item.read
        PROVE  SentInStep'
    <2>1. out' # <<>> /\ out'[1] = item
      BY <1>3
    <2> QED BY <1>3, <2>1 DEF SentInStep
  <1> QED BY <1>2, <1>3 DEF OutEffect

\* removeConnection() closes the connection and leaves nothing of the session.
RemovalEffect ==
    /\ conn = "open" /\ conn' = "closed" /\ pc' = "idle"
    /\ readCb' = "none" /\ writeCb' = FALSE /\ removeMe' = FALSE
    /\ session' \in {"none", "freed", "leaked"} /\ out' = <<>> /\ sessionCount' = 0
    /\ UNCHANGED <<tls, closing, readReady, writeReady, doomed, caller, inVars, roomVars,
                   streamVars, peerVars>>
    /\ due' = FALSE

\* The end of ServiceConnection(): the connection is removed, or waits for more.
FinishEffect ==
    \/ /\ RemovalEffect
       /\ \/ ended' = "doomed"
          \/ ended' = ended /\ (removeMe \/ (readCb = "none" /\ ~writeCb))
    \/ /\ pc = "end" /\ pc' = "idle" /\ removeMe = FALSE
       /\ UNCHANGED <<tls, closing, conn, cbVars, taskVars, caller, removeMe, session,
                      inVars, out, sessionCount, roomVars, streamVars, peerVars, ended>>

\* One read: the buffer has room left, grows, or is too small for the message.
ReadSomeEffect ==
    /\ pc = "recv" /\ inLen' \in Nat /\ inLen' > inLen /\ inbox' \in Seq(Nat \ {0})
    /\ \/ /\ inLen' < inSize /\ pc' = "user"
          /\ UNCHANGED <<inSize, readCb, writeCb, readReady, removeMe, ended>>
       \/ /\ inLen' = inSize /\ inSize < MaxMessage /\ inSize' = inSize + ChunkLen
          /\ UNCHANGED <<pc, readCb, writeCb, readReady, removeMe, ended>>
       \/ /\ inLen' = inSize /\ UNCHANGED <<inSize, readReady>>
          /\ pc' = "stage" /\ removeMe' = TRUE /\ ended' = "too long"
          /\ readCb' = "none" /\ writeCb' = FALSE
    /\ UNCHANGED <<tls, closing, conn, writeReady, taskVars, caller, session, out,
                   sessionCount, roomVars, streamVars, peerVars>>

\* A send queues, and calls Write() or leaves it to the server.
SendEffect(file, n) ==
    /\ pc = "user" /\ sends' \in 0 .. MaxSends /\ queued' = queued + n
    /\ Item(file, n) \in OutItem /\ out' = Append(out, Item(file, n))
    /\ writeCb' = TRUE
    /\ \/ pc' = "write" /\ caller' = "user"
       \/ pc' = "user" /\ UNCHANGED caller
    /\ UNCHANGED <<tls, closing, conn, readCb, readReady, writeReady, taskVars, removeMe,
                   session, inVars, sessionCount, roomVars, sent, skipped, peerVars,
                   ended>>

\* Whoever removes the connection runs Cleanup() for a session that is open.
LEMMA RemovalIsEffect ==
    ASSUME IInv, conn = "open", NEW why, removeConnection(why)
    PROVE  RemovalEffect /\ ended' = why
  <1>1. placeTypeOK /\ flagTypeOK /\ SessionInStep
    BY DEF IInv, TypeOK
  <1>2. session' \in {"none", "freed", "leaked"} /\ out' = <<>>
    BY <1>1 DEF removeConnection, Cleanup, placeTypeOK, SessionInStep
  <1>3. sessionCount' = 0
    <2>1. CASE session = "open"
      <3>1. sessionCount' = IF tls THEN sessionCount - 1 ELSE sessionCount
        BY <2>1 DEF removeConnection, Cleanup
      <3>2. sessionCount = IF tls THEN 1 ELSE 0
        BY <1>1, <2>1 DEF SessionInStep
      <3> QED BY <3>1, <3>2
    <2>2. CASE session # "open"
      BY <1>1, <2>2 DEF removeConnection, Cleanup, SessionInStep
    <2> QED BY <2>1, <2>2
  <1> QED BY <1>2, <1>3, Zenon DEF removeConnection, RemovalEffect

\* A connection that the server wants removed.
LEMMA ServerRemovesEffect == IInv /\ ServerRemoves => RemovalEffect /\ ended' = "doomed"
  BY RemovalIsEffect DEF ServerRemoves

\* A connection at the end of ServiceConnection().
LEMMA FinishIsEffect == IInv /\ Finish => FinishEffect
  <1> SUFFICES ASSUME IInv, Finish PROVE FinishEffect
    OBVIOUS
  <1>1. conn = "open" /\ removeMe \in BOOLEAN /\ pc = "end"
    <2>1. pc = "end"
      BY DEF Finish
    <2>2. removeMe \in BOOLEAN
      BY Zenon DEF IInv, TypeOK, flagTypeOK
    <2>3. conn = "open"
      BY <2>1 DEF IInv, TypeOK, placeTypeOK, SessionInStep
    <2> QED BY <2>1, <2>2, <2>3
  <1> DEFINE gone == removeMe \/ (readCb = "none" /\ ~writeCb)
  <1>2. CASE (gone \/ doomed) /\ removeConnection(IF gone THEN ended ELSE "doomed")
    <2>1. CASE gone
      <3>1. removeConnection(ended)
        BY <1>2, <2>1, Zenon
      <3>2. RemovalEffect /\ ended' = ended
        BY <1>1, <3>1, RemovalIsEffect
      <3> QED BY <2>1, <3>2, Zenon DEF FinishEffect
    <2>2. CASE ~gone
      <3>1. removeConnection("doomed")
        BY <1>2, <2>2, Zenon
      <3> QED BY <1>1, <3>1, RemovalIsEffect DEF FinishEffect
    <2> QED BY <2>1, <2>2, Zenon
  <1>3. CASE /\ ~(gone \/ doomed) /\ pc' = "idle"
             /\ UNCHANGED <<tls, closing, conn, cbVars, taskVars, caller, removeMe,
                            session, inVars, out, sessionCount, roomVars, streamVars,
                            peerVars, ended>>
    <2>1. removeMe = FALSE
      BY <1>1, <1>3, Zenon
    <2> QED BY <1>1, <1>3, <2>1, Zenon DEF FinishEffect
  <1> QED BY <1>2, <1>3, Zenon DEF Finish

\* What Read() does with the bytes it gets.
LEMMA ReadSomeIsEffect == IInv /\ ReadSome => ReadSomeEffect
  <1> SUFFICES ASSUME IInv, ReadSome PROVE ReadSomeEffect
    OBVIOUS
  <1> DEFINE n == Least(inSize - inLen, Head(inbox))
  <1>1. /\ pc = "recv" /\ inbox # <<>>
        /\ inLen' = inLen + n /\ inbox' = Rest(n)
        /\ UNCHANGED <<tls, closing, conn, writeReady, taskVars, caller, session, out,
                       sessionCount, roomVars, streamVars, peerVars>>
    BY DEF ReadSome
  <1>2. /\ inSize \in Nat /\ inLen \in Nat /\ inLen < inSize
        /\ inbox \in Seq(Nat \ {0})
    BY <1>1, ServiceAssumption DEF IInv, TypeOK, countTypeOK, BufferHasRoom
  <1>3. Head(inbox) \in Nat \ {0} /\ Tail(inbox) \in Seq(Nat \ {0})
    BY <1>1, <1>2
  <1>4. n \in Nat /\ n > 0 /\ n <= Head(inbox) /\ n <= inSize - inLen
    BY <1>2, <1>3 DEF Least
  <1>5. inLen' \in Nat /\ inLen' > inLen
    BY <1>1, <1>2, <1>4
  <1>6. inbox' \in Seq(Nat \ {0})
    <2>1. CASE n = Head(inbox)
      BY <1>1, <1>3, <2>1 DEF Rest
    <2>2. CASE n # Head(inbox)
      <3>1. Head(inbox) - n \in Nat \ {0}
        BY <1>3, <1>4, <2>2
      <3>2. <<Head(inbox) - n>> \in Seq(Nat \ {0})
        BY <3>1
      <3>3. inbox' = <<Head(inbox) - n>> \o Tail(inbox)
        BY <1>1, <2>2 DEF Rest
      <3> HIDE DEF n
      <3> QED BY <1>3, <3>2, <3>3
    <2> QED BY <2>1, <2>2
  <1>7. \/ /\ inLen' < inSize
           /\ pc' = "user" /\ UNCHANGED <<inSize, readCb, writeCb, readReady, removeMe, ended>>
        \/ /\ inLen' = inSize /\ MayGrow
           /\ inSize' = inSize + ChunkLen
           /\ UNCHANGED <<pc, readCb, writeCb, readReady, removeMe, ended>>
        \/ /\ inLen' = inSize /\ ~MayGrow
           /\ ReadFails("too long") /\ UNCHANGED inSize
    BY Zenon DEF ReadSome
  <1> QED BY <1>1, <1>5, <1>6, <1>7, Zenon DEF ReadSomeEffect, ReadFails, MayGrow

\* What a send does to the session.
LEMMA SendIsEffect ==
    ASSUME IInv, NEW file \in BOOLEAN, NEW n \in Nat, send(file, n)
    PROVE  SendEffect(file, n)
  <1>1. sends \in 0 .. MaxSends /\ queued \in Nat
    BY DEF IInv, TypeOK, countTypeOK
  <1>2. Item(file, n) \in OutItem
    BY <1>1 DEF Item, OutItem
  <1>3. sends < MaxSends /\ sends' = sends + 1
    BY Zenon DEF send
  <1>4. sends' \in 0 .. MaxSends
    BY <1>1, <1>3, ServiceAssumption
  <1>5. (pc' = "write" /\ caller' = "user") \/ (pc' = "user" /\ UNCHANGED caller)
    BY Zenon DEF send
  <1> QED BY <1>2, <1>4, <1>5, Zenon DEF send, SendEffect

\* The server hands a new connection over with Setup() and no session.
LEMMA InitIInv == Init => IInv
  <1> SUFFICES ASSUME Init PROVE IInv
    OBVIOUS
  <1> USE ServiceAssumption DEF Init
  <1>1. flagTypeOK
    BY Zenon DEF flagTypeOK
  <1>2. /\ placeTypeOK /\ countTypeOK /\ BufferHasRoom
        /\ out \in Seq(OutItem) /\ inbox \in Seq(Nat \ {0})
    BY DEF placeTypeOK, countTypeOK, BufferHasRoom
  <1>3. SessionInStep /\ OutInOrder /\ SentInStep /\ ClosedInStep
    BY DEF SessionInStep, InUser, OutInOrder, SentInStep, ClosedInStep, CloseFlushes
  <1>4. writeCb = FALSE /\ removeMe = FALSE
    BY Zenon
  <1>5. CallbackInStep
    BY <1>4 DEF CallbackInStep, CallbackIffOutput
  <1> QED BY <1>1, <1>2, <1>3, <1>5 DEF IInv, TypeOK

\* Flags stay Boolean.
LEMMA FlagsStep == IInv /\ [Next]_vars => flagTypeOK'
  <1> SUFFICES ASSUME IInv, [Next]_vars PROVE flagTypeOK'
    OBVIOUS
  <1>a. flagTypeOK
    BY DEF IInv, TypeOK, CallbackInStep
  <1> USE DEF flagTypeOK, cbVars, taskVars, workVars, inVars, roomVars, streamVars,
          peerVars
  <1>1. CASE PeerSends
    BY <1>a, <1>1, Zenon DEF PeerSends
  <1>2. CASE PeerHangsUp
    BY <1>a, <1>2, Zenon DEF PeerHangsUp
  <1>3. CASE PeerReads
    BY <1>a, <1>3, Zenon DEF PeerReads
  <1>4. CASE doEvent
    BY <1>a, <1>4, Zenon DEF doEvent
  <1>5. CASE Timeout
    BY <1>a, <1>5, Zenon DEF Timeout
  <1>6. CASE ServerRemoves
    <2>1. RemovalEffect /\ ended' = "doomed"
      BY <1>6, ServerRemovesEffect
    <2> QED BY <1>a, <2>1, Zenon DEF RemovalEffect
  <1>7. CASE Handshake
    BY <1>a, <1>7, Zenon DEF Handshake
  <1>8. CASE HandshakeFails
    BY <1>a, <1>8, Zenon DEF HandshakeFails, ReadFails
  <1>9. ASSUME NEW file \in BOOLEAN, NEW n \in Nat, send(file, n)
        PROVE  flagTypeOK'
    <2>1. SendEffect(file, n)
      BY <1>9, SendIsEffect
    <2> QED BY <1>a, <2>1, Zenon DEF SendEffect
  <1>10. CASE ServiceConnection
    BY <1>a, <1>10, Zenon DEF ServiceConnection
  <1>11. CASE ReadStageEnds
    BY <1>a, <1>11, Zenon DEF ReadStageEnds
  <1>12. CASE WriteStage
    BY <1>a, <1>12, Zenon DEF WriteStage
  <1>13. CASE WriteStageEnds
    BY <1>a, <1>13, Zenon DEF WriteStageEnds
  <1>14. CASE Finish
    <2>1. FinishEffect
      BY <1>14, FinishIsEffect
    <2>2. CASE RemovalEffect
      BY <1>a, <2>2, Zenon DEF RemovalEffect
    <2>3. CASE ~RemovalEffect
      <3>1. /\ UNCHANGED <<tls, closing, writeCb, readReady, writeReady>>
            /\ UNCHANGED <<due, doomed, removeMe, noSpace, edge, eof>>
        BY <2>1, <2>3 DEF FinishEffect
      <3> QED BY <1>a, <3>1, Zenon
    <2> QED BY <2>2, <2>3
  <1>15. CASE ReadSome
    <2>1. ReadSomeEffect
      BY <1>15, ReadSomeIsEffect
    <2> QED BY <1>a, <2>1, Zenon DEF ReadSomeEffect
  <1>16. CASE ReadAgain
    BY <1>a, <1>16, Zenon DEF ReadAgain, ReadExhausted
  <1>17. CASE ReadEof
    BY <1>a, <1>17, Zenon DEF ReadEof, ReadFails
  <1>18. CASE UserContinues
    BY <1>a, <1>18, Zenon DEF UserContinues, ReadExhausted, userKeeps
  <1>19. CASE UserCloses
    BY <1>a, <1>19, Zenon DEF UserCloses, ReadFails, userKeeps
  <1>20. CASE UserFails
    BY <1>a, <1>20, Zenon DEF UserFails, ReadFails, userKeeps
  <1>21. CASE Write
    <2>1. WriteEffect
      BY <1>21, WriteIsEffect
    <2> QED BY <1>a, <2>1, Zenon DEF WriteEffect, ControlEffect, writeKeeps
  <1>22. CASE UNCHANGED vars
    BY <1>a, <1>22, Zenon DEF vars
  <1> QED
    BY <1>1, <1>2, <1>3, <1>4, <1>5, <1>6, <1>7, <1>8, <1>9, <1>10, <1>11, <1>12,
       <1>13, <1>14, <1>15, <1>16, <1>17, <1>18, <1>19, <1>20, <1>21, <1>22,
       ServiceAssumption
       DEF Next, Worker, UserReturns

\* Every callback and every worker stays within its program.
LEMMA PlacesStep == IInv /\ [Next]_vars => placeTypeOK'
  <1> SUFFICES ASSUME IInv, [Next]_vars PROVE placeTypeOK'
    OBVIOUS
  <1>a. placeTypeOK
    BY DEF IInv, TypeOK, CallbackInStep
  <1> USE DEF placeTypeOK, cbVars, taskVars, workVars, inVars, roomVars, streamVars,
          peerVars
  <1>1. CASE PeerSends
    BY <1>a, <1>1 DEF PeerSends
  <1>2. CASE PeerHangsUp
    BY <1>a, <1>2 DEF PeerHangsUp
  <1>3. CASE PeerReads
    BY <1>a, <1>3 DEF PeerReads
  <1>4. CASE doEvent
    BY <1>a, <1>4 DEF doEvent
  <1>5. CASE Timeout
    BY <1>a, <1>5 DEF Timeout
  <1>6. CASE ServerRemoves
    <2>1. RemovalEffect /\ ended' = "doomed"
      BY <1>6, ServerRemovesEffect
    <2> QED BY <1>a, <2>1 DEF RemovalEffect
  <1>7. CASE Handshake
    BY <1>a, <1>7 DEF Handshake
  <1>8. CASE HandshakeFails
    BY <1>a, <1>8 DEF HandshakeFails, ReadFails
  <1>9. ASSUME NEW file \in BOOLEAN, NEW n \in Nat, send(file, n)
        PROVE  placeTypeOK'
    <2>1. SendEffect(file, n)
      BY <1>9, SendIsEffect
    <2> QED BY <1>a, <2>1 DEF SendEffect
  <1>10. CASE ServiceConnection
    BY <1>a, <1>10 DEF ServiceConnection
  <1>11. CASE ReadStageEnds
    BY <1>a, <1>11 DEF ReadStageEnds
  <1>12. CASE WriteStage
    BY <1>a, <1>12 DEF WriteStage
  <1>13. CASE WriteStageEnds
    BY <1>a, <1>13 DEF WriteStageEnds
  <1>14. CASE Finish
    <2>1. FinishEffect
      BY <1>14, FinishIsEffect
    <2> QED BY <1>a, <2>1 DEF FinishEffect, RemovalEffect
  <1>15. CASE ReadSome
    <2>1. ReadSomeEffect
      BY <1>15, ReadSomeIsEffect
    <2> QED BY <1>a, <2>1 DEF ReadSomeEffect
  <1>16. CASE ReadAgain
    BY <1>a, <1>16 DEF ReadAgain, ReadExhausted
  <1>17. CASE ReadEof
    BY <1>a, <1>17 DEF ReadEof, ReadFails
  <1>18. CASE UserContinues
    BY <1>a, <1>18 DEF UserContinues, ReadExhausted, userKeeps
  <1>19. CASE UserCloses
    BY <1>a, <1>19 DEF UserCloses, ReadFails, userKeeps
  <1>20. CASE UserFails
    BY <1>a, <1>20 DEF UserFails, ReadFails, userKeeps
  <1>21. CASE Write
    <2>1. WriteEffect
      BY <1>21, WriteIsEffect
    <2>2. ControlEffect /\ UNCHANGED <<conn, caller, session>>
      BY <2>1 DEF WriteEffect, writeKeeps
    <2>3. /\ ended' \in {ended, "close", "broken", "cut"} /\ readCb' \in {readCb, "none"}
          /\ pc' \in {pc, "user", "end", "writeDone"}
      BY <2>2 DEF ControlEffect
    <2> QED BY <1>a, <2>2, <2>3
  <1>22. CASE UNCHANGED vars
    <2>1. UNCHANGED <<conn, readCb, pc, caller, session, ended>>
      BY <1>22 DEF vars
    <2>2. /\ conn' \in {"open", "closed"} /\ readCb' \in {"Setup", "Read", "none"}
          /\ caller' \in {"server", "user"}
          /\ session' \in {"none", "open", "freed", "leaked"}
      BY <1>a, <2>1
    <2>3. pc' \in {"idle", "handshake", "recv", "user", "readDone", "stage",
                   "write", "writeDone", "end"}
      BY <1>a, <2>1
    <2>4. ended' \in {"no", "doomed", "handshake", "too long", "eof", "close", "error",
                      "broken", "cut"}
      BY <1>a, <2>1
    <2> QED BY <2>2, <2>3, <2>4
  <1> QED
    BY <1>1, <1>2, <1>3, <1>4, <1>5, <1>6, <1>7, <1>8, <1>9, <1>10, <1>11, <1>12,
       <1>13, <1>14, <1>15, <1>16, <1>17, <1>18, <1>19, <1>20, <1>21, <1>22,
       ServiceAssumption
       DEF Next, Worker, UserReturns

\* No count leaves its bounds.
LEMMA CountStep == IInv /\ [Next]_vars => countTypeOK'
  <1> SUFFICES ASSUME IInv, [Next]_vars PROVE countTypeOK'
    OBVIOUS
  <1>a. countTypeOK
    BY DEF IInv, TypeOK, CallbackInStep
  <1>b. SessionInStep
    BY DEF IInv, TypeOK, CallbackInStep
  <1> USE ServiceAssumption DEF countTypeOK, cbVars, taskVars, workVars, inVars, roomVars,
          streamVars, peerVars
  <1>1. CASE PeerSends
    BY <1>a, <1>1 DEF PeerSends
  <1>2. CASE PeerHangsUp
    BY <1>a, <1>2 DEF PeerHangsUp
  <1>3. CASE PeerReads
    BY <1>a, <1>3 DEF PeerReads
  <1>4. CASE doEvent
    BY <1>a, <1>4 DEF doEvent
  <1>5. CASE Timeout
    BY <1>a, <1>5 DEF Timeout
  <1>6. CASE ServerRemoves
    <2>1. RemovalEffect /\ ended' = "doomed"
      BY <1>6, ServerRemovesEffect
    <2> QED BY <1>a, <2>1 DEF RemovalEffect
  <1>7. CASE Handshake
    <2>1. /\ pc = "handshake" /\ inSize' = ChunkLen /\ sessionCount' = sessionCount + 1
          /\ UNCHANGED <<inLen, roomVars, streamVars, arrivals>>
      BY <1>7 DEF Handshake
    <2>2. inLen = 0 /\ sessionCount = 0
      BY <1>b, <2>1 DEF SessionInStep
    <2> QED BY <1>a, <2>1, <2>2
  <1>8. CASE HandshakeFails
    BY <1>a, <1>8 DEF HandshakeFails, ReadFails
  <1>9. ASSUME NEW file \in BOOLEAN, NEW n \in Nat, send(file, n)
        PROVE  countTypeOK'
    <2>1. SendEffect(file, n)
      BY <1>9, SendIsEffect
    <2> QED BY <1>a, <2>1 DEF SendEffect
  <1>10. CASE ServiceConnection
    <2>1. /\ inSize' \in {inSize, ChunkLen} /\ (readCb = "Setup" \/ inSize' = inSize)
          /\ UNCHANGED <<inLen, sessionCount, roomVars, streamVars, arrivals>>
      BY <1>10 DEF ServiceConnection
    <2>2. readCb = "Setup" => inLen = 0
      BY <1>b DEF SessionInStep
    <2> QED BY <1>a, <2>1, <2>2
  <1>11. CASE ReadStageEnds
    BY <1>a, <1>11 DEF ReadStageEnds
  <1>12. CASE WriteStage
    BY <1>a, <1>12 DEF WriteStage
  <1>13. CASE WriteStageEnds
    BY <1>a, <1>13 DEF WriteStageEnds
  <1>14. CASE Finish
    <2>1. FinishEffect
      BY <1>14, FinishIsEffect
    <2> QED BY <1>a, <2>1, SMTT(20) DEF FinishEffect, RemovalEffect
  <1>15. CASE ReadSome
    <2>1. ReadSomeEffect
      BY <1>15, ReadSomeIsEffect
    <2>2. UNCHANGED <<sessionCount, roomVars, streamVars, arrivals>>
      BY <2>1 DEF ReadSomeEffect
    <2>3. /\ inLen' \in Nat
          /\ \/ inLen' < inSize /\ inSize' = inSize
             \/ inLen' = inSize /\ inSize < MaxMessage /\ inSize' = inSize + ChunkLen
             \/ inLen' = inSize /\ inSize' = inSize
      BY <2>1, Zenon DEF ReadSomeEffect
    <2> QED BY <1>a, <2>2, <2>3
  <1>16. CASE ReadAgain
    BY <1>a, <1>16 DEF ReadAgain, ReadExhausted
  <1>17. CASE ReadEof
    BY <1>a, <1>17 DEF ReadEof, ReadFails
  <1>18. CASE UserContinues
    BY <1>a, <1>18 DEF UserContinues, ReadExhausted, userKeeps
  <1>19. CASE UserCloses
    BY <1>a, <1>19 DEF UserCloses, ReadFails, userKeeps
  <1>20. CASE UserFails
    BY <1>a, <1>20 DEF UserFails, ReadFails, userKeeps
  <1>21. CASE Write
    <2>1. WriteEffect
      BY <1>21, WriteIsEffect
    <2>2. /\ room' \in 0 .. MaxRoom
          /\ UNCHANGED <<inVars, sessionCount, sends, queued, peerVars>>
      BY <2>1 DEF WriteEffect, writeKeeps
    <2>3. sent' \in Nat /\ skipped' \in Nat
      BY <1>a, <2>1 DEF WriteEffect, StreamEffect
    <2> QED BY <1>a, <2>2, <2>3
  <1>22. CASE UNCHANGED vars
    BY <1>a, <1>22 DEF vars
  <1> QED
    BY <1>1, <1>2, <1>3, <1>4, <1>5, <1>6, <1>7, <1>8, <1>9, <1>10, <1>11, <1>12,
       <1>13, <1>14, <1>15, <1>16, <1>17, <1>18, <1>19, <1>20, <1>21, <1>22,
       ServiceAssumption
       DEF Next, Worker, UserReturns

\* The input buffer has room whenever read() is called.
LEMMA BufferStep == IInv /\ [Next]_vars => BufferHasRoom'
  <1> SUFFICES ASSUME IInv, [Next]_vars PROVE BufferHasRoom'
    OBVIOUS
  <1>a. BufferHasRoom
    BY DEF IInv, TypeOK, CallbackInStep
  <1>b. countTypeOK /\ SessionInStep
    BY DEF IInv, TypeOK, CallbackInStep
  <1> USE ServiceAssumption DEF BufferHasRoom, cbVars, taskVars, workVars, inVars,
          roomVars, streamVars, peerVars
  <1>1. CASE PeerSends
    BY <1>a, <1>1 DEF PeerSends
  <1>2. CASE PeerHangsUp
    BY <1>a, <1>2 DEF PeerHangsUp
  <1>3. CASE PeerReads
    BY <1>a, <1>3 DEF PeerReads
  <1>4. CASE doEvent
    BY <1>a, <1>4 DEF doEvent
  <1>5. CASE Timeout
    BY <1>a, <1>5 DEF Timeout
  <1>6. CASE ServerRemoves
    <2>1. RemovalEffect /\ ended' = "doomed"
      BY <1>6, ServerRemovesEffect
    <2> QED BY <1>a, <2>1 DEF RemovalEffect
  <1>7. CASE Handshake
    BY <1>a, <1>b, <1>7 DEF Handshake, countTypeOK, SessionInStep, InUser
  <1>8. CASE HandshakeFails
    BY <1>a, <1>8 DEF HandshakeFails, ReadFails
  <1>9. ASSUME NEW file \in BOOLEAN, NEW n \in Nat, send(file, n)
        PROVE  BufferHasRoom'
    <2>1. SendEffect(file, n)
      BY <1>9, SendIsEffect
    <2> QED BY <1>a, <2>1 DEF SendEffect
  <1>10. CASE ServiceConnection
    BY <1>a, <1>b, <1>10 DEF ServiceConnection, countTypeOK, SessionInStep, InUser
  <1>11. CASE ReadStageEnds
    BY <1>a, <1>11 DEF ReadStageEnds
  <1>12. CASE WriteStage
    BY <1>a, <1>12 DEF WriteStage
  <1>13. CASE WriteStageEnds
    BY <1>a, <1>13 DEF WriteStageEnds
  <1>14. CASE Finish
    <2>1. FinishEffect
      BY <1>14, FinishIsEffect
    <2> QED BY <1>a, <2>1 DEF FinishEffect, RemovalEffect
  <1>15. CASE ReadSome
    <2>1. ReadSomeEffect
      BY <1>15, ReadSomeIsEffect
    <2>2. /\ inLen' \in Nat /\ inLen' > inLen
          /\ \/ pc' = "user" /\ inLen' < inSize /\ inSize' = inSize
             \/ pc' = "recv" /\ inLen' = inSize /\ inSize' = inSize + ChunkLen
             \/ pc' = "stage"
      BY <2>1, Zenon DEF ReadSomeEffect
    <2>3. inLen \in Nat /\ inSize \in Nat
      BY <1>b DEF countTypeOK
    <2> QED BY <2>2, <2>3
  <1>16. CASE ReadAgain
    BY <1>a, <1>b, <1>16 DEF ReadAgain, ReadExhausted, countTypeOK, SessionInStep, InUser
  <1>17. CASE ReadEof
    BY <1>a, <1>17 DEF ReadEof, ReadFails
  <1>18. CASE UserContinues
    BY <1>a, <1>18 DEF UserContinues, ReadExhausted, userKeeps
  <1>19. CASE UserCloses
    BY <1>a, <1>19 DEF UserCloses, ReadFails, userKeeps
  <1>20. CASE UserFails
    BY <1>a, <1>20 DEF UserFails, ReadFails, userKeeps
  <1>21. CASE Write
    <2>1. WriteEffect
      BY <1>21, WriteIsEffect
    <2> QED BY <1>a, <1>b, <2>1 DEF WriteEffect, ControlEffect, writeKeeps, countTypeOK,
              SessionInStep, InUser
  <1>22. CASE UNCHANGED vars
    BY <1>a, <1>22 DEF vars
  <1> QED
    BY <1>1, <1>2, <1>3, <1>4, <1>5, <1>6, <1>7, <1>8, <1>9, <1>10, <1>11, <1>12,
       <1>13, <1>14, <1>15, <1>16, <1>17, <1>18, <1>19, <1>20, <1>21, <1>22,
       ServiceAssumption
       DEF Next, Worker, UserReturns

\* What arrives stays a queue.
LEMMA InboxStep == IInv /\ [Next]_vars => inbox' \in Seq(Nat \ {0})
  <1> SUFFICES ASSUME IInv, [Next]_vars PROVE inbox' \in Seq(Nat \ {0})
    OBVIOUS
  <1>a. inbox \in Seq(Nat \ {0})
    BY DEF IInv, TypeOK, CallbackInStep
  <1> USE DEF cbVars, taskVars, workVars, inVars, roomVars, streamVars, peerVars
  <1>1. CASE PeerSends
    <2>1. PICK n \in 1 .. MaxInput :
             inbox' = IF tls \/ inbox = <<>> THEN Append(inbox, n) ELSE <<Head(inbox) + n>>
      BY <1>1 DEF PeerSends
    <2>2. n \in Nat \ {0}
      BY ServiceAssumption
    <2>3. Append(inbox, n) \in Seq(Nat \ {0})
      BY <1>a, <2>2
    <2>4. inbox # <<>> => <<Head(inbox) + n>> \in Seq(Nat \ {0})
      BY <1>a, <2>2
    <2> QED BY <2>1, <2>3, <2>4
  <1>2. CASE PeerHangsUp
    BY <1>a, <1>2 DEF PeerHangsUp
  <1>3. CASE PeerReads
    BY <1>a, <1>3 DEF PeerReads
  <1>4. CASE doEvent
    BY <1>a, <1>4 DEF doEvent
  <1>5. CASE Timeout
    BY <1>a, <1>5 DEF Timeout
  <1>6. CASE ServerRemoves
    <2>1. RemovalEffect /\ ended' = "doomed"
      BY <1>6, ServerRemovesEffect
    <2> QED BY <1>a, <2>1 DEF RemovalEffect
  <1>7. CASE Handshake
    BY <1>a, <1>7 DEF Handshake
  <1>8. CASE HandshakeFails
    BY <1>a, <1>8 DEF HandshakeFails, ReadFails
  <1>9. ASSUME NEW file \in BOOLEAN, NEW n \in Nat, send(file, n)
        PROVE  inbox' \in Seq(Nat \ {0})
    <2>1. SendEffect(file, n)
      BY <1>9, SendIsEffect
    <2> QED BY <1>a, <2>1 DEF SendEffect
  <1>10. CASE ServiceConnection
    BY <1>a, <1>10 DEF ServiceConnection
  <1>11. CASE ReadStageEnds
    BY <1>a, <1>11 DEF ReadStageEnds
  <1>12. CASE WriteStage
    BY <1>a, <1>12 DEF WriteStage
  <1>13. CASE WriteStageEnds
    BY <1>a, <1>13 DEF WriteStageEnds
  <1>14. CASE Finish
    <2>1. FinishEffect
      BY <1>14, FinishIsEffect
    <2> QED BY <1>a, <2>1 DEF FinishEffect, RemovalEffect
  <1>15. CASE ReadSome
    <2>1. ReadSomeEffect
      BY <1>15, ReadSomeIsEffect
    <2> QED BY <1>a, <2>1 DEF ReadSomeEffect
  <1>16. CASE ReadAgain
    BY <1>a, <1>16 DEF ReadAgain, ReadExhausted
  <1>17. CASE ReadEof
    BY <1>a, <1>17 DEF ReadEof, ReadFails
  <1>18. CASE UserContinues
    BY <1>a, <1>18 DEF UserContinues, ReadExhausted, userKeeps
  <1>19. CASE UserCloses
    BY <1>a, <1>19 DEF UserCloses, ReadFails, userKeeps
  <1>20. CASE UserFails
    BY <1>a, <1>20 DEF UserFails, ReadFails, userKeeps
  <1>21. CASE Write
    <2>1. WriteEffect
      BY <1>21, WriteIsEffect
    <2> QED BY <1>a, <2>1 DEF WriteEffect, writeKeeps
  <1>22. CASE UNCHANGED vars
    BY <1>a, <1>22 DEF vars
  <1> QED
    BY <1>1, <1>2, <1>3, <1>4, <1>5, <1>6, <1>7, <1>8, <1>9, <1>10, <1>11, <1>12,
       <1>13, <1>14, <1>15, <1>16, <1>17, <1>18, <1>19, <1>20, <1>21, <1>22,
       ServiceAssumption
       DEF Next, Worker, UserReturns

\* The output stays a queue.
LEMMA QueueStep == IInv /\ [Next]_vars => out' \in Seq(OutItem)
  <1> SUFFICES ASSUME IInv, [Next]_vars PROVE out' \in Seq(OutItem)
    OBVIOUS
  <1>a. out \in Seq(OutItem)
    BY DEF IInv, TypeOK, CallbackInStep
  <1>b. CallbackIffOutput
    BY DEF IInv, TypeOK, CallbackInStep
  <1> USE DEF cbVars, taskVars, workVars, inVars, roomVars, streamVars, peerVars
  <1>1. CASE PeerSends
    BY <1>a, <1>1 DEF PeerSends
  <1>2. CASE PeerHangsUp
    BY <1>a, <1>2 DEF PeerHangsUp
  <1>3. CASE PeerReads
    BY <1>a, <1>3 DEF PeerReads
  <1>4. CASE doEvent
    BY <1>a, <1>4 DEF doEvent
  <1>5. CASE Timeout
    BY <1>a, <1>5 DEF Timeout
  <1>6. CASE ServerRemoves
    <2>1. RemovalEffect /\ ended' = "doomed"
      BY <1>6, ServerRemovesEffect
    <2> QED BY <1>a, <2>1 DEF RemovalEffect
  <1>7. CASE Handshake
    BY <1>a, <1>7 DEF Handshake
  <1>8. CASE HandshakeFails
    BY <1>a, <1>8 DEF HandshakeFails, ReadFails
  <1>9. ASSUME NEW file \in BOOLEAN, NEW n \in Nat, send(file, n)
        PROVE  out' \in Seq(OutItem)
    <2>1. SendEffect(file, n)
      BY <1>9, SendIsEffect
    <2> QED BY <1>a, <2>1 DEF SendEffect
  <1>10. CASE ServiceConnection
    BY <1>a, <1>10 DEF ServiceConnection
  <1>11. CASE ReadStageEnds
    BY <1>a, <1>11 DEF ReadStageEnds
  <1>12. CASE WriteStage
    BY <1>a, <1>12 DEF WriteStage
  <1>13. CASE WriteStageEnds
    BY <1>a, <1>13 DEF WriteStageEnds
  <1>14. CASE Finish
    <2>1. FinishEffect
      BY <1>14, FinishIsEffect
    <2>2. out' = out \/ out' = <<>>
      BY <2>1, Zenon DEF FinishEffect, RemovalEffect
    <2>3. <<>> \in Seq(OutItem)
      OBVIOUS
    <2> QED BY <1>a, <2>2, <2>3, Zenon
  <1>15. CASE ReadSome
    <2>1. ReadSomeEffect
      BY <1>15, ReadSomeIsEffect
    <2> QED BY <1>a, <2>1 DEF ReadSomeEffect
  <1>16. CASE ReadAgain
    BY <1>a, <1>16 DEF ReadAgain, ReadExhausted
  <1>17. CASE ReadEof
    BY <1>a, <1>17 DEF ReadEof, ReadFails
  <1>18. CASE UserContinues
    BY <1>a, <1>18 DEF UserContinues, ReadExhausted, userKeeps
  <1>19. CASE UserCloses
    BY <1>a, <1>19 DEF UserCloses, ReadFails, userKeeps
  <1>20. CASE UserFails
    BY <1>a, <1>20 DEF UserFails, ReadFails, userKeeps
  <1>21. CASE Write
    <2>1. WriteEffect
      BY <1>21, WriteIsEffect
    <2> QED BY <1>a, <1>b, <2>1 DEF WriteEffect, OutEffect, writeKeeps, CallbackIffOutput
  <1>22. CASE UNCHANGED vars
    BY <1>a, <1>22 DEF vars
  <1> QED
    BY <1>1, <1>2, <1>3, <1>4, <1>5, <1>6, <1>7, <1>8, <1>9, <1>10, <1>11, <1>12,
       <1>13, <1>14, <1>15, <1>16, <1>17, <1>18, <1>19, <1>20, <1>21, <1>22,
       ServiceAssumption
       DEF Next, Worker, UserReturns

\* The session is there as long as a callback may use it.
LEMMA SessionStep == IInv /\ [Next]_vars => SessionInStep'
  <1> SUFFICES ASSUME IInv, [Next]_vars PROVE SessionInStep'
    OBVIOUS
  <1>a. SessionInStep
    BY DEF IInv, TypeOK, CallbackInStep
  <1>b. placeTypeOK /\ countTypeOK /\ BufferHasRoom /\ CallbackIffOutput
    BY DEF IInv, TypeOK, CallbackInStep
  <1> USE ServiceAssumption DEF SessionInStep, InUser, cbVars, taskVars, workVars, inVars,
          roomVars, streamVars, peerVars
  <1>1. CASE PeerSends
    BY <1>a, <1>1 DEF PeerSends
  <1>2. CASE PeerHangsUp
    BY <1>a, <1>2 DEF PeerHangsUp
  <1>3. CASE PeerReads
    BY <1>a, <1>3 DEF PeerReads
  <1>4. CASE doEvent
    BY <1>a, <1>4 DEF doEvent
  <1>5. CASE Timeout
    BY <1>a, <1>5 DEF Timeout
  <1>6. CASE ServerRemoves
    <2>1. RemovalEffect /\ ended' = "doomed"
      BY <1>6, ServerRemovesEffect
    <2> QED BY <1>a, <2>1 DEF RemovalEffect
  <1>7. CASE Handshake
    BY <1>a, <1>b, <1>7 DEF Handshake
  <1>8. CASE HandshakeFails
    BY <1>a, <1>8 DEF HandshakeFails, ReadFails
  <1>9. ASSUME NEW file \in BOOLEAN, NEW n \in Nat, send(file, n)
        PROVE  SessionInStep'
    <2>1. SendEffect(file, n)
      BY <1>9, SendIsEffect
    <2> QED BY <1>a, <1>b, <2>1 DEF SendEffect
  <1>10. CASE ServiceConnection
    BY <1>a, <1>b, <1>10 DEF ServiceConnection, countTypeOK
  <1>11. CASE ReadStageEnds
    BY <1>a, <1>11 DEF ReadStageEnds
  <1>12. CASE WriteStage
    BY <1>a, <1>12 DEF WriteStage
  <1>13. CASE WriteStageEnds
    BY <1>a, <1>13 DEF WriteStageEnds
  <1>14. CASE Finish
    <2>1. FinishEffect
      BY <1>14, FinishIsEffect
    <2> QED BY <1>a, <2>1 DEF FinishEffect, RemovalEffect
  <1>15. CASE ReadSome
    <2>1. ReadSomeEffect
      BY <1>15, ReadSomeIsEffect
    <2>2. /\ inLen' \in Nat /\ inLen' > inLen /\ pc = "recv" /\ readCb' \in {readCb, "none"}
          /\ \/ pc' = "user" /\ inLen' < inSize /\ inSize' = inSize /\ readCb' = readCb
             \/ /\ pc' = "recv" /\ inLen' = inSize /\ inSize' = inSize + ChunkLen
                /\ readCb' = readCb
             \/ pc' = "stage" /\ readCb' = "none"
      BY <2>1, Zenon DEF ReadSomeEffect
    <2>3. inLen \in Nat /\ inSize \in Nat
      BY <1>b DEF countTypeOK
    <2>4. conn' = conn /\ session' = session /\ out' = out /\ tls' = tls
          /\ sessionCount' = sessionCount
      BY <2>1 DEF ReadSomeEffect
    <2>5. readCb' # "Setup" /\ conn = "open"
      BY <1>a, <1>b, <2>2 DEF placeTypeOK
    <2> QED BY <1>a, <2>2, <2>3, <2>4, <2>5
  <1>16. CASE ReadAgain
    BY <1>a, <1>b, <1>16 DEF ReadAgain, ReadExhausted, countTypeOK
  <1>17. CASE ReadEof
    BY <1>a, <1>17 DEF ReadEof, ReadFails
  <1>18. CASE UserContinues
    BY <1>a, <1>b, <1>18 DEF UserContinues, ReadExhausted, userKeeps, countTypeOK
  <1>19. CASE UserCloses
    BY <1>a, <1>19 DEF UserCloses, ReadFails, userKeeps
  <1>20. CASE UserFails
    BY <1>a, <1>20 DEF UserFails, ReadFails, userKeeps
  <1>21. CASE Write
    <2>1. WriteEffect
      BY <1>21, WriteIsEffect
    <2> QED BY <1>a, <1>b, <2>1 DEF WriteEffect, ControlEffect, writeKeeps,
              CallbackIffOutput
  <1>22. CASE UNCHANGED vars
    BY <1>a, <1>22 DEF vars
  <1> QED
    BY <1>1, <1>2, <1>3, <1>4, <1>5, <1>6, <1>7, <1>8, <1>9, <1>10, <1>11, <1>12,
       <1>13, <1>14, <1>15, <1>16, <1>17, <1>18, <1>19, <1>20, <1>21, <1>22,
       ServiceAssumption
       DEF Next, Worker, UserReturns

\* The write callback follows the queue.
LEMMA CallbackStep == IInv /\ [Next]_vars => CallbackInStep'
  <1> SUFFICES ASSUME IInv, [Next]_vars PROVE CallbackInStep'
    OBVIOUS
  <1>a. CallbackInStep
    BY DEF IInv, TypeOK, CallbackInStep
  <1>b. flagTypeOK /\ placeTypeOK /\ SessionInStep /\ out \in Seq(OutItem)
    BY DEF IInv, TypeOK, CallbackInStep
  <1> USE DEF CallbackInStep, CallbackIffOutput, cbVars, taskVars, workVars, inVars,
          roomVars, streamVars, peerVars
  <1>1. CASE PeerSends
    BY <1>a, <1>1 DEF PeerSends
  <1>2. CASE PeerHangsUp
    BY <1>a, <1>2 DEF PeerHangsUp
  <1>3. CASE PeerReads
    BY <1>a, <1>3 DEF PeerReads
  <1>4. CASE doEvent
    BY <1>a, <1>4 DEF doEvent
  <1>5. CASE Timeout
    BY <1>a, <1>5 DEF Timeout
  <1>6. CASE ServerRemoves
    <2>1. RemovalEffect /\ ended' = "doomed"
      BY <1>6, ServerRemovesEffect
    <2> QED BY <1>a, <2>1 DEF RemovalEffect
  <1>7. CASE Handshake
    BY <1>a, <1>7 DEF Handshake
  <1>8. CASE HandshakeFails
    BY <1>a, <1>b, <1>8 DEF HandshakeFails, ReadFails, SessionInStep
  <1>9. ASSUME NEW file \in BOOLEAN, NEW n \in Nat, send(file, n)
        PROVE  CallbackInStep'
    <2>1. SendEffect(file, n)
      BY <1>9, SendIsEffect
    <2> QED BY <1>a, <1>b, <2>1 DEF SendEffect, SessionInStep
  <1>10. CASE ServiceConnection
    BY <1>a, <1>b, <1>10 DEF ServiceConnection, SessionInStep
  <1>11. CASE ReadStageEnds
    BY <1>a, <1>11 DEF ReadStageEnds
  <1>12. CASE WriteStage
    <2>1. \/ pc' = "write" /\ writeCb
          \/ pc' = "end"
      BY <1>12, Zenon DEF WriteStage
    <2>2. UNCHANGED <<conn, writeCb, removeMe, out>> /\ pc = "stage"
      BY <1>12, Zenon DEF WriteStage, cbVars
    <2>3. pc = "stage" => conn = "open"
      BY <1>b DEF placeTypeOK, SessionInStep
    <2> QED BY <1>a, <2>1, <2>2, <2>3
  <1>13. CASE WriteStageEnds
    BY <1>a, <1>13 DEF WriteStageEnds
  <1>14. CASE Finish
    <2>1. FinishEffect
      BY <1>14, FinishIsEffect
    <2> QED BY <1>a, <1>b, <2>1 DEF FinishEffect, SessionInStep, RemovalEffect
  <1>15. CASE ReadSome
    <2>1. ReadSomeEffect
      BY <1>15, ReadSomeIsEffect
    <2>2. /\ pc = "recv" /\ UNCHANGED <<conn, out>>
          /\ \/ pc' \in {"user", "recv"} /\ UNCHANGED <<writeCb, removeMe>>
             \/ pc' = "stage" /\ removeMe' = TRUE /\ writeCb' = FALSE
      BY <2>1, Zenon DEF ReadSomeEffect
    <2> QED BY <1>a, <2>2
  <1>16. CASE ReadAgain
    BY <1>a, <1>16 DEF ReadAgain, ReadExhausted
  <1>17. CASE ReadEof
    BY <1>a, <1>b, <1>17 DEF ReadEof, ReadFails, SessionInStep
  <1>18. CASE UserContinues
    BY <1>a, <1>18 DEF UserContinues, ReadExhausted, userKeeps
  <1>19. CASE UserCloses
    BY <1>a, <1>b, <1>19 DEF UserCloses, ReadFails, userKeeps
  <1>20. CASE UserFails
    BY <1>a, <1>20 DEF UserFails, ReadFails, userKeeps
  <1>21. CASE Write
    <2>1. WriteEffect
      BY <1>21, WriteIsEffect
    <2>2. pc = "write" /\ conn' = conn /\ ControlEffect
      BY <2>1 DEF WriteEffect, writeKeeps
    <2>3. writeCb = TRUE /\ removeMe = FALSE
      BY <1>a, <1>b, <2>2 DEF flagTypeOK
    <2>4. \/ pc' = "write" /\ out' # <<>> /\ writeCb' = TRUE /\ removeMe' = FALSE
          \/ /\ pc' \in {"user", "writeDone", "end"} /\ out' # <<>> /\ writeCb' = TRUE
             /\ removeMe' = FALSE
          \/ /\ pc' \in {"user", "writeDone", "end"} /\ out' = <<>> /\ writeCb' = FALSE
             /\ removeMe' = FALSE
          \/ pc' = "end" /\ removeMe' = TRUE /\ writeCb' = FALSE
      BY <2>2, <2>3, Zenon DEF ControlEffect
    <2> QED BY <2>4
  <1>22. CASE UNCHANGED vars
    BY <1>a, <1>22 DEF vars
  <1> QED
    BY <1>1, <1>2, <1>3, <1>4, <1>5, <1>6, <1>7, <1>8, <1>9, <1>10, <1>11, <1>12,
       <1>13, <1>14, <1>15, <1>16, <1>17, <1>18, <1>19, <1>20, <1>21, <1>22,
       ServiceAssumption
       DEF Next, Worker, UserReturns

\* The queue stays in the order of the stream.
LEMMA OutStep == IInv /\ [Next]_vars => OutInOrder'
  <1> SUFFICES ASSUME IInv, [Next]_vars PROVE OutInOrder'
    OBVIOUS
  <1>a. OutInOrder
    BY DEF IInv, TypeOK, CallbackInStep
  <1>b. countTypeOK /\ CallbackIffOutput /\ out \in Seq(OutItem)
    BY DEF IInv, TypeOK, CallbackInStep
  <1> USE ServiceAssumption DEF OutInOrder, cbVars, taskVars, workVars, inVars, roomVars,
          streamVars, peerVars
  <1>1. CASE PeerSends
    BY <1>a, <1>1 DEF PeerSends
  <1>2. CASE PeerHangsUp
    BY <1>a, <1>2 DEF PeerHangsUp
  <1>3. CASE PeerReads
    BY <1>a, <1>3 DEF PeerReads
  <1>4. CASE doEvent
    BY <1>a, <1>4 DEF doEvent
  <1>5. CASE Timeout
    BY <1>a, <1>5 DEF Timeout
  <1>6. CASE ServerRemoves
    <2>1. RemovalEffect /\ ended' = "doomed"
      BY <1>6, ServerRemovesEffect
    <2> QED BY <1>a, <2>1 DEF RemovalEffect
  <1>7. CASE Handshake
    BY <1>a, <1>7 DEF Handshake
  <1>8. CASE HandshakeFails
    BY <1>a, <1>8 DEF HandshakeFails, ReadFails
  <1>9. ASSUME NEW file \in BOOLEAN, NEW n \in Nat, send(file, n)
        PROVE  OutInOrder'
    <2>1. SendEffect(file, n)
      BY <1>9, SendIsEffect
    <2>2. /\ out' = Append(out, Item(file, n)) /\ queued' = queued + n /\ tls' = tls
          /\ Item(file, n) \in OutItem
      BY <2>1 DEF SendEffect
    <2> QED BY <1>a, <1>b, <2>2, AppendKeepsOrder DEF countTypeOK
  <1>10. CASE ServiceConnection
    BY <1>a, <1>10 DEF ServiceConnection
  <1>11. CASE ReadStageEnds
    BY <1>a, <1>11 DEF ReadStageEnds
  <1>12. CASE WriteStage
    BY <1>a, <1>12 DEF WriteStage
  <1>13. CASE WriteStageEnds
    BY <1>a, <1>13 DEF WriteStageEnds
  <1>14. CASE Finish
    <2>1. FinishEffect
      BY <1>14, FinishIsEffect
    <2> QED BY <1>a, <2>1 DEF FinishEffect, RemovalEffect
  <1>15. CASE ReadSome
    <2>1. ReadSomeEffect
      BY <1>15, ReadSomeIsEffect
    <2> QED BY <1>a, <2>1 DEF ReadSomeEffect
  <1>16. CASE ReadAgain
    BY <1>a, <1>16 DEF ReadAgain, ReadExhausted
  <1>17. CASE ReadEof
    BY <1>a, <1>17 DEF ReadEof, ReadFails
  <1>18. CASE UserContinues
    BY <1>a, <1>18 DEF UserContinues, ReadExhausted, userKeeps
  <1>19. CASE UserCloses
    BY <1>a, <1>19 DEF UserCloses, ReadFails, userKeeps
  <1>20. CASE UserFails
    BY <1>a, <1>20 DEF UserFails, ReadFails, userKeeps
  <1>21. CASE Write
    <2>1. WriteEffect
      BY <1>21, WriteIsEffect
    <2>2. pc = "write" /\ OutEffect /\ queued' = queued /\ tls' = tls
      BY <2>1 DEF WriteEffect, writeKeeps
    <2> QED BY <1>a, <1>b, <2>2, WriteKeepsOrder DEF CallbackIffOutput
  <1>22. CASE UNCHANGED vars
    BY <1>a, <1>22 DEF vars
  <1> QED
    BY <1>1, <1>2, <1>3, <1>4, <1>5, <1>6, <1>7, <1>8, <1>9, <1>10, <1>11, <1>12,
       <1>13, <1>14, <1>15, <1>16, <1>17, <1>18, <1>19, <1>20, <1>21, <1>22,
       ServiceAssumption
       DEF Next, Worker, UserReturns

\* The socket never gets ahead of the queue.
LEMMA SentStep == IInv /\ [Next]_vars => SentInStep'
  <1> SUFFICES ASSUME IInv, [Next]_vars PROVE SentInStep'
    OBVIOUS
  <1>a. SentInStep
    BY DEF IInv, TypeOK, CallbackInStep
  <1>b. countTypeOK /\ OutInOrder /\ CallbackIffOutput /\ SessionInStep /\ out \in Seq(OutItem)
    BY DEF IInv, TypeOK, CallbackInStep
  <1> USE ServiceAssumption DEF SentInStep, cbVars, taskVars, workVars, inVars, roomVars,
          streamVars, peerVars
  <1>1. CASE PeerSends
    BY <1>a, <1>1 DEF PeerSends
  <1>2. CASE PeerHangsUp
    BY <1>a, <1>2 DEF PeerHangsUp
  <1>3. CASE PeerReads
    BY <1>a, <1>3 DEF PeerReads
  <1>4. CASE doEvent
    BY <1>a, <1>4 DEF doEvent
  <1>5. CASE Timeout
    BY <1>a, <1>5 DEF Timeout
  <1>6. CASE ServerRemoves
    <2>1. RemovalEffect /\ ended' = "doomed"
      BY <1>6, ServerRemovesEffect
    <2> QED BY <1>a, <2>1 DEF RemovalEffect
  <1>7. CASE Handshake
    BY <1>a, <1>7 DEF Handshake
  <1>8. CASE HandshakeFails
    BY <1>a, <1>8 DEF HandshakeFails, ReadFails
  <1>9. ASSUME NEW file \in BOOLEAN, NEW n \in Nat, send(file, n)
        PROVE  SentInStep'
    <2>1. SendEffect(file, n)
      BY <1>9, SendIsEffect
    <2>2. /\ out' # <<>>
          /\ out # <<>> => out'[1] = out[1]
          /\ out = <<>> => out'[1] = Item(file, n)
      BY <1>b, <2>1 DEF SendEffect
    <2>3. queued' = queued + n /\ sent' = sent /\ tls' = tls /\ conn' = conn
      BY <2>1 DEF SendEffect
    <2>4. queued \in Nat /\ sent \in Nat
      BY <1>b DEF countTypeOK
    <2>5. Item(file, n).start = queued /\ Item(file, n).read = 0 /\ Item(file, n).held = 0
      BY DEF Item
    <2> QED BY <1>a, <2>2, <2>3, <2>4, <2>5
  <1>10. CASE ServiceConnection
    BY <1>a, <1>10 DEF ServiceConnection
  <1>11. CASE ReadStageEnds
    BY <1>a, <1>11 DEF ReadStageEnds
  <1>12. CASE WriteStage
    BY <1>a, <1>12 DEF WriteStage
  <1>13. CASE WriteStageEnds
    BY <1>a, <1>13 DEF WriteStageEnds
  <1>14. CASE Finish
    <2>1. FinishEffect
      BY <1>14, FinishIsEffect
    <2> QED BY <1>a, <2>1 DEF FinishEffect, RemovalEffect
  <1>15. CASE ReadSome
    <2>1. ReadSomeEffect
      BY <1>15, ReadSomeIsEffect
    <2> QED BY <1>a, <2>1 DEF ReadSomeEffect
  <1>16. CASE ReadAgain
    BY <1>a, <1>16 DEF ReadAgain, ReadExhausted
  <1>17. CASE ReadEof
    BY <1>a, <1>17 DEF ReadEof, ReadFails
  <1>18. CASE UserContinues
    BY <1>a, <1>18 DEF UserContinues, ReadExhausted, userKeeps
  <1>19. CASE UserCloses
    BY <1>a, <1>19 DEF UserCloses, ReadFails, userKeeps
  <1>20. CASE UserFails
    BY <1>a, <1>20 DEF UserFails, ReadFails, userKeeps
  <1>21. CASE Write
    <2>1. WriteEffect
      BY <1>21, WriteIsEffect
    <2>2. /\ pc = "write" /\ OutEffect /\ StreamEffect
          /\ queued' = queued /\ tls' = tls /\ conn' = conn
      BY <2>1 DEF WriteEffect, writeKeeps
    <2>3. sent' <= queued /\ queued \in Nat /\ sent \in Nat /\ sent' \in Nat
      BY <1>a, <1>b, <2>2 DEF StreamEffect, countTypeOK
    <2> QED BY <1>b, <2>2, <2>3, WriteKeepsPlace DEF CallbackIffOutput
  <1>22. CASE UNCHANGED vars
    BY <1>a, <1>22 DEF vars
  <1> QED
    BY <1>1, <1>2, <1>3, <1>4, <1>5, <1>6, <1>7, <1>8, <1>9, <1>10, <1>11, <1>12,
       <1>13, <1>14, <1>15, <1>16, <1>17, <1>18, <1>19, <1>20, <1>21, <1>22,
       ServiceAssumption
       DEF Next, Worker, UserReturns

\* Once the user closed, only a failed write or a removal keeps output from the socket.
LEMMA ClosedStep == IInv /\ [Next]_vars => ClosedInStep'
  <1> SUFFICES ASSUME IInv, [Next]_vars PROVE ClosedInStep'
    OBVIOUS
  <1>a. ClosedInStep
    BY DEF IInv, TypeOK, CallbackInStep
  <1>b. placeTypeOK /\ SentInStep /\ SessionInStep /\ CallbackInStep
    BY DEF IInv, TypeOK, CallbackInStep
  <1> USE DEF ClosedInStep, CloseFlushes, cbVars, taskVars, workVars, inVars, roomVars,
          streamVars, peerVars
  <1>1. CASE PeerSends
    BY <1>a, <1>1 DEF PeerSends
  <1>2. CASE PeerHangsUp
    BY <1>a, <1>2 DEF PeerHangsUp
  <1>3. CASE PeerReads
    BY <1>a, <1>3 DEF PeerReads
  <1>4. CASE doEvent
    BY <1>a, <1>4 DEF doEvent
  <1>5. CASE Timeout
    BY <1>a, <1>5 DEF Timeout
  <1>6. CASE ServerRemoves
    <2>1. RemovalEffect /\ ended' = "doomed"
      BY <1>6, ServerRemovesEffect
    <2> QED BY <1>a, <1>b, <2>1 DEF RemovalEffect, SentInStep, SessionInStep,
              CallbackInStep
  <1>7. CASE Handshake
    BY <1>a, <1>b, <1>7 DEF Handshake, SessionInStep, placeTypeOK
  <1>8. CASE HandshakeFails
    BY <1>a, <1>b, <1>8 DEF HandshakeFails, ReadFails, SentInStep, SessionInStep,
           CallbackInStep
  <1>9. ASSUME NEW file \in BOOLEAN, NEW n \in Nat, send(file, n)
        PROVE  ClosedInStep'
    <2>1. SendEffect(file, n)
      BY <1>9, SendIsEffect
    <2> QED BY <1>a, <1>b, <2>1 DEF SendEffect, SentInStep, SessionInStep, CallbackInStep
  <1>10. CASE ServiceConnection
    BY <1>a, <1>b, <1>10 DEF ServiceConnection, SentInStep, SessionInStep, CallbackInStep
  <1>11. CASE ReadStageEnds
    BY <1>a, <1>11 DEF ReadStageEnds
  <1>12. CASE WriteStage
    BY <1>a, <1>12 DEF WriteStage
  <1>13. CASE WriteStageEnds
    BY <1>a, <1>13 DEF WriteStageEnds
  <1>14. CASE Finish
    <2>1. FinishEffect
      BY <1>14, FinishIsEffect
    <2>2. CASE UNCHANGED <<tls, closing, conn, readCb, removeMe, out, sent, queued, ended>>
      BY <1>a, <2>2
    <2>3. CASE /\ RemovalEffect /\ ended' = ended
               /\ removeMe \/ (readCb = "none" /\ ~writeCb)
      <3>1. /\ conn = "open" /\ readCb' = "none" /\ removeMe' = FALSE
            /\ UNCHANGED <<tls, closing, sent, queued>>
        BY <2>3 DEF RemovalEffect
      <3>2. ~removeMe => (writeCb <=> out # <<>>)
        BY <1>b, <3>1 DEF CallbackInStep, CallbackIffOutput
      <3>3. closing => out = <<>> \/ ended \in {"broken", "cut"}
        BY <1>a, <2>3, <3>2
      <3>4. ~tls /\ out = <<>> => sent = queued
        BY <1>b, <3>1 DEF SentInStep
      <3> QED BY <2>3, <3>1, <3>3, <3>4
    <2>4. CASE RemovalEffect /\ ended' = "doomed"
      BY <2>4 DEF RemovalEffect
    <2> QED BY <2>1, <2>2, <2>3, <2>4, Zenon DEF FinishEffect, cbVars
  <1>15. CASE ReadSome
    <2>1. ReadSomeEffect
      BY <1>15, ReadSomeIsEffect
    <2> QED BY <1>a, <1>b, <2>1 DEF ReadSomeEffect, SentInStep, SessionInStep,
              CallbackInStep
  <1>16. CASE ReadAgain
    BY <1>a, <1>b, <1>16 DEF ReadAgain, ReadExhausted, SentInStep, SessionInStep,
           CallbackInStep
  <1>17. CASE ReadEof
    BY <1>a, <1>b, <1>17 DEF ReadEof, ReadFails, SentInStep, SessionInStep, CallbackInStep
  <1>18. CASE UserContinues
    BY <1>a, <1>18 DEF UserContinues, ReadExhausted, userKeeps
  <1>19. CASE UserCloses
    <2>1. /\ pc = "user" /\ UNCHANGED <<conn, out>> /\ readCb' = "none"
          /\ out = <<>> \/ removeMe' = removeMe
      BY <1>19, Zenon DEF UserCloses, ReadFails, userKeeps
    <2>2. conn = "open" /\ ~removeMe
      BY <1>b, <2>1 DEF SessionInStep, CallbackInStep, placeTypeOK
    <2> QED BY <2>1, <2>2
  <1>20. CASE UserFails
    <2>1. pc = "user" /\ UNCHANGED <<conn, closing>>
      BY <1>20 DEF UserFails, userKeeps
    <2>2. conn = "open" /\ ~closing
      BY <1>a, <1>b, <2>1 DEF SessionInStep, InUser, placeTypeOK
    <2> QED BY <2>1, <2>2
  <1>21. CASE Write
    <2>1. WriteEffect
      BY <1>21, WriteIsEffect
    <2>2. /\ pc = "write" /\ conn' = conn /\ closing' = closing /\ ControlEffect
      BY <2>1 DEF WriteEffect, writeKeeps
    <2>3. conn = "open" /\ ~removeMe
      BY <1>b, <2>2 DEF SessionInStep, CallbackInStep, placeTypeOK
    <2>4. readCb' \in {readCb, "none"}
      BY <2>2 DEF ControlEffect
    <2>5. removeMe' = removeMe \/ out' = <<>> \/ ended' \in {"broken", "cut"}
      BY <2>2, Zenon DEF ControlEffect
    <2> QED BY <1>a, <2>2, <2>3, <2>4, <2>5
  <1>22. CASE UNCHANGED vars
    BY <1>a, <1>22 DEF vars
  <1> QED
    BY <1>1, <1>2, <1>3, <1>4, <1>5, <1>6, <1>7, <1>8, <1>9, <1>10, <1>11, <1>12,
       <1>13, <1>14, <1>15, <1>16, <1>17, <1>18, <1>19, <1>20, <1>21, <1>22,
       ServiceAssumption
       DEF Next, Worker, UserReturns

\* The invariant is inductive and holds in every reachable state.
THEOREM Invariance == Spec => []IInv
  <1>1. IInv /\ [Next]_vars => IInv'
    BY FlagsStep, PlacesStep, CountStep, BufferStep, InboxStep, QueueStep, SessionStep,
       CallbackStep, OutStep, SentStep, ClosedStep
       DEF IInv, TypeOK
  <1> QED BY InitIInv, <1>1, PTL DEF Spec

-----------------------------------------------------------------------------
(* What it shows.                                                          *)

\* Buffers and counts stay within their bounds, whatever the peer sends: read() is
\* never called for 0 bytes, and no writer gives the socket more than it takes.
THEOREM TypeCorrect == Spec => []TypeOK
  <1>1. IInv => TypeOK
    BY DEF IInv
  <1> QED BY <1>1, Invariance, PTL

\* The DASSERTs of Write(), poService_send() and Read(): output waits exactly while
\* the write callback is set.
THEOREM CallbackFollowsOutput == Spec => []CallbackIffOutput
  <1>1. IInv => CallbackIffOutput
    BY DEF IInv, CallbackInStep
  <1> QED BY <1>1, Invariance, PTL

\* POSERVICE_CLOSE: what the user had queued reaches the socket, unless the server
\* removes the connection, the peer breaks it, or a file is cut.
THEOREM CloseSendsAll == Spec => []CloseFlushes
  <1>1. IInv => CloseFlushes
    BY DEF IInv, ClosedInStep
  <1> QED BY <1>1, Invariance, PTL

\* Cleanup() leaves no session, no output and no TLS session behind.
THEOREM CleanupIsComplete == Spec => []NothingLeft
  <1>1. IInv => NothingLeft
    BY DEF IInv, SessionInStep, NothingLeft
  <1> QED BY <1>1, Invariance, PTL

\* The session implements ByteStream: what reaches the socket is what was queued,
\* in its order, nothing twice and nothing after the end, and without TLS all of it.
THEOREM SessionIsByteStream == Spec => IsByteStream
  <1>1. Init => Stream!Init
    BY DEF Init, Stream!Init
  <1>2. ASSUME IInv, [Next]_vars PROVE [Stream!Next]_(Stream!vars)
    <2>a. placeTypeOK /\ countTypeOK /\ SessionInStep
      BY <1>2 DEF IInv, TypeOK
    <2> USE ServiceAssumption
        DEF placeTypeOK, countTypeOK, Stream!Next, Stream!vars, cbVars,
            taskVars, workVars, inVars, roomVars, streamVars, peerVars
    <2>1. CASE PeerSends
      BY <2>1 DEF PeerSends
    <2>2. CASE PeerHangsUp
      BY <2>2 DEF PeerHangsUp
    <2>3. CASE PeerReads
      BY <2>3 DEF PeerReads
    <2>4. CASE doEvent
      BY <2>4 DEF doEvent
    <2>5. CASE Timeout
      BY <2>5 DEF Timeout
    <2>6. CASE ServerRemoves
      <3>1. RemovalEffect
        BY <1>2, <2>6, ServerRemovesEffect
      <3> QED BY <3>1 DEF RemovalEffect, Stream!Close
    <2>7. CASE Handshake
      BY <2>7 DEF Handshake
    <2>8. CASE HandshakeFails
      BY <2>8 DEF HandshakeFails, ReadFails
    <2>9. ASSUME NEW file \in BOOLEAN, NEW n \in Nat, send(file, n)
          PROVE  [Stream!Next]_(Stream!vars)
      <3>1. SendEffect(file, n)
        BY <1>2, <2>9, SendIsEffect
      <3>2. conn = "open"
        BY <2>a, <3>1 DEF SendEffect, SessionInStep
      <3>3. /\ queued' = queued + n /\ conn' = conn
            /\ tls' = tls /\ sent' = sent /\ skipped' = skipped
        BY <3>1 DEF SendEffect
      <3>a. queued \in Nat
        BY <2>a
      <3>4. CASE n = 0
        <4>1. queued' = queued
          BY <3>a, <3>3, <3>4
        <4> QED BY <3>3, <4>1, Zenon
      <3>5. CASE n > 0
        <4>1. queued' > queued
          BY <3>a, <3>3, <3>5
        <4> QED BY <3>2, <3>3, <4>1, Zenon DEF Stream!Queue
      <3> QED BY <3>4, <3>5
    <2>10. CASE ServiceConnection
      BY <2>10 DEF ServiceConnection
    <2>11. CASE ReadStageEnds
      BY <2>11 DEF ReadStageEnds
    <2>12. CASE WriteStage
      BY <2>12 DEF WriteStage
    <2>13. CASE WriteStageEnds
      BY <2>13 DEF WriteStageEnds
    <2>14. CASE Finish
      <3>1. FinishEffect
        BY <1>2, <2>14, FinishIsEffect
      <3> QED BY <3>1 DEF FinishEffect, RemovalEffect, Stream!Close
    <2>15. CASE ReadSome
      BY <2>15 DEF ReadSome, ReadFails
    <2>16. CASE ReadAgain
      BY <2>16 DEF ReadAgain, ReadExhausted
    <2>17. CASE ReadEof
      BY <2>17 DEF ReadEof, ReadFails
    <2>18. CASE UserContinues
      BY <2>18 DEF UserContinues, ReadExhausted, userKeeps
    <2>19. CASE UserCloses
      BY <2>19 DEF UserCloses, ReadFails, userKeeps
    <2>20. CASE UserFails
      BY <2>20 DEF UserFails, ReadFails, userKeeps
    <2>21. CASE Write
      <3>1. WriteEffect /\ conn = "open"
        BY <1>2, <2>21, WriteIsEffect, FirstItem DEF WriteEffect
      <3>2. StreamEffect /\ queued' = queued /\ conn' = conn /\ tls' = tls
        BY <3>1 DEF WriteEffect, writeKeeps
      <3> QED BY <2>a, <3>1, <3>2 DEF StreamEffect, Stream!Deliver
    <2>22. CASE UNCHANGED vars
      BY <2>22 DEF vars
    <2> QED
      BY <1>2, <2>1, <2>2, <2>3, <2>4, <2>5, <2>6, <2>7, <2>8, <2>9, <2>10, <2>11, <2>12,
         <2>13, <2>14, <2>15, <2>16, <2>17, <2>18, <2>19, <2>20, <2>21, <2>22
         DEF Next, Worker, UserReturns
  <1> QED BY <1>1, <1>2, Invariance, PTL DEF Spec, IsByteStream, Stream!Spec
=============================================================================
