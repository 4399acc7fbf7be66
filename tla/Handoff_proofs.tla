--------------------------- MODULE Handoff_proofs ---------------------------
(***************************************************************************)
(* Proofs about Handoff, for any number of servers in the old process and  *)
(* any listeners in both, with and without SIGINT and kills.               *)
(***************************************************************************)
EXTENDS Handoff, WellFoundedInduction, TLAPS

-----------------------------------------------------------------------------
(* Numbers: a set of them has a smallest one, and the sum over the last    *)
(* servers, a recursive function, exists.                                  *)

LEMMA SmallestNumber ==
    ASSUME NEW T, T \subseteq Nat, T # {}
    PROVE  \E m \in T : \A k \in T : m <= k
  <1>1. PICK x \in T : \A y \in T : ~ (<<y, x>> \in OpToRel(<, Nat))
    BY WFMin, NatLessThanWellFounded
  <1>2. \A y \in T : ~ (y < x)
    <2> TAKE y \in T
    <2>1. <<y, x>> \in Nat \X Nat
      OBVIOUS
    <2>2. ~ (<<y, x>> \in {ss \in Nat \X Nat : ss[1] < ss[2]})
      BY <1>1, Zenon DEF OpToRel
    <2> QED BY <2>1, <2>2
  <1> QED BY <1>2

LEMMA NumberInduction ==
    ASSUME NEW Q, 0 \in Q, \A n \in Nat : n \in Q => n + 1 \in Q
    PROVE  \A n \in Nat : n \in Q
  <1> SUFFICES ASSUME NEW n \in Nat, n \notin Q PROVE FALSE
    OBVIOUS
  <1> DEFINE T == {m \in Nat : m \notin Q}
  <1>1. PICK m \in T : \A k \in T : m <= k
    <2>1. T \subseteq Nat /\ T # {}
      OBVIOUS
    <2> HIDE DEF T
    <2> QED BY <2>1, SmallestNumber
  <1>2. m - 1 \in Nat /\ m - 1 \notin T
    BY <1>1
  <1> QED BY <1>2

\* The old process has servers, and all have the same number of listeners.
LEMMA OldFacts ==
    /\ Len(OldListeners) \in Nat /\ Len(OldListeners) >= 1
    /\ \A s \in Server : Len(OldListeners[s]) \in Nat /\ Slot(s) = Slot(1)
    /\ \A s, t \in Server : Len(OldListeners[s]) = Len(OldListeners[t])
    /\ \A s \in Server : \A i \in Slot(s) : OldListeners[s][i] \in Addr
    /\ AllListeners \in [Server -> Nat] /\ 1 \in Server
  <1>1. Len(OldListeners) \in Nat /\ Len(OldListeners) >= 1
    BY AddrAssumption, ListenersAssumption
  <1>2. 1 \in Server /\ \A s \in Server : OldListeners[s] \in Seq(Addr)
    BY <1>1, AddrAssumption DEF Server
  <1>3. \A s \in Server : Len(OldListeners[s]) \in Nat /\ Slot(s) = Slot(1)
    BY <1>2, ListenersAssumption
  <1>4. \A s, t \in Server : Len(OldListeners[s]) = Len(OldListeners[t])
    <2> TAKE s, t \in Server
    <2>1. 1 .. Len(OldListeners[s]) = 1 .. Len(OldListeners[t])
      BY ListenersAssumption DEF Slot
    <2> DEFINE m == Len(OldListeners[s])
               n == Len(OldListeners[t])
    <2>2. m \in Nat /\ n \in Nat /\ 1 .. m = 1 .. n
      BY <1>3, <2>1
    <2> HIDE DEF m, n
    <2>3. m <= n
      <3>1. CASE m = 0
        BY <2>2, <3>1
      <3>2. CASE m # 0
        <4>1. m \in 1 .. m
          BY <2>2, <3>2
        <4> QED BY <2>2, <4>1
      <3> QED BY <3>1, <3>2
    <2>4. n <= m
      <3>1. CASE n = 0
        BY <2>2, <3>1
      <3>2. CASE n # 0
        <4>1. n \in 1 .. n
          BY <2>2, <3>2
        <4> QED BY <2>2, <4>1
      <3> QED BY <3>1, <3>2
    <2> QED BY <2>2, <2>3, <2>4 DEF m, n
  <1>5. \A s \in Server : \A i \in Slot(s) : OldListeners[s][i] \in Addr
    BY <1>2 DEF Slot
  <1>6. AllListeners \in [Server -> Nat]
    BY <1>3 DEF AllListeners
  <1> QED BY <1>1, <1>2, <1>3, <1>4, <1>5, <1>6

\* The recursive function of LastServers() exists, and is what it says.
LEMMA LastServersExists ==
    ASSUME NEW number \in [Server -> Nat]
    PROVE  \E F \in [0 .. Len(OldListeners) -> Nat] :
              \A k \in 0 .. Len(OldListeners) :
                 F[k] = IF k = 0 THEN 0 ELSE F[k - 1] + number[Len(OldListeners) - k + 1]
  <1> DEFINE N == Len(OldListeners)
             At(F, k) == IF k = 0 THEN 0 ELSE F[k - 1] + number[N - k + 1]
             Is(F, n) == F \in [0 .. n -> Nat] /\ \A k \in 0 .. n : F[k] = At(F, k)
             Q == {n \in Nat : n <= N => \E F : Is(F, n)}
  <1>0. N \in Nat /\ \A k \in 1 .. N : number[N - k + 1] \in Nat
    <2>1. N \in Nat
      BY OldFacts
    <2>2. \A k \in 1 .. N : N - k + 1 \in Server
      BY <2>1 DEF Server
    <2> HIDE DEF N
    <2> QED BY <2>1, <2>2
  <1> HIDE DEF N
  <1>1. 0 \in Q
    <2> DEFINE F == [i \in 0 .. 0 |-> 0]
    <2>1. Is(F, 0)
      OBVIOUS
    <2> HIDE DEF F, Is
    <2> QED BY <2>1
  <1>2. \A n \in Nat : n \in Q => n + 1 \in Q
    <2> SUFFICES ASSUME NEW n \in Nat, n \in Q, n + 1 <= N
                 PROVE  \E G : Is(G, n + 1)
      <3> HIDE DEF Is
      <3> QED OBVIOUS
    <2>0. n <= N /\ n + 1 \in 1 .. N
      BY <1>0
    <2>1. PICK F : Is(F, n)
      <3> HIDE DEF Is
      <3> QED BY <2>0
    <2> DEFINE v == F[n] + number[N - (n + 1) + 1]
               G == [i \in 0 .. n + 1 |-> IF i <= n THEN F[i] ELSE v]
    <2>2. v \in Nat
      BY <2>0, <2>1, <1>0
    <2>3. G \in [0 .. n + 1 -> Nat]
      BY <2>1, <2>2
    <2>4. \A k \in 0 .. n + 1 : G[k] = At(G, k)
      <3> TAKE k \in 0 .. n + 1
      <3>1. ASSUME k <= n PROVE G[k] = At(G, k)
        <4>1. G[k] = F[k] /\ k \in 0 .. n
          BY <3>1
        <4>2. k # 0 => k - 1 \in 0 .. n /\ G[k - 1] = F[k - 1]
          BY <3>1
        <4> HIDE DEF G
        <4> QED BY <2>1, <4>1, <4>2
      <3>2. ASSUME k = n + 1 PROVE G[k] = At(G, k)
        <4>1. G[k] = v /\ k - 1 = n /\ G[n] = F[n] /\ k # 0
          BY <3>2
        <4> HIDE DEF G
        <4> QED BY <3>2, <4>1
      <3> QED BY <3>1, <3>2
    <2> QED BY <2>3, <2>4
  <1>3. N \in Q
    <2> HIDE DEF Q
    <2> QED BY <1>0, <1>1, <1>2, NumberInduction
  <1> QED BY <1>0, <1>3 DEF N

LEMMA LastServersIs ==
    ASSUME NEW number \in [Server -> Nat]
    PROVE  /\ \A k \in 0 .. Len(OldListeners) : LastServers(number)[k] \in Nat
           /\ LastServers(number)[0] = 0
           /\ \A k \in 1 .. Len(OldListeners) :
                 LastServers(number)[k]
                    = LastServers(number)[k - 1] + number[Len(OldListeners) - k + 1]
  <1> DEFINE N == Len(OldListeners)
             Rec(F) == [k \in 0 .. N |-> IF k = 0 THEN 0 ELSE F[k - 1] + number[N - k + 1]]
             C == CHOOSE F : F = Rec(F)
  <1>0. N \in Nat
    BY OldFacts
  <1>1. LastServers(number) = C
    BY DEF LastServers
  <1>2. PICK F \in [0 .. N -> Nat] :
                \A k \in 0 .. N : F[k] = IF k = 0 THEN 0 ELSE F[k - 1] + number[N - k + 1]
    BY LastServersExists
  <1>3. F = Rec(F)
    BY <1>2
  <1>4. C = Rec(C)
    BY <1>3
  <1>5. \A k \in 0 .. N : C[k] = IF k = 0 THEN 0 ELSE C[k - 1] + number[N - k + 1]
    BY <1>4
  <1> DEFINE Q == {n \in Nat : n <= N => C[n] = F[n]}
  <1> HIDE DEF C
  <1>6. 0 \in Q
    BY <1>0, <1>2, <1>5
  <1>7. \A n \in Nat : n \in Q => n + 1 \in Q
    <2> SUFFICES ASSUME NEW n \in Nat, n \in Q, n + 1 <= N
                 PROVE  C[n + 1] = F[n + 1]
      OBVIOUS
    <2>1. n + 1 \in 0 .. N /\ n + 1 # 0 /\ C[n] = F[n] /\ (n + 1) - 1 = n
      BY <1>0
    <2>2. /\ C[n + 1] = C[n] + number[N - (n + 1) + 1]
          /\ F[n + 1] = F[n] + number[N - (n + 1) + 1]
      BY <2>1, <1>2, <1>5
    <2> QED BY <2>1, <2>2
  <1>8. \A n \in Nat : n \in Q
    <2> HIDE DEF Q
    <2> QED BY <1>6, <1>7, NumberInduction
  <1>9. \A k \in 0 .. N : C[k] = F[k]
    BY <1>0, <1>8
  <1> HIDE DEF N
  <1>10. /\ \A k \in 0 .. N : C[k] \in Nat
         /\ C[0] = 0
         /\ \A k \in 1 .. N : C[k] = C[k - 1] + number[N - k + 1]
    BY <1>0, <1>2, <1>5, <1>9
  <1> QED BY <1>1, <1>10 DEF N

-----------------------------------------------------------------------------
(* What is written to the UNIX domain socket.                              *)

LEMMA Messages ==
    /\ \A m \in Message :
          /\ m.type \in {"count", "fd", "end"}
          /\ m.type = "count" => m.num \in Nat
          /\ m.type = "fd" => m.addr \in Addr /\ m = Fd(m.addr)
          /\ m.type = "end" <=> m = EndChar
    /\ \A n \in Nat : Count(n) \in Message /\ Count(n).type = "count" /\ Count(n).num = n
    /\ \A a \in Addr : Fd(a) \in Message /\ Fd(a).type = "fd" /\ Fd(a).addr = a
    /\ EndChar \in Message /\ EndChar.type = "end"
  <1>1. \A m \in Message :
          /\ m.type \in {"count", "fd", "end"}
          /\ m.type = "count" => m.num \in Nat
          /\ m.type = "fd" => m.addr \in Addr /\ m = Fd(m.addr)
          /\ m.type = "end" <=> m = EndChar
    <2> TAKE m \in Message
    <2>1. CASE m \in [type : {"count"}, num : Nat]
      BY <2>1 DEF EndChar
    <2>2. CASE m \in [type : {"fd"}, addr : Addr]
      BY <2>2 DEF EndChar, Fd
    <2>3. CASE m = EndChar
      BY <2>3 DEF EndChar
    <2> QED BY <2>1, <2>2, <2>3 DEF Message
  <1> QED BY <1>1 DEF Message, Count, Fd, EndChar

-----------------------------------------------------------------------------
(* The types.                                                              *)

\* The old process's variables.
LEMMA OldGoneType == IInv /\ OldGone => oldTypeOK'
  <1> SUFFICES ASSUME IInv, OldGone PROVE oldTypeOK'
    OBVIOUS
  <1>1. open' \in [Server -> [Slot(1) -> BOOLEAN]]
    BY OldFacts DEF OldGone
  <1> QED BY <1>1 DEF OldGone, IInv, TypeOK, oldTypeOK, streamVars, sigVars, newVars

LEMMA OldTypeStep == IInv /\ [Next]_vars => oldTypeOK'
  <1> SUFFICES ASSUME IInv, [Next]_vars PROVE oldTypeOK'
    OBVIOUS
  <1> USE DEF IInv, TypeOK, oldTypeOK, oldVars, mainVars, handVars, sigVars,
             streamVars, newVars
  <1>1. CASE HandlerStarts
    BY <1>1 DEF HandlerStarts, RunsMain, Interrupted
  <1>2. CASE HandlerConnects
    BY <1>2 DEF HandlerConnects
  <1>3. CASE HandlerWritesCount
    BY <1>3 DEF HandlerWritesCount, HandlerFails
  <1>4. CASE HandlerSends
    BY <1>4 DEF HandlerSends, HandlerFails
  <1>5. CASE HandlerNextServer
    BY <1>5 DEF HandlerNextServer
  <1>6. CASE HandlerDone
    BY <1>6 DEF HandlerDone
  <1>7. CASE doNextEvents
    BY <1>7 DEF doNextEvents, RunsMain, OldGoesTo
  <1>8. CASE EpollWait
    BY <1>8 DEF EpollWait, RunsMain, OldGoesTo
  <1>9. CASE EpollReturns
    BY <1>9 DEF EpollReturns, RunsMain, OldGoesTo
  <1>10. CASE ShutdownBegins
    BY <1>10 DEF ShutdownBegins, RunsMain
  <1>11. CASE checkSignalNewServerContinue
    <2>1. /\ opc' = "close" /\ slot' = 1 /\ shutdownFd' \in BOOLEAN
          /\ UNCHANGED <<isRunning, listenersDown, numListeners, open, ignoring,
                         terminating, cur>>
      BY <1>11 DEF checkSignalNewServerContinue
    <2> QED BY <2>1
  <1>12. CASE CloseListener
    <2>1. cur \in Server /\ slot \in Nat \ {0} /\ slot <= Len(OldListeners[cur])
      BY <1>12 DEF CloseListener
    <2>2. numListeners[cur] >= 1
      BY <1>12, <2>1, OldFacts DEF CloseListener, ClosingInStep
    <2>3. numListeners' = [numListeners EXCEPT ![cur] = numListeners[cur] - 1]
          /\ slot' = slot + 1 /\ cur' = cur /\ opc' = opc
      BY <1>12 DEF CloseListener
    <2>4. open' \in [Server -> [Slot(1) -> BOOLEAN]]
      <3>1. slot \in Slot(1)
        BY <2>1, OldFacts DEF Slot
      <3>2. open' = [open EXCEPT ![cur] = [open[cur] EXCEPT ![slot] = FALSE]]
        BY <1>12 DEF CloseListener
      <3> QED BY <2>1, <3>1, <3>2
    <2>5. /\ numListeners' \in [Server -> Nat]
          /\ \A s \in Server : numListeners'[s] <= Len(OldListeners[s])
      BY <2>1, <2>2, <2>3, OldFacts
    <2> QED BY <1>12, <2>1, <2>3, <2>4, <2>5 DEF CloseListener
  <1>13. CASE ShutdownEnds
    <2>1. CASE cur < Len(OldListeners)
      <3>1. cur + 1 \in Server
        BY <2>1, OldFacts DEF Server
      <3> QED BY <1>13, <2>1, <3>1 DEF ShutdownEnds
    <2>2. CASE ~(cur < Len(OldListeners))
      BY <1>13, <2>2, OldGoneType DEF ShutdownEnds
    <2> QED BY <2>1, <2>2
  <1>14. CASE SignalOld
    BY <1>14 DEF SignalOld, NewGone
  <1>15. CASE AcceptOld
    BY <1>15 DEF AcceptOld
  <1>16. CASE ReadCount
    BY <1>16 DEF ReadCount, NewGone
  <1>17. CASE Receive
    BY <1>17 DEF Receive, NewGone
  <1>18. CASE ReceivedAll
    BY <1>18 DEF ReceivedAll
  <1>19. CASE WaitForOld
    BY <1>19 DEF WaitForOld, NewGone
  <1>20. CASE listenerSetup
    BY <1>20 DEF listenerSetup, NewGone
  <1>21. CASE handoffCleanup
    BY <1>21 DEF handoffCleanup
  <1>22. CASE termHandler
    <2>1. CASE OldGone
      BY <2>1, OldGoneType
    <2>2. CASE ~OldGone
      BY <1>22, <2>2 DEF termHandler, Interrupted
    <2> QED BY <2>1, <2>2
  <1>23. CASE OldKilled
    BY <1>23, OldGoneType DEF OldKilled
  <1>24. CASE NewKilled
    BY <1>24 DEF NewKilled, NewGone
  <1>25. CASE UNCHANGED vars
    BY <1>25 DEF vars
  <1>26. CASE HandlerAsserts
    <2>1. CASE OldGone
      BY <2>1, OldGoneType
    <2>2. CASE ~OldGone
      BY <1>26, <2>2 DEF HandlerAsserts
    <2> QED BY <2>1, <2>2
  <1> QED
    BY <1>1, <1>2, <1>3, <1>4, <1>5, <1>6, <1>7, <1>8, <1>9, <1>10, <1>11, <1>12,
       <1>13, <1>14, <1>15, <1>16, <1>17, <1>18, <1>19, <1>20, <1>21, <1>22, <1>23, <1>24,
       <1>25, <1>26
       DEF Next, HandlerStep, OldStep, NewStep

\* The handler's.
LEMMA HandlerTypeStep == IInv /\ [Next]_vars => handlerTypeOK'
  <1> SUFFICES ASSUME IInv, [Next]_vars PROVE handlerTypeOK'
    OBVIOUS
  <1> USE DEF IInv, TypeOK, handlerTypeOK, oldVars, mainVars, handVars, sigVars,
             streamVars, newVars
  <1>1. CASE HandlerStarts
    BY <1>1 DEF HandlerStarts, RunsMain, Interrupted
  <1>2. CASE HandlerConnects
    BY <1>2 DEF HandlerConnects
  <1>3. CASE HandlerWritesCount
    <2>1. 1 \in Server /\ numListeners[1] \in Nat /\ numListeners[1] <= Len(OldListeners[1])
          /\ 1 \in 1 .. Len(OldListeners) + 1
      BY OldFacts DEF oldTypeOK
    <2>2. hpc' \in {"none", "send"} /\ \/ hs' = hs /\ hi' = hi
                                       \/ hs' = 1 /\ hi' = numListeners[1]
      BY <1>3, <2>1 DEF HandlerWritesCount, HandlerFails, LastOf
    <2> QED BY <2>1, <2>2
  <1>4. CASE HandlerSends
    <2>1. hi - 1 \in Nat /\ hi - 1 <= hi
      BY <1>4 DEF HandlerSends
    <2>2. hs \in Server => Len(OldListeners[hs]) \in Nat
      BY OldFacts
    <2>3. hpc' \in {"none", "send"} /\ hs' = hs /\ hi' \in {hi, hi - 1}
      BY <1>4 DEF HandlerSends, HandlerFails
    <2> QED BY <2>1, <2>2, <2>3
  <1>5. CASE HandlerNextServer
    <2>1. hs + 1 \in 1 .. Len(OldListeners) + 1
      BY <1>5, OldFacts DEF HandlerNextServer
    <2>2. hs' = hs + 1 /\ hi' = LastOf(hs + 1) /\ hpc' = hpc
      BY <1>5 DEF HandlerNextServer
    <2>3. LastOf(hs + 1) \in Nat
          /\ (hs + 1 \in Server => LastOf(hs + 1) <= Len(OldListeners[hs + 1]))
      BY DEF LastOf, oldTypeOK
    <2> QED BY <2>1, <2>2, <2>3
  <1>6. CASE HandlerDone
    BY <1>6 DEF HandlerDone
  <1>7. CASE doNextEvents
    BY <1>7 DEF doNextEvents, RunsMain, OldGoesTo
  <1>8. CASE EpollWait
    BY <1>8 DEF EpollWait, RunsMain, OldGoesTo
  <1>9. CASE EpollReturns
    BY <1>9 DEF EpollReturns, RunsMain, OldGoesTo
  <1>10. CASE ShutdownBegins
    BY <1>10 DEF ShutdownBegins, RunsMain
  <1>11. CASE checkSignalNewServerContinue
    BY <1>11 DEF checkSignalNewServerContinue, RunsMain
  <1>12. CASE CloseListener
    BY <1>12 DEF CloseListener, RunsMain
  <1>13. CASE ShutdownEnds
    BY <1>13 DEF ShutdownEnds, RunsMain, OldGone
  <1>14. CASE SignalOld
    BY <1>14 DEF SignalOld, NewGone
  <1>15. CASE AcceptOld
    BY <1>15 DEF AcceptOld
  <1>16. CASE ReadCount
    BY <1>16 DEF ReadCount, NewGone
  <1>17. CASE Receive
    BY <1>17 DEF Receive, NewGone
  <1>18. CASE ReceivedAll
    BY <1>18 DEF ReceivedAll
  <1>19. CASE WaitForOld
    BY <1>19 DEF WaitForOld, NewGone
  <1>20. CASE listenerSetup
    BY <1>20 DEF listenerSetup, NewGone
  <1>21. CASE handoffCleanup
    BY <1>21 DEF handoffCleanup
  <1>22. CASE termHandler
    BY <1>22 DEF termHandler, Interrupted, OldGone
  <1>23. CASE OldKilled
    BY <1>23 DEF OldKilled, OldGone
  <1>24. CASE NewKilled
    BY <1>24 DEF NewKilled, NewGone
  <1>25. CASE UNCHANGED vars
    BY <1>25 DEF vars
  <1>26. CASE HandlerAsserts
    BY <1>26 DEF HandlerAsserts, OldGone
  <1> QED
    BY <1>1, <1>2, <1>3, <1>4, <1>5, <1>6, <1>7, <1>8, <1>9, <1>10, <1>11, <1>12,
       <1>13, <1>14, <1>15, <1>16, <1>17, <1>18, <1>19, <1>20, <1>21, <1>22, <1>23, <1>24,
       <1>25, <1>26
       DEF Next, HandlerStep, OldStep, NewStep

LEMMA TotalIsNumber ==
    ASSUME IInv
    PROVE  TotalListeners \in Nat
  <1>1. numListeners \in [Server -> Nat]
    BY DEF IInv, TypeOK, oldTypeOK
  <1>2. Len(OldListeners) \in 0 .. Len(OldListeners)
    BY OldFacts
  <1> QED BY <1>1, <1>2, LastServersIs DEF TotalListeners

\* Reading and writing.
LEMMA Reading ==
    ASSUME NEW s \in Seq(Message), s # <<>>
    PROVE  /\ Head(s) = s[1] /\ Head(s) \in Message /\ Tail(s) \in Seq(Message)
           /\ Len(s) \in Nat /\ Len(s) >= 1 /\ Len(Tail(s)) = Len(s) - 1
           /\ \A i \in 1 .. Len(s) - 1 : Tail(s)[i] = s[i + 1]
  OBVIOUS

LEMMA Writing ==
    ASSUME NEW s \in Seq(Message), NEW m \in Message
    PROVE  /\ Append(s, m) \in Seq(Message) /\ Append(s, m) # <<>>
           /\ Len(s) \in Nat /\ Len(Append(s, m)) = Len(s) + 1
           /\ \A i \in 1 .. Len(s) : Append(s, m)[i] = s[i]
           /\ Append(s, m)[Len(s) + 1] = m
           /\ Head(Append(s, m)) = Append(s, m)[1]
  OBVIOUS

\* What is read first: the number, then sockets.
LEMMA FirstMessage ==
    ASSUME IInv, Talking, stream # <<>>
    PROVE  /\ Head(stream) = stream[1] /\ stream[1] \in Message /\ Len(stream) >= 1
           /\ HasCount => Head(stream).type = "count" /\ Head(stream).num \in Nat
           /\ ~HasCount => \/ Head(stream) = EndChar /\ Len(stream) = 1
                           \/ /\ Head(stream).addr \in Addr
                              /\ Head(stream) = Fd(Head(stream).addr)
                              /\ Head(stream) # EndChar
  <1>1. /\ Head(stream) = stream[1] /\ stream[1] \in Message /\ Len(stream) \in Nat
        /\ Len(stream) >= 1
    BY Reading DEF IInv, TypeOK, streamTypeOK
  <1>2. /\ stream[1].type = "count" <=> HasCount
        /\ stream[1].type = "end" => 1 = Len(stream)
    <2>1. 1 \in 1 .. Len(stream)
      BY <1>1
    <2>2. /\ stream[1].type = "count" <=> 1 = 1 /\ HasCount
          /\ stream[1].type = "end" => 1 = Len(stream)
      BY <2>1, Zenon DEF IInv, StreamInStep
    <2> QED BY <2>2
  <1> QED BY <1>1, <1>2, Messages

\* The UNIX domain socket's.
LEMMA StreamTypeStep == IInv /\ [Next]_vars => streamTypeOK'
  <1> SUFFICES ASSUME IInv, [Next]_vars PROVE streamTypeOK'
    OBVIOUS
  <1> USE DEF IInv, TypeOK, streamTypeOK, oldVars, mainVars, handVars, sigVars,
             streamVars, newVars
  <1>1. CASE HandlerStarts
    BY <1>1 DEF HandlerStarts, RunsMain, Interrupted
  <1>2. CASE HandlerConnects
    BY <1>2 DEF HandlerConnects
  <1>3. CASE HandlerWritesCount
    <2>1. TotalListeners \in Nat
      BY TotalIsNumber
    <2>2. Append(stream, Count(TotalListeners)) \in Seq(Message)
      BY <2>1, Messages, Writing
    <2>3. /\ stream' = stream \/ stream' = Append(stream, Count(TotalListeners))
          /\ oldEnd' \in BOOLEAN /\ UNCHANGED <<bound, newEnd, sigVars>>
      BY <1>3 DEF HandlerWritesCount, HandlerFails
    <2> QED BY <2>2, <2>3
  <1>4. CASE HandlerSends
    <2>1. OldListeners[hs][hi] \in Addr
      BY <1>4, OldFacts DEF HandlerSends, handlerTypeOK, Server, Slot
    <2>2. Append(stream, Fd(OldListeners[hs][hi])) \in Seq(Message)
      BY <2>1, Messages, Writing
    <2>3. /\ stream' = stream \/ stream' = Append(stream, Fd(OldListeners[hs][hi]))
          /\ oldEnd' \in BOOLEAN /\ UNCHANGED <<bound, newEnd, sigVars>>
      BY <1>4 DEF HandlerSends, HandlerFails
    <2> QED BY <2>2, <2>3
  <1>5. CASE HandlerNextServer
    BY <1>5 DEF HandlerNextServer
  <1>6. CASE HandlerDone
    BY <1>6 DEF HandlerDone
  <1>7. CASE doNextEvents
    BY <1>7 DEF doNextEvents, RunsMain, OldGoesTo
  <1>8. CASE EpollWait
    BY <1>8 DEF EpollWait, RunsMain, OldGoesTo
  <1>9. CASE EpollReturns
    BY <1>9 DEF EpollReturns, RunsMain, OldGoesTo
  <1>10. CASE ShutdownBegins
    BY <1>10 DEF ShutdownBegins, RunsMain
  <1>11. CASE checkSignalNewServerContinue
    <2>1. Append(stream, EndChar) \in Seq(Message)
      BY Messages, Writing
    <2>2. /\ stream' = stream \/ stream' = Append(stream, EndChar)
          /\ oldEnd' \in BOOLEAN /\ UNCHANGED <<bound, newEnd, sigVars>>
      BY <1>11 DEF checkSignalNewServerContinue
    <2> QED BY <2>1, <2>2
  <1>12. CASE CloseListener
    BY <1>12 DEF CloseListener, RunsMain
  <1>13. CASE ShutdownEnds
    BY <1>13 DEF ShutdownEnds, RunsMain, OldGone
  <1>14. CASE SignalOld
    BY <1>14 DEF SignalOld, NewGone
  <1>15. CASE AcceptOld
    BY <1>15 DEF AcceptOld
  <1>16. CASE ReadCount
    <2>1. stream # <<>> => Tail(stream) \in Seq(Message)
      BY Reading
    <2>2. /\ stream' = stream \/ (stream # <<>> /\ stream' = Tail(stream))
          /\ bound' \in {bound, FALSE} /\ newEnd' \in {newEnd, FALSE}
          /\ UNCHANGED <<oldEnd, sigVars>>
      BY <1>16 DEF ReadCount, NewGone
    <2> QED BY <2>1, <2>2
  <1>17. CASE Receive
    <2>1. stream # <<>> => Tail(stream) \in Seq(Message)
      BY Reading
    <2>2. /\ stream' = stream \/ (stream # <<>> /\ stream' = Tail(stream))
          /\ bound' \in {bound, FALSE} /\ newEnd' \in {newEnd, FALSE}
          /\ UNCHANGED <<oldEnd, sigVars>>
      BY <1>17 DEF Receive, NewGone
    <2> QED BY <2>1, <2>2
  <1>18. CASE ReceivedAll
    BY <1>18 DEF ReceivedAll
  <1>19. CASE WaitForOld
    <2>1. stream # <<>> => Tail(stream) \in Seq(Message)
      BY Reading
    <2>2. /\ stream' = stream \/ (stream # <<>> /\ stream' = Tail(stream))
          /\ bound' \in {bound, FALSE} /\ newEnd' \in {newEnd, FALSE}
          /\ UNCHANGED <<oldEnd, sigVars>>
      BY <1>19 DEF WaitForOld, NewGone
    <2> QED BY <2>1, <2>2
  <1>20. CASE listenerSetup
    BY <1>20 DEF listenerSetup, NewGone
  <1>21. CASE handoffCleanup
    BY <1>21 DEF handoffCleanup
  <1>22. CASE termHandler
    BY <1>22 DEF termHandler, Interrupted, OldGone
  <1>23. CASE OldKilled
    BY <1>23 DEF OldKilled, OldGone
  <1>24. CASE NewKilled
    BY <1>24 DEF NewKilled, NewGone
  <1>25. CASE UNCHANGED vars
    BY <1>25 DEF vars
  <1>26. CASE HandlerAsserts
    BY <1>26 DEF HandlerAsserts, OldGone
  <1> QED
    BY <1>1, <1>2, <1>3, <1>4, <1>5, <1>6, <1>7, <1>8, <1>9, <1>10, <1>11, <1>12,
       <1>13, <1>14, <1>15, <1>16, <1>17, <1>18, <1>19, <1>20, <1>21, <1>22, <1>23, <1>24,
       <1>25, <1>26
       DEF Next, HandlerStep, OldStep, NewStep

\* The new process's, also when it ends.
LEMMA NewGoneType ==
    ASSUME newTypeOK, NewGone, UNCHANGED <<expected, next>>
    PROVE  newTypeOK'
  <1>1. handoff' \in Seq(Addr \cup {NoFd})
    BY DEF NewGone
  <1>2. mine' \subseteq Addr
    BY DEF NewGone
  <1> QED BY <1>1, <1>2 DEF NewGone, newTypeOK

LEMMA NewTypeStep == IInv /\ [Next]_vars => newTypeOK'
  <1> SUFFICES ASSUME IInv, [Next]_vars PROVE newTypeOK'
    OBVIOUS
  <1> USE DEF IInv, TypeOK, newTypeOK, oldVars, mainVars, handVars, sigVars,
             streamVars, newVars
  <1>1. CASE HandlerStarts
    BY <1>1 DEF HandlerStarts, RunsMain, Interrupted
  <1>2. CASE HandlerConnects
    BY <1>2 DEF HandlerConnects
  <1>3. CASE HandlerWritesCount
    BY <1>3 DEF HandlerWritesCount, HandlerFails
  <1>4. CASE HandlerSends
    BY <1>4 DEF HandlerSends, HandlerFails
  <1>5. CASE HandlerNextServer
    BY <1>5 DEF HandlerNextServer
  <1>6. CASE HandlerDone
    BY <1>6 DEF HandlerDone
  <1>7. CASE doNextEvents
    BY <1>7 DEF doNextEvents, RunsMain, OldGoesTo
  <1>8. CASE EpollWait
    BY <1>8 DEF EpollWait, RunsMain, OldGoesTo
  <1>9. CASE EpollReturns
    BY <1>9 DEF EpollReturns, RunsMain, OldGoesTo
  <1>10. CASE ShutdownBegins
    BY <1>10 DEF ShutdownBegins, RunsMain
  <1>11. CASE checkSignalNewServerContinue
    BY <1>11 DEF checkSignalNewServerContinue, RunsMain
  <1>12. CASE CloseListener
    BY <1>12 DEF CloseListener, RunsMain
  <1>13. CASE ShutdownEnds
    BY <1>13 DEF ShutdownEnds, RunsMain, OldGone
  <1>14. CASE SignalOld
    <2>1. CASE opc = "dead"
      BY <1>14, <2>1, NewGoneType DEF SignalOld
    <2>2. CASE opc # "dead"
      BY <1>14, <2>2 DEF SignalOld
    <2> QED BY <2>1, <2>2
  <1>15. CASE AcceptOld
    BY <1>15 DEF AcceptOld
  <1>16. CASE ReadCount
    <2>1. CASE stream = <<>>
      BY <1>16, <2>1, NewGoneType DEF ReadCount
    <2>2. CASE stream # <<>>
      <3>1. Head(stream).num \in Nat
        BY <1>16, <2>2, FirstMessage DEF ReadCount, Talking, HasCount
      <3> QED BY <1>16, <2>2, <3>1 DEF ReadCount
    <2> QED BY <2>1, <2>2
  <1>17. CASE Receive
    <2>1. CASE stream = <<>> \/ Head(stream) = EndChar
      BY <1>17, <2>1, NewGoneType DEF Receive
    <2>2. CASE ~(stream = <<>> \/ Head(stream) = EndChar)
      <3>1. Head(stream).addr \in Addr
        BY <1>17, <2>2, FirstMessage DEF Receive, Talking, HasCount
      <3>2. handoff' = Append(handoff, Head(stream).addr) /\ handoff \in Seq(Addr \cup {NoFd})
            /\ UNCHANGED <<npc, expected, mine, next>>
        BY <1>17, <2>2 DEF Receive
      <3>3. handoff' \in Seq(Addr \cup {NoFd})
        BY <3>1, <3>2
      <3> QED BY <3>2, <3>3
    <2> QED BY <2>1, <2>2
  <1>18. CASE ReceivedAll
    BY <1>18 DEF ReceivedAll
  <1>19. CASE WaitForOld
    <2>1. CASE stream = <<>> \/ Head(stream) # EndChar
      BY <1>19, <2>1, NewGoneType DEF WaitForOld
    <2>2. CASE ~(stream = <<>> \/ Head(stream) # EndChar)
      BY <1>19, <2>2 DEF WaitForOld
    <2> QED BY <2>1, <2>2
  <1>20. CASE listenerSetup
    <2>1. CASE npc' = "failed"
      <3>1. NewGone /\ UNCHANGED <<expected, next>>
        BY <1>20, <2>1 DEF listenerSetup
      <3> QED BY <3>1, NewGoneType
    <2>2. CASE npc' # "failed"
      <3>1. PICK i : handoff' = [j \in DOMAIN handoff |-> IF j = i THEN NoFd ELSE handoff[j]]
        BY <1>20, <2>2 DEF listenerSetup, NewGone
      <3>2. handoff' \in Seq(Addr \cup {NoFd})
        BY <3>1
      <3>3. NewListeners[next] \in Addr
        BY <1>20, AddrAssumption DEF listenerSetup
      <3>4. /\ mine' = mine \cup {NewListeners[next]} /\ next' = next + 1
            /\ npc' = npc /\ expected' = expected
        BY <1>20, <2>2 DEF listenerSetup, NewGone
      <3> QED BY <3>2, <3>3, <3>4
    <2> QED BY <2>1, <2>2
  <1>21. CASE handoffCleanup
    BY <1>21 DEF handoffCleanup
  <1>22. CASE termHandler
    BY <1>22 DEF termHandler, Interrupted, OldGone
  <1>23. CASE OldKilled
    BY <1>23 DEF OldKilled, OldGone
  <1>24. CASE NewKilled
    BY <1>24, NewGoneType DEF NewKilled
  <1>25. CASE UNCHANGED vars
    BY <1>25 DEF vars
  <1>26. CASE HandlerAsserts
    BY <1>26 DEF HandlerAsserts, OldGone
  <1> QED
    BY <1>1, <1>2, <1>3, <1>4, <1>5, <1>6, <1>7, <1>8, <1>9, <1>10, <1>11, <1>12,
       <1>13, <1>14, <1>15, <1>16, <1>17, <1>18, <1>19, <1>20, <1>21, <1>22, <1>23, <1>24,
       <1>25, <1>26
       DEF Next, HandlerStep, OldStep, NewStep

-----------------------------------------------------------------------------
(* The order in which the processes do things.                             *)

\* The frame of the old process's part.
LEMMA SameClosing ==
    ASSUME ClosingInStep, UNCHANGED <<isRunning, cur, numListeners, slot>>,
           opc' = opc \/ (opc = "epoll" /\ opc' = "loop") \/ opc' = "dead"
    PROVE  ClosingInStep'
  BY DEF ClosingInStep, AllRunning

\* The old process closes what it has, server by server.
LEMMA ClosingStep == IInv /\ [Next]_vars => ClosingInStep'
  <1> SUFFICES ASSUME IInv, [Next]_vars PROVE ClosingInStep'
    OBVIOUS
  <1> USE DEF IInv
  <1>1. CASE HandlerStarts
    <2>1. /\ UNCHANGED <<isRunning, cur, numListeners, slot>>
          /\ opc' = opc \/ (opc = "epoll" /\ opc' = "loop") \/ opc' = "dead"
      BY <1>1 DEF HandlerStarts, RunsMain, Interrupted, oldVars, mainVars
    <2> QED BY <2>1, SameClosing
  <1>2. CASE HandlerConnects
    <2>1. /\ UNCHANGED <<isRunning, cur, numListeners, slot>>
          /\ opc' = opc \/ (opc = "epoll" /\ opc' = "loop") \/ opc' = "dead"
      BY <1>2 DEF HandlerConnects, oldVars, mainVars
    <2> QED BY <2>1, SameClosing
  <1>3. CASE HandlerWritesCount
    <2>1. /\ UNCHANGED <<isRunning, cur, numListeners, slot>>
          /\ opc' = opc \/ (opc = "epoll" /\ opc' = "loop") \/ opc' = "dead"
      BY <1>3 DEF HandlerWritesCount, HandlerFails, oldVars, mainVars
    <2> QED BY <2>1, SameClosing
  <1>4. CASE HandlerSends
    <2>1. /\ UNCHANGED <<isRunning, cur, numListeners, slot>>
          /\ opc' = opc \/ (opc = "epoll" /\ opc' = "loop") \/ opc' = "dead"
      BY <1>4 DEF HandlerSends, HandlerFails, oldVars, mainVars
    <2> QED BY <2>1, SameClosing
  <1>5. CASE HandlerNextServer
    <2>1. /\ UNCHANGED <<isRunning, cur, numListeners, slot>>
          /\ opc' = opc \/ (opc = "epoll" /\ opc' = "loop") \/ opc' = "dead"
      BY <1>5 DEF HandlerNextServer, oldVars, mainVars
    <2> QED BY <2>1, SameClosing
  <1>6. CASE HandlerDone
    <2>1. CASE replace
      <3>1. /\ \A s \in Server : isRunning'[s] = FALSE
            /\ UNCHANGED <<opc, cur, slot, numListeners>>
        BY <1>6, <2>1 DEF HandlerDone, mainVars
      <3> QED BY <3>1, OldFacts DEF ClosingInStep, AllRunning
    <2>2. CASE ~replace
      <3>1. UNCHANGED <<isRunning, cur, numListeners, slot, opc>>
        BY <1>6, <2>2 DEF HandlerDone, mainVars
      <3> QED BY <3>1, SameClosing
    <2> QED BY <2>1, <2>2
  <1>7. CASE doNextEvents
    BY <1>7 DEF doNextEvents, OldGoesTo, oldVars, ClosingInStep, AllRunning
  <1>8. CASE EpollWait
    BY <1>8 DEF EpollWait, OldGoesTo, oldVars, ClosingInStep, AllRunning
  <1>9. CASE EpollReturns
    <2>1. /\ UNCHANGED <<isRunning, cur, numListeners, slot>>
          /\ opc' = opc \/ (opc = "epoll" /\ opc' = "loop") \/ opc' = "dead"
      BY <1>9 DEF EpollReturns, RunsMain, OldGoesTo, oldVars, mainVars
    <2> QED BY <2>1, SameClosing
  <1>10. CASE ShutdownBegins
    <2>1. /\ opc = "loop" /\ opc' = "check" /\ ~isRunning[cur] /\ cur \in Server
          /\ UNCHANGED <<isRunning, cur, numListeners, slot>>
      BY <1>10 DEF ShutdownBegins, TypeOK, oldTypeOK
    <2> QED BY <2>1 DEF ClosingInStep, AllRunning
  <1>11. CASE checkSignalNewServerContinue
    <2>1. /\ opc = "check" /\ opc' = "close" /\ slot' = 1 /\ cur \in Server
          /\ UNCHANGED <<isRunning, cur, numListeners>>
      BY <1>11 DEF checkSignalNewServerContinue, TypeOK, oldTypeOK
    <2> QED BY <2>1, OldFacts DEF ClosingInStep, AllRunning
  <1>12. CASE CloseListener
    <2>1. /\ opc = "close" /\ slot' = slot + 1 /\ cur \in Server /\ slot \in Nat
          /\ numListeners' = [numListeners EXCEPT ![cur] = numListeners[cur] - 1]
          /\ numListeners \in [Server -> Nat] /\ UNCHANGED <<isRunning, cur, opc>>
      BY <1>12 DEF CloseListener, TypeOK, oldTypeOK
    <2>2. numListeners'[cur] = numListeners[cur] - 1
          /\ \A s \in Server : s # cur => numListeners'[s] = numListeners[s]
      BY <2>1
    <2>3. ~AllRunning /\ numListeners[cur] >= Len(OldListeners[cur]) + 1 - slot
          /\ \A s \in Server : s > cur => numListeners[s] >= Len(OldListeners[s])
      BY <2>1 DEF ClosingInStep
    <2>4. numListeners'[cur] >= Len(OldListeners[cur]) + 1 - slot'
      <3>1. Len(OldListeners[cur]) \in Nat /\ numListeners[cur] \in Nat
        BY <2>1, OldFacts
      <3> DEFINE n == numListeners[cur]
                 m == Len(OldListeners[cur])
      <3>2. n \in Nat /\ m \in Nat /\ slot \in Nat /\ n >= m + 1 - slot
        BY <2>1, <2>3, <3>1
      <3> HIDE DEF n, m
      <3>3. n - 1 >= m + 1 - (slot + 1)
        BY <3>2
      <3> QED BY <2>1, <2>2, <3>3, Zenon DEF n, m
    <2>5. \A s \in Server : s > cur => numListeners'[s] >= Len(OldListeners[s])
      BY <2>1, <2>2, <2>3 DEF Server
    <2> QED BY <2>1, <2>3, <2>4, <2>5 DEF ClosingInStep, AllRunning
  <1>13. CASE ShutdownEnds
    <2>1. CASE cur < Len(OldListeners)
      <3>1. /\ opc = "close" /\ opc' = "loop" /\ cur' = cur + 1 /\ cur \in Server
            /\ UNCHANGED <<isRunning, numListeners>>
        BY <1>13, <2>1 DEF ShutdownEnds, oldVars, TypeOK, oldTypeOK
      <3>2. ~AllRunning /\ \A s \in Server : s > cur => numListeners[s] >= Len(OldListeners[s])
        BY <3>1 DEF ClosingInStep
      <3>3. cur + 1 \in Server /\ \A s \in Server : s > cur + 1 => s > cur
        BY <3>1, <2>1, OldFacts DEF Server
      <3>4. numListeners[cur + 1] >= Len(OldListeners[cur + 1])
            /\ \A s \in Server : s > cur + 1 => numListeners[s] >= Len(OldListeners[s])
        <4>1. cur + 1 > cur
          BY <3>1 DEF Server
        <4> QED BY <3>2, <3>3, <4>1
      <3> QED BY <3>1, <3>2, <3>4 DEF ClosingInStep, AllRunning
    <2>2. CASE ~(cur < Len(OldListeners))
      <3>1. opc' = "dead" /\ UNCHANGED <<isRunning, cur, numListeners, slot>>
        BY <1>13, <2>2 DEF ShutdownEnds, OldGone
      <3> QED BY <3>1, SameClosing
    <2> QED BY <2>1, <2>2
  <1>14. CASE SignalOld
    <2>1. /\ UNCHANGED <<isRunning, cur, numListeners, slot>>
          /\ opc' = opc \/ (opc = "epoll" /\ opc' = "loop") \/ opc' = "dead"
      BY <1>14 DEF SignalOld, NewGone, oldVars, mainVars
    <2> QED BY <2>1, SameClosing
  <1>15. CASE AcceptOld
    <2>1. /\ UNCHANGED <<isRunning, cur, numListeners, slot>>
          /\ opc' = opc \/ (opc = "epoll" /\ opc' = "loop") \/ opc' = "dead"
      BY <1>15 DEF AcceptOld, oldVars, mainVars
    <2> QED BY <2>1, SameClosing
  <1>16. CASE ReadCount
    <2>1. /\ UNCHANGED <<isRunning, cur, numListeners, slot>>
          /\ opc' = opc \/ (opc = "epoll" /\ opc' = "loop") \/ opc' = "dead"
      BY <1>16 DEF ReadCount, NewGone, oldVars, mainVars
    <2> QED BY <2>1, SameClosing
  <1>17. CASE Receive
    <2>1. /\ UNCHANGED <<isRunning, cur, numListeners, slot>>
          /\ opc' = opc \/ (opc = "epoll" /\ opc' = "loop") \/ opc' = "dead"
      BY <1>17 DEF Receive, NewGone, oldVars, mainVars
    <2> QED BY <2>1, SameClosing
  <1>18. CASE ReceivedAll
    <2>1. /\ UNCHANGED <<isRunning, cur, numListeners, slot>>
          /\ opc' = opc \/ (opc = "epoll" /\ opc' = "loop") \/ opc' = "dead"
      BY <1>18 DEF ReceivedAll, oldVars, mainVars
    <2> QED BY <2>1, SameClosing
  <1>19. CASE WaitForOld
    <2>1. /\ UNCHANGED <<isRunning, cur, numListeners, slot>>
          /\ opc' = opc \/ (opc = "epoll" /\ opc' = "loop") \/ opc' = "dead"
      BY <1>19 DEF WaitForOld, NewGone, oldVars, mainVars
    <2> QED BY <2>1, SameClosing
  <1>20. CASE listenerSetup
    <2>1. /\ UNCHANGED <<isRunning, cur, numListeners, slot>>
          /\ opc' = opc \/ (opc = "epoll" /\ opc' = "loop") \/ opc' = "dead"
      BY <1>20 DEF listenerSetup, NewGone, oldVars, mainVars
    <2> QED BY <2>1, SameClosing
  <1>21. CASE handoffCleanup
    <2>1. /\ UNCHANGED <<isRunning, cur, numListeners, slot>>
          /\ opc' = opc \/ (opc = "epoll" /\ opc' = "loop") \/ opc' = "dead"
      BY <1>21 DEF handoffCleanup, oldVars, mainVars
    <2> QED BY <2>1, SameClosing
  <1>22. CASE termHandler
    <2>1. CASE OldGone
      <3>1. opc' = "dead" /\ UNCHANGED <<isRunning, cur, numListeners, slot>>
        BY <2>1 DEF OldGone
      <3> QED BY <3>1, SameClosing
    <2>2. CASE ~OldGone
      <3>1. /\ \A s \in Server : isRunning'[s] = FALSE
            /\ opc' = opc \/ (opc = "epoll" /\ opc' = "loop")
            /\ UNCHANGED <<cur, slot, numListeners>>
        BY <1>22, <2>2 DEF termHandler, Interrupted
      <3> QED BY <3>1, OldFacts DEF ClosingInStep, AllRunning
    <2> QED BY <2>1, <2>2
  <1>23. CASE OldKilled
    <2>1. /\ UNCHANGED <<isRunning, cur, numListeners, slot>>
          /\ opc' = opc \/ (opc = "epoll" /\ opc' = "loop") \/ opc' = "dead"
      BY <1>23 DEF OldKilled, OldGone, oldVars, mainVars
    <2> QED BY <2>1, SameClosing
  <1>24. CASE NewKilled
    <2>1. /\ UNCHANGED <<isRunning, cur, numListeners, slot>>
          /\ opc' = opc \/ (opc = "epoll" /\ opc' = "loop") \/ opc' = "dead"
      BY <1>24 DEF NewKilled, NewGone, oldVars, mainVars
    <2> QED BY <2>1, SameClosing
  <1>25. CASE UNCHANGED vars
    <2>1. /\ UNCHANGED <<isRunning, cur, numListeners, slot>>
          /\ opc' = opc \/ (opc = "epoll" /\ opc' = "loop") \/ opc' = "dead"
      BY <1>25 DEF vars, oldVars, mainVars
    <2> QED BY <2>1, SameClosing
  <1>26. CASE HandlerAsserts
    <2>1. /\ UNCHANGED <<isRunning, cur, numListeners, slot>>
          /\ opc' = opc \/ (opc = "epoll" /\ opc' = "loop") \/ opc' = "dead"
      BY <1>26 DEF HandlerAsserts, OldGone, oldVars, mainVars
    <2> QED BY <2>1, SameClosing
  <1> QED
    BY <1>1, <1>2, <1>3, <1>4, <1>5, <1>6, <1>7, <1>8, <1>9, <1>10, <1>11, <1>12,
       <1>13, <1>14, <1>15, <1>16, <1>17, <1>18, <1>19, <1>20, <1>21, <1>22, <1>23, <1>24,
       <1>25, <1>26
       DEF Next, HandlerStep, OldStep, NewStep

\* The handler.
LEMMA HandlerStepInStep == IInv /\ [Next]_vars => HandlerInStep'
  <1> SUFFICES ASSUME IInv, [Next]_vars PROVE HandlerInStep'
    OBVIOUS
  <1> USE DEF IInv, TypeOK, handlerTypeOK, HandlerInStep, AllRunning, oldVars,
             mainVars, handVars, sigVars, streamVars, newVars
  <1>1. CASE HandlerStarts
    BY <1>1 DEF HandlerStarts, RunsMain, Interrupted
  <1>2. CASE HandlerConnects
    BY <1>2 DEF HandlerConnects
  <1>3. CASE HandlerWritesCount
    BY <1>3 DEF HandlerWritesCount, HandlerFails
  <1>4. CASE HandlerSends
    BY <1>4 DEF HandlerSends, HandlerFails
  <1>5. CASE HandlerNextServer
    BY <1>5 DEF HandlerNextServer
  <1>6. CASE HandlerDone
    BY <1>6 DEF HandlerDone
  <1>7. CASE doNextEvents
    BY <1>7 DEF doNextEvents, RunsMain, OldGoesTo
  <1>8. CASE EpollWait
    BY <1>8 DEF EpollWait, RunsMain, OldGoesTo
  <1>9. CASE EpollReturns
    BY <1>9 DEF EpollReturns, RunsMain, OldGoesTo
  <1>10. CASE ShutdownBegins
    BY <1>10 DEF ShutdownBegins, RunsMain
  <1>11. CASE checkSignalNewServerContinue
    BY <1>11 DEF checkSignalNewServerContinue, RunsMain
  <1>12. CASE CloseListener
    BY <1>12 DEF CloseListener, RunsMain
  <1>13. CASE ShutdownEnds
    BY <1>13 DEF ShutdownEnds, RunsMain, OldGone
  <1>14. CASE SignalOld
    BY <1>14 DEF SignalOld, NewGone
  <1>15. CASE AcceptOld
    BY <1>15 DEF AcceptOld
  <1>16. CASE ReadCount
    BY <1>16 DEF ReadCount, NewGone
  <1>17. CASE Receive
    BY <1>17 DEF Receive, NewGone
  <1>18. CASE ReceivedAll
    BY <1>18 DEF ReceivedAll
  <1>19. CASE WaitForOld
    BY <1>19 DEF WaitForOld, NewGone
  <1>20. CASE listenerSetup
    BY <1>20 DEF listenerSetup, NewGone
  <1>21. CASE handoffCleanup
    BY <1>21 DEF handoffCleanup
  <1>22. CASE termHandler
    BY <1>22 DEF termHandler, Interrupted, OldGone
  <1>23. CASE OldKilled
    BY <1>23 DEF OldKilled, OldGone
  <1>24. CASE NewKilled
    BY <1>24 DEF NewKilled, NewGone
  <1>25. CASE UNCHANGED vars
    BY <1>25 DEF vars
  <1>26. CASE HandlerAsserts
    BY <1>26 DEF HandlerAsserts, OldGone
  <1> QED
    BY <1>1, <1>2, <1>3, <1>4, <1>5, <1>6, <1>7, <1>8, <1>9, <1>10, <1>11, <1>12,
       <1>13, <1>14, <1>15, <1>16, <1>17, <1>18, <1>19, <1>20, <1>21, <1>22, <1>23, <1>24,
       <1>25, <1>26
       DEF Next, HandlerStep, OldStep, NewStep

\* The new process sets up its listeners in order.
LEMMA SetupStep == IInv /\ [Next]_vars => SetupInStep'
  <1> SUFFICES ASSUME IInv, [Next]_vars PROVE SetupInStep'
    OBVIOUS
  <1> USE DEF IInv, SetupInStep, oldVars, mainVars, handVars, sigVars, streamVars, newVars
  <1>1. CASE HandlerStarts
    BY <1>1 DEF HandlerStarts, RunsMain, Interrupted
  <1>2. CASE HandlerConnects
    BY <1>2 DEF HandlerConnects
  <1>3. CASE HandlerWritesCount
    BY <1>3 DEF HandlerWritesCount, HandlerFails
  <1>4. CASE HandlerSends
    BY <1>4 DEF HandlerSends, HandlerFails
  <1>5. CASE HandlerNextServer
    BY <1>5 DEF HandlerNextServer
  <1>6. CASE HandlerDone
    BY <1>6 DEF HandlerDone
  <1>7. CASE doNextEvents
    BY <1>7 DEF doNextEvents, RunsMain, OldGoesTo
  <1>8. CASE EpollWait
    BY <1>8 DEF EpollWait, RunsMain, OldGoesTo
  <1>9. CASE EpollReturns
    BY <1>9 DEF EpollReturns, RunsMain, OldGoesTo
  <1>10. CASE ShutdownBegins
    BY <1>10 DEF ShutdownBegins, RunsMain
  <1>11. CASE checkSignalNewServerContinue
    BY <1>11 DEF checkSignalNewServerContinue, RunsMain
  <1>12. CASE CloseListener
    BY <1>12 DEF CloseListener, RunsMain
  <1>13. CASE ShutdownEnds
    BY <1>13 DEF ShutdownEnds, RunsMain, OldGone
  <1>14. CASE SignalOld
    BY <1>14 DEF SignalOld, NewGone
  <1>15. CASE AcceptOld
    BY <1>15 DEF AcceptOld
  <1>16. CASE ReadCount
    BY <1>16 DEF ReadCount, NewGone
  <1>17. CASE Receive
    BY <1>17 DEF Receive, NewGone
  <1>18. CASE ReceivedAll
    BY <1>18 DEF ReceivedAll
  <1>19. CASE WaitForOld
    BY <1>19 DEF WaitForOld, NewGone
  <1>20. CASE listenerSetup
    <2>1. next \in Nat \ {0} /\ Len(NewListeners) \in Nat
      BY AddrAssumption DEF TypeOK, newTypeOK
    <2>2. CASE npc' = "failed"
      <3>1. next' = next
        BY <1>20, <2>2 DEF listenerSetup
      <3> QED BY <2>2, <3>1
    <2>3. CASE npc' # "failed"
      <3>1. /\ npc = "setup" /\ npc' = "setup" /\ next <= Len(NewListeners)
            /\ mine' = mine \cup {NewListeners[next]} /\ next' = next + 1
        BY <1>20, <2>3 DEF listenerSetup, NewGone
      <3>2. mine' = {NewListeners[j] : j \in 1 .. next' - 1}
        BY <2>1, <3>1
      <3> QED BY <2>1, <3>1, <3>2
    <2> QED BY <2>2, <2>3
  <1>21. CASE handoffCleanup
    <2>1. next \in Nat \ {0} /\ Len(NewListeners) \in Nat
      BY AddrAssumption DEF TypeOK, newTypeOK
    <2> QED BY <1>21, <2>1 DEF handoffCleanup
  <1>22. CASE termHandler
    BY <1>22 DEF termHandler, Interrupted, OldGone
  <1>23. CASE OldKilled
    BY <1>23 DEF OldKilled, OldGone
  <1>24. CASE NewKilled
    BY <1>24 DEF NewKilled, NewGone
  <1>25. CASE UNCHANGED vars
    BY <1>25 DEF vars
  <1>26. CASE HandlerAsserts
    BY <1>26 DEF HandlerAsserts, OldGone
  <1> QED
    BY <1>1, <1>2, <1>3, <1>4, <1>5, <1>6, <1>7, <1>8, <1>9, <1>10, <1>11, <1>12,
       <1>13, <1>14, <1>15, <1>16, <1>17, <1>18, <1>19, <1>20, <1>21, <1>22, <1>23, <1>24,
       <1>25, <1>26
       DEF Next, HandlerStep, OldStep, NewStep

\* A message of the right type may be appended, and a first one be read.
LEMMA StreamAppended ==
    ASSUME IInv, NEW m \in Message, stream' = Append(stream, m), newEnd, newEnd', npc' = npc,
           Talking => (m.type = "count" <=> stream = <<>> /\ HasCount)
                      /\ (m.type = "end" => Begun) /\ ~HasEnd
    PROVE  StreamInStep'
  <1>1. stream \in Seq(Message) /\ Len(stream) \in Nat
    BY DEF IInv, TypeOK, streamTypeOK
  <1>2. /\ Len(stream') = Len(stream) + 1 /\ stream'[Len(stream) + 1] = m
        /\ \A i \in 1 .. Len(stream) : stream'[i] = stream[i]
    BY <1>1, Writing
  <1>3. /\ Talking' <=> Talking
        /\ HasCount' <=> HasCount
    BY DEF Talking, HasCount
  <1>4. ASSUME Talking, NEW i \in 1 .. Len(stream')
        PROVE  /\ stream'[i].type = "count" <=> i = 1 /\ HasCount
               /\ stream'[i].type = "end" => i = Len(stream')
    <2>1. CASE i \in 1 .. Len(stream)
      <3>1. /\ stream[i].type = "count" <=> i = 1 /\ HasCount
            /\ stream[i].type = "end" => i = Len(stream)
        BY <1>4, <2>1 DEF IInv, StreamInStep
      <3>2. stream[i].type # "end"
        <4>1. stream[i] \in Message
          BY <1>1, <2>1
        <4> QED BY <1>1, <1>4, <2>1, <3>1, <4>1, Messages DEF HasEnd
      <3> QED BY <1>2, <2>1, <3>1, <3>2
    <2>2. CASE i = Len(stream) + 1
      <3>1. i = 1 <=> stream = <<>>
        BY <1>1, <2>2
      <3> QED BY <1>2, <1>4, <2>2, <3>1
    <2> QED BY <1>1, <1>2, <2>1, <2>2
  <1> QED BY <1>3, <1>4 DEF StreamInStep

LEMMA StreamRead ==
    ASSUME IInv, Talking, stream # <<>>, stream' = Tail(stream), newEnd' = newEnd,
           npc' \in {"receive", "wait"}
    PROVE  StreamInStep'
  <1>1. stream \in Seq(Message) /\ Len(stream) \in Nat
    BY DEF IInv, TypeOK, streamTypeOK
  <1>2. /\ Len(stream') = Len(stream) - 1
        /\ \A i \in 1 .. Len(stream) - 1 : stream'[i] = stream[i + 1]
    BY <1>1, Reading
  <1>3. newEnd'
    BY DEF IInv, StreamInStep, Begun
  <1>4. ASSUME NEW i \in 1 .. Len(stream')
        PROVE  stream'[i].type # "count" /\ (stream'[i].type = "end" => i = Len(stream'))
    <2>1. i + 1 \in 1 .. Len(stream) /\ stream'[i] = stream[i + 1] /\ i + 1 # 1
      BY <1>1, <1>2
    <2>2. /\ stream[i + 1].type = "count" <=> i + 1 = 1 /\ HasCount
          /\ stream[i + 1].type = "end" => i + 1 = Len(stream)
      BY <2>1 DEF IInv, StreamInStep
    <2>3. stream'[i].type # "count"
      BY <2>1, <2>2
    <2>4. Len(stream') = Len(stream) - 1 /\ Len(stream) \in Nat
      BY <1>1, <1>2
    <2>5. stream'[i].type = "end" => i = Len(stream')
      BY <2>1, <2>2, <2>4
    <2> QED BY <2>3, <2>5
  <1> QED BY <1>3, <1>4 DEF StreamInStep, HasCount

\* The order on the stream.
LEMMA StreamStep == IInv /\ [Next]_vars => StreamInStep'
  <1> SUFFICES ASSUME IInv, [Next]_vars PROVE StreamInStep'
    OBVIOUS
  <1> USE DEF IInv, StreamInStep, Talking, HasCount, Begun, oldVars, mainVars,
             handVars, sigVars, streamVars, newVars
  <1>1. CASE HandlerStarts
    BY <1>1 DEF HandlerStarts, RunsMain, Interrupted
  <1>2. CASE HandlerConnects
    BY <1>2 DEF HandlerConnects
  <1>3. CASE HandlerWritesCount
    <2>1. CASE newEnd
      <3>1. TotalListeners \in Nat
        BY TotalIsNumber
      <3> DEFINE m == Count(TotalListeners)
      <3>2. m \in Message /\ m.type = "count"
        BY <3>1, Messages
      <3> HIDE DEF m
      <3>3. stream = <<>> /\ (Talking => HasCount)
        BY <1>3 DEF HandlerWritesCount, HandlerInStep
      <3>4. stream' = Append(stream, m) /\ newEnd' /\ npc' = npc
        BY <1>3, <2>1 DEF HandlerWritesCount, m
      <3> QED BY <2>1, <3>2, <3>3, <3>4, StreamAppended DEF HasEnd
    <2>2. CASE ~newEnd
      BY <1>3, <2>2 DEF HandlerWritesCount, StreamInStep
    <2> QED BY <2>1, <2>2
  <1>4. CASE HandlerSends
    <2>1. CASE newEnd /\ open[hs][hi]
      <3>1. OldListeners[hs][hi] \in Addr
        BY <1>4, OldFacts DEF HandlerSends, TypeOK, handlerTypeOK, Server, Slot
      <3> DEFINE m == Fd(OldListeners[hs][hi])
      <3>2. m \in Message /\ m.type = "fd"
        BY <3>1, Messages
      <3> HIDE DEF m
      <3>3. Talking => Begun /\ ~HasEnd /\ (HasCount => stream # <<>>)
        BY <1>4 DEF HandlerSends, CountInStep
      <3>4. stream' = Append(stream, m) /\ newEnd' /\ npc' = npc
        BY <1>4, <2>1 DEF HandlerSends, m
      <3> QED BY <2>1, <3>2, <3>3, <3>4, StreamAppended
    <2>2. CASE ~(newEnd /\ open[hs][hi])
      BY <1>4, <2>2 DEF HandlerSends, StreamInStep
    <2> QED BY <2>1, <2>2
  <1>5. CASE HandlerNextServer
    BY <1>5 DEF HandlerNextServer
  <1>6. CASE HandlerDone
    BY <1>6 DEF HandlerDone
  <1>7. CASE doNextEvents
    BY <1>7 DEF doNextEvents, RunsMain, OldGoesTo
  <1>8. CASE EpollWait
    BY <1>8 DEF EpollWait, RunsMain, OldGoesTo
  <1>9. CASE EpollReturns
    BY <1>9 DEF EpollReturns, RunsMain, OldGoesTo
  <1>10. CASE ShutdownBegins
    BY <1>10 DEF ShutdownBegins, RunsMain
  <1>11. CASE checkSignalNewServerContinue
    <2>1. CASE stream' = stream
      BY <1>11, <2>1 DEF checkSignalNewServerContinue, StreamInStep
    <2>2. CASE stream' # stream
      <3>1. stream' = Append(stream, EndChar) /\ newEnd /\ newEnd' /\ npc' = npc /\ shutdownFd
        BY <1>11, <2>2 DEF checkSignalNewServerContinue
      <3>2. Talking => Begun /\ ~HasEnd /\ (HasCount => stream # <<>>)
        BY <3>1 DEF CountInStep
      <3> QED BY <3>1, <3>2, Messages, StreamAppended
    <2> QED BY <2>1, <2>2
  <1>12. CASE CloseListener
    BY <1>12 DEF CloseListener, RunsMain
  <1>13. CASE ShutdownEnds
    BY <1>13 DEF ShutdownEnds, RunsMain, OldGone
  <1>14. CASE SignalOld
    <2>1. stream' = <<>> /\ npc' \in {"accept", "failed"}
      BY <1>14 DEF SignalOld, NewGone, HandlerInStep
    <2> QED BY <2>1
  <1>15. CASE AcceptOld
    BY <1>15 DEF AcceptOld
  <1>16. CASE ReadCount
    <2>1. CASE stream = <<>>
      BY <1>16, <2>1 DEF ReadCount, NewGone, StreamInStep
    <2>2. CASE stream # <<>>
      BY <1>16, <2>2, StreamRead DEF ReadCount
    <2> QED BY <2>1, <2>2
  <1>17. CASE Receive
    <2>1. CASE stream = <<>> \/ Head(stream) = EndChar
      BY <1>17, <2>1 DEF Receive, NewGone, StreamInStep
    <2>2. CASE ~(stream = <<>> \/ Head(stream) = EndChar)
      BY <1>17, <2>2, StreamRead DEF Receive
    <2> QED BY <2>1, <2>2
  <1>18. CASE ReceivedAll
    BY <1>18 DEF ReceivedAll
  <1>19. CASE WaitForOld
    <2>1. npc' \in {"setup", "failed"}
      BY <1>19 DEF WaitForOld, NewGone
    <2> QED BY <2>1 DEF StreamInStep
  <1>20. CASE listenerSetup
    BY <1>20 DEF listenerSetup, NewGone
  <1>21. CASE handoffCleanup
    BY <1>21 DEF handoffCleanup
  <1>22. CASE termHandler
    BY <1>22 DEF termHandler, Interrupted, OldGone
  <1>23. CASE OldKilled
    BY <1>23 DEF OldKilled, OldGone
  <1>24. CASE NewKilled
    BY <1>24 DEF NewKilled, NewGone
  <1>25. CASE UNCHANGED vars
    BY <1>25 DEF vars
  <1>26. CASE HandlerAsserts
    BY <1>26 DEF HandlerAsserts, OldGone
  <1> QED
    BY <1>1, <1>2, <1>3, <1>4, <1>5, <1>6, <1>7, <1>8, <1>9, <1>10, <1>11, <1>12,
       <1>13, <1>14, <1>15, <1>16, <1>17, <1>18, <1>19, <1>20, <1>21, <1>22, <1>23, <1>24,
       <1>25, <1>26
       DEF Next, HandlerStep, OldStep, NewStep

-----------------------------------------------------------------------------
(* The sockets are counted.                                                *)

LEMMA NotTalking ==
    ASSUME npc' \in {"start", "setup", "running", "failed"}
    PROVE  CountInStep'
  BY DEF CountInStep, Talking

LEMMA SameCount ==
    ASSUME CountInStep, UNCHANGED <<npc, stream, handoff, expected>>,
           hpc' = "send" => hpc = "send" /\ UNCHANGED <<hs, hi, numListeners>>,
           shutdownFd' => shutdownFd
    PROVE  CountInStep'
  <1>1. /\ Talking' <=> Talking
        /\ Begun' <=> Begun
        /\ HasEnd' <=> HasEnd
        /\ Total' = Total /\ OnWay' = OnWay
    BY DEF Talking, Begun, HasEnd, Total, OnWay, HasCount
  <1>2. hpc' = "send" => ToSend(numListeners, hs, hi)' = ToSend(numListeners, hs, hi)
    BY DEF ToSend
  <1> QED BY <1>1, <1>2 DEF CountInStep

\* How many are on their way after a message was written, or read.
LEMMA CountAppended ==
    ASSUME IInv, Talking, NEW m \in Message, stream' = Append(stream, m), npc' = npc,
           expected' = expected
    PROVE  /\ HasEnd' <=> m = EndChar
           /\ ~HasEnd => OnWay' = OnWay + (IF m = EndChar THEN 0 ELSE 1)
           /\ Begun'
           /\ Begun => Total' = Total
           /\ stream = <<>> /\ HasCount => Total' = m.num
  <1>1. stream \in Seq(Message) /\ Len(stream) \in Nat
    BY DEF IInv, TypeOK, streamTypeOK
  <1>2. /\ Len(stream') = Len(stream) + 1 /\ stream'[Len(stream) + 1] = m
        /\ stream' # <<>> /\ Head(stream') = stream'[1]
        /\ stream # <<>> => Head(stream') = Head(stream)
        /\ stream = <<>> => Head(stream') = m
    BY <1>1, Writing
  <1>3. HasCount' <=> HasCount
    BY DEF HasCount
  <1>4. HasEnd' <=> m = EndChar
    BY <1>2 DEF HasEnd
  <1>5. ~HasEnd => OnWay' = OnWay + (IF m = EndChar THEN 0 ELSE 1)
    <2> DEFINE c == IF HasCount THEN 1 ELSE 0
    <2>1. c \in Nat /\ OnWay = Len(stream) - c - (IF HasEnd THEN 1 ELSE 0)
      BY DEF OnWay
    <2>2. OnWay' = Len(stream') - c - (IF m = EndChar THEN 1 ELSE 0)
      BY <1>3, <1>4 DEF OnWay
    <2> HIDE DEF c
    <2> QED BY <1>1, <1>2, <2>1, <2>2
  <1>6. Begun'
    BY <1>2 DEF Begun
  <1>7. Begun => Total' = Total
    BY <1>2, <1>3 DEF Total, Begun, HasCount
  <1>8. stream = <<>> /\ HasCount => Total' = m.num
    BY <1>2, <1>3 DEF Total
  <1> QED BY <1>4, <1>5, <1>6, <1>7, <1>8

LEMMA CountRead ==
    ASSUME IInv, Talking, stream # <<>>, Head(stream) # EndChar, stream' = Tail(stream),
           npc' = "receive"
    PROVE  /\ HasEnd' <=> HasEnd
           /\ OnWay' = OnWay - (IF HasCount THEN 0 ELSE 1)
           /\ Begun /\ Begun' /\ Total' = expected'
  <1>1. stream \in Seq(Message) /\ Len(stream) \in Nat
    BY DEF IInv, TypeOK, streamTypeOK
  <1>2. /\ Head(stream) = stream[1] /\ Len(stream) >= 1 /\ Len(stream') = Len(stream) - 1
        /\ \A i \in 1 .. Len(stream) - 1 : stream'[i] = stream[i + 1]
        /\ stream' \in Seq(Message)
    BY <1>1, Reading
  <1>3. HasEnd' <=> HasEnd
    <2>1. CASE Len(stream) = 1
      <3>1. stream' = <<>>
        BY <1>2, <2>1
      <3> QED BY <1>2, <2>1, <3>1 DEF HasEnd
    <2>2. CASE Len(stream) > 1
      <3>1. stream' # <<>> /\ stream'[Len(stream')] = stream[Len(stream)]
        <4>1. Len(stream) - 1 \in 1 .. Len(stream) - 1 /\ (Len(stream) - 1) + 1 = Len(stream)
          BY <1>1, <2>2
        <4>2. stream'[Len(stream) - 1] = stream[(Len(stream) - 1) + 1]
          BY <1>2, <4>1
        <4>3. Len(stream') # 0
          BY <1>1, <1>2, <2>2
        <4>4. stream' # <<>>
          BY <4>3
        <4> QED BY <1>2, <4>1, <4>2, <4>4, Zenon
      <3> QED BY <3>1 DEF HasEnd
    <2> QED BY <1>1, <1>2, <2>1, <2>2
  <1>4. ~HasCount'
    BY DEF HasCount
  <1>5. OnWay' = OnWay - (IF HasCount THEN 0 ELSE 1)
    <2> DEFINE e == IF HasEnd THEN 1 ELSE 0
    <2>1. e \in Nat /\ OnWay = Len(stream) - (IF HasCount THEN 1 ELSE 0) - e
      BY DEF OnWay
    <2>2. OnWay' = Len(stream') - 0 - e
      BY <1>3, <1>4 DEF OnWay
    <2> HIDE DEF e
    <2> QED BY <1>1, <1>2, <2>1, <2>2
  <1> QED BY <1>3, <1>4, <1>5 DEF Begun, Total

\* What there is to send is a number, and nothing after the last server.
LEMMA ToSendIs ==
    ASSUME NEW number \in [Server -> Nat], NEW s \in 1 .. Len(OldListeners) + 1, NEW i \in Nat
    PROVE  ToSend(number, s, i) \in Nat /\ (s > Len(OldListeners) => ToSend(number, s, i) = 0)
  <1> DEFINE N == Len(OldListeners)
  <1>1. N \in Nat /\ \A k \in 0 .. N : LastServers(number)[k] \in Nat
    BY OldFacts, LastServersIs
  <1>2. s <= N => N - s \in 0 .. N
    BY <1>1
  <1>3. s <= N \/ s > N
    BY <1>1
  <1> QED BY <1>1, <1>2, <1>3 DEF ToSend

\* At the first server all is to be sent, and the loop loses nothing.
LEMMA ToSendFirst ==
    ASSUME NEW number \in [Server -> Nat]
    PROVE  ToSend(number, 1, number[1]) = LastServers(number)[Len(OldListeners)]
  <1> DEFINE N == Len(OldListeners)
             L == LastServers(number)
  <1>1. N \in Nat /\ N >= 1 /\ number[1] \in Nat
    BY OldFacts
  <1>2. N \in 1 .. N /\ N - N + 1 = 1 /\ N - 1 \in 0 .. N
    BY <1>1
  <1>3. L[N] = L[N - 1] + number[1] /\ L[N - 1] \in Nat
    BY <1>2, LastServersIs
  <1> HIDE DEF L
  <1>4. ToSend(number, 1, number[1]) = number[1] + L[N - 1]
    BY <1>1 DEF ToSend, L
  <1> QED BY <1>1, <1>3, <1>4 DEF L

LEMMA ToSendNext ==
    ASSUME NEW number \in [Server -> Nat], NEW s \in Server
    PROVE  ToSend(number, s + 1, IF s + 1 \in Server THEN number[s + 1] ELSE 0)
              = ToSend(number, s, 0)
  <1> DEFINE N == Len(OldListeners)
             L == LastServers(number)
  <1>1. N \in Nat /\ s \in 1 .. N
    BY OldFacts DEF Server
  <1>2. CASE s = N
    <2>1. s + 1 > N /\ ~(s > N) /\ N - s = 0
      BY <1>1, <1>2
    <2>2. L[0] = 0
      BY LastServersIs
    <2> QED BY <2>1, <2>2 DEF ToSend
  <1>3. CASE s # N
    <2>1. s + 1 \in Server /\ ~(s > N) /\ ~(s + 1 > N) /\ N - s \in 1 .. N /\ N - s \in 0 .. N
          /\ N - (N - s) + 1 = s + 1 /\ (N - s) - 1 = N - (s + 1) /\ (N - s) - 1 \in 0 .. N
      <3>1. Server = 1 .. N
        BY DEF Server
      <3> HIDE DEF N
      <3> QED BY <1>1, <1>3, <3>1
    <2>2. L[N - s] = L[(N - s) - 1] + number[N - (N - s) + 1]
      BY <2>1, LastServersIs
    <2>3. L[N - s] = L[N - (s + 1)] + number[s + 1]
      BY <2>1, <2>2
    <2>4. L[N - s] \in Nat /\ L[N - (s + 1)] \in Nat
      BY <2>1, LastServersIs
    <2>5. number[s + 1] \in Nat
      BY <2>1
    <2> HIDE DEF L
    <2>6. /\ ToSend(number, s, 0) = 0 + L[N - s]
          /\ ToSend(number, s + 1, number[s + 1]) = number[s + 1] + L[N - (s + 1)]
      BY <2>1 DEF ToSend, L
    <2> QED BY <2>1, <2>3, <2>4, <2>5, <2>6
  <1> QED BY <1>2, <1>3

\* The number and the sockets stay in step.
LEMMA CountStep == IInv /\ [Next]_vars => CountInStep'
  <1> SUFFICES ASSUME IInv, [Next]_vars PROVE CountInStep'
    OBVIOUS
  <1> USE DEF IInv, oldVars, mainVars, handVars, sigVars, streamVars, newVars
  <1>1. CASE HandlerStarts
    <2>1. /\ UNCHANGED <<npc, stream, handoff, expected>>
          /\ hpc' = "send" => hpc = "send" /\ UNCHANGED <<hs, hi, numListeners>>
          /\ shutdownFd' => shutdownFd
      BY <1>1 DEF HandlerStarts, RunsMain, Interrupted
    <2> QED BY <2>1, SameCount
  <1>2. CASE HandlerConnects
    <2>1. /\ UNCHANGED <<npc, stream, handoff, expected>>
          /\ hpc' = "send" => hpc = "send" /\ UNCHANGED <<hs, hi, numListeners>>
          /\ shutdownFd' => shutdownFd
      BY <1>2 DEF HandlerConnects
    <2> QED BY <2>1, SameCount
  <1>3. CASE HandlerWritesCount
    <2>1. CASE ~newEnd
      <3>1. /\ UNCHANGED <<npc, stream, handoff, expected>> /\ hpc' = "none"
            /\ shutdownFd' = FALSE
        BY <1>3, <2>1 DEF HandlerWritesCount, HandlerFails
      <3> QED BY <3>1, SameCount
    <2>2. CASE ~Talking
      <3>1. npc' = npc
        BY <1>3 DEF HandlerWritesCount
      <3> QED BY <2>2, <3>1 DEF CountInStep, Talking
    <2>3. CASE newEnd /\ Talking
      <3> DEFINE T == TotalListeners
      <3>1. /\ numListeners \in [Server -> Nat] /\ 1 \in Server
            /\ T = LastServers(numListeners)[Len(OldListeners)]
        BY OldFacts DEF TotalListeners, TypeOK, oldTypeOK
      <3>2. T \in Nat
        BY <3>1, OldFacts, LastServersIs
      <3>3. ToSend(numListeners, 1, numListeners[1]) = T
        BY <3>1, ToSendFirst
      <3> HIDE DEF T
      <3>4. /\ stream' = Append(stream, Count(T)) /\ hs' = 1 /\ hi' = numListeners[1]
            /\ UNCHANGED <<npc, expected, handoff, numListeners, shutdownFd>>
        BY <1>3, <2>3, <3>1 DEF HandlerWritesCount, LastOf, T
      <3>5. stream = <<>> /\ ~shutdownFd /\ HasCount /\ handoff = <<>> /\ Len(handoff) = 0
        BY <1>3, <2>3 DEF HandlerWritesCount, HandlerInStep, Talking, HasCount,
               SetupInStep
      <3>6. Count(T) \in Message /\ Count(T) # EndChar /\ Count(T).num = T
        BY <3>2, Messages
      <3>7. ~HasEnd /\ OnWay = 0 - 1
        BY <3>5 DEF HasEnd, OnWay
      <3>8. ~HasEnd' /\ OnWay' = 0 /\ Begun' /\ Total' = T
        <4>1. ~HasEnd' /\ OnWay' = OnWay + 1 /\ Begun' /\ Total' = T
          BY <2>3, <3>4, <3>5, <3>6, <3>7, CountAppended
        <4> QED BY <4>1, <3>7
      <3>9. ToSend(numListeners, hs, hi)' = T
        BY <3>3, <3>4
      <3>10. npc' # "wait" /\ Len(handoff') = 0
        BY <3>4, <3>5 DEF HasCount
      <3> QED BY <3>2, <3>4, <3>5, <3>8, <3>9, <3>10 DEF CountInStep
    <2> QED BY <2>1, <2>2, <2>3
  <1>4. CASE HandlerSends
    <2>1. CASE ~(newEnd /\ open[hs][hi])
      <3>1. /\ UNCHANGED <<npc, stream, handoff, expected>> /\ hpc' = "none"
            /\ shutdownFd' = FALSE
        BY <1>4, <2>1 DEF HandlerSends, HandlerFails
      <3> QED BY <3>1, SameCount
    <2>2. CASE ~Talking
      <3>1. npc' = npc
        BY <1>4 DEF HandlerSends
      <3> QED BY <2>2, <3>1 DEF CountInStep, Talking
    <2>3. CASE (newEnd /\ open[hs][hi]) /\ Talking
      <3> DEFINE a == OldListeners[hs][hi]
      <3>1. a \in Addr
        BY <1>4, OldFacts DEF HandlerSends, TypeOK, handlerTypeOK, Server, Slot
      <3>2. /\ hs \in 1 .. Len(OldListeners) + 1 /\ hi \in Nat /\ hi - 1 \in Nat
            /\ hs <= Len(OldListeners) /\ hpc = "send"
        BY <1>4 DEF HandlerSends, TypeOK, handlerTypeOK
      <3> HIDE DEF a
      <3>3. /\ stream' = Append(stream, Fd(a)) /\ hs' = hs /\ hi' = hi - 1
            /\ UNCHANGED <<npc, expected, handoff, numListeners, shutdownFd>>
        BY <1>4, <2>3 DEF HandlerSends, a
      <3>4. Fd(a) \in Message /\ Fd(a) # EndChar
        BY <3>1, Messages
      <3>5. /\ ~shutdownFd /\ Begun /\ ~HasEnd
            /\ Len(handoff) + OnWay + ToSend(numListeners, hs, hi) = Total
            /\ npc = "wait" => Len(handoff) = expected
        BY <2>3, <3>2 DEF HandlerInStep, CountInStep
      <3>6. ~HasEnd' /\ OnWay' = OnWay + 1 /\ Begun' /\ Total' = Total
        BY <2>3, <3>3, <3>4, <3>5, CountAppended
      <3>7. /\ ToSend(numListeners, hs, hi - 1) = ToSend(numListeners, hs, hi) - 1
            /\ ToSend(numListeners, hs, hi - 1) \in Nat
        <4> DEFINE l == LastServers(numListeners)[Len(OldListeners) - hs]
        <4>1. numListeners \in [Server -> Nat] /\ Len(OldListeners) \in Nat
          BY OldFacts DEF TypeOK, oldTypeOK
        <4>2. l \in Nat
          <5>1. Len(OldListeners) - hs \in 0 .. Len(OldListeners)
            BY <3>2, <4>1
          <5> QED BY <4>1, <5>1, LastServersIs
        <4>3. ~(hs > Len(OldListeners))
          BY <3>2, <4>1
        <4>4. /\ ToSend(numListeners, hs, hi) = hi + l
              /\ ToSend(numListeners, hs, hi - 1) = (hi - 1) + l
          BY <4>3 DEF ToSend
        <4> HIDE DEF l
        <4> QED BY <3>2, <4>2, <4>4
      <3>8. Len(handoff) \in Nat /\ OnWay \in Int
        <4>1. Len(handoff) \in Nat /\ Len(stream) \in Nat
          BY DEF TypeOK, newTypeOK, streamTypeOK
        <4> QED BY <4>1 DEF OnWay
      <3>9. ToSend(numListeners, hs, hi)' = ToSend(numListeners, hs, hi - 1)
        BY <3>3
      <3>10. ToSend(numListeners, hs, hi) \in Nat
        BY <3>2, ToSendIs DEF TypeOK, oldTypeOK
      <3>11. /\ Len(handoff') + OnWay' + ToSend(numListeners, hs, hi)' = Total'
             /\ Len(handoff') + OnWay' <= Total'
        BY <3>3, <3>5, <3>6, <3>7, <3>8, <3>9, <3>10
      <3> QED BY <3>3, <3>5, <3>6, <3>11 DEF CountInStep
    <2> QED BY <2>1, <2>2, <2>3
  <1>5. CASE HandlerNextServer
    <2>1. /\ numListeners \in [Server -> Nat] /\ hs \in Server /\ hi = 0
      BY <1>5 DEF HandlerNextServer, TypeOK, oldTypeOK, handlerTypeOK, Server
    <2>2. /\ hs' = hs + 1
          /\ hi' = IF hs + 1 \in Server THEN numListeners[hs + 1] ELSE 0
          /\ UNCHANGED <<npc, stream, handoff, expected, hpc, numListeners, shutdownFd>>
      BY <1>5 DEF HandlerNextServer, LastOf
    <2>3. ToSend(numListeners, hs, hi)' = ToSend(numListeners, hs, hi)
      <3> DEFINE i == IF hs + 1 \in Server THEN numListeners[hs + 1] ELSE 0
      <3>1. ToSend(numListeners, hs + 1, i) = ToSend(numListeners, hs, 0)
        BY <2>1, ToSendNext
      <3>2. hi' = i
        BY <2>2
      <3> HIDE DEF i
      <3> QED BY <2>1, <2>2, <3>1, <3>2
    <2>4. /\ Talking' <=> Talking
          /\ Begun' <=> Begun
          /\ HasEnd' <=> HasEnd
          /\ Total' = Total /\ OnWay' = OnWay
      BY <2>2 DEF Talking, Begun, HasEnd, Total, OnWay, HasCount
    <2> QED BY <2>2, <2>3, <2>4 DEF CountInStep
  <1>6. CASE HandlerDone
    <2>1. /\ numListeners \in [Server -> Nat] /\ hs > Len(OldListeners) /\ hpc = "send"
          /\ hs \in 1 .. Len(OldListeners) + 1 /\ hi \in Nat
      BY <1>6 DEF HandlerDone, TypeOK, oldTypeOK, handlerTypeOK
    <2>2. hpc' = "none" /\ UNCHANGED <<npc, stream, handoff, expected>>
      BY <1>6 DEF HandlerDone
    <2>3. /\ Talking' <=> Talking
          /\ Begun' <=> Begun
          /\ HasEnd' <=> HasEnd
          /\ Total' = Total /\ OnWay' = OnWay
      BY <2>2 DEF Talking, Begun, HasEnd, Total, OnWay, HasCount
    <2>4. Talking => /\ Begun /\ ~HasEnd
                     /\ Len(handoff) + OnWay + ToSend(numListeners, hs, hi) = Total
      BY <2>1 DEF CountInStep
    <2>5. ToSend(numListeners, hs, hi) = 0
      BY <2>1, ToSendIs
    <2>6. Len(handoff) + OnWay \in Int
      <3>1. Len(handoff) \in Nat /\ Len(stream) \in Nat
        BY DEF TypeOK, newTypeOK, streamTypeOK
      <3> QED BY <3>1 DEF OnWay
    <2>7. Talking => Len(handoff) + OnWay = Total
      BY <2>4, <2>5, <2>6
    <2> QED BY <2>2, <2>3, <2>4, <2>7 DEF CountInStep
  <1>7. CASE doNextEvents
    <2>1. /\ UNCHANGED <<npc, stream, handoff, expected>>
          /\ hpc' = "send" => hpc = "send" /\ UNCHANGED <<hs, hi, numListeners>>
          /\ shutdownFd' => shutdownFd
      BY <1>7 DEF doNextEvents, RunsMain, OldGoesTo
    <2> QED BY <2>1, SameCount
  <1>8. CASE EpollWait
    <2>1. /\ UNCHANGED <<npc, stream, handoff, expected>>
          /\ hpc' = "send" => hpc = "send" /\ UNCHANGED <<hs, hi, numListeners>>
          /\ shutdownFd' => shutdownFd
      BY <1>8 DEF EpollWait, RunsMain, OldGoesTo
    <2> QED BY <2>1, SameCount
  <1>9. CASE EpollReturns
    <2>1. /\ UNCHANGED <<npc, stream, handoff, expected>>
          /\ hpc' = "send" => hpc = "send" /\ UNCHANGED <<hs, hi, numListeners>>
          /\ shutdownFd' => shutdownFd
      BY <1>9 DEF EpollReturns, RunsMain, OldGoesTo
    <2> QED BY <2>1, SameCount
  <1>10. CASE ShutdownBegins
    <2>1. /\ UNCHANGED <<npc, stream, handoff, expected>>
          /\ hpc' = "send" => hpc = "send" /\ UNCHANGED <<hs, hi, numListeners>>
          /\ shutdownFd' => shutdownFd
      BY <1>10 DEF ShutdownBegins, RunsMain
    <2> QED BY <2>1, SameCount
  <1>11. CASE checkSignalNewServerContinue
    <2>1. hpc' = "none" /\ (shutdownFd' => shutdownFd) /\ UNCHANGED <<npc, handoff, expected>>
      BY <1>11 DEF checkSignalNewServerContinue, RunsMain
    <2>2. CASE stream' = stream
      BY <2>1, <2>2, SameCount
    <2>3. CASE ~Talking
      BY <2>1, <2>3 DEF CountInStep, Talking
    <2>4. CASE stream' # stream /\ Talking
      <3>1. stream' = Append(stream, EndChar) /\ shutdownFd /\ ~shutdownFd'
        BY <1>11, <2>4 DEF checkSignalNewServerContinue
      <3>2. /\ ~HasEnd /\ Begun /\ Len(handoff) + OnWay = Total
            /\ npc = "wait" => Len(handoff) = expected
        BY <2>4, <3>1 DEF CountInStep
      <3>3. HasEnd' /\ OnWay' = OnWay + 0 /\ Begun' /\ Total' = Total
        BY <2>1, <2>4, <3>1, <3>2, Messages, CountAppended
      <3>4. OnWay \in Int
        <4>1. Len(stream) \in Nat
          BY DEF TypeOK, streamTypeOK
        <4> QED BY <4>1 DEF OnWay
      <3>5. OnWay' = OnWay /\ Len(handoff') + OnWay' = Total' /\ Total \in Int
        <4>1. Len(handoff) \in Nat
          BY DEF TypeOK, newTypeOK
        <4> QED BY <2>1, <3>2, <3>3, <3>4, <4>1
      <3> QED BY <2>1, <3>1, <3>2, <3>3, <3>5 DEF CountInStep
    <2> QED BY <2>2, <2>3, <2>4
  <1>12. CASE CloseListener
    <2>1. /\ UNCHANGED <<npc, stream, handoff, expected>>
          /\ hpc' = "send" => hpc = "send" /\ UNCHANGED <<hs, hi, numListeners>>
          /\ shutdownFd' => shutdownFd
      BY <1>12 DEF CloseListener, RunsMain
    <2> QED BY <2>1, SameCount
  <1>13. CASE ShutdownEnds
    <2>1. /\ UNCHANGED <<npc, stream, handoff, expected>>
          /\ hpc' = "send" => hpc = "send" /\ UNCHANGED <<hs, hi, numListeners>>
          /\ shutdownFd' => shutdownFd
      BY <1>13 DEF ShutdownEnds, RunsMain, OldGone
    <2> QED BY <2>1, SameCount
  <1>14. CASE SignalOld
    <2>1. /\ npc' \in {"accept", "failed"} /\ stream' = <<>> /\ hpc' = "none" /\ ~shutdownFd'
      BY <1>14 DEF SignalOld, NewGone, HandlerInStep
    <2> QED BY <2>1 DEF CountInStep, Begun, HasEnd
  <1>15. CASE AcceptOld
    <2>1. /\ npc = "accept" /\ npc' = "count"
          /\ UNCHANGED <<stream, handoff, expected, hpc, hs, hi, numListeners, shutdownFd>>
      BY <1>15 DEF AcceptOld
    <2>2. /\ Talking
          /\ Begun' <=> Begun
          /\ HasEnd' <=> HasEnd
          /\ Total' = Total /\ OnWay' = OnWay
      BY <2>1 DEF Talking, Begun, HasEnd, Total, OnWay, HasCount
    <2>3. ToSend(numListeners, hs, hi)' = ToSend(numListeners, hs, hi)
      BY <2>1
    <2> QED BY <2>1, <2>2, <2>3 DEF CountInStep
  <1>16. CASE ReadCount
    <2>1. CASE stream = <<>>
      BY <1>16, <2>1, NotTalking DEF ReadCount, NewGone
    <2>2. CASE stream # <<>>
      <3>1. /\ npc = "count" /\ npc' = "receive" /\ stream' = Tail(stream)
            /\ expected' = Head(stream).num
            /\ UNCHANGED <<handoff, hpc, hs, hi, numListeners, shutdownFd>>
        BY <1>16, <2>2 DEF ReadCount
      <3>2. Talking /\ HasCount /\ Total = Head(stream).num /\ npc' # "wait"
        BY <3>1 DEF Talking, HasCount, Total
      <3>3. Head(stream) # EndChar
        BY <2>2, <3>2, FirstMessage, Messages
      <3>4. /\ HasEnd' <=> HasEnd
            /\ OnWay' = OnWay - 0 /\ Begun /\ Begun' /\ Total' = Total
        BY <2>2, <3>1, <3>2, <3>3, CountRead
      <3>5. OnWay' = OnWay
        <4>1. Len(stream) \in Nat
          BY DEF TypeOK, streamTypeOK
        <4>2. OnWay \in Int
          BY <4>1 DEF OnWay
        <4> QED BY <3>4, <4>2
      <3>6. ToSend(numListeners, hs, hi)' = ToSend(numListeners, hs, hi)
        BY <3>1
      <3> QED BY <3>1, <3>2, <3>4, <3>5, <3>6 DEF CountInStep
    <2> QED BY <2>1, <2>2
  <1>17. CASE Receive
    <2>1. CASE stream = <<>> \/ Head(stream) = EndChar
      BY <1>17, <2>1, NotTalking DEF Receive, NewGone
    <2>2. CASE ~(stream = <<>> \/ Head(stream) = EndChar)
      <3>1. /\ npc = "receive" /\ npc' = "receive" /\ stream' = Tail(stream)
            /\ handoff' = Append(handoff, Head(stream).addr)
            /\ UNCHANGED <<expected, hpc, hs, hi, numListeners, shutdownFd>>
        BY <1>17, <2>2 DEF Receive
      <3>2. Talking /\ ~HasCount /\ Total = expected /\ npc' # "wait"
        BY <3>1 DEF Talking, HasCount, Total
      <3>3. /\ HasEnd' <=> HasEnd
            /\ OnWay' = OnWay - 1 /\ Begun /\ Begun' /\ Total' = Total
        BY <2>2, <3>1, <3>2, CountRead
      <3>4. Len(handoff') + OnWay' = Len(handoff) + OnWay
        <4>1. Len(stream) \in Nat /\ Len(handoff) \in Nat /\ Len(handoff') = Len(handoff) + 1
          BY <3>1 DEF TypeOK, streamTypeOK, newTypeOK
        <4>2. OnWay \in Int
          BY <4>1 DEF OnWay
        <4> QED BY <3>3, <4>1, <4>2
      <3>5. ToSend(numListeners, hs, hi)' = ToSend(numListeners, hs, hi)
        BY <3>1
      <3> QED BY <3>1, <3>2, <3>3, <3>4, <3>5 DEF CountInStep
    <2> QED BY <2>1, <2>2
  <1>18. CASE ReceivedAll
    <2>1. CASE ~replace
      BY <1>18, <2>1, NotTalking DEF ReceivedAll
    <2>2. CASE replace
      <3>1. /\ npc = "receive" /\ npc' = "wait" /\ Len(handoff) = expected
            /\ UNCHANGED <<stream, handoff, expected, hpc, hs, hi, numListeners, shutdownFd>>
        BY <1>18, <2>2 DEF ReceivedAll
      <3>2. /\ Talking /\ Begun /\ Begun'
            /\ HasEnd' <=> HasEnd
            /\ Total' = Total /\ OnWay' = OnWay
        BY <3>1 DEF Talking, Begun, HasEnd, Total, OnWay, HasCount
      <3>3. ToSend(numListeners, hs, hi)' = ToSend(numListeners, hs, hi)
        BY <3>1
      <3> QED BY <3>1, <3>2, <3>3 DEF CountInStep
    <2> QED BY <2>1, <2>2
  <1>19. CASE WaitForOld
    <2>1. npc' \in {"start", "setup", "running", "failed"}
      BY <1>19 DEF WaitForOld, NewGone
    <2> QED BY <2>1, NotTalking
  <1>20. CASE listenerSetup
    <2>1. npc' \in {"start", "setup", "running", "failed"}
      BY <1>20 DEF listenerSetup, NewGone
    <2> QED BY <2>1, NotTalking
  <1>21. CASE handoffCleanup
    <2>1. npc' \in {"start", "setup", "running", "failed"}
      BY <1>21 DEF handoffCleanup
    <2> QED BY <2>1, NotTalking
  <1>22. CASE termHandler
    <2>1. /\ UNCHANGED <<npc, stream, handoff, expected>>
          /\ hpc' = "send" => hpc = "send" /\ UNCHANGED <<hs, hi, numListeners>>
          /\ shutdownFd' => shutdownFd
      BY <1>22 DEF termHandler, Interrupted, OldGone
    <2> QED BY <2>1, SameCount
  <1>23. CASE OldKilled
    <2>1. /\ UNCHANGED <<npc, stream, handoff, expected>>
          /\ hpc' = "send" => hpc = "send" /\ UNCHANGED <<hs, hi, numListeners>>
          /\ shutdownFd' => shutdownFd
      BY <1>23 DEF OldKilled, OldGone
    <2> QED BY <2>1, SameCount
  <1>24. CASE NewKilled
    <2>1. npc' \in {"start", "setup", "running", "failed"}
      BY <1>24 DEF NewKilled, NewGone
    <2> QED BY <2>1, NotTalking
  <1>25. CASE UNCHANGED vars
    <2>1. /\ UNCHANGED <<npc, stream, handoff, expected>>
          /\ hpc' = "send" => hpc = "send" /\ UNCHANGED <<hs, hi, numListeners>>
          /\ shutdownFd' => shutdownFd
      BY <1>25 DEF vars
    <2> QED BY <2>1, SameCount
  <1>26. CASE HandlerAsserts
    <2>1. /\ UNCHANGED <<npc, stream, handoff, expected>>
          /\ hpc' = "send" => hpc = "send" /\ UNCHANGED <<hs, hi, numListeners>>
          /\ shutdownFd' => shutdownFd
      BY <1>26 DEF HandlerAsserts, OldGone
    <2> QED BY <2>1, SameCount
  <1> QED
    BY <1>1, <1>2, <1>3, <1>4, <1>5, <1>6, <1>7, <1>8, <1>9, <1>10, <1>11, <1>12,
       <1>13, <1>14, <1>15, <1>16, <1>17, <1>18, <1>19, <1>20, <1>21, <1>22, <1>23, <1>24,
       <1>25, <1>26
       DEF Next, HandlerStep, OldStep, NewStep

-----------------------------------------------------------------------------
(* The sockets are kept.                                                   *)

LEMMA NothingToKeep ==
    ASSUME terminating' \/ npc' \in {"start", "running", "failed"}
    PROVE  SocketsKept'
  BY DEF SocketsKept, Talking

LEMMA SameSockets ==
    ASSUME SocketsKept,
           UNCHANGED <<npc, stream, handoff, expected, hs, hi, mine, terminating>>
    PROVE  SocketsKept'
  BY DEF SocketsKept, Talking, Begun, HasEnd, Total, OnWay, HasCount, Passed

\* While nobody stopped the servers no listener is closed.
LEMMA AllAreOpen ==
    ASSUME IInv, ~terminating, hpc # "none"
    PROVE  numListeners = AllListeners
  BY DEF IInv, HandlerInStep, ClosingInStep

\* With the sockets it was told to expect the new process has all of them.
LEMMA HasAll ==
    ASSUME IInv, ~terminating, npc \in {"receive", "wait"}, Len(handoff) = expected
    PROVE  \A s \in Server : \A i \in Slot(s) :
              \E j \in 1 .. Len(handoff) : handoff[j] = OldListeners[s][i]
  <1> DEFINE N == Len(OldListeners)
             t == ToSend(AllListeners, hs, hi)
             e == IF HasEnd THEN 1 ELSE 0
  <1>1. Talking /\ Begun /\ Total = expected /\ OnWay = Len(stream) - 0 - e
    BY DEF Talking, Begun, Total, HasCount, OnWay
  <1>2. /\ Len(handoff) + OnWay + t = Total
        /\ \A s \in Server : \A i \in Slot(s) : Passed(s, i) =>
              \/ \E j \in 1 .. Len(handoff) : handoff[j] = OldListeners[s][i]
              \/ \E j \in 1 .. Len(stream) : stream[j] = Fd(OldListeners[s][i])
    BY <1>1 DEF IInv, SocketsKept
  <1>3. /\ hs \in 1 .. N + 1 /\ hi \in Nat /\ Len(handoff) \in Nat /\ stream \in Seq(Message)
        /\ Len(stream) \in Nat /\ N \in Nat
    BY OldFacts DEF IInv, TypeOK, handlerTypeOK, newTypeOK, streamTypeOK
  <1>4. t \in Nat
    BY <1>3, OldFacts, ToSendIs
  <1>5. e \in 0 .. 1 /\ e <= Len(stream)
    BY <1>3 DEF HasEnd
  <1>6. Len(stream) = e /\ t = 0
    <2> HIDE DEF t, e
    <2> QED BY <1>1, <1>2, <1>3, <1>4, <1>5
  <1>7. \A j \in 1 .. Len(stream) : stream[j] = EndChar
    BY <1>3, <1>6 DEF HasEnd
  <1>8. \A s \in Server : \A i \in Slot(s) : Passed(s, i)
    <2> TAKE s \in Server
    <2> TAKE i \in Slot(s)
    <2>1. s \in 1 .. N /\ i \in Nat /\ i >= 1 /\ Len(OldListeners[s]) >= 1
      BY OldFacts DEF Server, Slot
    <2>2. CASE hs > N
      BY <1>3, <2>1, <2>2 DEF Passed
    <2>3. CASE ~(hs > N)
      <3> DEFINE L == LastServers(AllListeners)
      <3>1. hi + L[N - hs] = 0
        BY <1>6, <2>3 DEF ToSend
      <3>2. N - hs \in 0 .. N /\ AllListeners \in [Server -> Nat]
        BY <1>3, <2>3, OldFacts
      <3>3. L[N - hs] \in Nat
        BY <3>2, LastServersIs
      <3>4. hi = 0 /\ L[N - hs] = 0
        <4> HIDE DEF L
        <4> QED BY <1>3, <3>1, <3>3
      <3>5. hs = N
        <4> SUFFICES ASSUME hs # N PROVE FALSE
          OBVIOUS
        <4>1. /\ N - hs \in 1 .. N /\ (N - hs) - 1 \in 0 .. N
              /\ N - (N - hs) + 1 = hs + 1 /\ hs + 1 \in 1 .. N
          <5> HIDE DEF N
          <5> QED BY <1>3, <2>3
        <4>2. /\ L[N - hs] = L[(N - hs) - 1] + AllListeners[N - (N - hs) + 1]
              /\ L[(N - hs) - 1] \in Nat
          BY <4>1, <3>2, LastServersIs
        <4>3. hs + 1 \in Server /\ AllListeners[hs + 1] = Len(OldListeners[hs + 1])
          BY <4>1 DEF Server, AllListeners
        <4>4. Len(OldListeners[hs + 1]) = Len(OldListeners[s])
              /\ Len(OldListeners[hs + 1]) \in Nat
          BY <4>3, OldFacts
        <4>5. AllListeners[hs + 1] = Len(OldListeners[s])
          BY <4>3, <4>4, Zenon
        <4> DEFINE m == Len(OldListeners[s])
                   l == L[(N - hs) - 1]
        <4>6. m \in Nat /\ m >= 1 /\ l \in Nat
          BY <2>1, <4>2, <4>4
        <4>7. L[N - hs] = l + m
          BY <4>1, <4>2, <4>5
        <4> HIDE DEF L, l, m
        <4> QED BY <3>4, <4>6, <4>7
      <3> QED BY <1>3, <2>1, <3>4, <3>5 DEF Passed
    <2> QED BY <2>2, <2>3
  <1>9. \A s \in Server : \A i \in Slot(s) :
           ~ \E j \in 1 .. Len(stream) : stream[j] = Fd(OldListeners[s][i])
    <2> TAKE s \in Server
    <2> TAKE i \in Slot(s)
    <2>1. Fd(OldListeners[s][i]) # EndChar
      <3>1. OldListeners[s][i] \in Addr
        BY OldFacts
      <3> QED BY <3>1, Messages
    <2> QED BY <1>7, <2>1
  <1> QED BY <1>2, <1>8, <1>9, Zenon

\* So it may go on with them.
LEMMA GoesOn ==
    ASSUME IInv, npc \in {"receive", "wait"}, Len(handoff) = expected,
           npc' = "setup", UNCHANGED <<handoff, terminating>>
    PROVE  SocketsKept'
  <1>1. CASE terminating
    BY <1>1, NothingToKeep
  <1>2. CASE ~terminating
    <2>1. \A s \in Server : \A i \in Slot(s) :
             \E j \in 1 .. Len(handoff) : handoff[j] = OldListeners[s][i]
      BY <1>2, HasAll
    <2>2. \A a \in OldAddr : \E j \in 1 .. Len(handoff) : handoff[j] = a
      BY <2>1 DEF OldAddr
    <2>3. ~Talking'
      BY DEF Talking
    <2> QED BY <2>2, <2>3 DEF SocketsKept
  <1> QED BY <1>1, <1>2

\* A message is read: the number, or a socket that the new process now has.
LEMMA KeptRead ==
    ASSUME IInv, Talking, Begun, stream # <<>>, stream' = Tail(stream),
           npc' = "receive", UNCHANGED <<hs, hi, terminating>>, Total' = Total,
           Len(handoff') + OnWay' = Len(handoff) + OnWay,
           \A j \in 1 .. Len(handoff) : j \in 1 .. Len(handoff') /\ handoff'[j] = handoff[j],
           \A x \in Addr : stream[1] = Fd(x) =>
              \E j \in 1 .. Len(handoff') : handoff'[j] = x
    PROVE  SocketsKept'
  <1>1. stream \in Seq(Message)
    BY DEF IInv, TypeOK, streamTypeOK
  <1>2. /\ Len(stream) \in Nat /\ Len(stream') = Len(stream) - 1
        /\ \A j \in 1 .. Len(stream) - 1 : stream'[j] = stream[j + 1]
    BY <1>1, Reading
  <1>3. AllListeners' = AllListeners /\ \A s, i : Passed(s, i)' <=> Passed(s, i)
    BY DEF AllListeners, Passed
  <1>4. ~terminating =>
           /\ Len(handoff) + OnWay + ToSend(AllListeners, hs, hi) = Total
           /\ \A s \in Server : \A i \in Slot(s) : Passed(s, i) =>
                 \/ \E j \in 1 .. Len(handoff) : handoff[j] = OldListeners[s][i]
                 \/ \E j \in 1 .. Len(stream) : stream[j] = Fd(OldListeners[s][i])
    BY DEF IInv, SocketsKept
  <1>5. ASSUME ~terminating, NEW s \in Server, NEW i \in Slot(s), Passed(s, i)'
        PROVE  \/ \E j \in 1 .. Len(handoff') : handoff'[j] = OldListeners[s][i]
               \/ \E j \in 1 .. Len(stream') : stream'[j] = Fd(OldListeners[s][i])
    <2>1. CASE \E j \in 1 .. Len(handoff) : handoff[j] = OldListeners[s][i]
      BY <2>1
    <2>2. ASSUME NEW j \in 1 .. Len(stream), stream[j] = Fd(OldListeners[s][i])
          PROVE  \/ \E k \in 1 .. Len(handoff') : handoff'[k] = OldListeners[s][i]
                 \/ \E k \in 1 .. Len(stream') : stream'[k] = Fd(OldListeners[s][i])
      <3>1. CASE j = 1
        <4>1. OldListeners[s][i] \in Addr
          BY OldFacts
        <4> QED BY <2>2, <3>1, <4>1
      <3>2. CASE j # 1
        <4>1. j - 1 \in 1 .. Len(stream') /\ stream'[j - 1] = stream[j]
          BY <1>2, <3>2
        <4> QED BY <2>2, <4>1
      <3> QED BY <3>1, <3>2
    <2> QED BY <1>3, <1>4, <1>5, <2>1, <2>2
  <1>6. ~terminating => Len(handoff') + OnWay' + ToSend(AllListeners, hs, hi)' = Total'
    BY <1>3, <1>4
  <1> QED BY <1>5, <1>6 DEF SocketsKept

\* _poTato_findListenerFd() finds a socket with the port, if there is one.
LEMMA FoundHasPort ==
    ASSUME NEW a, handoff \in Seq(Addr \cup {NoFd}), NEW k,
           k = IF SamePort(a) = {} THEN 0 ELSE findListenerFd(a), k \in 1 .. Len(handoff)
    PROVE  handoff[k].port = a.port
  <1>1. SamePort(a) # {}
    OBVIOUS
  <1>2. SamePort(a) \subseteq Nat
    BY DEF SamePort
  <1>3. \E i \in SamePort(a) : \A j \in SamePort(a) : i <= j
    BY <1>1, <1>2, SmallestNumber
  <1>4. findListenerFd(a) \in SamePort(a)
    BY <1>3 DEF findListenerFd
  <1> QED BY <1>1, <1>4 DEF SamePort

\* No socket gets lost.
LEMMA SocketsStep == IInv /\ [Next]_vars => SocketsKept'
  <1> SUFFICES ASSUME IInv, [Next]_vars PROVE SocketsKept'
    OBVIOUS
  <1> USE DEF IInv, oldVars, mainVars, handVars, sigVars, streamVars, newVars
  <1>1. CASE HandlerStarts
    <2>1. UNCHANGED <<npc, stream, handoff, expected, hs, hi, mine, terminating>>
      BY <1>1 DEF HandlerStarts, RunsMain, Interrupted
    <2> QED BY <2>1, SameSockets
  <1>2. CASE HandlerConnects
    <2>1. UNCHANGED <<npc, stream, handoff, expected, hs, hi, mine, terminating>>
      BY <1>2 DEF HandlerConnects
    <2> QED BY <2>1, SameSockets
  <1>3. CASE HandlerWritesCount
    <2>1. CASE ~newEnd
      <3>1. UNCHANGED <<npc, stream, handoff, expected, hs, hi, mine, terminating>>
        BY <1>3, <2>1 DEF HandlerWritesCount
      <3> QED BY <3>1, SameSockets
    <2>2. CASE terminating \/ ~Talking
      <3>1. UNCHANGED <<npc, terminating>> /\ npc \in {"accept", "count", "failed"}
        BY <1>3 DEF HandlerWritesCount, HandlerInStep
      <3> QED BY <2>2, <3>1, NothingToKeep DEF Talking
    <2>3. CASE newEnd /\ ~terminating /\ Talking
      <3> DEFINE T == TotalListeners
      <3>1. numListeners = AllListeners /\ AllListeners \in [Server -> Nat] /\ 1 \in Server
        BY <1>3, <2>3, AllAreOpen, OldFacts DEF HandlerWritesCount
      <3>2. T = ToSend(AllListeners, 1, AllListeners[1]) /\ T \in Nat
        <4>1. ToSend(AllListeners, 1, AllListeners[1])
                 = LastServers(AllListeners)[Len(OldListeners)]
          BY <3>1, ToSendFirst
        <4>2. LastServers(AllListeners)[Len(OldListeners)] \in Nat
          BY <3>1, OldFacts, LastServersIs
        <4> QED BY <3>1, <4>1, <4>2 DEF TotalListeners
      <3> HIDE DEF T
      <3>3. /\ stream' = Append(stream, Count(T)) /\ hs' = 1 /\ hi' = AllListeners[1]
            /\ UNCHANGED <<npc, expected, handoff, terminating>>
        BY <1>3, <2>3, <3>1 DEF HandlerWritesCount, LastOf, T
      <3>4. stream = <<>> /\ HasCount /\ Len(handoff) = 0 /\ npc \in {"accept", "count"}
        BY <1>3, <2>3 DEF HandlerWritesCount, HandlerInStep, Talking, HasCount,
               SetupInStep
      <3>5. Count(T) \in Message /\ Count(T) # EndChar /\ Count(T).num = T
        BY <3>2, Messages
      <3>6. ~HasEnd /\ OnWay = 0 - 1
        BY <3>4 DEF HasEnd, OnWay
      <3>7. OnWay' = 0 /\ Total' = T
        <4>1. OnWay' = OnWay + 1 /\ Total' = T
          BY <2>3, <3>3, <3>4, <3>5, <3>6, CountAppended
        <4> QED BY <4>1, <3>6
      <3>8. Len(handoff') + OnWay' + ToSend(AllListeners, hs, hi)' = Total'
        <4>1. AllListeners' = AllListeners
          BY DEF AllListeners
        <4>2. ToSend(AllListeners, hs, hi)' = T
          BY <3>2, <3>3, <4>1
        <4> QED BY <3>2, <3>3, <3>4, <3>7, <4>2
      <3>9. \A s \in Server : \A i \in Slot(s) : ~Passed(s, i)'
        BY <3>1, <3>3, OldFacts DEF Passed, AllListeners, Slot, Server
      <3> QED BY <3>3, <3>4, <3>8, <3>9 DEF SocketsKept
    <2> QED BY <2>1, <2>2, <2>3
  <1>4. CASE HandlerSends
    <2>1. CASE ~(newEnd /\ open[hs][hi])
      <3>1. UNCHANGED <<npc, stream, handoff, expected, hs, hi, mine, terminating>>
        BY <1>4, <2>1 DEF HandlerSends
      <3> QED BY <3>1, SameSockets
    <2>2. CASE terminating
      BY <1>4, <2>2, NothingToKeep DEF HandlerSends
    <2>3. CASE ~terminating /\ ~Talking
      <3>1. UNCHANGED <<npc, handoff, mine, terminating>>
        BY <1>4 DEF HandlerSends
      <3> QED BY <2>3, <3>1 DEF SocketsKept, Talking
    <2>4. CASE (newEnd /\ open[hs][hi]) /\ ~terminating /\ Talking
      <3> DEFINE a == OldListeners[hs][hi]
      <3>1. /\ a \in Addr /\ hs \in Server /\ hi \in Nat /\ hi - 1 \in Nat
            /\ hs \in 1 .. Len(OldListeners) + 1 /\ hpc = "send"
        BY <1>4, OldFacts DEF HandlerSends, TypeOK, handlerTypeOK, Server, Slot
      <3> HIDE DEF a
      <3>2. /\ stream' = Append(stream, Fd(a)) /\ hs' = hs /\ hi' = hi - 1
            /\ UNCHANGED <<npc, expected, handoff, terminating>>
        BY <1>4, <2>4 DEF HandlerSends, a
      <3>3. Fd(a) \in Message /\ Fd(a) # EndChar /\ stream \in Seq(Message)
        BY <3>1, Messages DEF TypeOK, streamTypeOK
      <3>4. Begun /\ ~HasEnd
        BY <2>4, <3>1 DEF CountInStep
      <3>5. OnWay' = OnWay + 1 /\ Total' = Total
        BY <2>4, <3>2, <3>3, <3>4, CountAppended
      <3>6. /\ Len(handoff) + OnWay + ToSend(AllListeners, hs, hi) = Total
            /\ \A s \in Server : \A i \in Slot(s) : Passed(s, i) =>
                  \/ \E j \in 1 .. Len(handoff) : handoff[j] = OldListeners[s][i]
                  \/ \E j \in 1 .. Len(stream) : stream[j] = Fd(OldListeners[s][i])
        BY <2>4, <3>4 DEF SocketsKept
      <3>7. Len(handoff') + OnWay' + ToSend(AllListeners, hs, hi)' = Total'
        <4> DEFINE l == LastServers(AllListeners)[Len(OldListeners) - hs]
        <4>1. AllListeners \in [Server -> Nat] /\ Len(OldListeners) \in Nat
              /\ AllListeners' = AllListeners
          BY OldFacts DEF AllListeners
        <4>2. l \in Nat
          <5>1. Len(OldListeners) - hs \in 0 .. Len(OldListeners)
            BY <3>1, <4>1 DEF Server
          <5> QED BY <4>1, <5>1, LastServersIs
        <4>3. ~(hs > Len(OldListeners))
          BY <3>1, <4>1 DEF Server
        <4>4. /\ ToSend(AllListeners, hs, hi) = hi + l
              /\ ToSend(AllListeners, hs, hi)' = (hi - 1) + l
          <5>1. ToSend(AllListeners, hs, hi)' = ToSend(AllListeners, hs, hi - 1)
            BY <3>2, <4>1
          <5> QED BY <4>3, <5>1 DEF ToSend
        <4> HIDE DEF l
        <4>5. Len(handoff) \in Nat /\ OnWay \in Int
          <5>1. Len(handoff) \in Nat /\ Len(stream) \in Nat
            BY DEF TypeOK, newTypeOK, streamTypeOK
          <5> QED BY <5>1 DEF OnWay
        <4> QED BY <3>1, <3>2, <3>5, <3>6, <4>2, <4>4, <4>5
      <3>8. ASSUME NEW s \in Server, NEW i \in Slot(s), Passed(s, i)'
            PROVE  \/ \E j \in 1 .. Len(handoff') : handoff'[j] = OldListeners[s][i]
                   \/ \E j \in 1 .. Len(stream') : stream'[j] = Fd(OldListeners[s][i])
        <4>1. /\ Len(stream) \in Nat /\ Len(stream') = Len(stream) + 1
              /\ \A j \in 1 .. Len(stream) : stream'[j] = stream[j]
              /\ stream'[Len(stream) + 1] = Fd(a)
          BY <3>2, <3>3, Writing
        <4>2. CASE Passed(s, i)
          <5>1. CASE \E j \in 1 .. Len(handoff) : handoff[j] = OldListeners[s][i]
            BY <5>1, <3>2
          <5>2. CASE \E j \in 1 .. Len(stream) : stream[j] = Fd(OldListeners[s][i])
            BY <5>2, <4>1
          <5> QED BY <3>6, <4>2, <5>1, <5>2
        <4>3. CASE ~Passed(s, i)
          <5>1. s = hs /\ i = hi
            BY <3>1, <3>2, <3>8, <4>3, OldFacts DEF Passed, Slot
          <5>2. stream'[Len(stream) + 1] = Fd(OldListeners[s][i])
            BY <4>1, <5>1 DEF a
          <5>3. Len(stream) + 1 \in 1 .. Len(stream')
            BY <4>1
          <5> QED BY <5>2, <5>3
        <4> QED BY <4>2, <4>3
      <3>9. npc' # "setup"
        BY <2>4, <3>2 DEF Talking
      <3> QED BY <3>7, <3>8, <3>9 DEF SocketsKept
    <2> QED BY <2>1, <2>2, <2>3, <2>4
  <1>5. CASE HandlerNextServer
    <2>1. CASE terminating
      BY <1>5, <2>1, NothingToKeep DEF HandlerNextServer
    <2>2. CASE ~terminating
      <3>1. AllListeners \in [Server -> Nat] /\ hs \in Server /\ hi = 0
            /\ numListeners = AllListeners /\ AllListeners' = AllListeners
        BY <1>5, <2>2, OldFacts, AllAreOpen
           DEF HandlerNextServer, TypeOK, oldTypeOK, handlerTypeOK, Server, AllListeners
      <3>2. /\ hs' = hs + 1
            /\ hi' = IF hs + 1 \in Server THEN AllListeners[hs + 1] ELSE 0
            /\ UNCHANGED <<npc, stream, handoff, expected, mine, terminating>>
        BY <1>5, <3>1 DEF HandlerNextServer, LastOf
      <3>3. ToSend(AllListeners, hs, hi)' = ToSend(AllListeners, hs, hi)
        <4> DEFINE k == IF hs + 1 \in Server THEN AllListeners[hs + 1] ELSE 0
        <4>1. ToSend(AllListeners, hs + 1, k) = ToSend(AllListeners, hs, 0)
          BY <3>1, ToSendNext
        <4>2. hi' = k
          BY <3>2
        <4> HIDE DEF k
        <4> QED BY <3>1, <3>2, <4>1, <4>2
      <3>4. /\ Talking' <=> Talking
            /\ Begun' <=> Begun
            /\ Total' = Total /\ OnWay' = OnWay
        BY <3>2 DEF Talking, Begun, HasEnd, Total, OnWay, HasCount
      <3>5. \A s \in Server : \A i \in Slot(s) : Passed(s, i)' => Passed(s, i)
        <4> TAKE s \in Server
        <4> TAKE i \in Slot(s)
        <4> HAVE Passed(s, i)'
        <4>1. i \in Nat /\ i >= 1 /\ i <= Len(OldListeners[s]) /\ s \in Nat /\ hs \in Nat
          BY <3>1, OldFacts DEF Slot, Server
        <4>2. CASE s = hs + 1
          <5>1. hi' = Len(OldListeners[s])
            BY <3>2, <4>2 DEF AllListeners
          <5> QED BY <3>2, <4>1, <4>2, <5>1, OldFacts DEF Passed
        <4>3. CASE s # hs + 1
          BY <3>1, <3>2, <4>1, <4>3 DEF Passed
        <4> QED BY <4>2, <4>3
      <3> QED BY <3>2, <3>3, <3>4, <3>5 DEF SocketsKept
    <2> QED BY <2>1, <2>2
  <1>6. CASE HandlerDone
    <2>1. UNCHANGED <<npc, stream, handoff, expected, hs, hi, mine, terminating>>
      BY <1>6 DEF HandlerDone
    <2> QED BY <2>1, SameSockets
  <1>7. CASE doNextEvents
    <2>1. UNCHANGED <<npc, stream, handoff, expected, hs, hi, mine, terminating>>
      BY <1>7 DEF doNextEvents, RunsMain, OldGoesTo
    <2> QED BY <2>1, SameSockets
  <1>8. CASE EpollWait
    <2>1. UNCHANGED <<npc, stream, handoff, expected, hs, hi, mine, terminating>>
      BY <1>8 DEF EpollWait, RunsMain, OldGoesTo
    <2> QED BY <2>1, SameSockets
  <1>9. CASE EpollReturns
    <2>1. UNCHANGED <<npc, stream, handoff, expected, hs, hi, mine, terminating>>
      BY <1>9 DEF EpollReturns, RunsMain, OldGoesTo
    <2> QED BY <2>1, SameSockets
  <1>10. CASE ShutdownBegins
    <2>1. UNCHANGED <<npc, stream, handoff, expected, hs, hi, mine, terminating>>
      BY <1>10 DEF ShutdownBegins, RunsMain
    <2> QED BY <2>1, SameSockets
  <1>11. CASE checkSignalNewServerContinue
    <2>1. UNCHANGED <<npc, handoff, expected, hs, hi, mine, terminating>>
      BY <1>11 DEF checkSignalNewServerContinue
    <2>2. CASE stream' = stream
      BY <2>1, <2>2, SameSockets
    <2>3. CASE ~Talking
      BY <2>1, <2>3 DEF SocketsKept, Talking
    <2>4. CASE stream' # stream /\ Talking
      <3>1. stream' = Append(stream, EndChar) /\ shutdownFd /\ stream \in Seq(Message)
        BY <1>11, <2>4 DEF checkSignalNewServerContinue, TypeOK, streamTypeOK
      <3>2. ~HasEnd /\ Begun
        BY <2>4, <3>1 DEF CountInStep
      <3>3. OnWay' = OnWay + 0 /\ Begun' /\ Total' = Total
        BY <2>1, <2>4, <3>1, <3>2, Messages, CountAppended
      <3>4. OnWay' = OnWay
        <4>1. Len(stream) \in Nat
          BY <3>1
        <4>2. OnWay \in Int
          BY <4>1 DEF OnWay
        <4> QED BY <3>3, <4>2
      <3>5. \A j \in 1 .. Len(stream) : j \in 1 .. Len(stream') /\ stream'[j] = stream[j]
        BY <3>1, Messages, Writing
      <3>6. AllListeners' = AllListeners /\ npc' # "setup"
        BY <2>1, <2>4 DEF AllListeners, Talking
      <3>7. \A s, i : Passed(s, i)' <=> Passed(s, i)
        BY <2>1 DEF Passed
      <3>8. ~terminating =>
               /\ Len(handoff) + OnWay + ToSend(AllListeners, hs, hi) = Total
               /\ \A s \in Server : \A i \in Slot(s) : Passed(s, i) =>
                     \/ \E j \in 1 .. Len(handoff) : handoff[j] = OldListeners[s][i]
                     \/ \E j \in 1 .. Len(stream) : stream[j] = Fd(OldListeners[s][i])
        BY <2>4, <3>2 DEF SocketsKept
      <3>9. ASSUME ~terminating, NEW s \in Server, NEW i \in Slot(s), Passed(s, i)'
            PROVE  \/ \E j \in 1 .. Len(handoff') : handoff'[j] = OldListeners[s][i]
                   \/ \E j \in 1 .. Len(stream') : stream'[j] = Fd(OldListeners[s][i])
        <4>1. CASE \E j \in 1 .. Len(handoff) : handoff[j] = OldListeners[s][i]
          BY <4>1, <2>1
        <4>2. CASE \E j \in 1 .. Len(stream) : stream[j] = Fd(OldListeners[s][i])
          BY <4>2, <3>5
        <4> QED BY <3>7, <3>8, <3>9, <4>1, <4>2
      <3>10. ~terminating => Len(handoff') + OnWay' + ToSend(AllListeners, hs, hi)' = Total'
        BY <2>1, <3>3, <3>4, <3>6, <3>8
      <3> QED BY <2>1, <3>6, <3>9, <3>10 DEF SocketsKept
    <2> QED BY <2>2, <2>3, <2>4
  <1>12. CASE CloseListener
    <2>1. UNCHANGED <<npc, stream, handoff, expected, hs, hi, mine, terminating>>
      BY <1>12 DEF CloseListener, RunsMain
    <2> QED BY <2>1, SameSockets
  <1>13. CASE ShutdownEnds
    <2>1. UNCHANGED <<npc, stream, handoff, expected, hs, hi, mine, terminating>>
      BY <1>13 DEF ShutdownEnds, RunsMain, OldGone
    <2> QED BY <2>1, SameSockets
  <1>14. CASE SignalOld
    <2>1. npc' \in {"accept", "failed"} /\ stream' = <<>>
      BY <1>14 DEF SignalOld, NewGone, HandlerInStep
    <2> QED BY <2>1 DEF SocketsKept, Begun
  <1>15. CASE AcceptOld
    <2>1. /\ npc = "accept" /\ npc' = "count"
          /\ UNCHANGED <<stream, handoff, expected, hs, hi, terminating>>
      BY <1>15 DEF AcceptOld
    <2>2. /\ Talking
          /\ Begun' <=> Begun
          /\ Total' = Total /\ OnWay' = OnWay
      BY <2>1 DEF Talking, Begun, HasEnd, Total, OnWay, HasCount
    <2> QED BY <2>1, <2>2 DEF SocketsKept, Passed
  <1>16. CASE ReadCount
    <2>1. CASE stream = <<>>
      BY <1>16, <2>1, NothingToKeep DEF ReadCount, NewGone
    <2>2. CASE stream # <<>>
      <3>1. /\ npc = "count" /\ npc' = "receive" /\ stream' = Tail(stream)
            /\ expected' = Head(stream).num /\ stream \in Seq(Message)
            /\ UNCHANGED <<handoff, hs, hi, terminating>>
        BY <1>16, <2>2 DEF ReadCount, TypeOK, streamTypeOK
      <3>2. Talking /\ HasCount /\ Total = Head(stream).num
        BY <3>1 DEF Talking, HasCount, Total
      <3>3. Head(stream) # EndChar /\ stream[1].type = "count"
        BY <2>2, <3>2, FirstMessage, Messages
      <3>4. OnWay' = OnWay /\ Begun /\ Total' = Total
        <4>1. OnWay' = OnWay - 0 /\ Begun /\ Total' = Total
          BY <2>2, <3>1, <3>2, <3>3, CountRead
        <4>2. Len(stream) \in Nat
          BY <3>1
        <4>3. OnWay \in Int
          BY <4>2 DEF OnWay
        <4> QED BY <4>1, <4>3
      <3>5. \A x \in Addr : stream[1] # Fd(x)
        <4>1. \A x \in Addr : Fd(x).type = "fd"
          BY Messages
        <4> QED BY <3>3, <4>1
      <3>6. Len(handoff') + OnWay' = Len(handoff) + OnWay
        BY <3>1, <3>4
      <3>7. \A j \in 1 .. Len(handoff) : j \in 1 .. Len(handoff') /\ handoff'[j] = handoff[j]
        BY <3>1
      <3> QED BY <2>2, <3>1, <3>2, <3>4, <3>5, <3>6, <3>7, KeptRead
    <2> QED BY <2>1, <2>2
  <1>17. CASE Receive
    <2>1. CASE stream = <<>> \/ Head(stream) = EndChar
      BY <1>17, <2>1, NothingToKeep DEF Receive, NewGone
    <2>2. CASE ~(stream = <<>> \/ Head(stream) = EndChar)
      <3> DEFINE b == Head(stream).addr
      <3>1. /\ npc = "receive" /\ npc' = "receive" /\ stream' = Tail(stream)
            /\ handoff' = Append(handoff, b) /\ handoff \in Seq(Addr \cup {NoFd})
            /\ UNCHANGED <<expected, hs, hi, terminating>>
        BY <1>17, <2>2 DEF Receive, TypeOK, newTypeOK
      <3>2. Talking /\ ~HasCount /\ Total = expected
        BY <3>1 DEF Talking, HasCount, Total
      <3>3. OnWay' = OnWay - 1 /\ Begun /\ Total' = Total
        BY <2>2, <3>1, <3>2, CountRead
      <3>4. b \in Addr /\ stream[1] = Fd(b) /\ Fd(b).addr = b
        BY <2>2, <3>2, FirstMessage, Messages
      <3> HIDE DEF b
      <3>5. /\ Len(handoff) \in Nat /\ Len(handoff') = Len(handoff) + 1
            /\ handoff'[Len(handoff) + 1] = b
            /\ \A j \in 1 .. Len(handoff) : handoff'[j] = handoff[j]
        BY <3>1, <3>4
      <3>6. Len(handoff') + OnWay' = Len(handoff) + OnWay
        <4>1. Len(stream) \in Nat
          BY DEF TypeOK, streamTypeOK
        <4>2. OnWay \in Int
          BY <4>1 DEF OnWay
        <4> QED BY <3>3, <3>5, <4>2
      <3>7. /\ \A j \in 1 .. Len(handoff) : j \in 1 .. Len(handoff') /\ handoff'[j] = handoff[j]
            /\ Len(handoff) + 1 \in 1 .. Len(handoff')
        BY <3>5
      <3>8. ASSUME NEW x \in Addr, stream[1] = Fd(x)
            PROVE  \E j \in 1 .. Len(handoff') : handoff'[j] = x
        <4>1. x = b
          BY <3>4, <3>8, Messages
        <4> QED BY <4>1, <3>5, <3>7
      <3> QED BY <2>2, <3>1, <3>2, <3>3, <3>6, <3>7, <3>8, KeptRead
    <2> QED BY <2>1, <2>2
  <1>18. CASE ReceivedAll
    <2>1. CASE ~replace
      BY <1>18, <2>1, GoesOn DEF ReceivedAll
    <2>2. CASE replace
      <3>1. /\ npc = "receive" /\ npc' = "wait"
            /\ UNCHANGED <<stream, handoff, expected, hs, hi, terminating>>
        BY <1>18, <2>2 DEF ReceivedAll
      <3>2. /\ Talking /\ Begun /\ Begun'
            /\ Total' = Total /\ OnWay' = OnWay
        BY <3>1 DEF Talking, Begun, HasEnd, Total, OnWay, HasCount
      <3> QED BY <3>1, <3>2 DEF SocketsKept, Passed
    <2> QED BY <2>1, <2>2
  <1>19. CASE WaitForOld
    <2>1. CASE npc' = "failed"
      BY <2>1, NothingToKeep
    <2>2. CASE npc' # "failed"
      <3>1. npc = "wait" /\ npc' = "setup" /\ UNCHANGED <<handoff, terminating>>
        BY <1>19, <2>2 DEF WaitForOld, NewGone
      <3>2. Len(handoff) = expected
        BY <3>1 DEF CountInStep, Talking
      <3> QED BY <3>1, <3>2, GoesOn
    <2> QED BY <2>1, <2>2
  <1>20. CASE listenerSetup
    <2>1. CASE npc' = "failed"
      BY <2>1, NothingToKeep
    <2>2. CASE npc' # "failed"
      <3> DEFINE a == NewListeners[next]
                 k == IF SamePort(a) = {} THEN 0 ELSE findListenerFd(a)
      <3>1. /\ npc = "setup" /\ npc' = "setup" /\ terminating' = terminating
            /\ next \in 1 .. Len(NewListeners)
            /\ mine' = mine \cup {a}
            /\ handoff' = [j \in DOMAIN handoff |-> IF j = k THEN NoFd ELSE handoff[j]]
        BY <1>20, <2>2 DEF listenerSetup, NewGone, TypeOK, newTypeOK
      <3>2. handoff \in Seq(Addr \cup {NoFd})
        BY DEF TypeOK, newTypeOK
      <3>3. k \in 1 .. Len(handoff) => handoff[k].port = a.port
        BY <3>2, FoundHasPort
      <3> HIDE DEF k
      <3>4. Len(handoff') = Len(handoff)
            /\ \A j \in 1 .. Len(handoff) : j # k => handoff'[j] = handoff[j]
        BY <3>1, <3>2
      <3>5. ASSUME NEW b \in OldAddr \cap NewAddr,
                   b \in mine \/ \E j \in 1 .. Len(handoff) : handoff[j] = b
            PROVE  b \in mine' \/ \E j \in 1 .. Len(handoff') : handoff'[j] = b
        <4>1. CASE b \in mine
          BY <3>1, <4>1
        <4>2. ASSUME NEW j \in 1 .. Len(handoff), handoff[j] = b, j # k
              PROVE  \E i \in 1 .. Len(handoff') : handoff'[i] = b
          BY <3>4, <4>2
        <4>3. ASSUME NEW j \in 1 .. Len(handoff), handoff[j] = b, j = k
              PROVE  b \in mine'
          <5>1. PICK n \in 1 .. Len(NewListeners) : b = NewListeners[n]
            BY DEF NewAddr
          <5>2. NewListeners[n].port = NewListeners[next].port
            BY <3>3, <4>3, <5>1
          <5>3. n = next
            BY <3>1, <5>2, ListenersAssumption
          <5> QED BY <3>1, <5>1, <5>3
        <4> QED BY <3>5, <4>1, <4>2, <4>3
      <3>6. ~Talking'
        BY <3>1 DEF Talking
      <3> QED BY <3>1, <3>5, <3>6 DEF SocketsKept
    <2> QED BY <2>1, <2>2
  <1>21. CASE handoffCleanup
    <2>1. npc' \in {"start", "running", "failed"}
      BY <1>21 DEF handoffCleanup
    <2> QED BY <2>1, NothingToKeep
  <1>22. CASE termHandler
    <2>1. CASE OldGone
      <3>1. UNCHANGED <<npc, stream, handoff, expected, hs, hi, mine, terminating>>
        BY <2>1 DEF OldGone
      <3> QED BY <3>1, SameSockets
    <2>2. CASE ~OldGone
      BY <1>22, <2>2, NothingToKeep DEF termHandler
    <2> QED BY <2>1, <2>2
  <1>23. CASE OldKilled
    <2>1. UNCHANGED <<npc, stream, handoff, expected, hs, hi, mine, terminating>>
      BY <1>23 DEF OldKilled, OldGone
    <2> QED BY <2>1, SameSockets
  <1>24. CASE NewKilled
    <2>1. npc' \in {"start", "running", "failed"}
      BY <1>24 DEF NewKilled, NewGone
    <2> QED BY <2>1, NothingToKeep
  <1>25. CASE UNCHANGED vars
    <2>1. UNCHANGED <<npc, stream, handoff, expected, hs, hi, mine, terminating>>
      BY <1>25 DEF vars
    <2> QED BY <2>1, SameSockets
  <1>26. CASE HandlerAsserts
    <2>1. UNCHANGED <<npc, stream, handoff, expected, hs, hi, mine, terminating>>
      BY <1>26 DEF HandlerAsserts, OldGone
    <2> QED BY <2>1, SameSockets
  <1> QED
    BY <1>1, <1>2, <1>3, <1>4, <1>5, <1>6, <1>7, <1>8, <1>9, <1>10, <1>11, <1>12,
       <1>13, <1>14, <1>15, <1>16, <1>17, <1>18, <1>19, <1>20, <1>21, <1>22, <1>23, <1>24,
       <1>25, <1>26
       DEF Next, HandlerStep, OldStep, NewStep

-----------------------------------------------------------------------------
(* The theorems.                                                           *)

LEMMA InitHolds == Init => IInv
  <1> SUFFICES ASSUME Init PROVE IInv
    OBVIOUS
  <1>0. AllListeners = numListeners /\ 1 \in Server /\ AllRunning
    BY OldFacts DEF Init, AllListeners, AllRunning
  <1>1. oldTypeOK
    <2>1. /\ isRunning \in [Server -> BOOLEAN] /\ listenersDown \in [Server -> BOOLEAN]
          /\ numListeners \in [Server -> Nat]
          /\ \A s \in Server : numListeners[s] <= Len(OldListeners[s])
      BY OldFacts DEF Init
    <2>2. open \in [Server -> [Slot(1) -> BOOLEAN]]
      BY OldFacts DEF Init
    <2>3. /\ shutdownFd = FALSE /\ ignoring = FALSE /\ terminating = FALSE /\ opc = "loop"
          /\ cur = 1 /\ slot = 1
      BY DEF Init
    <2>4. cur \in Server /\ slot \in Nat \ {0}
      BY <1>0, <2>3
    <2> QED BY <2>1, <2>2, <2>3, <2>4, Zenon DEF oldTypeOK
  <1>2. handlerTypeOK
    BY OldFacts DEF Init, handlerTypeOK
  <1>3. streamTypeOK /\ newTypeOK
    <2>1. /\ stream = <<>> /\ bound = FALSE /\ oldEnd = FALSE /\ newEnd = FALSE
          /\ signal = FALSE /\ replace = FALSE
          /\ npc = "start" /\ expected = 0 /\ handoff = <<>> /\ mine = {} /\ next = 1
      BY DEF Init
    <2>2. stream \in Seq(Message) /\ handoff \in Seq(Addr \cup {NoFd})
      BY <2>1
    <2>3. expected \in Nat /\ next \in Nat \ {0} /\ mine \subseteq Addr
      BY <2>1
    <2> QED BY <2>1, <2>2, <2>3, Zenon DEF streamTypeOK, newTypeOK
  <1>4. ClosingInStep
    BY <1>0, OldFacts DEF Init, ClosingInStep, AllListeners
  <1>5. HandlerInStep
    BY <1>0 DEF Init, HandlerInStep
  <1>6. ~Talking /\ npc = "start"
    BY DEF Init, Talking
  <1>7. StreamInStep /\ CountInStep /\ SocketsKept
    BY <1>6 DEF StreamInStep, CountInStep, SocketsKept
  <1>8. SetupInStep
    <2>1. Len(NewListeners) \in Nat
      BY AddrAssumption
    <2> QED BY <2>1 DEF Init, SetupInStep
  <1> QED BY <1>1, <1>2, <1>3, <1>4, <1>5, <1>7, <1>8 DEF IInv, TypeOK

LEMMA StepHolds == IInv /\ [Next]_vars => IInv'
  BY OldTypeStep, HandlerTypeStep, StreamTypeStep, NewTypeStep, ClosingStep,
     HandlerStepInStep, StreamStep, CountStep, SocketsStep, SetupStep DEF IInv, TypeOK

\* The counts, the messages and the sockets stay in step in every behaviour, at
\* whatever place the handler interrupts the old process and either is killed.
THEOREM Invariance == Spec => []IInv
  <1>1. Init => IInv
    BY InitHolds
  <1>2. IInv /\ [Next]_vars => IInv'
    BY StepHolds
  <1> QED BY <1>1, <1>2, PTL DEF Spec

\* The variables of poTato.c's hand-off have values of their types.
THEOREM TypeCorrect == Spec => []TypeOK
  <1>1. IInv => TypeOK
    BY DEF IInv
  <1> QED BY <1>1, Invariance, PTL

\* readn() in poTato_signalHandOff() gets the number first, then as many sockets
\* as passListeners() announced, and only then the character to go on.
THEOREM MessagesInOrder == Spec => []ProtocolInStep
  <1>1. IInv => ProtocolInStep
    <2> SUFFICES ASSUME IInv, stream # <<>>, npc \in {"count", "receive", "wait"}
                 PROVE  /\ npc = "count" => Head(stream).type = "count"
                        /\ npc = "receive" /\ Len(handoff) < expected =>
                              Head(stream).type = "fd"
                        /\ npc = "wait" => Head(stream).type = "end"
      BY DEF ProtocolInStep
    <2>1. Talking /\ (HasCount <=> npc = "count")
      BY DEF Talking, HasCount, IInv, SetupInStep
    <2>2. /\ HasCount => Head(stream).type = "count"
          /\ ~HasCount => \/ Head(stream) = EndChar /\ Len(stream) = 1
                          \/ /\ Head(stream).addr \in Addr
                             /\ Head(stream) = Fd(Head(stream).addr)
                             /\ Head(stream) # EndChar
          /\ Head(stream) = stream[1] /\ Len(stream) >= 1
      BY <2>1, FirstMessage
    <2>3. ASSUME ~HasCount
          PROVE  /\ Len(handoff) \in Nat /\ Len(stream) \in Nat
                 /\ Total = expected /\ Begun /\ Len(handoff) + OnWay <= Total
                 /\ OnWay = Len(stream) - (IF HasEnd THEN 1 ELSE 0)
                 /\ HasEnd => Len(handoff) + OnWay = Total
                 /\ npc = "wait" => Len(handoff) = expected
      <3>1. Len(handoff) \in Nat /\ Len(stream) \in Nat
        BY DEF IInv, TypeOK, newTypeOK, streamTypeOK
      <3>2. Total = expected /\ Begun
        BY <2>3 DEF Total, Begun
      <3>3. OnWay = Len(stream) - (IF HasEnd THEN 1 ELSE 0)
        <4> DEFINE e == IF HasEnd THEN 1 ELSE 0
        <4>1. e \in Nat /\ OnWay = Len(stream) - 0 - e
          BY <2>3 DEF OnWay
        <4> HIDE DEF e
        <4>2. OnWay = Len(stream) - e
          BY <3>1, <4>1
        <4> QED BY <4>2 DEF e
      <3> QED BY <2>1, <3>1, <3>2, <3>3 DEF IInv, CountInStep
    <2>4. CASE npc = "count"
      BY <2>1, <2>2, <2>4
    <2>5. ASSUME npc = "receive", Len(handoff) < expected
          PROVE  Head(stream).type = "fd"
      <3>1. Head(stream) # EndChar
        <4> SUFFICES ASSUME Head(stream) = EndChar PROVE FALSE
          OBVIOUS
        <4>1. Len(stream) = 1 /\ HasEnd
          BY <2>1, <2>2, <2>5 DEF HasEnd
        <4> QED BY <2>1, <2>3, <2>5, <4>1
      <3>2. Head(stream) = Fd(Head(stream).addr) /\ Head(stream).addr \in Addr
        BY <2>1, <2>2, <2>5, <3>1
      <3> QED BY <3>2, Messages
    <2>6. ASSUME npc = "wait"
          PROVE  Head(stream).type = "end"
      <3>1. HasEnd
        <4> SUFFICES ASSUME ~HasEnd PROVE FALSE
          OBVIOUS
        <4> QED BY <2>1, <2>2, <2>3, <2>6
      <3>2. Len(stream) = 1
        <4>1. /\ Len(handoff) \in Nat /\ Len(stream) \in Nat /\ Len(handoff) = expected
              /\ Total = expected /\ OnWay = Len(stream) - 1 /\ Len(handoff) + OnWay = Total
          BY <2>1, <2>3, <2>6, <3>1
        <4> QED BY <4>1
      <3> QED BY <2>2, <3>1, <3>2, Messages DEF HasEnd
    <2> QED BY <2>4, <2>5, <2>6
  <1> QED BY <1>1, Invariance, PTL

\* _poTato_handoffCleanup() leaves the new server with the sockets it serves and
\* no other.
THEOREM ServesWhatItHolds == Spec => []OnlyItsOwnSockets
  <1>1. IInv => OnlyItsOwnSockets
    <2> SUFFICES ASSUME IInv, npc = "running" PROVE {a \in Addr : NewHolds(a)} = NewAddr
      BY DEF OnlyItsOwnSockets
    <2>1. handoff = <<>> /\ next = Len(NewListeners) + 1
          /\ mine = {NewListeners[j] : j \in 1 .. next - 1}
      BY DEF IInv, SetupInStep
    <2>2. Len(NewListeners) \in Nat
      BY AddrAssumption
    <2>3. next - 1 = Len(NewListeners)
      <3> DEFINE n == Len(NewListeners)
      <3>1. n \in Nat /\ next = n + 1
        BY <2>1, <2>2
      <3> HIDE DEF n
      <3>2. next - 1 = n
        BY <3>1
      <3> QED BY <3>2 DEF n
    <2>4. mine = NewAddr
      BY <2>1, <2>3 DEF NewAddr
    <2>5. \A a : NewHolds(a) <=> a \in mine
      BY <2>1 DEF NewHolds
    <2> QED BY <2>4, <2>5 DEF Addr
  <1> QED BY <1>1, Invariance, PTL

\* From poServer_shutdown() of the old server on, an address that both serve has
\* a listening socket: the new process holds it or it is on its way.
THEOREM AlwaysListening == Spec => []NoDowntime
  <1>1. IInv => NoDowntime
    <2> SUFFICES ASSUME IInv, ~terminating, npc # "failed",
                        shutdownFd \/ npc \in {"wait", "setup", "running"},
                        NEW a \in OldAddr \cap NewAddr
                 PROVE  Listening(a)
      BY DEF NoDowntime
    <2>0. PICK s \in Server : \E i \in Slot(s) : a = OldListeners[s][i]
      BY DEF OldAddr
    <2>1. PICK i \in Slot(s) : a = OldListeners[s][i]
      BY <2>0
    <2>2. npc \in {"start", "accept", "count", "receive", "wait", "setup", "running"}
      BY DEF IInv, TypeOK, newTypeOK
    <2>3. CASE npc = "running"
      <3>1. mine = {NewListeners[j] : j \in 1 .. next - 1} /\ next = Len(NewListeners) + 1
        BY <2>3 DEF IInv, SetupInStep
      <3>2. Len(NewListeners) \in Nat
        BY AddrAssumption
      <3>3. next - 1 = Len(NewListeners)
        <4> DEFINE n == Len(NewListeners)
        <4>1. n \in Nat /\ next = n + 1
          BY <3>1, <3>2
        <4> HIDE DEF n
        <4>2. next - 1 = n
          BY <4>1
        <4> QED BY <4>2 DEF n
      <3> QED BY <3>1, <3>3 DEF NewAddr, Listening, NewHolds
    <2>4. CASE npc = "setup"
      BY <2>4 DEF IInv, SocketsKept, Listening, NewHolds
    <2>5. CASE npc = "wait"
      <3>1. Len(handoff) = expected
        BY <2>5 DEF IInv, CountInStep, Talking
      <3>2. \E j \in 1 .. Len(handoff) : handoff[j] = a
        BY <2>1, <2>5, <3>1, HasAll
      <3> QED BY <3>2 DEF Listening, NewHolds
    <2>6. CASE npc \in {"start", "accept", "count", "receive"}
      <3>1. shutdownFd /\ Talking /\ hs > Len(OldListeners)
        BY <2>6 DEF IInv, HandlerInStep, Talking
      <3>2. Begun /\ newEnd
        BY <3>1 DEF IInv, CountInStep, StreamInStep
      <3>3. Passed(s, i)
        <4>1. hs \in Nat /\ s \in 1 .. Len(OldListeners) /\ Len(OldListeners) \in Nat
          BY OldFacts DEF IInv, TypeOK, handlerTypeOK, Server
        <4> QED BY <3>1, <4>1 DEF Passed
      <3>4. \/ \E j \in 1 .. Len(handoff) : handoff[j] = a
            \/ \E j \in 1 .. Len(stream) : stream[j] = Fd(a)
        BY <2>1, <3>1, <3>2, <3>3 DEF IInv, SocketsKept
      <3> QED BY <3>2, <3>4 DEF Listening, NewHolds, InFlight
    <2> QED BY <2>2, <2>3, <2>4, <2>5, <2>6
  <1> QED BY <1>1, Invariance, PTL

=============================================================================
