-------------------------- MODULE Children_proofs ---------------------------
(***************************************************************************)
(* Proofs about Children, for every number of forks, every set of exit     *)
(* statuses and any number of signals.                                     *)
(***************************************************************************)
EXTENDS Children, WellFoundedInduction, TLAPS


-----------------------------------------------------------------------------
(* The sum of a number for each child, a recursive function.               *)

\* A set of numbers that has 0, and with each number the next, has all.
LEMMA NumberInduction ==
    ASSUME NEW Q, 0 \in Q, \A n \in Nat : n \in Q => n + 1 \in Q
    PROVE  \A n \in Nat : n \in Q
  <1> SUFFICES ASSUME NEW n \in Nat, n \notin Q PROVE FALSE
    OBVIOUS
  <1> DEFINE T == {m \in Nat : m \notin Q}
  <1>1. PICK x \in T : \A y \in T : ~ (<<y, x>> \in OpToRel(<, Nat))
    <2>1. T \subseteq Nat /\ T # {}
      OBVIOUS
    <2> HIDE DEF T
    <2> QED BY <2>1, WFMin, NatLessThanWellFounded
  <1>2. \A y \in T : ~ (y < x)
    <2> TAKE y \in T
    <2>1. <<y, x>> \in Nat \X Nat
      OBVIOUS
    <2>2. ~ (<<y, x>> \in {ss \in Nat \X Nat : ss[1] < ss[2]})
      BY <1>1, Zenon DEF OpToRel
    <2> QED BY <2>1, <2>2
  <1>3. x - 1 \in Nat /\ x - 1 \notin T
    BY <1>2
  <1> QED BY <1>3

\* The recursive function of Sum() exists.
SumsOf(code, F) ==
    /\ F \in [0 .. NumForks -> Nat]
    /\ \A n \in 0 .. NumForks : F[n] = IF n = 0 THEN 0 ELSE F[n - 1] + code[n]

LEMMA SumsExist ==
    ASSUME NEW code \in [Child -> Nat]
    PROVE  \E F : SumsOf(code, F)
  <1> DEFINE At(F, n) == IF n = 0 THEN 0 ELSE F[n - 1] + code[n]
             Is(F, m) == F \in [0 .. m -> Nat] /\ \A n \in 0 .. m : F[n] = At(F, n)
             Q == {m \in Nat : m <= NumForks => \E F : Is(F, m)}
  <1>0. NumForks \in Nat /\ \A n \in 1 .. NumForks : code[n] \in Nat
    BY ChildrenAssumption DEF Child
  <1>1. 0 \in Q
    <2> DEFINE F == [i \in 0 .. 0 |-> 0]
    <2>1. Is(F, 0)
      OBVIOUS
    <2> HIDE DEF F, Is
    <2> QED BY <2>1
  <1>2. \A m \in Nat : m \in Q => m + 1 \in Q
    <2> SUFFICES ASSUME NEW m \in Nat, m \in Q, m + 1 <= NumForks
                 PROVE  \E G : Is(G, m + 1)
      <3> HIDE DEF Is
      <3> QED OBVIOUS
    <2>0. m <= NumForks /\ m + 1 \in 1 .. NumForks
      BY <1>0
    <2>1. PICK F : Is(F, m)
      <3> HIDE DEF Is
      <3> QED BY <2>0
    <2> DEFINE v == F[m] + code[m + 1]
               G == [i \in 0 .. m + 1 |-> IF i <= m THEN F[i] ELSE v]
    <2>2. v \in Nat
      BY <2>0, <2>1, <1>0
    <2>3. G \in [0 .. m + 1 -> Nat]
      BY <2>1, <2>2
    <2>4. \A n \in 0 .. m + 1 : G[n] = At(G, n)
      <3> TAKE n \in 0 .. m + 1
      <3>1. ASSUME n <= m PROVE G[n] = At(G, n)
        <4>1. G[n] = F[n] /\ n \in 0 .. m
          BY <3>1
        <4>2. n # 0 => n - 1 \in 0 .. m /\ G[n - 1] = F[n - 1]
          BY <3>1
        <4> HIDE DEF G
        <4> QED BY <2>1, <4>1, <4>2
      <3>2. ASSUME n = m + 1 PROVE G[n] = At(G, n)
        <4>1. G[n] = v /\ n - 1 = m /\ G[m] = F[m] /\ n # 0
          BY <3>2
        <4> HIDE DEF G
        <4> QED BY <3>2, <4>1
      <3> QED BY <3>1, <3>2
    <2> QED BY <2>3, <2>4
  <1>3. NumForks \in Q
    <2> HIDE DEF Q
    <2> QED BY <1>0, <1>1, <1>2, NumberInduction
  <1>4. PICK F : Is(F, NumForks)
    <2> HIDE DEF Is
    <2> QED BY <1>0, <1>3
  <1> QED BY <1>4 DEF SumsOf

LEMMA SumIs ==
    ASSUME NEW code \in [Child -> Nat]
    PROVE  \E F : SumsOf(code, F) /\ Sum(code) = F[NumForks]
  <1> DEFINE Rec(F) == [n \in 0 .. NumForks |-> IF n = 0 THEN 0 ELSE F[n - 1] + code[n]]
             C == CHOOSE F : F = Rec(F)
  <1>1. NumForks \in Nat /\ Sum(code) = C[NumForks]
    BY ChildrenAssumption DEF Sum
  <1>2. PICK F : SumsOf(code, F)
    BY SumsExist
  <1>3. F = Rec(F)
    BY <1>2 DEF SumsOf
  <1>4. C = Rec(C)
    BY <1>3
  <1>5. \A n \in 0 .. NumForks : C[n] = IF n = 0 THEN 0 ELSE C[n - 1] + code[n]
    BY <1>4
  <1> DEFINE Q == {n \in Nat : n <= NumForks => C[n] = F[n]}
  <1> HIDE DEF C
  <1>6. 0 \in Q
    BY <1>1, <1>2, <1>5 DEF SumsOf
  <1>7. \A n \in Nat : n \in Q => n + 1 \in Q
    <2> SUFFICES ASSUME NEW n \in Nat, n \in Q, n + 1 <= NumForks
                 PROVE  C[n + 1] = F[n + 1]
      OBVIOUS
    <2>1. n + 1 \in 0 .. NumForks /\ n + 1 # 0 /\ C[n] = F[n] /\ (n + 1) - 1 = n
      BY <1>1
    <2>2. C[n + 1] = C[n] + code[n + 1] /\ F[n + 1] = F[n] + code[n + 1]
      BY <2>1, <1>2, <1>5 DEF SumsOf
    <2> QED BY <2>1, <2>2
  <1>8. \A n \in Nat : n \in Q
    <2> HIDE DEF Q
    <2> QED BY <1>6, <1>7, NumberInduction
  <1> QED BY <1>1, <1>2, <1>8

LEMMA SumIsNumber == ASSUME NEW code \in [Child -> Nat] PROVE Sum(code) \in Nat
  <1>1. PICK F : SumsOf(code, F) /\ Sum(code) = F[NumForks]
    BY SumIs
  <1> QED BY <1>1, ChildrenAssumption DEF SumsOf

\* A sum grows with its parts: by d, if that of child k grows by d.
LEMMA SumGrows ==
    ASSUME NEW f \in [Child -> Nat], NEW g \in [Child -> Nat], NEW k \in Int, NEW d \in Nat,
           k \in Child \/ d = 0,
           \A c \in Child : f[c] <= g[c] /\ (c = k => f[c] + d <= g[c])
    PROVE  Sum(f) + d <= Sum(g)
  <1>1. PICK F : SumsOf(f, F) /\ Sum(f) = F[NumForks]
    BY SumIs
  <1>2. PICK G : SumsOf(g, G) /\ Sum(g) = G[NumForks]
    BY SumIs
  <1>3. NumForks \in Nat
    BY ChildrenAssumption
  <1> DEFINE More(n) == F[n] <= G[n] /\ (1 <= k /\ k <= n => F[n] + d <= G[n])
             Q == {n \in Nat : n <= NumForks => More(n)}
  <1>4. 0 \in Q
    BY <1>1, <1>2, <1>3 DEF SumsOf
  <1>5. \A n \in Nat : n \in Q => n + 1 \in Q
    <2> SUFFICES ASSUME NEW n \in Nat, n \in Q, n + 1 <= NumForks
                 PROVE  More(n + 1)
      OBVIOUS
    <2>1. n + 1 \in 0 .. NumForks /\ n + 1 # 0 /\ (n + 1) - 1 = n /\ n \in 0 .. NumForks
          /\ n + 1 \in Child /\ More(n)
      BY <1>3 DEF Child
    <2>2. F[n + 1] = F[n] + f[n + 1] /\ G[n + 1] = G[n] + g[n + 1]
      BY <2>1, <1>1, <1>2 DEF SumsOf
    <2>3. F[n] \in Nat /\ G[n] \in Nat /\ f[n + 1] \in Nat /\ g[n + 1] \in Nat
      BY <2>1, <1>1, <1>2 DEF SumsOf
    <2>4. f[n + 1] <= g[n + 1] /\ (n + 1 = k => f[n + 1] + d <= g[n + 1])
      BY <2>1
    <2>5. F[n] <= G[n] /\ (1 <= k /\ k <= n => F[n] + d <= G[n])
      BY <2>1
    <2> QED BY <2>2, <2>3, <2>4, <2>5
  <1>6. More(NumForks)
    <2>1. \A n \in Nat : n \in Q
      <3> HIDE DEF Q
      <3> QED BY <1>4, <1>5, NumberInduction
    <2> QED BY <2>1, <1>3
  <1>7. F[NumForks] \in Nat /\ G[NumForks] \in Nat
    BY <1>1, <1>2, <1>3 DEF SumsOf
  <1> QED BY <1>1, <1>2, <1>3, <1>6, <1>7 DEF Child

LEMMA SumIsMonotonic ==
    ASSUME NEW f \in [Child -> Nat], NEW g \in [Child -> Nat], \A c \in Child : f[c] <= g[c]
    PROVE  Sum(f) <= Sum(g)
  <1>1. Sum(f) \in Nat /\ Sum(g) \in Nat
    BY SumIsNumber
  <1>2. \A c \in Child : c = 0 => f[c] + 0 <= g[c]
    BY DEF Child
  <1>3. Sum(f) + 0 <= Sum(g)
    <2>1. 0 \in Int /\ 0 \in Nat
      OBVIOUS
    <2> QED BY <1>2, <2>1, SumGrows
  <1> QED BY <1>1, <1>3

-----------------------------------------------------------------------------

\* A sum that is capped is an exit status.
LEMMA CappedIsStatus == ASSUME NEW n \in Nat PROVE Capped(n) \in 0 .. MaxStatus
  <1>1. n \in Int /\ MaxStatus \in Int
    BY ChildrenAssumption
  <1>2. PICK m \in {n, MaxStatus} : \A k \in {n, MaxStatus} : m <= k
    BY <1>1
  <1>3. Capped(n) \in {n, MaxStatus} /\ \A k \in {n, MaxStatus} : Capped(n) <= k
    BY <1>2 DEF Capped, Min
  <1> QED BY <1>1, <1>3, ChildrenAssumption

\* removePidFromChildList() keeps the length of the list, and every entry but
\* the one it looks for.
LEMMA RemoveKeepsList ==
    ASSUME childPids \in PidList, NEW p \in Child, removePidFromChildList(p)
    PROVE  /\ childPids' \in PidList /\ Len(childPids') = Len(childPids)
           /\ \A i \in 1 .. Len(childPids) :
                 childPids'[i] = IF childPids[i] = p THEN Gone ELSE childPids[i]
  BY DEF removePidFromChildList, PidList

\* The child that fork() makes is the one after those that are listed.
LEMMA ForkGivesNext ==
    ASSUME IInv, Fork
    PROVE  /\ pid' = numChildren + 1 /\ pid' \in Child /\ child[pid'] = "none"
           /\ child' = [child EXCEPT ![pid'] = "starting"]
           /\ ints' = [ints EXCEPT ![pid'] = IF terminating \/ replaced THEN 1 ELSE 0]
           /\ pc = "fork" /\ left > 0 /\ pc' = "readPipe" /\ left' = left - 1
           /\ UNCHANGED <<listVars, exitStatus, cur, newPids, status, sum, sigVars, how>>
           /\ pipe' = "open"
  <1> DEFINE First(k) == child[k] = "none" /\ \A j \in 1 .. k - 1 : child[j] # "none"
  <1>1. /\ numChildren \in Nat /\ numChildren + 1 <= NumForks /\ NumForks \in Nat
        /\ \A c \in Child : child[c] # "none" <=> c <= numChildren
    BY ChildrenAssumption
       DEF IInv, TypeOK, parentTypeOK, ForkedInOrder, Forking, Forked, Fork, MainAt
  <1>2. numChildren + 1 \in Child /\ First(numChildren + 1)
    BY <1>1 DEF Child
  <1>3. \A k \in Child : First(k) => k = numChildren + 1
    BY <1>1 DEF Child
  <1>4. (CHOOSE k \in Child : First(k)) = numChildren + 1
    BY <1>2, <1>3
  <1>5. pid' = numChildren + 1 /\ child' = [child EXCEPT ![numChildren + 1] = "starting"]
        /\ ints' = [ints EXCEPT ![numChildren + 1] = IF terminating \/ replaced THEN 1 ELSE 0]
    BY <1>4, Zenon DEF Fork
  <1>6. child[numChildren + 1] = "none"
    BY <1>2
  <1>7. /\ pc = "fork" /\ left > 0 /\ pc' = "readPipe" /\ left' = left - 1
        /\ UNCHANGED <<listVars, exitStatus, cur, newPids, status, sum, sigVars, how>>
        /\ pipe' = "open"
    BY Zenon DEF Fork, MainAt, Goto
  <1> QED BY <1>2, <1>5, <1>6, <1>7

\* The parent starts with no child, and none is listed.
LEMMA InitIInv == Init => IInv
  <1> SUFFICES ASSUME Init PROVE IInv
    OBVIOUS
  <1> USE ChildrenAssumption DEF Init
  <1>1. stopTypeOK
    BY Zenon DEF stopTypeOK
  <1>2. listTypeOK /\ parentTypeOK /\ childTypeOK
    BY DEF listTypeOK, PidList, parentTypeOK, childTypeOK, Child, Gone
  <1>3. ForkedInOrder /\ ListInStep /\ SignalIsTrue /\ RemovedAbove
    BY DEF ForkedInOrder, ListInStep, SignalIsTrue, RemovedAbove, Entries, Forking,
           Removing, Forked, Listed, NoSignal, Child
  <1>4. CountedOnce /\ AddsInStep
    <2>1. Counted \in [Child -> Nat] /\ Sum(Counted) \in Nat
      <3>1. Counted \in [Child -> Nat]
        BY DEF Counted, Ended
      <3> QED BY <3>1, SumIsNumber
    <2> QED BY <2>1 DEF CountedOnce, AddsInStep, Unseen, NoSignal
  <1> QED BY <1>1, <1>2, <1>3, <1>4 DEF IInv, TypeOK

\* The flags stay Boolean.
LEMMA StopTypeStep == IInv /\ [Next]_vars => stopTypeOK'
  <1> SUFFICES ASSUME IInv, [Next]_vars PROVE stopTypeOK'
    OBVIOUS
  <1> USE DEF IInv, TypeOK, stopTypeOK, stopVars, listVars, localVars, sigVars, childVars
  <1>1. CASE Fork
    BY <1>1, Zenon DEF Fork, MainAt, Goto
  <1>2. CASE ReadPipe
    BY <1>2, Zenon DEF ReadPipe, MainAt, Goto
  <1>3. CASE CountChild
    BY <1>3, Zenon DEF CountChild, MainAt, Goto
  <1>4. CASE Realloc
    BY <1>4, Zenon DEF Realloc, MainAt, Goto
  <1>5. CASE AssignPids
    BY <1>5, Zenon DEF AssignPids, MainAt, Goto
  <1>6. CASE StorePid
    BY <1>6, Zenon DEF StorePid, MainAt, Goto
  <1>7. CASE Serve
    BY <1>7, Zenon DEF Serve, MainAt, Goto
  <1>8. CASE removeChildren
    BY <1>8, Zenon DEF removeChildren, MainAt, Goto
  <1>9. CASE PickChild
    BY <1>9, Zenon DEF PickChild, MainAt, Goto
  <1>10. CASE KillChild
    BY <1>10, Zenon DEF KillChild, MainAt, Goto
  <1>11. CASE CheckChild
    BY <1>11, Zenon DEF CheckChild, MainAt, Goto
  <1>12. CASE WaitChild
    BY <1>12, Zenon DEF WaitChild, MainAt, Goto
  <1>13. CASE CountStatus
    BY <1>13, Zenon DEF CountStatus, MainAt, Goto
  <1>14. CASE AddStatus
    BY <1>14, Zenon DEF AddStatus, MainAt, Goto
  <1>15. CASE ClearPid
    BY <1>15, Zenon DEF ClearPid, MainAt, Goto
  <1>16. CASE FreePids
    BY <1>16, Zenon DEF FreePids, MainAt, Goto
  <1>17. CASE ZeroChildren
    BY <1>17, Zenon DEF ZeroChildren, MainAt, Goto
  <1>18. CASE sigChildHandler
    BY <1>18, Zenon DEF sigChildHandler, ParentRuns, Goto, InterruptsRead,
       removePidFromChildList
  <1>19. ASSUME NEW everyone \in BOOLEAN, termHandler(everyone) PROVE stopTypeOK'
    BY <1>19, Zenon DEF termHandler, ParentRuns, Goto, InterruptsRead
  <1>20. ASSUME NEW c \in Child, ChildUp(c) PROVE stopTypeOK'
    BY <1>20, Zenon DEF ChildUp, parentOnly, ParentRuns
  <1>21. ASSUME NEW c \in Child, ChildFails(c) PROVE stopTypeOK'
    BY <1>21, Zenon DEF ChildFails, parentOnly, Ends, Notify, PipeOf
  <1>22. ASSUME NEW c \in Child, ChildExits(c) PROVE stopTypeOK'
    BY <1>22, Zenon DEF ChildExits, parentOnly, Ends, Notify, PipeOf
  <1>23. ASSUME NEW c \in Child, ChildReturns(c) PROVE stopTypeOK'
    BY <1>23, Zenon DEF ChildReturns, parentOnly, Ends, Notify, PipeOf
  <1>24. ASSUME NEW c \in Child, ChildKilled(c) PROVE stopTypeOK'
    BY <1>24, Zenon DEF ChildKilled, parentOnly, Ends, Notify, PipeOf
  <1>25. ASSUME NEW c \in Child, ChildStops(c) PROVE stopTypeOK'
    BY <1>25, Zenon DEF ChildStops, parentOnly, Notify
  <1>26. ASSUME NEW c \in Child, ChildContinues(c) PROVE stopTypeOK'
    BY <1>26, Zenon DEF ChildContinues, parentOnly, Notify
  <1>27. CASE passListeners
    BY <1>27, Zenon DEF passListeners, ParentRuns, Goto, InterruptsRead
  <1>28. ASSUME NEW c \in Child, ChildReplaced(c) PROVE stopTypeOK'
    BY <1>28, Zenon DEF ChildReplaced, parentOnly
  <1>29. CASE UNCHANGED vars
    BY <1>29, Zenon DEF vars
  <1> QED
    BY <1>1, <1>2, <1>3, <1>4, <1>5, <1>6, <1>7, <1>8, <1>9, <1>10, <1>11, <1>12,
       <1>13, <1>14, <1>15, <1>16, <1>17, <1>18, <1>19, <1>20, <1>21, <1>22, <1>23, <1>24,
       <1>25, <1>26, <1>27, <1>28, <1>29
       DEF Next, Parent

\* The list and its copy hold pids, no more of them than there are children.
LEMMA ListTypeStep == IInv /\ [Next]_vars => listTypeOK'
  <1> SUFFICES ASSUME IInv, [Next]_vars PROVE listTypeOK'
    OBVIOUS
  <1> USE ChildrenAssumption DEF IInv, TypeOK, listTypeOK, parentTypeOK, childTypeOK,
          PidList, Child, Gone, Junk, ForkedInOrder, ListInStep, Forking, Forked, Listed,
          Removing, listVars, localVars, sigVars, childVars
  <1>1. CASE Fork
    BY <1>1 DEF Fork, MainAt, Goto
  <1>2. CASE ReadPipe
    BY <1>2 DEF ReadPipe, MainAt, Goto
  <1>3. CASE CountChild
    BY <1>3 DEF CountChild, MainAt, Goto
  <1>4. CASE Realloc
    BY <1>4 DEF Realloc, MainAt, Goto
  <1>5. CASE AssignPids
    BY <1>5 DEF AssignPids, MainAt, Goto
  <1>6. CASE StorePid
    BY <1>6 DEF StorePid, MainAt, Goto
  <1>7. CASE Serve
    BY <1>7 DEF Serve, MainAt, Goto
  <1>8. CASE removeChildren
    BY <1>8 DEF removeChildren, MainAt, Goto
  <1>9. CASE PickChild
    BY <1>9 DEF PickChild, MainAt, Goto
  <1>10. CASE KillChild
    BY <1>10 DEF KillChild, MainAt, Goto
  <1>11. CASE CheckChild
    BY <1>11 DEF CheckChild, MainAt, Goto
  <1>12. CASE WaitChild
    BY <1>12 DEF WaitChild, MainAt, Goto
  <1>13. CASE CountStatus
    BY <1>13 DEF CountStatus, MainAt, Goto
  <1>14. CASE AddStatus
    BY <1>14 DEF AddStatus, MainAt, Goto
  <1>15. CASE ClearPid
    <2>1. cur \in 1 .. Len(childPids)
      BY <1>15, ChildrenAssumption DEF ClearPid, MainAt, RemovedAbove
    <2> QED BY <2>1, <1>15 DEF ClearPid
  <1>16. CASE FreePids
    BY <1>16 DEF FreePids, MainAt, Goto
  <1>17. CASE ZeroChildren
    BY <1>17 DEF ZeroChildren, MainAt, Goto
  <1>18. CASE sigChildHandler
    <2>1. sigChld.from \in Child
      BY <1>18 DEF sigChildHandler
    <2>2. CASE removePidFromChildList(sigChld.from)
      BY <2>1, <2>2, <1>18, RemoveKeepsList DEF sigChildHandler
    <2>3. CASE UNCHANGED childPids
      BY <2>3, <1>18 DEF sigChildHandler
    <2> QED BY <2>2, <2>3, <1>18 DEF sigChildHandler
  <1>19. ASSUME NEW everyone \in BOOLEAN, termHandler(everyone) PROVE listTypeOK'
    BY <1>19 DEF termHandler, ParentRuns, Goto, InterruptsRead
  <1>20. ASSUME NEW c \in Child, ChildUp(c) PROVE listTypeOK'
    BY <1>20 DEF ChildUp, parentOnly, ParentRuns
  <1>21. ASSUME NEW c \in Child, ChildFails(c) PROVE listTypeOK'
    BY <1>21 DEF ChildFails, parentOnly, Ends, Notify, PipeOf
  <1>22. ASSUME NEW c \in Child, ChildExits(c) PROVE listTypeOK'
    BY <1>22 DEF ChildExits, parentOnly, Ends, Notify, PipeOf
  <1>23. ASSUME NEW c \in Child, ChildReturns(c) PROVE listTypeOK'
    BY <1>23 DEF ChildReturns, parentOnly, Ends, Notify, PipeOf
  <1>24. ASSUME NEW c \in Child, ChildKilled(c) PROVE listTypeOK'
    BY <1>24 DEF ChildKilled, parentOnly, Ends, Notify, PipeOf
  <1>25. ASSUME NEW c \in Child, ChildStops(c) PROVE listTypeOK'
    BY <1>25 DEF ChildStops, parentOnly, Notify
  <1>26. ASSUME NEW c \in Child, ChildContinues(c) PROVE listTypeOK'
    BY <1>26 DEF ChildContinues, parentOnly, Notify
  <1>27. CASE passListeners
    BY <1>27 DEF passListeners, ParentRuns, Goto, InterruptsRead
  <1>28. ASSUME NEW c \in Child, ChildReplaced(c) PROVE listTypeOK'
    BY <1>28 DEF ChildReplaced, parentOnly
  <1>29. CASE UNCHANGED vars
    BY <1>29 DEF vars
  <1> QED
    BY <1>1, <1>2, <1>3, <1>4, <1>5, <1>6, <1>7, <1>8, <1>9, <1>10, <1>11, <1>12,
       <1>13, <1>14, <1>15, <1>16, <1>17, <1>18, <1>19, <1>20, <1>21, <1>22, <1>23, <1>24,
       <1>25, <1>26, <1>27, <1>28, <1>29
       DEF Next, Parent

\* The parent's counters stay within their bounds.
LEMMA ParentTypeStep == IInv /\ [Next]_vars => parentTypeOK'
  <1> SUFFICES ASSUME IInv, [Next]_vars PROVE parentTypeOK'
    OBVIOUS
  <1> USE ChildrenAssumption DEF IInv, TypeOK, listTypeOK, parentTypeOK, childTypeOK,
          PidList, Child, Gone, ForkedInOrder, ListInStep, RemovedAbove, Entries, Forking,
          Forked, Listed, Removing, listVars, localVars, sigVars, childVars
  <1>1. CASE Fork
    BY <1>1 DEF Fork, MainAt, Goto
  <1>2. CASE ReadPipe
    BY <1>2 DEF ReadPipe, MainAt, Goto
  <1>3. CASE CountChild
    BY <1>3 DEF CountChild, MainAt, Goto
  <1>4. CASE Realloc
    BY <1>4 DEF Realloc, MainAt, Goto
  <1>5. CASE AssignPids
    BY <1>5 DEF AssignPids, MainAt, Goto
  <1>6. CASE StorePid
    BY <1>6 DEF StorePid, MainAt, Goto
  <1>7. CASE Serve
    BY <1>7 DEF Serve, MainAt, Goto
  <1>8. CASE removeChildren
    BY <1>8 DEF removeChildren, MainAt, Goto
  <1>9. CASE PickChild
    BY <1>9 DEF PickChild, MainAt, Goto
  <1>10. CASE KillChild
    BY <1>10 DEF KillChild, MainAt, Goto
  <1>11. CASE CheckChild
    BY <1>11 DEF CheckChild, MainAt, Goto
  <1>12. CASE WaitChild
    BY <1>12 DEF WaitChild, MainAt, Goto
  <1>13. CASE CountStatus
    BY <1>13 DEF CountStatus, MainAt, Goto
  <1>14. CASE AddStatus
    <2>1. Capped(sum + status) \in 0 .. MaxStatus
      <3>1. sum + status \in Nat
        OBVIOUS
      <3> QED BY <3>1, CappedIsStatus, Zenon
    <2> QED BY <2>1, <1>14 DEF AddStatus, MainAt, Goto
  <1>15. CASE ClearPid
    BY <1>15 DEF ClearPid, MainAt, Goto
  <1>16. CASE FreePids
    BY <1>16 DEF FreePids, MainAt, Goto
  <1>17. CASE ZeroChildren
    BY <1>17 DEF ZeroChildren, MainAt, Goto
  <1>18. CASE sigChildHandler
    <2>1. Capped(exitStatus + 1) \in 0 .. MaxStatus
      <3>1. exitStatus + 1 \in Nat
        OBVIOUS
      <3> QED BY <3>1, CappedIsStatus, Zenon
    <2>2. exitStatus' \in 0 .. MaxStatus
      BY <2>1, <1>18 DEF sigChildHandler
    <2>3. pc' \in {pc, "aborted"}
      BY <1>18 DEF sigChildHandler, Goto, InterruptsRead
    <2> QED BY <2>2, <2>3, <1>18 DEF sigChildHandler
  <1>19. ASSUME NEW everyone \in BOOLEAN, termHandler(everyone) PROVE parentTypeOK'
    BY <1>19 DEF termHandler, ParentRuns, Goto, InterruptsRead
  <1>20. ASSUME NEW c \in Child, ChildUp(c) PROVE parentTypeOK'
    BY <1>20 DEF ChildUp, parentOnly, ParentRuns
  <1>21. ASSUME NEW c \in Child, ChildFails(c) PROVE parentTypeOK'
    BY <1>21 DEF ChildFails, parentOnly, Ends, Notify, PipeOf
  <1>22. ASSUME NEW c \in Child, ChildExits(c) PROVE parentTypeOK'
    BY <1>22 DEF ChildExits, parentOnly, Ends, Notify, PipeOf
  <1>23. ASSUME NEW c \in Child, ChildReturns(c) PROVE parentTypeOK'
    BY <1>23 DEF ChildReturns, parentOnly, Ends, Notify, PipeOf
  <1>24. ASSUME NEW c \in Child, ChildKilled(c) PROVE parentTypeOK'
    BY <1>24 DEF ChildKilled, parentOnly, Ends, Notify, PipeOf
  <1>25. ASSUME NEW c \in Child, ChildStops(c) PROVE parentTypeOK'
    BY <1>25 DEF ChildStops, parentOnly, Notify
  <1>26. ASSUME NEW c \in Child, ChildContinues(c) PROVE parentTypeOK'
    BY <1>26 DEF ChildContinues, parentOnly, Notify
  <1>27. CASE passListeners
    BY <1>27 DEF passListeners, ParentRuns, Goto, InterruptsRead
  <1>28. ASSUME NEW c \in Child, ChildReplaced(c) PROVE parentTypeOK'
    BY <1>28 DEF ChildReplaced, parentOnly
  <1>29. CASE UNCHANGED vars
    BY <1>29 DEF vars
  <1> QED
    BY <1>1, <1>2, <1>3, <1>4, <1>5, <1>6, <1>7, <1>8, <1>9, <1>10, <1>11, <1>12,
       <1>13, <1>14, <1>15, <1>16, <1>17, <1>18, <1>19, <1>20, <1>21, <1>22, <1>23, <1>24,
       <1>25, <1>26, <1>27, <1>28, <1>29
       DEF Next, Parent

\* The children and the signals stay within their types.
LEMMA ChildTypeStep == IInv /\ [Next]_vars => childTypeOK'
  <1> SUFFICES ASSUME IInv, [Next]_vars PROVE childTypeOK'
    OBVIOUS
  <1> USE ChildrenAssumption DEF IInv, TypeOK, listTypeOK, parentTypeOK, childTypeOK, Child,
          ForkedInOrder, Forking, Forked, Killed, NoSignal, Gone, RemovedAbove, listVars,
          localVars, sigVars, childVars
  <1>1. CASE Fork
    <2>1. (IF terminating \/ replaced THEN 1 ELSE 0) \in 0 .. 2
      OBVIOUS
    <2>2. PICK n \in 0 .. 2 : ints' = [ints EXCEPT ![pid'] = n]
      BY <2>1, <1>1, ForkGivesNext
    <2> QED BY <2>2, <1>1, ForkGivesNext
  <1>2. CASE ReadPipe
    BY <1>2 DEF ReadPipe, MainAt, Goto
  <1>3. CASE CountChild
    BY <1>3 DEF CountChild, MainAt, Goto
  <1>4. CASE Realloc
    BY <1>4 DEF Realloc, MainAt, Goto
  <1>5. CASE AssignPids
    BY <1>5 DEF AssignPids, MainAt, Goto
  <1>6. CASE StorePid
    BY <1>6 DEF StorePid, MainAt, Goto
  <1>7. CASE Serve
    BY <1>7 DEF Serve, MainAt, Goto
  <1>8. CASE removeChildren
    BY <1>8 DEF removeChildren, MainAt, Goto
  <1>9. CASE PickChild
    BY <1>9 DEF PickChild, MainAt, Goto
  <1>10. CASE KillChild
    BY <1>10 DEF KillChild, MainAt, Goto
  <1>11. CASE CheckChild
    BY <1>11 DEF CheckChild, MainAt, Goto
  <1>12. CASE WaitChild
    BY <1>12 DEF WaitChild, MainAt, Goto
  <1>13. CASE CountStatus
    BY <1>13 DEF CountStatus, MainAt, Goto
  <1>14. CASE AddStatus
    BY <1>14 DEF AddStatus, MainAt, Goto
  <1>15. CASE ClearPid
    BY <1>15 DEF ClearPid, MainAt, Goto
  <1>16. CASE FreePids
    BY <1>16 DEF FreePids, MainAt, Goto
  <1>17. CASE ZeroChildren
    BY <1>17 DEF ZeroChildren, MainAt, Goto
  <1>18. CASE sigChildHandler
    BY <1>18 DEF sigChildHandler, ParentRuns, Goto, InterruptsRead, removePidFromChildList
  <1>19. ASSUME NEW everyone \in BOOLEAN, termHandler(everyone) PROVE childTypeOK'
    BY <1>19 DEF termHandler, ParentRuns, Goto, InterruptsRead
  <1>20. ASSUME NEW c \in Child, ChildUp(c) PROVE childTypeOK'
    BY <1>20 DEF ChildUp, parentOnly, ParentRuns
  <1>21. ASSUME NEW c \in Child, ChildFails(c) PROVE childTypeOK'
    BY <1>21 DEF ChildFails, parentOnly, Ends, Notify, PipeOf
  <1>22. ASSUME NEW c \in Child, ChildExits(c) PROVE childTypeOK'
    BY <1>22 DEF ChildExits, parentOnly, Ends, Notify, PipeOf
  <1>23. ASSUME NEW c \in Child, ChildReturns(c) PROVE childTypeOK'
    BY <1>23 DEF ChildReturns, parentOnly, Ends, Notify, PipeOf
  <1>24. ASSUME NEW c \in Child, ChildKilled(c) PROVE childTypeOK'
    BY <1>24 DEF ChildKilled, parentOnly, Ends, Notify, PipeOf
  <1>25. ASSUME NEW c \in Child, ChildStops(c) PROVE childTypeOK'
    BY <1>25 DEF ChildStops, parentOnly, Notify
  <1>26. ASSUME NEW c \in Child, ChildContinues(c) PROVE childTypeOK'
    BY <1>26 DEF ChildContinues, parentOnly, Notify
  <1>27. CASE passListeners
    BY <1>27 DEF passListeners, ParentRuns, Goto, InterruptsRead
  <1>28. ASSUME NEW c \in Child, ChildReplaced(c) PROVE childTypeOK'
    BY <1>28 DEF ChildReplaced, parentOnly
  <1>29. CASE UNCHANGED vars
    BY <1>29 DEF vars
  <1> QED
    BY <1>1, <1>2, <1>3, <1>4, <1>5, <1>6, <1>7, <1>8, <1>9, <1>10, <1>11, <1>12,
       <1>13, <1>14, <1>15, <1>16, <1>17, <1>18, <1>19, <1>20, <1>21, <1>22, <1>23, <1>24,
       <1>25, <1>26, <1>27, <1>28, <1>29
       DEF Next, Parent

\* fork() gives the next child.
LEMMA ForkedStep == IInv /\ [Next]_vars => ForkedInOrder'
  <1> SUFFICES ASSUME IInv, [Next]_vars PROVE ForkedInOrder'
    OBVIOUS
  <1> USE ChildrenAssumption DEF IInv, TypeOK, listTypeOK, parentTypeOK, childTypeOK, Child,
          ForkedInOrder, Forking, Forked, Removing, Alive, listVars, localVars, sigVars,
          childVars
  <1>1. CASE Fork
    <2>1. /\ pid' = numChildren + 1 /\ pid' \in Child
          /\ child' = [child EXCEPT ![pid'] = "starting"]
          /\ pc = "fork" /\ left > 0 /\ pc' = "readPipe" /\ left' = left - 1
          /\ numChildren' = numChildren
      BY <1>1, ForkGivesNext
    <2>2. \A c \in Child : child'[c] # "none" <=> c <= numChildren + 1
      <3>1. /\ numChildren \in Nat
            /\ child \in [Child -> {"none", "starting", "up", "stopped", "zombie", "reaped"}]
            /\ \A c \in Child : child[c] # "none" <=> c <= numChildren
        BY <2>1
      <3> QED BY <2>1, <3>1
    <2> QED BY <2>1, <2>2
  <1>2. CASE ReadPipe
    BY <1>2 DEF ReadPipe, MainAt, Goto
  <1>3. CASE CountChild
    BY <1>3 DEF CountChild, MainAt, Goto
  <1>4. CASE Realloc
    BY <1>4 DEF Realloc, MainAt, Goto
  <1>5. CASE AssignPids
    BY <1>5 DEF AssignPids, MainAt, Goto
  <1>6. CASE StorePid
    BY <1>6 DEF StorePid, MainAt, Goto
  <1>7. CASE Serve
    BY <1>7 DEF Serve, MainAt, Goto
  <1>8. CASE removeChildren
    BY <1>8 DEF removeChildren, MainAt, Goto
  <1>9. CASE PickChild
    BY <1>9 DEF PickChild, MainAt, Goto
  <1>10. CASE KillChild
    BY <1>10 DEF KillChild, MainAt, Goto
  <1>11. CASE CheckChild
    BY <1>11 DEF CheckChild, MainAt, Goto
  <1>12. CASE WaitChild
    BY <1>12 DEF WaitChild, MainAt, Goto
  <1>13. CASE CountStatus
    BY <1>13 DEF CountStatus, MainAt, Goto
  <1>14. CASE AddStatus
    BY <1>14 DEF AddStatus, MainAt, Goto
  <1>15. CASE ClearPid
    BY <1>15 DEF ClearPid, MainAt, Goto
  <1>16. CASE FreePids
    BY <1>16 DEF FreePids, MainAt, Goto
  <1>17. CASE ZeroChildren
    BY <1>17 DEF ZeroChildren, MainAt, Goto
  <1>18. CASE sigChildHandler
    BY <1>18 DEF sigChildHandler, ParentRuns, Goto, InterruptsRead, removePidFromChildList
  <1>19. ASSUME NEW everyone \in BOOLEAN, termHandler(everyone) PROVE ForkedInOrder'
    BY <1>19 DEF termHandler, ParentRuns, Goto, InterruptsRead
  <1>20. ASSUME NEW c \in Child, ChildUp(c) PROVE ForkedInOrder'
    BY <1>20 DEF ChildUp, parentOnly, ParentRuns
  <1>21. ASSUME NEW c \in Child, ChildFails(c) PROVE ForkedInOrder'
    BY <1>21 DEF ChildFails, parentOnly, Ends, Notify, PipeOf
  <1>22. ASSUME NEW c \in Child, ChildExits(c) PROVE ForkedInOrder'
    BY <1>22 DEF ChildExits, parentOnly, Ends, Notify, PipeOf
  <1>23. ASSUME NEW c \in Child, ChildReturns(c) PROVE ForkedInOrder'
    BY <1>23 DEF ChildReturns, parentOnly, Ends, Notify, PipeOf
  <1>24. ASSUME NEW c \in Child, ChildKilled(c) PROVE ForkedInOrder'
    BY <1>24 DEF ChildKilled, parentOnly, Ends, Notify, PipeOf
  <1>25. ASSUME NEW c \in Child, ChildStops(c) PROVE ForkedInOrder'
    BY <1>25 DEF ChildStops, parentOnly, Notify
  <1>26. ASSUME NEW c \in Child, ChildContinues(c) PROVE ForkedInOrder'
    BY <1>26 DEF ChildContinues, parentOnly, Notify
  <1>27. CASE passListeners
    BY <1>27 DEF passListeners, ParentRuns, Goto, InterruptsRead
  <1>28. ASSUME NEW c \in Child, ChildReplaced(c) PROVE ForkedInOrder'
    BY <1>28 DEF ChildReplaced, parentOnly
  <1>29. CASE UNCHANGED vars
    BY <1>29 DEF vars
  <1> QED
    BY <1>1, <1>2, <1>3, <1>4, <1>5, <1>6, <1>7, <1>8, <1>9, <1>10, <1>11, <1>12,
       <1>13, <1>14, <1>15, <1>16, <1>17, <1>18, <1>19, <1>20, <1>21, <1>22, <1>23, <1>24,
       <1>25, <1>26, <1>27, <1>28, <1>29
       DEF Next, Parent

\* An entry goes only after its child.
LEMMA ListStep == IInv /\ [Next]_vars => ListInStep'
  <1> SUFFICES ASSUME IInv, [Next]_vars PROVE ListInStep'
    OBVIOUS
  <1> USE ChildrenAssumption DEF IInv, TypeOK, listTypeOK, parentTypeOK, childTypeOK, Child,
          Gone, ForkedInOrder, ListInStep, SignalIsTrue, RemovedAbove, Forking, Forked,
          Listed, Removing, Entries, Ended, Alive, listVars, localVars, sigVars, childVars
  <1>1. CASE Fork
    <2>1. /\ pid' \in Child /\ child[pid'] = "none" /\ pc = "fork" /\ pc' = "readPipe"
          /\ child' = [child EXCEPT ![pid'] = "starting"]
          /\ numChildren' = numChildren /\ childPids' = childPids
      BY <1>1, ForkGivesNext
    <2>2. \A c \in Child : Ended(c) => Ended(c)'
      <3>1. child \in [Child -> {"none", "starting", "up", "stopped", "zombie", "reaped"}]
        OBVIOUS
      <3> QED BY <2>1, <3>1
    <2>3. /\ Len(childPids) = numChildren /\ numChildren \in 0 .. NumForks
          /\ Entries(childPids, numChildren)
      BY <2>1
    <2>4. Entries(childPids, numChildren)'
      BY <2>1, <2>2, <2>3
    <2> HIDE DEF Entries
    <2> QED BY <2>1, <2>3, <2>4
  <1>2. CASE ReadPipe
    BY <1>2 DEF ReadPipe, MainAt, Goto
  <1>3. CASE CountChild
    BY <1>3 DEF CountChild, MainAt, Goto
  <1>4. CASE Realloc
    BY <1>4 DEF Realloc, MainAt, Goto
  <1>5. CASE AssignPids
    BY <1>5 DEF AssignPids, MainAt, Goto
  <1>6. CASE StorePid
    BY <1>6 DEF StorePid, MainAt, Goto
  <1>7. CASE Serve
    BY <1>7 DEF Serve, MainAt, Goto
  <1>8. CASE removeChildren
    BY <1>8 DEF removeChildren, MainAt, Goto
  <1>9. CASE PickChild
    BY <1>9 DEF PickChild, MainAt, Goto
  <1>10. CASE KillChild
    BY <1>10 DEF KillChild, MainAt, Goto
  <1>11. CASE CheckChild
    BY <1>11 DEF CheckChild, MainAt, Goto
  <1>12. CASE WaitChild
    BY <1>12 DEF WaitChild, MainAt, Goto
  <1>13. CASE CountStatus
    BY <1>13 DEF CountStatus, MainAt, Goto
  <1>14. CASE AddStatus
    BY <1>14 DEF AddStatus, MainAt, Goto
  <1>15. CASE ClearPid
    BY <1>15 DEF ClearPid, MainAt, Goto
  <1>16. CASE FreePids
    BY <1>16 DEF FreePids, MainAt, Goto
  <1>17. CASE ZeroChildren
    BY <1>17 DEF ZeroChildren, MainAt, Goto
  <1>18. CASE sigChildHandler
    <2>1. ASSUME removePidFromChildList(sigChld.from)
          PROVE  /\ Len(childPids') = Len(childPids)
                 /\ childPids = <<>> => childPids' = <<>>
                 /\ \A i \in 1 .. Len(childPids) :
                       \/ childPids'[i] = childPids[i]
                       \/ childPids[i] = sigChld.from /\ childPids'[i] = Gone
      <3>1. childPids \in PidList
        OBVIOUS
      <3> QED BY <2>1, <3>1 DEF removePidFromChildList, PidList
    <2>2. CASE sigChld.code \in {"killed", "exited"} /\ ~(childPids = <<>> /\ numChildren > 0)
      <3>1. removePidFromChildList(sigChld.from) /\ InterruptsRead
        BY <1>18, <2>2 DEF sigChildHandler
      <3>2. Ended(sigChld.from) /\ child' = child /\ numChildren' = numChildren
            /\ newPids' = newPids /\ left' = left
        BY <1>18, <2>2 DEF sigChildHandler
      <3>3. CASE pc' = "aborted"
        BY <3>3
      <3>4. CASE pc' = pc
        <4>1. ASSUME NEW n \in Int, n <= Len(childPids), Entries(childPids, n)
              PROVE  \A i \in 1 .. n : childPids'[i] = i
                                       \/ (childPids'[i] = Gone /\ child'[i] \in {"zombie", "reaped"})
          BY <2>1, <3>1, <3>2, <4>1
        <4>2. /\ Len(childPids') = Len(childPids)
              /\ childPids = <<>> => childPids' = <<>>
          BY <2>1, <3>1
        <4>3. numChildren - 1 \in Int /\ numChildren \in Int /\ numChildren - 1 <= numChildren
          OBVIOUS
        <4>4. Listed' = Listed /\ Listed \in {numChildren - 1, numChildren}
          BY <3>2, <3>4
        <4>5. (pc \in {"fork", "readPipe", "grow", "realloc", "assign", "serving"} \/ Removing) =>
                 Len(childPids') = Listed' /\ Entries(childPids, Listed)'
          <5> SUFFICES ASSUME pc \in {"fork", "readPipe", "grow", "realloc", "assign",
                                      "serving"} \/ Removing
                       PROVE  Len(childPids') = Listed' /\ Entries(childPids, Listed)'
            OBVIOUS
          <5>1. Len(childPids) = Listed /\ Entries(childPids, Listed)
            OBVIOUS
          <5>2. Listed \in Int /\ Listed <= Len(childPids)
            BY <4>3, <4>4, <5>1
          <5>3. \A i \in 1 .. Listed :
                   childPids'[i] = i
                   \/ (childPids'[i] = Gone /\ child'[i] \in {"zombie", "reaped"})
            BY <4>1, <5>1, <5>2
          <5> QED BY <4>2, <4>4, <5>1, <5>3
        <4>6. pc = "assign" =>
                 Len(newPids') = numChildren' /\ Entries(newPids, numChildren - 1)'
          BY <3>2
        <4>7. pc = "store" =>
                 Len(childPids') = numChildren' /\ Entries(childPids, numChildren - 1)'
          <5> SUFFICES ASSUME pc = "store"
                       PROVE  /\ Len(childPids') = numChildren'
                              /\ Entries(childPids, numChildren - 1)'
            OBVIOUS
          <5>1. Len(childPids) = numChildren /\ Entries(childPids, numChildren - 1)
            OBVIOUS
          <5>2. \A i \in 1 .. numChildren - 1 : childPids'[i] = i
                      \/ (childPids'[i] = Gone /\ child'[i] \in {"zombie", "reaped"})
            BY <4>1, <4>3, <5>1
          <5> QED BY <3>2, <4>2, <5>1, <5>2
        <4>8. pc \in {"zero", "return"} => childPids' = <<>>
          BY <4>2
        <4> HIDE DEF Entries, Listed
        <4> QED BY <3>4, <4>5, <4>6, <4>7, <4>8
      <3>5. pc' \in {pc, "aborted"}
        BY <3>1 DEF InterruptsRead
      <3> QED BY <3>3, <3>4, <3>5
    <2>3. CASE sigChld.code \in {"killed", "exited"} /\ childPids = <<>> /\ numChildren > 0
      BY <1>18, <2>3 DEF sigChildHandler, Goto
    <2>4. CASE sigChld.code \notin {"killed", "exited"}
      BY <1>18, <2>4 DEF sigChildHandler, ParentRuns, Goto, InterruptsRead
    <2> QED BY <2>2, <2>3, <2>4
  <1>19. ASSUME NEW everyone \in BOOLEAN, termHandler(everyone) PROVE ListInStep'
    BY <1>19 DEF termHandler, ParentRuns, Goto, InterruptsRead
  <1>20. ASSUME NEW c \in Child, ChildUp(c) PROVE ListInStep'
    BY <1>20 DEF ChildUp, parentOnly, ParentRuns
  <1>21. ASSUME NEW c \in Child, ChildFails(c) PROVE ListInStep'
    BY <1>21 DEF ChildFails, parentOnly, Ends, Notify, PipeOf
  <1>22. ASSUME NEW c \in Child, ChildExits(c) PROVE ListInStep'
    BY <1>22 DEF ChildExits, parentOnly, Ends, Notify, PipeOf
  <1>23. ASSUME NEW c \in Child, ChildReturns(c) PROVE ListInStep'
    BY <1>23 DEF ChildReturns, parentOnly, Ends, Notify, PipeOf
  <1>24. ASSUME NEW c \in Child, ChildKilled(c) PROVE ListInStep'
    BY <1>24 DEF ChildKilled, parentOnly, Ends, Notify, PipeOf
  <1>25. ASSUME NEW c \in Child, ChildStops(c) PROVE ListInStep'
    BY <1>25 DEF ChildStops, parentOnly, Notify
  <1>26. ASSUME NEW c \in Child, ChildContinues(c) PROVE ListInStep'
    BY <1>26 DEF ChildContinues, parentOnly, Notify
  <1>27. CASE passListeners
    BY <1>27 DEF passListeners, ParentRuns, Goto, InterruptsRead
  <1>28. ASSUME NEW c \in Child, ChildReplaced(c) PROVE ListInStep'
    BY <1>28 DEF ChildReplaced, parentOnly
  <1>29. CASE UNCHANGED vars
    BY <1>29 DEF vars
  <1> QED
    BY <1>1, <1>2, <1>3, <1>4, <1>5, <1>6, <1>7, <1>8, <1>9, <1>10, <1>11, <1>12,
       <1>13, <1>14, <1>15, <1>16, <1>17, <1>18, <1>19, <1>20, <1>21, <1>22, <1>23, <1>24,
       <1>25, <1>26, <1>27, <1>28, <1>29
       DEF Next, Parent

\* A dead child does not come back, and only a dead one is called dead.
LEMMA SignalStep == IInv /\ [Next]_vars => SignalIsTrue'
  <1> SUFFICES ASSUME IInv, [Next]_vars PROVE SignalIsTrue'
    OBVIOUS
  <1> USE ChildrenAssumption DEF IInv, TypeOK, listTypeOK, parentTypeOK, childTypeOK, Child,
          SignalIsTrue, Ended, Alive, NoSignal, ForkedInOrder, Forking, Forked, listVars,
          localVars, sigVars, childVars
  <1>1. CASE Fork
    <2>1. /\ pid' \in Child /\ child[pid'] = "none" /\ sigChld' = sigChld
          /\ child' = [child EXCEPT ![pid'] = "starting"]
      BY <1>1, ForkGivesNext
    <2>2. \A c \in Child : Ended(c) => Ended(c)'
      <3>1. child \in [Child -> {"none", "starting", "up", "stopped", "zombie", "reaped"}]
        OBVIOUS
      <3> QED BY <2>1, <3>1
    <2> QED BY <2>1, <2>2
  <1>2. CASE ReadPipe
    BY <1>2 DEF ReadPipe, MainAt, Goto
  <1>3. CASE CountChild
    BY <1>3 DEF CountChild, MainAt, Goto
  <1>4. CASE Realloc
    BY <1>4 DEF Realloc, MainAt, Goto
  <1>5. CASE AssignPids
    BY <1>5 DEF AssignPids, MainAt, Goto
  <1>6. CASE StorePid
    BY <1>6 DEF StorePid, MainAt, Goto
  <1>7. CASE Serve
    BY <1>7 DEF Serve, MainAt, Goto
  <1>8. CASE removeChildren
    BY <1>8 DEF removeChildren, MainAt, Goto
  <1>9. CASE PickChild
    BY <1>9 DEF PickChild, MainAt, Goto
  <1>10. CASE KillChild
    BY <1>10 DEF KillChild, MainAt, Goto
  <1>11. CASE CheckChild
    BY <1>11 DEF CheckChild, MainAt, Goto
  <1>12. CASE WaitChild
    BY <1>12 DEF WaitChild, MainAt, Goto
  <1>13. CASE CountStatus
    BY <1>13 DEF CountStatus, MainAt, Goto
  <1>14. CASE AddStatus
    BY <1>14 DEF AddStatus, MainAt, Goto
  <1>15. CASE ClearPid
    BY <1>15 DEF ClearPid, MainAt, Goto
  <1>16. CASE FreePids
    BY <1>16 DEF FreePids, MainAt, Goto
  <1>17. CASE ZeroChildren
    BY <1>17 DEF ZeroChildren, MainAt, Goto
  <1>18. CASE sigChildHandler
    BY <1>18 DEF sigChildHandler, ParentRuns, Goto, InterruptsRead, removePidFromChildList
  <1>19. ASSUME NEW everyone \in BOOLEAN, termHandler(everyone) PROVE SignalIsTrue'
    BY <1>19 DEF termHandler, ParentRuns, Goto, InterruptsRead
  <1>20. ASSUME NEW c \in Child, ChildUp(c) PROVE SignalIsTrue'
    BY <1>20 DEF ChildUp, parentOnly, ParentRuns
  <1>21. ASSUME NEW c \in Child, ChildFails(c) PROVE SignalIsTrue'
    BY <1>21 DEF ChildFails, parentOnly, Ends, Notify, PipeOf
  <1>22. ASSUME NEW c \in Child, ChildExits(c) PROVE SignalIsTrue'
    BY <1>22 DEF ChildExits, parentOnly, Ends, Notify, PipeOf
  <1>23. ASSUME NEW c \in Child, ChildReturns(c) PROVE SignalIsTrue'
    BY <1>23 DEF ChildReturns, parentOnly, Ends, Notify, PipeOf
  <1>24. ASSUME NEW c \in Child, ChildKilled(c) PROVE SignalIsTrue'
    BY <1>24 DEF ChildKilled, parentOnly, Ends, Notify, PipeOf
  <1>25. ASSUME NEW c \in Child, ChildStops(c) PROVE SignalIsTrue'
    BY <1>25 DEF ChildStops, parentOnly, Notify
  <1>26. ASSUME NEW c \in Child, ChildContinues(c) PROVE SignalIsTrue'
    BY <1>26 DEF ChildContinues, parentOnly, Notify
  <1>27. CASE passListeners
    BY <1>27 DEF passListeners, ParentRuns, Goto, InterruptsRead
  <1>28. ASSUME NEW c \in Child, ChildReplaced(c) PROVE SignalIsTrue'
    BY <1>28 DEF ChildReplaced, parentOnly
  <1>29. CASE UNCHANGED vars
    BY <1>29 DEF vars
  <1> QED
    BY <1>1, <1>2, <1>3, <1>4, <1>5, <1>6, <1>7, <1>8, <1>9, <1>10, <1>11, <1>12,
       <1>13, <1>14, <1>15, <1>16, <1>17, <1>18, <1>19, <1>20, <1>21, <1>22, <1>23, <1>24,
       <1>25, <1>26, <1>27, <1>28, <1>29
       DEF Next, Parent

\* The removal leaves no child alive above it, and waits for none twice.
LEMMA RemovedStep == IInv /\ [Next]_vars => RemovedAbove'
  <1> SUFFICES ASSUME IInv, [Next]_vars PROVE RemovedAbove'
    OBVIOUS
  <1> USE ChildrenAssumption DEF IInv, TypeOK, listTypeOK, parentTypeOK, childTypeOK, Child,
          Gone, ForkedInOrder, ListInStep, RemovedAbove, Forking, Forked, Listed, Removing,
          Entries, Ended, Alive, listVars, localVars, sigVars, childVars
  <1>1. CASE Fork
    BY <1>1, ForkGivesNext
  <1>2. CASE ReadPipe
    BY <1>2 DEF ReadPipe, MainAt, Goto
  <1>3. CASE CountChild
    BY <1>3 DEF CountChild, MainAt, Goto
  <1>4. CASE Realloc
    BY <1>4 DEF Realloc, MainAt, Goto
  <1>5. CASE AssignPids
    BY <1>5 DEF AssignPids, MainAt, Goto
  <1>6. CASE StorePid
    BY <1>6 DEF StorePid, MainAt, Goto
  <1>7. CASE Serve
    BY <1>7 DEF Serve, MainAt, Goto
  <1>8. CASE removeChildren
    BY <1>8 DEF removeChildren, MainAt, Goto
  <1>9. CASE PickChild
    BY <1>9 DEF PickChild, MainAt, Goto
  <1>10. CASE KillChild
    BY <1>10 DEF KillChild, MainAt, Goto
  <1>11. CASE CheckChild
    BY <1>11 DEF CheckChild, MainAt, Goto
  <1>12. CASE WaitChild
    BY <1>12 DEF WaitChild, MainAt, Goto
  <1>13. CASE CountStatus
    BY <1>13 DEF CountStatus, MainAt, Goto
  <1>14. CASE AddStatus
    BY <1>14 DEF AddStatus, MainAt, Goto
  <1>15. CASE ClearPid
    BY <1>15 DEF ClearPid, MainAt, Goto
  <1>16. CASE FreePids
    BY <1>16 DEF FreePids, MainAt, Goto
  <1>17. CASE ZeroChildren
    BY <1>17 DEF ZeroChildren, MainAt, Goto
  <1>18. CASE sigChildHandler
    BY <1>18 DEF sigChildHandler, ParentRuns, Goto, InterruptsRead, removePidFromChildList
  <1>19. ASSUME NEW everyone \in BOOLEAN, termHandler(everyone) PROVE RemovedAbove'
    BY <1>19 DEF termHandler, ParentRuns, Goto, InterruptsRead
  <1>20. ASSUME NEW c \in Child, ChildUp(c) PROVE RemovedAbove'
    BY <1>20 DEF ChildUp, parentOnly, ParentRuns
  <1>21. ASSUME NEW c \in Child, ChildFails(c) PROVE RemovedAbove'
    BY <1>21 DEF ChildFails, parentOnly, Ends, Notify, PipeOf
  <1>22. ASSUME NEW c \in Child, ChildExits(c) PROVE RemovedAbove'
    BY <1>22 DEF ChildExits, parentOnly, Ends, Notify, PipeOf
  <1>23. ASSUME NEW c \in Child, ChildReturns(c) PROVE RemovedAbove'
    BY <1>23 DEF ChildReturns, parentOnly, Ends, Notify, PipeOf
  <1>24. ASSUME NEW c \in Child, ChildKilled(c) PROVE RemovedAbove'
    BY <1>24 DEF ChildKilled, parentOnly, Ends, Notify, PipeOf
  <1>25. ASSUME NEW c \in Child, ChildStops(c) PROVE RemovedAbove'
    BY <1>25 DEF ChildStops, parentOnly, Notify
  <1>26. ASSUME NEW c \in Child, ChildContinues(c) PROVE RemovedAbove'
    BY <1>26 DEF ChildContinues, parentOnly, Notify
  <1>27. CASE passListeners
    BY <1>27 DEF passListeners, ParentRuns, Goto, InterruptsRead
  <1>28. ASSUME NEW c \in Child, ChildReplaced(c) PROVE RemovedAbove'
    BY <1>28 DEF ChildReplaced, parentOnly
  <1>29. CASE UNCHANGED vars
    BY <1>29 DEF vars
  <1> QED
    BY <1>1, <1>2, <1>3, <1>4, <1>5, <1>6, <1>7, <1>8, <1>9, <1>10, <1>11, <1>12,
       <1>13, <1>14, <1>15, <1>16, <1>17, <1>18, <1>19, <1>20, <1>21, <1>22, <1>23, <1>24,
       <1>25, <1>26, <1>27, <1>28, <1>29
       DEF Next, Parent

\* A child that ended stays so, with its status; what the removal is past, it
\* stays past; and a death is only announced when it happens.
Onward == \A c \in Child :
             /\ Ended(c) => Ended(c)' /\ how'[c] = how[c]
             /\ Unseen(c)' => Unseen(c) \/ ~Ended(c)
             /\ Past(c) => Past(c)'
LEMMA OnwardStep == IInv /\ [Next]_vars => Onward
  <1> SUFFICES ASSUME IInv, [Next]_vars PROVE Onward
    OBVIOUS
  <1> USE ChildrenAssumption DEF IInv, TypeOK, listTypeOK, parentTypeOK, childTypeOK, Child,
          Onward, Ended, Alive, Unseen, Past, Removing, NoSignal, RemovedAbove, listVars,
          localVars, sigVars, childVars
  <1>1. CASE Fork
    BY <1>1, ForkGivesNext
  <1>2. CASE ReadPipe
    BY <1>2 DEF ReadPipe, MainAt, Goto
  <1>3. CASE CountChild
    BY <1>3 DEF CountChild, MainAt, Goto
  <1>4. CASE Realloc
    BY <1>4 DEF Realloc, MainAt, Goto
  <1>5. CASE AssignPids
    BY <1>5 DEF AssignPids, MainAt, Goto
  <1>6. CASE StorePid
    BY <1>6 DEF StorePid, MainAt, Goto
  <1>7. CASE Serve
    BY <1>7 DEF Serve, MainAt, Goto
  <1>8. CASE removeChildren
    BY <1>8 DEF removeChildren, MainAt, Goto
  <1>9. CASE PickChild
    BY <1>9 DEF PickChild, MainAt, Goto
  <1>10. CASE KillChild
    BY <1>10 DEF KillChild, MainAt, Goto
  <1>11. CASE CheckChild
    BY <1>11 DEF CheckChild, MainAt, Goto
  <1>12. CASE WaitChild
    BY <1>12 DEF WaitChild, MainAt, Goto
  <1>13. CASE CountStatus
    BY <1>13 DEF CountStatus, MainAt, Goto
  <1>14. CASE AddStatus
    BY <1>14 DEF AddStatus, MainAt, Goto
  <1>15. CASE ClearPid
    BY <1>15 DEF ClearPid, MainAt, Goto
  <1>16. CASE FreePids
    BY <1>16 DEF FreePids, MainAt, Goto
  <1>17. CASE ZeroChildren
    BY <1>17 DEF ZeroChildren, MainAt, Goto
  <1>18. CASE sigChildHandler
    BY <1>18 DEF sigChildHandler, ParentRuns, Goto, InterruptsRead, removePidFromChildList
  <1>19. ASSUME NEW everyone \in BOOLEAN, termHandler(everyone) PROVE Onward
    BY <1>19 DEF termHandler, ParentRuns, Goto, InterruptsRead
  <1>20. ASSUME NEW c \in Child, ChildUp(c) PROVE Onward
    BY <1>20 DEF ChildUp, parentOnly, ParentRuns
  <1>21. ASSUME NEW c \in Child, ChildFails(c) PROVE Onward
    BY <1>21 DEF ChildFails, parentOnly, Ends, Notify, PipeOf
  <1>22. ASSUME NEW c \in Child, ChildExits(c) PROVE Onward
    BY <1>22 DEF ChildExits, parentOnly, Ends, Notify, PipeOf
  <1>23. ASSUME NEW c \in Child, ChildReturns(c) PROVE Onward
    BY <1>23 DEF ChildReturns, parentOnly, Ends, Notify, PipeOf
  <1>24. ASSUME NEW c \in Child, ChildKilled(c) PROVE Onward
    BY <1>24 DEF ChildKilled, parentOnly, Ends, Notify, PipeOf
  <1>25. ASSUME NEW c \in Child, ChildStops(c) PROVE Onward
    BY <1>25 DEF ChildStops, parentOnly, Notify
  <1>26. ASSUME NEW c \in Child, ChildContinues(c) PROVE Onward
    BY <1>26 DEF ChildContinues, parentOnly, Notify
  <1>27. CASE passListeners
    BY <1>27 DEF passListeners, ParentRuns, Goto, InterruptsRead
  <1>28. ASSUME NEW c \in Child, ChildReplaced(c) PROVE Onward
    BY <1>28 DEF ChildReplaced, parentOnly
  <1>29. CASE UNCHANGED vars
    BY <1>29 DEF vars
  <1> QED
    BY <1>1, <1>2, <1>3, <1>4, <1>5, <1>6, <1>7, <1>8, <1>9, <1>10, <1>11, <1>12,
       <1>13, <1>14, <1>15, <1>16, <1>17, <1>18, <1>19, <1>20, <1>21, <1>22, <1>23, <1>24,
       <1>25, <1>26, <1>27, <1>28, <1>29
       DEF Next, Parent

\* Only removeChildren() and the handler add to the sum.
OnlyTheyAdd == exitStatus' = exitStatus \/ AddStatus \/ sigChildHandler
LEMMA StatusKept == [Next]_vars => OnlyTheyAdd
  <1> SUFFICES ASSUME [Next]_vars PROVE OnlyTheyAdd
    OBVIOUS
  <1> USE DEF OnlyTheyAdd, listVars, localVars, sigVars, childVars
  <1>1. CASE Fork
    BY <1>1, Zenon DEF Fork, MainAt, Goto
  <1>2. CASE ReadPipe
    BY <1>2, Zenon DEF ReadPipe, MainAt, Goto
  <1>3. CASE CountChild
    BY <1>3, Zenon DEF CountChild, MainAt, Goto
  <1>4. CASE Realloc
    BY <1>4, Zenon DEF Realloc, MainAt, Goto
  <1>5. CASE AssignPids
    BY <1>5, Zenon DEF AssignPids, MainAt, Goto
  <1>6. CASE StorePid
    BY <1>6, Zenon DEF StorePid, MainAt, Goto
  <1>7. CASE Serve
    BY <1>7, Zenon DEF Serve, MainAt, Goto
  <1>8. CASE removeChildren
    BY <1>8, Zenon DEF removeChildren, MainAt, Goto
  <1>9. CASE PickChild
    BY <1>9, Zenon DEF PickChild, MainAt, Goto
  <1>10. CASE KillChild
    BY <1>10, Zenon DEF KillChild, MainAt, Goto
  <1>11. CASE CheckChild
    BY <1>11, Zenon DEF CheckChild, MainAt, Goto
  <1>12. CASE WaitChild
    BY <1>12, Zenon DEF WaitChild, MainAt, Goto
  <1>13. CASE CountStatus
    BY <1>13, Zenon DEF CountStatus, MainAt, Goto
  <1>14. CASE AddStatus
    BY <1>14, Zenon DEF AddStatus, MainAt, Goto
  <1>15. CASE ClearPid
    BY <1>15, Zenon DEF ClearPid, MainAt, Goto
  <1>16. CASE FreePids
    BY <1>16, Zenon DEF FreePids, MainAt, Goto
  <1>17. CASE ZeroChildren
    BY <1>17, Zenon DEF ZeroChildren, MainAt, Goto
  <1>18. CASE sigChildHandler
    BY <1>18, Zenon DEF sigChildHandler, ParentRuns, Goto, InterruptsRead,
       removePidFromChildList
  <1>19. ASSUME NEW everyone \in BOOLEAN, termHandler(everyone) PROVE OnlyTheyAdd
    BY <1>19, Zenon DEF termHandler, ParentRuns, Goto, InterruptsRead
  <1>20. ASSUME NEW c \in Child, ChildUp(c) PROVE OnlyTheyAdd
    BY <1>20, Zenon DEF ChildUp, parentOnly, ParentRuns
  <1>21. ASSUME NEW c \in Child, ChildFails(c) PROVE OnlyTheyAdd
    BY <1>21, Zenon DEF ChildFails, parentOnly, Ends, Notify, PipeOf
  <1>22. ASSUME NEW c \in Child, ChildExits(c) PROVE OnlyTheyAdd
    BY <1>22, Zenon DEF ChildExits, parentOnly, Ends, Notify, PipeOf
  <1>23. ASSUME NEW c \in Child, ChildReturns(c) PROVE OnlyTheyAdd
    BY <1>23, Zenon DEF ChildReturns, parentOnly, Ends, Notify, PipeOf
  <1>24. ASSUME NEW c \in Child, ChildKilled(c) PROVE OnlyTheyAdd
    BY <1>24, Zenon DEF ChildKilled, parentOnly, Ends, Notify, PipeOf
  <1>25. ASSUME NEW c \in Child, ChildStops(c) PROVE OnlyTheyAdd
    BY <1>25, Zenon DEF ChildStops, parentOnly, Notify
  <1>26. ASSUME NEW c \in Child, ChildContinues(c) PROVE OnlyTheyAdd
    BY <1>26, Zenon DEF ChildContinues, parentOnly, Notify
  <1>27. CASE passListeners
    BY <1>27, Zenon DEF passListeners, ParentRuns, Goto, InterruptsRead
  <1>28. ASSUME NEW c \in Child, ChildReplaced(c) PROVE OnlyTheyAdd
    BY <1>28, Zenon DEF ChildReplaced, parentOnly
  <1>29. CASE UNCHANGED vars
    BY <1>29, Zenon DEF vars
  <1> QED
    BY <1>1, <1>2, <1>3, <1>4, <1>5, <1>6, <1>7, <1>8, <1>9, <1>10, <1>11, <1>12,
       <1>13, <1>14, <1>15, <1>16, <1>17, <1>18, <1>19, <1>20, <1>21, <1>22, <1>23, <1>24,
       <1>25, <1>26, <1>27, <1>28, <1>29
       DEF Next, Parent

LEMMA CountedType == IInv => Counted \in [Child -> Nat] /\ Sum(Counted) \in Nat
  <1> SUFFICES ASSUME IInv PROVE Counted \in [Child -> Nat] /\ Sum(Counted) \in Nat
    OBVIOUS
  <1>1. \A c \in Child : how[c] = Killed \/ how[c] \in Nat
    BY ChildrenAssumption DEF IInv, TypeOK, childTypeOK
  <1>2. Counted \in [Child -> Nat]
    BY <1>1 DEF Counted
  <1> QED BY <1>2, SumIsNumber

\* No step takes back what a child has contributed.
LEMMA CountedGrows ==
    ASSUME IInv, [Next]_vars
    PROVE  /\ Counted' \in [Child -> Nat] /\ Sum(Counted') \in Nat
           /\ \A c \in Child : Counted[c] <= Counted'[c]
  <1>1. \A c \in Child : how'[c] = Killed \/ how'[c] \in Nat
    BY ChildTypeStep, ChildrenAssumption DEF childTypeOK
  <1>2. Counted' \in [Child -> Nat]
    BY <1>1 DEF Counted
  <1>3. ASSUME NEW c \in Child PROVE Counted[c] <= Counted'[c]
    <2>1. /\ Ended(c) => Ended(c)' /\ how'[c] = how[c]
          /\ Unseen(c)' => Unseen(c) \/ ~Ended(c)
          /\ Past(c) => Past(c)'
      BY OnwardStep DEF Onward
    <2>2. Counted[c] = IF ~Ended(c) THEN 0
                       ELSE IF how[c] = Killed THEN IF Unseen(c) THEN 0 ELSE 1
                       ELSE IF Past(c) THEN how[c] ELSE 0
      BY DEF Counted
    <2>3. Counted'[c] = IF ~Ended(c)' THEN 0
                        ELSE IF how'[c] = Killed THEN IF Unseen(c)' THEN 0 ELSE 1
                        ELSE IF Past(c)' THEN how'[c] ELSE 0
      BY DEF Counted
    <2>4. Counted'[c] \in Nat
      BY <1>2
    <2> QED BY <1>1, <2>1, <2>2, <2>3, <2>4 DEF Killed
  <1>4. Sum(Counted') \in Nat
    BY <1>2, SumIsNumber
  <1> QED BY <1>2, <1>3, <1>4

\* A capped sum is no more than the sum.
LEMMA CappedIsLess == ASSUME NEW n \in Nat PROVE Capped(n) <= n
  <1>1. n \in Int /\ MaxStatus \in Int
    BY ChildrenAssumption
  <1>2. PICK m \in {n, MaxStatus} : \A k \in {n, MaxStatus} : m <= k
    BY <1>1
  <1>3. Capped(n) \in {n, MaxStatus} /\ \A k \in {n, MaxStatus} : Capped(n) <= k
    BY <1>2 DEF Capped, Min
  <1> QED BY <1>3

\* What is added to the sum is the contribution of one child, for the first time.
LEMMA CountedStep == IInv /\ [Next]_vars => CountedOnce'
  <1> SUFFICES ASSUME IInv, [Next]_vars PROVE exitStatus' <= Sum(Counted')
    BY DEF CountedOnce
  <1>1. /\ Counted \in [Child -> Nat] /\ Sum(Counted) \in Nat
        /\ Counted' \in [Child -> Nat] /\ Sum(Counted') \in Nat
        /\ \A c \in Child : Counted[c] <= Counted'[c]
    BY CountedType, CountedGrows
  <1>2. exitStatus \in Nat /\ exitStatus <= Sum(Counted) /\ sum \in Nat /\ status \in Nat
    BY ChildrenAssumption DEF IInv, TypeOK, parentTypeOK, CountedOnce
  <1>3. Sum(Counted) <= Sum(Counted')
    BY <1>1, SumIsMonotonic
  <1>4. CASE exitStatus' = exitStatus
    BY <1>1, <1>2, <1>3, <1>4
  <1>5. CASE AddStatus
    <2>1. /\ pc = "add" /\ pc' = "clear" /\ exitStatus' = Capped(sum + status)
          /\ UNCHANGED <<cur, child, how>>
      BY <1>5, Zenon DEF AddStatus, MainAt, Goto, localVars, childVars
    <2>2. /\ cur \in Child /\ pid = cur /\ child[cur] = "reaped"
          /\ status = how[cur] /\ how[cur] # Killed /\ sum <= exitStatus
      BY <2>1, ChildrenAssumption
         DEF IInv, TypeOK, parentTypeOK, RemovedAbove, AddsInStep, Child
    <2>3. Counted[cur] = 0
      <3>1. ~Past(cur) /\ Ended(cur)
        BY <2>1, <2>2 DEF Past, Child, Ended
      <3> QED BY <2>2, <3>1 DEF Counted
    <2>4. Counted'[cur] = status
      BY <2>1, <2>2 DEF Counted, Past, Removing, Ended
    <2>5. Sum(Counted) + status <= Sum(Counted')
      <3>1. \A c \in Child : c = cur => Counted[c] + status <= Counted'[c]
        BY <1>2, <2>3, <2>4
      <3>2. cur \in Int
        BY <2>2 DEF Child
      <3> QED BY <1>1, <1>2, <2>2, <3>1, <3>2, SumGrows
    <2>6. Capped(sum + status) <= sum + status /\ Capped(sum + status) \in Nat
      <3>1. sum + status \in Nat
        BY <1>2
      <3> QED BY <3>1, CappedIsLess, CappedIsStatus
    <2> QED BY <1>1, <1>2, <2>1, <2>2, <2>5, <2>6
  <1>6. CASE sigChildHandler
    <2>1. CASE sigChld.code # "killed"
      BY <1>1, <1>2, <1>3, <1>6, <2>1 DEF sigChildHandler
    <2>2. CASE sigChld.code = "killed"
      <3> DEFINE c == sigChld.from
      <3>1. /\ c \in Child /\ sigChld = [from |-> c, code |-> "killed"]
            /\ sigChld' = NoSignal /\ child' = child /\ how' = how
            /\ exitStatus' = Capped(exitStatus + 1)
        BY <1>6, <2>2 DEF sigChildHandler, IInv, TypeOK, childTypeOK, childVars
      <3> HIDE DEF c
      <3>2. Ended(c) /\ how[c] = Killed
        BY <3>1 DEF IInv, SignalIsTrue, AddsInStep, Unseen, c
      <3>3. Counted[c] = 0
        BY <3>1, <3>2 DEF Counted, Unseen
      <3>4. Counted'[c] = 1
        BY <3>1, <3>2 DEF Counted, Unseen, Ended, NoSignal
      <3>5. Sum(Counted) + 1 <= Sum(Counted')
        <4>1. \A k \in Child : k = c => Counted[k] + 1 <= Counted'[k]
          BY <3>3, <3>4
        <4>2. c \in Int
          BY <3>1 DEF Child
        <4> QED BY <1>1, <3>1, <4>1, <4>2, SumGrows
      <3>6. Capped(exitStatus + 1) <= exitStatus + 1 /\ Capped(exitStatus + 1) \in Nat
        <4>1. exitStatus + 1 \in Nat
          BY <1>2
        <4> QED BY <4>1, CappedIsLess, CappedIsStatus
      <3> QED BY <1>1, <1>2, <3>1, <3>5, <3>6
    <2> QED BY <2>1, <2>2
  <1> QED BY <1>4, <1>5, <1>6, StatusKept DEF OnlyTheyAdd

\* A child that ends is not the one at hand, which was waited for.
LEMMA EndsKeepsAdds ==
    ASSUME IInv, NEW c \in Child, Alive(c), NEW result, NEW code, Ends(c, result, code),
           code = "killed" => result = Killed
    PROVE  AddsInStep'
  <1> USE DEF Ends, parentOnly, localVars
  <1>1. /\ UNCHANGED <<pc, pid, status, sum, exitStatus>>
        /\ how' = [how EXCEPT ![c] = result]
        /\ sigChld' = [from |-> c, code |-> code] \/ sigChld' = sigChld
    BY DEF Notify
  <1>2. how \in [Child -> {Killed} \cup 0 .. MaxStatus]
    BY DEF IInv, TypeOK, childTypeOK
  <1>3. pc \in {"count", "add"} => pid \in Child /\ pid # c /\ how'[pid] = how[pid]
    <2> SUFFICES ASSUME pc \in {"count", "add"}
                 PROVE  pid \in Child /\ pid # c /\ how'[pid] = how[pid]
      OBVIOUS
    <2>1. cur > 0 /\ pid = cur /\ child[cur] = "reaped" /\ cur \in 0 .. NumForks
      BY DEF IInv, TypeOK, parentTypeOK, RemovedAbove
    <2>2. pid \in Child /\ pid # c
      BY <2>1, ChildrenAssumption DEF Child, Alive
    <2> QED BY <1>1, <1>2, <2>2
  <1>4. \A k \in Child : Unseen(k)' => how'[k] = Killed
    <2> SUFFICES ASSUME NEW k \in Child, Unseen(k)' PROVE how'[k] = Killed
      OBVIOUS
    <2>1. how'[k] = IF k = c THEN result ELSE how[k]
      BY <1>1, <1>2
    <2>2. sigChld' = [from |-> k, code |-> "killed"]
      BY DEF Unseen
    <2>3. CASE sigChld' = [from |-> c, code |-> code]
      BY <2>1, <2>2, <2>3
    <2>4. CASE sigChld' = sigChld
      <3>1. how[k] = Killed /\ Ended(k)
        BY <2>2, <2>4 DEF IInv, AddsInStep, SignalIsTrue, Unseen
      <3> QED BY <2>1, <3>1 DEF Ended, Alive
    <2> QED BY <1>1, <2>3, <2>4
  <1> QED BY <1>1, <1>3, <1>4 DEF IInv, AddsInStep

\* The status at hand is the child's, and the sum that was read is not ahead.
LEMMA AddsStep == IInv /\ [Next]_vars => AddsInStep'
  <1> SUFFICES ASSUME IInv, [Next]_vars PROVE AddsInStep'
    OBVIOUS
  <1> USE ChildrenAssumption DEF IInv, TypeOK, parentTypeOK, childTypeOK, Child, AddsInStep,
          Unseen, Ended, Alive, NoSignal, RemovedAbove, listVars, localVars, sigVars,
          childVars
  <1>1. CASE Fork
    BY <1>1, ForkGivesNext
  <1>2. CASE ReadPipe
    BY <1>2 DEF ReadPipe, MainAt, Goto
  <1>3. CASE CountChild
    BY <1>3 DEF CountChild, MainAt, Goto
  <1>4. CASE Realloc
    BY <1>4 DEF Realloc, MainAt, Goto
  <1>5. CASE AssignPids
    BY <1>5 DEF AssignPids, MainAt, Goto
  <1>6. CASE StorePid
    BY <1>6 DEF StorePid, MainAt, Goto
  <1>7. CASE Serve
    BY <1>7 DEF Serve, MainAt, Goto
  <1>8. CASE removeChildren
    BY <1>8 DEF removeChildren, MainAt, Goto
  <1>9. CASE PickChild
    BY <1>9 DEF PickChild, MainAt, Goto
  <1>10. CASE KillChild
    BY <1>10 DEF KillChild, MainAt, Goto
  <1>11. CASE CheckChild
    BY <1>11 DEF CheckChild, MainAt, Goto
  <1>12. CASE WaitChild
    BY <1>12 DEF WaitChild, MainAt, Goto
  <1>13. CASE CountStatus
    BY <1>13 DEF CountStatus, MainAt, Goto
  <1>14. CASE AddStatus
    BY <1>14 DEF AddStatus, MainAt, Goto
  <1>15. CASE ClearPid
    BY <1>15 DEF ClearPid, MainAt, Goto
  <1>16. CASE FreePids
    BY <1>16 DEF FreePids, MainAt, Goto
  <1>17. CASE ZeroChildren
    BY <1>17 DEF ZeroChildren, MainAt, Goto
  <1>18. CASE sigChildHandler
    <2>1. /\ pc' \in {pc, "aborted"} /\ sigChld' = NoSignal
          /\ UNCHANGED <<pid, cur, status, sum, how>>
      BY <1>18 DEF sigChildHandler, Goto, InterruptsRead
    <2>2. exitStatus <= exitStatus'
      <3>1. Capped(exitStatus + 1) \in {exitStatus + 1, MaxStatus}
        <4>1. PICK m \in {exitStatus + 1, MaxStatus} :
                      \A k \in {exitStatus + 1, MaxStatus} : m <= k
          OBVIOUS
        <4> QED BY <4>1 DEF Capped, Min
      <3>2. exitStatus' = Capped(exitStatus + 1) \/ exitStatus' = exitStatus
        BY <1>18 DEF sigChildHandler
      <3> QED BY <3>1, <3>2
    <2>3. pc = "add" => sum <= exitStatus'
      <3>1. exitStatus' \in Int
        BY ParentTypeStep
      <3> QED BY <2>2, <3>1
    <2> QED BY <2>1, <2>3
  <1>19. ASSUME NEW everyone \in BOOLEAN, termHandler(everyone) PROVE AddsInStep'
    BY <1>19 DEF termHandler, ParentRuns, Goto, InterruptsRead
  <1>20. ASSUME NEW c \in Child, ChildUp(c) PROVE AddsInStep'
    BY <1>20 DEF ChildUp, parentOnly, ParentRuns
  <1>21. ASSUME NEW c \in Child, ChildFails(c) PROVE AddsInStep'
    BY <1>21, EndsKeepsAdds DEF ChildFails, Alive
  <1>22. ASSUME NEW c \in Child, ChildExits(c) PROVE AddsInStep'
    BY <1>22, EndsKeepsAdds DEF ChildExits
  <1>23. ASSUME NEW c \in Child, ChildReturns(c) PROVE AddsInStep'
    BY <1>23, EndsKeepsAdds DEF ChildReturns
  <1>24. ASSUME NEW c \in Child, ChildKilled(c) PROVE AddsInStep'
    BY <1>24, EndsKeepsAdds DEF ChildKilled
  <1>25. ASSUME NEW c \in Child, ChildStops(c) PROVE AddsInStep'
    BY <1>25 DEF ChildStops, parentOnly, Notify
  <1>26. ASSUME NEW c \in Child, ChildContinues(c) PROVE AddsInStep'
    BY <1>26 DEF ChildContinues, parentOnly, Notify
  <1>27. CASE passListeners
    BY <1>27 DEF passListeners, ParentRuns, Goto, InterruptsRead
  <1>28. ASSUME NEW c \in Child, ChildReplaced(c) PROVE AddsInStep'
    BY <1>28 DEF ChildReplaced, parentOnly
  <1>29. CASE UNCHANGED vars
    BY <1>29 DEF vars
  <1> QED
    BY <1>1, <1>2, <1>3, <1>4, <1>5, <1>6, <1>7, <1>8, <1>9, <1>10, <1>11, <1>12,
       <1>13, <1>14, <1>15, <1>16, <1>17, <1>18, <1>19, <1>20, <1>21, <1>22, <1>23, <1>24,
       <1>25, <1>26, <1>27, <1>28, <1>29
       DEF Next, Parent

\* The invariant is inductive and holds in every reachable state.
THEOREM Invariance == Spec => []IInv
  <1>1. IInv /\ [Next]_vars => IInv'
    BY StopTypeStep, ListTypeStep, ParentTypeStep, ChildTypeStep, ForkedStep, ListStep,
       SignalStep, RemovedStep, CountedStep, AddsStep
       DEF IInv, TypeOK
  <1> QED BY InitIInv, <1>1, PTL DEF Spec

\* Every index into childPids is one of its entries, whenever SIGCHLD comes.
THEOREM TypeCorrect == Spec => []TypeOK
  <1>1. IInv => TypeOK
    BY DEF IInv
  <1> QED BY <1>1, Invariance, PTL

\* poTato_removeChildren() leaves no child running, whatever the handler takes
\* from the list while it goes through it.
THEOREM ChildrenAreRemoved == Spec => []NoChildLeftBehind
  <1>1. IInv => NoChildLeftBehind
    <2> SUFFICES ASSUME IInv PROVE NoChildLeftBehind
      OBVIOUS
    <2> USE ChildrenAssumption DEF IInv, TypeOK, listTypeOK, parentTypeOK, childTypeOK,
            PidList
    <2>1. ASSUME pc = "serving", NEW c \in Child, Alive(c)
          PROVE  \E i \in DOMAIN childPids : childPids[i] = c
      <3>1. c \in 1 .. Len(childPids)
        BY <2>1 DEF ForkedInOrder, Forked, ListInStep, Listed, Alive, Child
      <3>2. childPids[c] = c
        BY <2>1, <3>1 DEF ListInStep, Entries, Ended, Alive, Child
      <3> QED BY <3>1, <3>2
    <2>2. ASSUME Removing, NEW c \in Child, Alive(c)
          PROVE  \E i \in 1 .. cur : childPids[i] = c
      <3>1. c \in 1 .. cur /\ c \in 1 .. Len(childPids)
        BY <2>2 DEF RemovedAbove, ListInStep, Listed, Removing, Child
      <3>2. childPids[c] = c
        BY <2>2, <3>1 DEF ListInStep, Entries, Ended, Alive, Child
      <3> QED BY <3>1, <3>2
    <2> QED BY <2>1, <2>2 DEF NoChildLeftBehind, RemovedAbove
  <1> QED BY <1>1, Invariance, PTL

\* kill() and waitpid() are given the pid of a child that was not waited for.
THEOREM KillsAreSafe == Spec => []KillsOnlyItsOwn
  <1>1. IInv => KillsOnlyItsOwn
    BY ChildrenAssumption
       DEF IInv, TypeOK, parentTypeOK, childTypeOK, ForkedInOrder, RemovedAbove, Forked,
           Forking, Removing, KillsOnlyItsOwn, Child
  <1> QED BY <1>1, Invariance, PTL

\* exitStatus, to which the handler and poTato_removeChildren() add while one may
\* interrupt the other, is never more than the children's statuses together.
THEOREM StatusesCountedOnce == Spec => []NeverOvercounts
  <1>1. IInv => NeverOvercounts
    <2> SUFFICES ASSUME IInv PROVE exitStatus <= Capped(SumOfCodes)
      BY DEF NeverOvercounts
    <2> DEFINE codes == [c \in Child |-> Code(c)]
    <2>1. \A c \in Child : how[c] = Killed \/ how[c] \in Nat
      BY ChildrenAssumption DEF IInv, TypeOK, childTypeOK
    <2>2. codes \in [Child -> Nat]
      BY <2>1 DEF Code
    <2>3. \A c \in Child : Counted[c] <= codes[c]
      <3> TAKE c \in Child
      <3>1. Ended(c) => ~Alive(c) /\ child[c] # "none"
        BY DEF Ended, Alive
      <3>2. codes[c] = Code(c) /\ codes[c] \in Nat
        BY <2>2
      <3> HIDE DEF codes
      <3> QED BY <2>1, <3>1, <3>2 DEF Counted, Code, Killed
    <2>4. Counted \in [Child -> Nat] /\ Sum(Counted) \in Nat
      BY CountedType
    <2> HIDE DEF codes
    <2>5. Sum(codes) \in Nat /\ Sum(Counted) <= Sum(codes)
      BY <2>2, <2>3, <2>4, SumIsNumber, SumIsMonotonic
    <2>6. exitStatus <= Sum(codes) /\ exitStatus <= MaxStatus /\ exitStatus \in Nat
      BY <2>4, <2>5, ChildrenAssumption DEF IInv, TypeOK, parentTypeOK, CountedOnce
    <2>7. Capped(Sum(codes)) \in {Sum(codes), MaxStatus}
      <3>1. PICK m \in {Sum(codes), MaxStatus} : \A k \in {Sum(codes), MaxStatus} : m <= k
        BY <2>5, ChildrenAssumption
      <3> QED BY <3>1 DEF Capped, Min
    <2> QED BY <2>6, <2>7 DEF SumOfCodes, codes
  <1> QED BY <1>1, Invariance, PTL
=============================================================================
