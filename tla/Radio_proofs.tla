---------------------------- MODULE Radio_proofs ----------------------------
(***************************************************************************)
(* Proofs about Radio, for every choice of modules and any number of       *)
(* signals.                                                                *)
(***************************************************************************)
EXTENDS Radio, TLAPS

\* main() starts with its signals blocked, no thread and a silent radio.
LEMMA InitIInv == Init => IInv
  <1> SUFFICES ASSUME Init PROVE IInv
    OBVIOUS
  <1> USE DEF Init
  <1>1. flagTypeOK
    BY Zenon DEF flagTypeOK
  <1>2. placeTypeOK
    BY MaxSigIntAssumption DEF placeTypeOK, LateCap
  <1>3. MutexHeld /\ ThreadsFollowMain /\ ModulesOutliveThreads
    BY DEF MutexHeld, ThreadsFollowMain, ModulesOutliveThreads
  <1>4. streaming = FALSE /\ caught = FALSE /\ burst # "open" /\ late = 0
    BY Zenon
  <1>5. RadioFollowsThreads
    BY <1>4 DEF RadioFollowsThreads
  <1> QED BY <1>1, <1>2, <1>3, <1>5 DEF IInv, TypeOK

\* Flags stay Boolean.
LEMMA FlagsStep == IInv /\ [Next]_vars => flagTypeOK'
  <1> SUFFICES ASSUME IInv, [Next]_vars PROVE flagTypeOK'
    OBVIOUS
  <1> USE DEF IInv, TypeOK, flagTypeOK, envVars, sigVars, flagVars, radioVars, mainKeeps,
          Running
  <1>1. CASE SigInt
    BY <1>1, Zenon DEF SigInt
  <1>2. CASE signalExitProgramCatcher
    BY <1>2, Zenon DEF signalExitProgramCatcher
  <1>3. CASE LoadModules
    BY <1>3, Zenon DEF LoadModules, MainGoes
  <1>4. CASE CreateRx
    BY <1>4, Zenon DEF CreateRx, MainGoes
  <1>5. CASE CreateTx
    BY <1>5, Zenon DEF CreateTx, MainGoes
  <1>6. CASE UnblockSignals
    BY <1>6, Zenon DEF UnblockSignals, MainGoes
  <1>7. CASE MainArrives
    BY <1>7, Zenon DEF MainArrives, MainGoes
  <1>8. CASE MainPasses
    BY <1>8, Zenon DEF MainPasses, MainGoes
  <1>9. CASE JoinRx
    BY <1>9, Zenon DEF JoinRx, MainGoes
  <1>10. CASE JoinTx
    BY <1>10, Zenon DEF JoinTx, MainGoes
  <1>11. CASE DestroyModules
    BY <1>11, Zenon DEF DestroyModules, MainGoes
  <1>12. CASE MainReturns
    BY <1>12, Zenon DEF MainReturns, MainGoes
  <1>13. CASE RxCreates
    BY <1>13, Zenon DEF RxCreates, RxGoes, RxLocks, RxUnlocks
  <1>14. CASE RxArrives
    BY <1>14, Zenon DEF RxArrives, RxGoes
  <1>15. CASE RxPasses
    BY <1>15, Zenon DEF RxPasses, RxGoes
  <1>16. CASE RxBegins
    BY <1>16, Zenon DEF RxBegins, RxGoes
  <1>17. CASE RxStarts
    BY <1>17, Zenon DEF RxStarts, RxGoes
  <1>18. CASE RxLoops
    BY <1>18, Zenon DEF RxLoops, RxGoes
  <1>19. CASE RxReceives
    BY <1>19, Zenon DEF RxReceives, RxGoes
  <1>20. CASE RxWrites
    BY <1>20, Zenon DEF RxWrites, RxGoes
  <1>21. CASE RxStops
    BY <1>21, Zenon DEF RxStops, RxGoes
  <1>22. CASE RxDestroys
    BY <1>22, Zenon DEF RxDestroys, RxGoes, RxLocks, RxUnlocks
  <1>23. CASE TxCreates
    BY <1>23, Zenon DEF TxCreates, TxGoes, TxLocks, TxUnlocks
  <1>24. CASE TxArrives
    BY <1>24, Zenon DEF TxArrives, TxGoes
  <1>25. CASE TxPasses
    BY <1>25, Zenon DEF TxPasses, TxGoes
  <1>26. CASE TxLoops
    BY <1>26, Zenon DEF TxLoops, TxGoes
  <1>27. CASE TxReads
    BY <1>27, Zenon DEF TxReads, TxGoes, LateCap
  <1>28. ASSUME NEW exits \in BOOLEAN, TxReadsEnd(exits) PROVE flagTypeOK'
    BY <1>28, Zenon DEF TxReadsEnd, TxGoes, ReadEnds, crtsExit
  <1>29. CASE TxSends
    BY <1>29, Zenon DEF TxSends, TxGoes
  <1>30. CASE TxFinishes
    BY <1>30, Zenon DEF TxFinishes, TxGoes
  <1>31. CASE TxDestroys
    BY <1>31, Zenon DEF TxDestroys, TxGoes, TxLocks, TxUnlocks
  <1>32. CASE UNCHANGED vars
    BY <1>32, Zenon DEF vars
  <1>33. CASE CatcherHangs
    BY <1>33, Zenon DEF CatcherHangs, Spewing
  <1> QED
    BY <1>1, <1>2, <1>3, <1>4, <1>5, <1>6, <1>7, <1>8, <1>9, <1>10, <1>11, <1>12,
       <1>13, <1>14, <1>15, <1>16, <1>17, <1>18, <1>19, <1>20, <1>21, <1>22, <1>23, <1>24,
       <1>25, <1>26, <1>27, <1>28, <1>29, <1>30, <1>31, <1>32, <1>33
       DEF Next, Main, Rx, Tx

\* Every thread stays within its program, every counter within its bound.
LEMMA PlacesStep == IInv /\ [Next]_vars => placeTypeOK'
  <1> SUFFICES ASSUME IInv, [Next]_vars PROVE placeTypeOK'
    OBVIOUS
  <1> USE MaxSigIntAssumption DEF IInv, TypeOK, placeTypeOK, LateCap, envVars, sigVars,
          flagVars, radioVars, mainKeeps, Running
  <1>1. CASE SigInt
    BY <1>1 DEF SigInt
  <1>2. CASE signalExitProgramCatcher
    BY <1>2 DEF signalExitProgramCatcher
  <1>3. CASE LoadModules
    BY <1>3 DEF LoadModules, MainGoes
  <1>4. CASE CreateRx
    BY <1>4 DEF CreateRx, MainGoes
  <1>5. CASE CreateTx
    BY <1>5 DEF CreateTx, MainGoes
  <1>6. CASE UnblockSignals
    BY <1>6 DEF UnblockSignals, MainGoes
  <1>7. CASE MainArrives
    BY <1>7 DEF MainArrives, MainGoes
  <1>8. CASE MainPasses
    BY <1>8 DEF MainPasses, MainGoes
  <1>9. CASE JoinRx
    BY <1>9 DEF JoinRx, MainGoes
  <1>10. CASE JoinTx
    BY <1>10 DEF JoinTx, MainGoes
  <1>11. CASE DestroyModules
    BY <1>11 DEF DestroyModules, MainGoes
  <1>12. CASE MainReturns
    BY <1>12 DEF MainReturns, MainGoes
  <1>13. CASE RxCreates
    BY <1>13 DEF RxCreates, RxGoes, RxLocks, RxUnlocks
  <1>14. CASE RxArrives
    BY <1>14 DEF RxArrives, RxGoes
  <1>15. CASE RxPasses
    BY <1>15 DEF RxPasses, RxGoes
  <1>16. CASE RxBegins
    BY <1>16 DEF RxBegins, RxGoes
  <1>17. CASE RxStarts
    BY <1>17 DEF RxStarts, RxGoes
  <1>18. CASE RxLoops
    BY <1>18 DEF RxLoops, RxGoes
  <1>19. CASE RxReceives
    BY <1>19 DEF RxReceives, RxGoes
  <1>20. CASE RxWrites
    BY <1>20 DEF RxWrites, RxGoes
  <1>21. CASE RxStops
    BY <1>21 DEF RxStops, RxGoes
  <1>22. CASE RxDestroys
    BY <1>22 DEF RxDestroys, RxGoes, RxLocks, RxUnlocks
  <1>23. CASE TxCreates
    BY <1>23 DEF TxCreates, TxGoes, TxLocks, TxUnlocks
  <1>24. CASE TxArrives
    BY <1>24 DEF TxArrives, TxGoes
  <1>25. CASE TxPasses
    BY <1>25 DEF TxPasses, TxGoes
  <1>26. CASE TxLoops
    BY <1>26 DEF TxLoops, TxGoes
  <1>27. CASE TxReads
    BY <1>27 DEF TxReads, TxGoes, LateCap
  <1>28. ASSUME NEW exits \in BOOLEAN, TxReadsEnd(exits) PROVE placeTypeOK'
    BY <1>28 DEF TxReadsEnd, TxGoes, ReadEnds, crtsExit
  <1>29. CASE TxSends
    BY <1>29 DEF TxSends, TxGoes
  <1>30. CASE TxFinishes
    BY <1>30 DEF TxFinishes, TxGoes
  <1>31. CASE TxDestroys
    BY <1>31 DEF TxDestroys, TxGoes, TxLocks, TxUnlocks
  <1>32. CASE UNCHANGED vars
    BY <1>32 DEF vars
  <1>33. CASE CatcherHangs
    BY <1>33 DEF CatcherHangs, Spewing
  <1> QED
    BY <1>1, <1>2, <1>3, <1>4, <1>5, <1>6, <1>7, <1>8, <1>9, <1>10, <1>11, <1>12,
       <1>13, <1>14, <1>15, <1>16, <1>17, <1>18, <1>19, <1>20, <1>21, <1>22, <1>23, <1>24,
       <1>25, <1>26, <1>27, <1>28, <1>29, <1>30, <1>31, <1>32, <1>33
       DEF Next, Main, Rx, Tx

\* A thread takes and gives the FFTW mutex where it creates and destroys.
LEMMA MutexStep == IInv /\ [Next]_vars => MutexHeld'
  <1> SUFFICES ASSUME IInv, [Next]_vars PROVE MutexHeld'
    OBVIOUS
  <1> USE MaxSigIntAssumption DEF IInv, TypeOK, placeTypeOK, MutexHeld, ThreadsFollowMain,
          envVars, sigVars, flagVars, radioVars, mainKeeps, Running
  <1>1. CASE SigInt
    BY <1>1 DEF SigInt
  <1>2. CASE signalExitProgramCatcher
    BY <1>2 DEF signalExitProgramCatcher
  <1>3. CASE LoadModules
    BY <1>3 DEF LoadModules, MainGoes
  <1>4. CASE CreateRx
    BY <1>4 DEF CreateRx, MainGoes
  <1>5. CASE CreateTx
    BY <1>5 DEF CreateTx, MainGoes
  <1>6. CASE UnblockSignals
    BY <1>6 DEF UnblockSignals, MainGoes
  <1>7. CASE MainArrives
    BY <1>7 DEF MainArrives, MainGoes
  <1>8. CASE MainPasses
    BY <1>8 DEF MainPasses, MainGoes
  <1>9. CASE JoinRx
    BY <1>9 DEF JoinRx, MainGoes
  <1>10. CASE JoinTx
    BY <1>10 DEF JoinTx, MainGoes
  <1>11. CASE DestroyModules
    BY <1>11 DEF DestroyModules, MainGoes
  <1>12. CASE MainReturns
    BY <1>12 DEF MainReturns, MainGoes
  <1>13. CASE RxCreates
    BY <1>13 DEF RxCreates, RxGoes, RxLocks, RxUnlocks
  <1>14. CASE RxArrives
    BY <1>14 DEF RxArrives, RxGoes
  <1>15. CASE RxPasses
    BY <1>15 DEF RxPasses, RxGoes
  <1>16. CASE RxBegins
    BY <1>16 DEF RxBegins, RxGoes
  <1>17. CASE RxStarts
    BY <1>17 DEF RxStarts, RxGoes
  <1>18. CASE RxLoops
    BY <1>18 DEF RxLoops, RxGoes
  <1>19. CASE RxReceives
    BY <1>19 DEF RxReceives, RxGoes
  <1>20. CASE RxWrites
    BY <1>20 DEF RxWrites, RxGoes
  <1>21. CASE RxStops
    BY <1>21 DEF RxStops, RxGoes
  <1>22. CASE RxDestroys
    BY <1>22 DEF RxDestroys, RxGoes, RxLocks, RxUnlocks
  <1>23. CASE TxCreates
    BY <1>23 DEF TxCreates, TxGoes, TxLocks, TxUnlocks
  <1>24. CASE TxArrives
    BY <1>24 DEF TxArrives, TxGoes
  <1>25. CASE TxPasses
    BY <1>25 DEF TxPasses, TxGoes
  <1>26. CASE TxLoops
    BY <1>26 DEF TxLoops, TxGoes
  <1>27. CASE TxReads
    BY <1>27 DEF TxReads, TxGoes, LateCap
  <1>28. ASSUME NEW exits \in BOOLEAN, TxReadsEnd(exits) PROVE MutexHeld'
    BY <1>28 DEF TxReadsEnd, TxGoes, ReadEnds, crtsExit
  <1>29. CASE TxSends
    BY <1>29 DEF TxSends, TxGoes
  <1>30. CASE TxFinishes
    BY <1>30 DEF TxFinishes, TxGoes
  <1>31. CASE TxDestroys
    BY <1>31 DEF TxDestroys, TxGoes, TxLocks, TxUnlocks
  <1>32. CASE UNCHANGED vars
    BY <1>32 DEF vars
  <1>33. CASE CatcherHangs
    BY <1>33 DEF CatcherHangs, Spewing
  <1> QED
    BY <1>1, <1>2, <1>3, <1>4, <1>5, <1>6, <1>7, <1>8, <1>9, <1>10, <1>11, <1>12,
       <1>13, <1>14, <1>15, <1>16, <1>17, <1>18, <1>19, <1>20, <1>21, <1>22, <1>23, <1>24,
       <1>25, <1>26, <1>27, <1>28, <1>29, <1>30, <1>31, <1>32, <1>33
       DEF Next, Main, Rx, Tx

\* No thread starts before main() creates it, and main() joins both.
LEMMA ThreadsStep == IInv /\ [Next]_vars => ThreadsFollowMain'
  <1> SUFFICES ASSUME IInv, [Next]_vars PROVE ThreadsFollowMain'
    OBVIOUS
  <1> USE MaxSigIntAssumption DEF IInv, TypeOK, flagTypeOK, placeTypeOK,
          ThreadsFollowMain, envVars, sigVars, flagVars, radioVars, mainKeeps, Running
  <1>1. CASE SigInt
    BY <1>1 DEF SigInt
  <1>2. CASE signalExitProgramCatcher
    BY <1>2 DEF signalExitProgramCatcher
  <1>3. CASE LoadModules
    BY <1>3 DEF LoadModules, MainGoes
  <1>4. CASE CreateRx
    BY <1>4 DEF CreateRx, MainGoes
  <1>5. CASE CreateTx
    BY <1>5 DEF CreateTx, MainGoes
  <1>6. CASE UnblockSignals
    BY <1>6 DEF UnblockSignals, MainGoes
  <1>7. CASE MainArrives
    BY <1>7 DEF MainArrives, MainGoes
  <1>8. CASE MainPasses
    BY <1>8 DEF MainPasses, MainGoes
  <1>9. CASE JoinRx
    BY <1>9 DEF JoinRx, MainGoes
  <1>10. CASE JoinTx
    BY <1>10 DEF JoinTx, MainGoes
  <1>11. CASE DestroyModules
    BY <1>11 DEF DestroyModules, MainGoes
  <1>12. CASE MainReturns
    BY <1>12 DEF MainReturns, MainGoes
  <1>13. CASE RxCreates
    BY <1>13 DEF RxCreates, RxGoes, RxLocks, RxUnlocks
  <1>14. CASE RxArrives
    BY <1>14 DEF RxArrives, RxGoes
  <1>15. CASE RxPasses
    BY <1>15 DEF RxPasses, RxGoes
  <1>16. CASE RxBegins
    BY <1>16 DEF RxBegins, RxGoes
  <1>17. CASE RxStarts
    BY <1>17 DEF RxStarts, RxGoes
  <1>18. CASE RxLoops
    BY <1>18 DEF RxLoops, RxGoes
  <1>19. CASE RxReceives
    BY <1>19 DEF RxReceives, RxGoes
  <1>20. CASE RxWrites
    BY <1>20 DEF RxWrites, RxGoes
  <1>21. CASE RxStops
    BY <1>21 DEF RxStops, RxGoes
  <1>22. CASE RxDestroys
    BY <1>22 DEF RxDestroys, RxGoes, RxLocks, RxUnlocks
  <1>23. CASE TxCreates
    BY <1>23 DEF TxCreates, TxGoes, TxLocks, TxUnlocks
  <1>24. CASE TxArrives
    BY <1>24 DEF TxArrives, TxGoes
  <1>25. CASE TxPasses
    BY <1>25 DEF TxPasses, TxGoes
  <1>26. CASE TxLoops
    BY <1>26 DEF TxLoops, TxGoes
  <1>27. CASE TxReads
    BY <1>27 DEF TxReads, TxGoes, LateCap
  <1>28. ASSUME NEW exits \in BOOLEAN, TxReadsEnd(exits) PROVE ThreadsFollowMain'
    BY <1>28 DEF TxReadsEnd, TxGoes, ReadEnds, crtsExit
  <1>29. CASE TxSends
    BY <1>29 DEF TxSends, TxGoes
  <1>30. CASE TxFinishes
    BY <1>30 DEF TxFinishes, TxGoes
  <1>31. CASE TxDestroys
    BY <1>31 DEF TxDestroys, TxGoes, TxLocks, TxUnlocks
  <1>32. CASE UNCHANGED vars
    BY <1>32 DEF vars
  <1>33. CASE CatcherHangs
    BY <1>33 DEF CatcherHangs, Spewing
  <1> QED
    BY <1>1, <1>2, <1>3, <1>4, <1>5, <1>6, <1>7, <1>8, <1>9, <1>10, <1>11, <1>12,
       <1>13, <1>14, <1>15, <1>16, <1>17, <1>18, <1>19, <1>20, <1>21, <1>22, <1>23, <1>24,
       <1>25, <1>26, <1>27, <1>28, <1>29, <1>30, <1>31, <1>32, <1>33
       DEF Next, Main, Rx, Tx

\* After main() destroyed the modules no thread moves.
LEMMA ModulesStep == IInv /\ [Next]_vars => ModulesOutliveThreads'
  <1> SUFFICES ASSUME IInv, [Next]_vars PROVE ModulesOutliveThreads'
    OBVIOUS
  <1> USE MaxSigIntAssumption DEF IInv, TypeOK, placeTypeOK, ThreadsFollowMain,
          ModulesOutliveThreads, envVars, sigVars, flagVars, radioVars, mainKeeps, Running
  <1>1. CASE SigInt
    BY <1>1 DEF SigInt
  <1>2. CASE signalExitProgramCatcher
    BY <1>2 DEF signalExitProgramCatcher
  <1>3. CASE LoadModules
    BY <1>3 DEF LoadModules, MainGoes
  <1>4. CASE CreateRx
    BY <1>4 DEF CreateRx, MainGoes
  <1>5. CASE CreateTx
    BY <1>5 DEF CreateTx, MainGoes
  <1>6. CASE UnblockSignals
    BY <1>6 DEF UnblockSignals, MainGoes
  <1>7. CASE MainArrives
    BY <1>7 DEF MainArrives, MainGoes
  <1>8. CASE MainPasses
    BY <1>8 DEF MainPasses, MainGoes
  <1>9. CASE JoinRx
    BY <1>9 DEF JoinRx, MainGoes
  <1>10. CASE JoinTx
    BY <1>10 DEF JoinTx, MainGoes
  <1>11. CASE DestroyModules
    BY <1>11 DEF DestroyModules, MainGoes
  <1>12. CASE MainReturns
    BY <1>12 DEF MainReturns, MainGoes
  <1>13. CASE RxCreates
    BY <1>13 DEF RxCreates, RxGoes, RxLocks, RxUnlocks
  <1>14. CASE RxArrives
    BY <1>14 DEF RxArrives, RxGoes
  <1>15. CASE RxPasses
    BY <1>15 DEF RxPasses, RxGoes
  <1>16. CASE RxBegins
    BY <1>16 DEF RxBegins, RxGoes
  <1>17. CASE RxStarts
    BY <1>17 DEF RxStarts, RxGoes
  <1>18. CASE RxLoops
    BY <1>18 DEF RxLoops, RxGoes
  <1>19. CASE RxReceives
    BY <1>19 DEF RxReceives, RxGoes
  <1>20. CASE RxWrites
    BY <1>20 DEF RxWrites, RxGoes
  <1>21. CASE RxStops
    BY <1>21 DEF RxStops, RxGoes
  <1>22. CASE RxDestroys
    BY <1>22 DEF RxDestroys, RxGoes, RxLocks, RxUnlocks
  <1>23. CASE TxCreates
    BY <1>23 DEF TxCreates, TxGoes, TxLocks, TxUnlocks
  <1>24. CASE TxArrives
    BY <1>24 DEF TxArrives, TxGoes
  <1>25. CASE TxPasses
    BY <1>25 DEF TxPasses, TxGoes
  <1>26. CASE TxLoops
    BY <1>26 DEF TxLoops, TxGoes
  <1>27. CASE TxReads
    BY <1>27 DEF TxReads, TxGoes, LateCap
  <1>28. ASSUME NEW exits \in BOOLEAN, TxReadsEnd(exits) PROVE ModulesOutliveThreads'
    BY <1>28 DEF TxReadsEnd, TxGoes, ReadEnds, crtsExit
  <1>29. CASE TxSends
    BY <1>29 DEF TxSends, TxGoes
  <1>30. CASE TxFinishes
    BY <1>30 DEF TxFinishes, TxGoes
  <1>31. CASE TxDestroys
    BY <1>31 DEF TxDestroys, TxGoes, TxLocks, TxUnlocks
  <1>32. CASE UNCHANGED vars
    BY <1>32 DEF vars
  <1>33. CASE CatcherHangs
    BY <1>33 DEF CatcherHangs, Spewing
  <1> QED
    BY <1>1, <1>2, <1>3, <1>4, <1>5, <1>6, <1>7, <1>8, <1>9, <1>10, <1>11, <1>12,
       <1>13, <1>14, <1>15, <1>16, <1>17, <1>18, <1>19, <1>20, <1>21, <1>22, <1>23, <1>24,
       <1>25, <1>26, <1>27, <1>28, <1>29, <1>30, <1>31, <1>32, <1>33
       DEF Next, Main, Rx, Tx

\* A stream is stopped, and a burst ended, before its thread leaves the loop behind.
LEMMA RadioStep == IInv /\ [Next]_vars => RadioFollowsThreads'
  <1> SUFFICES ASSUME IInv, [Next]_vars PROVE RadioFollowsThreads'
    OBVIOUS
  <1> USE MaxSigIntAssumption DEF IInv, TypeOK, flagTypeOK, placeTypeOK,
          ThreadsFollowMain, RadioFollowsThreads, LateCap, envVars, sigVars, flagVars,
          radioVars, mainKeeps, Running
  <1>1. CASE SigInt
    BY <1>1 DEF SigInt
  <1>2. CASE signalExitProgramCatcher
    BY <1>2 DEF signalExitProgramCatcher
  <1>3. CASE LoadModules
    BY <1>3 DEF LoadModules, MainGoes
  <1>4. CASE CreateRx
    BY <1>4 DEF CreateRx, MainGoes
  <1>5. CASE CreateTx
    BY <1>5 DEF CreateTx, MainGoes
  <1>6. CASE UnblockSignals
    BY <1>6 DEF UnblockSignals, MainGoes
  <1>7. CASE MainArrives
    BY <1>7 DEF MainArrives, MainGoes
  <1>8. CASE MainPasses
    BY <1>8 DEF MainPasses, MainGoes
  <1>9. CASE JoinRx
    BY <1>9 DEF JoinRx, MainGoes
  <1>10. CASE JoinTx
    BY <1>10 DEF JoinTx, MainGoes
  <1>11. CASE DestroyModules
    BY <1>11 DEF DestroyModules, MainGoes
  <1>12. CASE MainReturns
    BY <1>12 DEF MainReturns, MainGoes
  <1>13. CASE RxCreates
    BY <1>13 DEF RxCreates, RxGoes, RxLocks, RxUnlocks
  <1>14. CASE RxArrives
    BY <1>14 DEF RxArrives, RxGoes
  <1>15. CASE RxPasses
    BY <1>15 DEF RxPasses, RxGoes
  <1>16. CASE RxBegins
    BY <1>16 DEF RxBegins, RxGoes
  <1>17. CASE RxStarts
    BY <1>17 DEF RxStarts, RxGoes
  <1>18. CASE RxLoops
    BY <1>18 DEF RxLoops, RxGoes
  <1>19. CASE RxReceives
    BY <1>19 DEF RxReceives, RxGoes
  <1>20. CASE RxWrites
    BY <1>20 DEF RxWrites, RxGoes
  <1>21. CASE RxStops
    BY <1>21 DEF RxStops, RxGoes
  <1>22. CASE RxDestroys
    BY <1>22 DEF RxDestroys, RxGoes, RxLocks, RxUnlocks
  <1>23. CASE TxCreates
    BY <1>23 DEF TxCreates, TxGoes, TxLocks, TxUnlocks
  <1>24. CASE TxArrives
    BY <1>24 DEF TxArrives, TxGoes
  <1>25. CASE TxPasses
    BY <1>25 DEF TxPasses, TxGoes
  <1>26. CASE TxLoops
    BY <1>26 DEF TxLoops, TxGoes
  <1>27. CASE TxReads
    BY <1>27 DEF TxReads, TxGoes, LateCap
  <1>28. ASSUME NEW exits \in BOOLEAN, TxReadsEnd(exits) PROVE RadioFollowsThreads'
    BY <1>28 DEF TxReadsEnd, TxGoes, ReadEnds, crtsExit
  <1>29. CASE TxSends
    BY <1>29 DEF TxSends, TxGoes
  <1>30. CASE TxFinishes
    BY <1>30 DEF TxFinishes, TxGoes
  <1>31. CASE TxDestroys
    BY <1>31 DEF TxDestroys, TxGoes, TxLocks, TxUnlocks
  <1>32. CASE UNCHANGED vars
    BY <1>32 DEF vars
  <1>33. CASE CatcherHangs
    BY <1>33 DEF CatcherHangs, Spewing
  <1> QED
    BY <1>1, <1>2, <1>3, <1>4, <1>5, <1>6, <1>7, <1>8, <1>9, <1>10, <1>11, <1>12,
       <1>13, <1>14, <1>15, <1>16, <1>17, <1>18, <1>19, <1>20, <1>21, <1>22, <1>23, <1>24,
       <1>25, <1>26, <1>27, <1>28, <1>29, <1>30, <1>31, <1>32, <1>33
       DEF Next, Main, Rx, Tx

\* The invariant is inductive and holds in every reachable state.
THEOREM Invariance == Spec => []IInv
  <1>1. IInv /\ [Next]_vars => IInv'
    BY FlagsStep, PlacesStep, MutexStep, ThreadsStep, ModulesStep, RadioStep
       DEF IInv, TypeOK
  <1> QED BY InitIInv, <1>1, PTL DEF Spec

\* The threads stay within their programs whatever signals come.
THEOREM TypeCorrect == Spec => []TypeOK
  <1>1. IInv => TypeOK
    BY DEF IInv
  <1> QED BY <1>1, Invariance, PTL

\* The RX and the TX thread never use FFTW, which is not thread safe, at the same
\* time.
THEOREM FftwIsExclusive == Spec => []FftwExclusive
  <1>1. IInv => FftwExclusive
    BY DEF IInv, MutexHeld, FftwExclusive
  <1> QED BY <1>1, Invariance, PTL

\* No module is destroyed while a thread may call it.
THEOREM ModulesAreSafe == Spec => []ModulesOutliveThreads
  <1>1. IInv => ModulesOutliveThreads
    BY DEF IInv
  <1> QED BY <1>1, Invariance, PTL

\* Wherever the signals find the threads, at most one more frame is transmitted,
\* and the radio is silent when the program ends by itself.
THEOREM RadioIsLeftQuiet == Spec => []RadioLeftQuiet
  <1>1. IInv => RadioLeftQuiet
    BY DEF IInv, TypeOK, placeTypeOK, ThreadsFollowMain, RadioFollowsThreads,
           RadioLeftQuiet, LateCap
  <1> QED BY <1>1, Invariance, PTL
=============================================================================
