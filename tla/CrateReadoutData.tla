---------------------------- MODULE CrateReadoutData ---------------------------
(***************************************************************************)
(* What a cycle hands out, for every module list, every buffer size and    *)
(* any number of events, faults and re-configs: the counters stay in step  *)
(* with the modules, the modules and the shadow buffers hold the events    *)
(* that the counters say, and a crate implements EventStream.              *)
(***************************************************************************)
EXTENDS MCCrateReadout, CrateReadoutProofs

-----------------------------------------------------------------------------
(* The counters. *)

LEMMA ScalerStep ==
    TypeOK /\ DeadtimeHeld /\ ReleasedOnce /\ CounterIsScaler /\ [Next]_vars
    => CounterIsScaler'
<1> SUFFICES ASSUME TypeOK, DeadtimeHeld, ReleasedOnce, CounterIsScaler,
                    [Next]_vars
    PROVE  CounterIsScaler'
  OBVIOUS
<1> USE DEF ReleasedOnce, DeadtimeHeld, CounterIsScaler, Go, hwVars, rVars,
      cycVars
<1>1. ASSUME NEW miss \in Faults, Accept(miss) PROVE CounterIsScaler'
  BY <1>1 DEF Accept
<1>2. ASSUME NEW m \in Data, Convert(m) PROVE CounterIsScaler'
  BY <1>2 DEF Convert
<1>3. CASE Trigger
  BY <1>3 DEF Trigger
<1>4. ASSUME NEW m \in Idx, ConfigWrite(m) PROVE CounterIsScaler'
  BY <1>4 DEF ConfigWrite
<1>5. CASE DtEnter
  BY <1>5 DEF DtEnter
<1>6. CASE DtLock
  BY <1>6 DEF DtLock
<1>7. CASE DtSkip
  BY <1>7 DEF DtSkip
<1>8. CASE DtRelock
  BY <1>8 DEF DtRelock
<1>9. CASE DtEnd
  BY <1>9 DEF DtEnd
<1>10. CASE DtState
  BY <1>10 DEF DtState
<1>11. ASSUME NEW m \in Idx, DtOk(m) PROVE CounterIsScaler'
  BY <1>11 DEF DtOk, DtNext
<1>12. ASSUME NEW m \in Idx, DtYield(m) PROVE CounterIsScaler'
  BY <1>12 DEF DtYield
<1>13. ASSUME NEW m \in Idx, DtTimeout(m) PROVE CounterIsScaler'
  BY <1>13 DEF DtTimeout, DtNext
<1>14. ASSUME NEW m \in Idx, DtFail(m) PROVE CounterIsScaler'
  BY <1>14 DEF DtFail, DtNext
<1>15. CASE RoStart
  BY <1>15 DEF RoStart
<1>16. CASE RoRelease
  BY <1>16 DEF RoRelease, dt_release, Release
<1>17. CASE RoSkip
  BY <1>17 DEF RoSkip, RoNext
<1>18. ASSUME NEW m \in Idx, NEW f \in BOOLEAN, RoRead(m, f)
    PROVE  CounterIsScaler'
  BY <1>18 DEF RoRead, RoNext
<1>19. ASSUME NEW m \in Idx, NEW f \in BOOLEAN, RoMergeEnd(m, f)
    PROVE  CounterIsScaler'
  BY <1>19 DEF RoMergeEnd, RoNext
<1>20. ASSUME NEW m \in Idx, RoMergeFull(m) PROVE CounterIsScaler'
  BY <1>20 DEF RoMergeFull, RoNext
<1>21. ASSUME NEW m \in Idx, RoMergeBegin(m) PROVE CounterIsScaler'
  BY <1>21 DEF RoMergeBegin
<1>22. CASE RoEndFail
  BY <1>22 DEF RoEndFail
<1>23. CASE RoEndCheck
  BY <1>23 DEF RoEndCheck
<1>24. CASE RoEndReleased
  BY <1>24 DEF RoEndReleased
<1>25. CASE Fin
  BY <1>25 DEF Fin, SafeToReconfig
<1>26. CASE FinState
  BY <1>26 DEF FinState
<1>27. CASE Return
  BY <1>27 DEF Return
<1>28. ASSUME NEW f \in BOOLEAN, FinReconfig(f) PROVE CounterIsScaler'
  BY <1>28 DEF FinReconfig
<1>29. CASE Deinit
  BY <1>29 DEF Deinit
<1>30. CASE DeinitModules
  BY <1>30 DEF DeinitModules
<1>31. CASE InitRetry
  BY <1>31 DEF InitRetry
<1>32. CASE InitLatch
  BY <1>32 DEF InitLatch, Again
<1>33. ASSUME NEW f \in BOOLEAN, InitModules(f) PROVE CounterIsScaler'
  BY <1>33 DEF InitModules
<1>34. CASE ShZero
  BY <1>34 DEF ShZero
<1>35. CASE ShStop
  BY <1>35 DEF ShStop
<1>36. CASE ShLook
  BY <1>36 DEF ShLook
<1>37. CASE ShLock
  BY <1>37 DEF ShLock
<1>38. CASE ShSkip
  BY <1>38 DEF ShSkip
<1>39. CASE ShUnlock
  BY <1>39 DEF ShUnlock
<1>40. ASSUME NEW m \in Idx, ShBegin(m) PROVE CounterIsScaler'
  BY <1>40 DEF ShBegin
<1>41. ASSUME NEW m \in Idx, ShCopy(m) PROVE CounterIsScaler'
  BY <1>41 DEF ShCopy, ShNext
<1>42. ASSUME NEW m \in Idx, NEW lost \in BOOLEAN, ShFail(m, lost)
    PROVE  CounterIsScaler'
  BY <1>42 DEF ShFail, ShNext, RecordError
<1>43. CASE UNCHANGED vars
  BY <1>43 DEF vars
<1> QED
  BY <1>1, <1>2, <1>3, <1>4, <1>5, <1>6, <1>7, <1>8, <1>9, <1>10, <1>11,
       <1>12, <1>13, <1>14, <1>15, <1>16, <1>17, <1>18, <1>19, <1>20, <1>21,
       <1>22, <1>23, <1>24, <1>25, <1>26, <1>27, <1>28, <1>29, <1>30, <1>31,
       <1>32, <1>33, <1>34, <1>35, <1>36, <1>37, <1>38, <1>39, <1>40, <1>41,
       <1>42, <1>43
  DEF Next, Env, Control, ReadoutThread, ReadoutDt, Readout, Finalize, Reinit,
      ShadowThread

LEMMA GrownStep ==
    TypeOK /\ TriggerNew /\ CounterMoves /\ CounterGrown /\ [Next]_vars
    => CounterGrown'
<1> SUFFICES ASSUME TypeOK, TriggerNew, CounterMoves, CounterGrown, [Next]_vars
    PROVE  CounterGrown'
  OBVIOUS
<1> USE DEF TriggerNew, CounterMoves, CounterGrown, Serving, Go, hwVars, rVars,
      cycVars
<1>a. ms \in Int /\ ctr \in Int /\ cprev \in Int
  BY DEF TypeOK, HwType, CrateType
<1>1. ASSUME NEW miss \in Faults, Accept(miss) PROVE CounterGrown'
  BY <1>1 DEF Accept
<1>2. ASSUME NEW m \in Data, Convert(m) PROVE CounterGrown'
  BY <1>2 DEF Convert
<1>3. CASE Trigger
  BY <1>3 DEF Trigger
<1>4. ASSUME NEW m \in Idx, ConfigWrite(m) PROVE CounterGrown'
  BY <1>4 DEF ConfigWrite
<1>5. CASE DtEnter
  BY <1>5 DEF DtEnter
<1>6. CASE DtLock
  BY <1>6, <1>a DEF DtLock
<1>7. CASE DtSkip
  BY <1>7 DEF DtSkip
<1>8. CASE DtRelock
  BY <1>8 DEF DtRelock
<1>9. CASE DtEnd
  BY <1>9 DEF DtEnd
<1>10. CASE DtState
  BY <1>10 DEF DtState
<1>11. ASSUME NEW m \in Idx, DtOk(m) PROVE CounterGrown'
  BY <1>11 DEF DtOk, DtNext
<1>12. ASSUME NEW m \in Idx, DtYield(m) PROVE CounterGrown'
  BY <1>12 DEF DtYield
<1>13. ASSUME NEW m \in Idx, DtTimeout(m) PROVE CounterGrown'
  BY <1>13 DEF DtTimeout, DtNext
<1>14. ASSUME NEW m \in Idx, DtFail(m) PROVE CounterGrown'
  BY <1>14 DEF DtFail, DtNext
<1>15. CASE RoStart
  BY <1>15 DEF RoStart
<1>16. CASE RoRelease
  BY <1>16 DEF RoRelease, dt_release, Release
<1>17. CASE RoSkip
  BY <1>17 DEF RoSkip, RoNext
<1>18. ASSUME NEW m \in Idx, NEW f \in BOOLEAN, RoRead(m, f)
    PROVE  CounterGrown'
  BY <1>18 DEF RoRead, RoNext
<1>19. ASSUME NEW m \in Idx, NEW f \in BOOLEAN, RoMergeEnd(m, f)
    PROVE  CounterGrown'
  BY <1>19 DEF RoMergeEnd, RoNext
<1>20. ASSUME NEW m \in Idx, RoMergeFull(m) PROVE CounterGrown'
  BY <1>20 DEF RoMergeFull, RoNext
<1>21. ASSUME NEW m \in Idx, RoMergeBegin(m) PROVE CounterGrown'
  BY <1>21 DEF RoMergeBegin
<1>22. CASE RoEndFail
  BY <1>22 DEF RoEndFail
<1>23. CASE RoEndCheck
  BY <1>23 DEF RoEndCheck
<1>24. CASE RoEndReleased
  BY <1>24 DEF RoEndReleased
<1>25. CASE Fin
  BY <1>25 DEF Fin
<1>26. CASE FinState
  BY <1>26 DEF FinState
<1>27. CASE Return
  BY <1>27 DEF Return
<1>28. ASSUME NEW f \in BOOLEAN, FinReconfig(f) PROVE CounterGrown'
  BY <1>28 DEF FinReconfig
<1>29. CASE Deinit
  BY <1>29 DEF Deinit
<1>30. CASE DeinitModules
  BY <1>30 DEF DeinitModules
<1>31. CASE InitRetry
  BY <1>31 DEF InitRetry
<1>32. CASE InitLatch
  BY <1>32 DEF InitLatch, Again
<1>33. ASSUME NEW f \in BOOLEAN, InitModules(f) PROVE CounterGrown'
  BY <1>33 DEF InitModules
<1>34. CASE ShZero
  BY <1>34 DEF ShZero
<1>35. CASE ShStop
  BY <1>35 DEF ShStop
<1>36. CASE ShLook
  BY <1>36 DEF ShLook
<1>37. CASE ShLock
  BY <1>37 DEF ShLock
<1>38. CASE ShSkip
  BY <1>38 DEF ShSkip
<1>39. CASE ShUnlock
  BY <1>39 DEF ShUnlock
<1>40. ASSUME NEW m \in Idx, ShBegin(m) PROVE CounterGrown'
  BY <1>40 DEF ShBegin
<1>41. ASSUME NEW m \in Idx, ShCopy(m) PROVE CounterGrown'
  BY <1>41 DEF ShCopy, ShNext
<1>42. ASSUME NEW m \in Idx, NEW lost \in BOOLEAN, ShFail(m, lost)
    PROVE  CounterGrown'
  BY <1>42 DEF ShFail, ShNext, RecordError
<1>43. CASE UNCHANGED vars
  BY <1>43 DEF vars
<1> QED
  BY <1>1, <1>2, <1>3, <1>4, <1>5, <1>6, <1>7, <1>8, <1>9, <1>10, <1>11,
       <1>12, <1>13, <1>14, <1>15, <1>16, <1>17, <1>18, <1>19, <1>20, <1>21,
       <1>22, <1>23, <1>24, <1>25, <1>26, <1>27, <1>28, <1>29, <1>30, <1>31,
       <1>32, <1>33, <1>34, <1>35, <1>36, <1>37, <1>38, <1>39, <1>40, <1>41,
       <1>42, <1>43
  DEF Next, Env, Control, ReadoutThread, ReadoutDt, Readout, Finalize, Reinit,
      ShadowThread

LEMMA InitReadStep ==
    TypeOK /\ DeadtimeHeld /\ InitRead /\ [Next]_vars => InitRead'
<1> SUFFICES ASSUME TypeOK, DeadtimeHeld, InitRead, [Next]_vars PROVE InitRead'
  OBVIOUS
<1> USE DEF DeadtimeHeld, InitRead, Go, hwVars, modVars, rVars, cycVars
<1>1. ASSUME NEW miss \in Faults, Accept(miss) PROVE InitRead'
  BY <1>1 DEF Accept
<1>2. ASSUME NEW m \in Data, Convert(m) PROVE InitRead'
  <2>1. m \in Idx
    BY DEF Data
  <2>2. ~(rpc = "initLatch" /\ ~cleared)
    BY <1>2, <2>1 DEF Convert
  <2> QED BY <1>2, <2>2 DEF Convert
<1>3. CASE Trigger
  BY <1>3 DEF Trigger
<1>4. ASSUME NEW m \in Idx, ConfigWrite(m) PROVE InitRead'
  BY <1>4 DEF ConfigWrite
<1>5. CASE DtEnter
  BY <1>5 DEF DtEnter
<1>6. CASE DtLock
  BY <1>6 DEF DtLock
<1>7. CASE DtSkip
  BY <1>7 DEF DtSkip
<1>8. CASE DtRelock
  BY <1>8 DEF DtRelock
<1>9. CASE DtEnd
  BY <1>9 DEF DtEnd
<1>10. CASE DtState
  BY <1>10 DEF DtState
<1>11. ASSUME NEW m \in Idx, DtOk(m) PROVE InitRead'
  BY <1>11 DEF DtOk, DtNext
<1>12. ASSUME NEW m \in Idx, DtYield(m) PROVE InitRead'
  BY <1>12 DEF DtYield
<1>13. ASSUME NEW m \in Idx, DtTimeout(m) PROVE InitRead'
  BY <1>13 DEF DtTimeout, DtNext
<1>14. ASSUME NEW m \in Idx, DtFail(m) PROVE InitRead'
  BY <1>14 DEF DtFail, DtNext
<1>15. CASE RoStart
  BY <1>15 DEF RoStart
<1>16. CASE RoRelease
  BY <1>16 DEF RoRelease, dt_release, Release
<1>17. CASE RoSkip
  BY <1>17 DEF RoSkip, RoNext
<1>18. ASSUME NEW m \in Idx, NEW f \in BOOLEAN, RoRead(m, f) PROVE InitRead'
  BY <1>18 DEF RoRead, RoNext
<1>19. ASSUME NEW m \in Idx, NEW f \in BOOLEAN, RoMergeEnd(m, f)
    PROVE  InitRead'
  BY <1>19 DEF RoMergeEnd, RoNext
<1>20. ASSUME NEW m \in Idx, RoMergeFull(m) PROVE InitRead'
  BY <1>20 DEF RoMergeFull, RoNext
<1>21. ASSUME NEW m \in Idx, RoMergeBegin(m) PROVE InitRead'
  BY <1>21 DEF RoMergeBegin
<1>22. CASE RoEndFail
  BY <1>22 DEF RoEndFail
<1>23. CASE RoEndCheck
  BY <1>23 DEF RoEndCheck
<1>24. CASE RoEndReleased
  BY <1>24 DEF RoEndReleased
<1>25. CASE Fin
  BY <1>25 DEF Fin
<1>26. CASE FinState
  BY <1>26 DEF FinState
<1>27. CASE Return
  BY <1>27 DEF Return
<1>28. ASSUME NEW f \in BOOLEAN, FinReconfig(f) PROVE InitRead'
  BY <1>28 DEF FinReconfig
<1>29. CASE Deinit
  BY <1>29 DEF Deinit
<1>30. CASE DeinitModules
  BY <1>30 DEF DeinitModules
<1>31. CASE InitRetry
  BY <1>31 DEF InitRetry
<1>32. CASE InitLatch
  BY <1>32 DEF InitLatch, Again
<1>33. ASSUME NEW f \in BOOLEAN, InitModules(f) PROVE InitRead'
  <2>1. \A m \in Idx : ec'[m] = cnt'[m] /\ pend'[m] = << >>
    BY <1>33 DEF InitModules, Empty
  <2> QED BY <2>1 DEF InitRead
<1>34. CASE ShZero
  BY <1>34 DEF ShZero
<1>35. CASE ShStop
  BY <1>35 DEF ShStop
<1>36. CASE ShLook
  BY <1>36 DEF ShLook
<1>37. CASE ShLock
  BY <1>37 DEF ShLock
<1>38. CASE ShSkip
  BY <1>38 DEF ShSkip
<1>39. CASE ShUnlock
  BY <1>39 DEF ShUnlock
<1>40. ASSUME NEW m \in Idx, ShBegin(m) PROVE InitRead'
  BY <1>40 DEF ShBegin
<1>41. ASSUME NEW m \in Idx, ShCopy(m) PROVE InitRead'
  BY <1>41 DEF ShCopy, ShNext
<1>42. ASSUME NEW m \in Idx, NEW lost \in BOOLEAN, ShFail(m, lost)
    PROVE  InitRead'
  BY <1>42 DEF ShFail, ShNext, RecordError
<1>43. CASE UNCHANGED vars
  BY <1>43 DEF vars
<1> QED
  BY <1>1, <1>2, <1>3, <1>4, <1>5, <1>6, <1>7, <1>8, <1>9, <1>10, <1>11,
       <1>12, <1>13, <1>14, <1>15, <1>16, <1>17, <1>18, <1>19, <1>20, <1>21,
       <1>22, <1>23, <1>24, <1>25, <1>26, <1>27, <1>28, <1>29, <1>30, <1>31,
       <1>32, <1>33, <1>34, <1>35, <1>36, <1>37, <1>38, <1>39, <1>40, <1>41,
       <1>42, <1>43
  DEF Next, Env, Control, ReadoutThread, ReadoutDt, Readout, Finalize, Reinit,
      ShadowThread

LEMMA InLineStep ==
    TypeOK /\ ReleasedOnce /\ InLine /\ InitRead /\ LatchedWhole /\ [Next]_vars
    => InLine'
<1> SUFFICES ASSUME TypeOK, ReleasedOnce, InLine, InitRead, LatchedWhole,
                    [Next]_vars, Kept', NEW k \in Waited
    PROVE  Placed(k)'
  BY DEF InLine
<1> USE DEF Kept, Placed, Seen, Go, hwVars, modVars, rVars, cycVars
<1>a. Kept => Placed(k)
  BY DEF InLine
<1>b. k \in Idx /\ k \in Data
  BY DEF Waited, Data
<1>c. /\ ms \in Int /\ cnt \in [Idx -> Int] /\ off \in [Idx -> Int]
      /\ ec \in [Idx -> Int] /\ pend \in [Idx -> Seq(Nat)]
  BY DEF TypeOK, HwType, ModuleType
<1>d. Len(pend[k]) \in Nat
  BY <1>b, <1>c
<1>1. ASSUME NEW miss \in Faults, Accept(miss) PROVE Placed(k)'
  <2>1. CASE k \in miss
    <3>1. pend'[k] = pend[k] /\ ms' = ms + 1 /\ k \in missed'
      BY <1>1, <2>1, <1>b DEF Accept
    <3>2. Kept
      BY <1>1 DEF Accept
    <3>3. off' = off /\ cnt' = cnt
      BY <1>1 DEF Accept
    <3> QED BY <3>1, <3>2, <3>3, <1>a, <1>b, <1>c, <1>d
  <2>2. CASE k \notin miss
    <3>1. pend'[k] = Append(pend[k], ms + 1) /\ ms' = ms + 1
      BY <1>1, <2>2, <1>b DEF Accept
    <3>2. Len(pend'[k]) = Len(pend[k]) + 1
      BY <3>1, <1>b, <1>c
    <3>3. Kept /\ off' = off /\ cnt' = cnt /\ (k \in missed' <=> k \in missed)
      BY <1>1, <2>2 DEF Accept
    <3> QED BY <3>1, <3>2, <3>3, <1>a, <1>b, <1>c, <1>d
  <2> QED BY <2>1, <2>2
<1>2. ASSUME NEW m \in Data, Convert(m) PROVE Placed(k)'
  <2>1. Kept /\ off' = off /\ ms' = ms /\ missed' = missed
    BY <1>2 DEF Convert
  <2>2. CASE k # m
    <3>1. pend'[k] = pend[k] /\ cnt'[k] = cnt[k]
      BY <1>2, <2>2, <1>b, <1>c DEF Convert
    <3> QED BY <2>1, <3>1, <1>a
  <2>3. CASE k = m
    <3>1. cnt'[k] = cnt[k] + 1 /\ pend'[k] = Tail(pend[k]) /\ pend[k] # << >>
      BY <1>2, <2>3, <1>b, <1>c DEF Convert
    <3>2. Len(pend'[k]) = Len(pend[k]) - 1
      BY <3>1, <1>b, <1>c
    <3>3. cnt[k] \in Int /\ Len(pend[k]) \in Int /\ ms \in Int /\ ms' = ms
      BY <2>1, <1>b, <1>c, <1>d
    <3>4. cnt'[k] + Len(pend'[k]) - ms' = cnt[k] + Len(pend[k]) - ms
      BY <3>1, <3>2, <3>3
    <3> QED BY <2>1, <3>4, <1>a
  <2> QED BY <2>2, <2>3
<1>3. CASE Trigger
  BY <1>3, <1>a DEF Trigger
<1>4. ASSUME NEW m \in Idx, ConfigWrite(m) PROVE Placed(k)'
  BY <1>4, <1>a DEF ConfigWrite
<1>5. CASE DtEnter
  BY <1>5, <1>a DEF DtEnter
<1>6. CASE DtLock
  BY <1>6, <1>a DEF DtLock
<1>7. CASE DtSkip
  BY <1>7, <1>a DEF DtSkip
<1>8. CASE DtRelock
  BY <1>8, <1>a DEF DtRelock
<1>9. CASE DtEnd
  BY <1>9, <1>a DEF DtEnd
<1>10. CASE DtState
  BY <1>10, <1>a DEF DtState
<1>11. ASSUME NEW m \in Idx, DtOk(m) PROVE Placed(k)'
  BY <1>11, <1>a DEF DtOk, DtNext
<1>12. ASSUME NEW m \in Idx, DtYield(m) PROVE Placed(k)'
  BY <1>12, <1>a DEF DtYield
<1>13. ASSUME NEW m \in Idx, DtTimeout(m) PROVE Placed(k)'
  BY <1>13, <1>a DEF DtTimeout, DtNext
<1>14. ASSUME NEW m \in Idx, DtFail(m) PROVE Placed(k)'
  BY <1>14, <1>a DEF DtFail, DtNext
<1>15. CASE RoStart
  BY <1>15, <1>a DEF RoStart
<1>16. CASE RoRelease
  BY <1>16, <1>a DEF RoRelease, dt_release, Release
<1>17. CASE RoSkip
  BY <1>17, <1>a DEF RoSkip, RoNext
<1>18. ASSUME NEW m \in Idx, NEW f \in BOOLEAN, RoRead(m, f) PROVE Placed(k)'
  BY <1>18, <1>a DEF RoRead, RoNext
<1>19. ASSUME NEW m \in Idx, NEW f \in BOOLEAN, RoMergeEnd(m, f)
    PROVE  Placed(k)'
  BY <1>19, <1>a DEF RoMergeEnd, RoNext
<1>20. ASSUME NEW m \in Idx, RoMergeFull(m) PROVE Placed(k)'
  BY <1>20, <1>a DEF RoMergeFull, RoNext
<1>21. ASSUME NEW m \in Idx, RoMergeBegin(m) PROVE Placed(k)'
  BY <1>21, <1>a DEF RoMergeBegin
<1>22. CASE RoEndFail
  BY <1>22, <1>a DEF RoEndFail
<1>23. CASE RoEndCheck
  BY <1>23, <1>a DEF RoEndCheck
<1>24. CASE RoEndReleased
  BY <1>24, <1>a DEF RoEndReleased
<1>25. CASE Fin
  BY <1>25, <1>a DEF Fin, SafeToReconfig
<1>26. CASE FinState
  BY <1>26, <1>a DEF FinState, ReleasedOnce, StateAfterReinit
<1>27. CASE Return
  BY <1>27, <1>a DEF Return
<1>28. ASSUME NEW f \in BOOLEAN, FinReconfig(f) PROVE Placed(k)'
  <2>1. Kept /\ ~cleared /\ Past(k)
    BY <1>28 DEF FinReconfig, ReleasedOnce, Past
  <2>2. off'[k] = off[k]
    <3>1. Whole(k)
      BY <2>1 DEF LatchedWhole
    <3>2. off'[k] = (IF k \in vec THEN ec[k] - ctr ELSE off[k])
      BY <1>28, <1>b DEF FinReconfig, Latch
    <3>3. ctr \in Int
      BY DEF TypeOK, CrateType
    <3> QED BY <3>1, <3>2, <3>3, <1>b, <1>c DEF Whole
  <2>3. UNCHANGED <<ms, pend, cnt, missed>>
    BY <1>28 DEF FinReconfig
  <2> QED BY <2>1, <2>2, <2>3, <1>a
<1>29. CASE Deinit
  BY <1>29, <1>a DEF Deinit
<1>30. CASE DeinitModules
  BY <1>30, <1>a DEF DeinitModules
<1>31. CASE InitRetry
  BY <1>31, <1>a DEF InitRetry
<1>32. CASE InitLatch
  <2>1. ~cleared
    BY <1>32 DEF InitLatch, ReleasedOnce, Again
  <2>2. ec[k] = cnt[k] /\ pend[k] = << >>
    BY <1>32, <2>1, <1>b DEF InitLatch, InitRead
  <2>3. off'[k] = ec[k] - ms /\ UNCHANGED <<ms, pend, cnt>> /\ missed' = {}
    BY <1>32, <1>b DEF InitLatch, Latch
  <2>4. Len(pend'[k]) = 0
    BY <2>2, <2>3
  <2> QED BY <2>2, <2>3, <2>4, <1>b, <1>c
<1>33. ASSUME NEW f \in BOOLEAN, InitModules(f) PROVE Placed(k)'
  BY <1>33, <1>a DEF InitModules
<1>34. CASE ShZero
  BY <1>34, <1>a DEF ShZero
<1>35. CASE ShStop
  BY <1>35, <1>a DEF ShStop
<1>36. CASE ShLook
  BY <1>36, <1>a DEF ShLook
<1>37. CASE ShLock
  BY <1>37, <1>a DEF ShLock
<1>38. CASE ShSkip
  BY <1>38, <1>a DEF ShSkip
<1>39. CASE ShUnlock
  BY <1>39, <1>a DEF ShUnlock
<1>40. ASSUME NEW m \in Idx, ShBegin(m) PROVE Placed(k)'
  BY <1>40, <1>a DEF ShBegin
<1>41. ASSUME NEW m \in Idx, ShCopy(m) PROVE Placed(k)'
  BY <1>41, <1>a DEF ShCopy, ShNext
<1>42. ASSUME NEW m \in Idx, NEW lost \in BOOLEAN, ShFail(m, lost)
    PROVE  Placed(k)'
  BY <1>42, <1>a DEF ShFail, ShNext, RecordError
<1>43. CASE UNCHANGED vars
  BY <1>43, <1>a DEF vars
<1> QED
  BY <1>1, <1>2, <1>3, <1>4, <1>5, <1>6, <1>7, <1>8, <1>9, <1>10, <1>11,
       <1>12, <1>13, <1>14, <1>15, <1>16, <1>17, <1>18, <1>19, <1>20, <1>21,
       <1>22, <1>23, <1>24, <1>25, <1>26, <1>27, <1>28, <1>29, <1>30, <1>31,
       <1>32, <1>33, <1>34, <1>35, <1>36, <1>37, <1>38, <1>39, <1>40, <1>41,
       <1>42, <1>43
  DEF Next, Env, Control, ReadoutThread, ReadoutDt, Readout, Finalize, Reinit,
      ShadowThread

LEMMA WholeStep ==
    TypeOK /\ DeadtimeHeld /\ ReleasedOnce /\ CounterIsScaler /\ InLine
      /\ InitRead /\ LatchedWhole /\ [Next]_vars => LatchedWhole'
<1> SUFFICES ASSUME TypeOK, DeadtimeHeld, ReleasedOnce, CounterIsScaler, InLine,
                    InitRead, LatchedWhole, [Next]_vars, ~cleared',
                    NEW k \in Waited, Past(k)'
    PROVE  Whole(k)'
  BY DEF LatchedWhole
<1> USE DEF Kept, Past, Whole, Go, hwVars, modVars, rVars, cycVars
<1>a. ~cleared /\ Past(k) => Whole(k)
  BY DEF LatchedWhole
<1>b. k \in Idx /\ k \in Int /\ 1 <= k /\ k <= N /\ N \in Int
  BY ListAssumption DEF Waited, Data, Idx, ListAssumption
<1>c. /\ ms \in Int /\ ctr \in Int /\ ri \in Int /\ rpc \in RPCs
      /\ cnt \in [Idx -> Nat] /\ off \in [Idx -> Int]
      /\ ec \in [Idx -> Nat] /\ sdc \in [Idx -> Nat]
      /\ pend \in [Idx -> Seq(Nat)]
  BY ListAssumption DEF TypeOK, HwType, ModuleType, CrateType, ReadoutType,
                        ListAssumption
<1>d. Len(pend[k]) \in Nat
  BY <1>b, <1>c
<1>1. ASSUME NEW miss \in Faults, Accept(miss) PROVE Whole(k)'
  BY <1>1, <1>a DEF Accept, DeadtimeHeld
<1>2. ASSUME NEW m \in Data, Convert(m) PROVE Whole(k)'
  <2>1. ~cleared /\ Past(k) /\ Whole(k)
    BY <1>2, <1>a DEF Convert
  <2>2. CASE k # m
    <3>1. cnt'[k] = cnt[k]
      BY <1>2, <2>2, <1>b, <1>c DEF Convert
    <3> QED BY <1>2, <2>1, <3>1 DEF Convert
  <2>3. CASE k = m
    <3>1. pend[k] # << >>
      BY <1>2, <2>3 DEF Convert
    <3>2. Len(pend[k]) > 0
      BY <3>1, <1>b, <1>c
    <3>3. Placed(k)
      BY <2>1 DEF InLine
    <3>4. ctr = ms
      BY <2>1, <1>c DEF CounterIsScaler, RPCs
    <3>5. cnt[k] - off[k] = ctr
      BY <2>1
    <3> QED BY <3>2, <3>3, <3>4, <3>5, <1>b, <1>c, <1>d DEF Placed, Seen
  <2> QED BY <2>2, <2>3
<1>3. CASE Trigger
  BY <1>3, <1>a DEF Trigger
<1>4. ASSUME NEW m \in Idx, ConfigWrite(m) PROVE Whole(k)'
  BY <1>4, <1>a DEF ConfigWrite
<1>5. CASE DtEnter
  BY <1>5, <1>a DEF DtEnter
<1>6. CASE DtLock
  BY <1>6, <1>a, <1>b DEF DtLock
<1>7. CASE DtSkip
  <2>1. k # ri
    BY <1>7 DEF DtSkip
  <2>2. Past(k)
    BY <1>7, <2>1, <1>b, <1>c DEF DtSkip
  <2> QED BY <1>7, <2>2, <1>a DEF DtSkip
<1>8. CASE DtRelock
  BY <1>8, <1>a DEF DtRelock
<1>9. CASE DtEnd
  BY <1>9, <1>a, <1>b, <1>c DEF DtEnd
<1>10. CASE DtState
  BY <1>10, <1>a DEF DtState
<1>11. ASSUME NEW m \in Idx, DtOk(m) PROVE Whole(k)'
  <2>1. CASE k = m
    <3>1. ec'[k] = cnt[k]
      BY <1>11, <2>1, <1>b, <1>c DEF DtOk
    <3>2. /\ ctr - cnt[k] + off[k] = 0
          /\ k \in Shadow => ctr - sdc[k] + off[k] = 0
      BY <1>11, <2>1 DEF DtOk, InStep, Diff
    <3>3. UNCHANGED <<ctr, cnt, off, sdc>>
      BY <1>11 DEF DtOk, DtNext
    <3>4. cnt[k] \in Int /\ off[k] \in Int /\ sdc[k] \in Int /\ ctr \in Int
      BY <1>b, <1>c
    <3>5. /\ cnt[k] - off[k] = ctr
          /\ k \in Shadow => sdc[k] = cnt[k]
      BY <3>2, <3>4
    <3> QED BY <3>1, <3>3, <3>5
  <2>2. CASE k # m
    <3>1. ec'[k] = ec[k]
      BY <1>11, <2>2, <1>b, <1>c DEF DtOk
    <3>2. /\ ri = m /\ ri' = ri + 1 /\ UNCHANGED <<rpc, cleared>>
          /\ rpc = "dtMod" /\ (~rres' => ~rres)
      BY <1>11 DEF DtOk, DtNext
    <3>3. Past(k) /\ ~cleared
      BY <2>2, <3>2, <1>b, <1>c
    <3> QED BY <1>11, <1>a, <3>1, <3>3 DEF DtOk, DtNext
  <2> QED BY <2>1, <2>2
<1>12. ASSUME NEW m \in Idx, DtYield(m) PROVE Whole(k)'
  <2>1. k # m
    BY <1>12, <1>b, <1>c DEF DtYield
  <2>2. ec'[k] = ec[k]
    BY <1>12, <2>1, <1>b, <1>c DEF DtYield
  <2>3. Past(k) /\ ~cleared
    BY <1>12 DEF DtYield
  <2> QED BY <1>12, <1>a, <2>2, <2>3 DEF DtYield
<1>13. ASSUME NEW m \in Idx, DtTimeout(m) PROVE Whole(k)'
  BY <1>13, <1>a DEF DtTimeout, DtNext
<1>14. ASSUME NEW m \in Idx, DtFail(m) PROVE Whole(k)'
  BY <1>14, <1>a DEF DtFail, DtNext
<1>15. CASE RoStart
  BY <1>15, <1>a DEF RoStart
<1>16. CASE RoRelease
  BY <1>16, <1>a DEF RoRelease, dt_release, Release
<1>17. CASE RoSkip
  BY <1>17, <1>a DEF RoSkip, RoNext
<1>18. ASSUME NEW m \in Idx, NEW f \in BOOLEAN, RoRead(m, f) PROVE Whole(k)'
  BY <1>18, <1>a DEF RoRead, RoNext
<1>19. ASSUME NEW m \in Idx, NEW f \in BOOLEAN, RoMergeEnd(m, f)
    PROVE  Whole(k)'
  BY <1>19, <1>a DEF RoMergeEnd, RoNext
<1>20. ASSUME NEW m \in Idx, RoMergeFull(m) PROVE Whole(k)'
  BY <1>20, <1>a DEF RoMergeFull, RoNext
<1>21. ASSUME NEW m \in Idx, RoMergeBegin(m) PROVE Whole(k)'
  BY <1>21, <1>a DEF RoMergeBegin
<1>22. CASE RoEndFail
  BY <1>22, <1>a DEF RoEndFail
<1>23. CASE RoEndCheck
  BY <1>23, <1>a DEF RoEndCheck
<1>24. CASE RoEndReleased
  BY <1>24, <1>a DEF RoEndReleased
<1>25. CASE Fin
  BY <1>25, <1>a DEF Fin, SafeToReconfig
<1>26. CASE FinState
  BY <1>26, <1>a DEF FinState
<1>27. CASE Return
  BY <1>27, <1>a DEF Return
<1>28. ASSUME NEW f \in BOOLEAN, FinReconfig(f) PROVE Whole(k)'
  BY <1>28, <1>a DEF FinReconfig
<1>29. CASE Deinit
  BY <1>29, <1>a DEF Deinit
<1>30. CASE DeinitModules
  BY <1>30, <1>a DEF DeinitModules
<1>31. CASE InitRetry
  BY <1>31, <1>a DEF InitRetry
<1>32. CASE InitLatch
  <2>1. ec[k] = cnt[k]
    BY <1>32, <1>b DEF InitLatch, InitRead
  <2>2. /\ off'[k] = ec[k] - ms /\ sdc'[k] = ec[k] /\ ctr' = ms
        /\ UNCHANGED <<ec, cnt>>
    BY <1>32, <1>b DEF InitLatch, Latch
  <2> QED BY <2>1, <2>2, <1>b, <1>c
<1>33. ASSUME NEW f \in BOOLEAN, InitModules(f) PROVE Whole(k)'
  BY <1>33, <1>a DEF InitModules
<1>34. CASE ShZero
  BY <1>34, <1>a DEF ShZero
<1>35. CASE ShStop
  BY <1>35, <1>a DEF ShStop
<1>36. CASE ShLook
  BY <1>36, <1>a DEF ShLook
<1>37. CASE ShLock
  BY <1>37, <1>a DEF ShLock
<1>38. CASE ShSkip
  BY <1>38, <1>a DEF ShSkip
<1>39. CASE ShUnlock
  BY <1>39, <1>a DEF ShUnlock
<1>40. ASSUME NEW m \in Idx, ShBegin(m) PROVE Whole(k)'
  BY <1>40, <1>a DEF ShBegin
<1>41. ASSUME NEW m \in Idx, ShCopy(m) PROVE Whole(k)'
  <2>1. Whole(k) /\ UNCHANGED <<ec, cnt, off, ctr>>
    BY <1>41, <1>a DEF ShCopy
  <2>2. sdc'[k] = sdc[k] \/ sdc'[k] = cnt[k]
    BY <1>41, <1>b, <1>c DEF ShCopy
  <2> QED BY <2>1, <2>2
<1>42. ASSUME NEW m \in Idx, NEW lost \in BOOLEAN, ShFail(m, lost)
    PROVE  Whole(k)'
  <2>1. Whole(k) /\ UNCHANGED <<ec, cnt, off, ctr>>
    BY <1>42, <1>a DEF ShFail, RecordError
  <2>2. sdc'[k] = sdc[k] \/ sdc'[k] = cnt[k]
    BY <1>42, <1>b, <1>c DEF ShFail
  <2> QED BY <2>1, <2>2
<1>43. CASE UNCHANGED vars
  BY <1>43, <1>a DEF vars
<1> QED
  BY <1>1, <1>2, <1>3, <1>4, <1>5, <1>6, <1>7, <1>8, <1>9, <1>10, <1>11,
       <1>12, <1>13, <1>14, <1>15, <1>16, <1>17, <1>18, <1>19, <1>20, <1>21,
       <1>22, <1>23, <1>24, <1>25, <1>26, <1>27, <1>28, <1>29, <1>30, <1>31,
       <1>32, <1>33, <1>34, <1>35, <1>36, <1>37, <1>38, <1>39, <1>40, <1>41,
       <1>42, <1>43
  DEF Next, Env, Control, ReadoutThread, ReadoutDt, Readout, Finalize, Reinit,
      ShadowThread

LEMMA CountingInit == Init => Counting
<1> SUFFICES ASSUME Init PROVE Counting
  OBVIOUS
<1>1. CounterIsScaler /\ CounterGrown /\ InitRead /\ LatchedWhole
  BY DEF Init, CounterIsScaler, CounterGrown, Serving, InitRead, LatchedWhole, Past
<1>2. ASSUME NEW m \in Waited PROVE Placed(m)
  BY <1>2 DEF Init, Placed, Seen, Zero, Empty, Waited, Data
<1> QED BY <1>1, <1>2 DEF Counting, InLine

(* The crate counter is the scaler as long as the dead time is on, and the *)
(* module counters are as InLine and LatchedWhole say.                     *)
THEOREM CountersKept == Spec => []Counting
<1>1. Init => ReleasedOnce /\ ReinitPhase /\ TriggerNew /\ CounterMoves
  BY InvInit DEF BuffersApart
<1>2. TypeOK /\ DeadtimeHeld /\ ReleasedOnce /\ TriggerNew /\ CounterMoves
        /\ Counting /\ [Next]_vars => Counting'
  BY ScalerStep, GrownStep, InitReadStep, InLineStep, WholeStep DEF Counting
<1> QED
  BY <1>1, <1>2, CountingInit, TypeCorrect, DeadtimeIsHeld, ReleasedStep,
     ReinitStep, TriggerStep, CounterStep, PTL DEF Spec

(* A crate that is fit for readout between triggers has the counters of    *)
(* all modules that crate_readout_dt waits for in step: whatever           *)
(* re-initialisations, re-configs and failed cycles came before, the       *)
(* counters were latched when no event could come between the module's     *)
(* counter and the scaler.                                                 *)
THEOREM CountersAligned == Spec => []Aligned
<1>1. Counting => Aligned
  <2> SUFFICES ASSUME Counting, rpc \in {"wait", "dtLock"}, state # "REINIT",
                      NEW m \in Waited \ missed
               PROVE  cnt[m] + Len(pend[m]) - ms = off[m]
    BY DEF Aligned
  <2>1. Placed(m)
    BY DEF Counting, InLine, Kept
  <2> QED BY <2>1 DEF Placed, Seen
<1> QED BY <1>1, CountersKept, PTL

-----------------------------------------------------------------------------
(* The events of a range, as a sequence. *)

LEMMA EventsAre ==
    ASSUME NEW a \in Int, NEW b \in Int, a <= b
    PROVE  /\ Events(a, b) \in Seq(Int) /\ Len(Events(a, b)) = b - a
           /\ \A k \in 1..(b - a) : Events(a, b)[k] = a + k
           /\ Events(a, b) = << >> <=> a = b
<1>1. b - a \in Nat /\ \A k \in 1..(b - a) : a + k \in Int
  OBVIOUS
<1>2. Events(a, b) \in Seq(Int) /\ Len(Events(a, b)) = b - a
  BY <1>1 DEF Events
<1>3. \A k \in 1..(b - a) : Events(a, b)[k] = a + k
  BY DEF Events
<1>4. Events(a, b) = << >> <=> Len(Events(a, b)) = 0
  BY <1>2, EmptySeq
<1> QED BY <1>2, <1>3, <1>4

LEMMA EventsOnly ==
    ASSUME NEW a \in Int, NEW b \in Int, a <= b, NEW s \in Seq(Int),
           Len(s) = b - a, \A k \in 1..(b - a) : s[k] = a + k
    PROVE  s = Events(a, b)
<1>1. /\ Events(a, b) \in Seq(Int) /\ Len(Events(a, b)) = b - a
      /\ \A k \in 1..(b - a) : Events(a, b)[k] = a + k
  BY EventsAre
<1>2. \A k \in 1..Len(s) : s[k] = Events(a, b)[k]
  BY <1>1
<1> QED BY <1>1, <1>2, SeqEqual

(* An event is accepted, ... *)
LEMMA EventsAppend ==
    ASSUME NEW a \in Int, NEW b \in Int, a <= b
    PROVE  Append(Events(a, b), b + 1) = Events(a, b + 1)
<1> DEFINE e == Events(a, b)
           s == Append(e, b + 1)
<1>a. e \in Seq(Int) /\ Len(e) = b - a /\ \A k \in 1..(b - a) : e[k] = a + k
  BY EventsAre
<1> HIDE DEF e
<1>1. s \in Seq(Int) /\ Len(s) = b + 1 - a
  BY <1>a
<1>2. ASSUME NEW k \in 1..(b + 1 - a) PROVE s[k] = a + k
  <2>1. CASE k <= b - a
    <3>1. k \in 1..Len(e) /\ e[k] = a + k
      BY <2>1, <1>a
    <3> QED BY <3>1, <1>a
  <2>2. CASE k = Len(e) + 1
    BY <2>2, <1>a
  <2> QED BY <1>a, <2>1, <2>2
<1>3. a <= b + 1 /\ b + 1 \in Int
  OBVIOUS
<1> HIDE DEF s
<1>4. s = Events(a, b + 1)
  BY <1>1, <1>2, <1>3, EventsOnly
<1> QED BY <1>4 DEF s, e

(* ... the oldest one is taken off, ... *)
LEMMA EventsTail ==
    ASSUME NEW a \in Int, NEW b \in Int, a <= b, Events(a, b) # << >>
    PROVE  /\ a + 1 <= b
           /\ Head(Events(a, b)) = a + 1
           /\ Tail(Events(a, b)) = Events(a + 1, b)
<1> DEFINE e == Events(a, b)
           t == Tail(e)
<1>a. /\ e \in Seq(Int) /\ Len(e) = b - a /\ \A k \in 1..(b - a) : e[k] = a + k
      /\ e # << >>
  BY EventsAre
<1> HIDE DEF e
<1>1. a + 1 <= b
  BY <1>a, EmptySeq
<1>2. Head(e) = a + 1
  <2>1. 1 \in 1..(b - a)
    BY <1>1
  <2> QED BY <1>a, <2>1
<1>3. t \in Seq(Int) /\ Len(t) = b - (a + 1)
  BY <1>a, HeadTailProperties
<1>4. ASSUME NEW k \in 1..(b - (a + 1)) PROVE t[k] = a + 1 + k
  <2>1. t[k] = e[k + 1]
    BY <1>a, <1>3, HeadTailProperties
  <2>2. k + 1 \in 1..(b - a)
    BY <1>1
  <2> QED BY <2>1, <2>2, <1>a
<1>5. a + 1 \in Int
  OBVIOUS
<1> HIDE DEF t
<1>6. t = Events(a + 1, b)
  BY <1>1, <1>3, <1>4, <1>5, EventsOnly
<1> QED BY <1>1, <1>2, <1>6 DEF t, e

(* ... one range follows another, ... *)
LEMMA EventsJoin ==
    ASSUME NEW a \in Int, NEW b \in Int, NEW c \in Int, a <= b, b <= c
    PROVE  Events(a, b) \o Events(b, c) = Events(a, c)
<1> DEFINE s == Events(a, b) \o Events(b, c)
<1>1. Events(a, b) \in Seq(Int) /\ Events(b, c) \in Seq(Int)
      /\ Len(Events(a, b)) = b - a /\ Len(Events(b, c)) = c - b
  BY EventsAre
<1>2. s \in Seq(Int) /\ Len(s) = c - a
  BY <1>1, ConcatProperties
<1> HIDE DEF s
<1>3. ASSUME NEW k \in 1..(c - a) PROVE s[k] = a + k
  <2>1. s[k] = IF k <= b - a THEN Events(a, b)[k] ELSE Events(b, c)[k - (b - a)]
    BY <1>1, ConcatProperties DEF s
  <2>2. CASE k <= b - a
    <3>1. k \in 1..(b - a)
      BY <2>2
    <3> QED BY <2>1, <2>2, <3>1 DEF Events
  <2>3. CASE k > b - a
    <3>1. PICK j \in Int : j = k - (b - a)
      OBVIOUS
    <3>2. j \in 1..(c - b) /\ b + j = a + k
      BY <2>3, <3>1
    <3>3. Events(b, c)[j] = b + j
      BY <3>2 DEF Events
    <3>4. s[k] = Events(b, c)[j]
      BY <2>1, <2>3, <3>1
    <3> QED BY <3>2, <3>3, <3>4
  <2> QED BY <2>2, <2>3
<1>4. a <= c
  OBVIOUS
<1>5. s = Events(a, c)
  BY <1>2, <1>3, <1>4, EventsOnly
<1> QED BY <1>5 DEF s

(* ... and what is left after the first n. *)
LEMMA EventsRest ==
    ASSUME NEW a \in Int, NEW b \in Int, NEW n \in Int, a + n <= b, 0 <= n
    PROVE  SubSeq(Events(a, b), n + 1, Len(Events(a, b))) = Events(a + n, b)
<1> DEFINE s == SubSeq(Events(a, b), n + 1, b - a)
<1>0. a <= b
  OBVIOUS
<1>1. /\ Events(a, b) \in Seq(Int) /\ Len(Events(a, b)) = b - a
      /\ \A k \in 1..(b - a) : Events(a, b)[k] = a + k
  BY <1>0, EventsAre
<1>2. \A k \in (n + 1)..(b - a) : Events(a, b)[k] \in Int
  BY <1>1
<1>3. s \in Seq(Int) /\ Len(s) = b - (a + n)
  BY <1>2, SubSeqProperties
<1>4. ASSUME NEW k \in 1..(b - (a + n)) PROVE s[k] = a + n + k
  <2>1. s[k] = Events(a, b)[n + 1 + k - 1]
    <3>1. \A i \in 1..(b - a) - (n + 1) + 1 :
             SubSeq(Events(a, b), n + 1, b - a)[i] = Events(a, b)[n + 1 + i - 1]
      BY <1>2, SubSeqProperties
    <3>2. k \in 1..(b - a) - (n + 1) + 1
      OBVIOUS
    <3> QED BY <3>1, <3>2
  <2>2. n + 1 + k - 1 = n + k /\ n + k \in 1..(b - a)
    OBVIOUS
  <2> QED BY <1>1, <2>1, <2>2
<1>5. a + n \in Int
  OBVIOUS
<1> HIDE DEF s
<1>6. s = Events(a + n, b)
  BY <1>3, <1>4, <1>5, EventsOnly
<1> QED BY <1>1, <1>6 DEF s

(* The first n elements of a buffer that begins with a range. *)
LEMMA EventsFirst ==
    ASSUME NEW a \in Int, NEW n \in Nat, NEW s \in Seq(Nat), n <= Len(s),
           \A k \in 1..n : s[k] = a + k
    PROVE  SubSeq(s, 1, n) = Events(a, a + n)
<1> DEFINE t == SubSeq(s, 1, n)
<1>1. \A k \in 1..n : s[k] \in Int
  OBVIOUS
<1>2. t \in Seq(Int) /\ Len(t) = n
  BY <1>1, SubSeqProperties
<1>3. ASSUME NEW k \in 1..n PROVE t[k] = a + k
  <2>1. \A i \in 1..n - 1 + 1 : SubSeq(s, 1, n)[i] = s[1 + i - 1]
    BY <1>1, SubSeqProperties
  <2>2. k \in 1..n - 1 + 1 /\ 1 + k - 1 = k
    OBVIOUS
  <2> QED BY <2>1, <2>2
<1>4. a <= a + n /\ a + n \in Int /\ a + n - a = n
  OBVIOUS
<1> HIDE DEF t
<1>5. Len(t) = (a + n) - a /\ \A k \in 1..((a + n) - a) : t[k] = a + k
  BY <1>2, <1>3
<1>6. t = Events(a, a + n)
  BY <1>2, <1>4, <1>5, EventsOnly
<1> QED BY <1>6 DEF t
-----------------------------------------------------------------------------
(* What the modules and the buffers hold. *)

LEMMA FreshBuffersStep ==
    TypeOK /\ BuffersFresh /\ [Next]_vars => BuffersFresh'
<1> SUFFICES ASSUME TypeOK, BuffersFresh, [Next]_vars PROVE BuffersFresh'
  OBVIOUS
<1> USE DEF BuffersFresh, ShGo, bufVars, shVars
<1>a. buf \in [Idx \X (0..1) -> Seq(Nat)]
  BY DEF TypeOK, BufferType
<1>1. ASSUME NEW miss \in Faults, Accept(miss) PROVE BuffersFresh'
  BY <1>1 DEF Accept
<1>2. ASSUME NEW m \in Data, Convert(m) PROVE BuffersFresh'
  BY <1>2 DEF Convert
<1>3. CASE Trigger
  BY <1>3 DEF Trigger
<1>4. ASSUME NEW m \in Idx, ConfigWrite(m) PROVE BuffersFresh'
  BY <1>4 DEF ConfigWrite
<1>5. CASE DtEnter
  BY <1>5 DEF DtEnter
<1>6. CASE DtLock
  BY <1>6 DEF DtLock
<1>7. CASE DtSkip
  BY <1>7 DEF DtSkip
<1>8. CASE DtRelock
  BY <1>8 DEF DtRelock
<1>9. CASE DtEnd
  BY <1>9 DEF DtEnd
<1>10. CASE DtState
  BY <1>10 DEF DtState
<1>11. ASSUME NEW m \in Idx, DtOk(m) PROVE BuffersFresh'
  <2>1. \A b \in Idx \X (0..1) : buf[b] = << >> => buf'[b] = << >>
    BY <1>11, <1>a DEF DtOk, DtNext, SwapBuffers
  <2> QED BY <1>11, <2>1 DEF DtOk, DtNext
<1>12. ASSUME NEW m \in Idx, DtYield(m) PROVE BuffersFresh'
  BY <1>12 DEF DtYield
<1>13. ASSUME NEW m \in Idx, DtTimeout(m) PROVE BuffersFresh'
  <2>1. \A b \in Idx \X (0..1) : buf[b] = << >> => buf'[b] = << >>
    BY <1>13, <1>a DEF DtTimeout, DtNext, SwapBuffers
  <2> QED BY <1>13, <2>1 DEF DtTimeout, DtNext
<1>14. ASSUME NEW m \in Idx, DtFail(m) PROVE BuffersFresh'
  <2>1. \A b \in Idx \X (0..1) : buf[b] = << >> => buf'[b] = << >>
    BY <1>14, <1>a DEF DtFail, DtNext, SwapBuffers
  <2> QED BY <1>14, <2>1 DEF DtFail, DtNext
<1>15. CASE RoStart
  BY <1>15 DEF RoStart
<1>16. CASE RoRelease
  BY <1>16 DEF RoRelease, dt_release, Release
<1>17. CASE RoSkip
  BY <1>17 DEF RoSkip, RoNext
<1>18. ASSUME NEW m \in Idx, NEW f \in BOOLEAN, RoRead(m, f)
    PROVE  BuffersFresh'
  BY <1>18 DEF RoRead, RoNext
<1>19. ASSUME NEW m \in Idx, NEW f \in BOOLEAN, RoMergeEnd(m, f)
    PROVE  BuffersFresh'
  BY <1>19 DEF RoMergeEnd, RoNext
<1>20. ASSUME NEW m \in Idx, RoMergeFull(m) PROVE BuffersFresh'
  BY <1>20 DEF RoMergeFull, RoNext
<1>21. ASSUME NEW m \in Idx, RoMergeBegin(m) PROVE BuffersFresh'
  BY <1>21 DEF RoMergeBegin
<1>22. CASE RoEndFail
  BY <1>22 DEF RoEndFail
<1>23. CASE RoEndCheck
  BY <1>23 DEF RoEndCheck
<1>24. CASE RoEndReleased
  BY <1>24 DEF RoEndReleased
<1>25. CASE Fin
  BY <1>25 DEF Fin
<1>26. CASE FinState
  BY <1>26 DEF FinState
<1>27. CASE Return
  BY <1>27 DEF Return
<1>28. ASSUME NEW f \in BOOLEAN, FinReconfig(f) PROVE BuffersFresh'
  BY <1>28 DEF FinReconfig
<1>29. CASE Deinit
  BY <1>29 DEF Deinit
<1>30. CASE DeinitModules
  BY <1>30 DEF DeinitModules
<1>31. CASE InitRetry
  BY <1>31 DEF InitRetry
<1>32. CASE InitLatch
  BY <1>32 DEF InitLatch, Again
<1>33. ASSUME NEW f \in BOOLEAN, InitModules(f) PROVE BuffersFresh'
  BY <1>33 DEF InitModules
<1>34. CASE ShZero
  <2>1. \A b \in Idx \X (0..1) : buf'[b] = << >>
    BY <1>34 DEF ShZero, NoBufs
  <2> QED BY <1>34, <2>1 DEF ShZero
<1>35. CASE ShStop
  BY <1>35 DEF ShStop
<1>36. CASE ShLook
  BY <1>36 DEF ShLook
<1>37. CASE ShLock
  BY <1>37 DEF ShLock
<1>38. CASE ShSkip
  BY <1>38 DEF ShSkip
<1>39. CASE ShUnlock
  BY <1>39 DEF ShUnlock
<1>40. ASSUME NEW m \in Idx, ShBegin(m) PROVE BuffersFresh'
  BY <1>40 DEF ShBegin
<1>41. ASSUME NEW m \in Idx, ShCopy(m) PROVE BuffersFresh'
  BY <1>41 DEF ShCopy, ShNext
<1>42. ASSUME NEW m \in Idx, NEW lost \in BOOLEAN, ShFail(m, lost)
    PROVE  BuffersFresh'
  BY <1>42 DEF ShFail, ShNext, RecordError
<1>43. CASE UNCHANGED vars
  BY <1>43 DEF vars
<1> QED
  BY <1>1, <1>2, <1>3, <1>4, <1>5, <1>6, <1>7, <1>8, <1>9, <1>10, <1>11,
       <1>12, <1>13, <1>14, <1>15, <1>16, <1>17, <1>18, <1>19, <1>20, <1>21,
       <1>22, <1>23, <1>24, <1>25, <1>26, <1>27, <1>28, <1>29, <1>30, <1>31,
       <1>32, <1>33, <1>34, <1>35, <1>36, <1>37, <1>38, <1>39, <1>40, <1>41,
       <1>42, <1>43
  DEF Next, Env, Control, ReadoutThread, ReadoutDt, Readout, Finalize, Reinit,
      ShadowThread

(* read_module takes exactly the batch: what was there when the dead time  *)
(* was on or, from a module that cannot be read later, all there is.       *)
LEMMA TakesBatch ==
    ASSUME Sound, Holding, Waiting, NEW m \in Waited, m \notin Shadow,
           rpc = "roMod", ri = m, m \notin missed, ctr # mprev[m]
    PROVE  /\ mprev[m] + Take(m) = ctr /\ Take(m) \in Nat
           /\ ctr <= Converted(m)
<1>1. m \in Idx /\ m \in Int /\ m \notin SkipDt
  BY ListAssumption DEF Waited, Data, Idx, ListAssumption
<1>2. Held(m)
  BY DEF Holding, Kept
<1>3. /\ mprev[m] = cprev /\ fifo[m] = Events(cprev, Converted(m))
      /\ cprev <= Converted(m)
  BY <1>2 DEF Held, ModuleHolds, ReadUpTo
<1>4. /\ cprev \in Int /\ ctr \in Int /\ Converted(m) \in Int
      /\ lat[m] \in Nat
  BY <1>1 DEF Sound, TypeOK, HwType, ModuleType, CrateType, Converted
<1>5. Len(fifo[m]) = Converted(m) - cprev
  <2>1. cprev <= Converted(m)
    BY <1>3
  <2>2. Len(Events(cprev, Converted(m))) = Converted(m) - cprev
    BY <1>4, <2>1, EventsAre
  <2> QED BY <1>3, <2>2
<1>6. ret = "no"
  BY <1>3 DEF Sound, BuffersApart, CounterMoves, Serving
<1>7. CASE m \in EarlyDt
  <2>1. FirstInModule(m)
    BY <1>1, <1>6 DEF Waiting, Left, Unread
  <2>2. Take(m) = lat[m]
    BY <1>1, <1>4, <1>5, <1>7, <2>1 DEF Take, FirstInModule
  <2> QED BY <1>3, <1>4, <1>5, <2>1, <2>2 DEF FirstInModule
<1>8. CASE m \notin EarlyDt
  <2>1. ~cleared
    BY <1>1, <1>6, <1>8 DEF Sound, LateModulesInDeadtime, Again
  <2>2. Whole(m)
    BY <2>1 DEF Sound, Counting, LatchedWhole, Past, Kept
  <2>3. Converted(m) = ctr
    BY <2>2 DEF Whole, Converted
  <2>4. Take(m) = Len(fifo[m])
    BY <1>8 DEF Take
  <2> QED BY <1>3, <1>4, <1>5, <2>3, <2>4
<1> QED BY <1>7, <1>8

(* Before the shadow thread has run no buffer has been switched in a cycle *)
(* that is still good.                                                     *)
LEMMA FreshSwitch ==
    ASSUME Sound, Kept, spc = "zero", NEW m \in Shadow, m \in Waited
    PROVE  SwitchedAt(m) = cprev
<1>1. NotYetRunning /\ CounterMoves /\ ReinitPhase /\ rpc \in RPCs
      /\ ret \in {"no", "dt", "fin"} /\ m \in Int /\ ri \in Int
  BY ListAssumption DEF Sound, BuffersApart, TypeOK, ReadoutType, Waited, Data,
                        Idx, ListAssumption
<1>2. CASE rpc \in {"dtMod", "dtRelock"}
  <2>1. m >= ri
    BY <1>1, <1>2 DEF Kept, NotYetRunning
  <2> QED BY <1>2, <2>1 DEF SwitchedAt
<1>3. CASE rpc \notin {"dtMod", "dtRelock"}
  <2>1. cprev = ctr
    BY <1>1, <1>3 DEF Kept, NotYetRunning, CounterMoves, Serving, RPCs,
                      ReinitPhase
  <2> QED BY <1>3, <2>1 DEF SwitchedAt
<1> QED BY <1>2, <1>3

LEMMA HoldingStep ==
    Sound /\ NotYetRunning' /\ BuffersFresh /\ Holding /\ Waiting
      /\ Shadow \cap SkipDt = {} /\ [Next]_vars => Holding'
<1> SUFFICES ASSUME Sound, BuffersFresh, Holding, Waiting,
                    Shadow \cap SkipDt = {}, [Next]_vars,
                    Kept', NEW k \in Waited, k \notin missed'
    PROVE  Held(k)'
  BY DEF Holding
<1> USE DEF Kept, Held, Converting, ModuleHolds, ShadowHolds, ReadUpTo,
      SwitchedAt, Converted, Copied, Go, ShGo, hwVars, modVars, bufVars, rVars,
      cycVars, shVars
<1>a. Kept /\ k \notin missed => Held(k)
  BY DEF Holding
<1>b. /\ k \in Idx /\ k \in Data /\ k \in Int /\ 1 <= k /\ k <= N /\ N \in Int
      /\ k \notin Silent /\ k \notin SkipDt
  BY ListAssumption DEF Waited, Data, Idx, ListAssumption
<1>c. /\ ms \in Nat /\ ctr \in Nat /\ cprev \in Nat /\ ri \in Int /\ rpc \in RPCs
      /\ cnt \in [Idx -> Nat] /\ off \in [Idx -> Int]
      /\ ec \in [Idx -> Nat] /\ sdc \in [Idx -> Nat] /\ mprev \in [Idx -> Nat]
      /\ pend \in [Idx -> Seq(Nat)] /\ fifo \in [Idx -> Seq(Nat)]
      /\ result \in [Idx -> BOOLEAN] /\ idx \in [Idx -> 0..1]
      /\ buf \in [Idx \X (0..1) -> Seq(Nat)]
  BY ListAssumption DEF Sound, TypeOK, HwType, ModuleType, CrateType, BufferType,
                        ReadoutType, ListAssumption
<1>d. /\ cnt[k] \in Int /\ off[k] \in Int /\ sdc[k] \in Int /\ mprev[k] \in Int
      /\ Converted(k) \in Int /\ Copied(k) \in Int
      /\ <<k, idx[k]>> \in Idx \X (0..1)
  BY <1>b, <1>c
<1>1. ASSUME NEW miss \in Faults, Accept(miss) PROVE Held(k)'
  <2>1. Kept /\ k \notin missed /\ k \notin miss /\ Held(k)
    BY <1>1, <1>a DEF Accept
  <2>2. pend'[k] = Append(pend[k], ms + 1) /\ ms' = ms + 1
    BY <1>1, <2>1, <1>b DEF Accept
  <2>3. Append(Events(Converted(k), ms), ms + 1) = Events(Converted(k), ms + 1)
    <3> DEFINE c == Converted(k)
    <3>1. c \in Int /\ ms \in Int /\ c <= ms
      BY <2>1, <1>c, <1>d
    <3> HIDE DEF c
    <3>2. Append(Events(c, ms), ms + 1) = Events(c, ms + 1)
      BY <3>1, EventsAppend
    <3> QED BY <3>2 DEF c
  <2>4. pend'[k] = Events(Converted(k), ms')
    <3>1. pend[k] = Events(Converted(k), ms)
      BY <2>1
    <3> QED BY <2>2, <2>3, <3>1
  <2>5. Converted(k) <= ms'
    <3>1. Converted(k) <= ms
      BY <2>1
    <3> QED BY <2>2, <3>1, <1>c, <1>d
  <2> QED BY <1>1, <2>1, <2>4, <2>5 DEF Accept
<1>2. ASSUME NEW m \in Data, Convert(m) PROVE Held(k)'
  <2>1. Kept /\ k \notin missed /\ Held(k)
    BY <1>2, <1>a DEF Convert
  <2>2. CASE k # m
    <3>1. pend'[k] = pend[k] /\ cnt'[k] = cnt[k] /\ fifo'[k] = fifo[k]
      BY <1>2, <2>2, <1>b, <1>c DEF Convert
    <3> QED BY <1>2, <2>1, <3>1 DEF Convert
  <2>3. CASE k = m
    <3> DEFINE c == Converted(k)
    <3>1. /\ pend[k] # << >> /\ pend'[k] = Tail(pend[k])
          /\ fifo'[k] = Append(fifo[k], Head(pend[k])) /\ cnt'[k] = cnt[k] + 1
          /\ UNCHANGED <<off, ms, mprev, sdc, result, idx, buf, spc, ctr, cprev,
                         rpc, ri>>
      BY <1>2, <2>3, <1>b, <1>c DEF Convert
    <3>2. Converted(k)' = c + 1 /\ Copied(k)' = Copied(k) /\ c \in Int
      BY <3>1, <1>d
    <3>3. pend[k] = Events(c, ms) /\ c <= ms
      BY <2>1
    <3> HIDE DEF c
    <3>4. c + 1 <= ms /\ Head(pend[k]) = c + 1 /\ pend'[k] = Events(c + 1, ms)
      <4>1. ms \in Int /\ c \in Int /\ Events(c, ms) # << >>
        BY <3>1, <3>2, <3>3, <1>c
      <4>2. /\ c + 1 <= ms /\ Head(Events(c, ms)) = c + 1
            /\ Tail(Events(c, ms)) = Events(c + 1, ms)
        BY <3>3, <4>1, EventsTail
      <4> QED BY <3>1, <3>3, <4>2
    <3>5. Converting(k)'
      BY <3>1, <3>2, <3>4
    <3>6. CASE k \notin Shadow
      <4>1. fifo[k] = Events(mprev[k], c) /\ mprev[k] <= c
        BY <2>1, <3>6 DEF c
      <4>2. Append(Events(mprev[k], c), c + 1) = Events(mprev[k], c + 1)
        BY <3>2, <4>1, <1>d, EventsAppend
      <4>3. ModuleHolds(k)'
        BY SMTT(30), <2>1, <3>1, <3>2, <3>4, <3>6, <4>1, <4>2, <1>d
      <4> QED BY <3>5, <3>6, <4>3
    <3>7. CASE k \in Shadow /\ ~result[k]
      <4> DEFINE d == Copied(k)
      <4>1. fifo[k] = Events(d, c) /\ d <= c /\ d \in Int
        BY <2>1, <3>7, <1>d DEF c
      <4>a. Copied(k)' = d
        BY <3>2
      <4> HIDE DEF d
      <4>b. Append(Events(d, c), c + 1) = Events(d, c + 1)
        BY <3>2, <4>1, EventsAppend
      <4>c. fifo'[k] = Events(d, c + 1) /\ d <= c + 1
        BY <3>1, <3>2, <3>4, <4>1, <4>b
      <4>2. fifo'[k] = Events(Copied(k)', c + 1) /\ Copied(k)' <= c + 1
        BY <4>a, <4>c
      <4>3. ShadowHolds(k)'
        BY <2>1, <3>1, <3>2, <3>7, <4>2
      <4> QED BY <3>5, <3>7, <4>3
    <3> QED BY <3>1, <3>5, <3>6, <3>7
  <2> QED BY <2>2, <2>3
<1>3. CASE Trigger
  BY <1>3, <1>a DEF Trigger
<1>4. ASSUME NEW m \in Idx, ConfigWrite(m) PROVE Held(k)'
  BY <1>4, <1>a DEF ConfigWrite
<1>5. CASE DtEnter
  BY <1>5, <1>a DEF DtEnter
<1>6. CASE DtLock
  <2>1. cprev = ctr
    BY <1>6 DEF DtLock, Sound, BuffersApart, CounterMoves, Serving
  <2> QED BY <1>6, <1>a, <1>b, <2>1 DEF DtLock
<1>7. CASE DtSkip
  <2>1. k # ri
    BY <1>7 DEF DtSkip
  <2>2. ReadUpTo(k)' = ReadUpTo(k) /\ SwitchedAt(k)' = SwitchedAt(k)
    BY SMTT(30), <1>7, <1>b, <1>c, <2>1 DEF DtSkip
  <2> QED BY <1>7, <1>a, <2>2 DEF DtSkip
<1>8. CASE DtRelock
  BY <1>8, <1>a DEF DtRelock
<1>9. CASE DtEnd
  BY <1>9, <1>a, <1>b, <1>c DEF DtEnd
<1>10. CASE DtState
  BY <1>10, <1>a DEF DtState
<1>11. ASSUME NEW m \in Idx, DtOk(m) PROVE Held(k)'
  <2>1. Kept /\ k \notin missed /\ Held(k)
    BY <1>11, <1>a DEF DtOk, DtNext
  <2>2. CASE k # m
    <3>1. <<k, idx[k]>> # <<m, OtherIdx(idx[m])>>
      BY <2>2
    <3>2. idx'[k] = idx[k] /\ buf'[<<k, idx[k]>>] = buf[<<k, idx[k]>>]
      BY <1>11, <2>2, <3>1, <1>c, <1>d DEF DtOk, DtNext, SwapBuffers
    <3>3. result'[k] = result[k]
      BY <1>11, <2>2, <1>b, <1>c DEF DtOk, DtNext
    <3>4. ReadUpTo(k)' = ReadUpTo(k) /\ SwitchedAt(k)' = SwitchedAt(k)
      BY SMTT(30), <1>11, <2>2, <1>b, <1>c DEF DtOk, DtNext
    <3>5. UNCHANGED <<ms, pend, cnt, off, fifo, mprev, sdc, spc>>
      BY <1>11 DEF DtOk, DtNext
    <3> QED BY <2>1, <3>2, <3>3, <3>4, <3>5
  <2>3. CASE k = m
    <3>1. /\ result'[k] = result[k] \/ result'[k]
          /\ UNCHANGED <<ms, pend, cnt, off, fifo, mprev, sdc, spc, rpc, ctr, cprev>>
          /\ ri = k /\ ri' = k + 1 /\ rpc = "dtMod"
      BY <1>11, <2>3, <1>b, <1>c DEF DtOk, DtNext
    <3>2. Converting(k)'
      BY <2>1, <3>1
    <3>3. CASE k \notin Shadow
      <4>1. ReadUpTo(k)' = ReadUpTo(k)
        BY <3>1
      <4> QED BY <2>1, <3>1, <3>2, <3>3, <4>1
    <3>4. CASE k \in Shadow /\ ~result'[k]
      <4>1. Copied(k) = ctr /\ Converted(k) = ctr
        BY SMTT(30), <1>11, <2>3, <3>4, <1>c, <1>d DEF DtOk, InStep, Diff
      <4>2. ~result[k]
        BY <1>11, <2>3, <3>4, <1>b, <1>c DEF DtOk, DtNext
      <4>3. /\ idx' = [idx EXCEPT ![k] = OtherIdx(idx[k])]
            /\ buf' = [buf EXCEPT ![<<k, OtherIdx(idx[k])>>] = << >>]
        BY <1>11, <2>3, <3>4 DEF DtOk, DtNext, SwapBuffers
      <4>a. idx[k] \in 0..1 /\ idx'[k] = OtherIdx(idx[k])
        BY <4>3, <1>b, <1>c
      <4>b. OtherIdx(idx[k]) \in 0..1
        BY <4>a DEF OtherIdx
      <4>4. idx'[k] = OtherIdx(idx[k]) /\ <<k, OtherIdx(idx[k])>> \in Idx \X (0..1)
        BY <4>a, <4>b, <1>b
      <4>5. buf'[<<k, idx'[k]>>] = << >>
        BY <4>3, <4>4, <1>c
      <4>6. SwitchedAt(k)' = ctr /\ Events(ctr, ctr) = << >>
        BY <3>1, <1>b, <1>c, EventsAre
      <4>7. fifo[k] = Events(Copied(k), Converted(k))
        BY <2>1, <3>4, <4>2
      <4>8. Copied(k)' = Copied(k) /\ Converted(k)' = Converted(k)
        BY <3>1
      <4>9. ShadowHolds(k)'
        <5>1. SwitchedAt(k)' =< Copied(k)' /\ Copied(k)' =< Converted(k)'
          BY SMTT(30), <4>1, <4>6, <4>8, <1>c
        <5>2. fifo'[k] = Events(Copied(k), Converted(k))'
          BY <3>1, <4>7, <4>8
        <5>3. buf'[<<k, idx'[k]>>] = Events(SwitchedAt(k), Copied(k))'
          BY <4>1, <4>5, <4>6, <4>8
        <5> QED BY <5>1, <5>2, <5>3
      <4> QED BY <3>2, <3>4, <4>9
    <3> QED BY <3>2, <3>3, <3>4
  <2> QED BY <2>2, <2>3
<1>12. ASSUME NEW m \in Idx, DtYield(m) PROVE Held(k)'
  BY <1>12, <1>a DEF DtYield
<1>13. ASSUME NEW m \in Idx, DtTimeout(m) PROVE Held(k)'
  BY <1>13 DEF DtTimeout, DtNext
<1>14. ASSUME NEW m \in Idx, DtFail(m) PROVE Held(k)'
  BY <1>14 DEF DtFail, DtNext
<1>15. CASE RoStart
  <2>1. rpc' = "fin" => state = "REINIT"
    BY <1>15 DEF RoStart, Sound, Counting, CounterGrown, TypeOK, CrateType
  <2> QED BY <1>15, <1>a, <1>b, <2>1 DEF RoStart
<1>16. CASE RoRelease
  BY <1>16, <1>a DEF RoRelease, dt_release, Release
<1>17. CASE RoSkip
  <2>1. k # ri
    BY <1>17, <1>b DEF RoSkip
  <2> QED BY <1>17, <1>a, <1>b, <1>c, <2>1 DEF RoSkip, RoNext
<1>18. ASSUME NEW m \in Idx, NEW f \in BOOLEAN, RoRead(m, f) PROVE Held(k)'
  <2>1. Kept /\ k \notin missed /\ Held(k)
    BY <1>18, <1>a DEF RoRead
  <2>2. CASE k # m
    <3>1. fifo'[k] = fifo[k] /\ mprev'[k] = mprev[k] /\ result'[k] = result[k]
      BY <1>18, <2>2, <1>b, <1>c DEF RoRead
    <3>2. ReadUpTo(k)' = ReadUpTo(k) /\ SwitchedAt(k)' = SwitchedAt(k)
      BY SMTT(30), <1>18, <2>2, <1>b, <1>c DEF RoRead, RoNext
    <3>3. UNCHANGED <<ms, pend, cnt, off, sdc, spc, idx, buf>>
      BY <1>18 DEF RoRead
    <3> QED BY <2>1, <3>1, <3>2, <3>3
  <2>3. CASE k = m
    <3>1. /\ k \notin Shadow /\ ri = k /\ ri' = k + 1 /\ rpc = "roMod"
          /\ rpc' = "roRelease" /\ mprev[k] = cprev
      BY <1>18, <2>1, <2>3, <1>b, <1>c DEF RoRead, RoNext
    <3>2. UNCHANGED <<ms, pend, cnt, off, ctr, cprev>> /\ ReadUpTo(k)' = ctr
      BY <1>18, <3>1, <1>b DEF RoRead, RoNext
    <3>3. CASE ctr = mprev[m]
      BY <1>18, <2>1, <2>3, <3>1, <3>2, <3>3 DEF RoRead, RoNext
    <3>4. CASE ctr # mprev[m]
      <4>1. /\ fifo'[k] = SubSeq(fifo[k], Take(k) + 1, Len(fifo[k]))
            /\ mprev'[k] = ctr
        BY <1>18, <2>3, <3>4, <1>b, <1>c DEF RoRead
      <4>2. mprev[k] + Take(k) = ctr /\ Take(k) \in Nat /\ ctr <= Converted(k)
        BY <2>1, <2>3, <3>1, <3>4, TakesBatch
      <4>3. /\ fifo[k] = Events(mprev[k], Converted(k))
            /\ mprev[k] <= Converted(k)
        BY <2>1, <3>1
      <4>5. fifo'[k] = Events(ctr, Converted(k))
        <5> DEFINE a == mprev[k]
                   b == Converted(k)
                   n == Take(k)
        <5>1. a \in Int /\ b \in Int /\ n \in Int /\ a + n <= b /\ 0 <= n
              /\ a + n = ctr
          BY <4>2, <1>c, <1>d
        <5>2. fifo[k] = Events(a, b)
          BY <4>3
        <5> HIDE DEF a, b, n
        <5>3. SubSeq(Events(a, b), n + 1, Len(Events(a, b))) = Events(a + n, b)
          BY <5>1, EventsRest
        <5>4. fifo'[k] = SubSeq(fifo[k], n + 1, Len(fifo[k]))
          BY <4>1 DEF n
        <5>5. fifo'[k] = Events(ctr, b)
          BY <5>1, <5>2, <5>3, <5>4
        <5> QED BY <5>5 DEF b
      <4>6. ModuleHolds(k)'
        BY <3>2, <4>1, <4>2, <4>5
      <4> QED BY <2>1, <3>1, <3>2, <4>6
    <3> QED BY <3>3, <3>4
  <2> QED BY <2>2, <2>3
<1>19. ASSUME NEW m \in Idx, NEW f \in BOOLEAN, RoMergeEnd(m, f)
    PROVE  Held(k)'
  <2>1. k # ri \/ k \in Shadow
    BY <1>19 DEF RoMergeEnd
  <2>2. /\ k \notin Shadow => ReadUpTo(k)' = ReadUpTo(k)
        /\ SwitchedAt(k)' = SwitchedAt(k)
    BY SMTT(30), <1>19, <1>b, <1>c, <2>1 DEF RoMergeEnd, RoNext
  <2> QED BY <1>19, <1>a, <2>2 DEF RoMergeEnd, RoNext
<1>20. ASSUME NEW m \in Idx, RoMergeFull(m) PROVE Held(k)'
  <2>1. k # ri \/ k \in Shadow
    BY <1>20 DEF RoMergeFull
  <2>2. /\ k \notin Shadow => ReadUpTo(k)' = ReadUpTo(k)
        /\ SwitchedAt(k)' = SwitchedAt(k)
    BY SMTT(30), <1>20, <1>b, <1>c, <2>1 DEF RoMergeFull, RoNext
  <2> QED BY <1>20, <1>a, <2>2 DEF RoMergeFull, RoNext
<1>21. ASSUME NEW m \in Idx, RoMergeBegin(m) PROVE Held(k)'
  BY <1>21, <1>a DEF RoMergeBegin
<1>22. CASE RoEndFail
  BY <1>22, <1>a, <1>b, <1>c DEF RoEndFail
<1>23. CASE RoEndCheck
  BY <1>23, <1>a, <1>b, <1>c DEF RoEndCheck
<1>24. CASE RoEndReleased
  BY <1>24, <1>a, <1>b, <1>c DEF RoEndReleased
<1>25. CASE Fin
  BY <1>25, <1>a DEF Fin, SafeToReconfig
<1>26. CASE FinState
  BY <1>26, <1>a DEF FinState, StateAfterReinit, Sound, BuffersApart,
       ReleasedOnce
<1>27. CASE Return
  BY <1>27, <1>a DEF Return
<1>28. ASSUME NEW f \in BOOLEAN, FinReconfig(f) PROVE Held(k)'
  <2>1. Kept /\ k \notin missed /\ Held(k) /\ ~cleared /\ Past(k)
    BY <1>28, <1>a DEF FinReconfig, Sound, BuffersApart, ReleasedOnce, Past
  <2>2. Whole(k)
    BY <2>1 DEF Sound, Counting, LatchedWhole
  <2>3. /\ off'[k] = (IF k \in vec THEN ec[k] - ctr ELSE off[k])
        /\ sdc'[k] = (IF k \in vec THEN ec[k] ELSE sdc[k])
        /\ fifo'[k] = (IF k \in vec THEN << >> ELSE fifo[k])
    BY <1>28, <1>b DEF FinReconfig, Latch
  <2>4. UNCHANGED <<ms, pend, cnt, mprev, result, idx, buf, spc, ctr>>
    BY <1>28 DEF FinReconfig
  <2>5. off'[k] = off[k] /\ (k \in Shadow => sdc'[k] = sdc[k])
    BY <2>2, <2>3, <1>c, <1>d DEF Whole
  <2>6. Converted(k)' = Converted(k) /\ Converted(k) = ctr
    BY SMTT(30), <2>2, <2>4, <2>5 DEF Whole
  <2>7. ReadUpTo(k) = ctr /\ ReadUpTo(k)' = ctr /\ SwitchedAt(k) = ctr
        /\ SwitchedAt(k)' = ctr
    BY SMTT(30), <1>28, <2>4 DEF FinReconfig
  <2>8. Events(ctr, ctr) = << >>
    BY <1>c, EventsAre
  <2>9. CASE k \notin Shadow
    <3>1. fifo[k] = << >>
      BY <2>1, <2>6, <2>7, <2>8, <2>9
    <3>2. fifo'[k] = fifo[k]
      BY <2>3, <3>1
    <3> QED BY <2>1, <2>4, <2>5, <2>6, <2>7, <2>9, <3>2
  <2>10. CASE k \in Shadow
    <3>1. ~result[k] => fifo[k] = << >>
      BY <2>1, <2>2, <2>6, <2>8, <2>10 DEF Whole
    <3>2. ~result[k] => fifo'[k] = fifo[k]
      BY <2>3, <3>1
    <3> QED BY <2>1, <2>4, <2>5, <2>6, <2>7, <2>10, <3>2
  <2> QED BY <2>9, <2>10
<1>29. CASE Deinit
  BY <1>29, <1>a DEF Deinit
<1>30. CASE DeinitModules
  BY <1>30, <1>a DEF DeinitModules
<1>31. CASE InitRetry
  BY <1>31, <1>a DEF InitRetry
<1>32. CASE InitLatch
  <2>1. ~cleared
    BY <1>32 DEF InitLatch, Sound, BuffersApart, ReleasedOnce, Again
  <2>2. ec[k] = cnt[k] /\ pend[k] = << >>
    BY <1>32, <2>1, <1>b DEF InitLatch, Sound, Counting, InitRead
  <2>3. /\ off'[k] = ec[k] - ms /\ sdc'[k] = ec[k] /\ ctr' = ms /\ cprev' = ms
        /\ mprev'[k] = ms /\ UNCHANGED <<ms, pend, cnt, fifo>>
    BY <1>32, <1>b DEF InitLatch, Latch
  <2>4. fifo[k] = << >>
    BY <1>32, <1>b DEF InitLatch, NotEmpty
  <2>5. Converted(k)' = ms /\ Copied(k)' = ms /\ Events(ms, ms) = << >>
    <3>1. Converted(k)' = ms /\ Copied(k)' = ms
      BY <2>2, <2>3, <1>b, <1>c
    <3>2. ms \in Int /\ ms <= ms
      BY <1>c
    <3> QED BY <3>1, <3>2, EventsAre
  <2>6. ReadUpTo(k)' = ms /\ SwitchedAt(k)' = ms
    BY <1>32, <2>3 DEF InitLatch
  <2>7. Converting(k)' /\ ModuleHolds(k)'
    BY <2>2, <2>3, <2>4, <2>5, <2>6, <1>c
  <2>8. k \in Shadow => ShadowHolds(k)'
    <3>1. k \in Shadow => spc' = "zero"
      BY <1>32 DEF InitLatch, Shadow
    <3> QED BY <2>3, <2>4, <2>5, <2>6, <3>1, <1>c
  <2> QED BY <2>7, <2>8
<1>33. ASSUME NEW f \in BOOLEAN, InitModules(f) PROVE Held(k)'
  BY <1>33, <1>a DEF InitModules
<1>34. CASE ShZero
  <2>1. Kept /\ k \notin missed /\ Held(k)
    BY <1>34, <1>a DEF ShZero
  <2>2. CASE k \in Shadow /\ ~result[k]
    <3>1. Copied(k) = cprev
      <4>1. off[k] + cprev = sdc[k]
        BY <1>34, <2>1, <2>2 DEF ShZero, Sound, BuffersApart, NotYetRunning
      <4> QED BY <4>1, <1>c, <1>d
    <3>2. SwitchedAt(k) = cprev
      BY <1>34, <2>1, <2>2, <1>b, <1>c, FreshSwitch DEF ShZero
    <3>3. idx'[k] = 0 /\ <<k, 0>> \in Idx \X (0..1) /\ buf'[<<k, idx'[k]>>] = << >>
      BY <1>34, <1>b DEF ShZero, Zero, NoBufs
    <3>4. Events(cprev, cprev) = << >>
      BY <1>c, EventsAre
    <3> QED BY <1>34, <2>1, <2>2, <3>1, <3>2, <3>3, <3>4 DEF ShZero
  <2> QED BY <1>34, <2>1, <2>2 DEF ShZero
<1>35. CASE ShStop
  BY <1>35, <1>a DEF ShStop
<1>36. CASE ShLook
  BY <1>36, <1>a DEF ShLook
<1>37. CASE ShLock
  <2>1. buf'[<<k, idx[k]>>] = buf[<<k, idx[k]>>]
    BY <1>37, <1>d DEF ShLock, BuffersFresh, NoBufs
  <2> QED BY <1>37, <1>a, <2>1 DEF ShLock
<1>38. CASE ShSkip
  BY <1>38, <1>a DEF ShSkip
<1>39. CASE ShUnlock
  BY <1>39, <1>a DEF ShUnlock
<1>40. ASSUME NEW m \in Idx, ShBegin(m) PROVE Held(k)'
  BY <1>40, <1>a DEF ShBegin
<1>41. ASSUME NEW m \in Idx, ShCopy(m) PROVE Held(k)'
  <2>1. Kept /\ k \notin missed /\ Held(k)
    BY <1>41, <1>a DEF ShCopy
  <2>2. m \in Shadow /\ sbuf = idx[m]
    BY <1>41 DEF ShCopy, Sound, BuffersApart, OwnBuffer
  <2>3. CASE k # m
    <3>1. <<k, idx[k]>> # <<m, sbuf>>
      BY <2>3
    <3>2. /\ fifo'[k] = fifo[k] /\ sdc'[k] = sdc[k]
          /\ buf'[<<k, idx[k]>>] = buf[<<k, idx[k]>>]
      BY <1>41, <2>3, <3>1, <1>b, <1>c, <1>d DEF ShCopy
    <3> QED BY <1>41, <2>1, <3>2 DEF ShCopy, ShNext
  <2>4. CASE k = m
    <3>1. /\ fifo'[k] = << >>
          /\ buf'[<<k, idx[k]>>] = buf[<<k, idx[k]>>] \o fifo[k]
          /\ sdc'[k] = (IF fifo[k] = << >> THEN sdc[k] ELSE cnt[k])
          /\ UNCHANGED <<ms, pend, cnt, off, result, idx, ctr, cprev, rpc, ri>>
          /\ spc = "copy"
      BY <1>41, <2>2, <2>4, <1>b, <1>c, <1>d DEF ShCopy
    <3>2. CASE ~result[k]
      <4>1. /\ SwitchedAt(k) <= Copied(k) /\ Copied(k) <= Converted(k)
            /\ fifo[k] = Events(Copied(k), Converted(k))
            /\ buf[<<k, idx[k]>>] = Events(SwitchedAt(k), Copied(k))
        BY <2>1, <2>2, <2>4, <3>1, <3>2
      <4>3. SwitchedAt(k) \in Int /\ SwitchedAt(k)' = SwitchedAt(k)
        BY <3>1, <1>c
      <4> DEFINE a == SwitchedAt(k)
                 b == Copied(k)
                 c == Converted(k)
      <4>a. a \in Int /\ b \in Int /\ c \in Int /\ a <= b /\ b <= c
        BY <4>1, <4>3, <1>d
      <4>b. fifo[k] = Events(b, c) /\ buf[<<k, idx[k]>>] = Events(a, b)
        BY <4>1
      <4>c. b = sdc[k] - off[k] /\ c = cnt[k] - off[k]
        OBVIOUS
      <4> HIDE DEF a, b, c
      <4>d. fifo[k] = << >> => b = c
        BY <4>a, <4>b, EventsAre
      <4>e. Events(a, b) \o Events(b, c) = Events(a, c)
        BY <4>a, EventsJoin
      <4>f. Events(c, c) = << >>
        BY <4>a, EventsAre
      <4>2. Copied(k)' = c /\ Converted(k)' = c
        BY <3>1, <4>c, <4>d
      <4>4. buf'[<<k, idx[k]>>] = Events(a, c)
        BY <3>1, <4>b, <4>e
      <4>6. ShadowHolds(k)'
        <5>1. SwitchedAt(k)' = a
          BY <4>3 DEF a
        <5>2. a <= c
          BY <4>a
        <5> QED BY <3>1, <4>a, <4>2, <4>4, <4>f, <5>1, <5>2
      <4> QED BY <2>1, <2>2, <2>4, <3>1, <4>6
    <3> QED BY <2>1, <2>2, <2>4, <3>1, <3>2
  <2> QED BY <2>3, <2>4
<1>42. ASSUME NEW m \in Idx, NEW lost \in BOOLEAN, ShFail(m, lost)
    PROVE  Held(k)'
  <2>1. Kept /\ k \notin missed /\ Held(k)
    BY <1>42, <1>a DEF ShFail, RecordError
  <2>2. m \in Shadow
    BY <1>42 DEF ShFail, Sound, BuffersApart, OwnBuffer
  <2>3. CASE k # m
    <3>1. <<k, idx[k]>> # <<m, sbuf>>
      BY <2>3
    <3>2. /\ fifo'[k] = fifo[k] /\ sdc'[k] = sdc[k] /\ result'[k] = result[k]
          /\ buf'[<<k, idx[k]>>] = buf[<<k, idx[k]>>]
      BY <1>42, <2>3, <3>1, <1>b, <1>c, <1>d DEF ShFail, RecordError
    <3> QED BY <1>42, <2>1, <3>2 DEF ShFail, ShNext
  <2>4. CASE k = m
    <3>1. result'[k] = TRUE
      BY <1>42, <2>4, <1>b, <1>c DEF ShFail, RecordError
    <3> QED BY <1>42, <2>1, <2>2, <2>4, <3>1 DEF ShFail
  <2> QED BY <2>3, <2>4
<1>43. CASE UNCHANGED vars
  BY <1>43, <1>a DEF vars
<1> QED
  BY <1>1, <1>2, <1>3, <1>4, <1>5, <1>6, <1>7, <1>8, <1>9, <1>10, <1>11,
       <1>12, <1>13, <1>14, <1>15, <1>16, <1>17, <1>18, <1>19, <1>20, <1>21,
       <1>22, <1>23, <1>24, <1>25, <1>26, <1>27, <1>28, <1>29, <1>30, <1>31,
       <1>32, <1>33, <1>34, <1>35, <1>36, <1>37, <1>38, <1>39, <1>40, <1>41,
       <1>42, <1>43
  DEF Next, Env, Control, ReadoutThread, ReadoutDt, Readout, Finalize, Reinit,
      ShadowThread

LEMMA WaitingStep ==
    Sound /\ NotYetRunning' /\ BuffersFresh /\ Holding /\ Waiting /\ [Next]_vars
    => Waiting'
<1> SUFFICES ASSUME Sound, NotYetRunning', BuffersFresh, Holding, Waiting,
                    [Next]_vars, NEW k \in Waited, Unread(k)'
    PROVE  Left(k)'
  BY DEF Waiting
<1> USE DEF Unread, Left, LeftBuffer, FirstInModule, Go, ShGo, hwVars, modVars,
      bufVars, rVars, cycVars, shVars
<1>a. Unread(k) => Left(k)
  BY DEF Waiting
<1>b. /\ k \in Idx /\ k \in Data /\ k \in Int /\ 1 <= k /\ k <= N /\ N \in Int
      /\ k \notin Silent
  BY ListAssumption DEF Waited, Data, Idx, ListAssumption
<1>c. /\ ms \in Nat /\ ctr \in Nat /\ cprev \in Nat /\ ri \in Int
      /\ cnt \in [Idx -> Nat] /\ off \in [Idx -> Int]
      /\ sdc \in [Idx -> Nat] /\ mprev \in [Idx -> Nat] /\ lat \in [Idx -> Nat]
      /\ pend \in [Idx -> Seq(Nat)] /\ fifo \in [Idx -> Seq(Nat)]
      /\ result \in [Idx -> BOOLEAN] /\ idx \in [Idx -> 0..1]
      /\ buf \in [Idx \X (0..1) -> Seq(Nat)]
  BY ListAssumption DEF Sound, TypeOK, HwType, ModuleType, CrateType, BufferType,
                        ReadoutType, ListAssumption
<1>d. OtherIdx(idx[k]) \in 0..1
  <2>1. idx[k] \in 0..1
    BY <1>b, <1>c
  <2> QED BY <2>1 DEF OtherIdx
<1>e. <<k, OtherIdx(idx[k])>> \in Idx \X (0..1)
  BY <1>b, <1>d
<1>1. ASSUME NEW miss \in Faults, Accept(miss) PROVE Left(k)'
  BY <1>1, <1>a DEF Accept
<1>2. ASSUME NEW m \in Data, Convert(m) PROVE Left(k)'
  <2>1. Unread(k) /\ Left(k)
    BY <1>2, <1>a DEF Convert
  <2>2. CASE k \in Shadow
    BY <1>2, <2>1, <2>2 DEF Convert
  <2>3. CASE k \notin Shadow /\ k # m
    <3>1. fifo'[k] = fifo[k]
      BY <1>2, <2>3, <1>b, <1>c DEF Convert
    <3> QED BY <1>2, <2>1, <2>3, <3>1 DEF Convert
  <2>4. CASE k \notin Shadow /\ k = m
    <3>1. fifo'[k] = Append(fifo[k], Head(pend[k])) /\ pend[k] # << >>
      BY <1>2, <2>4, <1>b, <1>c DEF Convert
    <3>2. fifo[k] \in Seq(Nat) /\ pend[k] \in Seq(Nat) /\ lat[k] \in Nat
      BY <1>b, <1>c
    <3>3. Head(pend[k]) \in Nat
      BY <3>1, <3>2, HeadTailProperties
    <3>4. /\ Len(fifo'[k]) = Len(fifo[k]) + 1
          /\ \A j \in 1..Len(fifo[k]) : fifo'[k][j] = fifo[k][j]
      BY <3>1, <3>2, <3>3
    <3>5. lat[k] <= Len(fifo[k])
      BY <2>1, <2>4
    <3>6. /\ lat[k] <= Len(fifo'[k])
          /\ \A j \in 1..lat[k] : fifo'[k][j] = fifo[k][j]
      <4>1. Len(fifo[k]) \in Nat
        BY <3>2
      <4>2. 1..lat[k] \subseteq 1..Len(fifo[k])
        BY <3>2, <3>5, <4>1
      <4> QED BY <3>2, <3>4, <3>5, <4>1, <4>2
    <3> QED BY <1>2, <2>1, <2>4, <3>6 DEF Convert
  <2> QED BY <2>2, <2>3, <2>4
<1>3. CASE Trigger
  BY <1>3, <1>a DEF Trigger
<1>4. ASSUME NEW m \in Idx, ConfigWrite(m) PROVE Left(k)'
  BY <1>4, <1>a DEF ConfigWrite
<1>5. CASE DtEnter
  BY <1>5, <1>a DEF DtEnter
<1>6. CASE DtLock
  BY <1>6, <1>a, <1>b, <1>c DEF DtLock
<1>7. CASE DtSkip
  <2>1. k # ri
    BY <1>7 DEF DtSkip
  <2>2. Unread(k)
    BY <1>7, <1>b, <1>c, <2>1 DEF DtSkip
  <2> QED BY <1>7, <1>a, <2>2 DEF DtSkip
<1>8. CASE DtRelock
  BY <1>8, <1>a DEF DtRelock
<1>9. CASE DtEnd
  BY <1>9, <1>a, <1>b, <1>c DEF DtEnd
<1>10. CASE DtState
  BY <1>10, <1>a DEF DtState
<1>11. ASSUME NEW m \in Idx, DtOk(m) PROVE Left(k)'
  <2>1. ~rres' /\ ri = m /\ rpc = "dtMod" /\ ret = "no"
    BY <1>11 DEF DtOk, DtNext
  <2>2. ~rres /\ ~result[m]
    BY <1>11, <2>1, <1>c DEF DtOk, DtNext
  <2>3. CASE k # m
    <3>0. ri' = ri + 1 /\ UNCHANGED <<rpc, ret>>
      BY <1>11 DEF DtOk, DtNext
    <3>1. Unread(k) /\ Left(k)
      <4>1. k < ri
        BY <2>1, <2>3, <3>0, <1>b, <1>c
      <4> QED BY <2>1, <2>2, <4>1, <1>a
    <3>2. lat'[k] = lat[k] /\ idx'[k] = idx[k]
      BY <1>11, <2>3, <1>b, <1>c DEF DtOk, DtNext, SwapBuffers
    <3>3. <<k, OtherIdx(idx[k])>> # <<m, OtherIdx(idx[m])>>
      BY <2>3
    <3>4. buf'[<<k, OtherIdx(idx[k])>>] = buf[<<k, OtherIdx(idx[k])>>]
      BY <1>11, <3>3, <1>c, <1>e DEF DtOk, DtNext, SwapBuffers
    <3> QED BY <1>11, <3>1, <3>2, <3>4 DEF DtOk, DtNext
  <2>4. CASE k = m
    <3>1. /\ Converted(k) = ctr /\ (k \in Shadow => Copied(k) = ctr)
      BY SMTT(30), <1>11, <2>4, <1>b, <1>c DEF DtOk, InStep, Diff, Converted, Copied
    <3>2. Held(k)
      <4>1. Kept
        BY <2>1, <2>2 DEF Kept
      <4>2. ctr = ms
        BY <2>1 DEF Sound, BuffersApart, ReleasedOnce, Counting, CounterIsScaler
      <4>3. Placed(k)
        BY <4>1 DEF Sound, Counting, InLine
      <4>4. Len(pend[k]) \in Nat
        BY <1>b, <1>c
      <4>5. cnt[k] \in Int /\ off[k] \in Int /\ ms \in Int /\ cnt[k] - off[k] = ms
        BY <3>1, <4>2, <1>b, <1>c DEF Converted
      <4>6. k \notin missed
        BY <4>3, <4>4, <4>5 DEF Placed, Seen
      <4> QED BY <4>1, <4>6 DEF Holding
    <3>3. CASE k \notin Shadow
      <4>1. mprev[k] = cprev /\ fifo[k] = Events(cprev, ctr) /\ cprev <= ctr
        BY <2>1, <2>4, <3>1, <3>2, <3>3 DEF Held, ModuleHolds, ReadUpTo
      <4>2. /\ Len(Events(cprev, ctr)) = ctr - cprev
            /\ \A j \in 1..(ctr - cprev) : Events(cprev, ctr)[j] = cprev + j
        <5>1. cprev \in Int /\ ctr \in Int /\ cprev <= ctr
          BY <4>1, <1>c
        <5> QED BY <5>1, EventsAre
      <4>3. lat'[k] = ctr - cprev /\ UNCHANGED <<fifo, mprev, ctr, cprev>>
        BY <1>11, <2>4, <4>1, <4>2, <1>b, <1>c DEF DtOk, DtNext
      <4>4. lat'[k] <= Len(fifo[k]) /\ \A j \in 1..lat'[k] : fifo[k][j] = cprev + j
        BY <4>1, <4>2, <4>3, <1>c
      <4> QED BY <3>3, <4>1, <4>3, <4>4
    <3>4. CASE k \in Shadow
      <4>1. spc # "zero"
        BY <1>11, <2>1, <2>4, <3>4, <1>b, <1>c DEF DtOk, DtNext, NotYetRunning
      <4>2. buf[<<k, idx[k]>>] = Events(cprev, ctr)
        BY <2>1, <2>2, <2>4, <3>1, <3>2, <3>4, <4>1, <1>b
           DEF Held, ShadowHolds, SwitchedAt
      <4>3. /\ idx' = [idx EXCEPT ![k] = OtherIdx(idx[k])]
            /\ buf' = [buf EXCEPT ![<<k, OtherIdx(idx[k])>>] = << >>]
            /\ UNCHANGED <<ctr, cprev>>
        BY <1>11, <2>4, <3>4 DEF DtOk, DtNext, SwapBuffers
      <4>4. idx[k] \in 0..1 /\ idx'[k] = OtherIdx(idx[k])
        BY <4>3, <1>b, <1>c
      <4>5. OtherIdx(idx'[k]) = idx[k] /\ OtherIdx(idx[k]) # idx[k]
        BY <4>4 DEF OtherIdx
      <4>6. buf'[<<k, idx[k]>>] = buf[<<k, idx[k]>>]
        BY <4>3, <4>4, <4>5, <1>b, <1>c
      <4> QED BY <3>4, <4>2, <4>3, <4>5, <4>6
    <3> QED BY <3>3, <3>4
  <2> QED BY <2>3, <2>4
<1>12. ASSUME NEW m \in Idx, DtYield(m) PROVE Left(k)'
  <2>a. /\ rpc' = "dtRelock" /\ rpc = "dtMod" /\ ri = m
        /\ UNCHANGED <<ri, ret, rres>>
    BY <1>12 DEF DtYield
  <2>b. k < ri /\ ~rres /\ ret = "no"
    BY <2>a
  <2>1. k # m /\ Unread(k) /\ Left(k)
    BY <2>a, <2>b, <1>a, <1>b
  <2>2. lat'[k] = lat[k]
    BY <1>12, <2>1, <1>b, <1>c DEF DtYield
  <2> QED BY <1>12, <2>1, <2>2 DEF DtYield
<1>13. ASSUME NEW m \in Idx, DtTimeout(m) PROVE Left(k)'
  BY <1>13, <1>a DEF DtTimeout, DtNext
<1>14. ASSUME NEW m \in Idx, DtFail(m) PROVE Left(k)'
  BY <1>14, <1>a DEF DtFail, DtNext
<1>15. CASE RoStart
  BY <1>15, <1>a, <1>b, <1>c DEF RoStart
<1>16. CASE RoRelease
  BY <1>16, <1>a DEF RoRelease, dt_release, Release
<1>17. CASE RoSkip
  BY <1>17, <1>a, <1>b, <1>c DEF RoSkip, RoNext
<1>18. ASSUME NEW m \in Idx, NEW f \in BOOLEAN, RoRead(m, f) PROVE Left(k)'
  <2>a. /\ rpc' = "roRelease" /\ rpc = "roMod" /\ ri = m /\ ri' = ri + 1
        /\ ret' = ret
    BY <1>18 DEF RoRead, RoNext
  <2>b. k >= ri + 1 /\ ret = "no"
    BY <2>a
  <2>c. k >= ri /\ k # ri
    BY <2>b, <1>b, <1>c
  <2>1. k # m /\ Unread(k) /\ Left(k)
    BY <2>a, <2>b, <2>c, <1>a
  <2>2. fifo'[k] = fifo[k] /\ mprev'[k] = mprev[k]
    BY <1>18, <2>1, <1>b, <1>c DEF RoRead
  <2> QED BY <1>18, <2>1, <2>2 DEF RoRead
<1>19. ASSUME NEW m \in Idx, NEW f \in BOOLEAN, RoMergeEnd(m, f)
    PROVE  Left(k)'
  BY <1>19, <1>a, <1>b, <1>c DEF RoMergeEnd, RoNext
<1>20. ASSUME NEW m \in Idx, RoMergeFull(m) PROVE Left(k)'
  BY <1>20, <1>a, <1>b, <1>c DEF RoMergeFull, RoNext
<1>21. ASSUME NEW m \in Idx, RoMergeBegin(m) PROVE Left(k)'
  BY <1>21, <1>a DEF RoMergeBegin
<1>22. CASE RoEndFail
  BY <1>22, <1>a DEF RoEndFail
<1>23. CASE RoEndCheck
  BY <1>23, <1>a DEF RoEndCheck
<1>24. CASE RoEndReleased
  BY <1>24, <1>a DEF RoEndReleased
<1>25. CASE Fin
  BY <1>25, <1>a DEF Fin
<1>26. CASE FinState
  BY <1>26, <1>a DEF FinState
<1>27. CASE Return
  BY <1>27, <1>a DEF Return
<1>28. ASSUME NEW f \in BOOLEAN, FinReconfig(f) PROVE Left(k)'
  BY <1>28, <1>a DEF FinReconfig
<1>29. CASE Deinit
  BY <1>29, <1>a DEF Deinit
<1>30. CASE DeinitModules
  BY <1>30, <1>a DEF DeinitModules
<1>31. CASE InitRetry
  BY <1>31, <1>a DEF InitRetry
<1>32. CASE InitLatch
  BY <1>32, <1>a DEF InitLatch, Again
<1>33. ASSUME NEW f \in BOOLEAN, InitModules(f) PROVE Left(k)'
  BY <1>33, <1>a DEF InitModules
<1>34. CASE ShZero
  <2>1. Unread(k)
    BY <1>34 DEF ShZero
  <2>2. k \notin Shadow
    BY <1>34, <2>1 DEF ShZero, Sound, BuffersApart, NotYetRunning
  <2> QED BY <1>34, <1>a, <2>1, <2>2 DEF ShZero
<1>35. CASE ShStop
  BY <1>35, <1>a DEF ShStop
<1>36. CASE ShLook
  BY <1>36, <1>a DEF ShLook
<1>37. CASE ShLock
  <2>1. buf'[<<k, OtherIdx(idx[k])>>] = buf[<<k, OtherIdx(idx[k])>>]
    BY <1>37, <1>e DEF ShLock, BuffersFresh, NoBufs
  <2> QED BY <1>37, <1>a, <2>1 DEF ShLock
<1>38. CASE ShSkip
  BY <1>38, <1>a DEF ShSkip
<1>39. CASE ShUnlock
  BY <1>39, <1>a DEF ShUnlock
<1>40. ASSUME NEW m \in Idx, ShBegin(m) PROVE Left(k)'
  BY <1>40, <1>a DEF ShBegin
<1>41. ASSUME NEW m \in Idx, ShCopy(m) PROVE Left(k)'
  <2>1. m \in Shadow /\ sbuf = idx[m]
    BY <1>41 DEF ShCopy, Sound, BuffersApart, OwnBuffer
  <2>2. Unread(k) /\ Left(k)
    BY <1>41, <1>a DEF ShCopy
  <2>3. CASE k \in Shadow
    <3>1. <<k, OtherIdx(idx[k])>> # <<m, sbuf>>
      <4>1. OtherIdx(idx[k]) # idx[k]
        <5>1. idx[k] \in 0..1
          BY <1>b, <1>c
        <5> QED BY <5>1 DEF OtherIdx
      <4> QED BY <2>1, <4>1
    <3>2. buf'[<<k, OtherIdx(idx[k])>>] = buf[<<k, OtherIdx(idx[k])>>]
      BY <1>41, <3>1, <1>c, <1>e DEF ShCopy
    <3> QED BY <1>41, <2>2, <2>3, <3>2 DEF ShCopy
  <2>4. CASE k \notin Shadow
    <3>1. fifo'[k] = fifo[k]
      BY <1>41, <2>1, <2>4, <1>b, <1>c DEF ShCopy
    <3> QED BY <1>41, <2>2, <2>4, <3>1 DEF ShCopy
  <2> QED BY <2>3, <2>4
<1>42. ASSUME NEW m \in Idx, NEW lost \in BOOLEAN, ShFail(m, lost)
    PROVE  Left(k)'
  <2>1. m \in Shadow /\ sbuf = idx[m]
    BY <1>42 DEF ShFail, Sound, BuffersApart, OwnBuffer
  <2>2. Unread(k) /\ Left(k)
    BY <1>42, <1>a DEF ShFail, RecordError
  <2>3. CASE k \in Shadow
    <3>1. <<k, OtherIdx(idx[k])>> # <<m, sbuf>>
      <4>1. OtherIdx(idx[k]) # idx[k]
        <5>1. idx[k] \in 0..1
          BY <1>b, <1>c
        <5> QED BY <5>1 DEF OtherIdx
      <4> QED BY <2>1, <4>1
    <3>2. buf'[<<k, OtherIdx(idx[k])>>] = buf[<<k, OtherIdx(idx[k])>>]
      BY <1>42, <3>1, <1>c, <1>e DEF ShFail
    <3> QED BY <1>42, <2>2, <2>3, <3>2 DEF ShFail
  <2>4. CASE k \notin Shadow
    <3>1. fifo'[k] = fifo[k]
      BY <1>42, <2>1, <2>4, <1>b, <1>c DEF ShFail
    <3> QED BY <1>42, <2>2, <2>4, <3>1 DEF ShFail
  <2> QED BY <2>3, <2>4
<1>43. CASE UNCHANGED vars
  BY <1>43, <1>a DEF vars
<1> QED
  BY <1>1, <1>2, <1>3, <1>4, <1>5, <1>6, <1>7, <1>8, <1>9, <1>10, <1>11,
       <1>12, <1>13, <1>14, <1>15, <1>16, <1>17, <1>18, <1>19, <1>20, <1>21,
       <1>22, <1>23, <1>24, <1>25, <1>26, <1>27, <1>28, <1>29, <1>30, <1>31,
       <1>32, <1>33, <1>34, <1>35, <1>36, <1>37, <1>38, <1>39, <1>40, <1>41,
       <1>42, <1>43
  DEF Next, Env, Control, ReadoutThread, ReadoutDt, Readout, Finalize, Reinit,
      ShadowThread

(* What read_module takes is the batch. *)
LEMMA BatchRead ==
    ASSUME Sound, Holding, Waiting, NEW m \in Waited, m \notin Shadow,
           rpc = "roMod", ri = m, ret = "no"
    PROVE  ctr # mprev[m] /\ SubSeq(fifo[m], 1, Take(m)) = Events(cprev, ctr)
<1>1. m \in Idx /\ m \in Int /\ m \notin SkipDt
  BY ListAssumption DEF Waited, Data, Idx, ListAssumption
<1>2. FirstInModule(m)
  BY <1>1 DEF Waiting, Left, Unread
<1>3. /\ cprev \in Int /\ ctr \in Int /\ ms \in Int /\ Converted(m) \in Int
      /\ lat[m] \in Nat /\ fifo[m] \in Seq(Nat) /\ Len(pend[m]) \in Nat
      /\ cnt[m] \in Int /\ off[m] \in Int
  BY <1>1 DEF Sound, TypeOK, HwType, ModuleType, CrateType, Converted
<1>4. cprev < ctr
  BY DEF Sound, Counting, CounterGrown, Serving
<1>5. ctr # mprev[m]
  BY <1>2, <1>3, <1>4 DEF FirstInModule
<1>6. CASE m \in EarlyDt
  <2>1. Take(m) = lat[m]
    BY SMTT(30), <1>1, <1>2, <1>3, <1>6 DEF Take, FirstInModule
  <2>2. SubSeq(fifo[m], 1, lat[m]) = Events(cprev, cprev + lat[m])
    BY <1>2, <1>3, EventsFirst DEF FirstInModule
  <2>3. cprev + lat[m] = ctr
    BY <1>2, <1>3 DEF FirstInModule
  <2> QED BY <1>5, <2>1, <2>2, <2>3
<1>7. CASE m \notin EarlyDt
  <2>1. ~cleared
    BY <1>1, <1>7 DEF Sound, LateModulesInDeadtime, Again
  <2>2. Whole(m) /\ ctr = ms
    BY <2>1 DEF Sound, Counting, CounterIsScaler, LatchedWhole, Past, Kept
  <2>3. Placed(m)
    BY DEF Sound, Counting, InLine, Kept
  <2>4. m \notin missed
    BY <1>3, <2>2, <2>3 DEF Placed, Seen, Whole
  <2>5. Held(m)
    BY <2>4 DEF Holding, Kept
  <2>6. fifo[m] = Events(cprev, ctr)
    BY <1>1, <2>2, <2>5 DEF Held, ModuleHolds, ReadUpTo, Converted, Whole
  <2>7. Take(m) = Len(fifo[m])
    BY <1>7 DEF Take
  <2> QED BY <1>3, <1>5, <2>6, <2>7, SubSeqFull
<1> QED BY <1>6, <1>7

LEMMA HandedStep ==
    Sound /\ Holding /\ Waiting /\ HandedOut /\ [Next]_vars => HandedOut'
<1> SUFFICES ASSUME Sound, Holding, Waiting, HandedOut, [Next]_vars,
                    NEW k \in Waited, Done(k)'
    PROVE  eb'[k] = Events(cprev', ctr')
  BY DEF HandedOut
<1> USE DEF Done, Go, ShGo, hwVars, rVars, cycVars, shVars
<1>a. Done(k) => eb[k] = Events(cprev, ctr)
  BY DEF HandedOut
<1>b. /\ k \in Idx /\ k \in Data /\ k \in Int /\ 1 <= k /\ k <= N /\ N \in Int
      /\ k \notin Silent
  BY ListAssumption DEF Waited, Data, Idx, ListAssumption
<1>c. ri \in Int /\ eb \in [Idx -> Seq(Nat)]
  BY ListAssumption DEF Sound, TypeOK, BufferType, ReadoutType, ListAssumption
<1>1. ASSUME NEW miss \in Faults, Accept(miss)
    PROVE  eb'[k] = Events(cprev', ctr')
  BY <1>1, <1>a DEF Accept
<1>2. ASSUME NEW m \in Data, Convert(m) PROVE eb'[k] = Events(cprev', ctr')
  BY <1>2, <1>a DEF Convert
<1>3. CASE Trigger
  BY <1>3, <1>a DEF Trigger
<1>4. ASSUME NEW m \in Idx, ConfigWrite(m) PROVE eb'[k] = Events(cprev', ctr')
  BY <1>4, <1>a DEF ConfigWrite
<1>5. CASE DtEnter
  BY <1>5, <1>a DEF DtEnter
<1>6. CASE DtLock
  BY <1>6, <1>a DEF DtLock
<1>7. CASE DtSkip
  BY <1>7, <1>a DEF DtSkip
<1>8. CASE DtRelock
  BY <1>8, <1>a DEF DtRelock
<1>9. CASE DtEnd
  BY <1>9, <1>a DEF DtEnd
<1>10. CASE DtState
  BY <1>10, <1>a DEF DtState
<1>11. ASSUME NEW m \in Idx, DtOk(m) PROVE eb'[k] = Events(cprev', ctr')
  BY <1>11, <1>a DEF DtOk, DtNext
<1>12. ASSUME NEW m \in Idx, DtYield(m) PROVE eb'[k] = Events(cprev', ctr')
  BY <1>12, <1>a DEF DtYield
<1>13. ASSUME NEW m \in Idx, DtTimeout(m) PROVE eb'[k] = Events(cprev', ctr')
  BY <1>13, <1>a DEF DtTimeout, DtNext
<1>14. ASSUME NEW m \in Idx, DtFail(m) PROVE eb'[k] = Events(cprev', ctr')
  BY <1>14, <1>a DEF DtFail, DtNext
<1>15. CASE RoStart
  BY <1>15, <1>a, <1>b, <1>c DEF RoStart
<1>16. CASE RoRelease
  BY <1>16, <1>a DEF RoRelease, dt_release, Release
<1>17. CASE RoSkip
  BY <1>17, <1>a, <1>b, <1>c DEF RoSkip, RoNext
<1>18. ASSUME NEW m \in Idx, NEW f \in BOOLEAN, RoRead(m, f)
    PROVE  eb'[k] = Events(cprev', ctr')
  <2>1. CASE k # m
    <3>a. /\ rpc' = "roRelease" /\ ri = m /\ ri' = ri + 1 /\ ret' = ret
          /\ rpc \in {"roMod", "roMerge"} /\ (~rres' => ~rres)
      BY <1>18 DEF RoRead, RoNext
    <3>1. Done(k)
      <4>1. k < ri + 1 /\ ret = "no" /\ ~rres
        BY <3>a
      <4> QED BY <2>1, <3>a, <4>1, <1>b, <1>c
    <3>2. eb'[k] = eb[k]
      BY <1>18, <2>1, <1>b, <1>c DEF RoRead
    <3> QED BY <1>18, <1>a, <3>1, <3>2 DEF RoRead
  <2>2. CASE k = m
    <3>1. rpc = "roMod" /\ ri = k /\ k \notin Shadow /\ ret = "no"
      BY <1>18, <2>2 DEF RoRead, RoNext
    <3>2. ctr # mprev[k] /\ SubSeq(fifo[k], 1, Take(k)) = Events(cprev, ctr)
      BY <3>1, BatchRead
    <3>3. eb'[k] = SubSeq(fifo[k], 1, Take(k))
      BY <1>18, <2>2, <3>2, <1>b, <1>c DEF RoRead
    <3> QED BY <1>18, <3>2, <3>3 DEF RoRead
  <2> QED BY <2>1, <2>2
<1>19. ASSUME NEW m \in Idx, NEW f \in BOOLEAN, RoMergeEnd(m, f)
    PROVE  eb'[k] = Events(cprev', ctr')
  <2>1. CASE k # m
    <3>a. /\ rpc' = "roRelease" /\ ri = m /\ ri' = ri + 1 /\ ret' = ret
          /\ rpc \in {"roMod", "roMerge"} /\ (~rres' => ~rres)
      BY <1>19 DEF RoMergeEnd, RoNext
    <3>1. Done(k)
      <4>1. k < ri + 1 /\ ret = "no" /\ ~rres
        BY <3>a
      <4> QED BY <2>1, <3>a, <4>1, <1>b, <1>c
    <3>2. eb'[k] = eb[k]
      BY <1>19, <2>1, <1>b, <1>c DEF RoMergeEnd
    <3> QED BY <1>19, <1>a, <3>1, <3>2 DEF RoMergeEnd
  <2>2. CASE k = m
    <3>1. Unread(k) /\ k \in Shadow
      BY <1>19, <2>2, <1>b DEF RoMergeEnd, RoNext, Unread
    <3>2. LeftBuffer(k)
      BY <3>1 DEF Waiting, Left
    <3>3. mb = OtherIdx(idx[k])
      BY <1>19, <2>2 DEF RoMergeEnd, Sound, BuffersApart, OwnBuffer
    <3>4. eb'[k] = buf[<<k, mb>>]
      BY <1>19, <2>2, <1>b, <1>c DEF RoMergeEnd
    <3> QED BY <1>19, <3>2, <3>3, <3>4 DEF RoMergeEnd, LeftBuffer
  <2> QED BY <2>1, <2>2
<1>20. ASSUME NEW m \in Idx, RoMergeFull(m)
    PROVE  eb'[k] = Events(cprev', ctr')
  BY <1>20, <1>a DEF RoMergeFull, RoNext
<1>21. ASSUME NEW m \in Idx, RoMergeBegin(m)
    PROVE  eb'[k] = Events(cprev', ctr')
  BY <1>21, <1>a DEF RoMergeBegin
<1>22. CASE RoEndFail
  BY <1>22, <1>a DEF RoEndFail
<1>23. CASE RoEndCheck
  BY <1>23, <1>a, <1>b, <1>c DEF RoEndCheck
<1>24. CASE RoEndReleased
  BY <1>24, <1>a, <1>b, <1>c DEF RoEndReleased
<1>25. CASE Fin
  BY <1>25, <1>a DEF Fin
<1>26. CASE FinState
  BY <1>26, <1>a DEF FinState
<1>27. CASE Return
  BY <1>27, <1>a DEF Return
<1>28. ASSUME NEW f \in BOOLEAN, FinReconfig(f)
    PROVE  eb'[k] = Events(cprev', ctr')
  BY <1>28, <1>a DEF FinReconfig
<1>29. CASE Deinit
  BY <1>29, <1>a DEF Deinit
<1>30. CASE DeinitModules
  BY <1>30, <1>a DEF DeinitModules
<1>31. CASE InitRetry
  BY <1>31, <1>a DEF InitRetry
<1>32. CASE InitLatch
  BY <1>32, <1>a DEF InitLatch, Again
<1>33. ASSUME NEW f \in BOOLEAN, InitModules(f)
    PROVE  eb'[k] = Events(cprev', ctr')
  BY <1>33, <1>a DEF InitModules
<1>34. CASE ShZero
  BY <1>34, <1>a DEF ShZero
<1>35. CASE ShStop
  BY <1>35, <1>a DEF ShStop
<1>36. CASE ShLook
  BY <1>36, <1>a DEF ShLook
<1>37. CASE ShLock
  BY <1>37, <1>a DEF ShLock
<1>38. CASE ShSkip
  BY <1>38, <1>a DEF ShSkip
<1>39. CASE ShUnlock
  BY <1>39, <1>a DEF ShUnlock
<1>40. ASSUME NEW m \in Idx, ShBegin(m) PROVE eb'[k] = Events(cprev', ctr')
  BY <1>40, <1>a DEF ShBegin
<1>41. ASSUME NEW m \in Idx, ShCopy(m) PROVE eb'[k] = Events(cprev', ctr')
  BY <1>41, <1>a DEF ShCopy, ShNext
<1>42. ASSUME NEW m \in Idx, NEW lost \in BOOLEAN, ShFail(m, lost)
    PROVE  eb'[k] = Events(cprev', ctr')
  BY <1>42, <1>a DEF ShFail, ShNext, RecordError
<1>43. CASE UNCHANGED vars
  BY <1>43, <1>a DEF vars
<1> QED
  BY <1>1, <1>2, <1>3, <1>4, <1>5, <1>6, <1>7, <1>8, <1>9, <1>10, <1>11,
       <1>12, <1>13, <1>14, <1>15, <1>16, <1>17, <1>18, <1>19, <1>20, <1>21,
       <1>22, <1>23, <1>24, <1>25, <1>26, <1>27, <1>28, <1>29, <1>30, <1>31,
       <1>32, <1>33, <1>34, <1>35, <1>36, <1>37, <1>38, <1>39, <1>40, <1>41,
       <1>42, <1>43
  DEF Next, Env, Control, ReadoutThread, ReadoutDt, Readout, Finalize, Reinit,
      ShadowThread

LEMMA ContentsInit == Init => Contents
<1> SUFFICES ASSUME Init PROVE Contents
  OBVIOUS
<1>1. BuffersFresh
  BY DEF Init, BuffersFresh, NoBufs
<1>2. Waiting /\ HandedOut
  BY DEF Init, Waiting, Unread, HandedOut, Done
<1>3. ASSUME NEW m \in Waited PROVE Held(m)
  <2>1. m \in Idx
    BY <1>3 DEF Waited, Data
  <2>2. Events(0, 0) = << >>
    BY EventsAre
  <2>3. Converted(m) = 0 /\ Copied(m) = 0 /\ ReadUpTo(m) = 0 /\ SwitchedAt(m) = 0
    BY <2>1 DEF Init, Converted, Copied, ReadUpTo, SwitchedAt, Zero
  <2>4. /\ pend[m] = << >> /\ fifo[m] = << >> /\ mprev[m] = 0 /\ ms = 0
        /\ idx[m] = 0 /\ buf[<<m, 0>>] = << >>
    BY <2>1 DEF Init, Zero, Empty, NoBufs
  <2> QED BY <2>2, <2>3, <2>4 DEF Held, Converting, ModuleHolds, ShadowHolds
<1> QED BY <1>1, <1>2, <1>3 DEF Contents, Holding

(* On the lists of LateModulesReadFirst, without skip_dt on a shadowed     *)
(* module: at every time the modules and the shadow buffers hold the       *)
(* events that the counters say, in order and without a gap, and what has  *)
(* been read is the batch of the cycle.                                    *)
THEOREM ContentsKept ==
    ASSUME NothingBeforeLate, Shadow \cap SkipDt = {}
    PROVE  Spec => [](Sound /\ Contents)
<1>1. Init => BuffersApart
  BY InvInit
<1>2. TypeOK /\ BuffersApart /\ [Next]_vars => BuffersApart'
  BY LockStep, ReleasedStep, ReinitStep, TriggerStep, CounterStep, FreshStep,
     OwnStep DEF BuffersApart
<1>3. Spec => []BuffersApart
  BY <1>1, <1>2, TypeCorrect, PTL DEF Spec
<1>4. Spec => []LateModulesInDeadtime
  BY LateModulesReadFirst
<1>5. TypeOK /\ DeadtimeHeld /\ BuffersApart /\ Counting /\ LateModulesInDeadtime
        => Sound
  BY DEF Sound
<1>6. Spec => []Sound
  BY <1>3, <1>4, <1>5, TypeCorrect, DeadtimeIsHeld, CountersKept, PTL
<1>7. Sound /\ Sound' /\ Contents /\ [Next]_vars => Contents'
  <2> SUFFICES ASSUME Sound, Sound', Contents, [Next]_vars PROVE Contents'
    OBVIOUS
  <2>1. TypeOK /\ NotYetRunning' /\ BuffersFresh /\ Holding /\ Waiting /\ HandedOut
    BY DEF Sound, BuffersApart, Contents
  <2>2. BuffersFresh'
    BY <2>1, FreshBuffersStep
  <2>3. Holding'
    BY <2>1, HoldingStep
  <2>4. Waiting'
    BY <2>1, WaitingStep
  <2>5. HandedOut'
    BY <2>1, HandedStep
  <2> QED BY <2>2, <2>3, <2>4, <2>5 DEF Contents
<1> QED BY <1>6, <1>7, ContentsInit, PTL DEF Spec

LEMMA CompleteFollows == Sound /\ HandedOut => Complete
<1> SUFFICES ASSUME Sound, HandedOut, rpc = "fin", state = "READY", ret # "dt",
                    NEW m \in Waited
             PROVE  eb[m] = [k \in 1..(ctr - cprev) |-> cprev + k]
  BY DEF Complete, Again
<1>1. ret = "no"
  BY DEF Sound, TypeOK, ReadoutType, BuffersApart, ReinitPhase
<1> QED BY <1>1 DEF HandedOut, Done, Events

(* On such a list every cycle that ends well, and did not re-initialise,   *)
(* hands out exactly the events since the previous one, in order, for      *)
(* every module that crate_readout_dt waits for, whatever the two threads, *)
(* the electronics, faults and re-configs did in between.                  *)
THEOREM CyclesComplete ==
    ASSUME NothingBeforeLate, Shadow \cap SkipDt = {} PROVE Spec => []Complete
<1>1. Sound /\ Contents => Complete
  BY CompleteFollows DEF Contents
<1>2. Spec => [](Sound /\ Contents)
  BY ContentsKept
<1> QED BY <1>1, <1>2, PTL

-----------------------------------------------------------------------------
(* The refinement of EventStream. *)

LEMMA StreamInit == Init => Stream!Init
<1> SUFFICES ASSUME Init PROVE Stream!Init
  OBVIOUS
<1>1. ~Offering
  BY DEF Init, Offering
<1> QED BY <1>1 DEF Init, Stream!Init, Stream!Nothing

LEMMA StreamStep ==
    Sound /\ Complete' /\ [Next]_vars => Stream!Next \/ UNCHANGED Stream!esVars
<1> SUFFICES ASSUME Sound, Complete', [Next]_vars
             PROVE  Stream!Next \/ UNCHANGED Stream!esVars
  OBVIOUS
<1> USE DEF Offering, Again, Stream!esVars, Stream!Nothing, Go, hwVars, rVars,
      cycVars
<1>a. /\ DeadtimeHeld /\ ReleasedOnce /\ CounterIsScaler /\ rpc \in RPCs
      /\ state \in {"REINIT", "PREPARED", "READY"}
      /\ rpc = "ro" => state # "PREPARED"
  BY DEF Sound, BuffersApart, Counting, CounterGrown, TypeOK, CrateType, ReadoutType
<1>1. ASSUME NEW miss \in Faults, Accept(miss)
    PROVE  Stream!Next \/ UNCHANGED Stream!esVars
  <2>1. Stream!Accept
    BY <1>1, <1>a DEF Accept, Stream!Accept
  <2> QED BY <2>1 DEF Stream!Next
<1>2. ASSUME NEW m \in Data, Convert(m)
    PROVE  Stream!Next \/ UNCHANGED Stream!esVars
  BY <1>2 DEF Convert
<1>3. CASE Trigger
  <2>1. Stream!Trigger
    BY <1>3 DEF Trigger, Stream!Trigger
  <2> QED BY <2>1 DEF Stream!Next
<1>4. ASSUME NEW m \in Idx, ConfigWrite(m)
    PROVE  Stream!Next \/ UNCHANGED Stream!esVars
  BY <1>4 DEF ConfigWrite
<1>5. CASE DtEnter
  BY <1>5 DEF DtEnter
<1>6. CASE DtLock
  <2>1. dt
    BY <1>6, <1>a DEF DtLock, DeadtimeHeld, ReleasedOnce
  <2>2. Stream!Latch
    BY <1>6, <2>1 DEF DtLock, Stream!Latch
  <2> QED BY <2>2 DEF Stream!Next
<1>7. CASE DtSkip
  BY <1>7 DEF DtSkip
<1>8. CASE DtRelock
  BY <1>8 DEF DtRelock
<1>9. CASE DtEnd
  BY <1>9 DEF DtEnd
<1>10. CASE DtState
  BY <1>10 DEF DtState
<1>11. ASSUME NEW m \in Idx, DtOk(m)
    PROVE  Stream!Next \/ UNCHANGED Stream!esVars
  BY <1>11 DEF DtOk, DtNext
<1>12. ASSUME NEW m \in Idx, DtYield(m)
    PROVE  Stream!Next \/ UNCHANGED Stream!esVars
  BY <1>12 DEF DtYield
<1>13. ASSUME NEW m \in Idx, DtTimeout(m)
    PROVE  Stream!Next \/ UNCHANGED Stream!esVars
  BY <1>13 DEF DtTimeout, DtNext
<1>14. ASSUME NEW m \in Idx, DtFail(m)
    PROVE  Stream!Next \/ UNCHANGED Stream!esVars
  BY <1>14 DEF DtFail, DtNext
<1>15. CASE RoStart
  BY <1>15, <1>a DEF RoStart
<1>16. CASE RoRelease
  <2>1. CASE forIt = ri - 1 /\ MayRelease
    <3>1. ~cleared
      BY <1>16, <2>1, <1>a, ListAssumption
         DEF RoRelease, ReleasedOnce, Sound, TypeOK, ReadoutType, CrateType,
             ListAssumption
    <3>2. dt /\ ctr = ms
      BY <1>16, <3>1, <1>a DEF RoRelease, DeadtimeHeld, CounterIsScaler
    <3>3. Stream!Release
      BY <1>16, <2>1, <3>2 DEF RoRelease, dt_release, Release, Stream!Release
    <3> QED BY <3>3 DEF Stream!Next
  <2>2. CASE ~(forIt = ri - 1 /\ MayRelease)
    BY <1>16, <2>2 DEF RoRelease, dt_release
  <2> QED BY <2>1, <2>2
<1>17. CASE RoSkip
  BY <1>17 DEF RoSkip, RoNext
<1>18. ASSUME NEW m \in Idx, NEW f \in BOOLEAN, RoRead(m, f)
    PROVE  Stream!Next \/ UNCHANGED Stream!esVars
  BY <1>18 DEF RoRead, RoNext
<1>19. ASSUME NEW m \in Idx, NEW f \in BOOLEAN, RoMergeEnd(m, f)
    PROVE  Stream!Next \/ UNCHANGED Stream!esVars
  BY <1>19 DEF RoMergeEnd, RoNext
<1>20. ASSUME NEW m \in Idx, RoMergeFull(m)
    PROVE  Stream!Next \/ UNCHANGED Stream!esVars
  BY <1>20 DEF RoMergeFull, RoNext
<1>21. ASSUME NEW m \in Idx, RoMergeBegin(m)
    PROVE  Stream!Next \/ UNCHANGED Stream!esVars
  BY <1>21 DEF RoMergeBegin
<1>22. CASE RoEndFail
  BY <1>22 DEF RoEndFail
<1>23. CASE RoEndCheck
  <2>1. rpc' = "fin" /\ UNCHANGED <<ms, dt, ctr, cprev, eb, ret>> /\ ~Offering
    BY <1>23 DEF RoEndCheck
  <2>2. CASE Offering'
    <3>1. \A k \in Waited : eb'[k] = [j \in 1..(ctr - cprev) |-> cprev + j]
      BY <2>1, <2>2 DEF Complete
    <3>2. Stream!Offer
      BY <2>1, <2>2, <3>1 DEF Stream!Offer, Stream!Batch
    <3> QED BY <3>2 DEF Stream!Next
  <2>3. CASE ~Offering'
    BY <2>1, <2>3
  <2> QED BY <2>2, <2>3
<1>24. CASE RoEndReleased
  <2>1. rpc' = "fin" /\ UNCHANGED <<ms, dt, ctr, cprev, eb, ret>> /\ ~Offering
    BY <1>24 DEF RoEndReleased
  <2>2. CASE Offering'
    <3>1. \A k \in Waited : eb'[k] = [j \in 1..(ctr - cprev) |-> cprev + j]
      BY <2>1, <2>2 DEF Complete
    <3>2. Stream!Offer
      BY <2>1, <2>2, <3>1 DEF Stream!Offer, Stream!Batch
    <3> QED BY <3>2 DEF Stream!Next
  <2>3. CASE ~Offering'
    BY <2>1, <2>3
  <2> QED BY <2>2, <2>3
<1>25. CASE Fin
  <2>1. Stream!Close
    BY <1>25 DEF Fin, Stream!Close
  <2> QED BY <2>1 DEF Stream!Next
<1>26. CASE FinState
  BY <1>26 DEF FinState
<1>27. CASE Return
  <2>1. CASE cleared
    BY <1>27, <2>1 DEF Return
  <2>2. CASE ~cleared
    <3>1. dt /\ ctr = ms
      BY <1>27, <2>2, <1>a DEF Return, DeadtimeHeld, CounterIsScaler
    <3>2. Stream!Release
      BY <1>27, <2>2, <3>1 DEF Return, Stream!Release
    <3> QED BY <3>2 DEF Stream!Next
  <2> QED BY <2>1, <2>2
<1>28. ASSUME NEW f \in BOOLEAN, FinReconfig(f)
    PROVE  Stream!Next \/ UNCHANGED Stream!esVars
  BY <1>28 DEF FinReconfig
<1>29. CASE Deinit
  BY <1>29 DEF Deinit
<1>30. CASE DeinitModules
  BY <1>30 DEF DeinitModules
<1>31. CASE InitRetry
  <2>1. Stream!Reinit
    BY <1>31 DEF InitRetry, Stream!Reinit
  <2> QED BY <2>1 DEF Stream!Next
<1>32. CASE InitLatch
  <2>1. Stream!Reinit
    BY <1>32 DEF InitLatch, Again, Stream!Reinit
  <2> QED BY <2>1 DEF Stream!Next
<1>33. ASSUME NEW f \in BOOLEAN, InitModules(f)
    PROVE  Stream!Next \/ UNCHANGED Stream!esVars
  BY <1>33 DEF InitModules
<1>34. CASE ShZero
  BY <1>34 DEF ShZero
<1>35. CASE ShStop
  BY <1>35 DEF ShStop
<1>36. CASE ShLook
  BY <1>36 DEF ShLook
<1>37. CASE ShLock
  BY <1>37 DEF ShLock
<1>38. CASE ShSkip
  BY <1>38 DEF ShSkip
<1>39. CASE ShUnlock
  BY <1>39 DEF ShUnlock
<1>40. ASSUME NEW m \in Idx, ShBegin(m)
    PROVE  Stream!Next \/ UNCHANGED Stream!esVars
  BY <1>40 DEF ShBegin
<1>41. ASSUME NEW m \in Idx, ShCopy(m)
    PROVE  Stream!Next \/ UNCHANGED Stream!esVars
  BY <1>41 DEF ShCopy, ShNext
<1>42. ASSUME NEW m \in Idx, NEW lost \in BOOLEAN, ShFail(m, lost)
    PROVE  Stream!Next \/ UNCHANGED Stream!esVars
  <2>1. ~Offering' /\ UNCHANGED <<ms, dt, ctr, cprev>>
    BY <1>42 DEF ShFail, RecordError
  <2>2. Stream!Withdraw
    BY <2>1 DEF Stream!Withdraw
  <2> QED BY <2>2 DEF Stream!Next
<1>43. CASE UNCHANGED vars
  BY <1>43 DEF vars
<1> QED
  BY <1>1, <1>2, <1>3, <1>4, <1>5, <1>6, <1>7, <1>8, <1>9, <1>10, <1>11,
       <1>12, <1>13, <1>14, <1>15, <1>16, <1>17, <1>18, <1>19, <1>20, <1>21,
       <1>22, <1>23, <1>24, <1>25, <1>26, <1>27, <1>28, <1>29, <1>30, <1>31,
       <1>32, <1>33, <1>34, <1>35, <1>36, <1>37, <1>38, <1>39, <1>40, <1>41,
       <1>42, <1>43
  DEF Next, Env, Control, ReadoutThread, ReadoutDt, Readout, Finalize, Reinit,
      ShadowThread

(* On such a list the crate implements EventStream: the dead time is never *)
(* given back before the accepted events belong to a batch, what a good    *)
(* cycle offers is the whole batch, and events are lost only with a failed *)
(* cycle or a re-initialisation.                                           *)
THEOREM ImplementsStream ==
    ASSUME NothingBeforeLate, Shadow \cap SkipDt = {}
    PROVE  Spec => ImplementsEventStream
<1>1. Spec => []Sound
  <2>1. Spec => [](Sound /\ Contents)
    BY ContentsKept
  <2> QED BY <2>1, PTL
<1>2. Spec => []Complete
  BY CyclesComplete
<1>3. Sound /\ Complete' /\ [Next]_vars => [Stream!Next]_Stream!esVars
  BY StreamStep
<1> QED
  BY <1>1, <1>2, <1>3, StreamInit, PTL DEF Spec, ImplementsEventStream, Stream!Spec
=============================================================================
