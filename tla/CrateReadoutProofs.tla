------------------------- MODULE CrateReadoutProofs --------------------------
(***************************************************************************)
(* Types and safety of the readout of a crate, for every module list,      *)
(* every buffer size and any number of events, faults and re-configs: each *)
(* part of CrateReadoutInv is inductive, and the properties follow.        *)
(***************************************************************************)
EXTENDS CrateReadoutInv, SequenceTheorems, TLAPS

-----------------------------------------------------------------------------
(* Type correctness. *)

(* The end of a module's turn in crate_readout_dt keeps the buffers' type. *)
LEMMA SwapType ==
    ASSUME BufferType, NEW m \in Idx, SwapBuffers(m)
    PROVE  /\ idx' \in [Idx -> 0..1]
           /\ buf' \in [Idx \X (0..1) -> Seq(Nat)]
<1>1. OtherIdx(idx[m]) \in 0..1
  BY DEF BufferType, OtherIdx
<1>2. CASE m \in Shadow
  <2>1. idx' \in [Idx -> 0..1]
    BY <1>1, <1>2 DEF BufferType, SwapBuffers
  <2>2. <<m, OtherIdx(idx[m])>> \in Idx \X (0..1) /\ << >> \in Seq(Nat)
    BY <1>1
  <2>3. buf' \in [Idx \X (0..1) -> Seq(Nat)]
    BY <1>2, <2>2 DEF BufferType, SwapBuffers
  <2> QED BY <2>1, <2>3
<1>3. CASE m \notin Shadow
  BY <1>3 DEF BufferType, SwapBuffers
<1> QED BY <1>2, <1>3

(* A driver takes part of what is in the module's buffer. *)
LEMMA TakeType ==
    ASSUME HwType, ModuleType, NEW m \in Idx
    PROVE  /\ Take(m) \in 0..Len(fifo[m])
           /\ SubSeq(fifo[m], 1, Take(m)) \in Seq(Nat)
           /\ SubSeq(fifo[m], Take(m) + 1, Len(fifo[m])) \in Seq(Nat)
<1>1. fifo[m] \in Seq(Nat) /\ lat[m] \in Nat
  BY DEF HwType, ModuleType
<1>2. Len(fifo[m]) \in Nat /\ \A i \in 1..Len(fifo[m]) : fifo[m][i] \in Nat
  BY <1>1
<1>3. Take(m) \in 0..Len(fifo[m])
  BY <1>1, <1>2 DEF Take
<1>4. SubSeq(fifo[m], 1, Take(m)) \in Seq(Nat)
  BY <1>2, <1>3, SubSeqProperties
<1>5. SubSeq(fifo[m], Take(m) + 1, Len(fifo[m])) \in Seq(Nat)
  BY <1>2, <1>3, SubSeqProperties
<1> QED BY <1>3, <1>4, <1>5

LEMMA TypeInit == Init => TypeOK
<1> SUFFICES ASSUME Init PROVE TypeOK
  OBVIOUS
<1>0. 1 \in 1..(N + 1) /\ DoShadow \in BOOLEAN
  BY ListAssumption, ModeAssumption DEF ListAssumption, ModeAssumption
<1>1. HwType
  <2>1. pend \in [Idx -> Seq(Nat)] /\ fifo \in [Idx -> Seq(Nat)]
    BY DEF Init, Empty
  <2>2. cnt \in [Idx -> Nat]
    BY DEF Init, Zero
  <2> QED BY <2>1, <2>2 DEF Init, HwType
<1>2. CrateType
  BY <1>0 DEF Init, CrateType
<1>3. ModuleType
  BY DEF Init, ModuleType, Zero
<1>4. BufferType
  BY DEF Init, BufferType, Empty, Zero, NoBufs
<1>5. ReadoutType
  <2>1. rpc \in RPCs
    BY DEF Init, RPCs
  <2>2. ri \in 1..(N + 1) /\ mb \in 0..1
    BY <1>0 DEF Init
  <2> QED BY <2>1, <2>2 DEF Init, ReadoutType
<1>6. ShadowType
  BY <1>0 DEF Init, ShadowType
<1> QED
  BY <1>1, <1>2, <1>3, <1>4, <1>5, <1>6 DEF TypeOK

LEMMA TypeEnv == TypeOK /\ (Env \/ Control) => TypeOK'
<1> SUFFICES ASSUME TypeOK, Env \/ Control PROVE TypeOK'
  OBVIOUS
<1> USE DEF Idx, Data, Waited, hwVars, relVars, modVars, bufVars, rVars,
      cycVars, shVars
<1>1. ASSUME NEW miss \in Faults, Accept(miss) PROVE TypeOK'
  <2>1. HwType'
    <3>1. \A m \in Idx : Append(pend[m], ms + 1) \in Seq(Nat)
      BY DEF TypeOK, HwType
    <3>2. pend' \in [Idx -> Seq(Nat)]
      BY <1>1, <3>1 DEF TypeOK, HwType, Accept
    <3>3. missed' \subseteq Idx
      BY <1>1 DEF TypeOK, HwType, Accept, Faults
    <3>4. ms' \in Nat /\ faults' \in Nat /\ writes' \in Nat
      BY <1>1 DEF TypeOK, HwType, Accept, CountFault
    <3>5. dt' \in BOOLEAN /\ fifo' \in [Idx -> Seq(Nat)] /\ cnt' \in [Idx -> Nat]
      BY <1>1 DEF TypeOK, HwType, Accept
    <3> QED BY <3>1, <3>2, <3>3, <3>4, <3>5 DEF HwType
  <2>2. CrateType' /\ ModuleType' /\ BufferType' /\ ReadoutType' /\ ShadowType'
    BY <1>1 DEF TypeOK, CrateType, ModuleType, BufferType, ReadoutType,
         ShadowType, Accept, Faults, CountFault
  <2> QED BY <2>1, <2>2 DEF TypeOK
<1>2. ASSUME NEW m \in Data, Convert(m) PROVE TypeOK'
  <2>1. HwType'
    <3>1. pend[m] \in Seq(Nat) /\ pend[m] # << >> /\ fifo[m] \in Seq(Nat)
      BY <1>2 DEF TypeOK, HwType, Convert
    <3>2. Head(pend[m]) \in Nat /\ Tail(pend[m]) \in Seq(Nat)
      BY <3>1, HeadTailProperties
    <3>3. Append(fifo[m], Head(pend[m])) \in Seq(Nat)
      BY <3>1, <3>2
    <3>4. pend' \in [Idx -> Seq(Nat)] /\ fifo' \in [Idx -> Seq(Nat)]
      BY <1>2, <3>2, <3>3 DEF TypeOK, HwType, Convert
    <3>5. cnt' \in [Idx -> Nat]
      BY <1>2 DEF TypeOK, HwType, Convert
    <3>6. UNCHANGED <<ms, dt, faults, writes, missed>>
      BY <1>2 DEF Convert
    <3> QED BY <3>1, <3>2, <3>3, <3>4, <3>5, <3>6 DEF TypeOK, HwType
  <2>2. CrateType' /\ ModuleType' /\ BufferType' /\ ReadoutType' /\ ShadowType'
    BY <1>2 DEF TypeOK, CrateType, ModuleType, BufferType, ReadoutType,
         ShadowType, Convert
  <2> QED BY <2>1, <2>2 DEF TypeOK
<1>3. CASE Trigger
  <2>1. HwType'
    BY <1>3 DEF TypeOK, HwType, Trigger
  <2>2. CrateType' /\ ModuleType' /\ BufferType' /\ ReadoutType' /\ ShadowType'
    BY <1>3 DEF TypeOK, CrateType, ModuleType, BufferType, ReadoutType,
         ShadowType, Trigger
  <2> QED BY <2>1, <2>2 DEF TypeOK
<1>4. ASSUME NEW m \in Idx, ConfigWrite(m) PROVE TypeOK'
  <2>1. HwType'
    BY <1>4 DEF TypeOK, HwType, ConfigWrite
  <2>2. CrateType'
    BY <1>4 DEF TypeOK, CrateType, ConfigWrite
  <2>3. ModuleType' /\ BufferType' /\ ReadoutType' /\ ShadowType'
    BY <1>4 DEF TypeOK, ModuleType, BufferType, ReadoutType, ShadowType,
         ConfigWrite
  <2> QED BY <2>1, <2>2, <2>3 DEF TypeOK
<1> QED
  BY <1>1, <1>2, <1>3, <1>4 DEF Env, Control

LEMMA TypeReadoutDt == TypeOK /\ ReadoutDt => TypeOK'
<1> SUFFICES ASSUME TypeOK, ReadoutDt PROVE TypeOK'
  OBVIOUS
<1> USE DEF Idx, Data, Waited, hwVars, relVars, modVars, bufVars, rVars,
      cycVars, shVars
<1>1. CASE DtEnter
  <2>1. CrateType'
    BY <1>1 DEF TypeOK, CrateType, DtEnter, Empty, Go
  <2>2. BufferType'
    BY <1>1 DEF TypeOK, BufferType, DtEnter, Empty, Go
  <2>3. ReadoutType'
    BY <1>1 DEF TypeOK, ReadoutType, RPCs, DtEnter, Empty, Go
  <2>4. HwType' /\ ModuleType' /\ ShadowType'
    BY <1>1 DEF TypeOK, HwType, ModuleType, ShadowType, DtEnter, Empty, Go
  <2> QED BY <2>1, <2>2, <2>3, <2>4 DEF TypeOK
<1>2. CASE DtLock
  <2>1. CrateType'
    BY <1>2 DEF TypeOK, HwType, CrateType, DtLock
  <2>2. ReadoutType'
    BY <1>2, ListAssumption DEF TypeOK, ReadoutType, RPCs, ListAssumption,
      DtLock, Go
  <2>3. HwType' /\ ModuleType' /\ BufferType' /\ ShadowType'
    BY <1>2 DEF TypeOK, HwType, ModuleType, BufferType, ShadowType, DtLock, Go
  <2> QED BY <2>1, <2>2, <2>3 DEF TypeOK
<1>3. CASE DtSkip
  <2>1. ReadoutType'
    BY <1>3, ListAssumption DEF TypeOK, ReadoutType, RPCs, ListAssumption,
      DtSkip
  <2>2. HwType' /\ CrateType' /\ ModuleType' /\ BufferType' /\ ShadowType'
    BY <1>3 DEF TypeOK, HwType, CrateType, ModuleType, BufferType, ShadowType,
         DtSkip
  <2> QED BY <2>1, <2>2 DEF TypeOK
<1>4. CASE DtRelock
  <2>1. CrateType'
    BY <1>4 DEF TypeOK, CrateType, DtRelock, Go
  <2>2. ReadoutType'
    BY <1>4 DEF TypeOK, ReadoutType, RPCs, DtRelock, Go
  <2>3. HwType' /\ ModuleType' /\ BufferType' /\ ShadowType'
    BY <1>4 DEF TypeOK, HwType, ModuleType, BufferType, ShadowType, DtRelock,
         Go
  <2> QED BY <2>1, <2>2, <2>3 DEF TypeOK
<1>5. CASE DtEnd
  <2>1. CrateType'
    BY <1>5 DEF TypeOK, CrateType, DtEnd, Go, InhibitIf
  <2>2. ReadoutType'
    BY <1>5 DEF TypeOK, ReadoutType, RPCs, DtEnd, Go, InhibitIf
  <2>3. HwType' /\ ModuleType' /\ BufferType' /\ ShadowType'
    BY <1>5 DEF TypeOK, HwType, ModuleType, BufferType, ShadowType, DtEnd, Go,
         InhibitIf
  <2> QED BY <2>1, <2>2, <2>3 DEF TypeOK
<1>6. CASE DtState
  <2>1. CrateType'
    BY <1>6 DEF TypeOK, CrateType, DtState, Go
  <2>2. ReadoutType'
    BY <1>6 DEF TypeOK, ReadoutType, RPCs, DtState, Go
  <2>3. HwType' /\ ModuleType' /\ BufferType' /\ ShadowType'
    BY <1>6 DEF TypeOK, HwType, ModuleType, BufferType, ShadowType, DtState, Go
  <2> QED BY <2>1, <2>2, <2>3 DEF TypeOK
<1>7. ASSUME NEW m \in Idx, DtOk(m) PROVE TypeOK'
  <2>1. CrateType'
    BY <1>7 DEF TypeOK, CrateType, ReadoutType, DtOk, DtNext, ForItAfter
  <2>2. ModuleType'
    <3>1. cnt[m] \in Nat /\ Len(fifo[m]) \in Nat
      BY DEF TypeOK, HwType
    <3>2. ec' \in [Idx -> Nat] /\ lat' \in [Idx -> Nat]
      BY <1>7, <3>1 DEF TypeOK, ModuleType, DtOk
    <3>3. result' \in [Idx -> BOOLEAN]
      BY <1>7 DEF TypeOK, ModuleType, DtOk, DtNext
    <3>4. UNCHANGED <<off, sdc, mprev>>
      BY <1>7 DEF DtOk, DtNext
    <3> QED BY <3>1, <3>2, <3>3, <3>4 DEF TypeOK, ModuleType
  <2>3. BufferType'
    BY <1>7, SwapType DEF TypeOK, BufferType, DtOk, DtNext
  <2>4. ReadoutType'
    BY <1>7, ListAssumption DEF TypeOK, ReadoutType, RPCs, ListAssumption,
      DtOk, DtNext, SwapBuffers, OtherIdx, ForItAfter
  <2>5. HwType' /\ ShadowType'
    BY <1>7 DEF TypeOK, HwType, ShadowType, DtOk, DtNext, SwapBuffers,
         OtherIdx, ForItAfter
  <2> QED BY <2>1, <2>2, <2>3, <2>4, <2>5 DEF TypeOK
<1>8. ASSUME NEW m \in Idx, DtYield(m) PROVE TypeOK'
  <2>1. ModuleType'
    <3>1. cnt[m] \in Nat /\ Len(fifo[m]) \in Nat
      BY DEF TypeOK, HwType
    <3>2. ec' \in [Idx -> Nat] /\ lat' \in [Idx -> Nat]
      BY <1>8, <3>1 DEF TypeOK, ModuleType, DtYield
    <3>3. result' \in [Idx -> BOOLEAN]
      BY <1>8 DEF TypeOK, ModuleType, DtYield
    <3>4. UNCHANGED <<off, sdc, mprev>>
      BY <1>8 DEF DtYield
    <3> QED BY <3>1, <3>2, <3>3, <3>4 DEF TypeOK, ModuleType
  <2>2. CrateType'
    BY <1>8 DEF TypeOK, CrateType, DtYield, Go
  <2>3. ReadoutType'
    BY <1>8 DEF TypeOK, ReadoutType, RPCs, DtYield, Go
  <2>4. HwType' /\ BufferType' /\ ShadowType'
    BY <1>8 DEF TypeOK, HwType, BufferType, ShadowType, DtYield, Go
  <2> QED BY <2>1, <2>2, <2>3, <2>4 DEF TypeOK
<1>9. ASSUME NEW m \in Idx, DtTimeout(m) PROVE TypeOK'
  <2>1. HwType'
    <3>1. faults' \in Nat
      BY <1>9 DEF TypeOK, HwType, DtTimeout, CountFault
    <3>2. UNCHANGED <<ms, dt, writes, pend, fifo, cnt, missed>>
      BY <1>9 DEF DtTimeout, DtNext
    <3> QED BY <3>1, <3>2 DEF TypeOK, HwType
  <2>2. CrateType'
    BY <1>9 DEF TypeOK, CrateType, DtTimeout, DtNext, SwapBuffers, OtherIdx,
         CountFault
  <2>3. ModuleType'
    <3>1. cnt[m] \in Nat /\ Len(fifo[m]) \in Nat
      BY DEF TypeOK, HwType
    <3>2. ec' \in [Idx -> Nat] /\ lat' \in [Idx -> Nat]
      BY <1>9, <3>1 DEF TypeOK, ModuleType, DtTimeout
    <3>3. result' \in [Idx -> BOOLEAN]
      BY <1>9 DEF TypeOK, ModuleType, DtTimeout, DtNext
    <3>4. UNCHANGED <<off, sdc, mprev>>
      BY <1>9 DEF DtTimeout, DtNext
    <3> QED BY <3>1, <3>2, <3>3, <3>4 DEF TypeOK, ModuleType
  <2>4. BufferType'
    BY <1>9, SwapType DEF TypeOK, BufferType, DtTimeout, DtNext
  <2>5. ReadoutType'
    BY <1>9, ListAssumption DEF TypeOK, ReadoutType, RPCs, ListAssumption,
      DtTimeout, DtNext, SwapBuffers, OtherIdx, CountFault
  <2>6. ShadowType'
    BY <1>9 DEF TypeOK, ShadowType, DtTimeout, DtNext, SwapBuffers, OtherIdx,
         CountFault
  <2> QED BY <2>1, <2>2, <2>3, <2>4, <2>5, <2>6 DEF TypeOK
<1>10. ASSUME NEW m \in Idx, DtFail(m) PROVE TypeOK'
  <2>1. HwType'
    <3>1. faults' \in Nat
      BY <1>10 DEF TypeOK, HwType, DtFail, CountFault
    <3>2. UNCHANGED <<ms, dt, writes, pend, fifo, cnt, missed>>
      BY <1>10 DEF DtFail, DtNext
    <3> QED BY <3>1, <3>2 DEF TypeOK, HwType
  <2>2. ModuleType'
    BY <1>10 DEF TypeOK, ModuleType, DtFail, DtNext, SwapBuffers, OtherIdx,
         CountFault
  <2>3. BufferType'
    BY <1>10, SwapType DEF TypeOK, BufferType, DtFail, DtNext
  <2>4. ReadoutType'
    BY <1>10, ListAssumption DEF TypeOK, ReadoutType, RPCs, ListAssumption,
      DtFail, DtNext, SwapBuffers, OtherIdx, CountFault
  <2>5. CrateType' /\ ShadowType'
    BY <1>10 DEF TypeOK, CrateType, ShadowType, DtFail, DtNext, SwapBuffers,
         OtherIdx, CountFault
  <2> QED BY <2>1, <2>2, <2>3, <2>4, <2>5 DEF TypeOK
<1> QED
  BY <1>1, <1>2, <1>3, <1>4, <1>5, <1>6, <1>7, <1>8, <1>9, <1>10 DEF ReadoutDt

LEMMA TypeReadout == TypeOK /\ Readout => TypeOK'
<1> SUFFICES ASSUME TypeOK, Readout PROVE TypeOK'
  OBVIOUS
<1> USE DEF Idx, Data, Waited, hwVars, relVars, modVars, bufVars, rVars,
      cycVars, shVars
<1>1. CASE RoStart
  <2>1. ReadoutType'
    BY <1>1, ListAssumption DEF TypeOK, ReadoutType, RPCs, ListAssumption,
      RoStart, Go
  <2>2. HwType' /\ CrateType' /\ ModuleType' /\ BufferType' /\ ShadowType'
    BY <1>1 DEF TypeOK, HwType, CrateType, ModuleType, BufferType, ShadowType,
         RoStart, Go
  <2> QED BY <2>1, <2>2 DEF TypeOK
<1>2. CASE RoRelease
  <2>1. HwType'
    BY <1>2 DEF TypeOK, HwType, RoRelease, Go, dt_release, Release
  <2>2. CrateType'
    BY <1>2 DEF TypeOK, CrateType, RoRelease, Go, dt_release, Release
  <2>3. ReadoutType'
    BY <1>2 DEF TypeOK, ReadoutType, RPCs, RoRelease, Go, dt_release, Release
  <2>4. ModuleType' /\ BufferType' /\ ShadowType'
    BY <1>2 DEF TypeOK, ModuleType, BufferType, ShadowType, RoRelease, Go,
         dt_release, Release
  <2> QED BY <2>1, <2>2, <2>3, <2>4 DEF TypeOK
<1>3. CASE RoSkip
  <2>1. ReadoutType'
    BY <1>3, ListAssumption DEF TypeOK, ReadoutType, RPCs, ListAssumption,
      RoSkip, RoNext, Go
  <2>2. HwType' /\ CrateType' /\ ModuleType' /\ BufferType' /\ ShadowType'
    BY <1>3 DEF TypeOK, HwType, CrateType, ModuleType, BufferType, ShadowType,
         RoSkip, RoNext, Go
  <2> QED BY <2>1, <2>2 DEF TypeOK
<1>4. ASSUME NEW m \in Idx, NEW f \in BOOLEAN, RoRead(m, f) PROVE TypeOK'
  <2>1. HwType'
    <3>1. fifo' \in [Idx -> Seq(Nat)]
      BY <1>4, TakeType DEF TypeOK, HwType, RoRead
    <3>2. faults' \in Nat
      BY <1>4 DEF TypeOK, HwType, RoRead, CountFault
    <3>3. UNCHANGED <<ms, pend, cnt, missed, dt, writes>>
      BY <1>4 DEF RoRead
    <3> QED BY <3>1, <3>2, <3>3 DEF TypeOK, HwType
  <2>2. CrateType'
    BY <1>4 DEF TypeOK, CrateType, RoRead, RoNext, Go, Take, CountFault
  <2>3. ModuleType'
    <3>1. result' \in [Idx -> BOOLEAN]
      BY <1>4 DEF TypeOK, ModuleType, RoRead
    <3>2. mprev' \in [Idx -> Nat]
      BY <1>4 DEF TypeOK, CrateType, ModuleType, RoRead
    <3>3. UNCHANGED <<ec, off, sdc, lat>>
      BY <1>4 DEF RoRead
    <3> QED BY <3>1, <3>2, <3>3 DEF TypeOK, ModuleType
  <2>4. BufferType'
    <3>1. eb' \in [Idx -> Seq(Nat)]
      BY <1>4, TakeType DEF TypeOK, BufferType, RoRead
    <3>2. UNCHANGED <<idx, buf, cap>>
      BY <1>4 DEF RoRead
    <3> QED BY <3>1, <3>2 DEF TypeOK, BufferType
  <2>5. ReadoutType'
    BY <1>4, ListAssumption DEF TypeOK, ReadoutType, RPCs, ListAssumption,
      RoRead, RoNext, Go, Take, CountFault
  <2>6. ShadowType'
    BY <1>4 DEF TypeOK, ShadowType, RoRead, RoNext, Go, Take, CountFault
  <2> QED BY <2>1, <2>2, <2>3, <2>4, <2>5, <2>6 DEF TypeOK
<1>5. ASSUME NEW m \in Idx, NEW f \in BOOLEAN, RoMergeEnd(m, f) PROVE TypeOK'
  <2>1. HwType'
    BY <1>5 DEF TypeOK, HwType, RoMergeEnd, RoNext, Go, CountFault
  <2>2. BufferType'
    <3>1. <<m, mb>> \in Idx \X (0..1)
      BY DEF TypeOK, ReadoutType
    <3>2. eb' \in [Idx -> Seq(Nat)]
      BY <1>5, <3>1 DEF TypeOK, BufferType, RoMergeEnd
    <3>3. UNCHANGED <<idx, buf, cap>>
      BY <1>5 DEF RoMergeEnd
    <3> QED BY <3>1, <3>2, <3>3 DEF TypeOK, BufferType
  <2>3. ReadoutType'
    BY <1>5, ListAssumption DEF TypeOK, ReadoutType, RPCs, ListAssumption,
      RoMergeEnd, RoNext, Go, CountFault
  <2>4. CrateType' /\ ModuleType' /\ ShadowType'
    BY <1>5 DEF TypeOK, CrateType, ModuleType, ShadowType, RoMergeEnd, RoNext,
         Go, CountFault
  <2> QED BY <2>1, <2>2, <2>3, <2>4 DEF TypeOK
<1>6. ASSUME NEW m \in Idx, RoMergeFull(m) PROVE TypeOK'
  <2>1. HwType'
    BY <1>6 DEF TypeOK, HwType, RoMergeFull, RoNext, Go, CountFault
  <2>2. ReadoutType'
    BY <1>6, ListAssumption DEF TypeOK, ReadoutType, RPCs, ListAssumption,
      RoMergeFull, RoNext, Go, CountFault
  <2>3. CrateType' /\ ModuleType' /\ BufferType' /\ ShadowType'
    BY <1>6 DEF TypeOK, CrateType, ModuleType, BufferType, ShadowType,
         RoMergeFull, RoNext, Go, CountFault
  <2> QED BY <2>1, <2>2, <2>3 DEF TypeOK
<1>7. ASSUME NEW m \in Idx, RoMergeBegin(m) PROVE TypeOK'
  <2>1. CrateType'
    BY <1>7 DEF TypeOK, CrateType, RoMergeBegin, Go, OtherIdx, UnlockIfHeld
  <2>2. ReadoutType'
    <3>1. idx[m] \in 0..1
      BY DEF TypeOK, BufferType
    <3>2. mb' \in 0..1
      BY <1>7, <3>1 DEF RoMergeBegin, OtherIdx
    <3>3. rpc' \in RPCs
      BY <1>7 DEF RoMergeBegin, Go, RPCs
    <3>4. UNCHANGED <<ri, rfor, rres, ret, cleared>>
      BY <1>7 DEF RoMergeBegin
    <3> QED BY <3>1, <3>2, <3>3, <3>4 DEF TypeOK, ReadoutType
  <2>3. HwType' /\ ModuleType' /\ BufferType' /\ ShadowType'
    BY <1>7 DEF TypeOK, HwType, ModuleType, BufferType, ShadowType,
         RoMergeBegin, Go, OtherIdx, UnlockIfHeld
  <2> QED BY <2>1, <2>2, <2>3 DEF TypeOK
<1>8. CASE RoEndFail
  <2>1. CrateType'
    BY <1>8 DEF TypeOK, CrateType, RoEndFail, Go, UnlockIfHeld
  <2>2. ReadoutType'
    BY <1>8 DEF TypeOK, ReadoutType, RPCs, RoEndFail, Go, UnlockIfHeld
  <2>3. HwType' /\ ModuleType' /\ BufferType' /\ ShadowType'
    BY <1>8 DEF TypeOK, HwType, ModuleType, BufferType, ShadowType, RoEndFail,
         Go, UnlockIfHeld
  <2> QED BY <2>1, <2>2, <2>3 DEF TypeOK
<1>9. CASE RoEndCheck
  <2>1. CrateType'
    BY <1>9 DEF TypeOK, CrateType, RoEndCheck, Go
  <2>2. ReadoutType'
    <3>1. rres' \in BOOLEAN
      BY <1>9 DEF RoEndCheck, NotEmpty
    <3>2. rpc' = "fin" /\ UNCHANGED <<ri, rfor, mb, ret, cleared>>
      BY <1>9 DEF RoEndCheck, Go
    <3> QED BY <3>1, <3>2 DEF TypeOK, ReadoutType, RPCs
  <2>3. HwType' /\ ModuleType' /\ BufferType' /\ ShadowType'
    BY <1>9 DEF TypeOK, HwType, ModuleType, BufferType, ShadowType,
         RoEndCheck, Go
  <2> QED BY <2>1, <2>2, <2>3 DEF TypeOK
<1>10. CASE RoEndReleased
  <2>1. CrateType'
    BY <1>10 DEF TypeOK, CrateType, RoEndReleased, Go, UnlockIfHeld
  <2>2. ReadoutType'
    BY <1>10 DEF TypeOK, ReadoutType, RPCs, RoEndReleased, Go, UnlockIfHeld
  <2>3. HwType' /\ ModuleType' /\ BufferType' /\ ShadowType'
    BY <1>10 DEF TypeOK, HwType, ModuleType, BufferType, ShadowType,
         RoEndReleased, Go, UnlockIfHeld
  <2> QED BY <2>1, <2>2, <2>3 DEF TypeOK
<1> QED
  BY <1>1, <1>2, <1>3, <1>4, <1>5, <1>6, <1>7, <1>8, <1>9, <1>10 DEF Readout

LEMMA TypeFinalize == TypeOK /\ (Finalize \/ Reinit) => TypeOK'
<1> SUFFICES ASSUME TypeOK, Finalize \/ Reinit PROVE TypeOK'
  OBVIOUS
<1> USE DEF Idx, Data, Waited, hwVars, relVars, modVars, bufVars, rVars,
      cycVars, shVars
<1>1. CASE Fin
  <2>1. CrateType'
    BY <1>1 DEF TypeOK, CrateType, Fin, Go
  <2>2. ReadoutType'
    BY <1>1 DEF TypeOK, ReadoutType, RPCs, Fin, Go
  <2>3. HwType' /\ ModuleType' /\ BufferType' /\ ShadowType'
    BY <1>1 DEF TypeOK, HwType, ModuleType, BufferType, ShadowType, Fin, Go
  <2> QED BY <2>1, <2>2, <2>3 DEF TypeOK
<1>2. CASE FinState
  <2>1. CrateType'
    BY <1>2 DEF TypeOK, CrateType, FinState, Go, StateAfterReinit
  <2>2. ReadoutType'
    BY <1>2 DEF TypeOK, ReadoutType, RPCs, FinState, Go, StateAfterReinit
  <2>3. HwType' /\ ModuleType' /\ BufferType' /\ ShadowType'
    BY <1>2 DEF TypeOK, HwType, ModuleType, BufferType, ShadowType, FinState,
         Go, StateAfterReinit
  <2> QED BY <2>1, <2>2, <2>3 DEF TypeOK
<1>3. CASE Return
  <2>1. HwType'
    BY <1>3 DEF TypeOK, HwType, Return, Go
  <2>2. ReadoutType'
    BY <1>3 DEF TypeOK, ReadoutType, RPCs, Return, Go
  <2>3. CrateType' /\ ModuleType' /\ BufferType' /\ ShadowType'
    BY <1>3 DEF TypeOK, CrateType, ModuleType, BufferType, ShadowType, Return,
         Go
  <2> QED BY <2>1, <2>2, <2>3 DEF TypeOK
<1>4. ASSUME NEW f \in BOOLEAN, FinReconfig(f) PROVE TypeOK'
  <2>1. HwType'
    BY <1>4 DEF TypeOK, HwType, FinReconfig, Go, Latch, CountFault
  <2>2. CrateType'
    BY <1>4 DEF TypeOK, CrateType, FinReconfig, Go, Latch, CountFault
  <2>3. ModuleType'
    <3>1. off' \in [Idx -> Int] /\ sdc' \in [Idx -> Nat]
      BY <1>4 DEF TypeOK, ModuleType, CrateType, FinReconfig, Latch
    <3>2. UNCHANGED <<ec, mprev, result, lat>>
      BY <1>4 DEF FinReconfig
    <3> QED BY <3>1, <3>2 DEF TypeOK, ModuleType
  <2>4. ReadoutType'
    BY <1>4 DEF TypeOK, ReadoutType, RPCs, FinReconfig, Go, Latch, CountFault
  <2>5. BufferType' /\ ShadowType'
    BY <1>4 DEF TypeOK, BufferType, ShadowType, FinReconfig, Go, Latch,
         CountFault
  <2> QED BY <2>1, <2>2, <2>3, <2>4, <2>5 DEF TypeOK
<1>5. CASE Deinit
  <2>1. CrateType'
    BY <1>5 DEF TypeOK, CrateType, Deinit, Go, StopShadow
  <2>2. ReadoutType'
    BY <1>5 DEF TypeOK, ReadoutType, RPCs, Deinit, Go, StopShadow
  <2>3. HwType' /\ ModuleType' /\ BufferType' /\ ShadowType'
    BY <1>5 DEF TypeOK, HwType, ModuleType, BufferType, ShadowType, Deinit,
         Go, StopShadow
  <2> QED BY <2>1, <2>2, <2>3 DEF TypeOK
<1>6. CASE DeinitModules
  <2>1. CrateType'
    BY <1>6 DEF TypeOK, CrateType, DeinitModules, Go
  <2>2. ReadoutType'
    BY <1>6 DEF TypeOK, ReadoutType, RPCs, DeinitModules, Go
  <2>3. HwType' /\ ModuleType' /\ BufferType' /\ ShadowType'
    BY <1>6 DEF TypeOK, HwType, ModuleType, BufferType, ShadowType,
         DeinitModules, Go
  <2> QED BY <2>1, <2>2, <2>3 DEF TypeOK
<1>7. CASE InitRetry
  <2>1. CrateType'
    BY <1>7 DEF TypeOK, HwType, CrateType, InitRetry
  <2>2. ReadoutType'
    BY <1>7 DEF TypeOK, ReadoutType, RPCs, InitRetry, Go
  <2>3. HwType' /\ ModuleType' /\ BufferType' /\ ShadowType'
    BY <1>7 DEF TypeOK, HwType, ModuleType, BufferType, ShadowType, InitRetry,
         Go
  <2> QED BY <2>1, <2>2, <2>3 DEF TypeOK
<1>8. CASE InitLatch
  <2>1. HwType'
    BY <1>8 DEF TypeOK, HwType, InitLatch, Go, Latch
  <2>2. CrateType'
    BY <1>8, ModeAssumption DEF TypeOK, HwType, CrateType, ModeAssumption,
         InitLatch
  <2>3. ModuleType'
    <3>1. off' \in [Idx -> Int] /\ sdc' \in [Idx -> Nat]
      BY <1>8 DEF TypeOK, HwType, ModuleType, InitLatch, Latch
    <3>2. mprev' \in [Idx -> Nat] /\ result' \in [Idx -> BOOLEAN]
      BY <1>8 DEF TypeOK, HwType, InitLatch
    <3>3. UNCHANGED <<ec, lat>>
      BY <1>8 DEF InitLatch
    <3> QED BY <3>1, <3>2, <3>3 DEF TypeOK, ModuleType
  <2>4. ReadoutType'
    BY <1>8 DEF TypeOK, ReadoutType, RPCs, InitLatch, Go, Latch
  <2>5. ShadowType'
    BY <1>8 DEF TypeOK, ShadowType, InitLatch, Go, Latch
  <2>6. BufferType'
    BY <1>8 DEF TypeOK, BufferType, InitLatch, Go, Latch
  <2> QED BY <2>1, <2>2, <2>3, <2>4, <2>5, <2>6 DEF TypeOK
<1>9. ASSUME NEW f \in BOOLEAN, InitModules(f) PROVE TypeOK'
  <2>1. HwType'
    BY <1>9 DEF TypeOK, HwType, InitModules, Go, Empty, CountFault
  <2>2. CrateType'
    BY <1>9 DEF TypeOK, CrateType, InitModules, Go, Empty, CountFault
  <2>3. ModuleType'
    BY <1>9 DEF TypeOK, HwType, ModuleType, InitModules, Go, Empty, CountFault
  <2>4. ReadoutType'
    BY <1>9 DEF TypeOK, ReadoutType, RPCs, InitModules, Go, Empty, CountFault
  <2>5. BufferType' /\ ShadowType'
    BY <1>9 DEF TypeOK, BufferType, ShadowType, InitModules, Go, Empty,
         CountFault
  <2> QED BY <2>1, <2>2, <2>3, <2>4, <2>5 DEF TypeOK
<1> QED
  BY <1>1, <1>2, <1>3, <1>4, <1>5, <1>6, <1>7, <1>8, <1>9 DEF Finalize, Reinit

LEMMA TypeShadowThread == TypeOK /\ ShadowThread => TypeOK'
<1> SUFFICES ASSUME TypeOK, ShadowThread PROVE TypeOK'
  OBVIOUS
<1> USE DEF Idx, Data, Waited, hwVars, relVars, modVars, bufVars, rVars,
      cycVars, shVars
<1>1. CASE ShZero
  <2>1. BufferType'
    BY <1>1 DEF TypeOK, BufferType, ShZero, ShGo, Zero, NoBufs
  <2>2. ShadowType'
    BY <1>1 DEF TypeOK, ShadowType, ShZero, ShGo, Zero, NoBufs
  <2>3. HwType' /\ CrateType' /\ ModuleType' /\ ReadoutType'
    BY <1>1 DEF TypeOK, HwType, CrateType, ModuleType, ReadoutType, ShZero,
         ShGo, Zero, NoBufs
  <2> QED BY <2>1, <2>2, <2>3 DEF TypeOK
<1>2. CASE ShStop
  <2>1. ShadowType'
    BY <1>2 DEF TypeOK, ShadowType, ShStop, ShGo
  <2>2. HwType' /\ CrateType' /\ ModuleType' /\ BufferType' /\ ReadoutType'
    BY <1>2 DEF TypeOK, HwType, CrateType, ModuleType, BufferType,
         ReadoutType, ShStop, ShGo
  <2> QED BY <2>1, <2>2 DEF TypeOK
<1>3. CASE ShLook
  <2>1. ShadowType'
    BY <1>3 DEF TypeOK, ShadowType, ShLook, ShGo
  <2>2. HwType' /\ CrateType' /\ ModuleType' /\ BufferType' /\ ReadoutType'
    BY <1>3 DEF TypeOK, HwType, CrateType, ModuleType, BufferType,
         ReadoutType, ShLook, ShGo
  <2> QED BY <2>1, <2>2 DEF TypeOK
<1>4. CASE ShLock
  <2>1. CrateType'
    BY <1>4 DEF TypeOK, CrateType, ShLock
  <2>2. BufferType'
    <3>1. NoBufs \in [Idx \X (0..1) -> Seq(Nat)]
      BY DEF NoBufs
    <3>2. BufCap \in Nat
      BY SizeAssumption DEF SizeAssumption
    <3>3. UNCHANGED <<idx, eb>>
      BY <1>4 DEF ShLock
    <3> QED BY <1>4, <3>1, <3>2, <3>3 DEF TypeOK, BufferType, ShLock
  <2>3. ShadowType'
    BY <1>4, ListAssumption DEF TypeOK, ShadowType, ListAssumption,
      ShLock, ShGo, NoBufs
  <2>4. HwType' /\ ModuleType' /\ ReadoutType'
    BY <1>4 DEF TypeOK, HwType, ModuleType, ReadoutType, ShLock, ShGo, NoBufs
  <2> QED BY <2>1, <2>2, <2>3, <2>4 DEF TypeOK
<1>5. CASE ShSkip
  <2>1. ShadowType'
    BY <1>5, ListAssumption DEF TypeOK, ShadowType, ListAssumption,
      ShSkip
  <2>2. HwType' /\ CrateType' /\ ModuleType' /\ BufferType' /\ ReadoutType'
    BY <1>5 DEF TypeOK, HwType, CrateType, ModuleType, BufferType,
         ReadoutType, ShSkip
  <2> QED BY <2>1, <2>2 DEF TypeOK
<1>6. CASE ShUnlock
  <2>1. CrateType'
    BY <1>6 DEF TypeOK, CrateType, ShUnlock, ShGo
  <2>2. ShadowType'
    BY <1>6 DEF TypeOK, ShadowType, ShUnlock, ShGo
  <2>3. HwType' /\ ModuleType' /\ BufferType' /\ ReadoutType'
    BY <1>6 DEF TypeOK, HwType, ModuleType, BufferType, ReadoutType, ShUnlock,
         ShGo
  <2> QED BY <2>1, <2>2, <2>3 DEF TypeOK
<1>7. ASSUME NEW m \in Idx, ShBegin(m) PROVE TypeOK'
  <2>1. ShadowType'
    <3>1. idx[m] \in 0..1
      BY DEF TypeOK, BufferType
    <3>2. sbuf' \in 0..1
      BY <1>7, <3>1 DEF ShBegin
    <3>3. spc' = "copy" /\ UNCHANGED si
      BY <1>7 DEF ShBegin, ShGo
    <3> QED BY <3>1, <3>2, <3>3 DEF TypeOK, ShadowType
  <2>2. HwType' /\ CrateType' /\ ModuleType' /\ BufferType' /\ ReadoutType'
    BY <1>7 DEF TypeOK, HwType, CrateType, ModuleType, BufferType,
         ReadoutType, ShBegin, ShGo
  <2> QED BY <2>1, <2>2 DEF TypeOK
<1>8. ASSUME NEW m \in Idx, ShCopy(m) PROVE TypeOK'
  <2>1. HwType'
    <3>1. fifo' \in [Idx -> Seq(Nat)]
      BY <1>8 DEF TypeOK, HwType, ShCopy
    <3>2. UNCHANGED <<ms, dt, pend, cnt, missed, faults, writes>>
      BY <1>8 DEF ShCopy
    <3> QED BY <3>1, <3>2 DEF TypeOK, HwType
  <2>2. ModuleType'
    BY <1>8 DEF TypeOK, HwType, ModuleType, ShCopy, ShNext, ShGo
  <2>3. BufferType'
    <3>1. <<m, sbuf>> \in Idx \X (0..1)
      BY DEF TypeOK, ShadowType
    <3>2. buf[<<m, sbuf>>] \o fifo[m] \in Seq(Nat)
      BY <3>1 DEF TypeOK, HwType, BufferType
    <3>3. buf' \in [Idx \X (0..1) -> Seq(Nat)]
      BY <1>8, <3>1, <3>2 DEF TypeOK, BufferType, ShCopy
    <3>4. UNCHANGED <<idx, cap, eb>>
      BY <1>8 DEF ShCopy
    <3> QED BY <3>1, <3>2, <3>3, <3>4 DEF TypeOK, BufferType
  <2>4. ShadowType'
    BY <1>8, ListAssumption DEF TypeOK, ShadowType, ListAssumption,
      ShCopy, ShNext, ShGo
  <2>5. CrateType' /\ ReadoutType'
    BY <1>8 DEF TypeOK, CrateType, ReadoutType, ShCopy, ShNext, ShGo
  <2> QED BY <2>1, <2>2, <2>3, <2>4, <2>5 DEF TypeOK
<1>9. ASSUME NEW m \in Idx, NEW lost \in BOOLEAN, ShFail(m, lost) PROVE TypeOK'
  <2>1. HwType'
    <3>1. fifo' \in [Idx -> Seq(Nat)]
      BY <1>9 DEF TypeOK, HwType, ShFail
    <3>2. faults' \in Nat
      BY <1>9 DEF TypeOK, HwType, ShFail, CountFault
    <3>3. UNCHANGED <<ms, dt, pend, cnt, missed, writes>>
      BY <1>9 DEF ShFail
    <3> QED BY <3>1, <3>2, <3>3 DEF TypeOK, HwType
  <2>2. CrateType'
    BY <1>9 DEF TypeOK, CrateType, ShFail, ShNext, ShGo, RecordError,
         CountFault
  <2>3. ModuleType'
    BY <1>9 DEF TypeOK, HwType, ModuleType, ShFail, ShNext, ShGo, RecordError,
         CountFault
  <2>4. BufferType'
    <3>1. <<m, sbuf>> \in Idx \X (0..1) /\ << >> \in Seq(Nat)
      BY DEF TypeOK, ShadowType
    <3>2. buf' \in [Idx \X (0..1) -> Seq(Nat)]
      BY <1>9, <3>1 DEF TypeOK, BufferType, ShFail
    <3>3. UNCHANGED <<idx, cap, eb>>
      BY <1>9 DEF ShFail
    <3> QED BY <3>1, <3>2, <3>3 DEF TypeOK, BufferType
  <2>5. ShadowType'
    BY <1>9, ListAssumption DEF TypeOK, ShadowType, ListAssumption,
      ShFail, ShNext, ShGo, RecordError, CountFault
  <2>6. ReadoutType'
    BY <1>9 DEF TypeOK, ReadoutType, ShFail, ShNext, ShGo, RecordError,
         CountFault
  <2> QED BY <2>1, <2>2, <2>3, <2>4, <2>5, <2>6 DEF TypeOK
<1> QED
  BY <1>1, <1>2, <1>3, <1>4, <1>5, <1>6, <1>7, <1>8, <1>9 DEF ShadowThread

LEMMA TypeStep == TypeOK /\ [Next]_vars => TypeOK'
<1> SUFFICES ASSUME TypeOK, [Next]_vars PROVE TypeOK'
  OBVIOUS
<1>1. CASE UNCHANGED vars
  BY <1>1 DEF vars, TypeOK, HwType, CrateType, ModuleType, BufferType,
              ReadoutType, ShadowType
<1> QED
  BY <1>1, TypeEnv, TypeReadoutDt, TypeReadout, TypeFinalize, TypeShadowThread
  DEF Next, ReadoutThread

(* Every variable of the readout holds a value of its type, whatever the   *)
(* module list, the buffer sizes and the bounds.                           *)
THEOREM TypeCorrect == Spec => []TypeOK
BY TypeInit, TypeStep, PTL DEF Spec

-----------------------------------------------------------------------------
(* The lock.                                                               *)

LEMMA LockStep == LockHeld /\ [Next]_vars => LockHeld'
<1> SUFFICES ASSUME LockHeld, [Next]_vars PROVE LockHeld'
  OBVIOUS
<1> USE DEF LockHeld, Go, ShGo, rVars, shVars
<1>1. ASSUME NEW miss \in Faults, Accept(miss) PROVE LockHeld'
  BY <1>1 DEF Accept
<1>2. ASSUME NEW m \in Data, Convert(m) PROVE LockHeld'
  BY <1>2 DEF Convert
<1>3. CASE Trigger
  BY <1>3 DEF Trigger
<1>4. ASSUME NEW m \in Idx, ConfigWrite(m) PROVE LockHeld'
  BY <1>4 DEF ConfigWrite
<1>5. CASE DtEnter
  BY <1>5 DEF DtEnter
<1>6. CASE DtLock
  BY <1>6 DEF DtLock
<1>7. CASE DtSkip
  BY <1>7 DEF DtSkip
<1>8. CASE DtRelock
  BY <1>8 DEF DtRelock
<1>9. CASE DtEnd
  BY <1>9 DEF DtEnd
<1>10. CASE DtState
  BY <1>10 DEF DtState
<1>11. ASSUME NEW m \in Idx, DtOk(m) PROVE LockHeld'
  BY <1>11 DEF DtOk, DtNext
<1>12. ASSUME NEW m \in Idx, DtYield(m) PROVE LockHeld'
  BY <1>12 DEF DtYield
<1>13. ASSUME NEW m \in Idx, DtTimeout(m) PROVE LockHeld'
  BY <1>13 DEF DtTimeout, DtNext
<1>14. ASSUME NEW m \in Idx, DtFail(m) PROVE LockHeld'
  BY <1>14 DEF DtFail, DtNext
<1>15. CASE RoStart
  BY <1>15 DEF RoStart
<1>16. CASE RoRelease
  BY <1>16 DEF RoRelease
<1>17. CASE RoSkip
  BY <1>17 DEF RoSkip, RoNext
<1>18. ASSUME NEW m \in Idx, NEW f \in BOOLEAN, RoRead(m, f) PROVE LockHeld'
  BY <1>18 DEF RoRead, RoNext
<1>19. ASSUME NEW m \in Idx, NEW f \in BOOLEAN, RoMergeEnd(m, f)
    PROVE  LockHeld'
  BY <1>19 DEF RoMergeEnd, RoNext
<1>20. ASSUME NEW m \in Idx, RoMergeFull(m) PROVE LockHeld'
  BY <1>20 DEF RoMergeFull, RoNext
<1>21. ASSUME NEW m \in Idx, RoMergeBegin(m) PROVE LockHeld'
  BY <1>21 DEF RoMergeBegin, UnlockIfHeld
<1>22. CASE RoEndFail
  BY <1>22 DEF RoEndFail, UnlockIfHeld
<1>23. CASE RoEndCheck
  BY <1>23 DEF RoEndCheck
<1>24. CASE RoEndReleased
  BY <1>24 DEF RoEndReleased, UnlockIfHeld
<1>25. CASE Fin
  BY <1>25 DEF Fin
<1>26. CASE FinState
  BY <1>26 DEF FinState
<1>27. CASE Return
  BY <1>27 DEF Return
<1>28. ASSUME NEW f \in BOOLEAN, FinReconfig(f) PROVE LockHeld'
  BY <1>28 DEF FinReconfig
<1>29. CASE Deinit
  BY <1>29 DEF Deinit
<1>30. CASE DeinitModules
  BY <1>30 DEF DeinitModules
<1>31. CASE InitRetry
  BY <1>31 DEF InitRetry
<1>32. CASE InitLatch
  BY <1>32 DEF InitLatch
<1>33. ASSUME NEW f \in BOOLEAN, InitModules(f) PROVE LockHeld'
  BY <1>33 DEF InitModules
<1>34. CASE ShZero
  BY <1>34 DEF ShZero
<1>35. CASE ShStop
  BY <1>35 DEF ShStop
<1>36. CASE ShLook
  BY <1>36 DEF ShLook
<1>37. CASE ShLock
  BY <1>37 DEF ShLock
<1>38. CASE ShSkip
  BY <1>38 DEF ShSkip
<1>39. CASE ShUnlock
  BY <1>39 DEF ShUnlock
<1>40. ASSUME NEW m \in Idx, ShBegin(m) PROVE LockHeld'
  BY <1>40 DEF ShBegin
<1>41. ASSUME NEW m \in Idx, ShCopy(m) PROVE LockHeld'
  BY <1>41 DEF ShCopy, ShNext
<1>42. ASSUME NEW m \in Idx, NEW lost \in BOOLEAN, ShFail(m, lost)
    PROVE  LockHeld'
  BY <1>42 DEF ShFail, ShNext
<1>43. CASE UNCHANGED vars
  BY <1>43 DEF vars
<1> QED
  BY <1>1, <1>2, <1>3, <1>4, <1>5, <1>6, <1>7, <1>8, <1>9, <1>10, <1>11,
       <1>12, <1>13, <1>14, <1>15, <1>16, <1>17, <1>18, <1>19, <1>20, <1>21,
       <1>22, <1>23, <1>24, <1>25, <1>26, <1>27, <1>28, <1>29, <1>30, <1>31,
       <1>32, <1>33, <1>34, <1>35, <1>36, <1>37, <1>38, <1>39, <1>40, <1>41,
       <1>42, <1>43
  DEF Next, Env, Control, ReadoutThread, ReadoutDt, Readout, Finalize, Reinit,
      ShadowThread

-----------------------------------------------------------------------------
(* The dead time.                                                          *)

LEMMA DeadtimeStep == DeadtimeHeld /\ [Next]_vars => DeadtimeHeld'
<1> SUFFICES ASSUME DeadtimeHeld, [Next]_vars PROVE DeadtimeHeld'
  OBVIOUS
<1> USE DEF DeadtimeHeld, Go, rVars, cycVars
<1>1. ASSUME NEW miss \in Faults, Accept(miss) PROVE DeadtimeHeld'
  BY <1>1 DEF Accept
<1>2. ASSUME NEW m \in Data, Convert(m) PROVE DeadtimeHeld'
  BY <1>2 DEF Convert
<1>3. CASE Trigger
  BY <1>3 DEF Trigger
<1>4. ASSUME NEW m \in Idx, ConfigWrite(m) PROVE DeadtimeHeld'
  BY <1>4 DEF ConfigWrite
<1>5. CASE DtEnter
  BY <1>5 DEF DtEnter
<1>6. CASE DtLock
  BY <1>6 DEF DtLock
<1>7. CASE DtSkip
  BY <1>7 DEF DtSkip
<1>8. CASE DtRelock
  BY <1>8 DEF DtRelock
<1>9. CASE DtEnd
  BY <1>9 DEF DtEnd
<1>10. CASE DtState
  BY <1>10 DEF DtState
<1>11. ASSUME NEW m \in Idx, DtOk(m) PROVE DeadtimeHeld'
  BY <1>11 DEF DtOk, DtNext
<1>12. ASSUME NEW m \in Idx, DtYield(m) PROVE DeadtimeHeld'
  BY <1>12 DEF DtYield
<1>13. ASSUME NEW m \in Idx, DtTimeout(m) PROVE DeadtimeHeld'
  BY <1>13 DEF DtTimeout, DtNext
<1>14. ASSUME NEW m \in Idx, DtFail(m) PROVE DeadtimeHeld'
  BY <1>14 DEF DtFail, DtNext
<1>15. CASE RoStart
  BY <1>15 DEF RoStart
<1>16. CASE RoRelease
  BY <1>16 DEF RoRelease, dt_release, Release
<1>17. CASE RoSkip
  BY <1>17 DEF RoSkip, RoNext
<1>18. ASSUME NEW m \in Idx, NEW f \in BOOLEAN, RoRead(m, f)
    PROVE  DeadtimeHeld'
  BY <1>18 DEF RoRead, RoNext
<1>19. ASSUME NEW m \in Idx, NEW f \in BOOLEAN, RoMergeEnd(m, f)
    PROVE  DeadtimeHeld'
  BY <1>19 DEF RoMergeEnd, RoNext
<1>20. ASSUME NEW m \in Idx, RoMergeFull(m) PROVE DeadtimeHeld'
  BY <1>20 DEF RoMergeFull, RoNext
<1>21. ASSUME NEW m \in Idx, RoMergeBegin(m) PROVE DeadtimeHeld'
  BY <1>21 DEF RoMergeBegin
<1>22. CASE RoEndFail
  BY <1>22 DEF RoEndFail
<1>23. CASE RoEndCheck
  BY <1>23 DEF RoEndCheck
<1>24. CASE RoEndReleased
  BY <1>24 DEF RoEndReleased
<1>25. CASE Fin
  BY <1>25 DEF Fin
<1>26. CASE FinState
  BY <1>26 DEF FinState
<1>27. CASE Return
  BY <1>27 DEF Return
<1>28. ASSUME NEW f \in BOOLEAN, FinReconfig(f) PROVE DeadtimeHeld'
  BY <1>28 DEF FinReconfig
<1>29. CASE Deinit
  BY <1>29 DEF Deinit
<1>30. CASE DeinitModules
  BY <1>30 DEF DeinitModules
<1>31. CASE InitRetry
  BY <1>31 DEF InitRetry
<1>32. CASE InitLatch
  BY <1>32 DEF InitLatch
<1>33. ASSUME NEW f \in BOOLEAN, InitModules(f) PROVE DeadtimeHeld'
  BY <1>33 DEF InitModules
<1>34. CASE ShZero
  BY <1>34 DEF ShZero
<1>35. CASE ShStop
  BY <1>35 DEF ShStop
<1>36. CASE ShLook
  BY <1>36 DEF ShLook
<1>37. CASE ShLock
  BY <1>37 DEF ShLock
<1>38. CASE ShSkip
  BY <1>38 DEF ShSkip
<1>39. CASE ShUnlock
  BY <1>39 DEF ShUnlock
<1>40. ASSUME NEW m \in Idx, ShBegin(m) PROVE DeadtimeHeld'
  BY <1>40 DEF ShBegin
<1>41. ASSUME NEW m \in Idx, ShCopy(m) PROVE DeadtimeHeld'
  BY <1>41 DEF ShCopy
<1>42. ASSUME NEW m \in Idx, NEW lost \in BOOLEAN, ShFail(m, lost)
    PROVE  DeadtimeHeld'
  BY <1>42 DEF ShFail
<1>43. CASE UNCHANGED vars
  BY <1>43 DEF vars
<1> QED
  BY <1>1, <1>2, <1>3, <1>4, <1>5, <1>6, <1>7, <1>8, <1>9, <1>10, <1>11,
       <1>12, <1>13, <1>14, <1>15, <1>16, <1>17, <1>18, <1>19, <1>20, <1>21,
       <1>22, <1>23, <1>24, <1>25, <1>26, <1>27, <1>28, <1>29, <1>30, <1>31,
       <1>32, <1>33, <1>34, <1>35, <1>36, <1>37, <1>38, <1>39, <1>40, <1>41,
       <1>42, <1>43
  DEF Next, Env, Control, ReadoutThread, ReadoutDt, Readout, Finalize, Reinit,
      ShadowThread

-----------------------------------------------------------------------------
(* When the dead time is released.                                         *)

LEMMA ReleasedStep == TypeOK /\ ReleasedOnce /\ [Next]_vars => ReleasedOnce'
<1> SUFFICES ASSUME TypeOK, ReleasedOnce, [Next]_vars PROVE ReleasedOnce'
  OBVIOUS
<1> USE DEF TypeOK, ReadoutType, CrateType, ReleasedOnce, Go, rVars, cycVars,
      relVars
<1>1. ASSUME NEW miss \in Faults, Accept(miss) PROVE ReleasedOnce'
  BY <1>1 DEF Accept
<1>2. ASSUME NEW m \in Data, Convert(m) PROVE ReleasedOnce'
  BY <1>2 DEF Convert
<1>3. CASE Trigger
  BY <1>3 DEF Trigger
<1>4. ASSUME NEW m \in Idx, ConfigWrite(m) PROVE ReleasedOnce'
  BY <1>4 DEF ConfigWrite
<1>5. CASE DtEnter
  BY <1>5 DEF DtEnter
<1>6. CASE DtLock
  BY <1>6 DEF DtLock
<1>7. CASE DtSkip
  BY <1>7 DEF DtSkip
<1>8. CASE DtRelock
  BY <1>8 DEF DtRelock
<1>9. CASE DtEnd
  BY <1>9 DEF DtEnd
<1>10. CASE DtState
  BY <1>10 DEF DtState
<1>11. ASSUME NEW m \in Idx, DtOk(m) PROVE ReleasedOnce'
  BY <1>11 DEF DtOk, DtNext
<1>12. ASSUME NEW m \in Idx, DtYield(m) PROVE ReleasedOnce'
  BY <1>12 DEF DtYield
<1>13. ASSUME NEW m \in Idx, DtTimeout(m) PROVE ReleasedOnce'
  BY <1>13 DEF DtTimeout, DtNext
<1>14. ASSUME NEW m \in Idx, DtFail(m) PROVE ReleasedOnce'
  BY <1>14 DEF DtFail, DtNext
<1>15. CASE RoStart
  BY <1>15 DEF RoStart
<1>16. CASE RoRelease
  BY <1>16 DEF RoRelease, dt_release, Release
<1>17. CASE RoSkip
  BY <1>17 DEF RoSkip, RoNext
<1>18. ASSUME NEW m \in Idx, NEW f \in BOOLEAN, RoRead(m, f)
    PROVE  ReleasedOnce'
  BY <1>18 DEF RoRead, RoNext
<1>19. ASSUME NEW m \in Idx, NEW f \in BOOLEAN, RoMergeEnd(m, f)
    PROVE  ReleasedOnce'
  BY <1>19 DEF RoMergeEnd, RoNext
<1>20. ASSUME NEW m \in Idx, RoMergeFull(m) PROVE ReleasedOnce'
  BY <1>20 DEF RoMergeFull, RoNext
<1>21. ASSUME NEW m \in Idx, RoMergeBegin(m) PROVE ReleasedOnce'
  BY <1>21 DEF RoMergeBegin
<1>22. CASE RoEndFail
  BY <1>22 DEF RoEndFail
<1>23. CASE RoEndCheck
  BY <1>23 DEF RoEndCheck
<1>24. CASE RoEndReleased
  BY <1>24 DEF RoEndReleased
<1>25. CASE Fin
  BY <1>25 DEF Fin, SafeToReconfig
<1>26. CASE FinState
  BY <1>26 DEF FinState
<1>27. CASE Return
  BY <1>27 DEF Return
<1>28. ASSUME NEW f \in BOOLEAN, FinReconfig(f) PROVE ReleasedOnce'
  BY <1>28 DEF FinReconfig
<1>29. CASE Deinit
  BY <1>29 DEF Deinit
<1>30. CASE DeinitModules
  BY <1>30 DEF DeinitModules
<1>31. CASE InitRetry
  BY <1>31 DEF InitRetry
<1>32. CASE InitLatch
  BY <1>32 DEF InitLatch, Again
<1>33. ASSUME NEW f \in BOOLEAN, InitModules(f) PROVE ReleasedOnce'
  BY <1>33 DEF InitModules
<1>34. CASE ShZero
  BY <1>34 DEF ShZero
<1>35. CASE ShStop
  BY <1>35 DEF ShStop
<1>36. CASE ShLook
  BY <1>36 DEF ShLook
<1>37. CASE ShLock
  BY <1>37 DEF ShLock
<1>38. CASE ShSkip
  BY <1>38 DEF ShSkip
<1>39. CASE ShUnlock
  BY <1>39 DEF ShUnlock
<1>40. ASSUME NEW m \in Idx, ShBegin(m) PROVE ReleasedOnce'
  BY <1>40 DEF ShBegin
<1>41. ASSUME NEW m \in Idx, ShCopy(m) PROVE ReleasedOnce'
  BY <1>41 DEF ShCopy
<1>42. ASSUME NEW m \in Idx, NEW lost \in BOOLEAN, ShFail(m, lost)
    PROVE  ReleasedOnce'
  BY <1>42 DEF ShFail
<1>43. CASE UNCHANGED vars
  BY <1>43 DEF vars
<1> QED
  BY <1>1, <1>2, <1>3, <1>4, <1>5, <1>6, <1>7, <1>8, <1>9, <1>10, <1>11,
       <1>12, <1>13, <1>14, <1>15, <1>16, <1>17, <1>18, <1>19, <1>20, <1>21,
       <1>22, <1>23, <1>24, <1>25, <1>26, <1>27, <1>28, <1>29, <1>30, <1>31,
       <1>32, <1>33, <1>34, <1>35, <1>36, <1>37, <1>38, <1>39, <1>40, <1>41,
       <1>42, <1>43
  DEF Next, Env, Control, ReadoutThread, ReadoutDt, Readout, Finalize, Reinit,
      ShadowThread

-----------------------------------------------------------------------------
(* Where a cycle re-initialises.                                           *)

LEMMA ReinitStep == ReinitPhase /\ [Next]_vars => ReinitPhase'
<1> SUFFICES ASSUME ReinitPhase, [Next]_vars PROVE ReinitPhase'
  OBVIOUS
<1> USE DEF ReinitPhase, Go, ShGo, rVars, cycVars, shVars
<1>1. ASSUME NEW miss \in Faults, Accept(miss) PROVE ReinitPhase'
  BY <1>1 DEF Accept
<1>2. ASSUME NEW m \in Data, Convert(m) PROVE ReinitPhase'
  BY <1>2 DEF Convert
<1>3. CASE Trigger
  BY <1>3 DEF Trigger
<1>4. ASSUME NEW m \in Idx, ConfigWrite(m) PROVE ReinitPhase'
  BY <1>4 DEF ConfigWrite
<1>5. CASE DtEnter
  BY <1>5 DEF DtEnter
<1>6. CASE DtLock
  BY <1>6 DEF DtLock
<1>7. CASE DtSkip
  BY <1>7 DEF DtSkip
<1>8. CASE DtRelock
  BY <1>8 DEF DtRelock
<1>9. CASE DtEnd
  BY <1>9 DEF DtEnd
<1>10. CASE DtState
  BY <1>10 DEF DtState
<1>11. ASSUME NEW m \in Idx, DtOk(m) PROVE ReinitPhase'
  BY <1>11 DEF DtOk, DtNext
<1>12. ASSUME NEW m \in Idx, DtYield(m) PROVE ReinitPhase'
  BY <1>12 DEF DtYield
<1>13. ASSUME NEW m \in Idx, DtTimeout(m) PROVE ReinitPhase'
  BY <1>13 DEF DtTimeout, DtNext
<1>14. ASSUME NEW m \in Idx, DtFail(m) PROVE ReinitPhase'
  BY <1>14 DEF DtFail, DtNext
<1>15. CASE RoStart
  BY <1>15 DEF RoStart
<1>16. CASE RoRelease
  BY <1>16 DEF RoRelease, dt_release, Release
<1>17. CASE RoSkip
  BY <1>17 DEF RoSkip, RoNext
<1>18. ASSUME NEW m \in Idx, NEW f \in BOOLEAN, RoRead(m, f) PROVE ReinitPhase'
  BY <1>18 DEF RoRead, RoNext
<1>19. ASSUME NEW m \in Idx, NEW f \in BOOLEAN, RoMergeEnd(m, f)
    PROVE  ReinitPhase'
  BY <1>19 DEF RoMergeEnd, RoNext
<1>20. ASSUME NEW m \in Idx, RoMergeFull(m) PROVE ReinitPhase'
  BY <1>20 DEF RoMergeFull, RoNext
<1>21. ASSUME NEW m \in Idx, RoMergeBegin(m) PROVE ReinitPhase'
  BY <1>21 DEF RoMergeBegin
<1>22. CASE RoEndFail
  BY <1>22 DEF RoEndFail
<1>23. CASE RoEndCheck
  BY <1>23 DEF RoEndCheck
<1>24. CASE RoEndReleased
  BY <1>24 DEF RoEndReleased
<1>25. CASE Fin
  BY <1>25 DEF Fin
<1>26. CASE FinState
  BY <1>26 DEF FinState
<1>27. CASE Return
  BY <1>27 DEF Return
<1>28. ASSUME NEW f \in BOOLEAN, FinReconfig(f) PROVE ReinitPhase'
  BY <1>28 DEF FinReconfig
<1>29. CASE Deinit
  BY <1>29 DEF Deinit
<1>30. CASE DeinitModules
  BY <1>30 DEF DeinitModules
<1>31. CASE InitRetry
  BY <1>31 DEF InitRetry
<1>32. CASE InitLatch
  BY <1>32 DEF InitLatch, Again
<1>33. ASSUME NEW f \in BOOLEAN, InitModules(f) PROVE ReinitPhase'
  BY <1>33 DEF InitModules
<1>34. CASE ShZero
  BY <1>34 DEF ShZero
<1>35. CASE ShStop
  BY <1>35 DEF ShStop
<1>36. CASE ShLook
  BY <1>36 DEF ShLook
<1>37. CASE ShLock
  BY <1>37 DEF ShLock
<1>38. CASE ShSkip
  BY <1>38 DEF ShSkip
<1>39. CASE ShUnlock
  BY <1>39 DEF ShUnlock
<1>40. ASSUME NEW m \in Idx, ShBegin(m) PROVE ReinitPhase'
  BY <1>40 DEF ShBegin
<1>41. ASSUME NEW m \in Idx, ShCopy(m) PROVE ReinitPhase'
  BY <1>41 DEF ShCopy, ShNext
<1>42. ASSUME NEW m \in Idx, NEW lost \in BOOLEAN, ShFail(m, lost)
    PROVE  ReinitPhase'
  BY <1>42 DEF ShFail, ShNext, RecordError
<1>43. CASE UNCHANGED vars
  BY <1>43 DEF vars
<1> QED
  BY <1>1, <1>2, <1>3, <1>4, <1>5, <1>6, <1>7, <1>8, <1>9, <1>10, <1>11,
       <1>12, <1>13, <1>14, <1>15, <1>16, <1>17, <1>18, <1>19, <1>20, <1>21,
       <1>22, <1>23, <1>24, <1>25, <1>26, <1>27, <1>28, <1>29, <1>30, <1>31,
       <1>32, <1>33, <1>34, <1>35, <1>36, <1>37, <1>38, <1>39, <1>40, <1>41,
       <1>42, <1>43
  DEF Next, Env, Control, ReadoutThread, ReadoutDt, Readout, Finalize, Reinit,
      ShadowThread

-----------------------------------------------------------------------------
(* A trigger is for a new event.                                           *)

LEMMA TriggerStep ==
    TypeOK /\ ReleasedOnce /\ ReinitPhase /\ TriggerNew /\ [Next]_vars
    => TriggerNew'
<1> SUFFICES ASSUME TypeOK, ReleasedOnce, ReinitPhase, TriggerNew, [Next]_vars
    PROVE  TriggerNew'
  OBVIOUS
<1> USE DEF TypeOK, HwType, CrateType, ReleasedOnce, ReinitPhase, TriggerNew,
      Go,
      hwVars, rVars, cycVars
<1>1. ASSUME NEW miss \in Faults, Accept(miss) PROVE TriggerNew'
  BY <1>1 DEF Accept
<1>2. ASSUME NEW m \in Data, Convert(m) PROVE TriggerNew'
  BY <1>2 DEF Convert
<1>3. CASE Trigger
  BY <1>3 DEF Trigger
<1>4. ASSUME NEW m \in Idx, ConfigWrite(m) PROVE TriggerNew'
  BY <1>4 DEF ConfigWrite
<1>5. CASE DtEnter
  BY <1>5 DEF DtEnter
<1>6. CASE DtLock
  BY <1>6 DEF DtLock
<1>7. CASE DtSkip
  BY <1>7 DEF DtSkip
<1>8. CASE DtRelock
  BY <1>8 DEF DtRelock
<1>9. CASE DtEnd
  BY <1>9 DEF DtEnd
<1>10. CASE DtState
  BY <1>10 DEF DtState
<1>11. ASSUME NEW m \in Idx, DtOk(m) PROVE TriggerNew'
  BY <1>11 DEF DtOk, DtNext
<1>12. ASSUME NEW m \in Idx, DtYield(m) PROVE TriggerNew'
  BY <1>12 DEF DtYield
<1>13. ASSUME NEW m \in Idx, DtTimeout(m) PROVE TriggerNew'
  BY <1>13 DEF DtTimeout, DtNext
<1>14. ASSUME NEW m \in Idx, DtFail(m) PROVE TriggerNew'
  BY <1>14 DEF DtFail, DtNext
<1>15. CASE RoStart
  BY <1>15 DEF RoStart
<1>16. CASE RoRelease
  BY <1>16 DEF RoRelease, dt_release, Release
<1>17. CASE RoSkip
  BY <1>17 DEF RoSkip, RoNext
<1>18. ASSUME NEW m \in Idx, NEW f \in BOOLEAN, RoRead(m, f) PROVE TriggerNew'
  BY <1>18 DEF RoRead, RoNext
<1>19. ASSUME NEW m \in Idx, NEW f \in BOOLEAN, RoMergeEnd(m, f)
    PROVE  TriggerNew'
  BY <1>19 DEF RoMergeEnd, RoNext
<1>20. ASSUME NEW m \in Idx, RoMergeFull(m) PROVE TriggerNew'
  BY <1>20 DEF RoMergeFull, RoNext
<1>21. ASSUME NEW m \in Idx, RoMergeBegin(m) PROVE TriggerNew'
  BY <1>21 DEF RoMergeBegin
<1>22. CASE RoEndFail
  BY <1>22 DEF RoEndFail
<1>23. CASE RoEndCheck
  BY <1>23 DEF RoEndCheck
<1>24. CASE RoEndReleased
  BY <1>24 DEF RoEndReleased
<1>25. CASE Fin
  BY <1>25 DEF Fin
<1>26. CASE FinState
  BY <1>26 DEF FinState, StateAfterReinit
<1>27. CASE Return
  BY <1>27 DEF Return
<1>28. ASSUME NEW f \in BOOLEAN, FinReconfig(f) PROVE TriggerNew'
  BY <1>28 DEF FinReconfig
<1>29. CASE Deinit
  BY <1>29 DEF Deinit
<1>30. CASE DeinitModules
  BY <1>30 DEF DeinitModules
<1>31. CASE InitRetry
  BY <1>31 DEF InitRetry
<1>32. CASE InitLatch
  BY <1>32 DEF InitLatch, Again
<1>33. ASSUME NEW f \in BOOLEAN, InitModules(f) PROVE TriggerNew'
  BY <1>33 DEF InitModules
<1>34. CASE ShZero
  BY <1>34 DEF ShZero
<1>35. CASE ShStop
  BY <1>35 DEF ShStop
<1>36. CASE ShLook
  BY <1>36 DEF ShLook
<1>37. CASE ShLock
  BY <1>37 DEF ShLock
<1>38. CASE ShSkip
  BY <1>38 DEF ShSkip
<1>39. CASE ShUnlock
  BY <1>39 DEF ShUnlock
<1>40. ASSUME NEW m \in Idx, ShBegin(m) PROVE TriggerNew'
  BY <1>40 DEF ShBegin
<1>41. ASSUME NEW m \in Idx, ShCopy(m) PROVE TriggerNew'
  BY <1>41 DEF ShCopy, ShNext
<1>42. ASSUME NEW m \in Idx, NEW lost \in BOOLEAN, ShFail(m, lost)
    PROVE  TriggerNew'
  BY <1>42 DEF ShFail, ShNext, RecordError
<1>43. CASE UNCHANGED vars
  BY <1>43 DEF vars
<1> QED
  BY <1>1, <1>2, <1>3, <1>4, <1>5, <1>6, <1>7, <1>8, <1>9, <1>10, <1>11,
       <1>12, <1>13, <1>14, <1>15, <1>16, <1>17, <1>18, <1>19, <1>20, <1>21,
       <1>22, <1>23, <1>24, <1>25, <1>26, <1>27, <1>28, <1>29, <1>30, <1>31,
       <1>32, <1>33, <1>34, <1>35, <1>36, <1>37, <1>38, <1>39, <1>40, <1>41,
       <1>42, <1>43
  DEF Next, Env, Control, ReadoutThread, ReadoutDt, Readout, Finalize, Reinit,
      ShadowThread

-----------------------------------------------------------------------------
(* The crate counter moves.                                                *)

LEMMA CounterStep ==
    TypeOK /\ ReinitPhase /\ TriggerNew /\ CounterMoves /\ [Next]_vars
    => CounterMoves'
<1> SUFFICES ASSUME TypeOK, ReinitPhase, TriggerNew, CounterMoves, [Next]_vars
    PROVE  CounterMoves'
  OBVIOUS
<1> USE DEF TypeOK, HwType, CrateType, ReinitPhase, TriggerNew, CounterMoves,
      Serving,
      Go, rVars, cycVars
<1>1. ASSUME NEW miss \in Faults, Accept(miss) PROVE CounterMoves'
  BY <1>1 DEF Accept
<1>2. ASSUME NEW m \in Data, Convert(m) PROVE CounterMoves'
  BY <1>2 DEF Convert
<1>3. CASE Trigger
  BY <1>3 DEF Trigger
<1>4. ASSUME NEW m \in Idx, ConfigWrite(m) PROVE CounterMoves'
  BY <1>4 DEF ConfigWrite
<1>5. CASE DtEnter
  BY <1>5 DEF DtEnter
<1>6. CASE DtLock
  BY <1>6 DEF DtLock
<1>7. CASE DtSkip
  BY <1>7 DEF DtSkip
<1>8. CASE DtRelock
  BY <1>8 DEF DtRelock
<1>9. CASE DtEnd
  BY <1>9 DEF DtEnd
<1>10. CASE DtState
  BY <1>10 DEF DtState
<1>11. ASSUME NEW m \in Idx, DtOk(m) PROVE CounterMoves'
  BY <1>11 DEF DtOk, DtNext
<1>12. ASSUME NEW m \in Idx, DtYield(m) PROVE CounterMoves'
  BY <1>12 DEF DtYield
<1>13. ASSUME NEW m \in Idx, DtTimeout(m) PROVE CounterMoves'
  BY <1>13 DEF DtTimeout, DtNext
<1>14. ASSUME NEW m \in Idx, DtFail(m) PROVE CounterMoves'
  BY <1>14 DEF DtFail, DtNext
<1>15. CASE RoStart
  BY <1>15 DEF RoStart
<1>16. CASE RoRelease
  BY <1>16 DEF RoRelease, dt_release, Release
<1>17. CASE RoSkip
  BY <1>17 DEF RoSkip, RoNext
<1>18. ASSUME NEW m \in Idx, NEW f \in BOOLEAN, RoRead(m, f)
    PROVE  CounterMoves'
  BY <1>18 DEF RoRead, RoNext
<1>19. ASSUME NEW m \in Idx, NEW f \in BOOLEAN, RoMergeEnd(m, f)
    PROVE  CounterMoves'
  BY <1>19 DEF RoMergeEnd, RoNext
<1>20. ASSUME NEW m \in Idx, RoMergeFull(m) PROVE CounterMoves'
  BY <1>20 DEF RoMergeFull, RoNext
<1>21. ASSUME NEW m \in Idx, RoMergeBegin(m) PROVE CounterMoves'
  BY <1>21 DEF RoMergeBegin
<1>22. CASE RoEndFail
  BY <1>22 DEF RoEndFail
<1>23. CASE RoEndCheck
  BY <1>23 DEF RoEndCheck
<1>24. CASE RoEndReleased
  BY <1>24 DEF RoEndReleased
<1>25. CASE Fin
  BY <1>25 DEF Fin
<1>26. CASE FinState
  BY <1>26 DEF FinState
<1>27. CASE Return
  BY <1>27 DEF Return
<1>28. ASSUME NEW f \in BOOLEAN, FinReconfig(f) PROVE CounterMoves'
  BY <1>28 DEF FinReconfig
<1>29. CASE Deinit
  BY <1>29 DEF Deinit
<1>30. CASE DeinitModules
  BY <1>30 DEF DeinitModules
<1>31. CASE InitRetry
  BY <1>31 DEF InitRetry
<1>32. CASE InitLatch
  BY <1>32 DEF InitLatch, Again
<1>33. ASSUME NEW f \in BOOLEAN, InitModules(f) PROVE CounterMoves'
  BY <1>33 DEF InitModules
<1>34. CASE ShZero
  BY <1>34 DEF ShZero
<1>35. CASE ShStop
  BY <1>35 DEF ShStop
<1>36. CASE ShLook
  BY <1>36 DEF ShLook
<1>37. CASE ShLock
  BY <1>37 DEF ShLock
<1>38. CASE ShSkip
  BY <1>38 DEF ShSkip
<1>39. CASE ShUnlock
  BY <1>39 DEF ShUnlock
<1>40. ASSUME NEW m \in Idx, ShBegin(m) PROVE CounterMoves'
  BY <1>40 DEF ShBegin
<1>41. ASSUME NEW m \in Idx, ShCopy(m) PROVE CounterMoves'
  BY <1>41 DEF ShCopy, ShNext
<1>42. ASSUME NEW m \in Idx, NEW lost \in BOOLEAN, ShFail(m, lost)
    PROVE  CounterMoves'
  BY <1>42 DEF ShFail, ShNext, RecordError
<1>43. CASE UNCHANGED vars
  BY <1>43 DEF vars
<1> QED
  BY <1>1, <1>2, <1>3, <1>4, <1>5, <1>6, <1>7, <1>8, <1>9, <1>10, <1>11,
       <1>12, <1>13, <1>14, <1>15, <1>16, <1>17, <1>18, <1>19, <1>20, <1>21,
       <1>22, <1>23, <1>24, <1>25, <1>26, <1>27, <1>28, <1>29, <1>30, <1>31,
       <1>32, <1>33, <1>34, <1>35, <1>36, <1>37, <1>38, <1>39, <1>40, <1>41,
       <1>42, <1>43
  DEF Next, Env, Control, ReadoutThread, ReadoutDt, Readout, Finalize, Reinit,
      ShadowThread

-----------------------------------------------------------------------------
(* A shadow thread that has not run.                                       *)

LEMMA FreshStep ==
    TypeOK /\ ReinitPhase /\ CounterMoves /\ NotYetRunning
      /\ Shadow \cap SkipDt = {} /\ [Next]_vars => NotYetRunning'
<1> SUFFICES ASSUME TypeOK, ReinitPhase, CounterMoves, NotYetRunning,
                    Shadow \cap SkipDt = {}, [Next]_vars
    PROVE  NotYetRunning'
  OBVIOUS
<1> USE DEF ReinitPhase, CounterMoves, Serving, NotYetRunning, Go, ShGo,
      modVars, rVars, cycVars, shVars
<1>a. Shadow \subseteq Idx /\ Shadow \subseteq Waited
      /\ \A k \in Idx : k \in Int /\ 1 <= k /\ k <= N
  BY ListAssumption DEF ListAssumption, Shadow, Idx, Waited, Data
<1>b. ri \in Int /\ N \in Int
  BY ListAssumption DEF ListAssumption, TypeOK, ReadoutType
<1>1. ASSUME NEW miss \in Faults, Accept(miss) PROVE NotYetRunning'
  BY <1>1 DEF Accept
<1>2. ASSUME NEW m \in Data, Convert(m) PROVE NotYetRunning'
  BY <1>2 DEF Convert
<1>3. CASE Trigger
  BY <1>3 DEF Trigger
<1>4. ASSUME NEW m \in Idx, ConfigWrite(m) PROVE NotYetRunning'
  BY <1>4 DEF ConfigWrite
<1>5. CASE DtEnter
  BY <1>5 DEF DtEnter
<1>6. CASE DtLock
  BY <1>6, <1>a DEF DtLock, TypeOK, ReadoutType
<1>7. CASE DtSkip
  <2>1. \A m \in Shadow : m < ri' => m < ri
    BY <1>7, <1>a, <1>b DEF DtSkip, Waited, Data
  <2> QED BY <1>7, <2>1 DEF DtSkip
<1>8. CASE DtRelock
  BY <1>8 DEF DtRelock
<1>9. CASE DtEnd
  <2>1. \A m \in Shadow : m < ri
    BY <1>9, <1>a, <1>b DEF DtEnd
  <2> QED BY <1>9, <2>1 DEF DtEnd
<1>10. CASE DtState
  BY <1>10 DEF DtState, TypeOK, ReadoutType
<1>11. ASSUME NEW m \in Idx, DtOk(m) PROVE NotYetRunning'
  <2>1. CASE spc = "zero" /\ m \in Shadow
    <3>1. off[m] + cprev = sdc[m] /\ cprev < ctr
      BY <1>11, <2>1 DEF DtOk
    <3>2. ctr - sdc[m] + off[m] = 0
      BY <1>11, <2>1 DEF DtOk, InStep, Diff
    <3>3. off[m] \in Int /\ sdc[m] \in Int /\ ctr \in Int /\ cprev \in Int
      BY DEF TypeOK, ModuleType, CrateType
    <3> QED BY <3>1, <3>2, <3>3
  <2>2. CASE spc # "zero"
    BY <1>11, <2>2 DEF DtOk, DtNext
  <2>3. CASE m \notin Shadow
    <3>1. \A k \in Shadow : k < ri' => k < ri
      BY <1>11, <2>3, <1>a, <1>b DEF DtOk, DtNext
    <3> QED BY <1>11, <3>1 DEF DtOk, DtNext
  <2> QED BY <2>1, <2>2, <2>3
<1>12. ASSUME NEW m \in Idx, DtYield(m) PROVE NotYetRunning'
  BY <1>12 DEF DtYield
<1>13. ASSUME NEW m \in Idx, DtTimeout(m) PROVE NotYetRunning'
  BY <1>13 DEF DtTimeout, DtNext
<1>14. ASSUME NEW m \in Idx, DtFail(m) PROVE NotYetRunning'
  BY <1>14 DEF DtFail, DtNext
<1>15. CASE RoStart
  BY <1>15 DEF RoStart
<1>16. CASE RoRelease
  BY <1>16 DEF RoRelease, dt_release, Release
<1>17. CASE RoSkip
  BY <1>17 DEF RoSkip, RoNext
<1>18. ASSUME NEW m \in Idx, NEW f \in BOOLEAN, RoRead(m, f)
    PROVE  NotYetRunning'
  BY <1>18 DEF RoRead, RoNext
<1>19. ASSUME NEW m \in Idx, NEW f \in BOOLEAN, RoMergeEnd(m, f)
    PROVE  NotYetRunning'
  BY <1>19 DEF RoMergeEnd, RoNext
<1>20. ASSUME NEW m \in Idx, RoMergeFull(m) PROVE NotYetRunning'
  BY <1>20 DEF RoMergeFull, RoNext
<1>21. ASSUME NEW m \in Idx, RoMergeBegin(m) PROVE NotYetRunning'
  BY <1>21 DEF RoMergeBegin
<1>22. CASE RoEndFail
  BY <1>22 DEF RoEndFail
<1>23. CASE RoEndCheck
  BY <1>23 DEF RoEndCheck
<1>24. CASE RoEndReleased
  BY <1>24 DEF RoEndReleased
<1>25. CASE Fin
  BY <1>25 DEF Fin
<1>26. CASE FinState
  BY <1>26 DEF FinState
<1>27. CASE Return
  BY <1>27 DEF Return
<1>28. ASSUME NEW f \in BOOLEAN, FinReconfig(f) PROVE NotYetRunning'
  <2>1. \A m \in Shadow : off[m] + cprev = sdc[m] => off'[m] + cprev = sdc'[m]
    <3>1. cprev = ctr
      BY <1>28 DEF FinReconfig
    <3>2. ctr \in Int /\ \A m \in Idx : ec[m] \in Int
      BY DEF TypeOK, CrateType, ModuleType
    <3> QED BY <1>28, <1>a, <3>1, <3>2 DEF FinReconfig, Latch
  <2> QED BY <1>28, <2>1 DEF FinReconfig
<1>29. CASE Deinit
  BY <1>29 DEF Deinit
<1>30. CASE DeinitModules
  BY <1>30 DEF DeinitModules
<1>31. CASE InitRetry
  BY <1>31 DEF InitRetry
<1>32. CASE InitLatch
  <2>1. \A m \in Shadow : off'[m] + cprev' = sdc'[m]
    <3>1. ms \in Int /\ \A m \in Idx : ec[m] \in Int
      BY DEF TypeOK, HwType, ModuleType
    <3> QED BY <1>32, <1>a, <3>1 DEF InitLatch, Latch
  <2> QED BY <1>32, <2>1 DEF InitLatch, Again
<1>33. ASSUME NEW f \in BOOLEAN, InitModules(f) PROVE NotYetRunning'
  BY <1>33 DEF InitModules
<1>34. CASE ShZero
  BY <1>34 DEF ShZero
<1>35. CASE ShStop
  BY <1>35 DEF ShStop
<1>36. CASE ShLook
  BY <1>36 DEF ShLook
<1>37. CASE ShLock
  BY <1>37 DEF ShLock
<1>38. CASE ShSkip
  BY <1>38 DEF ShSkip
<1>39. CASE ShUnlock
  BY <1>39 DEF ShUnlock
<1>40. ASSUME NEW m \in Idx, ShBegin(m) PROVE NotYetRunning'
  BY <1>40 DEF ShBegin
<1>41. ASSUME NEW m \in Idx, ShCopy(m) PROVE NotYetRunning'
  BY <1>41 DEF ShCopy, ShNext
<1>42. ASSUME NEW m \in Idx, NEW lost \in BOOLEAN, ShFail(m, lost)
    PROVE  NotYetRunning'
  BY <1>42 DEF ShFail, ShNext, RecordError
<1>43. CASE UNCHANGED vars
  BY <1>43 DEF vars
<1> QED
  BY <1>1, <1>2, <1>3, <1>4, <1>5, <1>6, <1>7, <1>8, <1>9, <1>10, <1>11,
       <1>12, <1>13, <1>14, <1>15, <1>16, <1>17, <1>18, <1>19, <1>20, <1>21,
       <1>22, <1>23, <1>24, <1>25, <1>26, <1>27, <1>28, <1>29, <1>30, <1>31,
       <1>32, <1>33, <1>34, <1>35, <1>36, <1>37, <1>38, <1>39, <1>40, <1>41,
       <1>42, <1>43
  DEF Next, Env, Control, ReadoutThread, ReadoutDt, Readout, Finalize, Reinit,
      ShadowThread

-----------------------------------------------------------------------------
(* The two buffers of a module.                                            *)

LEMMA OwnStep ==
    TypeOK /\ LockHeld /\ NotYetRunning /\ OwnBuffer /\ [Next]_vars
    => OwnBuffer'
<1> SUFFICES ASSUME TypeOK, LockHeld, NotYetRunning, OwnBuffer, [Next]_vars
    PROVE  OwnBuffer'
  OBVIOUS
<1> USE DEF TypeOK, BufferType, LockHeld, NotYetRunning, OwnBuffer, Go, ShGo,
      bufVars, rVars, cycVars, shVars
<1>1. ASSUME NEW miss \in Faults, Accept(miss) PROVE OwnBuffer'
  BY <1>1 DEF Accept
<1>2. ASSUME NEW m \in Data, Convert(m) PROVE OwnBuffer'
  BY <1>2 DEF Convert
<1>3. CASE Trigger
  BY <1>3 DEF Trigger
<1>4. ASSUME NEW m \in Idx, ConfigWrite(m) PROVE OwnBuffer'
  BY <1>4 DEF ConfigWrite
<1>5. CASE DtEnter
  BY <1>5 DEF DtEnter
<1>6. CASE DtLock
  BY <1>6 DEF DtLock
<1>7. CASE DtSkip
  BY <1>7 DEF DtSkip
<1>8. CASE DtRelock
  BY <1>8 DEF DtRelock
<1>9. CASE DtEnd
  BY <1>9 DEF DtEnd
<1>10. CASE DtState
  BY <1>10 DEF DtState
<1>11. ASSUME NEW m \in Idx, DtOk(m) PROVE OwnBuffer'
  BY <1>11 DEF DtOk, DtNext
<1>12. ASSUME NEW m \in Idx, DtYield(m) PROVE OwnBuffer'
  BY <1>12 DEF DtYield
<1>13. ASSUME NEW m \in Idx, DtTimeout(m) PROVE OwnBuffer'
  BY <1>13 DEF DtTimeout, DtNext
<1>14. ASSUME NEW m \in Idx, DtFail(m) PROVE OwnBuffer'
  BY <1>14 DEF DtFail, DtNext
<1>15. CASE RoStart
  BY <1>15 DEF RoStart
<1>16. CASE RoRelease
  BY <1>16 DEF RoRelease, dt_release, Release
<1>17. CASE RoSkip
  BY <1>17 DEF RoSkip, RoNext
<1>18. ASSUME NEW m \in Idx, NEW f \in BOOLEAN, RoRead(m, f) PROVE OwnBuffer'
  BY <1>18 DEF RoRead, RoNext
<1>19. ASSUME NEW m \in Idx, NEW f \in BOOLEAN, RoMergeEnd(m, f)
    PROVE  OwnBuffer'
  BY <1>19 DEF RoMergeEnd, RoNext
<1>20. ASSUME NEW m \in Idx, RoMergeFull(m) PROVE OwnBuffer'
  BY <1>20 DEF RoMergeFull, RoNext
<1>21. ASSUME NEW m \in Idx, RoMergeBegin(m) PROVE OwnBuffer'
  BY <1>21 DEF RoMergeBegin
<1>22. CASE RoEndFail
  BY <1>22 DEF RoEndFail
<1>23. CASE RoEndCheck
  BY <1>23 DEF RoEndCheck
<1>24. CASE RoEndReleased
  BY <1>24 DEF RoEndReleased
<1>25. CASE Fin
  BY <1>25 DEF Fin
<1>26. CASE FinState
  BY <1>26 DEF FinState
<1>27. CASE Return
  BY <1>27 DEF Return
<1>28. ASSUME NEW f \in BOOLEAN, FinReconfig(f) PROVE OwnBuffer'
  BY <1>28 DEF FinReconfig
<1>29. CASE Deinit
  BY <1>29 DEF Deinit
<1>30. CASE DeinitModules
  BY <1>30 DEF DeinitModules
<1>31. CASE InitRetry
  BY <1>31 DEF InitRetry
<1>32. CASE InitLatch
  BY <1>32 DEF InitLatch, Again
<1>33. ASSUME NEW f \in BOOLEAN, InitModules(f) PROVE OwnBuffer'
  BY <1>33 DEF InitModules
<1>34. CASE ShZero
  BY <1>34 DEF ShZero
<1>35. CASE ShStop
  BY <1>35 DEF ShStop
<1>36. CASE ShLook
  BY <1>36 DEF ShLook
<1>37. CASE ShLock
  BY <1>37 DEF ShLock
<1>38. CASE ShSkip
  BY <1>38 DEF ShSkip
<1>39. CASE ShUnlock
  BY <1>39 DEF ShUnlock
<1>40. ASSUME NEW m \in Idx, ShBegin(m) PROVE OwnBuffer'
  BY <1>40 DEF ShBegin
<1>41. ASSUME NEW m \in Idx, ShCopy(m) PROVE OwnBuffer'
  BY <1>41 DEF ShCopy, ShNext
<1>42. ASSUME NEW m \in Idx, NEW lost \in BOOLEAN, ShFail(m, lost)
    PROVE  OwnBuffer'
  BY <1>42 DEF ShFail, ShNext, RecordError
<1>43. CASE UNCHANGED vars
  BY <1>43 DEF vars
<1> QED
  BY <1>1, <1>2, <1>3, <1>4, <1>5, <1>6, <1>7, <1>8, <1>9, <1>10, <1>11,
       <1>12, <1>13, <1>14, <1>15, <1>16, <1>17, <1>18, <1>19, <1>20, <1>21,
       <1>22, <1>23, <1>24, <1>25, <1>26, <1>27, <1>28, <1>29, <1>30, <1>31,
       <1>32, <1>33, <1>34, <1>35, <1>36, <1>37, <1>38, <1>39, <1>40, <1>41,
       <1>42, <1>43
  DEF Next, Env, Control, ReadoutThread, ReadoutDt, Readout, Finalize, Reinit,
      ShadowThread

-----------------------------------------------------------------------------
(* for_it in crate_readout_dt.                                             *)

LEMMA BehindStep == TypeOK /\ ForItBehind /\ [Next]_vars => ForItBehind'
<1> SUFFICES ASSUME TypeOK, ForItBehind, [Next]_vars PROVE ForItBehind'
  OBVIOUS
<1> USE DEF ForItBehind, Go, Idx, Waited, Data, rVars, relVars
<1>a. ri \in Int /\ 1 <= ri /\ ri <= N + 1 /\ N \in Int /\ 1 <= N
      /\ rfor \in Int
  BY ListAssumption DEF ListAssumption, TypeOK, ReadoutType
<1>b. forIt \in Int /\ 0 <= forIt
  BY DEF TypeOK, CrateType
<1>1. ASSUME NEW miss \in Faults, Accept(miss) PROVE ForItBehind'
  BY <1>1 DEF Accept
<1>2. ASSUME NEW m \in Data, Convert(m) PROVE ForItBehind'
  BY <1>2 DEF Convert
<1>3. CASE Trigger
  BY <1>3 DEF Trigger
<1>4. ASSUME NEW m \in Idx, ConfigWrite(m) PROVE ForItBehind'
  BY <1>4 DEF ConfigWrite
<1>5. CASE DtEnter
  BY <1>5 DEF DtEnter
<1>6. CASE DtLock
  BY <1>6 DEF DtLock
<1>7. CASE DtSkip
  BY <1>7, <1>a, <1>b DEF DtSkip
<1>8. CASE DtRelock
  BY <1>8 DEF DtRelock
<1>9. CASE DtEnd
  BY <1>9 DEF DtEnd, InhibitIf
<1>10. CASE DtState
  BY <1>10 DEF DtState
<1>11. ASSUME NEW m \in Idx, DtOk(m) PROVE ForItBehind'
  BY <1>11, <1>a, <1>b DEF DtOk, DtNext, ForItAfter
<1>12. ASSUME NEW m \in Idx, DtYield(m) PROVE ForItBehind'
  BY <1>12 DEF DtYield
<1>13. ASSUME NEW m \in Idx, DtTimeout(m) PROVE ForItBehind'
  BY <1>13, <1>a, <1>b DEF DtTimeout, DtNext
<1>14. ASSUME NEW m \in Idx, DtFail(m) PROVE ForItBehind'
  BY <1>14, <1>a, <1>b DEF DtFail, DtNext
<1>15. CASE RoStart
  BY <1>15 DEF RoStart
<1>16. CASE RoRelease
  BY <1>16 DEF RoRelease, dt_release, Release
<1>17. CASE RoSkip
  BY <1>17 DEF RoSkip, RoNext
<1>18. ASSUME NEW m \in Idx, NEW f \in BOOLEAN, RoRead(m, f) PROVE ForItBehind'
  BY <1>18 DEF RoRead, RoNext
<1>19. ASSUME NEW m \in Idx, NEW f \in BOOLEAN, RoMergeEnd(m, f)
    PROVE  ForItBehind'
  BY <1>19 DEF RoMergeEnd, RoNext
<1>20. ASSUME NEW m \in Idx, RoMergeFull(m) PROVE ForItBehind'
  BY <1>20 DEF RoMergeFull, RoNext
<1>21. ASSUME NEW m \in Idx, RoMergeBegin(m) PROVE ForItBehind'
  BY <1>21 DEF RoMergeBegin
<1>22. CASE RoEndFail
  BY <1>22 DEF RoEndFail
<1>23. CASE RoEndCheck
  BY <1>23 DEF RoEndCheck
<1>24. CASE RoEndReleased
  BY <1>24 DEF RoEndReleased
<1>25. CASE Fin
  BY <1>25 DEF Fin
<1>26. CASE FinState
  BY <1>26 DEF FinState
<1>27. CASE Return
  BY <1>27 DEF Return
<1>28. ASSUME NEW f \in BOOLEAN, FinReconfig(f) PROVE ForItBehind'
  BY <1>28 DEF FinReconfig
<1>29. CASE Deinit
  BY <1>29 DEF Deinit
<1>30. CASE DeinitModules
  BY <1>30 DEF DeinitModules
<1>31. CASE InitRetry
  BY <1>31 DEF InitRetry
<1>32. CASE InitLatch
  BY <1>32 DEF InitLatch, Again
<1>33. ASSUME NEW f \in BOOLEAN, InitModules(f) PROVE ForItBehind'
  BY <1>33 DEF InitModules
<1>34. CASE ShZero
  BY <1>34 DEF ShZero
<1>35. CASE ShStop
  BY <1>35 DEF ShStop
<1>36. CASE ShLook
  BY <1>36 DEF ShLook
<1>37. CASE ShLock
  BY <1>37 DEF ShLock
<1>38. CASE ShSkip
  BY <1>38 DEF ShSkip
<1>39. CASE ShUnlock
  BY <1>39 DEF ShUnlock
<1>40. ASSUME NEW m \in Idx, ShBegin(m) PROVE ForItBehind'
  BY <1>40 DEF ShBegin
<1>41. ASSUME NEW m \in Idx, ShCopy(m) PROVE ForItBehind'
  BY <1>41 DEF ShCopy, ShNext
<1>42. ASSUME NEW m \in Idx, NEW lost \in BOOLEAN, ShFail(m, lost)
    PROVE  ForItBehind'
  BY <1>42 DEF ShFail, ShNext, RecordError
<1>43. CASE UNCHANGED vars
  BY <1>43 DEF vars
<1> QED
  BY <1>1, <1>2, <1>3, <1>4, <1>5, <1>6, <1>7, <1>8, <1>9, <1>10, <1>11,
       <1>12, <1>13, <1>14, <1>15, <1>16, <1>17, <1>18, <1>19, <1>20, <1>21,
       <1>22, <1>23, <1>24, <1>25, <1>26, <1>27, <1>28, <1>29, <1>30, <1>31,
       <1>32, <1>33, <1>34, <1>35, <1>36, <1>37, <1>38, <1>39, <1>40, <1>41,
       <1>42, <1>43
  DEF Next, Env, Control, ReadoutThread, ReadoutDt, Readout, Finalize, Reinit,
      ShadowThread

-----------------------------------------------------------------------------
(* for_it and the late modules.                                            *)

LEMMA PastLateStep ==
    TypeOK /\ NothingBeforeLate /\ ReinitPhase /\ ForItBehind /\ ForItPastLate
      /\ [Next]_vars => ForItPastLate'
<1> SUFFICES ASSUME TypeOK, NothingBeforeLate, ReinitPhase, ForItBehind,
                    ForItPastLate, [Next]_vars
    PROVE  ForItPastLate'
  OBVIOUS
<1> USE DEF NothingBeforeLate, ReinitPhase, ForItBehind, ForItPastLate, Go,
      rVars, relVars, cycVars
<1>a. ri \in Int /\ 1 <= ri /\ ri <= N + 1 /\ N \in Int /\ 1 <= N
      /\ rfor \in Int
  BY ListAssumption DEF ListAssumption, TypeOK, ReadoutType
<1>b. forIt \in Int /\ 0 <= forIt
  BY DEF TypeOK, CrateType
<1>c. Late \subseteq Idx /\ Late \subseteq Waited \ EarlyDt
      /\ \A k \in Idx : k \in Int /\ 1 <= k /\ k <= N
  BY <1>a DEF Late, Idx, Waited, Data
<1>1. ASSUME NEW miss \in Faults, Accept(miss) PROVE ForItPastLate'
  BY <1>1 DEF Accept
<1>2. ASSUME NEW m \in Data, Convert(m) PROVE ForItPastLate'
  BY <1>2 DEF Convert
<1>3. CASE Trigger
  BY <1>3 DEF Trigger
<1>4. ASSUME NEW m \in Idx, ConfigWrite(m) PROVE ForItPastLate'
  BY <1>4 DEF ConfigWrite
<1>5. CASE DtEnter
  BY <1>5 DEF DtEnter
<1>6. CASE DtLock
  BY <1>6, <1>a, <1>b, <1>c DEF DtLock
<1>7. CASE DtSkip
  BY <1>7, <1>a, <1>b, <1>c DEF DtSkip
<1>8. CASE DtRelock
  BY <1>8 DEF DtRelock
<1>9. CASE DtEnd
  BY <1>9, <1>a, <1>b, <1>c DEF DtEnd
<1>10. CASE DtState
  BY <1>10 DEF DtState
<1>11. ASSUME NEW m \in Idx, DtOk(m) PROVE ForItPastLate'
  <2>1. CASE m \in EarlyDt
    <3>1. forIt' = forIt /\ m \notin Late
      BY <1>11, <2>1, <1>c DEF DtOk, ForItAfter
    <3>2. \A k \in Late : k < ri' => k < ri
      BY <1>11, <3>1, <1>a, <1>c DEF DtOk, DtNext
    <3> QED BY <1>11, <3>1, <3>2 DEF DtOk, DtNext
  <2>2. CASE m \notin EarlyDt
    <3>1. m \in Late /\ m = ri /\ forIt' = rfor + 1
      BY <1>11, <2>2 DEF DtOk, ForItAfter, Late
    <3>2. 1..(ri - 1) \subseteq Waited
      BY <3>1, <1>a, <1>c
    <3>3. forIt' = ri /\ forIt <= forIt'
      BY <1>11, <3>1, <3>2, <1>a, <1>b DEF DtOk
    <3>4. \A k \in Late : k < ri' => k < ri \/ k = ri
      BY <1>11, <1>a, <1>c DEF DtOk, DtNext
    <3>5. \A k \in Late : k < ri' /\ ~rres' => k <= forIt'
      BY <1>11, <3>3, <3>4, <1>a, <1>b, <1>c DEF DtOk, DtNext
    <3> QED BY <1>11, <3>5 DEF DtOk, DtNext
  <2> QED BY <2>1, <2>2
<1>12. ASSUME NEW m \in Idx, DtYield(m) PROVE ForItPastLate'
  BY <1>12 DEF DtYield
<1>13. ASSUME NEW m \in Idx, DtTimeout(m) PROVE ForItPastLate'
  BY <1>13 DEF DtTimeout, DtNext
<1>14. ASSUME NEW m \in Idx, DtFail(m) PROVE ForItPastLate'
  BY <1>14 DEF DtFail, DtNext
<1>15. CASE RoStart
  BY <1>15 DEF RoStart
<1>16. CASE RoRelease
  BY <1>16 DEF RoRelease, dt_release, Release
<1>17. CASE RoSkip
  BY <1>17 DEF RoSkip, RoNext
<1>18. ASSUME NEW m \in Idx, NEW f \in BOOLEAN, RoRead(m, f)
    PROVE  ForItPastLate'
  BY <1>18 DEF RoRead, RoNext
<1>19. ASSUME NEW m \in Idx, NEW f \in BOOLEAN, RoMergeEnd(m, f)
    PROVE  ForItPastLate'
  BY <1>19 DEF RoMergeEnd, RoNext
<1>20. ASSUME NEW m \in Idx, RoMergeFull(m) PROVE ForItPastLate'
  BY <1>20 DEF RoMergeFull, RoNext
<1>21. ASSUME NEW m \in Idx, RoMergeBegin(m) PROVE ForItPastLate'
  BY <1>21 DEF RoMergeBegin
<1>22. CASE RoEndFail
  BY <1>22 DEF RoEndFail
<1>23. CASE RoEndCheck
  BY <1>23 DEF RoEndCheck
<1>24. CASE RoEndReleased
  BY <1>24 DEF RoEndReleased
<1>25. CASE Fin
  BY <1>25 DEF Fin
<1>26. CASE FinState
  BY <1>26 DEF FinState
<1>27. CASE Return
  BY <1>27 DEF Return
<1>28. ASSUME NEW f \in BOOLEAN, FinReconfig(f) PROVE ForItPastLate'
  BY <1>28 DEF FinReconfig
<1>29. CASE Deinit
  BY <1>29 DEF Deinit
<1>30. CASE DeinitModules
  BY <1>30 DEF DeinitModules
<1>31. CASE InitRetry
  BY <1>31 DEF InitRetry
<1>32. CASE InitLatch
  BY <1>32 DEF InitLatch, Again
<1>33. ASSUME NEW f \in BOOLEAN, InitModules(f) PROVE ForItPastLate'
  BY <1>33 DEF InitModules
<1>34. CASE ShZero
  BY <1>34 DEF ShZero
<1>35. CASE ShStop
  BY <1>35 DEF ShStop
<1>36. CASE ShLook
  BY <1>36 DEF ShLook
<1>37. CASE ShLock
  BY <1>37 DEF ShLock
<1>38. CASE ShSkip
  BY <1>38 DEF ShSkip
<1>39. CASE ShUnlock
  BY <1>39 DEF ShUnlock
<1>40. ASSUME NEW m \in Idx, ShBegin(m) PROVE ForItPastLate'
  BY <1>40 DEF ShBegin
<1>41. ASSUME NEW m \in Idx, ShCopy(m) PROVE ForItPastLate'
  BY <1>41 DEF ShCopy, ShNext
<1>42. ASSUME NEW m \in Idx, NEW lost \in BOOLEAN, ShFail(m, lost)
    PROVE  ForItPastLate'
  BY <1>42 DEF ShFail, ShNext, RecordError
<1>43. CASE UNCHANGED vars
  BY <1>43 DEF vars
<1> QED
  BY <1>1, <1>2, <1>3, <1>4, <1>5, <1>6, <1>7, <1>8, <1>9, <1>10, <1>11,
       <1>12, <1>13, <1>14, <1>15, <1>16, <1>17, <1>18, <1>19, <1>20, <1>21,
       <1>22, <1>23, <1>24, <1>25, <1>26, <1>27, <1>28, <1>29, <1>30, <1>31,
       <1>32, <1>33, <1>34, <1>35, <1>36, <1>37, <1>38, <1>39, <1>40, <1>41,
       <1>42, <1>43
  DEF Next, Env, Control, ReadoutThread, ReadoutDt, Readout, Finalize, Reinit,
      ShadowThread

-----------------------------------------------------------------------------
(* for_it stays in the list.                                               *)

LEMMA InListStep ==
    TypeOK /\ LastNotLate /\ ForItBehind /\ ForItInList /\ [Next]_vars
    => ForItInList'
<1> SUFFICES ASSUME TypeOK, LastNotLate, ForItBehind, ForItInList, [Next]_vars
    PROVE  ForItInList'
  OBVIOUS
<1> USE DEF LastNotLate, ForItBehind, ForItInList, rVars, relVars
<1>a. ri \in Int /\ 1 <= ri /\ ri <= N + 1 /\ N \in Int /\ 1 <= N
      /\ rfor \in Int
  BY ListAssumption DEF ListAssumption, TypeOK, ReadoutType
<1>b. forIt \in Int /\ 0 <= forIt
  BY DEF TypeOK, CrateType
<1>1. ASSUME NEW miss \in Faults, Accept(miss) PROVE ForItInList'
  BY <1>1 DEF Accept
<1>2. ASSUME NEW m \in Data, Convert(m) PROVE ForItInList'
  BY <1>2 DEF Convert
<1>3. CASE Trigger
  BY <1>3 DEF Trigger
<1>4. ASSUME NEW m \in Idx, ConfigWrite(m) PROVE ForItInList'
  BY <1>4 DEF ConfigWrite
<1>5. CASE DtEnter
  BY <1>5 DEF DtEnter
<1>6. CASE DtLock
  BY <1>6, <1>a, <1>b DEF DtLock
<1>7. CASE DtSkip
  BY <1>7 DEF DtSkip
<1>8. CASE DtRelock
  BY <1>8 DEF DtRelock
<1>9. CASE DtEnd
  BY <1>9 DEF DtEnd
<1>10. CASE DtState
  BY <1>10 DEF DtState
<1>11. ASSUME NEW m \in Idx, DtOk(m) PROVE ForItInList'
  <2>1. CASE m \in EarlyDt
    BY <1>11, <2>1 DEF DtOk, ForItAfter
  <2>2. CASE m \notin EarlyDt
    <3>1. m # N /\ m \in 1..N /\ m = ri /\ forIt' = rfor + 1
      BY <1>11, <2>2 DEF DtOk, ForItAfter, Late, Idx
    <3> QED BY <1>11, <3>1, <1>a DEF DtOk
  <2> QED BY <2>1, <2>2
<1>12. ASSUME NEW m \in Idx, DtYield(m) PROVE ForItInList'
  BY <1>12 DEF DtYield
<1>13. ASSUME NEW m \in Idx, DtTimeout(m) PROVE ForItInList'
  BY <1>13 DEF DtTimeout, DtNext
<1>14. ASSUME NEW m \in Idx, DtFail(m) PROVE ForItInList'
  BY <1>14 DEF DtFail, DtNext
<1>15. CASE RoStart
  BY <1>15 DEF RoStart
<1>16. CASE RoRelease
  BY <1>16 DEF RoRelease, dt_release, Release
<1>17. CASE RoSkip
  BY <1>17 DEF RoSkip, RoNext
<1>18. ASSUME NEW m \in Idx, NEW f \in BOOLEAN, RoRead(m, f) PROVE ForItInList'
  BY <1>18 DEF RoRead, RoNext
<1>19. ASSUME NEW m \in Idx, NEW f \in BOOLEAN, RoMergeEnd(m, f)
    PROVE  ForItInList'
  BY <1>19 DEF RoMergeEnd, RoNext
<1>20. ASSUME NEW m \in Idx, RoMergeFull(m) PROVE ForItInList'
  BY <1>20 DEF RoMergeFull, RoNext
<1>21. ASSUME NEW m \in Idx, RoMergeBegin(m) PROVE ForItInList'
  BY <1>21 DEF RoMergeBegin
<1>22. CASE RoEndFail
  BY <1>22 DEF RoEndFail
<1>23. CASE RoEndCheck
  BY <1>23 DEF RoEndCheck
<1>24. CASE RoEndReleased
  BY <1>24 DEF RoEndReleased
<1>25. CASE Fin
  BY <1>25 DEF Fin
<1>26. CASE FinState
  BY <1>26 DEF FinState
<1>27. CASE Return
  BY <1>27 DEF Return
<1>28. ASSUME NEW f \in BOOLEAN, FinReconfig(f) PROVE ForItInList'
  BY <1>28 DEF FinReconfig
<1>29. CASE Deinit
  BY <1>29 DEF Deinit
<1>30. CASE DeinitModules
  BY <1>30 DEF DeinitModules
<1>31. CASE InitRetry
  BY <1>31 DEF InitRetry
<1>32. CASE InitLatch
  BY <1>32 DEF InitLatch, Again
<1>33. ASSUME NEW f \in BOOLEAN, InitModules(f) PROVE ForItInList'
  BY <1>33 DEF InitModules
<1>34. CASE ShZero
  BY <1>34 DEF ShZero
<1>35. CASE ShStop
  BY <1>35 DEF ShStop
<1>36. CASE ShLook
  BY <1>36 DEF ShLook
<1>37. CASE ShLock
  BY <1>37 DEF ShLock
<1>38. CASE ShSkip
  BY <1>38 DEF ShSkip
<1>39. CASE ShUnlock
  BY <1>39 DEF ShUnlock
<1>40. ASSUME NEW m \in Idx, ShBegin(m) PROVE ForItInList'
  BY <1>40 DEF ShBegin
<1>41. ASSUME NEW m \in Idx, ShCopy(m) PROVE ForItInList'
  BY <1>41 DEF ShCopy, ShNext
<1>42. ASSUME NEW m \in Idx, NEW lost \in BOOLEAN, ShFail(m, lost)
    PROVE  ForItInList'
  BY <1>42 DEF ShFail, ShNext, RecordError
<1>43. CASE UNCHANGED vars
  BY <1>43 DEF vars
<1> QED
  BY <1>1, <1>2, <1>3, <1>4, <1>5, <1>6, <1>7, <1>8, <1>9, <1>10, <1>11,
       <1>12, <1>13, <1>14, <1>15, <1>16, <1>17, <1>18, <1>19, <1>20, <1>21,
       <1>22, <1>23, <1>24, <1>25, <1>26, <1>27, <1>28, <1>29, <1>30, <1>31,
       <1>32, <1>33, <1>34, <1>35, <1>36, <1>37, <1>38, <1>39, <1>40, <1>41,
       <1>42, <1>43
  DEF Next, Env, Control, ReadoutThread, ReadoutDt, Readout, Finalize, Reinit,
      ShadowThread

-----------------------------------------------------------------------------
(* dt_release.is_on.                                                       *)

LEMMA IsOnStep ==
    TypeOK /\ ReleasedOnce /\ ForItInList /\ IsOnFollows /\ [Next]_vars
    => IsOnFollows'
<1> SUFFICES ASSUME TypeOK, ReleasedOnce, ForItInList, IsOnFollows,
                    [Next]_vars
    PROVE  IsOnFollows'
  OBVIOUS
<1> USE DEF ReleasedOnce, ForItInList, IsOnFollows, Go, rVars, relVars, cycVars
<1>a. ri \in Int /\ 1 <= ri /\ ri <= N + 1 /\ N \in Int /\ 1 <= N
      /\ rfor \in Int
  BY ListAssumption DEF ListAssumption, TypeOK, ReadoutType
<1>b. forIt \in Int /\ 0 <= forIt
  BY DEF TypeOK, CrateType
<1>1. ASSUME NEW miss \in Faults, Accept(miss) PROVE IsOnFollows'
  BY <1>1 DEF Accept
<1>2. ASSUME NEW m \in Data, Convert(m) PROVE IsOnFollows'
  BY <1>2 DEF Convert
<1>3. CASE Trigger
  BY <1>3 DEF Trigger
<1>4. ASSUME NEW m \in Idx, ConfigWrite(m) PROVE IsOnFollows'
  BY <1>4 DEF ConfigWrite
<1>5. CASE DtEnter
  BY <1>5 DEF DtEnter
<1>6. CASE DtLock
  BY <1>6 DEF DtLock
<1>7. CASE DtSkip
  BY <1>7 DEF DtSkip
<1>8. CASE DtRelock
  BY <1>8 DEF DtRelock
<1>9. CASE DtEnd
  BY <1>9 DEF DtEnd
<1>10. CASE DtState
  BY <1>10 DEF DtState
<1>11. ASSUME NEW m \in Idx, DtOk(m) PROVE IsOnFollows'
  BY <1>11 DEF DtOk, DtNext
<1>12. ASSUME NEW m \in Idx, DtYield(m) PROVE IsOnFollows'
  BY <1>12 DEF DtYield
<1>13. ASSUME NEW m \in Idx, DtTimeout(m) PROVE IsOnFollows'
  BY <1>13 DEF DtTimeout, DtNext
<1>14. ASSUME NEW m \in Idx, DtFail(m) PROVE IsOnFollows'
  BY <1>14 DEF DtFail, DtNext
<1>15. CASE RoStart
  BY <1>15, <1>a, <1>b DEF RoStart
<1>16. CASE RoRelease
  <2>1. CASE forIt = ri - 1
    <3>1. cleared = FALSE
      BY <1>16, <2>1, <1>a DEF RoRelease, TypeOK, ReadoutType
    <3>2. CASE MayRelease
      <4>1. isOn' = FALSE /\ cleared' = TRUE
        BY <1>16, <2>1, <3>2 DEF RoRelease, dt_release, Release
      <4> QED BY <1>16, <4>1 DEF RoRelease
    <3>3. CASE ~MayRelease
      <4>1. isOn' = TRUE /\ cleared' = FALSE
        BY <1>16, <2>1, <3>1, <3>3 DEF RoRelease, dt_release
      <4> QED BY <1>16, <4>1 DEF RoRelease
    <3> QED BY <3>2, <3>3
  <2>2. CASE forIt # ri - 1
    BY <1>16, <2>2, <1>a, <1>b DEF RoRelease
  <2> QED BY <2>1, <2>2
<1>17. CASE RoSkip
  BY <1>17, <1>a, <1>b DEF RoSkip, RoNext
<1>18. ASSUME NEW m \in Idx, NEW f \in BOOLEAN, RoRead(m, f) PROVE IsOnFollows'
  BY <1>18, <1>a, <1>b DEF RoRead, RoNext
<1>19. ASSUME NEW m \in Idx, NEW f \in BOOLEAN, RoMergeEnd(m, f)
    PROVE  IsOnFollows'
  BY <1>19, <1>a, <1>b DEF RoMergeEnd, RoNext
<1>20. ASSUME NEW m \in Idx, RoMergeFull(m) PROVE IsOnFollows'
  BY <1>20, <1>a, <1>b DEF RoMergeFull, RoNext
<1>21. ASSUME NEW m \in Idx, RoMergeBegin(m) PROVE IsOnFollows'
  BY <1>21 DEF RoMergeBegin
<1>22. CASE RoEndFail
  BY <1>22 DEF RoEndFail
<1>23. CASE RoEndCheck
  BY <1>23, <1>a, <1>b DEF RoEndCheck
<1>24. CASE RoEndReleased
  BY <1>24, <1>a, <1>b DEF RoEndReleased
<1>25. CASE Fin
  BY <1>25 DEF Fin
<1>26. CASE FinState
  BY <1>26 DEF FinState
<1>27. CASE Return
  BY <1>27 DEF Return
<1>28. ASSUME NEW f \in BOOLEAN, FinReconfig(f) PROVE IsOnFollows'
  BY <1>28 DEF FinReconfig
<1>29. CASE Deinit
  BY <1>29 DEF Deinit
<1>30. CASE DeinitModules
  BY <1>30 DEF DeinitModules
<1>31. CASE InitRetry
  BY <1>31 DEF InitRetry
<1>32. CASE InitLatch
  BY <1>32 DEF InitLatch, Again
<1>33. ASSUME NEW f \in BOOLEAN, InitModules(f) PROVE IsOnFollows'
  BY <1>33 DEF InitModules
<1>34. CASE ShZero
  BY <1>34 DEF ShZero
<1>35. CASE ShStop
  BY <1>35 DEF ShStop
<1>36. CASE ShLook
  BY <1>36 DEF ShLook
<1>37. CASE ShLock
  BY <1>37 DEF ShLock
<1>38. CASE ShSkip
  BY <1>38 DEF ShSkip
<1>39. CASE ShUnlock
  BY <1>39 DEF ShUnlock
<1>40. ASSUME NEW m \in Idx, ShBegin(m) PROVE IsOnFollows'
  BY <1>40 DEF ShBegin
<1>41. ASSUME NEW m \in Idx, ShCopy(m) PROVE IsOnFollows'
  BY <1>41 DEF ShCopy, ShNext
<1>42. ASSUME NEW m \in Idx, NEW lost \in BOOLEAN, ShFail(m, lost)
    PROVE  IsOnFollows'
  BY <1>42 DEF ShFail, ShNext, RecordError
<1>43. CASE UNCHANGED vars
  BY <1>43 DEF vars
<1> QED
  BY <1>1, <1>2, <1>3, <1>4, <1>5, <1>6, <1>7, <1>8, <1>9, <1>10, <1>11,
       <1>12, <1>13, <1>14, <1>15, <1>16, <1>17, <1>18, <1>19, <1>20, <1>21,
       <1>22, <1>23, <1>24, <1>25, <1>26, <1>27, <1>28, <1>29, <1>30, <1>31,
       <1>32, <1>33, <1>34, <1>35, <1>36, <1>37, <1>38, <1>39, <1>40, <1>41,
       <1>42, <1>43
  DEF Next, Env, Control, ReadoutThread, ReadoutDt, Readout, Finalize, Reinit,
      ShadowThread

-----------------------------------------------------------------------------
(* A pending re-config that crate_readout_dt has seen.                     *)

LEMMA DueStep ==
    TypeOK /\ ReleasedOnce /\ ReinitPhase /\ ForItInList /\ IsOnFollows
      /\ DueInhibits /\ [Next]_vars => DueInhibits'
<1> SUFFICES ASSUME TypeOK, ReleasedOnce, ReinitPhase, ForItInList,
                    IsOnFollows, DueInhibits, [Next]_vars
    PROVE  DueInhibits'
  OBVIOUS
<1> USE DEF ReleasedOnce, ReinitPhase, ForItInList, IsOnFollows, DueInhibits, Go,
      rVars, relVars, cycVars
<1>a. ri \in Int /\ 1 <= ri /\ ri <= N + 1 /\ N \in Int /\ 1 <= N
      /\ rfor \in Int
  BY ListAssumption DEF ListAssumption, TypeOK, ReadoutType
<1>b. forIt \in Int /\ 0 <= forIt /\ inhibit \in BOOLEAN /\ isOn \in BOOLEAN
  BY DEF TypeOK, CrateType
<1>1. ASSUME NEW miss \in Faults, Accept(miss) PROVE DueInhibits'
  BY <1>1 DEF Accept
<1>2. ASSUME NEW m \in Data, Convert(m) PROVE DueInhibits'
  BY <1>2 DEF Convert
<1>3. CASE Trigger
  BY <1>3 DEF Trigger
<1>4. ASSUME NEW m \in Idx, ConfigWrite(m) PROVE DueInhibits'
  BY <1>4 DEF ConfigWrite
<1>5. CASE DtEnter
  BY <1>5 DEF DtEnter
<1>6. CASE DtLock
  BY <1>6 DEF DtLock
<1>7. CASE DtSkip
  BY <1>7 DEF DtSkip
<1>8. CASE DtRelock
  BY <1>8 DEF DtRelock
<1>9. CASE DtEnd
  BY <1>9 DEF DtEnd, InhibitIf
<1>10. CASE DtState
  BY <1>10 DEF DtState
<1>11. ASSUME NEW m \in Idx, DtOk(m) PROVE DueInhibits'
  BY <1>11 DEF DtOk, DtNext
<1>12. ASSUME NEW m \in Idx, DtYield(m) PROVE DueInhibits'
  BY <1>12 DEF DtYield
<1>13. ASSUME NEW m \in Idx, DtTimeout(m) PROVE DueInhibits'
  BY <1>13 DEF DtTimeout, DtNext
<1>14. ASSUME NEW m \in Idx, DtFail(m) PROVE DueInhibits'
  BY <1>14 DEF DtFail, DtNext
<1>15. CASE RoStart
  BY <1>15, <1>a, <1>b DEF RoStart
<1>16. CASE RoRelease
  <2>1. CASE forIt = ri - 1 /\ due # {} /\ ret = "no"
    <3>1. inhibit = TRUE
      BY <1>16, <2>1, <1>a, <1>b DEF RoRelease
    <3>2. isOn' = TRUE /\ forIt' < ri'
      BY <1>16, <2>1, <3>1, <1>a, <1>b DEF RoRelease, dt_release, MayRelease
    <3> QED BY <1>16, <3>2 DEF RoRelease
  <2>2. CASE forIt = ri - 1 /\ ~(due # {} /\ ret = "no")
    BY <1>16, <2>2 DEF RoRelease
  <2>3. CASE forIt # ri - 1
    BY <1>16, <2>3, <1>a, <1>b DEF RoRelease
  <2> QED BY <2>1, <2>2, <2>3
<1>17. CASE RoSkip
  BY <1>17, <1>a, <1>b DEF RoSkip, RoNext
<1>18. ASSUME NEW m \in Idx, NEW f \in BOOLEAN, RoRead(m, f)
    PROVE  DueInhibits'
  BY <1>18, <1>a, <1>b DEF RoRead, RoNext
<1>19. ASSUME NEW m \in Idx, NEW f \in BOOLEAN, RoMergeEnd(m, f)
    PROVE  DueInhibits'
  BY <1>19, <1>a, <1>b DEF RoMergeEnd, RoNext
<1>20. ASSUME NEW m \in Idx, RoMergeFull(m) PROVE DueInhibits'
  BY <1>20, <1>a, <1>b DEF RoMergeFull, RoNext
<1>21. ASSUME NEW m \in Idx, RoMergeBegin(m) PROVE DueInhibits'
  BY <1>21 DEF RoMergeBegin
<1>22. CASE RoEndFail
  BY <1>22, <1>a, <1>b DEF RoEndFail
<1>23. CASE RoEndCheck
  BY <1>23, <1>a, <1>b DEF RoEndCheck
<1>24. CASE RoEndReleased
  BY <1>24, <1>a, <1>b DEF RoEndReleased
<1>25. CASE Fin
  BY <1>25 DEF Fin, SafeToReconfig
<1>26. CASE FinState
  BY <1>26 DEF FinState
<1>27. CASE Return
  BY <1>27 DEF Return
<1>28. ASSUME NEW f \in BOOLEAN, FinReconfig(f) PROVE DueInhibits'
  BY <1>28 DEF FinReconfig
<1>29. CASE Deinit
  BY <1>29 DEF Deinit
<1>30. CASE DeinitModules
  BY <1>30 DEF DeinitModules
<1>31. CASE InitRetry
  BY <1>31 DEF InitRetry
<1>32. CASE InitLatch
  BY <1>32 DEF InitLatch, Again
<1>33. ASSUME NEW f \in BOOLEAN, InitModules(f) PROVE DueInhibits'
  BY <1>33 DEF InitModules
<1>34. CASE ShZero
  BY <1>34 DEF ShZero
<1>35. CASE ShStop
  BY <1>35 DEF ShStop
<1>36. CASE ShLook
  BY <1>36 DEF ShLook
<1>37. CASE ShLock
  BY <1>37 DEF ShLock
<1>38. CASE ShSkip
  BY <1>38 DEF ShSkip
<1>39. CASE ShUnlock
  BY <1>39 DEF ShUnlock
<1>40. ASSUME NEW m \in Idx, ShBegin(m) PROVE DueInhibits'
  BY <1>40 DEF ShBegin
<1>41. ASSUME NEW m \in Idx, ShCopy(m) PROVE DueInhibits'
  BY <1>41 DEF ShCopy, ShNext
<1>42. ASSUME NEW m \in Idx, NEW lost \in BOOLEAN, ShFail(m, lost)
    PROVE  DueInhibits'
  BY <1>42 DEF ShFail, ShNext, RecordError
<1>43. CASE UNCHANGED vars
  BY <1>43 DEF vars
<1> QED
  BY <1>1, <1>2, <1>3, <1>4, <1>5, <1>6, <1>7, <1>8, <1>9, <1>10, <1>11,
       <1>12, <1>13, <1>14, <1>15, <1>16, <1>17, <1>18, <1>19, <1>20, <1>21,
       <1>22, <1>23, <1>24, <1>25, <1>26, <1>27, <1>28, <1>29, <1>30, <1>31,
       <1>32, <1>33, <1>34, <1>35, <1>36, <1>37, <1>38, <1>39, <1>40, <1>41,
       <1>42, <1>43
  DEF Next, Env, Control, ReadoutThread, ReadoutDt, Readout, Finalize, Reinit,
      ShadowThread

-----------------------------------------------------------------------------
(* The theorems. *)

LEMMA InvInit == Init => BuffersApart /\ DeadtimeHeld
<1> SUFFICES ASSUME Init PROVE BuffersApart /\ DeadtimeHeld
  OBVIOUS
<1>1. LockHeld /\ ReleasedOnce /\ ReinitPhase /\ TriggerNew /\ CounterMoves
  BY DEF Init, LockHeld, ReleasedOnce, ReinitPhase, TriggerNew, CounterMoves,
         Serving
<1>2. NotYetRunning
  <2>1. \A m \in Shadow : off[m] + cprev = sdc[m]
    BY ListAssumption DEF Init, Zero, Shadow, Idx, ListAssumption
  <2> QED BY <2>1 DEF Init, NotYetRunning
<1>3. OwnBuffer /\ DeadtimeHeld
  BY DEF Init, OwnBuffer, DeadtimeHeld
<1> QED BY <1>1, <1>2, <1>3 DEF BuffersApart

(* The shadow thread has the crate's lock whenever it works on modules,    *)
(* the readout thread whenever crate_readout_dt and crate_init do, and no  *)
(* return path of shadow_func, crate_readout_dt and crate_readout forgets  *)
(* to unlock.                                                              *)
THEOREM LockIsHeld == Spec => []LockHeld
<1>1. Init => LockHeld
  BY InvInit DEF BuffersApart
<1> QED BY <1>1, LockStep, PTL DEF Spec

(* The dead time is on for the whole of f_user_readout unless dt_release   *)
(* has released it.                                                        *)
THEOREM DeadtimeIsHeld == Spec => []DeadtimeHeld
<1>1. Init => DeadtimeHeld
  BY InvInit
<1> QED BY <1>1, DeadtimeStep, PTL DEF Spec

(* crate_readout_finalize re-configures modules only inside the dead time: *)
(* dt_release.is_on is a safe test there, although it is an old value in   *)
(* some cycles.                                                            *)
THEOREM ReconfigsInDeadtime == Spec => ReconfigInDeadtime
<1>1. Init => ReleasedOnce
  BY InvInit DEF BuffersApart
<1>2. Spec => []ReleasedOnce
  BY <1>1, TypeCorrect, ReleasedStep, PTL DEF Spec
<1>3. DeadtimeHeld /\ ReleasedOnce /\ [Next]_vars
        => [rpc = "finLock" /\ rpc' = "ret" => dt]_vars
  BY DEF DeadtimeHeld, ReleasedOnce
<1> QED BY <1>2, <1>3, DeadtimeIsHeld, PTL DEF Spec, ReconfigInDeadtime

(* Without skip_dt on a shadowed module, the readout thread never copies a *)
(* shadow buffer, which it does without the lock, while the shadow thread  *)
(* fills or clears it. The invariant is the whole of BuffersApart: the     *)
(* switch in crate_readout_dt separates the threads once the shadow thread *)
(* is in its loop, and the counters keep crate_readout away before.        *)
THEOREM BuffersNeverShared ==
    ASSUME Shadow \cap SkipDt = {} PROVE Spec => []NoOverlap
<1>1. Init => BuffersApart
  BY InvInit
<1>2. TypeOK /\ BuffersApart /\ [Next]_vars => BuffersApart'
  BY LockStep, ReleasedStep, ReinitStep, TriggerStep, CounterStep, FreshStep,
     OwnStep DEF BuffersApart
<1>3. TypeOK /\ BuffersApart => NoOverlap
  <2> SUFFICES ASSUME TypeOK, BuffersApart, rpc = "roMerge", ret # "dt"
               PROVE  spc # "zero" /\ ~(spc = "copy" /\ si = ri /\ sbuf = mb)
    BY DEF NoOverlap, Again
  <2>1. ri \in Shadow /\ mb = OtherIdx(idx[ri]) /\ idx[ri] \in 0..1
    BY ListAssumption DEF TypeOK, BufferType, BuffersApart, OwnBuffer, Shadow,
                          Idx, ListAssumption
  <2>2. spc # "zero"
    BY <2>1 DEF BuffersApart, NotYetRunning
  <2>3. OtherIdx(idx[ri]) # idx[ri]
    BY <2>1 DEF OtherIdx
  <2> QED BY <2>1, <2>2, <2>3 DEF BuffersApart, OwnBuffer
<1> QED BY <1>1, <1>2, <1>3, TypeCorrect, PTL DEF Spec

(* On a list with no barrier and no skipped module before a late one, all  *)
(* modules that cannot be read after the dead time are read before         *)
(* dt_release gives it back.                                               *)
THEOREM LateModulesReadFirst ==
    ASSUME NothingBeforeLate PROVE Spec => []LateModulesInDeadtime
<1>1. Init => ReinitPhase /\ ReleasedOnce
  BY InvInit DEF BuffersApart
<1>2. Init => ForItBehind /\ ForItPastLate
  BY DEF Init, ForItBehind, ForItPastLate
<1>3. TypeOK /\ ReinitPhase /\ ReleasedOnce /\ ForItPastLate
        => LateModulesInDeadtime
  <2> SUFFICES ASSUME TypeOK, ReinitPhase, ReleasedOnce, ForItPastLate,
                      rpc \in {"roRelease", "roMod", "roMerge"}, cleared,
                      ret # "dt", NEW m \in Waited \ EarlyDt
               PROVE  m < ri
    BY DEF LateModulesInDeadtime, Again
  <2>1. ret = "no"
    BY DEF TypeOK, ReadoutType, ReinitPhase
  <2>2. m \in Int /\ m <= forIt
    BY <2>1, ListAssumption DEF ForItPastLate, Late, Waited, Data, Idx,
                                ListAssumption
  <2>3. forIt < ri
    BY ListAssumption DEF ReleasedOnce, TypeOK, CrateType, ReadoutType,
                          ListAssumption
  <2> QED BY <2>2, <2>3, ListAssumption
          DEF TypeOK, CrateType, ReadoutType, ListAssumption
<1> QED
  BY <1>1, <1>2, <1>3, TypeCorrect, ReleasedStep, ReinitStep, BehindStep,
     PastLateStep, PTL DEF Spec

(* If the last entry of the list is no late module, crate_dt_is_on is true *)
(* to the dead time at the end of every good cycle.                        *)
THEOREM IsOnIsTrue ==
    ASSUME LastNotLate PROVE Spec => []IsOnTrue
<1>1. Init => ReleasedOnce
  BY InvInit DEF BuffersApart
<1>2. Init => ForItBehind /\ ForItInList /\ IsOnFollows
  BY ListAssumption DEF Init, ForItBehind, ForItInList, IsOnFollows,
                        ListAssumption
<1>3. IsOnFollows => IsOnTrue
  BY DEF IsOnFollows, IsOnTrue
<1> QED
  BY <1>1, <1>2, <1>3, TypeCorrect, ReleasedStep, BehindStep, InListStep,
     IsOnStep, PTL DEF Spec

(* Likewise, on such a list, a re-config that crate_readout_dt has seen    *)
(* pending is applied by the finalize of that cycle, or the cycle          *)
(* re-initialises: the inhibition of dt_release survives up to the place   *)
(* where the release would happen, and is_on tells finalize from there on. *)
THEOREM ReconfigsNotSkipped ==
    ASSUME LastNotLate PROVE Spec => []ReconfigNotSkipped
<1>1. Init => ReleasedOnce /\ ReinitPhase
  BY InvInit DEF BuffersApart
<1>2. Init => ForItBehind /\ ForItInList /\ IsOnFollows /\ DueInhibits
  BY ListAssumption DEF Init, ForItBehind, ForItInList, IsOnFollows,
                        DueInhibits, ListAssumption
<1>3. DueInhibits => ReconfigNotSkipped
  BY DEF DueInhibits, ReconfigNotSkipped
<1> QED
  BY <1>1, <1>2, <1>3, TypeCorrect, ReleasedStep, ReinitStep, BehindStep,
     InListStep, IsOnStep, DueStep, PTL DEF Spec
=============================================================================
