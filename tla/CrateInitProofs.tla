--------------------------- MODULE CrateInitProofs ---------------------------
(***************************************************************************)
(* Proofs about CrateInit, for any number of modules, of failing steps and *)
(* of configurations written: the lock is where it belongs, a crate out of *)
(* a bad state is complete, and the shadow thread has its modules.         *)
(***************************************************************************)
EXTENDS CrateInit, TLAPS

AllPast(s) == \A m \in Modules : stage[m] >= s
SomePast(s) == \A m \in Modules : m < mi => stage[m] >= s

(* How far the modules are at every place of the readout thread. *)
Stages ==
    /\ rpc = "slow" => SomePast(1)
    /\ rpc = "fast" => AllPast(1) /\ SomePast(2)
    /\ rpc = "batch" => AllPast(2) /\ mi = 1
    /\ rpc = "post" => AllPast(2) /\ SomePast(3)
    /\ rpc \in {"empty", "idle", "cfg", "cfgDone", "crashed"} => AllPast(3)
    /\ rpc = "stop" /\ shadow => AllPast(3)

(* The mapping of the PEX board, and the shadow thread. *)
Running ==
    /\ rpc \in {"slow", "fast", "batch", "post", "empty", "idle", "cfg", "cfgDone"} =>
         pexMap = HasPex
    /\ rpc \in {"idle", "cfg", "cfgDone"} => shadow = DoShadow
    /\ shadow => rpc \in {"idle", "cfg", "cfgDone", "crashed", "stop"}

IInv == InitTypeOK /\ LockDiscipline /\ Stages /\ Running

------------------------------------------------------------------------------
LEMMA InitIInv == InitInit => IInv
<1> SUFFICES ASSUME InitInit PROVE IInv
  OBVIOUS
<1> USE DEF InitInit
<1>1. InitTypeOK
  <2> USE SizeAssumption DEF SizeAssumption
  <2>1. PlaceType
    BY DEF PlaceType, Modules, Pcs
  <2>2. ModuleType
    BY DEF ModuleType
  <2>3. FlagType
    BY DEF FlagType
  <2> QED BY <2>1, <2>2, <2>3 DEF InitTypeOK
<1>2. LockDiscipline /\ Stages /\ Running
  BY DEF LockDiscipline, Stages, Running
<1> QED BY <1>1, <1>2 DEF IInv

(* The type invariant, part by part and one action after the other. *)
LEMMA PlaceStep ==
    ASSUME PlaceType, [InitNext]_initVars PROVE PlaceType'
<1> USE SizeAssumption DEF SizeAssumption, PlaceType, Modules, Pcs, crVars, CtrlStays
<1>1. CASE UNCHANGED initVars
  BY <1>1 DEF initVars
<1>2. CASE InitLock \/ InitPex \/ InitBatch \/ InitEnd \/ InitUndo
  BY <1>2 DEF InitLock, InitPex, InitBatch, InitEnd, InitUndo, Failed
<1>3. CASE InitSlow
  BY <1>3 DEF InitSlow, Failed, NextModule
<1>4. CASE InitFast \/ InitPost
  BY <1>4 DEF InitFast, Failed, NextModule, InitPost
<1>6. CASE StopShadow \/ Down \/ Unmap \/ Sleep \/ Cycle \/ CycleReinit
  BY <1>6 DEF StopShadow, Down, Unmap, Sleep, Cycle, CycleReinit
<1>7. CASE CfgLock \/ CfgModule \/ CfgSkip \/ CfgEnd
  BY <1>7 DEF CfgLock, CfgModule, CfgSkip, CfgEnd, NextModule
<1>8. CASE Control
  BY <1>8 DEF Control, Merge, LookUp, AppendVec, Access, AccessRegs, AccessGoc
<1> QED BY <1>1, <1>2, <1>3, <1>4, <1>6, <1>7, <1>8
        DEF InitNext, Readout
LEMMA FlagStep ==
    ASSUME FlagType, [InitNext]_initVars PROVE FlagType'
<1> USE ModeAssumption DEF ModeAssumption, FlagType, crVars, CtrlStays
<1>1. CASE UNCHANGED initVars
  BY <1>1 DEF initVars
<1>2. CASE InitLock \/ InitPex \/ InitBatch \/ InitEnd \/ InitUndo
  BY <1>2 DEF InitLock, InitPex, InitBatch, InitEnd, InitUndo, Failed
<1>3. CASE InitSlow \/ InitFast \/ InitPost
  BY <1>3 DEF InitSlow, InitFast, InitPost, Failed
<1>6. CASE StopShadow \/ Down \/ Unmap \/ Sleep \/ Cycle \/ CycleReinit
  BY <1>6 DEF StopShadow, Down, Unmap, Sleep, Cycle, CycleReinit
<1>7. CASE CfgLock \/ CfgModule \/ CfgSkip \/ CfgEnd
  BY <1>7 DEF CfgLock, CfgModule, CfgSkip, CfgEnd
<1>8. CASE Control
  BY <1>8 DEF Control, Merge, LookUp, AppendVec, Access, AccessRegs, AccessGoc
<1> QED BY <1>1, <1>2, <1>3, <1>6, <1>7, <1>8
        DEF InitNext, Readout
LEMMA ModuleStep ==
    ASSUME PlaceType, ModuleType, [InitNext]_initVars PROVE ModuleType'
<1> USE DEF ModuleType, crVars, CtrlStays
<1>m. mi \in Modules /\ cm \in Modules
  BY DEF PlaceType
<1>1. CASE UNCHANGED initVars
  BY <1>1 DEF initVars
<1>2. CASE InitLock \/ InitPex \/ InitBatch \/ InitEnd \/ InitUndo
  BY <1>2 DEF InitLock, InitPex, InitBatch, InitEnd, InitUndo, Failed
<1>3. CASE InitSlow
  BY <1>3, <1>m DEF InitSlow, Failed
<1>4. CASE InitFast
  <2>1. conf[mi] \in 0..MaxWrites
    BY <1>m
  <2> QED BY <1>4, <1>m, <2>1 DEF InitFast, Failed
<1>5. CASE InitPost
  BY <1>5, <1>m DEF InitPost, Failed
<1>6. CASE StopShadow \/ Down \/ Unmap \/ Sleep \/ Cycle \/ CycleReinit
  BY <1>6 DEF StopShadow, Down, Unmap, Sleep, Cycle, CycleReinit
<1>7. CASE CfgLock \/ CfgModule \/ CfgSkip \/ CfgEnd
  BY <1>7, <1>m DEF CfgLock, CfgModule, CfgSkip, CfgEnd
<1>8. CASE LookUp \/ AppendVec \/ Access \/ AccessRegs \/ AccessGoc
  BY <1>8, <1>m DEF LookUp, AppendVec, Access, AccessRegs, AccessGoc
<1>9. CASE Merge
  <2>1. PICK m \in Modules :
           /\ conf[m] < MaxWrites /\ conf' = [conf EXCEPT ![m] = @ + 1]
           /\ late' = IF rpc \in {"cfg", "cfgDone"} THEN late \cup {m} ELSE late
    BY <1>9 DEF Merge
  <2>2. conf[m] + 1 \in 0..MaxWrites
    BY <2>1, SizeAssumption DEF SizeAssumption
  <2> QED BY <1>9, <2>1, <2>2 DEF Merge
<1> QED BY <1>1, <1>2, <1>3, <1>4, <1>5, <1>6, <1>7, <1>8, <1>9
        DEF InitNext, Readout, Control
LEMMA TypeStep == InitTypeOK /\ [InitNext]_initVars => InitTypeOK'
  BY PlaceStep, ModuleStep, FlagStep DEF InitTypeOK

LEMMA LockStep ==
    LockDiscipline /\ [InitNext]_initVars => LockDiscipline'
<1> SUFFICES ASSUME LockDiscipline, [InitNext]_initVars
             PROVE LockDiscipline'
  OBVIOUS
<1> USE DEF LockDiscipline, crVars, CtrlStays
<1>1. CASE UNCHANGED initVars
  BY <1>1 DEF initVars
<1>2. CASE InitLock \/ InitPex \/ InitBatch \/ InitEnd \/ InitUndo
  BY <1>2 DEF InitLock, InitPex, InitBatch, InitEnd, InitUndo, Failed
<1>3. CASE InitSlow \/ InitFast \/ InitPost
  BY <1>3 DEF InitSlow, InitFast, InitPost, Failed, NextModule
<1>4. CASE StopShadow \/ Down \/ Unmap \/ Sleep \/ Cycle \/ CycleReinit
  BY <1>4 DEF StopShadow, Down, Unmap, Sleep, Cycle, CycleReinit
<1>5. CASE CfgLock \/ CfgModule \/ CfgSkip \/ CfgEnd
  BY <1>5 DEF CfgLock, CfgModule, CfgSkip, CfgEnd, NextModule
<1>6. CASE Control
  BY <1>6 DEF Control, Merge, LookUp, AppendVec, Access, AccessRegs, AccessGoc
<1> QED BY <1>1, <1>2, <1>3, <1>4, <1>5, <1>6 DEF InitNext, Readout

LEMMA StagesStep == InitTypeOK /\ Running /\ Stages /\ [InitNext]_initVars => Stages'
<1> SUFFICES ASSUME InitTypeOK, Running, Stages, [InitNext]_initVars PROVE Stages'
  OBVIOUS
<1> USE DEF Stages, AllPast, SomePast, crVars, CtrlStays
<1>t. mi \in Modules /\ stage \in [Modules -> 0..3]
  BY DEF InitTypeOK, PlaceType, ModuleType
<1>n. Modules = 1..M /\ M \in Nat
  BY SizeAssumption DEF SizeAssumption, Modules
<1>s. ~shadow \/ rpc \in {"idle", "cfg", "cfgDone", "crashed", "stop"}
  BY DEF Running
<1>1. CASE UNCHANGED initVars
  BY <1>1 DEF initVars
<1>2. CASE InitLock \/ InitPex \/ InitBatch \/ InitEnd \/ InitUndo
  BY <1>2, <1>t, <1>n, <1>s DEF InitLock, InitPex, InitBatch, InitEnd, InitUndo, Failed
<1>3. CASE InitSlow
  <2>1. CASE Failed
    BY <1>3, <2>1 DEF InitSlow, Failed
  <2>2. CASE ~Failed
    <3>1. /\ rpc = "slow" /\ stage' = [stage EXCEPT ![mi] = 1]
          /\ \/ mi = M /\ mi' = 1 /\ rpc' = "fast"
             \/ mi # M /\ mi' = mi + 1 /\ rpc' = "slow"
      BY <1>3, <2>2 DEF InitSlow, NextModule
    <3> QED BY <3>1, <1>t, <1>n
  <2> QED BY <2>1, <2>2
<1>4. CASE InitFast
  <2>1. CASE Failed
    BY <1>4, <2>1 DEF InitFast, Failed
  <2>2. CASE ~Failed
    <3>1. /\ rpc = "fast" /\ stage' = [stage EXCEPT ![mi] = 2]
          /\ \/ mi = M /\ mi' = 1 /\ rpc' = "batch"
             \/ mi # M /\ mi' = mi + 1 /\ rpc' = "fast"
      BY <1>4, <2>2 DEF InitFast, NextModule
    <3> QED BY <3>1, <1>t, <1>n
  <2> QED BY <2>1, <2>2
<1>5. CASE InitPost
  <2>1. CASE rpc' = "undo"
    BY <1>5, <2>1 DEF InitPost
  <2>2. CASE rpc' # "undo"
    <3>1. /\ rpc = "post" /\ stage' = [stage EXCEPT ![mi] = 3]
          /\ \/ mi = M /\ mi' = 1 /\ rpc' = "empty"
             \/ mi # M /\ mi' = mi + 1 /\ rpc' = "post"
      BY <1>5, <2>2 DEF InitPost, Failed, NextModule
    <3> QED BY <3>1, <1>t, <1>n
  <2> QED BY <2>1, <2>2
<1>6. CASE StopShadow \/ Down \/ Unmap \/ Sleep
  BY <1>6, <1>s DEF StopShadow, Down, Unmap, Sleep
<1>7. CASE Cycle \/ CycleReinit \/ CfgLock \/ CfgModule \/ CfgSkip \/ CfgEnd
  BY <1>7 DEF Cycle, CycleReinit, CfgLock, CfgModule, CfgSkip, CfgEnd, NextModule
<1>8. CASE Control
  BY <1>8 DEF Control, Merge, LookUp, AppendVec, Access, AccessRegs, AccessGoc
<1> QED BY <1>1, <1>2, <1>3, <1>4, <1>5, <1>6, <1>7, <1>8 DEF InitNext, Readout

LEMMA RunningStep == Running /\ [InitNext]_initVars => Running'
<1> SUFFICES ASSUME Running, [InitNext]_initVars PROVE Running'
  OBVIOUS
<1> USE DEF Running, crVars, CtrlStays
<1>1. CASE UNCHANGED initVars
  BY <1>1 DEF initVars
<1>2. CASE InitLock \/ InitPex \/ InitBatch \/ InitEnd \/ InitUndo
  BY <1>2 DEF InitLock, InitPex, InitBatch, InitEnd, InitUndo, Failed
<1>3. CASE InitSlow \/ InitFast \/ InitPost
  BY <1>3 DEF InitSlow, InitFast, InitPost, Failed, NextModule
<1>4. CASE StopShadow \/ Down \/ Unmap \/ Sleep \/ Cycle \/ CycleReinit
  BY <1>4 DEF StopShadow, Down, Unmap, Sleep, Cycle, CycleReinit
<1>5. CASE CfgLock \/ CfgModule \/ CfgSkip \/ CfgEnd
  BY <1>5 DEF CfgLock, CfgModule, CfgSkip, CfgEnd, NextModule
<1>6. CASE Control
  BY <1>6 DEF Control, Merge, LookUp, AppendVec, Access, AccessRegs, AccessGoc
<1> QED BY <1>1, <1>2, <1>3, <1>4, <1>5, <1>6 DEF InitNext, Readout

LEMMA IInvStep == IInv /\ [InitNext]_initVars => IInv'
  BY TypeStep, LockStep, StagesStep, RunningStep DEF IInv

(* The inductive invariant holds throughout. *)
THEOREM IInvHolds == InitSpec => []IInv
  BY InitIInv, IInvStep, PTL DEF InitSpec

------------------------------------------------------------------------------
(* Every variable of CrateInit keeps its type, for every number of modules. *)
THEOREM InitTypes == InitSpec => []InitTypeOK
<1>1. IInv => InitTypeOK
  BY DEF IInv
<1> QED BY <1>1, IInvHolds, PTL

(* No path of crate_init, crate_deinit, crate_readout_finalize or of the    *)
(* control thread works on modules without the lock, or keeps it.           *)
THEOREM Locked == InitSpec => []LockDiscipline
<1>1. IInv => LockDiscipline
  BY DEF IInv
<1> QED BY <1>1, IInvHolds, PTL

(* However often and wherever the attempts fail, the crate is only prepared *)
(* with all modules through all steps, the PEX board mapped and the shadow  *)
(* thread as configured.                                                    *)
THEOREM Prepared == InitSpec => []PreparedIsComplete
<1>1. ASSUME IInv, Outside, state # "REINIT"
      PROVE  (\A m \in Modules : stage[m] = 3) /\ pexMap = HasPex /\ shadow = DoShadow
  <2>1. AllPast(3) /\ pexMap = HasPex /\ shadow = DoShadow
    BY <1>1 DEF IInv, Stages, Running, Outside
  <2>2. stage \in [Modules -> 0..3]
    BY <1>1 DEF IInv, InitTypeOK, ModuleType
  <2>3. ASSUME NEW m \in Modules PROVE stage[m] = 3
    BY <2>1, <2>2 DEF AllPast
  <2> QED BY <2>1, <2>3
<1>2. IInv => PreparedIsComplete
  BY <1>1 DEF PreparedIsComplete
<1> QED BY <1>2, IInvHolds, PTL

(* The shadow thread never runs while modules are unmapped. *)
THEOREM ShadowMapped == InitSpec => []ShadowHasModules
<1>1. ASSUME IInv, shadow, NEW m \in Modules PROVE stage[m] > 0
  <2>1. AllPast(3)
    BY <1>1 DEF IInv, Stages, Running
  <2>2. stage \in [Modules -> 0..3]
    BY <1>1 DEF IInv, InitTypeOK, ModuleType
  <2> QED BY <2>1, <2>2 DEF AllPast
<1>2. IInv => ShadowHasModules
  BY <1>1 DEF ShadowHasModules
<1> QED BY <1>2, IInvHolds, PTL
------------------------------------------------------------------------------
(* A configuration that has been merged: it is in the module, or the module *)
(* is on the list and the walk over the list has not passed it, or it was   *)
(* written during such a walk, or the control thread is still on its way    *)
(* from the merge to the entry.                                             *)
InFlight(m) == cpc \in {"merged", "append"} /\ cm = m
Ahead(m) == m \in vec /\ (rpc = "cfg" => mi <= m) /\ rpc # "cfgDone"
Accounted(m) == hwc[m] = conf[m] \/ m \in late \/ InFlight(m) \/ Ahead(m)
AllAccounted == \A m \in Modules : Accounted(m)

(* Steps that leave the configurations, the list and the control thread,    *)
(* and do not begin, go on with or end a walk over the list.                *)
LEMMA AccountedFrame ==
    ASSUME AllAccounted, UNCHANGED <<hwc, conf, vec, late, cpc, cm>>,
           rpc' \notin {"cfg", "cfgDone"}
    PROVE  AllAccounted'
BY DEF AllAccounted, Accounted, InFlight, Ahead

(* A module that has just been programmed has what was written; the others  *)
(* stay as they are if the walk does not pass them.                         *)
LEMMA AccountedProgrammed ==
    ASSUME InitTypeOK, AllAccounted, UNCHANGED <<conf, vec, cpc, cm>>,
           hwc' = [hwc EXCEPT ![mi] = conf[mi]], late' = late \ {mi},
           NEW m \in Modules, m # mi /\ Ahead(m) => Ahead(m)'
    PROVE  Accounted(m)'
<1>1. hwc \in [Modules -> 0..MaxWrites] /\ Accounted(m)
  BY DEF InitTypeOK, ModuleType, AllAccounted
<1>2. CASE m = mi
  BY <1>1, <1>2 DEF Accounted
<1>3. CASE m # mi
  BY <1>1, <1>3 DEF Accounted, InFlight
<1> QED BY <1>2, <1>3

LEMMA AccountedReadout == InitTypeOK /\ AllAccounted /\ Readout => AllAccounted'
<1> SUFFICES ASSUME InitTypeOK, AllAccounted, Readout PROVE AllAccounted'
  OBVIOUS
<1> USE DEF crVars, CtrlStays
<1>t. mi \in 1..M /\ M \in Nat /\ vec \subseteq 1..M /\ Modules = 1..M
  BY SizeAssumption DEF SizeAssumption, InitTypeOK, PlaceType, ModuleType, Modules
<1>1. CASE InitLock \/ InitPex \/ InitBatch \/ InitEnd \/ InitUndo
  BY <1>1, AccountedFrame DEF InitLock, InitPex, InitBatch, InitEnd, InitUndo, Failed
<1>2. CASE InitSlow \/ InitPost
  BY <1>2, AccountedFrame DEF InitSlow, InitPost, Failed, NextModule
<1>3. CASE InitFast
  <2>1. CASE Failed
    BY <2>1, AccountedFrame DEF Failed
  <2>2. CASE ~Failed
    <3>1. /\ UNCHANGED <<conf, vec, cpc, cm>> /\ late' = late \ {mi}
          /\ hwc' = [hwc EXCEPT ![mi] = conf[mi]]
          /\ rpc' \notin {"cfg", "cfgDone"}
      BY <1>3, <2>2 DEF InitFast, NextModule
    <3>2. ASSUME NEW m \in Modules PROVE Accounted(m)'
      <4>1. Ahead(m) => Ahead(m)'
        BY <3>1 DEF Ahead
      <4> QED BY <3>1, <4>1, AccountedProgrammed
    <3> QED BY <3>2 DEF AllAccounted
  <2> QED BY <2>1, <2>2
<1>4. CASE StopShadow \/ Down \/ Unmap \/ Sleep \/ CycleReinit
  BY <1>4, AccountedFrame DEF StopShadow, Down, Unmap, Sleep, CycleReinit
<1>5. CASE Cycle
  BY <1>5, AccountedFrame DEF Cycle
<1>6. CASE CfgLock
  <2>1. /\ UNCHANGED <<hwc, conf, vec, late, cpc, cm>> /\ rpc' = "cfg" /\ mi' = 1
        /\ rpc = "idle"
    BY <1>6 DEF CfgLock
  <2> QED BY <1>t, <2>1 DEF AllAccounted, Accounted, InFlight, Ahead
<1>7. CASE CfgModule
  <2>1. /\ UNCHANGED <<conf, vec, cpc, cm>> /\ late' = late \ {mi}
        /\ hwc' = [hwc EXCEPT ![mi] = conf[mi]] /\ rpc = "cfg"
        /\ rpc' # "crashed" => \/ rpc' = "cfg" /\ mi' = mi + 1
                               \/ rpc' = "cfgDone" /\ mi = M
    BY <1>7 DEF CfgModule, NextModule
  <2>2. ASSUME NEW m \in Modules PROVE Accounted(m)'
    <3>1. m # mi /\ Ahead(m) => Ahead(m)'
      <4> SUFFICES ASSUME m # mi, Ahead(m) PROVE Ahead(m)'
        OBVIOUS
      <4>1. m \in vec /\ mi < m /\ m <= M
        BY <1>t, <2>1 DEF Ahead
      <4> QED BY <1>t, <2>1, <4>1 DEF Ahead
    <3> QED BY <2>1, <3>1, AccountedProgrammed
  <2> QED BY <2>2 DEF AllAccounted
<1>8. CASE CfgSkip
  <2>1. /\ UNCHANGED <<hwc, conf, vec, late, cpc, cm>> /\ rpc = "cfg" /\ mi \notin vec
        /\ \/ rpc' = "cfg" /\ mi' = mi + 1
           \/ rpc' = "cfgDone" /\ mi = M
    BY <1>8 DEF CfgSkip, NextModule
  <2>2. ASSUME NEW m \in Modules, Ahead(m) PROVE Ahead(m)'
    <3>1. m \in vec /\ mi < m /\ m <= M
      BY <1>t, <2>1, <2>2 DEF Ahead
    <3> QED BY <1>t, <2>1, <3>1 DEF Ahead
  <2> QED BY <2>1, <2>2 DEF AllAccounted, Accounted, InFlight
<1>9. CASE CfgEnd
  <2>1. /\ UNCHANGED <<hwc, conf, late, cpc, cm>> /\ rpc = "cfgDone"
    BY <1>9 DEF CfgEnd
  <2> QED BY <2>1 DEF AllAccounted, Accounted, InFlight, Ahead
<1> QED BY <1>1, <1>2, <1>3, <1>4, <1>5, <1>6, <1>7, <1>8, <1>9 DEF Readout

LEMMA AccountedControl == InitTypeOK /\ AllAccounted /\ Control => AllAccounted'
<1> SUFFICES ASSUME InitTypeOK, AllAccounted, Control, NEW m \in Modules
             PROVE  Accounted(m)'
  BY DEF AllAccounted
<1> USE DEF crVars
<1>0. Accounted(m) /\ conf \in [Modules -> 0..MaxWrites]
  BY DEF InitTypeOK, ModuleType, AllAccounted
<1>1. CASE Merge
  <2>1. PICK w \in Modules :
           /\ conf' = [conf EXCEPT ![w] = @ + 1] /\ cm' = w
           /\ late' = IF rpc \in {"cfg", "cfgDone"} THEN late \cup {w} ELSE late
    BY <1>1 DEF Merge
  <2>2. UNCHANGED <<hwc, vec, rpc, mi>> /\ cpc = "idle" /\ cpc' = "merged"
    BY <1>1 DEF Merge
  <2>3. CASE m = w
    BY <2>1, <2>2, <2>3 DEF Accounted, InFlight
  <2>4. CASE m # w
    <3>1. conf'[m] = conf[m] /\ (m \in late => m \in late')
      BY <1>0, <2>1, <2>4
    <3> QED BY <1>0, <2>2, <3>1 DEF Accounted, InFlight, Ahead
  <2> QED BY <2>3, <2>4
<1>2. CASE LookUp \/ AppendVec
  <2>1. /\ UNCHANGED <<hwc, conf, rpc, mi, cm>>
        /\ late' = IF rpc \in {"cfg", "cfgDone"} THEN late \cup {cm} ELSE late
    BY <1>2 DEF LookUp, AppendVec
  <2>2. CASE m # cm
    <3>1. m \in vec => m \in vec'
      BY <1>2 DEF LookUp, AppendVec
    <3> QED BY <1>0, <2>1, <2>2, <3>1 DEF Accounted, InFlight, Ahead
  <2>3. CASE m = cm /\ rpc \in {"cfg", "cfgDone"}
    BY <2>1, <2>3 DEF Accounted
  <2>4. CASE m = cm /\ rpc \notin {"cfg", "cfgDone"}
    <3>1. m \in vec' \/ (cpc' = "append" /\ cm' = m)
      BY <1>2, <2>4 DEF LookUp, AppendVec, Found
    <3> QED BY <2>1, <2>4, <3>1 DEF Accounted, InFlight, Ahead
  <2> QED BY <2>2, <2>3, <2>4
<1>3. CASE Access \/ AccessRegs \/ AccessGoc
  <2>1. UNCHANGED <<hwc, conf, vec, late, rpc, mi>> /\ cpc \notin {"merged", "append"}
    BY <1>3 DEF Access, AccessRegs, AccessGoc
  <2> QED BY <1>0, <2>1 DEF Accounted, InFlight, Ahead
<1> QED BY <1>1, <1>2, <1>3 DEF Control

(* What crate_config_write has merged is in the module, or on its way: no   *)
(* start or stop of the crate, no failing step and no walk over the list    *)
(* loses it, with the exception of what is written during such a walk.      *)
THEOREM NotLostUnlessLate == InitSpec => []LostOnlyWhenLate
<1>1. InitInit => AllAccounted
  BY DEF InitInit, AllAccounted, Accounted
<1>2. InitTypeOK /\ AllAccounted /\ [InitNext]_initVars => AllAccounted'
  <2>1. AllAccounted /\ UNCHANGED initVars => AllAccounted'
    BY DEF initVars, crVars, AllAccounted, Accounted, InFlight, Ahead
  <2> QED BY <2>1, AccountedReadout, AccountedControl DEF InitNext
<1>3. AllAccounted => LostOnlyWhenLate
  BY DEF AllAccounted, Accounted, InFlight, Ahead, LostOnlyWhenLate
<1> QED BY <1>1, <1>2, <1>3, InitTypes, PTL DEF InitSpec
=============================================================================
