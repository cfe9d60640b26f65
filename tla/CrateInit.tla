------------------------------ MODULE CrateInit ------------------------------
(***************************************************************************)
(* Bringing a crate up, taking it down and configuring its modules again,  *)
(* with the control thread at work. The readout thread runs crate_init,    *)
(* which tries until every step of every module has gone well, and, at the *)
(* triggers, crate_deinit and crate_init for a crate in a bad state or the *)
(* end of crate_readout_finalize for modules with a new configuration. The *)
(* control thread, started after the first crate_init, merges new          *)
(* configuration without any lock, and accesses registers and the PEX      *)
(* board under the lock of the crate. The readout itself is module         *)
(* CrateReadout; here a cycle may only end well or badly.                  *)
(***************************************************************************)
EXTENDS Integers, FiniteSets

CONSTANTS
    M,         \* modules with props, numbered as in module_list
    PostInit,  \* modules that implement post_init
    HasPex,    \* a GSI_PEX is configured
    DoShadow,  \* the crate has a shadow buffer
    MaxFails,  \* bound: steps that fail
    MaxWrites  \* bound: configurations written

SizeAssumption == M \in Nat \ {0} /\ MaxFails \in Nat /\ MaxWrites \in Nat
SetAssumption == PostInit \subseteq 1..M
ModeAssumption == HasPex \in BOOLEAN /\ DoShadow \in BOOLEAN

ASSUME SizeAssumption
ASSUME SetAssumption
ASSUME ModeAssumption

Modules == 1..M

VARIABLES
    state,   \* REINIT, PREPARED or READY
    mutex,   \* owner of crate->mutex: "R", "C" or "none"
    rpc, mi, \* where the readout thread is, and at which module
    from,    \* where crate_deinit goes on: "init" or "cycle"
    stage,   \* stage[m]: 0 not mapped, 1 init_slow, 2 init_fast, 3 post_init
    pexMap,  \* the memory of the PEX board is mapped
    shadow,  \* the shadow thread runs
    server,  \* the control server runs
    conf,    \* conf[m]: number of times the configuration was written
    hwc,     \* hwc[m]: which of them the module was programmed with
    vec,     \* module_configed_vec
    cpc, cm, \* control thread, and the module it deals with
    fails,
    late     \* modules written since they were last programmed, while the
             \* list was being worked off

crVars == <<state, stage, pexMap, shadow, server, hwc, vec>>
initVars == <<crVars, mutex, rpc, mi, from, conf, cpc, cm, fails, late>>

Pcs == {"lock", "pex", "slow", "fast", "batch", "post", "empty", "undo",
        "idle", "stop", "down", "unmap", "sleep", "cfg", "cfgDone", "crashed"}

PlaceType ==
    /\ state \in {"REINIT", "PREPARED", "READY"} /\ mutex \in {"R", "C", "none"}
    /\ rpc \in Pcs /\ mi \in Modules /\ from \in {"init", "cycle"}
    /\ cpc \in {"idle", "merged", "append", "regs", "goc", "fault"}
    /\ cm \in Modules /\ fails \in 0..MaxFails

ModuleType ==
    /\ stage \in [Modules -> 0..3]
    /\ conf \in [Modules -> 0..MaxWrites] /\ hwc \in [Modules -> 0..MaxWrites]
    /\ vec \subseteq Modules /\ late \subseteq Modules

FlagType == pexMap \in BOOLEAN /\ shadow \in BOOLEAN /\ server \in BOOLEAN

InitTypeOK == PlaceType /\ ModuleType /\ FlagType

(* nurdlib_setup calls crate_init on a crate that crate_create has made. *)
InitInit ==
    /\ state = "REINIT" /\ mutex = "none" /\ rpc = "lock" /\ mi = 1
    /\ from = "init"
    /\ stage = [m \in Modules |-> 0] /\ pexMap = FALSE /\ shadow = FALSE
    /\ server = FALSE
    /\ conf = [m \in Modules |-> 0] /\ hwc = [m \in Modules |-> 0] /\ vec = {}
    /\ cpc = "idle" /\ cm = 1 /\ fails = 0 /\ late = {}

CtrlStays == UNCHANGED <<conf, cpc, cm>>

------------------------------------------------------------------------------
(* crate_init. *)

InitLock ==
    /\ rpc = "lock" /\ mutex = "none"
    /\ mutex' = "R" /\ rpc' = "pex"
    /\ UNCHANGED <<crVars, mi, from, fails, late>> /\ CtrlStays

InitPexOnce ==
    /\ rpc = "pex"
    /\ pexMap' = (IF from = "init" THEN HasPex ELSE pexMap)
    /\ mi' = 1 /\ rpc' = "slow"
    /\ UNCHANGED <<state, stage, shadow, server, hwc, vec, mutex, from, fails, late>>
    /\ CtrlStays

InitPex ==
    /\ rpc = "pex"
    /\ pexMap' = HasPex
    /\ mi' = 1 /\ rpc' = "slow"
    /\ UNCHANGED <<state, stage, shadow, server, hwc, vec, mutex, from, fails, late>>
    /\ CtrlStays

(* A step that fails ends the attempt, crate_init_done. *)
Failed ==
    /\ fails < MaxFails /\ fails' = fails + 1
    /\ rpc' = "undo"
    /\ UNCHANGED <<crVars, mutex, mi, from, late>> /\ CtrlStays

PastEnd(then) ==
    IF mi > M THEN mi' = 1 /\ rpc' = then ELSE mi' = mi + 1 /\ UNCHANGED rpc

NextModule(then) ==
    IF mi = M THEN mi' = 1 /\ rpc' = then ELSE mi' = mi + 1 /\ UNCHANGED rpc

InitSlow ==
    /\ rpc = "slow"
    /\ \/ Failed
       \/ /\ stage' = [stage EXCEPT ![mi] = 1]
          /\ NextModule("fast")
          /\ UNCHANGED <<state, pexMap, shadow, server, hwc, vec, mutex, from, fails, late>>
          /\ CtrlStays

(* init_fast programs the module with the configuration of the moment. *)
InitFast ==
    /\ rpc = "fast"
    /\ \/ Failed
       \/ /\ stage' = [stage EXCEPT ![mi] = 2]
          /\ hwc' = [hwc EXCEPT ![mi] = conf[mi]]
          /\ NextModule("batch") /\ late' = late \ {mi}
          /\ UNCHANGED <<state, pexMap, shadow, server, vec, mutex, from, fails>>
          /\ CtrlStays

(* The chains that are initialised together. *)
InitBatch ==
    /\ rpc = "batch"
    /\ \/ Failed
       \/ /\ rpc' = "post"
          /\ UNCHANGED <<crVars, mutex, mi, from, fails, late>> /\ CtrlStays

InitPost ==
    /\ rpc = "post"
    /\ \/ mi \in PostInit /\ Failed
       \/ /\ stage' = [stage EXCEPT ![mi] = 3]
          /\ NextModule("empty")
          /\ UNCHANGED <<state, pexMap, shadow, server, hwc, vec, mutex, from, fails, late>>
          /\ CtrlStays

(* Counters are read and modules checked to be empty; then the shadow      *)
(* thread starts and the crate is prepared.                                *)
InitEnd ==
    /\ rpc = "empty"
    /\ \/ Failed
       \/ /\ shadow' = DoShadow
          /\ state' = "PREPARED"
          /\ mutex' = "none" /\ rpc' = "idle" /\ server' = TRUE
          /\ UNCHANGED <<stage, pexMap, hwc, vec, mi, from, fails, late>> /\ CtrlStays

(* crate_init_done in a bad state: the lock is opened for crate_deinit. *)
UndoLocked ==
    /\ rpc = "undo"
    /\ from' = "init" /\ rpc' = "stop"
    /\ UNCHANGED <<crVars, mutex, mi, fails, late>> /\ CtrlStays

InitUndo ==
    /\ rpc = "undo"
    /\ mutex' = "none" /\ from' = "init" /\ rpc' = "stop"
    /\ UNCHANGED <<crVars, mi, fails, late>> /\ CtrlStays

------------------------------------------------------------------------------
(* crate_deinit. *)

StopLater ==
    /\ rpc = "stop" /\ rpc' = "down"
    /\ UNCHANGED <<crVars, mutex, mi, from, fails, late>> /\ CtrlStays

StopShadow ==
    /\ rpc = "stop"
    /\ shadow' = FALSE /\ rpc' = "down"
    /\ UNCHANGED <<state, stage, pexMap, server, hwc, vec, mutex, mi, from, fails, late>>
    /\ CtrlStays

Down ==
    /\ rpc = "down" /\ mutex = "none"
    /\ mutex' = "R" /\ rpc' = "unmap"
    /\ UNCHANGED <<crVars, mi, from, fails, late>> /\ CtrlStays

(* All modules, whatever they have been through, and the PEX board. *)
Unmap ==
    /\ rpc = "unmap"
    /\ stage' = [m \in Modules |-> 0]
    /\ pexMap' = FALSE /\ state' = "REINIT"
    /\ mutex' = "none" /\ rpc' = "sleep"
    /\ UNCHANGED <<shadow, server, hwc, vec, mi, from, fails, late>> /\ CtrlStays

(* reinit_sleep_s: with the lock within crate_init, without it otherwise. *)
Sleep ==
    /\ rpc = "sleep"
    /\ \/ /\ from = "init" /\ mutex = "none"
          /\ mutex' = "R" /\ rpc' = "pex"
       \/ /\ from = "cycle"
          /\ rpc' = "lock" /\ UNCHANGED mutex
    /\ UNCHANGED <<crVars, mi, from, fails, late>> /\ CtrlStays

------------------------------------------------------------------------------
(* Triggers. *)

(* The event goes well, or leaves the crate in a bad state. *)
Cycle ==
    /\ rpc = "idle" /\ state # "REINIT"
    /\ \/ state' = "READY" /\ UNCHANGED fails
       \/ state' = "REINIT" /\ fails < MaxFails /\ fails' = fails + 1
    /\ UNCHANGED <<stage, pexMap, shadow, server, hwc, vec, mutex, rpc, mi, from, late>>
    /\ CtrlStays

(* crate_readout_dt or crate_readout_finalize find the bad state. *)
CycleReinit ==
    /\ rpc = "idle" /\ state = "REINIT"
    /\ from' = "cycle" /\ rpc' = "stop"
    /\ UNCHANGED <<crVars, mutex, mi, fails, late>> /\ CtrlStays

(* crate_readout_finalize in dead time, with modules to configure. *)
CfgLock ==
    /\ rpc = "idle" /\ state # "REINIT" /\ vec # {} /\ mutex = "none"
    /\ mutex' = "R" /\ rpc' = "cfg" /\ mi' = 1
    /\ UNCHANGED <<crVars, from, fails, late>> /\ CtrlStays

Callable(m) == m \in PostInit   \* the caller does not look

(* init_fast, post_init and the latch of one module. The list is walked as *)
(* it is, so a module appended meanwhile comes, too.                       *)
CfgModule ==
    /\ rpc = "cfg" /\ mi \in vec
    /\ hwc' = [hwc EXCEPT ![mi] = conf[mi]]
    /\ \/ state' = state /\ UNCHANGED fails
       \/ state' = "REINIT" /\ fails < MaxFails /\ fails' = fails + 1
    /\ IF Callable(mi) THEN NextModule("cfgDone") ELSE rpc' = "crashed" /\ UNCHANGED mi
    /\ late' = late \ {mi}
    /\ UNCHANGED <<stage, pexMap, shadow, server, vec, mutex, from>> /\ CtrlStays

CfgSkip ==
    /\ rpc = "cfg" /\ mi \notin vec
    /\ NextModule("cfgDone")
    /\ UNCHANGED <<crVars, mutex, from, fails, late>> /\ CtrlStays

CfgKeep ==
    /\ rpc = "cfgDone"
    /\ mutex' = "none" /\ rpc' = "idle" /\ mi' = 1
    /\ UNCHANGED <<crVars, fails, from, late>> /\ CtrlStays

CfgEnd ==
    /\ rpc = "cfgDone"
    /\ \/ UNCHANGED <<state, fails>>
       \/ state' = "REINIT" /\ fails < MaxFails /\ fails' = fails + 1
    /\ vec' = {}
    /\ mutex' = "none" /\ rpc' = "idle" /\ mi' = 1
    /\ UNCHANGED <<stage, pexMap, shadow, server, hwc, from, late>> /\ CtrlStays

------------------------------------------------------------------------------
(* The control thread. *)

(* crate_config_write: the merge, without a lock ... *)
Merge ==
    /\ server /\ cpc = "idle" /\ rpc # "crashed"
    /\ \E m \in Modules :
         /\ conf[m] < MaxWrites
         /\ conf' = [conf EXCEPT ![m] = @ + 1]
         /\ cm' = m
         /\ late' = IF rpc \in {"cfg", "cfgDone"} THEN late \cup {m} ELSE late
    /\ cpc' = "merged"
    /\ UNCHANGED <<crVars, mutex, rpc, mi, from, fails>>

(* ... then a look for a pending re-configuration of the module ... *)
AlwaysFound == cm \in Modules
Found == cm \in vec
LookUp ==
    /\ cpc = "merged"
    /\ cpc' = IF Found THEN "idle" ELSE "append"
    /\ late' = IF rpc \in {"cfg", "cfgDone"} THEN late \cup {cm} ELSE late
    /\ UNCHANGED <<crVars, mutex, rpc, mi, from, conf, cm, fails>>

(* ... and the entry. *)
AppendVec ==
    /\ cpc = "append"
    /\ vec' = vec \cup {cm} /\ cpc' = "idle"
    /\ late' = IF rpc \in {"cfg", "cfgDone"} THEN late \cup {cm} ELSE late
    /\ UNCHANGED <<state, stage, pexMap, shadow, server, hwc, mutex, rpc, mi, from,
                   conf, cm, fails>>

(* Registers of a module, or a write to the PEX board: under the lock. *)
Access ==
    /\ server /\ cpc = "idle" /\ mutex = "none" /\ rpc # "crashed"
    /\ mutex' = "C"
    /\ \/ \E m \in Modules : cm' = m /\ cpc' = "regs"
       \/ HasPex /\ cpc' = "goc" /\ UNCHANGED cm
    /\ UNCHANGED <<crVars, rpc, mi, from, conf, fails, late>>

(* module_register_list_pack leaves a module without a map alone. *)
AccessRegs ==
    /\ cpc = "regs"
    /\ cpc' = "idle" /\ mutex' = "none"
    /\ UNCHANGED <<crVars, rpc, mi, from, conf, cm, fails, late>>

(* gsi_pex_slave_write goes through pointers into the mapping. *)
AccessGoc ==
    /\ cpc = "goc"
    /\ cpc' = IF pexMap THEN "idle" ELSE "fault"
    /\ mutex' = "none"
    /\ UNCHANGED <<crVars, rpc, mi, from, conf, cm, fails, late>>

Readout == InitLock \/ InitPex \/ InitSlow \/ InitFast \/ InitBatch \/ InitPost
           \/ InitEnd \/ InitUndo \/ StopShadow \/ Down \/ Unmap \/ Sleep
           \/ Cycle \/ CycleReinit \/ CfgLock \/ CfgModule \/ CfgSkip \/ CfgEnd
Control == Merge \/ LookUp \/ AppendVec \/ Access \/ AccessRegs \/ AccessGoc

InitNext == Readout \/ Control
InitSpec == InitInit /\ [][InitNext]_initVars

(* The readout thread waits for triggers and goes on; a trigger comes      *)
(* again and again. The control thread goes on with what it has begun.     *)
InitFairness ==
    /\ SF_initVars(InitLock \/ Down \/ Sleep)
    /\ WF_initVars(InitPex \/ InitSlow \/ InitFast \/ InitBatch \/ InitPost \/ InitEnd
                     \/ InitUndo \/ StopShadow \/ Unmap)
    /\ WF_initVars(CycleReinit) /\ SF_initVars(CfgLock)
    /\ WF_initVars(CfgModule \/ CfgSkip \/ CfgEnd)
    /\ WF_initVars(LookUp \/ AppendVec \/ AccessRegs \/ AccessGoc)

FairInitSpec == InitSpec /\ InitFairness
------------------------------------------------------------------------------
Outside == rpc = "idle"

(* A crate that is not in a bad state has every module through all its     *)
(* steps, its PEX board mapped and its shadow thread running: what         *)
(* crate_readout_dt relies on when it does not initialise again. The       *)
(* attempts before, the undoing of which goes through modules that have    *)
(* not been begun, leave nothing behind.                                   *)
PreparedIsComplete ==
    Outside /\ state # "REINIT" =>
      /\ \A m \in Modules : stage[m] = 3
      /\ pexMap = HasPex /\ shadow = DoShadow

(* No module is programmed, and no register read, while another thread     *)
(* holds the crate, and the crate is not left locked (THREAD_MUTEX_LOCK,   *)
(* thread_mutex_unlock on every path of crate_init and crate_deinit).      *)
LockDiscipline ==
    /\ rpc \in {"pex", "slow", "fast", "batch", "post", "empty", "undo", "unmap",
                "cfg", "cfgDone"} => mutex = "R"
    /\ cpc \in {"regs", "goc"} => mutex = "C"
    /\ rpc \in {"idle", "lock", "stop", "down", "sleep"} => mutex # "R"

(* The shadow thread never runs while modules are unmapped.                *)
ShadowHasModules == shadow => \A m \in Modules : stage[m] > 0

(* A configuration written is in the module, or on its way there, unless   *)
(* it was written while the module list was being worked off.              *)
LostOnlyWhenLate ==
    Outside /\ state # "REINIT" /\ cpc = "idle" =>
      \A m \in Modules : hwc[m] # conf[m] => m \in vec \/ m \in late

(* A bad state is left: the crate is initialised until it works. *)
ComesUp == (state = "REINIT") ~> (state # "REINIT" \/ rpc = "crashed" \/ cpc = "fault")

(* What has been put on the list is worked off. *)
WorkedOff == (vec # {}) ~> (vec = {} \/ rpc = "crashed" \/ cpc = "fault")

(* crate.c, crate_config_write: "If the module has no pending reconfig,    *)
(* make one." So the module gets what was written.                         *)
NothingLost ==
    Outside /\ state # "REINIT" /\ cpc = "idle" =>
      \A m \in Modules : hwc[m] # conf[m] => m \in vec

(* module.h: post_init "does not need to be implemented by every module".  *)
NoNullCall == rpc # "crashed"

(* crate.c, crate_init: "Do we really want to open the mutex?" The control *)
(* thread does not get at memory that is unmapped.                         *)
NoFault == cpc # "fault"
=============================================================================
