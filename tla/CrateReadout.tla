----------------------------- MODULE CrateReadout -----------------------------
(***************************************************************************)
(* The triggered readout of one crate: the readout thread, which the DAQ   *)
(* backend drives through crate_readout_dt, crate_readout and              *)
(* crate_readout_finalize for every trigger, the shadow thread that        *)
(* crate_init starts to empty modules between triggers, the control thread *)
(* that asks for an online re-configuration, and the electronics.          *)
(*                                                                         *)
(* Events are numbered 1, 2, ... as the master-start scaler counts them.   *)
(* The payload of an event in a module is just its number, so "the module  *)
(* delivered the right data" can be told from "data of another event".     *)
(* Counters are unbounded here: they are compared modulo masks in          *)
(* CmvlcFetch and DriverReadout.                                           *)
(***************************************************************************)
EXTENDS Integers, Sequences, FiniteSets

CONSTANTS
    N,          \* length of the crate's module list
    Silent,     \* entries with event_max = 0: barriers, modules without data
    SkipDt,     \* modules configured with skip_dt
    EarlyDt,    \* modules whose props carry MODULE_FLAG_EARLY_DT
    ShadowCap,  \* modules whose props implement readout_shadow
    DoShadow,   \* the crate has a shadow buffer (crate_get_do_shadow)
    DoRelease,  \* early dead-time release is on and has a function
    BufCap,     \* events that fit in one shadow buffer of a module
    EventMax,   \* events the electronics accept per trigger
    MaxEvents,  \* bound: events in a behaviour
    MaxFaults,  \* bound: faults of the electronics in a behaviour
    MaxWrites   \* bound: re-configuration requests in a behaviour

ListAssumption == /\ N \in Nat \ {0}
                  /\ Silent \subseteq 1..N /\ SkipDt \subseteq 1..N
                  /\ EarlyDt \subseteq 1..N /\ ShadowCap \subseteq 1..N
ModeAssumption == DoShadow \in BOOLEAN /\ DoRelease \in BOOLEAN
SizeAssumption == /\ BufCap \in Nat \ {0} /\ EventMax \in Nat \ {0}
                  /\ MaxEvents \in Nat /\ MaxFaults \in Nat /\ MaxWrites \in Nat

ASSUME ListAssumption
ASSUME ModeAssumption
ASSUME SizeAssumption

Idx == 1..N
Data == Idx \ Silent
Waited == Data \ SkipDt
Shadow == IF DoShadow THEN ShadowCap \ Silent ELSE {}

VARIABLES
    \* The electronics.
    ms,       \* master starts: events accepted so far
    dt,       \* the dead time is on: no event is accepted
    pend,     \* pend[m]: events module m is still converting
    fifo,     \* fifo[m]: events in the buffer of module m
    cnt,      \* cnt[m]: event counter of module m
    missed,   \* modules that missed an event since the counters were latched
    faults,   \* faults so far
    \* struct Crate.
    state,    \* REINIT, PREPARED or READY
    ctr,      \* the crate counter, counter->cur
    cprev,    \* counter->prev
    isOn,     \* dt_release.is_on
    inhibit,  \* dt_release.do_inhibit
    forIt,    \* dt_release.for_it
    vec,      \* module_configed_vec
    mutex,    \* owner of crate->mutex: "R", "S" or "none"
    running,  \* shadow.is_running
    rebuild,  \* shadow.do_buf_rebuild
    \* struct Module.
    ec,       \* event_counter
    off,      \* this_minus_crate
    sdc,      \* shadow.data_counter_value
    mprev,    \* crate_counter_prev
    result,   \* result: an error is on record
    lat,      \* events in the buffer when readout_dt looked
    idx,      \* shadow.buf_idx
    buf,      \* buf[<<m, i>>]: the events in shadow buffer i of module m
    cap,      \* shadow buffer size, shadow.buf[].store
    eb,       \* eb_final: the events handed out in this cycle
    \* Readout thread.
    rpc, ri, rfor, rres, mb,
    ret,      \* where this cycle has re-initialised: "no", "dt" or "fin"
    cleared,  \* the cycle has released the dead time: TRIG__CLEARED
    due,      \* re-configs crate_readout_dt saw pending, not yet applied
    \* Shadow thread.
    spc, si, sbuf,
    \* Control thread.
    writes

hwVars == <<ms, pend, fifo, cnt, missed>>
relVars == <<isOn, inhibit, forIt>>
modVars == <<ec, off, sdc, mprev, result, lat>>
bufVars == <<idx, buf, cap>>
cycVars == <<ret, cleared, due>>
rVars == <<rpc, ri, rfor, rres, mb>>
shVars == <<spc, si, sbuf>>
vars == <<ms, dt, pend, fifo, cnt, missed, faults, state, ctr, cprev, isOn,
          inhibit, forIt, vec, mutex, running, rebuild, ec, off, sdc, mprev,
          result, lat, idx, buf, cap, eb, rpc, ri, rfor, rres, mb, ret,
          cleared, due, spc, si, sbuf, writes>>

Empty == [m \in Idx |-> << >>]
Zero == [m \in Idx |-> 0]
NoBufs == [b \in Idx \X (0..1) |-> << >>]

(* Just after the crate_init of nurdlib_setup: prepared, counters latched, *)
(* the shadow thread created but not yet scheduled.                        *)
Init ==
    /\ ms = 0 /\ dt = FALSE /\ pend = Empty /\ fifo = Empty /\ cnt = Zero
    /\ missed = {} /\ faults = 0
    /\ state = "PREPARED" /\ ctr = 0 /\ cprev = 0
    /\ isOn = TRUE /\ inhibit = FALSE /\ forIt = 0 /\ vec = {}
    /\ mutex = "none" /\ running = DoShadow /\ rebuild = TRUE
    /\ ec = Zero /\ off = Zero /\ sdc = Zero /\ mprev = Zero
    /\ result = [m \in Idx |-> FALSE] /\ lat = Zero
    /\ idx = Zero /\ buf = NoBufs /\ cap = 0 /\ eb = Empty
    /\ rpc = "wait" /\ ri = 1 /\ rfor = 0 /\ rres = FALSE /\ mb = 0
    /\ ret = "no" /\ cleared = FALSE /\ due = {}
    /\ spc = (IF DoShadow THEN "zero" ELSE "off") /\ si = 1 /\ sbuf = 0
    /\ writes = 0

-----------------------------------------------------------------------------
(* Electronics. *)

(* A fault is drawn from a bounded supply; f = FALSE is "no fault". *)
Fault(f) == f => faults < MaxFaults
CountFault(f) == faults' = IF f THEN faults + 1 ELSE faults

(* An event is accepted outside the dead time by every data module, but a  *)
(* faulty module may miss it.                                              *)
Accept(miss) ==
    /\ ~dt /\ ms < MaxEvents /\ ms - ctr < EventMax
    /\ Fault(miss # {}) /\ CountFault(miss # {})
    /\ ms' = ms + 1
    /\ pend' = [m \in Idx |-> IF m \in Data \ miss
                              THEN Append(pend[m], ms + 1) ELSE pend[m]]
    /\ missed' = missed \cup miss
    /\ UNCHANGED <<dt, fifo, cnt, state, ctr, cprev, relVars, vec, mutex,
                   running, rebuild, modVars, bufVars, eb, rVars, cycVars,
                   shVars, writes>>

(* Module m ends a conversion: the event is in its buffer and counted. *)
Convert(m) ==
    /\ pend[m] # << >>
    /\ fifo' = [fifo EXCEPT ![m] = Append(@, Head(pend[m]))]
    /\ pend' = [pend EXCEPT ![m] = Tail(@)]
    /\ cnt' = [cnt EXCEPT ![m] = @ + 1]
    /\ UNCHANGED <<ms, dt, missed, faults, state, ctr, cprev, relVars, vec,
                   mutex, running, rebuild, modVars, bufVars, eb, rVars, cycVars,
                   shVars, writes>>

(* The trigger logic raises the dead time and calls for a readout. *)
Trigger ==
    /\ ~dt /\ ms > ctr
    /\ dt' = TRUE
    /\ UNCHANGED <<hwVars, faults, state, ctr, cprev, relVars, vec, mutex,
                   running, rebuild, modVars, bufVars, eb, rVars, cycVars,
                   shVars, writes>>

-----------------------------------------------------------------------------
(* Control thread. *)

(* crate_config_write: module m gets a pending re-config, if it has none.  *)
ConfigWrite(m) ==
    /\ writes < MaxWrites
    /\ writes' = writes + 1
    /\ vec' = vec \cup {m}
    /\ UNCHANGED <<hwVars, dt, faults, state, ctr, cprev, relVars, mutex,
                   running, rebuild, modVars, bufVars, eb, rVars, cycVars,
                   shVars>>

-----------------------------------------------------------------------------
(* Readout thread: crate_readout_dt. *)

Go(pc) == rpc' = pc
Again == ret = "dt"

(* f_user_readout starts on a trigger; crate_readout_dt clears eb_final,   *)
(* and re-initialises first if the crate is in a bad state.                *)
DtEnter ==
    /\ rpc = "wait" /\ dt
    /\ eb' = Empty /\ cleared' = FALSE /\ rres' = FALSE /\ due' = {}
    /\ IF state = "REINIT" THEN ret' = "dt" /\ Go("deinit")
                           ELSE ret' = "no" /\ Go("dtLock")
    /\ UNCHANGED <<hwVars, dt, faults, state, ctr, cprev, relVars, vec, mutex,
                   running, rebuild, modVars, bufVars, ri, rfor, mb, shVars,
                   writes>>

(* The crate is locked and the scalers behind the crate counters are read. *)
DtLock ==
    /\ rpc = "dtLock" /\ mutex = "none"
    /\ mutex' = "R" /\ ctr' = ms
    /\ forIt' = 0 /\ rfor' = 0 /\ ri' = 1 /\ Go("dtMod")
    /\ UNCHANGED <<hwVars, dt, faults, state, cprev, isOn, inhibit, vec, running,
                   rebuild, modVars, bufVars, eb, rres, mb, cycVars, shVars,
                   writes>>

(* skip_dt modules and entries without data are passed over. *)
DtSkip ==
    /\ rpc = "dtMod" /\ ri \in Idx \ Waited
    /\ ri' = ri + 1
    /\ UNCHANGED <<hwVars, dt, faults, state, ctr, cprev, relVars, vec, mutex,
                   running, rebuild, modVars, bufVars, eb, rpc, rfor, rres, mb,
                   cycVars, shVars, writes>>

(* COUNTER_DIFF of a counter of module m against the crate counter. *)
Diff(m, counter) == ctr - counter + off[m]
CounterInStep(m) == Diff(m, cnt[m]) = 0
NoCheck(m) == TRUE
InStep(m) == Diff(m, cnt[m]) = 0 /\ (m \in Shadow => Diff(m, sdc[m]) = 0)

(* The position up to which crate_readout must keep the dead time on. *)
ForItLatest(m) == IF m \in EarlyDt THEN forIt ELSE rfor
ForItAfter(m) == IF m \in EarlyDt THEN forIt ELSE rfor + 1

SameIdx(i) == i
NextIdx(i) == i + 1
OtherIdx(i) == 1 - i

(* The end of a module's turn, however it went: the result is accumulated  *)
(* and a shadowed module's buffers are switched.                           *)
SwapOnly(m) ==
    IF m \in Shadow THEN idx' = [idx EXCEPT ![m] = OtherIdx(@)] /\ UNCHANGED buf
                    ELSE UNCHANGED <<idx, buf>>
SwapBuffers(m) ==
    IF m \in Shadow
    THEN /\ idx' = [idx EXCEPT ![m] = OtherIdx(@)]
         /\ buf' = [buf EXCEPT ![<<m, OtherIdx(idx[m])>>] = << >>]
    ELSE UNCHANGED <<idx, buf>>
DtNext(m, bad) ==
    /\ result' = [result EXCEPT ![m] = @ \/ bad]
    /\ rres' = (rres \/ result[m] \/ bad)
    /\ SwapBuffers(m)
    /\ rfor' = rfor + 1 /\ ri' = ri + 1
    /\ UNCHANGED <<ms, dt, pend, fifo, cnt, missed, state, ctr, cprev, isOn,
                   inhibit, vec, mutex, running, rebuild, off, sdc, mprev, cap,
                   eb, rpc, mb, cycVars, shVars, writes>>

(* readout_dt of the module read the counter and the data size, and both   *)
(* the module and its shadow data have caught up with the crate counter.   *)
DtOk(m) ==
    /\ rpc = "dtMod" /\ ri = m /\ m \in Waited /\ InStep(m)
    /\ ec' = [ec EXCEPT ![m] = cnt[m]]
    /\ lat' = [lat EXCEPT ![m] = Len(fifo[m])]
    /\ forIt' = ForItAfter(m)
    /\ DtNext(m, FALSE)
    /\ UNCHANGED faults

(* Not there yet: the crate is unlocked for others to run ... *)
DtYield(m) ==
    /\ rpc = "dtMod" /\ ri = m /\ m \in Waited /\ ~InStep(m)
    /\ ec' = [ec EXCEPT ![m] = cnt[m]]
    /\ lat' = [lat EXCEPT ![m] = Len(fifo[m])]
    /\ mutex' = "none" /\ Go("dtRelock")
    /\ UNCHANGED <<hwVars, dt, faults, state, ctr, cprev, relVars, vec, running,
                   rebuild, off, sdc, mprev, result, bufVars, eb, ri, rfor, rres,
                   mb, cycVars, shVars, writes>>

(* ... and locked again. *)
DtRelock ==
    /\ rpc = "dtRelock" /\ mutex = "none"
    /\ mutex' = "R" /\ Go("dtMod")
    /\ UNCHANGED <<hwVars, dt, faults, state, ctr, cprev, relVars, vec, running,
                   rebuild, modVars, bufVars, eb, ri, rfor, rres, mb, cycVars,
                   shVars, writes>>

(* shadow_func works on a module only while its buffer 0 has space. *)
HasSpace(m) == cap - Len(buf[<<m, 0>>]) # 0

(* Nothing that is under way can bring module m in step any more. *)
ShadowIdle(m) == \/ fifo[m] = << >>
                 \/ state = "REINIT"
                 \/ ~rebuild /\ ~HasSpace(m)
Hopeless(m) == pend[m] = << >> /\ (m \in Shadow => ShadowIdle(m))

(* DT_TIMEOUT: a second is long for the electronics and for the shadow     *)
(* thread, so a time-out while either could still help counts as a fault.  *)
DtTimeout(m) ==
    /\ rpc = "dtMod" /\ ri = m /\ m \in Waited /\ ~InStep(m)
    /\ Fault(~Hopeless(m)) /\ CountFault(~Hopeless(m))
    /\ ec' = [ec EXCEPT ![m] = cnt[m]]
    /\ lat' = [lat EXCEPT ![m] = Len(fifo[m])]
    /\ forIt' = forIt
    /\ DtNext(m, TRUE)

(* The module's readout_dt itself fails. *)
DtFail(m) ==
    /\ rpc = "dtMod" /\ ri = m /\ m \in Waited
    /\ Fault(TRUE) /\ CountFault(TRUE)
    /\ DtNext(m, TRUE)
    /\ UNCHANGED <<ec, lat, forIt>>

(* A pending re-config inhibits the next early release of the dead time.   *)
NoInhibit(pending) == UNCHANGED inhibit
InhibitIf(pending) == inhibit' = (inhibit \/ pending # {})
DtEnd ==
    /\ rpc = "dtMod" /\ ri > N
    /\ InhibitIf(vec) /\ due' = vec
    /\ mutex' = "none" /\ Go("dtState")
    /\ UNCHANGED <<hwVars, dt, faults, state, ctr, cprev, isOn, forIt, vec,
                   running, rebuild, modVars, bufVars, eb, ri, rfor, rres, mb,
                   ret, cleared, shVars, writes>>

(* The outcome, written without the lock; on failure f_user_readout skips  *)
(* crate_readout. Re-initialising joins here (crate_readout_dt_done).      *)
DtState ==
    /\ rpc = "dtState"
    /\ IF rres THEN state' = "REINIT" /\ Go("fin")
               ELSE state' = "READY" /\ Go("ro")
    /\ UNCHANGED <<hwVars, dt, faults, ctr, cprev, relVars, vec, mutex, running,
                   rebuild, modVars, bufVars, eb, ri, rfor, rres, mb, cycVars,
                   shVars, writes>>

-----------------------------------------------------------------------------
(* Readout thread: crate_readout. *)

RoStart ==
    /\ rpc = "ro"
    /\ IF state = "READY" THEN Go("roRelease") ELSE Go("fin")
    /\ ri' = 1
    /\ UNCHANGED <<hwVars, dt, faults, state, ctr, cprev, relVars, vec, mutex,
                   running, rebuild, modVars, bufVars, eb, rfor, rres, mb,
                   cycVars, shVars, writes>>

(* dt_release: give the dead time back early, or note that it stays on.    *)
MayRelease == DoRelease /\ ~inhibit
ReleaseOnly == dt' = FALSE /\ cleared' = FALSE /\ isOn' = FALSE
ReleaseUnnoted == dt' = FALSE /\ cleared' = TRUE /\ UNCHANGED isOn
Release == dt' = FALSE /\ cleared' = TRUE /\ isOn' = FALSE
dt_release ==
    IF MayRelease
    THEN Release /\ UNCHANGED inhibit
    ELSE /\ isOn' = TRUE /\ inhibit' = FALSE
         /\ UNCHANGED <<dt, cleared>>

(* The head of the module loop. *)
RoRelease ==
    /\ rpc = "roRelease" /\ ri \in Idx
    /\ IF forIt = ri - 1 THEN dt_release
                         ELSE UNCHANGED <<dt, cleared, isOn, inhibit>>
    /\ Go("roMod")
    /\ UNCHANGED <<hwVars, faults, state, ctr, cprev, forIt, vec, mutex, running,
                   rebuild, modVars, bufVars, eb, ri, rfor, rres, mb, ret, due,
                   shVars, writes>>

RoNext == ri' = ri + 1 /\ Go("roRelease")

(* A barrier, or a module without data. *)
RoSkip ==
    /\ rpc = "roMod" /\ ri \in Silent
    /\ RoNext
    /\ UNCHANGED <<hwVars, dt, faults, state, ctr, cprev, relVars, vec, mutex,
                   running, rebuild, modVars, bufVars, eb, rfor, rres, mb,
                   cycVars, shVars, writes>>

(* What the driver takes: modules that support early release read the size *)
(* seen in the dead time, the others empty the buffer.                     *)
Take(m) == IF m \in EarlyDt \ SkipDt
           THEN (IF lat[m] < Len(fifo[m]) THEN lat[m] ELSE Len(fifo[m]))
           ELSE Len(fifo[m])

(* read_module under the lock, which is taken if it is not already held;   *)
(* a bad readout or bad data (f) is an error of module and crate.          *)
RoRead(m, f) ==
    /\ rpc = "roMod" /\ ri = m /\ m \in Data \ Shadow
    /\ mutex \in {"none", "R"} /\ mutex' = "R"
    /\ IF ctr = mprev[m]
       THEN /\ ~f
            /\ UNCHANGED <<fifo, eb, mprev, result, state, rres, faults>>
       ELSE /\ Fault(f) /\ CountFault(f)
            /\ eb' = [eb EXCEPT ![m] = SubSeq(fifo[m], 1, Take(m))]
            /\ fifo' = [fifo EXCEPT
                          ![m] = SubSeq(@, Take(m) + 1, Len(@))]
            /\ mprev' = [mprev EXCEPT ![m] = ctr]
            /\ result' = [result EXCEPT ![m] = @ \/ f]
            /\ rres' = (rres \/ f)
            /\ state' = IF f THEN "REINIT" ELSE state
    /\ RoNext
    /\ UNCHANGED <<ms, pend, cnt, missed, dt, ctr, cprev, relVars, vec, running,
                   rebuild, ec, off, sdc, lat, bufVars, rfor, mb, cycVars,
                   shVars, writes>>

(* crate_readout lets go of the lock it may have taken for read_module. *)
StayLocked == UNCHANGED mutex
UnlockIfHeld == mutex' = IF mutex = "R" THEN "none" ELSE mutex

(* shadow_merge_module, without the lock: pick the buffer the shadow       *)
(* thread has left ...                                                     *)
RoMergeBegin(m) ==
    /\ rpc = "roMod" /\ ri = m /\ m \in Shadow
    /\ UnlockIfHeld
    /\ mb' = OtherIdx(idx[m]) /\ Go("roMerge")
    /\ UNCHANGED <<hwVars, dt, faults, state, ctr, cprev, relVars, vec, running,
                   rebuild, modVars, bufVars, eb, ri, rfor, rres, cycVars,
                   shVars, writes>>

(* ... copy it into the event and parse it. *)
RoMergeEnd(m, f) ==
    /\ rpc = "roMerge" /\ ri = m /\ m \in Shadow
    /\ Fault(f) /\ CountFault(f)
    /\ eb' = [eb EXCEPT ![m] = buf[<<m, mb>>]]
    /\ rres' = (rres \/ f)
    /\ RoNext
    /\ UNCHANGED <<hwVars, dt, state, ctr, cprev, relVars, vec, mutex, running,
                   rebuild, modVars, bufVars, rfor, mb, cycVars, shVars, writes>>

(* The event has no room for it. *)
RoMergeFull(m) ==
    /\ rpc = "roMerge" /\ ri = m /\ m \in Shadow
    /\ Fault(TRUE) /\ CountFault(TRUE)
    /\ rres' = TRUE
    /\ RoNext
    /\ UNCHANGED <<hwVars, dt, state, ctr, cprev, relVars, vec, mutex, running,
                   rebuild, modVars, bufVars, eb, rfor, mb, cycVars, shVars,
                   writes>>

(* The end of the loop: a failure, ... *)
RoEndFail ==
    /\ rpc = "roRelease" /\ ri > N /\ rres
    /\ state' = "REINIT"
    /\ UnlockIfHeld /\ Go("fin")
    /\ UNCHANGED <<hwVars, dt, faults, ctr, cprev, relVars, vec, running, rebuild,
                   modVars, bufVars, eb, ri, rfor, rres, mb, cycVars, shVars,
                   writes>>

(* ... all read while the dead time is on, so check_empty must find every  *)
(* module empty, ...                                                       *)
NotEmpty == \E m \in Data : fifo[m] # << >>
RoEndCheck ==
    /\ rpc = "roRelease" /\ ri > N /\ ~rres /\ isOn
    /\ mutex \in {"none", "R"} /\ mutex' = "none"
    /\ state' = IF NotEmpty THEN "REINIT" ELSE state
    /\ rres' = NotEmpty
    /\ Go("fin")
    /\ UNCHANGED <<hwVars, dt, faults, ctr, cprev, relVars, vec, running, rebuild,
                   modVars, bufVars, eb, ri, rfor, mb, cycVars, shVars,
                   writes>>

(* ... or the dead time is gone and modules may hold new events already.   *)
RoEndReleased ==
    /\ rpc = "roRelease" /\ ri > N /\ ~rres /\ ~isOn
    /\ UnlockIfHeld /\ Go("fin")
    /\ UNCHANGED <<hwVars, dt, faults, state, ctr, cprev, relVars, vec, running,
                   rebuild, modVars, bufVars, eb, ri, rfor, rres, mb, cycVars,
                   shVars, writes>>

-----------------------------------------------------------------------------
(* Readout thread: crate_readout_finalize. *)

AnyTime == TRUE
SafeToReconfig == isOn
Fin ==
    /\ rpc = "fin"
    /\ cprev' = ctr
    /\ IF state = "REINIT" THEN ret' = "fin" /\ Go("deinit")
       ELSE /\ UNCHANGED ret
            /\ IF SafeToReconfig THEN Go("finLock") ELSE Go("ret")
    /\ UNCHANGED <<hwVars, dt, faults, state, ctr, relVars, vec, mutex, running,
                   rebuild, modVars, bufVars, eb, ri, rfor, rres, mb, cleared,
                   due, shVars, writes>>

(* module_counter_latch for the modules in mods. *)
Latch(mods, c) ==
    /\ off' = [m \in Idx |-> IF m \in mods THEN ec[m] - c ELSE off[m]]
    /\ sdc' = [m \in Idx |-> IF m \in mods THEN ec[m] ELSE sdc[m]]

(* The online re-config: init_fast of every pending module clears its      *)
(* buffer, and its counter is latched anew. init_fast may fail (f).        *)
FinReconfig(f) ==
    /\ rpc = "finLock" /\ mutex = "none"
    /\ Fault(f) /\ CountFault(f) /\ (f => vec # {})
    /\ fifo' = [m \in Idx |-> IF m \in vec THEN << >> ELSE fifo[m]]
    /\ Latch(vec, ctr)
    /\ state' = IF f THEN "REINIT" ELSE state
    /\ vec' = {} /\ due' = {} /\ Go("ret")
    /\ UNCHANGED <<ms, dt, pend, cnt, missed, ctr, cprev, relVars, mutex, running,
                   rebuild, ec, mprev, result, lat, bufVars, eb, ri, rfor, rres,
                   mb, ret, cleared, shVars, writes>>

(* Back in the DAQ backend, which clears the dead time unless the cycle    *)
(* has done so.                                                            *)
Return ==
    /\ rpc = "ret"
    /\ dt' = IF cleared THEN dt ELSE FALSE
    /\ Go("wait")
    /\ UNCHANGED <<hwVars, faults, state, ctr, cprev, relVars, vec, mutex,
                   running, rebuild, modVars, bufVars, eb, ri, rfor, rres, mb,
                   cycVars, shVars, writes>>

-----------------------------------------------------------------------------
(* Readout thread: crate_deinit and crate_init, on behalf of ret. *)

(* crate_deinit tells the shadow thread to stop ... *)
LetRun == UNCHANGED running
StopShadow == running' = FALSE
Deinit ==
    /\ rpc = "deinit"
    /\ StopShadow /\ Go("join")
    /\ UNCHANGED <<hwVars, dt, faults, state, ctr, cprev, relVars, vec, mutex,
                   rebuild, modVars, bufVars, eb, ri, rfor, rres, mb, cycVars,
                   shVars, writes>>

(* ... waits for its end (thread_clean), then shuts the modules down.      *)
DeinitModules ==
    /\ rpc = "join" /\ spc = "off" /\ mutex = "none"
    /\ state' = "REINIT" /\ Go("init")
    /\ UNCHANGED <<hwVars, dt, faults, ctr, cprev, relVars, vec, mutex, running,
                   rebuild, modVars, bufVars, eb, ri, rfor, rres, mb, cycVars,
                   shVars, writes>>

(* crate_init: slow, fast and post init reset the modules and read their   *)
(* event counters. A module that fails (f) starts it all over.             *)
InitModules(f) ==
    /\ rpc = "init" /\ mutex = "none"
    /\ Fault(f) /\ CountFault(f)
    /\ pend' = Empty /\ fifo' = Empty
    /\ ec' = [m \in Idx |-> cnt[m]]
    /\ IF f THEN Go("deinit") /\ UNCHANGED mutex
            ELSE Go("initLatch") /\ mutex' = "R"
    /\ UNCHANGED <<ms, dt, cnt, missed, state, ctr, cprev, relVars, vec, running,
                   rebuild, off, sdc, mprev, result, lat, bufVars, eb, ri, rfor,
                   rres, mb, cycVars, shVars, writes>>

(* crate_init, second half: read the scalers, check that the modules are   *)
(* still empty (if not, start over), latch all counters and start the      *)
(* shadow thread.                                                          *)
InitRetry ==
    /\ rpc = "initLatch" /\ NotEmpty
    /\ ctr' = ms /\ cprev' = ms
    /\ mutex' = "none" /\ Go("deinit")
    /\ UNCHANGED <<hwVars, dt, faults, state, relVars, vec, running, rebuild,
                   modVars, bufVars, eb, ri, rfor, rres, mb, cycVars, shVars,
                   writes>>
InitLatch ==
    /\ rpc = "initLatch" /\ ~NotEmpty
    /\ ctr' = ms /\ cprev' = ms
    /\ Latch(Idx, ms)
    /\ result' = [m \in Idx |-> FALSE] /\ mprev' = [m \in Idx |-> ms]
    /\ missed' = {}
    /\ state' = "PREPARED" /\ rebuild' = TRUE
    /\ running' = DoShadow /\ spc' = IF DoShadow THEN "zero" ELSE "off"
    /\ mutex' = "none"
    /\ IF Again THEN Go("dtState") ELSE Go("finState")
    /\ UNCHANGED <<ms, dt, pend, fifo, cnt, faults, relVars, vec, ec, lat, bufVars,
                   eb, ri, rfor, rres, mb, cycVars, si, sbuf, writes>>

(* After the re-init of crate_readout_finalize: once the dead time has been *)
(* released events may have come in meanwhile, so the next trigger starts   *)
(* with another re-init.                                                    *)
KeepState == state
StateAfterReinit == IF isOn THEN state ELSE "REINIT"
FinState ==
    /\ rpc = "finState"
    /\ state' = StateAfterReinit /\ Go("ret")
    /\ UNCHANGED <<hwVars, dt, faults, ctr, cprev, relVars, vec, mutex, running,
                   rebuild, modVars, bufVars, eb, ri, rfor, rres, mb, cycVars,
                   shVars, writes>>

-----------------------------------------------------------------------------
(* Shadow thread: shadow_func. *)

ShGo(pc) == spc' = pc

(* A new thread clears the buffers of all modules, without any lock. *)
ShZero ==
    /\ spc = "zero"
    /\ idx' = Zero /\ buf' = NoBufs /\ cap' = 0
    /\ ShGo("loop")
    /\ UNCHANGED <<hwVars, dt, faults, state, ctr, cprev, relVars, vec, mutex,
                   running, rebuild, modVars, eb, rVars, cycVars, si, sbuf,
                   writes>>

ShStop ==
    /\ spc = "loop" /\ ~running
    /\ ShGo("off")
    /\ UNCHANGED <<hwVars, dt, faults, state, ctr, cprev, relVars, vec, mutex,
                   running, rebuild, modVars, bufVars, eb, rVars, cycVars, si,
                   sbuf, writes>>

(* It leaves a crate in a bad state alone. *)
ShLook ==
    /\ spc = "loop" /\ running /\ state # "REINIT"
    /\ ShGo("lock")
    /\ UNCHANGED <<hwVars, dt, faults, state, ctr, cprev, relVars, vec, mutex,
                   running, rebuild, modVars, bufVars, eb, rVars, cycVars, si,
                   sbuf, writes>>

(* Lock the crate; the first time, carve up the shadow memory. *)
ShLock ==
    /\ spc = "lock" /\ mutex = "none"
    /\ mutex' = "S" /\ si' = 1 /\ ShGo("mod")
    /\ IF rebuild THEN rebuild' = FALSE /\ cap' = BufCap /\ buf' = NoBufs
                  ELSE UNCHANGED <<rebuild, cap, buf>>
    /\ UNCHANGED <<hwVars, dt, faults, state, ctr, cprev, relVars, vec, running,
                   modVars, idx, eb, rVars, cycVars, sbuf, writes>>

ShSkip ==
    /\ spc = "mod" /\ si \in Idx
    /\ si \notin Shadow \/ ~HasSpace(si)
    /\ si' = si + 1
    /\ UNCHANGED <<hwVars, dt, faults, state, ctr, cprev, relVars, vec, mutex,
                   running, rebuild, modVars, bufVars, eb, rVars, cycVars, spc,
                   sbuf, writes>>

(* readout_shadow of module m into the buffer that is current now ... *)
ShBegin(m) ==
    /\ spc = "mod" /\ si = m /\ m \in Shadow /\ HasSpace(m)
    /\ sbuf' = idx[m] /\ ShGo("copy")
    /\ UNCHANGED <<hwVars, dt, faults, state, ctr, cprev, relVars, vec, mutex,
                   running, rebuild, modVars, bufVars, eb, rVars, cycVars, si,
                   writes>>

Fits(m) == Len(buf[<<m, sbuf>>]) + Len(fifo[m]) <= cap
ShNext == si' = si + 1 /\ ShGo("mod")

(* ... takes all its events; the last one carries the data counter. *)
ShCopy(m) ==
    /\ spc = "copy" /\ si = m /\ Fits(m)
    /\ buf' = [buf EXCEPT ![<<m, sbuf>>] = @ \o fifo[m]]
    /\ fifo' = [fifo EXCEPT ![m] = << >>]
    /\ sdc' = IF fifo[m] = << >> THEN sdc ELSE [sdc EXCEPT ![m] = cnt[m]]
    /\ ShNext
    /\ UNCHANGED <<ms, dt, pend, cnt, missed, faults, state, ctr, cprev, relVars,
                   vec, mutex, running, rebuild, ec, off, mprev, result, lat, idx,
                   cap, eb, rVars, cycVars, sbuf, writes>>

(* Too much data, or the module fails: an error of module and crate, and   *)
(* the buffer is dropped. The data may be gone from the module (lost) or   *)
(* not.                                                                    *)
RecordError(m) == result' = [result EXCEPT ![m] = TRUE] /\ state' = "REINIT"
ShFail(m, lost) ==
    /\ spc = "copy" /\ si = m
    /\ Fault(Fits(m)) /\ CountFault(Fits(m))
    /\ RecordError(m)
    /\ buf' = [buf EXCEPT ![<<m, sbuf>>] = << >>]
    /\ fifo' = IF lost THEN [fifo EXCEPT ![m] = << >>] ELSE fifo
    /\ sdc' = IF lost THEN [sdc EXCEPT ![m] = cnt[m]] ELSE sdc
    /\ ShNext
    /\ UNCHANGED <<ms, dt, pend, cnt, missed, ctr, cprev, relVars, vec, mutex,
                   running, rebuild, ec, off, mprev, lat, idx, cap, eb, rVars,
                   cycVars, sbuf, writes>>

ShUnlock ==
    /\ spc = "mod" /\ si > N
    /\ mutex' = "none" /\ ShGo("loop")
    /\ UNCHANGED <<hwVars, dt, faults, state, ctr, cprev, relVars, vec, running,
                   rebuild, modVars, bufVars, eb, rVars, cycVars, si, sbuf,
                   writes>>

-----------------------------------------------------------------------------
Faults == {{}} \cup {{m} : m \in Data}

Env == \/ \E miss \in Faults : Accept(miss)
       \/ \E m \in Data : Convert(m)
       \/ Trigger
Control == \E m \in Idx : ConfigWrite(m)
ReadoutDt == \/ DtEnter \/ DtLock \/ DtSkip \/ DtRelock \/ DtEnd \/ DtState
             \/ \E m \in Idx : DtOk(m) \/ DtYield(m) \/ DtTimeout(m) \/ DtFail(m)
Readout == \/ RoStart \/ RoRelease \/ RoSkip
           \/ \E m \in Idx, f \in BOOLEAN : RoRead(m, f) \/ RoMergeEnd(m, f)
           \/ \E m \in Idx : RoMergeBegin(m) \/ RoMergeFull(m)
           \/ RoEndFail \/ RoEndCheck \/ RoEndReleased
Finalize == \/ Fin \/ FinState \/ Return
            \/ \E f \in BOOLEAN : FinReconfig(f)
Reinit == \/ Deinit \/ DeinitModules \/ InitRetry \/ InitLatch
          \/ \E f \in BOOLEAN : InitModules(f)
ShadowThread == \/ ShZero \/ ShStop \/ ShLook \/ ShLock \/ ShSkip \/ ShUnlock
                \/ \E m \in Idx : ShBegin(m) \/ ShCopy(m)
                \/ \E m \in Idx, lost \in BOOLEAN : ShFail(m, lost)

ReadoutThread == ReadoutDt \/ Readout \/ Finalize \/ Reinit
Next == Env \/ Control \/ ReadoutThread \/ ShadowThread

Spec == Init /\ [][Next]_vars

(* Both threads are scheduled and a thread that waits for the lock gets it *)
(* in the end, conversions end, and time passes.                           *)
Locking == \/ DtLock \/ DtRelock \/ RoEndCheck \/ DeinitModules
           \/ \E m \in Idx, f \in BOOLEAN : RoRead(m, f)
           \/ \E f \in BOOLEAN : FinReconfig(f) \/ InitModules(f)
Fairness == /\ WF_vars(ReadoutThread) /\ SF_vars(Locking)
            /\ SF_vars(\E m \in Idx : DtTimeout(m))
            /\ WF_vars(ShadowThread) /\ SF_vars(ShLock)
            /\ \A m \in Idx : WF_vars(Convert(m))
FairSpec == Spec /\ Fairness

-----------------------------------------------------------------------------
(* Properties. *)

RPCs == {"wait", "dtLock", "dtMod", "dtRelock", "dtState", "ro", "roRelease",
         "roMod", "roMerge", "fin", "finLock", "ret", "deinit", "join", "init",
         "initLatch", "finState"}

HwType == /\ ms \in Nat /\ dt \in BOOLEAN /\ faults \in Nat /\ writes \in Nat
          /\ pend \in [Idx -> Seq(Nat)] /\ fifo \in [Idx -> Seq(Nat)]
          /\ cnt \in [Idx -> Nat] /\ missed \subseteq Idx
CrateType == /\ state \in {"REINIT", "PREPARED", "READY"}
             /\ ctr \in Nat /\ cprev \in Nat /\ forIt \in Nat
             /\ isOn \in BOOLEAN /\ inhibit \in BOOLEAN
             /\ vec \subseteq Idx /\ due \subseteq Idx
             /\ mutex \in {"none", "R", "S"}
             /\ running \in BOOLEAN /\ rebuild \in BOOLEAN
ModuleType == /\ ec \in [Idx -> Nat] /\ off \in [Idx -> Int]
              /\ sdc \in [Idx -> Nat] /\ mprev \in [Idx -> Nat]
              /\ result \in [Idx -> BOOLEAN] /\ lat \in [Idx -> Nat]
BufferType == /\ idx \in [Idx -> 0..1] /\ buf \in [Idx \X (0..1) -> Seq(Nat)]
              /\ cap \in Nat /\ eb \in [Idx -> Seq(Nat)]
ReadoutType == /\ rpc \in RPCs /\ ri \in 1..(N + 1) /\ rfor \in Nat
               /\ rres \in BOOLEAN /\ mb \in 0..1
               /\ ret \in {"no", "dt", "fin"} /\ cleared \in BOOLEAN
ShadowType == /\ spc \in {"off", "zero", "loop", "lock", "mod", "copy"}
              /\ si \in 1..(N + 1) /\ sbuf \in 0..1

(* Every variable holds a value of its type. *)
TypeOK == /\ HwType /\ CrateType /\ ModuleType /\ BufferType /\ ReadoutType
          /\ ShadowType

(* A cycle that ends well, and did not have to re-initialise, hands out    *)
(* exactly the events since the previous one, in order, for every module   *)
(* it has waited for: crate_readout_dt's counters, the buffer switch and   *)
(* the release of the dead time together let no event slip into the wrong  *)
(* cycle, get lost or come twice.                                          *)
Complete ==
    rpc = "fin" /\ state = "READY" /\ ~Again =>
        \A m \in Waited : eb[m] = [k \in 1..(ctr - cprev) |-> cprev + k]

(* While the readout thread copies a shadow buffer without the lock the    *)
(* shadow thread does not write to that buffer.                            *)
NoOverlap ==
    rpc = "roMerge" /\ ~Again =>
        spc # "zero" /\ ~(spc = "copy" /\ si = ri /\ sbuf = mb)

(* A crate that is fit for readout between triggers has the counter of     *)
(* every module that crate_readout_dt waits for in step with the crate     *)
(* counter, apart from modules that missed an event: the counters were     *)
(* latched when no event could come between.                               *)
Aligned ==
    rpc \in {"wait", "dtLock"} /\ state # "REINIT" =>
        \A m \in Waited \ missed : cnt[m] + Len(pend[m]) - ms = off[m]

(* Unless the cycle itself has released the dead time, it is on from the   *)
(* trigger to the return of f_user_readout.                                *)
DeadtimeHeld == rpc # "wait" /\ ~cleared => dt

(* At the end of a good cycle crate_dt_is_on, which finalize relies on,    *)
(* tells whether the dead time was kept.                                   *)
IsOnTrue == rpc = "fin" /\ state = "READY" /\ ~Again => isOn = ~cleared

(* Re-configuring modules and re-latching their counters happens only      *)
(* inside the dead time (crate_readout_finalize).                          *)
ReconfigInDeadtime == [][rpc = "finLock" /\ rpc' = "ret" => dt]_vars

(* A re-config that crate_readout_dt has seen pending is not passed over   *)
(* by a cycle that does not re-initialise.                                 *)
ReconfigNotSkipped == rpc = "ret" /\ ret = "no" => due = {}

(* Modules that do not support early release are read before the release.  *)
LateModulesInDeadtime ==
    (rpc \in {"roRelease", "roMod", "roMerge"} /\ cleared /\ ~Again) =>
        \A m \in Waited \ EarlyDt : m < ri

(* The status word that f_user_readout puts before the event: an event of  *)
(* a cycle without re-init that is called good has the data of the cycle.  *)
GoodHeader ==
    rpc = "fin" /\ ret = "no" /\ ~rres =>
        \A m \in Waited : eb[m] = [k \in 1..(ctr - cprev) |-> cprev + k]

(* With sound electronics and enough buffer space no module errs. *)
NoErrorWithoutFault == faults = 0 => \A m \in Idx : ~result[m]

(* The dead time always ends. *)
DeadtimeEnds == dt ~> ~dt
=============================================================================
