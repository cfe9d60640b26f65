--------------------------- MODULE CrateReadoutInv ---------------------------
(***************************************************************************)
(* Why the readout of CrateReadout is right: the invariants behind its     *)
(* properties, in parts that CrateReadoutProofs shows to be inductive.     *)
(***************************************************************************)
EXTENDS CrateReadout

(* The lock protects what it should: the shadow thread holds it whenever   *)
(* it is among the modules, the readout thread whenever crate_readout_dt   *)
(* or crate_init is, and neither goes on to wait for anything with it.     *)
LockHeld ==
    /\ mutex = "S" <=> spc \in {"mod", "copy"}
    /\ rpc \in {"dtMod", "initLatch"} => mutex = "R"
    /\ mutex = "R" => rpc \in {"dtMod", "initLatch", "roRelease", "roMod"}

(* The dead time is released at most once in a cycle, after                *)
(* crate_readout_dt has finished, and dt_release.is_on knows of it until   *)
(* finalize has used it.                                                   *)
ReleasedOnce ==
    /\ cleared => ~isOn
    /\ cleared /\ rpc = "roRelease" => forIt < ri - 1
    /\ cleared /\ rpc \in {"roMod", "roMerge"} => forIt < ri
    /\ cleared => rpc \notin {"dtLock", "dtMod", "dtRelock", "dtState", "ro"}
    /\ cleared /\ rpc \in {"deinit", "join", "init", "initLatch"} => ret = "fin"
    /\ rpc = "finLock" => isOn

(* Where a re-initialisation of the cycle can be. *)
ReinitPhase ==
    /\ rpc \in {"init", "initLatch"} => spc = "off"
    /\ rpc \in {"dtLock", "dtMod", "dtRelock"} => ret = "no"
    /\ ret = "fin" => rpc \in {"deinit", "join", "init", "initLatch", "finState",
                               "ret", "wait"}

(* A trigger that a good crate has not served yet is for an event that the *)
(* crate counter has not counted; after a re-init which may have counted   *)
(* it already, the crate is told to re-init once more.                     *)
TriggerNew ==
    /\ cleared /\ dt /\ ret # "fin" => ms > ctr
    /\ cleared /\ ret = "fin" /\ rpc = "ret" => state = "REINIT"
    /\ rpc = "wait" /\ dt /\ state # "REINIT" => ms > ctr
    /\ rpc = "dtLock" => ms > ctr

(* The crate counter and its previous value differ only while a cycle that *)
(* has not re-initialised has its data, and then the counter has grown.    *)
Serving == ret = "no" /\ rpc \in {"dtMod", "dtRelock", "dtState", "ro",
                                  "roRelease", "roMod", "roMerge", "fin"}
CounterMoves ==
    /\ ~Serving => cprev = ctr
    /\ rpc \in {"dtMod", "dtRelock"} => cprev < ctr

(* A shadow thread that has not run yet has no data, so no shadowed module *)
(* can be in step with a counter that has moved: crate_readout_dt fails    *)
(* rather than hand out buffers that are about to be cleared.              *)
NotYetRunning ==
    spc = "zero" /\ Shadow # {} =>
        /\ rpc \notin {"deinit", "join"} =>
              \A m \in Shadow : off[m] + cprev = sdc[m]
        /\ rpc \in {"dtMod", "dtRelock"} => \A m \in Shadow : m < ri => rres
        /\ rpc = "dtState" /\ ret = "no" => rres
        /\ rpc \in {"ro", "roRelease", "roMod", "roMerge"} => ret = "dt"
        /\ rpc = "fin" /\ ret # "dt" => state = "REINIT"

(* The two threads are on different buffers of a module. *)
OwnBuffer ==
    /\ spc = "copy" => sbuf = idx[si] /\ si \in Shadow
    /\ rpc = "roMerge" => ri \in Shadow
    /\ rpc = "roMerge" /\ ret # "dt" => mb = OtherIdx(idx[ri])

(* Together: what keeps the buffers of the two threads apart. *)
BuffersApart == /\ LockHeld /\ ReleasedOnce /\ ReinitPhase /\ TriggerNew
                /\ CounterMoves /\ NotYetRunning /\ OwnBuffer

-----------------------------------------------------------------------------
(* Modules that must be read before the dead time may go. *)
Late == Waited \ EarlyDt

(* crate_readout_dt counts the modules it waits for, crate_readout every   *)
(* entry of the list: the two agree on a list that has no barrier and no   *)
(* skipped module before a late module.                                    *)
NothingBeforeLate == \A m \in Late : 1..m \subseteq Waited

(* dt_release is reached in crate_readout only if something follows the    *)
(* late modules.                                                           *)
LastNotLate == N \notin Late

(* for_it while crate_readout_dt goes through the list, ... *)
ForItBehind ==
    rpc \in {"dtMod", "dtRelock"} =>
        /\ rfor < ri /\ forIt <= rfor
        /\ 1..(ri - 1) \subseteq Waited => rfor = ri - 1

(* ... and where it ends up: behind every late module ... *)
ForItPastLate ==
    /\ rpc \in {"dtMod", "dtRelock"} /\ ~rres => \A m \in Late : m < ri => m <= forIt
    /\ rpc = "dtState" /\ ret = "no" /\ ~rres => \A m \in Late : m <= forIt
    /\ rpc \in {"ro", "roRelease", "roMod", "roMerge"} /\ ret = "no" =>
          \A m \in Late : m <= forIt

(* ... and before the end of the list.                                     *)
ForItInList == forIt < N

(* Past for_it, is_on says whether the cycle has released the dead time.   *)
IsOnFollows ==
    /\ rpc = "roRelease" /\ forIt < ri - 1 => isOn = ~cleared
    /\ rpc \in {"roMod", "roMerge"} /\ forIt < ri => isOn = ~cleared
    /\ rpc = "fin" /\ state = "READY" => isOn = ~cleared
    /\ rpc \in {"ro", "roRelease", "roMod", "roMerge"} =>
          state \in {"READY", "REINIT"}

(* Together, for a list that ends in no late module and has nothing that   *)
(* crate_readout_dt passes over before one.                                *)
ReleasePoint == ForItBehind /\ ForItPastLate /\ ForItInList /\ IsOnFollows

-----------------------------------------------------------------------------
(* The pending re-configs that crate_readout_dt has seen inhibit the        *)
(* release; past for_it, dt_release.is_on carries that on to finalize.      *)
DueInhibits ==
    /\ rpc \in {"dtLock", "dtMod", "dtRelock"} => due = {}
    /\ due # {} /\ ret = "no" =>
          /\ rpc \in {"dtState", "ro"} => inhibit
          /\ rpc = "roRelease" => IF forIt < ri - 1 THEN isOn ELSE inhibit
          /\ rpc \in {"roMod", "roMerge"} => IF forIt < ri THEN isOn ELSE inhibit
          /\ rpc = "fin" /\ state # "REINIT" => isOn
          /\ rpc \notin {"ret", "deinit", "join", "init", "initLatch", "finState"}

-----------------------------------------------------------------------------
(* Counters. *)

(* Where the counters and the data of the modules are good: the crate is   *)
(* not in a bad state, nor is about to be told so.                         *)
Kept ==
    \/ rpc \in {"dtLock", "ro", "roRelease", "roMod", "roMerge", "finLock"}
    \/ rpc \in {"dtMod", "dtRelock", "dtState"} /\ ~rres
    \/ rpc \in {"fin", "ret", "wait"} /\ state # "REINIT"
    \/ rpc = "finState" /\ ~cleared

(* As long as the dead time is on, the crate counter is the scaler.        *)
CounterIsScaler ==
    ~cleared /\ rpc \in {"dtMod", "dtRelock", "dtState", "ro", "roRelease", "roMod",
                         "roMerge", "fin", "finLock", "finState", "ret"} => ctr = ms

(* In a cycle that has data the crate counter has grown.                   *)
CounterGrown ==
    /\ Serving => cprev < ctr
    /\ rpc \in {"ro", "roRelease", "roMod", "roMerge"} => state # "PREPARED"

(* A module that has missed events is behind, the others are in step.      *)
Seen(m) == cnt[m] + Len(pend[m]) - ms
Placed(m) == IF m \in missed THEN Seen(m) < off[m] ELSE Seen(m) = off[m]
InLine == Kept => \A m \in Waited : Placed(m)

(* crate_init leaves modules that convert nothing and counters as read. *)
InitRead == rpc = "initLatch" /\ ~cleared =>
               \A m \in Idx : ec[m] = cnt[m] /\ pend[m] = << >>

(* crate_readout_dt has gone past module m. *)
Past(m) == Kept /\ IF rpc \in {"dtMod", "dtRelock"} THEN m < ri
                   ELSE rpc \notin {"dtLock", "finState", "ret", "wait"}

(* Until the release, such a module has all events of the crate counter,   *)
(* and its shadow data are complete.                                       *)
Whole(m) == /\ ec[m] = cnt[m] /\ cnt[m] - off[m] = ctr
            /\ m \in Shadow => sdc[m] = cnt[m]
LatchedWhole == ~cleared => \A m \in Waited : Past(m) => Whole(m)

Counting == CounterIsScaler /\ CounterGrown /\ InLine /\ InitRead /\ LatchedWhole

-----------------------------------------------------------------------------
(* Data. *)

(* The events after a up to b. *)
Events(a, b) == [k \in 1..(b - a) |-> a + k]

(* Buffers that the shadow thread has not carved up yet are empty. *)
BuffersFresh ==
    /\ rebuild /\ spc \in {"loop", "lock"} => \A b \in Idx \X (0..1) : buf[b] = << >>
    /\ rebuild => spc \notin {"mod", "copy"}

(* Module m has data of this cycle that crate_readout has not read.        *)
Unread(m) == ret = "no" /\ \/ rpc \in {"dtMod", "dtRelock"} /\ m < ri /\ ~rres
                           \/ rpc = "dtState" /\ ~rres
                           \/ rpc = "ro"
                           \/ rpc \in {"roRelease", "roMod", "roMerge"} /\ m >= ri

(* The last event number that was read from module m. *)
ReadUpTo(m) == IF \/ rpc \in {"dtMod", "dtRelock", "dtState", "ro"}
                  \/ rpc \in {"roRelease", "roMod", "roMerge"} /\ m >= ri
               THEN cprev ELSE ctr
(* The last event number before the current shadow buffer of module m. *)
SwitchedAt(m) == IF rpc \in {"dtMod", "dtRelock"} /\ m >= ri THEN cprev ELSE ctr

(* What the modules, and the shadow buffers being filled, hold is one run  *)
(* of events, up to the latest one. The counters tell how far it has come. *)
Converted(m) == cnt[m] - off[m]
Copied(m) == sdc[m] - off[m]
Converting(m) == Converted(m) <= ms /\ pend[m] = Events(Converted(m), ms)
ModuleHolds(m) ==
    /\ mprev[m] = ReadUpTo(m) /\ mprev[m] <= Converted(m)
    /\ fifo[m] = Events(mprev[m], Converted(m))
ShadowHolds(m) ==
    /\ SwitchedAt(m) <= Copied(m) /\ Copied(m) <= Converted(m)
    /\ fifo[m] = Events(Copied(m), Converted(m))
    /\ spc # "zero" => buf[<<m, idx[m]>>] = Events(SwitchedAt(m), Copied(m))
Held(m) == /\ Converting(m)
           /\ m \notin Shadow => ModuleHolds(m)
           /\ m \in Shadow /\ ~result[m] => ShadowHolds(m)
Holding == Kept => \A m \in Waited \ missed : Held(m)

(* The data of the cycle: the shadow buffer left by the switch, or the     *)
(* beginning of what the module holds, however much it has got since.      *)
LeftBuffer(m) == buf[<<m, OtherIdx(idx[m])>>] = Events(cprev, ctr)
FirstInModule(m) ==
    /\ mprev[m] = cprev /\ lat[m] = ctr - cprev /\ lat[m] <= Len(fifo[m])
    /\ \A k \in 1..lat[m] : fifo[m][k] = cprev + k
Left(m) == IF m \in Shadow THEN LeftBuffer(m) ELSE FirstInModule(m)
Waiting == \A m \in Waited : Unread(m) => Left(m)

(* What has been read: module m as far as the loop of crate_readout is, and *)
(* all at the end of a good cycle.                                         *)
Done(m) == ret = "no" /\ \/ rpc \in {"roRelease", "roMod", "roMerge"} /\ m < ri /\ ~rres
                         \/ rpc = "fin" /\ state = "READY"
HandedOut == \A m \in Waited : Done(m) => eb[m] = Events(cprev, ctr)

(* What these rest on. *)
Sound == /\ TypeOK /\ DeadtimeHeld /\ BuffersApart /\ Counting
         /\ LateModulesInDeadtime

Contents == BuffersFresh /\ Holding /\ Waiting /\ HandedOut
=============================================================================
