---------------------------- MODULE DriverReadout ----------------------------
(***************************************************************************)
(* Cycles of the crate with one module: a CAEN V767A, V775, V785, V792 or  *)
(* V965 ("v7nn"), V830, V1190 or V1290 ("v1n90"), a Mesytec module         *)
(* ("mxdc"), a GSI SAM or VFTX2, a SIS 3316 or 3820 ("scaler"), a Vetar or *)
(* Pexaria ("wr"), with every way to transfer its data, but for transfers  *)
(* of 64 bits of the V1190 and V1290. The module may miss a trigger, count *)
(* one too many, or lose or repeat words; the crate has its checks in the  *)
(* dead time, in the readout, in the parser and at the end. This is what   *)
(* they promise together.                                                  *)
(***************************************************************************)
EXTENDS Integers, Sequences, SequencesExt

CONSTANTS
    CounterMod,  \* the width of the module's counter
    NumberMod,   \* that of the event number in the data of the V830 and SAM
    CutOff,      \* tolerance of the parser of the V7nn
    Channels, Geo,
    ScalerStarts,  \* where a master-start scaler may stand at first
    EventMax,    \* bound: events of a cycle
    MaxEvents,   \* bound: events
    MaxFaults    \* bound: faults of the module

ASSUME WidthAssumption ==
    /\ {CounterMod, NumberMod, CutOff, Channels, EventMax} \subseteq Nat \ {0}
    /\ NumberMod <= CounterMod /\ CutOff + EventMax < CounterMod
ASSUME ScalerAssumption == ScalerStarts \subseteq Nat

V7 == INSTANCE CaenV7nn WITH Room <- EventMax * (Channels + 2) + 1
V8 == INSTANCE CaenV830 WITH Room <- EventMax * (Channels + 2) + 1
V1 == INSTANCE CaenV1n90 WITH Room <- EventMax * (Channels + 4),
                              Depth <- EventMax + 1
MX == INSTANCE MesytecMxdc32 WITH Room <- EventMax * (Channels + 2) + 1
VA == INSTANCE CaenV767a WITH Room <- EventMax * (Channels + 2) + 1
SM == INSTANCE GsiSam WITH Cards <- Channels,
                           Room <- 2 * Channels * (Channels + 2) + 2
SI == INSTANCE Sis3316
VF == INSTANCE GsiVftx2 WITH Room <- Channels + 3
SC == INSTANCE Sis3820Scaler WITH Room <- EventMax * Channels + 3
WR == INSTANCE GsiEtherbone WITH Room <- EventMax

VARIABLES
    cf,      \* the configuration
    pc,      \* where the cycle is
    hw,      \* the module's counter register
    fifo,    \* its output buffer
    ctr, prev, tmc,  \* crate_counter, crate_counter_prev, this_minus_crate
    m,       \* what the driver remembers
    buf,     \* the shadow buffer
    mem,     \* the memory a block transfer goes to
    out, res,  \* what the cycle delivers, and with which result
    due,     \* the events it is for
    gone,    \* those of them without a word in the output buffer
    spoilt,  \* the fault since the crate was initialised
    faults, ids

vars == <<cf, pc, hw, fifo, ctr, prev, tmc, m, buf, mem, out, res, due, gone,
          spoilt, faults, ids>>

NoScaler == -1

(* The drivers, their transfers, empty events written or not, the counter  *)
(* written from before or after the event, and the resolution of the V830. *)
KindsOf(drv, modes) ==
    [drv : {drv}, mode : modes, incl : {TRUE}, old : {FALSE}, bits : {0}]
Kinds ==
    {[k EXCEPT !.incl = i] :
        k \in KindsOf("v7nn", {"noblt", "berr", "blt", "shadow"}), i \in BOOLEAN}
    \cup {[k EXCEPT !.bits = b] :
            k \in KindsOf("v830", {"noblt", "blt", "mblt"}), b \in {26, 32}}
    \cup {[k EXCEPT !.old = o] :
            k \in KindsOf("mxdc", {"noblt", "blt", "mblt", "shadow"}), o \in BOOLEAN}
    \cup UNION {KindsOf(drv, {"noblt"}) : drv \in {"v1n90", "v767a", "vftx2"}}
    \cup KindsOf("sam", {"siderem", "tacquila"})
    \cup KindsOf("sis", {"sync", "async", "auto"})
    \cup KindsOf("scaler", {"noblt", "blt", "mblt"})
    \cup KindsOf("wr", {"vetar", "pexaria"})

Is(drv) == cf.kind.drv = drv
Mode == cf.kind.mode

(* What the initialisation leaves in the driver, and in the module.        *)
Created == [ec |-> 0, full |-> FALSE]
Fresh(was) == CASE Is("v7nn") -> V7!InitSlow
                [] Is("v830") -> V8!InitFast
                [] Is("v1n90") -> V1!InitSlow(was.full)
                [] Is("mxdc") -> MX!PostInit
                [] Is("v767a") -> VA!InitFast(was.ec)
                [] Is("sam") -> SM!InitSlow(was.ec)
                [] Is("sis") -> SI!PostInit
                [] Is("vftx2") -> VF!InitFast
                [] Is("scaler") -> SC!InitFast
                [] Is("wr") -> WR!InitSlow(was.ec)
Cleared(fresh) == IF Is("v767a") \/ Is("sam") \/ Is("wr") THEN 0 ELSE fresh.ec

(* module_counter_latch, at a crate counter of c                           *)
Latch(fresh, c) == (fresh.ec - c) % CounterMod

Init ==
    /\ cf \in [kind : Kinds, early : BOOLEAN, start : {NoScaler} \cup ScalerStarts]
    /\ pc = "open"
    /\ m = Fresh(Created) /\ hw = Cleared(m)
    /\ ctr = (IF cf.start = NoScaler THEN 0 ELSE cf.start)
    /\ prev = ctr /\ tmc = Latch(m, ctr)
    /\ fifo = << >> /\ buf = << >> /\ mem = << >> /\ out = << >> /\ res = {}
    /\ due = << >> /\ gone = {} /\ spoilt = "no" /\ faults = 0 /\ ids = 0

-----------------------------------------------------------------------------
(* The electronics.                                                        *)
Counted == (hw + 1) % CounterMod
Wrote(n) ==
    CASE Is("v7nn") -> V7!Words(Counted, n, ids + 1, cf.kind.incl)
      [] Is("v830") -> V8!Words(cf.kind.bits, Counted, n, ids + 1)
      [] Is("v1n90") -> V1!Words(Counted - 1, n, ids + 1)
      [] Is("mxdc") -> MX!Words(Counted, n, ids + 1, cf.kind.old, Mode)
      [] Is("v767a") -> VA!Words(Counted, n, ids + 1)
      [] Is("sam") -> SM!Words(Mode, Counted - 1, n, ids + 1)
      [] Is("sis") -> SI!Words(ids + 1)
      [] Is("vftx2") -> VF!Words(n, ids + 1)
      [] Is("scaler") -> SC!Words(ids + 1)
      [] Is("wr") -> WR!Words(ids + 1)

(* A word of the transfer is lost or repeated, or all are lost. A bank     *)
(* without a hit is not full.                                              *)
Unit == IF Mode = "mblt" /\ Is("mxdc") THEN 2 ELSE 1
Garbled(w) ==
    (IF Mode = "auto" THEN {} ELSE {<< >>}) \cup UNION {{SubSeq(w, 1, j * Unit) \o SubSeq(w, (j + 1) * Unit + 1, Len(w)),
                        SubSeq(w, 1, (j + 1) * Unit) \o SubSeq(w, j * Unit + 1, Len(w))} :
                        j \in 0..(Len(w) \div Unit - 1)}

Amounts ==
    CASE Is("v830") -> V8!Values(cf.kind.bits)
      [] Is("sis") \/ Is("scaler") -> {Channels}
      [] Is("wr") -> {1}
      [] Is("sam") -> {0, 1}
      [] OTHER -> 0..Channels

(* What was accepted since the readout began is for the next cycle.        *)
Diff == ctr - prev
Pending == IF pc = "read" THEN Len(due) - Diff ELSE Len(due)
OfParts == Is("sam") \/ Is("sis")
Depth == IF OfParts \/ Is("vftx2") \/ Mode = "pexaria" THEN 1 ELSE EventMax

Put(words) ==
    /\ hw' = Counted
    /\ fifo' = IF Is("sis") THEN SI!Sampled(Mode, m, fifo, words)
               ELSE fifo \o words

Triggered(isGone) ==
    /\ due' = Append(due, ids + 1)
    /\ gone' = IF isGone THEN gone \cup {ids + 1} ELSE gone

(* Of the drivers here only those of Mesytec, the SAM and the Pexaria let  *)
(* the dead time end before their readout.                                 *)
EndsEarly == cf.early /\ (Is("mxdc") \/ Is("sam") \/ Mode = "pexaria")
Accepting ==
    /\ pc = "open" \/ (pc = "read" /\ EndsEarly)
    /\ Pending < Depth /\ Len(due) < EventMax /\ ids < MaxEvents

Event ==
    /\ Accepting
    /\ \E n \in Amounts : Put(Wrote(n)) /\ Triggered(Wrote(n) = << >>)
    /\ ids' = ids + 1
    /\ UNCHANGED <<cf, pc, ctr, prev, tmc, m, buf, mem, out, res, spoilt, faults>>

Fault ==
    /\ Accepting /\ spoilt = "no" /\ faults < MaxFaults
    /\ \/ /\ \E n \in Amounts : \E w \in Garbled(Wrote(n)) :
               Put(w) /\ Triggered(w = << >>)
          /\ spoilt' = "words"
       \/ Triggered(TRUE) /\ spoilt' = "missed" /\ UNCHANGED <<hw, fifo>>
       \/ /\ \E n \in Amounts : Put(Wrote(n))
          /\ spoilt' = "extra" /\ UNCHANGED <<due, gone>>
    /\ faults' = faults + 1 /\ ids' = ids + 1
    /\ UNCHANGED <<cf, pc, ctr, prev, tmc, m, buf, mem, out, res>>

-----------------------------------------------------------------------------
(* The crate. The counter has advanced, by crate_tag_counter_increase or   *)
(* in the scaler.                                                          *)
Begin ==
    /\ pc = "open" /\ due # << >>
    /\ pc' = "wait" /\ ctr' = ctr + Len(due)
    /\ UNCHANGED <<cf, hw, fifo, prev, tmc, m, buf, mem, out, res, due, gone,
                   spoilt, faults, ids>>

(* shadow_func, for this module                                            *)
ReadShadow ==
    /\ Mode = "shadow" /\ pc \in {"open", "wait"} /\ fifo # << >>
    /\ LET r == IF Is("v7nn") THEN V7!ReadShadow(m, buf, fifo)
                ELSE MX!ReadShadow(m, buf, fifo, cf.kind.old) IN
       /\ buf' = r.out /\ fifo' = r.rest /\ m' = r.m /\ res' = r.res
       /\ pc' = IF r.res = {} THEN pc ELSE "verdict"
    /\ UNCHANGED <<cf, hw, ctr, prev, tmc, mem, out, due, gone, spoilt, faults,
                   ids>>

(* crate_readout_dt: COUNTER_DIFF of the crate's counter with one of the   *)
(* module, what readout_dt has found and that of the data seen by the      *)
(* shadow. Some drivers have given up before if there are no data, that    *)
(* of the SIS 3316 may ask for its counter for ever, and those of Vetar    *)
(* and Pexaria are asked again while their timestamps come.                *)
Missing(c) == (ctr - c + tmc) % CounterMod
InStep(c) == Is("v1n90") \/ Is("vftx2") \/ Missing(c) = 0
TooMany(c) == Missing(c) > EventMax
HaveCome == IF Is("wr") THEN 0..Len(fifo) ELSE {Len(fifo)}
Adds == OfParts \/ Is("wr")
DataSeen == Mode # "shadow" \/ InStep(m.seen)

Asks == Is("sam") \/ (Is("sis") /\ Mode = "sync")

ReadoutDt ==
    /\ pc = "wait"
    /\ Is("sis") => SI!Answers(Mode, m, hw, fifo)
    /\ \E num \in HaveCome :
         /\ m' = CASE Is("v7nn") -> V7!ReadoutDt(m, hw)
                   [] Is("v830") -> V8!ReadoutDt(m, hw)
                   [] Is("v1n90") -> V1!ReadoutDt(m, hw, fifo)
                   [] Is("mxdc") -> MX!ReadoutDt(m, hw, fifo)
                   [] Is("v767a") -> VA!ReadoutDt(m, hw)
                   [] Is("sam") -> SM!ReadoutDt(m, fifo)
                   [] Is("sis") -> SI!ReadoutDt(Mode, m, hw, fifo)
                   [] Is("vftx2") -> m
                   [] Is("scaler") -> SC!ReadoutDt(m, hw)
                   [] Is("wr") -> WR!ReadoutDt(m, num)
         /\ LET read == IF Adds THEN m'.ec ELSE hw IN
            \/ InStep(read) /\ DataSeen /\ pc' = "read" /\ UNCHANGED res
            \/ Is("wr") /\ ~InStep(read) /\ ~TooMany(read) /\ UNCHANGED <<pc, res>>
            \/ \* DT_TIMEOUT, READOUT_TIMEOUT
               /\ \/ ~InStep(read) /\ (num = Len(fifo) \/ TooMany(read))
                  \/ ~DataSeen /\ fifo = << >>
               /\ pc' = "verdict" /\ res' = {IF Asks THEN "missing" ELSE "counter"}
    /\ UNCHANGED <<cf, hw, fifo, ctr, prev, tmc, buf, mem, out, due, gone, spoilt,
                   faults, ids>>

(* read_module or shadow_merge_module, then check_empty in the dead time.  *)
Kept(r) == [out |-> r.out, rest |-> r.rest, res |-> r.res, m |-> m]
Transfers ==
    CASE Mode = "shadow" -> {[out |-> buf, rest |-> fifo, res |-> {}, m |-> m]}
      [] Is("v7nn") /\ Mode # "shadow" ->
           {Kept(V7!Read(Mode, m, fifo, Diff, pad)) : pad \in 0..1}
      [] Is("v830") -> {Kept(V8!Read(Mode, fifo, Diff, old, pad)) :
                          old \in {<< >>, mem}, pad \in 0..1}
      [] Is("v1n90") -> {V1!Read(m, fifo, Diff)}
      [] Is("mxdc") /\ Mode # "shadow" ->
           {Kept(MX!Read(Mode, m, fifo, cf.kind.old, pad)) :
               pad \in IF Mode = "mblt" THEN 0..1 ELSE {0}}
      [] Is("v767a") -> VA!Read(m, fifo)
      [] Is("sam") -> {SM!Read(m, fifo, pad) : pad \in [SM!Clients -> 0..1]}
      [] Is("sis") -> {SI!Read(Mode, m, fifo)}
      [] Is("vftx2") -> {Kept(VF!Read(fifo))}
      [] Is("scaler") -> {Kept(SC!Read(Mode, fifo, Diff, pad)) : pad \in 0..1}
      [] Is("wr") -> {Kept(WR!Read(m, fifo, Diff))}

ParseData(now, b) ==
    CASE Is("v7nn") -> V7!Parse(now, b, ctr)
      [] Is("v830") -> V8!Parse(cf.kind.bits, now, b)
      [] Is("v1n90") -> V1!Parse(now, b)
      [] Is("mxdc") -> MX!Parse(now, b, cf.kind.old)
      [] Is("v767a") -> [m |-> now, res |-> {}]
      [] Is("sam") -> SM!Parse(Mode, now, b)
      [] Is("sis") -> SI!Parse(Mode, now)
      [] Is("vftx2") -> [m |-> now, res |-> VF!Parse(b)]
      [] Is("scaler") -> [m |-> now, res |-> SC!Parse(b)]
      [] Is("wr") -> [m |-> now, res |-> {}]

(* check_empty of the driver, asked while the dead time is not released    *)
NotEmpty(rest) ==
    /\ ~cf.early /\ ~OfParts /\ rest # << >>
    /\ Is("wr") => WR!CheckEmpty(Mode, rest)

Readout ==
    /\ pc = "read"
    /\ \E r \in Transfers :
         LET p == IF r.res = {} THEN ParseData(r.m, r.out) ELSE [m |-> r.m, res |-> {}]
             found == r.res \cup p.res
         IN /\ out' = r.out /\ fifo' = r.rest /\ m' = p.m
            /\ mem' = IF Is("v830") /\ Mode # "noblt" THEN r.out ELSE mem
            /\ res' = IF found = {} /\ NotEmpty(r.rest) THEN {"too_much"} ELSE found
    /\ pc' = "verdict" /\ buf' = << >>
    /\ UNCHANGED <<cf, hw, ctr, prev, tmc, due, gone, spoilt, faults, ids>>

(* crate_readout_finalize. Events accepted since the readout began are for *)
(* the next cycle.                                                         *)
Later == SubSeq(due, Diff + 1, Len(due))

Finalize ==
    /\ pc = "verdict" /\ res = {}
    /\ pc' = "open" /\ prev' = ctr /\ out' = << >>
    /\ due' = Later /\ gone' = gone \cap ToSet(Later)
    /\ UNCHANGED <<cf, hw, fifo, ctr, tmc, m, buf, mem, res, spoilt, faults, ids>>

(* crate_deinit and crate_init, or another run of the program after        *)
(* log_die: the module is reset, a scaler is not, and has counted all      *)
(* events.                                                                 *)
Reinit ==
    /\ pc = "verdict" /\ res # {}
    /\ pc' = "open" /\ out' = << >> /\ res' = {}
    /\ m' = Fresh(IF "die" \in res THEN Created ELSE m)
    /\ hw' = Cleared(m') /\ fifo' = << >> /\ buf' = << >>
    /\ ctr' = IF cf.start = NoScaler THEN 0 ELSE ctr + Len(Later)
    /\ prev' = ctr' /\ tmc' = Latch(m', ctr')
    /\ due' = << >> /\ gone' = {} /\ spoilt' = "no"
    /\ UNCHANGED <<cf, mem, faults, ids>>

Next == Event \/ Fault \/ Begin \/ ReadShadow \/ ReadoutDt \/ Readout
          \/ Finalize \/ Reinit

Spec == Init /\ [][Next]_vars

-----------------------------------------------------------------------------
Heads == SelectSeq(out, LAMBDA w : w.k = "header")
Delivered == [j \in DOMAIN Heads |-> Heads[j].id]
Owed == SubSeq(due, 1, Diff)

(* Events that are gone may be passed over by the V7nn, which need not     *)
(* write an empty event, by a Mesytec module that has nothing at all, and  *)
(* by a SIS 3316 that delivers what there is.                              *)
PassedOver(e) ==
    e \in gone /\ \/ Is("v7nn") \/ (Is("sis") /\ Mode = "async")
                  \/ Is("mxdc") /\ ToSet(Owed) \subseteq gone
Present == SelectSeq(Owed, LAMBDA e : ~PassedOver(e))

(* The SAM delivers one event, from both busses, and the SIS 3316 from all *)
(* channels.                                                               *)
Parts == IF Is("sam") THEN SM!Clients ELSE 1..Channels
HeadersOf(g) == {Heads[j].id : j \in {i \in DOMAIN Heads : Heads[i].g = g}}
IsPresent == IF OfParts THEN \A g \in Parts : HeadersOf(g) = ToSet(Present)
             ELSE Delivered = Present

(* After a fault of the V830, a word that is no header where one must be,  *)
(* and passes for it: see IsHeader. And a header among the data of another *)
(* one, which is not looked for in data of 32 bits.                        *)
SpoiltV830 == Is("v830") /\ spoilt # "no"
PassesForHeader ==
    SpoiltV830 /\ \E j \in V8!HeaderPlaces(out) : out[j].k # "header"
PassesForDatum ==
    /\ SpoiltV830 /\ cf.kind.bits = 32
    /\ \E j \in DOMAIN out \ V8!HeaderPlaces(out) : out[j].k = "header"

(* The driver of the V767A reads one event, whatever the number of events  *)
(* of the cycle.                                                           *)
OneForAll == Is("v767a") /\ Len(Owed) > 1

(* An event of the SAM too many: both the driver and the card number what  *)
(* they have, so all following events go out one trigger late. The SIS     *)
(* 3316 has it in place of the next one, or with it.                       *)
OneLate == OfParts /\ spoilt = "extra"

(* The SIS 3316 has not switched its banks, and the readout delivers what  *)
(* the last one did again.                                                 *)
SameBank == Is("sis") /\ Mode = "auto" /\ spoilt = "missed"

(* The same timestamp counted in two looks at the FIFO, in place of one    *)
(* that has not come; and one of this cycle left in the FIFO, or of an     *)
(* earlier one found in it, where nothing looks whether it is empty.       *)
CountedAgain == Is("wr") /\ m.num # Diff
LeftOver ==
    /\ Is("wr") /\ (Mode = "vetar" \/ cf.early)
    /\ \/ out # << >> /\ out[1].id < Owed[1]
       \/ \E j \in DOMAIN fifo : fifo[j].id <= Last(Owed)

(* A cycle that is accepted delivers the events it is for, each once and   *)
(* in order, whatever single fault there was.                              *)
AcceptedIsEvents ==
    pc = "verdict" /\ res = {} =>
        \/ IsPresent \/ PassesForHeader \/ PassesForDatum \/ OneForAll \/ OneLate
        \/ SameBank \/ CountedAgain \/ LeftOver

(* An event without a word, which the readout waits for if it looks at the *)
(* words.                                                                  *)
WaitsForNothing == Is("v7nn") /\ gone # {} /\ Mode \in {"noblt", "shadow"}

(* The parser of the V7nn compares with the crate's counter as it is, not  *)
(* with this_minus_crate.                                                  *)
ScalerTooNear ==
    Is("v7nn") /\ \E k \in 0..(EventMax - 1) : (tmc - k) % CounterMod < CutOff

(* The counter of the V767A has been cleared, but module_counter_latch has *)
(* taken the one that was last read for it: out of step until the program  *)
(* is started again.                                                       *)
LatchedStale == Is("v767a") /\ m.seen # 0

(* The driver of the SIS 3316 has counted the event before this one twice. *)
CountsTwice == Is("sis") /\ Mode = "async" /\ m.ec > 1

(* The parser of the SIS 3820 counts the fillers of an MBLT as data.       *)
FillerCounted == Is("scaler") /\ \E j \in DOMAIN out : out[j].k = "filler"

(* An MBLT of the V830 is rounded up to an even number of words, and the   *)
(* last one, whatever was in the memory, must be a header.                 *)
RoundedUp == Is("v830") /\ Mode = "mblt" /\ (Diff * (1 + Channels)) % 2 = 1

(* The timestamps that have come late are added to those counted before.   *)
AddedAgain == Is("wr") /\ TooMany(m.ec)

(* A cycle is refused only after a fault of the module.                    *)
RefusedAfterFault ==
    pc = "verdict" /\ res # {} =>
        \/ spoilt # "no" \/ WaitsForNothing \/ ScalerTooNear
        \/ OneForAll \/ LatchedStale \/ CountsTwice
        \/ FillerCounted \/ RoundedUp \/ AddedAgain
=============================================================================
