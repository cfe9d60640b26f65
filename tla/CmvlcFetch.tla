----------------------------- MODULE CmvlcFetch -----------------------------
(***************************************************************************)
(* Readout through the sequencer of an MVLC controller. The sequencer runs *)
(* a stack of VME commands per event and delivers one list of words, which *)
(* the crate cuts up again: first the event counter of every module (the   *)
(* part prepared in dead time), then the data of every module, each piece  *)
(* followed by a marker. Two callers exist: f_user_readout for a           *)
(* free-running system ("free") and f_user_format_event for a triggered    *)
(* one. What the backend does when the latter fails is not in this code:   *)
(* it may initialise again ("trig") or go on ("raw").                      *)
(*                                                                         *)
(* The network and the electronics may lose, double or replace words of an *)
(* event, and a module may miss a trigger.                                 *)
(***************************************************************************)
EXTENDS Integers, Sequences

CONSTANTS
    N,        \* modules in the crate, in the order of module_list
    Half,     \* values of one of the two words of an event counter: 2^16
    Modes,    \* which callers to consider
    MaxEdit,  \* bound: words lost, doubled or replaced, in all
    MaxMiss   \* bound: triggers missed, in all

SizeAssumption == N \in Nat \ {0} /\ Half \in Nat \ {0, 1}
ModeAssumption == Modes \subseteq {"free", "trig", "raw"}
BoundAssumption == MaxEdit \in Nat /\ MaxMiss \in Nat

ASSUME SizeAssumption
ASSUME ModeAssumption
ASSUME BoundAssumption

VARIABLES
    mode,
    armed,   \* the stack of the free-running readout has been set up
    hw,      \* event counters of the modules
    cnt,     \* crate counter
    ahead,   \* this_minus_crate
    val,     \* event_counter.value, what was last fetched or read at init
    parse,   \* parse_counter of the driver
    mis,     \* modules with EVENT_COUNTER_MISMATCH in their result
    reinit,  \* crate.state is STATE_REINIT
    pc, i,   \* where the fetching is, and at which module
    words,   \* the event
    pos,     \* words used so far
    res,     \* result: a set of error bits
    out,     \* data written to the event buffer
    edits, misses,
    hurt,    \* the words of this event are not what the sequencer produced
    late,    \* modules that missed a trigger since the last initialisation
    clean    \* no failed event was left without initialisation

hwVars == <<mode, armed, hw, cnt, words, edits, misses, hurt, late>>
initVars == <<ahead, clean>>
vars == <<hwVars, initVars, val, parse, mis, reinit, pc, i, pos, res, out>>

Modules == 1..N
Mod == Half * Half
Free == mode = "free"

Num(v) == <<"num", v>>
Mark(kind) == <<kind>>            \* 0x12345678, 0x87654321, 0x3456789a
Feed(m) == <<"feed", m>>          \* 0xfeed0000 ^ (id + 1)
Abba(m) == <<"abba", m>>          \* 0xabba0000 ^ (id + 1)
Block(m, c) == <<"block", m, c>>  \* data of module m for its event c
NoData == <<"block">>             \* a block transfer without data

Only(b, w) == IF b THEN <<w>> ELSE << >>

(* What the stack of commands produces, given the counters and the modules *)
(* that have no event.                                                     *)
Intact(c, miss) ==
    Only(Free, Mark("start"))
    \o [k \in 1..(3 * N) |->
          LET m == (k - 1) \div 3 + 1 IN
          <<Num(c[m] % Half), Num(c[m] \div Half), Feed(m)>>[1 + ((k - 1) % 3)]]
    \o Only(~Free, Mark("sep"))
    \o [k \in 1..(2 * N) |->
          LET m == (k - 1) \div 2 + 1 IN
          <<IF m \in miss THEN NoData ELSE Block(m, c[m]), Abba(m)>>
              [1 + ((k - 1) % 2)]]
    \o Only(Free, Mark("end"))

IsNum(w) == w[1] = "num"

(* One word lost, doubled or replaced by another of the same event. When a *)
(* module is out of step no counter word takes the place of another: two   *)
(* faults that make up for each other are beyond what the code can see.    *)
Edit(w, inStep) ==
    {SubSeq(w, 1, k - 1) \o SubSeq(w, k + 1, Len(w)) : k \in DOMAIN w}
    \cup {SubSeq(w, 1, k) \o SubSeq(w, k, Len(w)) : k \in DOMAIN w}
    \cup {[w EXCEPT ![kj[1]] = w[kj[2]]] : kj \in
            {x \in (DOMAIN w) \X (DOMAIN w) :
               inStep \/ ~(IsNum(w[x[1]]) /\ IsNum(w[x[2]]))}}

Remain == Len(words) - pos
NoWrap(c) == c + 1
Increase(c) == (c + 1) % Mod  \* crate_tag_counter_increase

(* The counter of two words. A word that is no counter word is taken to    *)
(* give a value no module can have.                                        *)
HighFirst(lo, hi) == IF IsNum(lo) /\ IsNum(hi) THEN hi[2] + Half * lo[2] ELSE Mod
Counter(lo, hi) == IF IsNum(lo) /\ IsNum(hi) THEN lo[2] + Half * hi[2] ELSE Mod

Differs(m, v) == v = Mod \/ (cnt - v + ahead[m]) % Mod # 0

Init ==
    /\ mode \in Modes /\ armed = FALSE
    /\ hw = [m \in Modules |-> (2 * m) % Mod] /\ cnt = 0
    /\ ahead = hw /\ val = hw /\ parse = hw
    /\ mis = {} /\ reinit = FALSE
    /\ pc = "idle" /\ i = 1 /\ words = << >> /\ pos = 0 /\ res = {}
    /\ out = << >> /\ edits = 0 /\ misses = 0 /\ hurt = FALSE /\ late = {} /\ clean = TRUE

-----------------------------------------------------------------------------
(* The first crate_init of a free-running system comes before the crate is *)
(* told that it is free-running, so that the sequencer is not started and  *)
(* the first call finds no event.                                          *)
NoEvent ==
    /\ pc = "idle" /\ Free /\ ~armed
    /\ cnt' = Increase(cnt)
    /\ res' = {"driver"} /\ pc' = "failed" /\ words' = << >> /\ pos' = 0
    /\ out' = << >> /\ i' = 1
    /\ UNCHANGED <<mode, armed, hw, edits, misses, hurt, late, initVars, val, parse,
                   mis, reinit>>

(* A trigger reaches the modules, the sequencer runs, and the caller that  *)
(* gets the event counts it and begins.                                    *)
Event ==
    /\ pc = "idle" /\ (Free => armed)
    /\ \E miss \in SUBSET Modules :
         LET n == IF miss = {} THEN 0 ELSE 1
             c == [m \in Modules |->
                     IF m \in miss THEN hw[m] ELSE (hw[m] + 1) % Mod] IN
         /\ misses + n <= MaxMiss /\ misses' = misses + n
         /\ hw' = c /\ late' = late \cup miss
         /\ \/ words' = Intact(c, miss) /\ hurt' = FALSE /\ edits' = edits
            \/ /\ edits < MaxEdit /\ edits' = edits + 1
               /\ words' \in Edit(Intact(c, miss), late' = {})
               /\ hurt' = (words' # Intact(c, miss))
    /\ cnt' = Increase(cnt)
    /\ pc' = IF Free THEN "get" ELSE "dt"
    /\ i' = 1 /\ pos' = 0 /\ res' = {} /\ out' = << >>
    /\ UNCHANGED <<mode, armed, initVars, val, parse, mis, reinit>>

Fail(bits) == res' = res \cup bits /\ pc' = "failed"
KeepOut == UNCHANGED <<hwVars, initVars, val, parse, mis>>

(* crate_cmvlc_free_running_fetch: the markers around the event. The       *)
(* library may also have flagged an event that has suffered.               *)
GetEvent ==
    /\ pc = "get"
    /\ \/ /\ Len(words) >= 2
          /\ words[1] = Mark("start") /\ words[Len(words)] = Mark("end")
          /\ pos' = 1 /\ pc' = "dt" /\ UNCHANGED res
       \/ /\ \/ Len(words) < 2
             \/ words[1] # Mark("start") \/ words[Len(words)] # Mark("end")
             \/ hurt
          /\ Fail({"driver"}) /\ UNCHANGED pos
    /\ KeepOut /\ UNCHANGED <<i, reinit, out>>

AnyMarker(k, w) == Remain > k

(* The marker that must follow the piece of a module, k words on.          *)
MarkerAt(k, w) == Remain > k /\ words[pos + k + 1] = w

(* crate_cmvlc_fetch_dt, one module: fetch its counter; an error, also one *)
(* of the module before, is taken for data out of place; check the marker; *)
(* compare the counters.                                                   *)
FetchDt ==
    /\ pc = "dt" /\ i <= N
    /\ UNCHANGED <<hwVars, initVars, parse, out>>
    /\ \/ /\ Remain < 2
          /\ Fail({"driver"}) /\ reinit' = TRUE
          /\ UNCHANGED <<val, mis, i, pos>>
       \/ /\ Remain >= 2
          /\ val' = [val EXCEPT ![i] = Counter(words[pos + 1], words[pos + 2])]
          /\ \/ /\ res # {} /\ Fail({}) /\ reinit' = TRUE
                /\ UNCHANGED <<mis, i, pos>>
             \/ /\ res = {} /\ ~MarkerAt(2, Feed(i))
                /\ Fail({"driver"}) /\ UNCHANGED <<mis, i, pos, reinit>>
             \/ /\ res = {} /\ MarkerAt(2, Feed(i))
                /\ pos' = pos + 3 /\ i' = i + 1
                /\ IF Differs(i, val'[i])
                   THEN mis' = mis \cup {i} /\ res' = {"counter"}
                   ELSE UNCHANGED <<mis, res>>
                /\ UNCHANGED <<pc, reinit>>

(* The caller: the result of the dead-time part, and the separator.        *)
DtDone ==
    /\ pc = "dt" /\ i = N + 1
    /\ \/ /\ res # {} /\ Fail({}) /\ UNCHANGED <<i, pos>>
       \/ /\ res = {} /\ ~Free /\ ~MarkerAt(0, Mark("sep"))
          /\ Fail({"driver"}) /\ UNCHANGED <<i, pos>>
       \/ /\ res = {} /\ (Free \/ MarkerAt(0, Mark("sep")))
          /\ pos' = (IF Free THEN pos ELSE pos + 1)
          /\ pc' = "data" /\ i' = 1 /\ UNCHANGED res
    /\ KeepOut /\ UNCHANGED <<reinit, out>>

(* parse_data of the driver (mesytec_mxdc32.c): the data must be of this   *)
(* module and, when there is a trigger, of the event after the last one.   *)
Parsed(m, w) ==
    IF w = NoData THEN {}
    ELSE IF w[2] # m THEN {"corrupt"}
    ELSE IF ~Free /\ w[3] # (parse[m] + 1) % Mod THEN {"counter"}
    ELSE {}

(* crate_cmvlc_fetch, one module: take its block; again an error of the    *)
(* module before is taken for data out of place; parse; check the marker.  *)
Fetch ==
    /\ pc = "data" /\ i <= N
    /\ UNCHANGED <<hwVars, initVars, val, mis>>
    /\ \/ /\ Remain = 0 \/ words[pos + 1][1] # "block"
          /\ Fail({"driver"}) /\ reinit' = TRUE
          /\ UNCHANGED <<parse, out, i, pos>>
       \/ LET w == words[pos + 1] IN
          /\ Remain > 0 /\ w[1] = "block"
          /\ out' = out \o Only(w # NoData, w)
          /\ \/ /\ res # {} /\ Fail({}) /\ reinit' = TRUE
                /\ UNCHANGED <<parse, i, pos>>
             \/ /\ res = {}
                /\ parse' = [parse EXCEPT ![i] = val[i]]
                /\ \/ /\ ~MarkerAt(1, Abba(i))
                      /\ Fail(Parsed(i, w) \cup {"driver"})
                      /\ UNCHANGED <<i, pos>>
                   \/ /\ MarkerAt(1, Abba(i))
                      /\ res' = Parsed(i, w)
                      /\ pos' = pos + 2 /\ i' = i + 1 /\ UNCHANGED pc
                /\ UNCHANGED reinit

(* The caller: the result, and nothing (but the end marker) may be left.   *)
DataDone ==
    /\ pc = "data" /\ i = N + 1
    /\ \/ /\ res = {} /\ Remain = (IF Free THEN 1 ELSE 0)
          /\ pc' = "accepted" /\ UNCHANGED res
       \/ /\ res # {} /\ Fail({})
       \/ /\ res = {} /\ Remain # (IF Free THEN 1 ELSE 0) /\ Fail({"driver"})
    /\ KeepOut /\ UNCHANGED <<i, pos, reinit, out>>

Return ==
    /\ pc = "accepted" /\ pc' = "idle"
    /\ KeepOut /\ UNCHANGED <<i, pos, res, reinit, out>>

NotStarted == FALSE
Started == Free  \* f_user_local_init

(* f_user_init on a set-up crate: crate_deinit and crate_init. The counter *)
(* of the crate starts anew, those of the modules are read where they are. *)
Reinit ==
    /\ pc = "failed" /\ mode # "raw"
    /\ armed' = Started /\ cnt' = 0
    /\ val' = hw /\ parse' = hw /\ ahead' = hw
    /\ mis' = {} /\ late' = {} /\ reinit' = FALSE /\ pc' = "idle"
    /\ UNCHANGED <<mode, hw, words, edits, misses, hurt, clean, i, pos, res, out>>

GoOn ==
    /\ pc = "failed" /\ mode = "raw"
    /\ clean' = FALSE /\ pc' = "idle"
    /\ UNCHANGED <<hwVars, ahead, val, parse, mis, reinit, i, pos, res, out>>

Next == \/ NoEvent \/ Event \/ GetEvent \/ FetchDt \/ DtDone \/ Fetch
        \/ DataDone \/ Return \/ Reinit \/ GoOn

Spec == Init /\ [][Next]_vars
(* The caller runs whatever arrives to its end, and triggers keep coming.   *)
FairSpec == Spec /\ WF_vars(Next)

-----------------------------------------------------------------------------
(* An event is accepted only if the words are those the sequencer produced *)
(* and no module is out of step, and then the data of all modules, in      *)
(* order and nothing else, are in the event buffer.                        *)
AcceptedIsWhole ==
    pc = "accepted" =>
        /\ ~hurt /\ late = {}
        /\ out = [m \in Modules |-> Block(m, hw[m])]

(* No false alarm: with intact words, modules that have seen every trigger *)
(* and an initialisation after every failed event, fetching does not fail. *)
RefusedForCause ==
    pc = "failed" => hurt \/ late # {} \/ ~clean \/ (Free /\ ~armed)

(* When the faults are over, events are accepted again.                    *)
Recovers == mode # "raw" => []<>(pc = "accepted")

(* The comment in crate_cmvlc_fetch_dt: "Continue to check all other."     *)
EveryMismatchNamed ==
    pc = "failed" /\ ~hurt /\ clean /\ (Free => armed) => late \subseteq mis
=============================================================================
