---------------------------- MODULE CrateCreate ----------------------------
(***************************************************************************)
(* Creating a crate from the blocks of its configuration: tags, barriers,  *)
(* module ids and counters, and what is refused; then the first part of    *)
(* crate_init, as far as it is about ids, tags and counters, and cycles of *)
(* f_user_readout, each for the tag of a trigger. The blocks come from one *)
(* or several files.                                                       *)
(***************************************************************************)
EXTENDS Integers, Sequences, SequencesExt, FiniteSets

CONSTANTS
    TagBlocks,    \* [names, scaler], "" if the counter is automatic
    ModuleBlocks, \* [type, scaler it offers, its multi_event tag]
    Places,       \* <<file, line and column>> where a TAGS block may be
    Skips,        \* what an ID_SKIP may skip
    Overrides,    \* choices of event_max_override
    MaxBlocks,    \* bound: blocks
    MaxTriggers   \* bound: triggers

CreateAssumption ==
    /\ Skips \subseteq Nat /\ Overrides \subseteq Nat
    /\ MaxBlocks \in Nat /\ MaxTriggers \in Nat

ASSUME CreateAssumption

VARIABLES
    step,    \* "create", "init", "run", "read" or "dead"
    blocks,   \* blocks read
    used,     \* places used
    active, counter,  \* tag_active_vec, and the counter of the next modules
    nextId,   \* module_id
    tags,     \* tag_list: refs into mods, counters, gsi_pex_is_needed, event_max
    mods,     \* module_list, with the tags each was written under
    madeFor,  \* tags that each counter was made for
    pex, multi, offered,  \* gsi_pex, trloii_multi_event, scaler_list
    shadow, override,
    value, prev,  \* counters: the value and that of the last cycle
    trigger, prepared, count

createVars == <<step, blocks, used, active, counter, nextId, tags, mods,
                madeFor, pex, multi, offered, shadow, override, value, prev,
                trigger, prepared, count>>
settings == <<shadow, override>>
running == <<value, prev, trigger, prepared, count>>

------------------------------------------------------------------------------
(* The signatures: bits that hold the id, bits that are fixed, and those   *)
(* of them that are one.                                                   *)
Sign(id, fixed, ones) == [id |-> id, fixed |-> fixed, ones |-> ones]
Twice(half) == half \cup {b + 16 : b \in half}
Whole(half) == Sign({}, 0..31, Twice(half))

MesytecTypes == {"madc32", "mqdc32", "mtdc32", "vmmr8", "mdpp"}
MesytecFiller == Whole({1, 4, 5, 9, 12, 13})
Mesytec(fixed) == {Sign(16..23, fixed, {31}), MesytecFiller}
V1n90Filler == Whole({4} \cup 7..12)

Signature(type) ==
    CASE type = "v7nn" -> {Sign(27..31, 24..26 \cup {14, 15}, {25}), Whole(0..10)}
      [] type = "v830" -> {Sign(27..31, {26}, {26}), Whole({4, 5, 11})}
      [] type = "v1n90" -> {Sign(0..4, 27..31, {26}), V1n90Filler}
      [] type = "madc32" -> Mesytec(24..31 \cup {10, 11})
      [] type = "mqdc32" -> Mesytec(24..31 \cup 12..14)
      [] type = "mtdc32" -> Mesytec(24..31)
      [] type = "vmmr8" -> Mesytec(25..31 \cup 12..15)
      [] type = "mdpp" -> Mesytec(28..31)
      [] type = "v767a" -> {Whole({1, 3, 4, 5, 6, 9, 10, 12, 13, 14})}
      [] type = "vftx2" -> {Sign(0..7, 24..31, {24, 25, 27, 29, 31})}
      [] type = "vuprom" -> {Sign(16..23, 24..31 \cup 9..15, 25..31)}
      [] type = "dummy" -> {Sign({}, 16..31, {2, 4, 5, 9, 12})}
      [] type = "sis_3316" -> {Sign({}, 16..31, {17, 18, 20, 24, 25, 28, 29})}
      [] OTHER -> {}

(* What the data do begin with, by their readout and parse_data: Mesytec   *)
(* modules have 1 in the two topmost bits and not 2, the V1n90 has 8 in    *)
(* bits 27 to 31 and not 8 << 23, the VUPROM a mark in bit 9, and the      *)
(* dummy has 0x1234 in the upper half.                                     *)
First(type) ==
    IF type \in MesytecTypes THEN {Sign(16..23, 25..31, {30}), MesytecFiller}
    ELSE CASE type = "v1n90" -> {Sign(0..4, 27..31, {30}), V1n90Filler}
           [] type = "vuprom" -> {Sign(16..23, 24..31, 25..31)}
           [] type = "dummy" -> {Sign({}, 16..31, {18, 20, 21, 25, 28})}
           [] OTHER -> Signature(type)

(* event_max when the module is created and after init_slow                *)
EventMaxAtFirst(type) == IF type = "madc32" THEN 0 ELSE
    CASE type \in {"v7nn", "v767a", "dummy"} -> 32
      [] type = "v830" -> 992
      [] type = "mqdc32" -> 1818
      [] type = "mtdc32" -> 1351
      [] type = "vmmr8" -> 100
      [] type = "mdpp" -> 190
      [] type = "sis_3316" -> 512
      [] type = "v1n90" -> 1024
      [] type = "vulom" -> 170
      [] OTHER -> 1
EventMax(type) == IF type = "madc32" THEN 222 ELSE EventMaxAtFirst(type)
NeedsPex(type) == type \in {"febex", "tamex"}

(* signature_match                                                         *)
SignatureMatch(l, r) ==
    \E p \in Signature(l), q \in Signature(r) :
       /\ p.id # q.id
       /\ LET mask == p.fixed \cap q.fixed IN mask \cap p.ones = mask \cap q.ones

------------------------------------------------------------------------------
Automatic(place) == <<"auto", place>>
Scaler(name) == <<"scaler", name>>
NewTag == [refs |-> << >>, counters |-> {}, pex |-> FALSE, max |-> 0]
CounterReplaced(tag, c) == [tag EXCEPT !.counters = {c}]   \* only the latest
WithCounter(tag, c) == [tag EXCEPT !.counters = @ \cup {c}]
TagGet(list, names) ==
    [n \in DOMAIN list \cup names |-> IF n \in DOMAIN list THEN list[n] ELSE NewTag]

CreateInit ==
    /\ step = "create" /\ blocks = 0 /\ used = {}
    /\ active = {"Default"} /\ counter = Automatic("Default") /\ nextId = 0
    /\ tags = [n \in {"Default"} |-> [NewTag EXCEPT !.counters = {counter}]]
    /\ mods = << >> /\ madeFor = [c \in {counter} |-> {active}]
    /\ pex = FALSE /\ multi = "" /\ offered = {}
    /\ shadow = FALSE /\ override = 0
    /\ value = [c \in {} |-> 0] /\ prev = value
    /\ trigger = 0 /\ prepared = FALSE /\ count = << >>

ReadBlock == step = "create" /\ blocks < MaxBlocks /\ blocks' = blocks + 1
Refused == step' = "dead"

Tags ==
    /\ ReadBlock
    /\ \E b \in TagBlocks, at \in Places \ used :
         LET c == IF b.scaler = "" THEN Automatic(at[2]) ELSE Scaler(b.scaler)
             list == TagGet(tags, b.names) IN
         /\ used' = used \cup {at}
         /\ IF b.names = {} THEN Refused /\ UNCHANGED <<active, counter, tags, madeFor>>
            ELSE /\ active' = b.names /\ counter' = c
                 /\ tags' = [n \in DOMAIN list |->
                               IF n \in b.names
                               THEN WithCounter(list[n], c)
                               ELSE list[n]]
                 /\ madeFor' = [d \in DOMAIN madeFor \cup {c} |->
                                  (IF d \in DOMAIN madeFor THEN madeFor[d] ELSE {})
                                  \cup (IF d = c THEN {b.names} ELSE {})]
                 /\ UNCHANGED step
    /\ UNCHANGED <<nextId, mods, pex, multi, offered, settings, running>>

IdSkip ==
    /\ ReadBlock
    /\ \E n \in Skips : nextId' = nextId + n
    /\ UNCHANGED <<step, used, active, counter, tags, mods, madeFor, pex, multi,
                   offered, settings, running>>

(* module_insert                                                           *)
Inserted(list, m) ==
    [n \in DOMAIN list |-> IF n \in active
                           THEN [list[n] EXCEPT !.refs = Append(@, m)] ELSE list[n]]

Barrier ==
    /\ ReadBlock
    /\ tags' = Inserted(tags, Len(mods) + 1)
    /\ mods' = Append(mods, [type |-> "barrier", id |-> 0, counter |-> counter,
                             under |-> active])
    /\ UNCHANGED <<step, used, active, counter, nextId, madeFor, pex, multi,
                   offered, settings, running>>

GsiPex ==
    /\ ReadBlock
    /\ pex' = TRUE /\ step' = IF pex THEN "dead" ELSE step
    /\ UNCHANGED <<used, active, counter, nextId, tags, mods, madeFor, multi,
                   offered, settings, running>>

LastModule(n) ==   \* the module just before
    LET refs == tags[n].refs IN
    IF refs = << >> THEN {} ELSE {mods[refs[Len(refs)]].type} \ {"barrier"}
(* The modules of a tag since its last barrier                             *)
SinceBarrier(n) ==
    LET refs == tags[n].refs IN
    {mods[refs[j]].type : j \in {i \in DOMAIN refs : \A k \in i..Len(refs) :
                                    mods[refs[k]].type # "barrier"}}
Delivers(type) == EventMaxAtFirst(type) # 0
BarrierMissing(type) ==
    /\ Delivers(type)
    /\ \E n \in active : \E rover \in SinceBarrier(n) :
          Delivers(rover) /\ SignatureMatch(type, rover)

AddModule ==
    /\ ReadBlock
    /\ \E b \in ModuleBlocks :
         /\ offered' = offered \cup {Scaler(b.scaler)}
         /\ IF \/ BarrierMissing(b.type)
               \/ b.multi # "" /\ multi # ""
            THEN Refused /\ UNCHANGED <<nextId, tags, mods, multi>>
            ELSE /\ nextId' = nextId + 1
                 /\ multi' = (IF b.multi # "" THEN b.multi ELSE multi)
                 /\ mods' = Append(mods, [type |-> b.type, id |-> nextId,
                                          counter |-> counter, under |-> active])
                 /\ tags' = LET with == Inserted(tags, Len(mods) + 1) IN
                            [n \in DOMAIN with |->
                               IF n \in active
                               THEN [with[n] EXCEPT !.pex = @ \/ NeedsPex(b.type)]
                               ELSE with[n]]
                 /\ UNCHANGED step
    /\ UNCHANGED <<used, active, counter, madeFor, pex, settings, running>>

Counters == DOMAIN madeFor
IsAuto(c) == c[1] = "auto"

(* The checks at the end of crate_create. What is configured for the       *)
(* shadow readout and event_max matters from here on.                      *)
Undefined ==
    \/ ~pex /\ \E n \in DOMAIN tags : tags[n].pex
    \/ \E c \in Counters : ~IsAuto(c) /\ c \notin offered
    \/ multi # "" /\ multi \notin DOMAIN tags

Created ==
    /\ step = "create" /\ blocks > 0
    /\ step' = IF Undefined THEN "dead" ELSE "init"
    /\ shadow' \in BOOLEAN /\ override' \in Overrides
    /\ UNCHANGED <<blocks, used, active, counter, nextId, tags, mods, madeFor, pex,
                   multi, offered, running>>

------------------------------------------------------------------------------
(* crate_init: the ids, module_init_id_mark, where only the V7nn tells the *)
(* one it has got, the number of events per trigger, and the counters.     *)
Modules == {m \in DOMAIN mods : mods[m].type # "barrier"}
IdTaken(m) == IF mods[m].type = "v7nn" THEN mods[m].id % 32 ELSE mods[m].id

Smallest(n) ==
    LET maxima == {EventMax(mods[m].type) : m \in ToSet(tags[n].refs) \cap Modules} IN
    IF maxima = {} THEN 1000000000
    ELSE CHOOSE x \in maxima : \A y \in maxima : x <= y
BusyLock == /\ override > 0 /\ ~shadow
            /\ \E n \in DOMAIN tags : override > Smallest(n)
TagMax(n) == IF override > 0 THEN override ELSE Smallest(n)

CrateInit ==
    /\ step = "init"
    /\ step' = IF BusyLock \/ \E l, m \in Modules : l # m /\ IdTaken(l) = IdTaken(m)
                THEN "dead" ELSE "run"
    /\ tags' = [n \in DOMAIN tags |-> [tags[n] EXCEPT !.max = TagMax(n)]]
    /\ value' = [c \in Counters |-> 0] /\ prev' = value'
    /\ count' = [m \in DOMAIN mods |-> 0]
    /\ UNCHANGED <<blocks, used, active, counter, nextId, mods, madeFor, pex, multi,
                   offered, settings, trigger, prepared>>

(* The tag of a trigger, g_tag, and crate_tag_counter_increase. A scaler   *)
(* has counted the trigger or not.                                         *)
NameOf(t) == IF t = 1 THEN "1" ELSE "2"
Exists(t) == NameOf(t) \in DOMAIN tags
TagOf(t) == IF t = 1 /\ ~Exists(t) THEN "Default" ELSE NameOf(t)
Advanced(t) == IF TagOf(t) \in DOMAIN tags THEN tags[TagOf(t)].counters ELSE {}

Trigger ==
    /\ step = "run" /\ trigger < MaxTriggers
    /\ \E t \in {1, 2}, scaled \in SUBSET {c \in Counters : ~IsAuto(c)} :
         /\ value' = [c \in Counters |->
                        IF IsAuto(c)
                        THEN value[c] + (IF c \in Advanced(t) THEN 1 ELSE 0)
                        ELSE value[c] + (IF c \in scaled THEN 1 ELSE 0)]
         /\ prepared' = (TagOf(t) \in DOMAIN tags /\ tags[TagOf(t)].pex)
         /\ count' = [m \in DOMAIN mods |->
                        count[m] + (IF TagOf(t) \in mods[m].under THEN 1 ELSE 0)]
    /\ trigger' = trigger + 1 /\ step' = "read"
    /\ UNCHANGED <<blocks, used, active, counter, nextId, tags, mods, madeFor, pex,
                   multi, offered, settings, prev>>

(* read_module of all modules: those whose counter has moved.              *)
ReadOut == {m \in Modules : value[mods[m].counter] # prev[mods[m].counter]}

Readout ==
    /\ step = "read"
    /\ step' = "run" /\ prev' = value
    /\ UNCHANGED <<blocks, used, active, counter, nextId, tags, mods, madeFor, pex,
                   multi, offered, settings, value, trigger, prepared, count>>

CreateNext ==
    \/ Tags \/ IdSkip \/ Barrier \/ GsiPex \/ AddModule \/ Created
    \/ CrateInit \/ Trigger \/ Readout

CreateSpec == CreateInit /\ [][CreateNext]_createVars

------------------------------------------------------------------------------
(* A counter that was made for different tags: the name of an automatic    *)
(* one is the place of its block without the file.                         *)
SamePlace(c) == Cardinality(madeFor[c]) > 1

(* doc/index.tex: the progression of the counter "must exactly match that  *)
(* of the event counters of all modules with the same combination of       *)
(* tags".                                                                  *)
CounterFollows(m) ==
    LET c == mods[m].counter IN
    ~IsAuto(c) \/ SamePlace(c) \/ value[c] = count[m]

(* Modules that wait for the PEX board have been announced to it.          *)
Announced(m) ==
    NeedsPex(mods[m].type) /\ IsAuto(mods[m].counter) =>
        prepared \/ SamePlace(mods[m].counter)

(* "your system would busy lock": the trigger logic is told to take no     *)
(* more events than the modules hold, or than the shadow readout is for.   *)
Holds(m) == \A n \in mods[m].under :
              tags[n].max <= EventMax(mods[m].type) \/ (shadow /\ override > 0)

(* When a trigger is read, its tag has done for each of its modules what   *)
(* that module's readout relies on (crate_create, module_insert,           *)
(* crate_tag_counter_increase, and the event_max of crate_init).           *)
TagsServeModules ==
    step = "read" => /\ \A m \in Modules : CounterFollows(m) /\ Holds(m)
                     /\ \A m \in ReadOut : Announced(m)

(* The bits of a first word that are known, and those that are one         *)
Powers == <<1, 2, 4, 8, 16, 32, 64, 128, 256>>
LowBit(S) == CHOOSE b \in S : \A d \in S : b <= d
IdBits(p, id) == {b \in p.id : (id \div Powers[b - LowBit(p.id) + 1]) % 2 = 1}
Ones(p, id) == (p.ones \cap p.fixed) \cup IdBits(p, id)
Alike(p, i, q, j) ==
    LET known == (p.id \cup p.fixed) \cap (q.id \cup q.fixed) IN
    known \cap Ones(p, i) = known \cap Ones(q, j)

(* The same word without an id, and ids that do not fit where they go, are *)
(* not told apart.                                                         *)
SameWord(p, q) == p = q /\ p.id = {}
TooWide(p, i) == p.id # {} /\ i >= Powers[Cardinality(p.id) + 1]

Between(l, m) == {mods[k].type : k \in (l + 1)..(m - 1)}
Confused(l, m) ==
    \E p \in First(mods[l].type), q \in First(mods[m].type) :
       /\ Alike(p, mods[l].id, q, mods[m].id)
       /\ ~SameWord(p, q) /\ ~TooWide(p, mods[l].id) /\ ~TooWide(q, mods[m].id)

(* Pairs for which no barrier is demanded although one is needed: those    *)
(* whose signatures differ and whose data do not, and those with a MADC-32,*)
(* which has no event_max yet when the crate is created.                   *)
Misdeclared == {{"v1n90", type} : type \in MesytecTypes} \cup {{"v7nn", "dummy"}}
Unasked(l, m) ==
    LET pair == {mods[l].type, mods[m].type} IN
    pair \in Misdeclared \/ \E type \in pair : ~Delivers(type)

Neighbours(l, m) ==
    /\ l < m /\ mods[l].under \cap mods[m].under # {}
    /\ "barrier" \notin Between(l, m)

(* A cycle for one counter: whatever it writes, two modules without a      *)
(* barrier between them do not begin with the same word ("nurdlib demands  *)
(* a module barrier", crate.c:642).                                        *)
NeighboursDiffer ==
    step = "read" =>
       \A l, m \in ReadOut :
          Neighbours(l, m) /\ ~Unasked(l, m) => ~Confused(l, m)

(* The same for all modules: a barrier is demanded wherever one is needed. *)
BarriersDemanded ==
    step = "read" => \A l, m \in ReadOut : Neighbours(l, m) => ~Confused(l, m)
=============================================================================
