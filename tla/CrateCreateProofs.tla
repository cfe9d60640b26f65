-------------------------- MODULE CrateCreateProofs --------------------------
(***************************************************************************)
(* Whatever blocks a crate is made of, in whatever order, and whatever     *)
(* triggers come: a tag serves the modules it is for, and neighbours whose *)
(* data could be confused are kept apart.                                  *)
(***************************************************************************)
EXTENDS CrateCreate, FiniteSetTheorems, SequenceTheorems, WellFoundedInduction, TLAPS

-----------------------------------------------------------------------------
(* What the variables may hold.                                            *)
AnyType == {b.type : b \in ModuleBlocks} \cup {"barrier"}
AnyCounter ==
    {Automatic(at[2]) : at \in Places} \cup {Automatic("Default")}
    \cup {Scaler(b.scaler) : b \in TagBlocks}
AnyNames == {b.names : b \in TagBlocks} \cup {{"Default"}}
Entry == [type : AnyType, id : Nat, counter : AnyCounter, under : AnyNames]
Tag == [refs : Seq(Nat), counters : SUBSET AnyCounter, pex : BOOLEAN, max : Nat]

CreateTypeOK ==
    /\ step \in {"create", "init", "run", "read", "dead"}
    /\ active \in AnyNames /\ counter \in AnyCounter /\ nextId \in Nat
    /\ mods \in Seq(Entry)
    /\ \A n \in DOMAIN tags : tags[n] \in Tag
    /\ DOMAIN madeFor \subseteq AnyCounter
    /\ shadow \in BOOLEAN /\ override \in Nat /\ prepared \in BOOLEAN
    /\ step \in {"run", "read"} =>
         /\ value \in [Counters -> Nat] /\ prev \in [Counters -> Nat]
         /\ count \in [DOMAIN mods -> Nat]

(* The tags a counter was made for: the current one, those of the modules  *)
(* that use it, and no tags that are not there.                            *)
Made ==
    /\ counter \in Counters /\ active \in madeFor[counter]
    /\ \A c \in Counters : IsFiniteSet(madeFor[c])
    /\ \A c \in Counters : \A S \in madeFor[c] : S \subseteq DOMAIN tags
    /\ \A m \in DOMAIN mods : /\ mods[m].counter \in Counters
                              /\ mods[m].under \in madeFor[mods[m].counter]

(* A tag has the counters that were made for it.                           *)
Linked ==
    \A n \in DOMAIN tags :
       /\ tags[n].counters \subseteq Counters
       /\ \A c \in Counters : c \in tags[n].counters <=> \E S \in madeFor[c] : n \in S

(* A tag refers to its modules, and announces them.                        *)
Listed ==
    \A m \in DOMAIN mods : \A n \in mods[m].under :
       /\ \E k \in DOMAIN tags[n].refs : tags[n].refs[k] = m
       /\ NeedsPex(mods[m].type) => tags[n].pex

Running ==
    /\ step = "run" => prev = value
    /\ step \in {"run", "read"} => \A m \in Modules : CounterFollows(m) /\ Holds(m)
    /\ step = "read" => \A m \in ReadOut : Announced(m)

Inv == CreateTypeOK /\ Made /\ Linked /\ Listed /\ Running
-----------------------------------------------------------------------------
(* Sets of tags.                                                           *)
LEMMA OnlyOne ==
    ASSUME NEW S, IsFiniteSet(S), Cardinality(S) <= 1, NEW x \in S
    PROVE  S = {x}
<1>1. Cardinality(S) \in Nat /\ IsFiniteSet({x}) /\ Cardinality({x}) = 1
  BY FS_CardinalityType, FS_Singleton
<1>2. {x} \in SUBSET S /\ Cardinality({x}) <= Cardinality(S)
  BY FS_Subset
<1>3. Cardinality(S) = Cardinality({x})
  BY <1>1, <1>2
<1> QED
  BY <1>2, <1>3, FS_Subset

(* A counter that was made for one set of tags only is in these.           *)
LEMMA InItsTags ==
    ASSUME CreateTypeOK, Made, Linked, NEW m \in DOMAIN mods, ~SamePlace(mods[m].counter),
           NEW n \in DOMAIN tags
    PROVE  mods[m].counter \in tags[n].counters <=> n \in mods[m].under
<1> DEFINE c == mods[m].counter
<1>1. c \in Counters /\ mods[m].under \in madeFor[c] /\ IsFiniteSet(madeFor[c])
  BY DEF Made
<1>2. Cardinality(madeFor[c]) \in Nat
  BY <1>1, FS_CardinalityType
<1>3. Cardinality(madeFor[c]) <= 1
  BY <1>2 DEF SamePlace
<1>4. madeFor[c] = {mods[m].under}
  BY <1>1, <1>3, OnlyOne
<1>5. c \in tags[n].counters <=> \E S \in madeFor[c] : n \in S
  BY <1>1 DEF Linked
<1> QED
  BY <1>4, <1>5

LEMMA UnderIsThere ==
    ASSUME Made, NEW m \in DOMAIN mods
    PROVE  mods[m].under \subseteq DOMAIN tags
BY DEF Made

(* A set of naturals that is not empty has a least element: one that makes *)
(* the set of those up to it smallest.                                     *)
LEMMA LeastIs ==
    ASSUME NEW S, S \subseteq Nat, S # {}
    PROVE  \E x \in S : \A y \in S : x <= y
<1> DEFINE Upto(x) == {y \in S : y <= x}
           T == {Upto(x) : x \in S}
<1>1. ASSUME NEW x \in S PROVE Upto(x) \subseteq S /\ IsFiniteSet(Upto(x))
  BY FS_BoundedSetOfNaturals
<1>2. T \subseteq FiniteSubsetsOf(S) /\ T # {}
  <2>1. ASSUME NEW t \in T PROVE t \in SUBSET S /\ IsFiniteSet(t)
    BY <1>1
  <2>2. T # {}
    OBVIOUS
  <2> HIDE DEF T
  <2> QED
    BY <2>1, <2>2 DEF FiniteSubsetsOf
<1>3. PICK t \in T : \A u \in T : ~(<<u, t>> \in StrictSubsetOrdering(S))
  <2>1. IsWellFoundedOn(StrictSubsetOrdering(S), FiniteSubsetsOf(S))
    BY FS_StrictSubsetOrderingWellFounded
  <2> HIDE DEF T
  <2> QED
    BY <1>2, <2>1, WFMin, Zenon
<1>4. PICK x \in S : t = Upto(x)
  OBVIOUS
<1>5. ASSUME NEW y \in S, y < x PROVE FALSE
  <2>1. x \in Nat /\ y \in Nat /\ \A z \in S : z \in Nat
    OBVIOUS
  <2>2. Upto(y) \subseteq Upto(x) /\ x \in Upto(x) /\ x \notin Upto(y)
    <3>1. ASSUME NEW z \in S, z <= y PROVE z <= x
      BY <1>5, <2>1, <3>1
    <3>2. x <= x /\ ~(x <= y)
      BY <1>5, <2>1
    <3> QED
      BY <3>1, <3>2
  <2>3. Upto(x) \in SUBSET S /\ Upto(y) \in SUBSET S /\ Upto(y) \in T
    OBVIOUS
  <2>4. ~(<<Upto(y), Upto(x)>> \in StrictSubsetOrdering(S))
    BY <1>3, <1>4, <2>3
  <2> HIDE DEF Upto, T
  <2> QED
    BY <2>2, <2>3, <2>4 DEF StrictSubsetOrdering
<1>6. \A y \in S : x <= y
  BY <1>5
<1> QED
  BY <1>6

(* event_max: the modules of a tag.                                        *)
LEMMA MaximaAre == \A type : EventMax(type) \in Nat
BY DEF EventMax, EventMaxAtFirst

LEMMA SmallestIs ==
    ASSUME NEW n \in DOMAIN tags
    PROVE  /\ Smallest(n) \in Nat
           /\ \A m \in Modules : (\E k \in DOMAIN tags[n].refs : tags[n].refs[k] = m)
                                  => Smallest(n) <= EventMax(mods[m].type)
<1> DEFINE S == {EventMax(mods[m].type) : m \in ToSet(tags[n].refs) \cap Modules}
<1>1. S \subseteq Nat
  BY MaximaAre
<1>2. PICK none \in Nat :
        Smallest(n) = IF S = {} THEN none ELSE CHOOSE x \in S : \A y \in S : x <= y
  BY SMT DEF Smallest
<1>3. ASSUME NEW m \in Modules, \E k \in DOMAIN tags[n].refs : tags[n].refs[k] = m
      PROVE  EventMax(mods[m].type) \in S
  <2>1. m \in ToSet(tags[n].refs)
    BY <1>3 DEF ToSet
  <2> QED
    BY <2>1
<1> HIDE DEF S
<1>4. S # {} => \E x \in S : \A y \in S : x <= y
  BY <1>1, LeastIs
<1>5. S # {} => Smallest(n) \in S /\ \A y \in S : Smallest(n) <= y
  BY <1>2, <1>4
<1>6. Smallest(n) \in Nat
  BY <1>1, <1>2, <1>5
<1> QED
  BY <1>3, <1>5, <1>6

LEMMA SettingsAre ==
    /\ \A n \in Skips : n \in Nat
    /\ \A v \in Overrides : v \in Nat
BY CreateAssumption DEF CreateAssumption

(* The records.                                                            *)
LEMMA TagFields ==
    /\ NewTag \in Tag /\ NewTag.counters = {} /\ NewTag.refs = << >> /\ NewTag.pex = FALSE
    /\ \A t \in Tag : \A c \in AnyCounter :
         /\ WithCounter(t, c) \in Tag /\ WithCounter(t, c).counters = t.counters \cup {c}
         /\ WithCounter(t, c).refs = t.refs /\ WithCounter(t, c).pex = t.pex
<1>1. << >> \in Seq(Nat)
  OBVIOUS
<1> QED
  BY <1>1 DEF NewTag, Tag, WithCounter


LEMMA PexField ==
    ASSUME NEW t \in Tag, NEW p \in BOOLEAN
    PROVE  /\ [t EXCEPT !.pex = p] \in Tag
           /\ [t EXCEPT !.pex = p].pex = p
           /\ [t EXCEPT !.pex = p].counters = t.counters
           /\ [t EXCEPT !.pex = p].refs = t.refs
BY DEF Tag

-----------------------------------------------------------------------------
(* A module that is new: its id, and that no barrier is missing.           *)
IsNew(e) ==
    \/ e.type = "barrier" /\ nextId' = nextId
    \/ e.id = nextId /\ nextId' = nextId + 1 /\ ~BarrierMissing(e.type)

(* What a step does to the tags: nothing that matters here, ...            *)
Keeps ==
    /\ UNCHANGED <<active, counter, mods, madeFor>>
    /\ DOMAIN tags' = DOMAIN tags
    /\ \A n \in DOMAIN tags : /\ tags'[n] \in Tag
                              /\ tags'[n].refs = tags[n].refs
                              /\ tags'[n].counters = tags[n].counters
                              /\ tags'[n].pex = tags[n].pex

(* ... names others for the modules to come, with the counter for them, ... *)
Had(n) == IF n \in DOMAIN tags THEN tags[n] ELSE NewTag
MadeOf(c) == IF c \in Counters THEN madeFor[c] ELSE {}
Names(names, c) ==
    /\ mods' = mods
    /\ active' = names /\ counter' = c
    /\ DOMAIN tags' = DOMAIN tags \cup names
    /\ \A n \in DOMAIN tags' :
         /\ tags'[n] \in Tag
         /\ tags'[n].refs = Had(n).refs /\ tags'[n].pex = Had(n).pex
         /\ tags'[n].counters = Had(n).counters \cup (IF n \in names THEN {c} ELSE {})
    /\ DOMAIN madeFor' = Counters \cup {c}
    /\ \A d \in DOMAIN madeFor' :
         madeFor'[d] = MadeOf(d) \cup (IF d = c THEN {names} ELSE {})

(* ... or puts a new module behind those of the current tags.              *)
Joins(e) ==
    /\ UNCHANGED <<active, counter, madeFor>> /\ IsNew(e)
    /\ mods' = Append(mods, e) /\ e \in Entry
    /\ e.counter = counter /\ e.under = active
    /\ DOMAIN tags' = DOMAIN tags
    /\ \A n \in DOMAIN tags :
         /\ tags'[n] \in Tag
         /\ tags'[n].counters = tags[n].counters
         /\ tags'[n].refs = IF n \in active THEN Append(tags[n].refs, Len(mods) + 1)
                            ELSE tags[n].refs
         /\ tags[n].pex => tags'[n].pex
         /\ n \in active /\ NeedsPex(e.type) => tags'[n].pex

LEMMA TagsName ==
    ASSUME CreateTypeOK, Tags
    PROVE  Keeps \/ \E names \in AnyNames, c \in AnyCounter : Names(names, c)
<1> USE DEF CreateTypeOK
<1>1. PICK b \in TagBlocks, at \in Places \ used :
        LET c == IF b.scaler = "" THEN Automatic(at[2]) ELSE Scaler(b.scaler)
            list == TagGet(tags, b.names) IN
        IF b.names = {} THEN Refused /\ UNCHANGED <<active, counter, tags, madeFor>>
        ELSE /\ active' = b.names /\ counter' = c
             /\ tags' = [n \in DOMAIN list |->
                           IF n \in b.names THEN WithCounter(list[n], c) ELSE list[n]]
             /\ madeFor' = [d \in DOMAIN madeFor \cup {c} |->
                              (IF d \in DOMAIN madeFor THEN madeFor[d] ELSE {})
                              \cup (IF d = c THEN {b.names} ELSE {})]
             /\ UNCHANGED step
  BY DEF Tags
<1> DEFINE c == IF b.scaler = "" THEN Automatic(at[2]) ELSE Scaler(b.scaler)
           list == TagGet(tags, b.names)
<1>2. mods' = mods
  BY DEF Tags
<1>3. CASE b.names = {}
  BY <1>1, <1>2, <1>3 DEF Keeps
<1>4. CASE b.names # {}
  <2>1. c \in AnyCounter /\ b.names \in AnyNames
    BY DEF AnyCounter, AnyNames
  <2>2. DOMAIN list = DOMAIN tags \cup b.names /\ \A n \in DOMAIN list : list[n] = Had(n)
    BY DEF TagGet, Had
  <2>3. \A n \in DOMAIN list : list[n] \in Tag
    BY <2>2, TagFields DEF Had
  <2>4. /\ active' = b.names /\ counter' = c
        /\ tags' = [n \in DOMAIN list |->
                      IF n \in b.names THEN WithCounter(list[n], c) ELSE list[n]]
        /\ madeFor' = [d \in DOMAIN madeFor \cup {c} |->
                         (IF d \in DOMAIN madeFor THEN madeFor[d] ELSE {})
                         \cup (IF d = c THEN {b.names} ELSE {})]
    BY <1>1, <1>4
  <2> HIDE DEF c, list
  <2>5. DOMAIN tags' = DOMAIN tags \cup b.names
    BY <2>2, <2>4
  <2>6. ASSUME NEW n \in DOMAIN tags'
        PROVE  /\ tags'[n] \in Tag
               /\ tags'[n].refs = Had(n).refs /\ tags'[n].pex = Had(n).pex
               /\ tags'[n].counters
                    = Had(n).counters \cup (IF n \in b.names THEN {c} ELSE {})
    <3>1. n \in DOMAIN list /\ Had(n) \in Tag
      BY <2>2, <2>3, <2>5
    <3>2. tags'[n] = IF n \in b.names THEN WithCounter(Had(n), c) ELSE Had(n)
      BY <2>2, <2>4, <3>1
    <3>3. CASE n \in b.names
      <4>1. /\ WithCounter(Had(n), c) \in Tag
            /\ WithCounter(Had(n), c).counters = Had(n).counters \cup {c}
            /\ WithCounter(Had(n), c).refs = Had(n).refs
            /\ WithCounter(Had(n), c).pex = Had(n).pex
        BY <2>1, <3>1, TagFields
      <4> QED
        BY <3>2, <3>3, <4>1
    <3>4. CASE n \notin b.names
      BY <3>1, <3>2, <3>4
    <3> QED
      BY <3>3, <3>4
  <2>7. DOMAIN madeFor' = Counters \cup {c}
    BY <2>4 DEF Counters
  <2>8. \A d \in DOMAIN madeFor' :
          madeFor'[d] = MadeOf(d) \cup (IF d = c THEN {b.names} ELSE {})
    BY <2>4 DEF MadeOf, Counters
  <2>9. Names(b.names, c)
    BY <1>2, <2>4, <2>5, <2>6, <2>7, <2>8 DEF Names
  <2> QED
    BY <2>1, <2>9
<1> QED
  BY <1>3, <1>4

(* module_insert, for a module with or without a need for the PEX board.   *)
LEMMA InsertJoins ==
    ASSUME CreateTypeOK, UNCHANGED <<active, counter, madeFor>>, NEW e \in Entry,
           e.counter = counter, e.under = active, mods' = Append(mods, e), IsNew(e),
           NEW needs \in BOOLEAN, NeedsPex(e.type) => needs,
           tags' = LET with == Inserted(tags, Len(mods) + 1) IN
                   [n \in DOMAIN with |->
                      IF n \in active THEN [with[n] EXCEPT !.pex = @ \/ needs] ELSE with[n]]
    PROVE  Joins(e)
<1> USE DEF CreateTypeOK
<1> DEFINE with == Inserted(tags, Len(mods) + 1)
<1>1. DOMAIN with = DOMAIN tags /\ \A n \in DOMAIN tags :
        with[n] = IF n \in active
                  THEN [tags[n] EXCEPT !.refs = Append(@, Len(mods) + 1)] ELSE tags[n]
  BY DEF Inserted
<1>2. Len(mods) + 1 \in Nat
  OBVIOUS
<1>3. \A n \in DOMAIN tags :
        /\ with[n] \in Tag
        /\ with[n].counters = tags[n].counters /\ with[n].pex = tags[n].pex
        /\ with[n].refs = IF n \in active THEN Append(tags[n].refs, Len(mods) + 1)
                          ELSE tags[n].refs
  <2> SUFFICES ASSUME NEW n \in DOMAIN tags
               PROVE  /\ with[n] \in Tag
                      /\ with[n].counters = tags[n].counters /\ with[n].pex = tags[n].pex
                      /\ with[n].refs = IF n \in active
                                        THEN Append(tags[n].refs, Len(mods) + 1)
                                        ELSE tags[n].refs
    OBVIOUS
  <2>1. tags[n] \in Tag /\ tags[n].refs \in Seq(Nat)
    BY DEF Tag
  <2>2. Append(tags[n].refs, Len(mods) + 1) \in Seq(Nat)
    BY <1>2, <2>1
  <2> HIDE DEF with
  <2> QED
    BY <1>1, <2>1, <2>2 DEF Tag
<1>4. DOMAIN tags' = DOMAIN tags /\ \A n \in DOMAIN tags :
        tags'[n] = IF n \in active THEN [with[n] EXCEPT !.pex = @ \/ needs] ELSE with[n]
  BY <1>1
<1> HIDE DEF with
<1>5. \A n \in DOMAIN tags :
        /\ tags'[n] \in Tag
        /\ tags'[n].counters = with[n].counters /\ tags'[n].refs = with[n].refs
        /\ with[n].pex => tags'[n].pex
        /\ n \in active /\ needs => tags'[n].pex
  <2> SUFFICES ASSUME NEW n \in DOMAIN tags
               PROVE  /\ tags'[n] \in Tag
                      /\ tags'[n].counters = with[n].counters
                      /\ tags'[n].refs = with[n].refs
                      /\ with[n].pex => tags'[n].pex
                      /\ n \in active /\ needs => tags'[n].pex
    OBVIOUS
  <2>1. with[n] \in Tag /\ with[n].pex \in BOOLEAN
    BY <1>3 DEF Tag
  <2>2. PICK p \in BOOLEAN : p = (with[n].pex \/ needs)
    OBVIOUS
  <2>3. CASE n \in active
    <3>1. tags'[n] = [with[n] EXCEPT !.pex = p]
      BY <1>4, <2>2, <2>3
    <3>2. /\ [with[n] EXCEPT !.pex = p] \in Tag
          /\ [with[n] EXCEPT !.pex = p].pex = p
          /\ [with[n] EXCEPT !.pex = p].counters = with[n].counters
          /\ [with[n] EXCEPT !.pex = p].refs = with[n].refs
      BY <2>1, PexField
    <3> QED
      BY <2>2, <3>1, <3>2
  <2>4. CASE n \notin active
    BY <1>4, <2>1, <2>4
  <2> QED
    BY <2>3, <2>4
<1> QED
  BY <1>3, <1>4, <1>5 DEF Joins

LEMMA BarrierJoins ==
    ASSUME CreateTypeOK, Barrier
    PROVE  \E e : Joins(e)
<1> USE DEF CreateTypeOK
<1> DEFINE e == [type |-> "barrier", id |-> 0, counter |-> counter, under |-> active]
<1>1. e \in Entry /\ e.counter = counter /\ e.under = active /\ e.type = "barrier"
  BY DEF Entry, AnyType
<1>2. mods' = Append(mods, e) /\ UNCHANGED <<active, counter, madeFor>>
      /\ tags' = Inserted(tags, Len(mods) + 1) /\ nextId' = nextId
  BY DEF Barrier
<1> HIDE DEF e
<1>3. DOMAIN tags' = DOMAIN tags /\ \A n \in DOMAIN tags :
        tags'[n] = IF n \in active
                   THEN [tags[n] EXCEPT !.refs = Append(@, Len(mods) + 1)] ELSE tags[n]
  BY <1>2 DEF Inserted
<1>4. ~NeedsPex(e.type)
  BY <1>1 DEF NeedsPex
<1>5. ASSUME NEW n \in DOMAIN tags
      PROVE  /\ tags'[n] \in Tag
             /\ tags'[n].counters = tags[n].counters /\ tags'[n].pex = tags[n].pex
             /\ tags'[n].refs = IF n \in active THEN Append(tags[n].refs, Len(mods) + 1)
                                ELSE tags[n].refs
  <2>1. tags[n] \in Tag /\ tags[n].refs \in Seq(Nat) /\ Len(mods) + 1 \in Nat
    BY DEF Tag
  <2>2. Append(tags[n].refs, Len(mods) + 1) \in Seq(Nat)
    BY <2>1
  <2> QED
    BY <1>3, <2>1, <2>2 DEF Tag
<1>6. Joins(e)
  BY <1>1, <1>2, <1>3, <1>4, <1>5 DEF Joins, IsNew
<1> QED
  BY <1>6

LEMMA ModuleJoins ==
    ASSUME CreateTypeOK, AddModule
    PROVE  Keeps \/ \E e : Joins(e)
<1> USE DEF CreateTypeOK
<1>1. PICK b \in ModuleBlocks :
        IF BarrierMissing(b.type) \/ (b.multi # "" /\ multi # "")
        THEN Refused /\ UNCHANGED <<nextId, tags, mods, multi>>
        ELSE /\ nextId' = nextId + 1
             /\ mods' = Append(mods, [type |-> b.type, id |-> nextId,
                                      counter |-> counter, under |-> active])
             /\ tags' = LET with == Inserted(tags, Len(mods) + 1) IN
                        [n \in DOMAIN with |->
                           IF n \in active
                           THEN [with[n] EXCEPT !.pex = @ \/ NeedsPex(b.type)]
                           ELSE with[n]]
  BY DEF AddModule
<1>2. UNCHANGED <<active, counter, madeFor>>
  BY DEF AddModule
<1>3. CASE BarrierMissing(b.type) \/ (b.multi # "" /\ multi # "")
  <2>1. tags' = tags /\ mods' = mods
    BY <1>1, <1>3
  <2> QED
    BY <1>2, <2>1 DEF Keeps
<1>4. CASE ~(BarrierMissing(b.type) \/ (b.multi # "" /\ multi # ""))
  <2> DEFINE e == [type |-> b.type, id |-> nextId, counter |-> counter, under |-> active]
  <2>1. /\ e \in Entry /\ e.counter = counter /\ e.under = active
        /\ e.type = b.type /\ e.id = nextId
    BY DEF Entry, AnyType
  <2>2. PICK needs \in BOOLEAN : needs = NeedsPex(b.type)
    <3>1. NeedsPex(b.type) \in BOOLEAN
      BY DEF NeedsPex
    <3> QED
      BY <3>1
  <2>3. mods' = Append(mods, e)
        /\ tags' = LET with == Inserted(tags, Len(mods) + 1) IN
                   [n \in DOMAIN with |->
                      IF n \in active THEN [with[n] EXCEPT !.pex = @ \/ needs] ELSE with[n]]
    BY <1>1, <1>4, <2>2
  <2> HIDE DEF e
  <2>4. NeedsPex(e.type) => needs
    BY <2>1, <2>2
  <2>5. IsNew(e)
    BY <1>1, <1>4, <2>1 DEF IsNew
  <2>6. Joins(e)
    BY <1>2, <2>1, <2>3, <2>4, <2>5, InsertJoins
  <2> QED
    BY <2>6
<1> QED
  BY <1>3, <1>4

LEMMA InitKeeps ==
    ASSUME CreateTypeOK, CrateInit
    PROVE  Keeps
<1> USE DEF CreateTypeOK
<1>1. UNCHANGED <<active, counter, mods, madeFor>>
      /\ tags' = [n \in DOMAIN tags |-> [tags[n] EXCEPT !.max = TagMax(n)]]
  BY DEF CrateInit
<1>2. ASSUME NEW n \in DOMAIN tags
      PROVE  /\ tags'[n] \in Tag
             /\ tags'[n].refs = tags[n].refs /\ tags'[n].counters = tags[n].counters
             /\ tags'[n].pex = tags[n].pex
  <2>1. tags'[n] = [tags[n] EXCEPT !.max = TagMax(n)]
    BY <1>1
  <2>2. TagMax(n) \in Nat
    <3>1. Smallest(n) \in Nat
      BY SmallestIs
    <3> QED
      BY <3>1 DEF TagMax
  <2> QED
    BY <2>1, <2>2 DEF Tag
<1> QED
  BY <1>1, <1>2 DEF Keeps

LEMMA TagSteps ==
    ASSUME CreateTypeOK, [CreateNext]_createVars
    PROVE  \/ Keeps
           \/ \E names \in AnyNames, c \in AnyCounter : Names(names, c)
           \/ \E e : Joins(e)
<1> DEFINE Same == UNCHANGED <<active, counter, mods, madeFor, tags>>
<1>1. Same => Keeps
  BY DEF Keeps, CreateTypeOK
<1>2. CASE Tags
  BY <1>2, TagsName
<1>3. CASE IdSkip
  BY <1>1, <1>3 DEF IdSkip
<1>4. CASE Barrier
  BY <1>4, BarrierJoins
<1>5. CASE GsiPex
  BY <1>1, <1>5 DEF GsiPex
<1>6. CASE AddModule
  BY <1>6, ModuleJoins
<1>7. CASE Created
  BY <1>1, <1>7 DEF Created
<1>8. CASE CrateInit
  BY <1>8, InitKeeps
<1>9. CASE Trigger
  BY <1>1, <1>9 DEF Trigger
<1>10. CASE Readout
  BY <1>1, <1>10 DEF Readout
<1>11. CASE UNCHANGED createVars
  BY <1>1, <1>11 DEF createVars
<1> QED
  BY <1>2, <1>3, <1>4, <1>5, <1>6, <1>7, <1>8, <1>9, <1>10, <1>11 DEF CreateNext

-----------------------------------------------------------------------------
(* The parts of CreateTypeOK that TagSteps is about, and the others.       *)
TagTypes ==
    /\ active \in AnyNames /\ counter \in AnyCounter /\ mods \in Seq(Entry)
    /\ \A n \in DOMAIN tags : tags[n] \in Tag
    /\ DOMAIN madeFor \subseteq AnyCounter
PlainTypes ==
    /\ step \in {"create", "init", "run", "read", "dead"}
    /\ nextId \in Nat /\ shadow \in BOOLEAN /\ override \in Nat /\ prepared \in BOOLEAN
RunTypes ==
    step \in {"run", "read"} =>
      /\ value \in [Counters -> Nat] /\ prev \in [Counters -> Nat]
      /\ count \in [DOMAIN mods -> Nat]

LEMMA TagTypesStep ==
    ASSUME CreateTypeOK, [CreateNext]_createVars
    PROVE  TagTypes'
<1> USE DEF CreateTypeOK, TagTypes
<1>1. CASE Keeps
  BY <1>1 DEF Keeps
<1>2. ASSUME NEW names \in AnyNames, NEW c \in AnyCounter, Names(names, c)
      PROVE  TagTypes'
  BY <1>2 DEF Names, Counters
<1>3. ASSUME NEW e, Joins(e)
      PROVE  TagTypes'
  <2>1. Append(mods, e) \in Seq(Entry)
    BY <1>3 DEF Joins
  <2> QED
    BY <1>3, <2>1 DEF Joins
<1> QED
  BY <1>1, <1>2, <1>3, TagSteps

LEMMA PlainTypesStep ==
    ASSUME CreateTypeOK, [CreateNext]_createVars
    PROVE  PlainTypes'
<1> USE DEF CreateTypeOK, PlainTypes
<1>1. CASE Tags
  BY <1>1 DEF Tags, ReadBlock, Refused, settings, running
<1>2. CASE IdSkip
  BY <1>2, SettingsAre DEF IdSkip, ReadBlock, settings, running
<1>3. CASE Barrier
  BY <1>3 DEF Barrier, ReadBlock, settings, running
<1>4. CASE GsiPex
  BY <1>4 DEF GsiPex, ReadBlock, settings, running
<1>5. CASE AddModule
  <2>1. (step' = "dead" /\ nextId' = nextId) \/ (step' = step /\ nextId' = nextId + 1)
    BY <1>5 DEF AddModule, Refused
  <2>2. UNCHANGED <<shadow, override, prepared>>
    BY <1>5 DEF AddModule, settings, running
  <2> QED
    BY <2>1, <2>2
<1>6. CASE Created
  BY <1>6, SettingsAre DEF Created, running
<1>7. CASE CrateInit
  BY <1>7 DEF CrateInit, settings
<1>8. CASE Trigger
  <2>1. PICK t \in {1, 2} :
          prepared' = (TagOf(t) \in DOMAIN tags /\ tags[TagOf(t)].pex)
    BY <1>8 DEF Trigger
  <2>2. prepared' \in BOOLEAN
    BY <2>1
  <2> QED
    BY <1>8, <2>2 DEF Trigger, settings
<1>9. CASE Readout
  BY <1>9 DEF Readout, settings
<1>10. CASE UNCHANGED createVars
  BY <1>10 DEF createVars
<1> QED
  BY <1>1, <1>2, <1>3, <1>4, <1>5, <1>6, <1>7, <1>8, <1>9, <1>10 DEF CreateNext

(* The counters run in crate_init, with a trigger and in a readout only.   *)
LEMMA RunsThen ==
    ASSUME CreateTypeOK, [CreateNext]_createVars, step' \in {"run", "read"}
    PROVE  CrateInit \/ Trigger \/ Readout \/ UNCHANGED createVars
<1>1. CASE Tags
  BY <1>1 DEF Tags, ReadBlock, Refused
<1>2. CASE IdSkip
  BY <1>2 DEF IdSkip, ReadBlock
<1>3. CASE Barrier
  BY <1>3 DEF Barrier, ReadBlock
<1>4. CASE GsiPex
  BY <1>4 DEF GsiPex, ReadBlock
<1>5. CASE AddModule
  BY <1>5 DEF AddModule, ReadBlock, Refused
<1>6. CASE Created
  BY <1>6 DEF Created
<1> QED
  BY <1>1, <1>2, <1>3, <1>4, <1>5, <1>6 DEF CreateNext

(* A trigger, with all that it does.                                       *)
Triggered(t, scaled) ==
    /\ value' = [c \in Counters |->
                   IF IsAuto(c) THEN value[c] + (IF c \in Advanced(t) THEN 1 ELSE 0)
                   ELSE value[c] + (IF c \in scaled THEN 1 ELSE 0)]
    /\ prepared' = (TagOf(t) \in DOMAIN tags /\ tags[TagOf(t)].pex)
    /\ count' = [m \in DOMAIN mods |->
                   count[m] + (IF TagOf(t) \in mods[m].under THEN 1 ELSE 0)]

LEMMA TriggerIs ==
    ASSUME Trigger
    PROVE  /\ \E t \in {1, 2} : \E scaled : Triggered(t, scaled)
           /\ step = "run" /\ step' = "read"
           /\ UNCHANGED <<tags, mods, madeFor, shadow, override, prev>>
BY DEF Trigger, Triggered, settings

LEMMA RunTypesStep ==
    ASSUME CreateTypeOK, [CreateNext]_createVars
    PROVE  RunTypes'
<1> USE DEF CreateTypeOK
<1> SUFFICES ASSUME step' \in {"run", "read"}
             PROVE  /\ value' \in [Counters' -> Nat] /\ prev' \in [Counters' -> Nat]
                    /\ count' \in [DOMAIN mods' -> Nat]
  BY DEF RunTypes
<1>1. CASE CrateInit
  BY <1>1 DEF CrateInit, Counters
<1>2. CASE Trigger
  <2>0. PICK t \in {1, 2} : \E scaled : Triggered(t, scaled)
    BY <1>2, TriggerIs
  <2>1. PICK scaled : Triggered(t, scaled)
    BY <2>0
  <2>2. step = "run" /\ UNCHANGED <<mods, madeFor, prev>>
    BY <1>2, TriggerIs
  <2>3. Counters' = Counters
    BY <2>2 DEF Counters
  <2>4. \A c \in Counters : value[c] \in Nat
    BY <2>2
  <2>5. value' \in [Counters -> Nat]
    <3>1. \A c \in Counters :
            (IF IsAuto(c) THEN value[c] + (IF c \in Advanced(t) THEN 1 ELSE 0)
             ELSE value[c] + (IF c \in scaled THEN 1 ELSE 0)) \in Nat
      BY <2>4
    <3> QED
      BY <2>1, <3>1 DEF Triggered
  <2>6. count' \in [DOMAIN mods -> Nat]
    <3>1. \A m \in DOMAIN mods :
            count[m] + (IF TagOf(t) \in mods[m].under THEN 1 ELSE 0) \in Nat
      BY <2>2
    <3> QED
      BY <2>1, <3>1 DEF Triggered
  <2> QED
    BY <2>2, <2>3, <2>5, <2>6
<1>3. CASE Readout
  <2>1. step = "read" /\ UNCHANGED <<mods, madeFor, value, count>> /\ prev' = value
    BY <1>3 DEF Readout
  <2> QED
    BY <2>1 DEF Counters
<1>4. CASE UNCHANGED createVars
  BY <1>4 DEF createVars, Counters
<1> QED
  BY <1>1, <1>2, <1>3, <1>4, RunsThen

LEMMA TypeStep ==
    ASSUME CreateTypeOK, [CreateNext]_createVars
    PROVE  CreateTypeOK'
<1>1. TagTypes' /\ PlainTypes' /\ RunTypes'
  BY TagTypesStep, PlainTypesStep, RunTypesStep
<1> QED
  BY <1>1 DEF CreateTypeOK, TagTypes, PlainTypes, RunTypes

-----------------------------------------------------------------------------
LEMMA AppendIs ==
    ASSUME NEW S, NEW s \in Seq(S), NEW e \in S
    PROVE  /\ Len(Append(s, e)) = Len(s) + 1
           /\ DOMAIN Append(s, e) = DOMAIN s \cup {Len(s) + 1}
           /\ \A i \in DOMAIN s : Append(s, e)[i] = s[i]
           /\ Append(s, e)[Len(s) + 1] = e
<1>1. /\ Append(s, e) \in Seq(S) /\ Len(Append(s, e)) = Len(s) + 1
      /\ \A i \in 1..Len(s) : Append(s, e)[i] = s[i]
      /\ Append(s, e)[Len(s) + 1] = e
  OBVIOUS
<1>2. DOMAIN s = 1..Len(s) /\ Len(s) \in Nat
  OBVIOUS
<1>3. DOMAIN Append(s, e) = 1..(Len(s) + 1)
  BY <1>1
<1> QED
  BY <1>1, <1>2, <1>3

LEMMA MadeStep ==
    ASSUME CreateTypeOK, Made, [CreateNext]_createVars
    PROVE  Made'
<1> USE DEF Made, Counters
<1>1. CASE Keeps
  BY <1>1 DEF Keeps
<1>2. ASSUME NEW names \in AnyNames, NEW c \in AnyCounter, Names(names, c)
      PROVE  Made'
  <2>1. /\ mods' = mods /\ active' = names /\ counter' = c
        /\ DOMAIN tags' = DOMAIN tags \cup names
        /\ DOMAIN madeFor' = Counters \cup {c}
    BY <1>2 DEF Names
  <2>2. \A d \in DOMAIN madeFor' :
          madeFor'[d] = MadeOf(d) \cup (IF d = c THEN {names} ELSE {})
    BY <1>2 DEF Names
  <2>3. \A d : IsFiniteSet(MadeOf(d)) /\ \A S \in MadeOf(d) : S \subseteq DOMAIN tags
    BY FS_EmptySet DEF MadeOf
  <2>4. \A d \in DOMAIN madeFor' : IsFiniteSet(madeFor'[d])
    <3> SUFFICES ASSUME NEW d \in DOMAIN madeFor' PROVE IsFiniteSet(madeFor'[d])
      OBVIOUS
    <3>1. IsFiniteSet(MadeOf(d) \cup {names})
      BY <2>3, FS_AddElement
    <3>2. madeFor'[d] = MadeOf(d) \cup {names} \/ madeFor'[d] = MadeOf(d)
      BY <2>2
    <3> QED
      BY <2>3, <3>1, <3>2
  <2>5. \A d \in DOMAIN madeFor' : \A S \in madeFor'[d] : S \subseteq DOMAIN tags'
    BY <2>1, <2>2, <2>3
  <2>6. counter' \in DOMAIN madeFor' /\ active' \in madeFor'[counter']
    BY <2>1, <2>2
  <2>7. \A m \in DOMAIN mods : /\ mods[m].counter \in DOMAIN madeFor'
                               /\ mods[m].under \in madeFor'[mods[m].counter]
    BY <2>1, <2>2 DEF MadeOf
  <2> QED
    BY <2>1, <2>4, <2>5, <2>6, <2>7
<1>3. ASSUME NEW e, Joins(e)
      PROVE  Made'
  <2>1. /\ UNCHANGED <<active, counter, madeFor>> /\ DOMAIN tags' = DOMAIN tags
        /\ mods' = Append(mods, e) /\ e \in Entry /\ e.counter = counter /\ e.under = active
    BY <1>3 DEF Joins
  <2>2. \A m \in DOMAIN mods' : mods'[m] = e \/ (m \in DOMAIN mods /\ mods'[m] = mods[m])
    BY <2>1, AppendIs DEF CreateTypeOK
  <2>3. \A m \in DOMAIN mods' : /\ mods'[m].counter \in DOMAIN madeFor
                                /\ mods'[m].under \in madeFor[mods'[m].counter]
    BY <2>1, <2>2
  <2> QED
    BY <2>1, <2>3
<1> QED
  BY <1>1, <1>2, <1>3, TagSteps

LEMMA LinkedStep ==
    ASSUME CreateTypeOK, Made, Linked, [CreateNext]_createVars
    PROVE  Linked'
<1> USE DEF Linked, Counters
<1>1. CASE Keeps
  BY <1>1 DEF Keeps
<1>2. ASSUME NEW names \in AnyNames, NEW c \in AnyCounter, Names(names, c)
      PROVE  Linked'
  <2>1. \A n, d : /\ Had(n).counters \subseteq Counters
                  /\ d \in Had(n).counters <=> \E S \in MadeOf(d) : n \in S
    <3> SUFFICES ASSUME NEW n, NEW d
                 PROVE  /\ Had(n).counters \subseteq Counters
                        /\ d \in Had(n).counters <=> \E S \in MadeOf(d) : n \in S
      OBVIOUS
    <3>1. CASE n \in DOMAIN tags
      BY <3>1 DEF Had, MadeOf
    <3>2. CASE n \notin DOMAIN tags
      <4>1. Had(n).counters = {}
        BY <3>2, TagFields DEF Had
      <4>2. ~\E S \in MadeOf(d) : n \in S
        BY <3>2 DEF Made, MadeOf
      <4> QED
        BY <4>1, <4>2
    <3> QED
      BY <3>1, <3>2
  <2>2. /\ DOMAIN madeFor' = Counters \cup {c}
        /\ \A d \in DOMAIN madeFor' :
             madeFor'[d] = MadeOf(d) \cup (IF d = c THEN {names} ELSE {})
        /\ \A n \in DOMAIN tags' :
             tags'[n].counters = Had(n).counters \cup (IF n \in names THEN {c} ELSE {})
    BY <1>2 DEF Names
  <2>3. ASSUME NEW n \in DOMAIN tags'
        PROVE  tags'[n].counters \subseteq DOMAIN madeFor'
    BY <2>1, <2>2, <2>3
  <2>4. ASSUME NEW n \in DOMAIN tags', NEW d \in DOMAIN madeFor'
        PROVE  d \in tags'[n].counters <=> \E S \in madeFor'[d] : n \in S
    <3>1. d \in tags'[n].counters <=> (d \in Had(n).counters \/ (n \in names /\ d = c))
      BY <2>2
    <3>2. (\E S \in madeFor'[d] : n \in S)
            <=> (\E S \in MadeOf(d) : n \in S) \/ (n \in names /\ d = c)
      BY <2>2
    <3> QED
      BY <2>1, <3>1, <3>2
  <2> QED
    BY <2>3, <2>4
<1>3. ASSUME NEW e, Joins(e)
      PROVE  Linked'
  BY <1>3 DEF Joins
<1> QED
  BY <1>1, <1>2, <1>3, TagSteps

(* What Listed says of one entry.                                          *)
Refers(refs, m) == \E k \in DOMAIN refs : refs[k] = m

LEMMA ListedStep ==
    ASSUME CreateTypeOK, Made, Listed, [CreateNext]_createVars
    PROVE  Listed'
<1>1. \A m \in DOMAIN mods : \A n \in mods[m].under :
        /\ n \in DOMAIN tags /\ Refers(tags[n].refs, m)
        /\ NeedsPex(mods[m].type) => tags[n].pex
  BY UnderIsThere DEF Listed, Refers
<1> SUFFICES ASSUME NEW m \in DOMAIN mods', NEW n \in mods'[m].under
             PROVE  /\ Refers(tags'[n].refs, m)
                    /\ NeedsPex(mods'[m].type) => tags'[n].pex
  BY DEF Listed, Refers
<1>2. CASE Keeps
  BY <1>1, <1>2 DEF Keeps
<1>3. ASSUME NEW names \in AnyNames, NEW c \in AnyCounter, Names(names, c)
      PROVE  /\ Refers(tags'[n].refs, m)
             /\ NeedsPex(mods'[m].type) => tags'[n].pex
  <2>1. mods' = mods /\ n \in DOMAIN tags /\ Had(n) = tags[n]
    BY <1>1, <1>3 DEF Names, Had
  <2>2. tags'[n].refs = tags[n].refs /\ tags'[n].pex = tags[n].pex
    BY <1>3, <2>1 DEF Names
  <2> QED
    BY <1>1, <2>1, <2>2
<1>4. ASSUME NEW e, Joins(e)
      PROVE  /\ Refers(tags'[n].refs, m)
             /\ NeedsPex(mods'[m].type) => tags'[n].pex
  <2>1. /\ mods' = Append(mods, e) /\ e \in Entry /\ e.under = active
        /\ \A p \in DOMAIN tags :
             /\ tags'[p].refs = IF p \in active THEN Append(tags[p].refs, Len(mods) + 1)
                                ELSE tags[p].refs
             /\ tags[p].pex => tags'[p].pex
             /\ p \in active /\ NeedsPex(e.type) => tags'[p].pex
    BY <1>4 DEF Joins
  <2>2. \/ m \in DOMAIN mods /\ mods'[m] = mods[m]
        \/ m = Len(mods) + 1 /\ mods'[m] = e
    BY <2>1, AppendIs DEF CreateTypeOK
  <2>3. n \in DOMAIN tags
    BY <1>1, <2>1, <2>2 DEF Made, Counters
  <2>4. tags[n].refs \in Seq(Nat) /\ Len(mods) + 1 \in Nat
    BY <2>3 DEF CreateTypeOK, Tag
  <2> DEFINE refs == tags[n].refs
             last == Len(mods) + 1
             more == Append(refs, last)
  <2>a. refs \in Seq(Nat) /\ last \in Nat
    BY <2>4
  <2> HIDE DEF refs, last
  <2>b. /\ DOMAIN more = DOMAIN refs \cup {Len(refs) + 1}
        /\ \A i \in DOMAIN refs : more[i] = refs[i]
        /\ more[Len(refs) + 1] = last
    BY <2>a, AppendIs
  <2> USE DEF refs, last
  <2>5. /\ DOMAIN more = DOMAIN tags[n].refs \cup {Len(tags[n].refs) + 1}
        /\ \A i \in DOMAIN tags[n].refs : more[i] = tags[n].refs[i]
        /\ more[Len(tags[n].refs) + 1] = Len(mods) + 1
    BY <2>b
  <2>6. CASE m \in DOMAIN mods /\ mods'[m] = mods[m]
    <3>1. Refers(tags[n].refs, m) /\ (NeedsPex(mods[m].type) => tags[n].pex)
      BY <1>1, <2>6
    <3>2. Refers(more, m)
      BY <2>5, <3>1 DEF Refers
    <3>3. Refers(tags'[n].refs, m)
      BY <2>1, <2>3, <3>1, <3>2
    <3> QED
      BY <2>1, <2>3, <2>6, <3>1, <3>3
  <2>7. CASE m = Len(mods) + 1 /\ mods'[m] = e
    <3>1. n \in active
      BY <2>1, <2>7
    <3>2. Refers(more, m)
      BY <2>5, <2>7 DEF Refers
    <3>3. tags'[n].refs = more
      BY <2>1, <2>3, <3>1
    <3> QED
      BY <2>1, <2>3, <2>7, <3>1, <3>2, <3>3
  <2> QED
    BY <2>2, <2>6, <2>7
<1> QED
  BY <1>2, <1>3, <1>4, TagSteps

-----------------------------------------------------------------------------
(* What crate_init makes of it: no tag may take more than its modules hold. *)
LEMMA InitHolds ==
    ASSUME CreateTypeOK, Made, Listed, CrateInit, step' = "run", NEW m \in Modules
    PROVE  Holds(m)'
<1>1. m \in DOMAIN mods
  BY DEF Modules
<1>2. /\ ~BusyLock /\ UNCHANGED <<mods, shadow, override>>
      /\ tags' = [n \in DOMAIN tags |-> [tags[n] EXCEPT !.max = TagMax(n)]]
  BY DEF CrateInit, settings
<1> SUFFICES ASSUME NEW n \in mods[m].under, ~(shadow /\ override > 0)
             PROVE  tags'[n].max <= EventMax(mods[m].type)
  BY <1>2 DEF Holds
<1>3. n \in DOMAIN tags /\ \E k \in DOMAIN tags[n].refs : tags[n].refs[k] = m
  BY <1>1, UnderIsThere DEF Listed
<1>4. Smallest(n) \in Nat /\ Smallest(n) <= EventMax(mods[m].type)
  BY <1>3, SmallestIs
<1>5. EventMax(mods[m].type) \in Nat
  BY MaximaAre
<1>6. override \in Nat /\ shadow \in BOOLEAN /\ tags[n] \in Tag
  BY <1>3 DEF CreateTypeOK
<1>7. tags'[n].max = TagMax(n)
  BY <1>2, <1>3, <1>6 DEF Tag
<1>8. override > 0 => override <= Smallest(n)
  BY <1>2, <1>3, <1>4, <1>6 DEF BusyLock
<1>9. TagMax(n) <= Smallest(n)
  BY <1>4, <1>6, <1>8 DEF TagMax
<1>10. TagMax(n) \in Nat
  BY <1>4, <1>6 DEF TagMax
<1> QED
  BY <1>4, <1>5, <1>7, <1>9, <1>10

LEMMA InitRuns ==
    ASSUME CreateTypeOK, Made, Listed, CrateInit
    PROVE  Running'
<1> SUFFICES ASSUME step' \in {"run", "read"} PROVE Running'
  BY DEF Running
<1>1. /\ step' = "run" /\ UNCHANGED <<mods, madeFor>>
      /\ value' = [c \in Counters |-> 0] /\ prev' = value'
      /\ count' = [m \in DOMAIN mods |-> 0]
  BY DEF CrateInit
<1>2. Modules' = Modules
  BY <1>1 DEF Modules
<1>3. ASSUME NEW m \in Modules
      PROVE  CounterFollows(m)'
  <2>1. m \in DOMAIN mods /\ mods[m].counter \in Counters
    BY DEF Modules, Made
  <2>2. value'[mods'[m].counter] = count'[m]
    BY <1>1, <2>1
  <2> QED
    BY <2>2 DEF CounterFollows
<1>4. \A m \in Modules : Holds(m)'
  BY <1>1, InitHolds
<1> QED
  BY <1>1, <1>2, <1>3, <1>4 DEF Running

(* A trigger advances the counter of a module if and only if it is one of  *)
(* the module's.                                                           *)
LEMMA TriggerCounts ==
    ASSUME CreateTypeOK, Made, Linked, step = "run", NEW t \in {1, 2}, NEW scaled,
           Triggered(t, scaled), NEW m \in DOMAIN mods, IsAuto(mods[m].counter),
           ~SamePlace(mods[m].counter)
    PROVE  LET c == mods[m].counter
               one == IF TagOf(t) \in mods[m].under THEN 1 ELSE 0
           IN  value'[c] = value[c] + one /\ count'[m] = count[m] + one
<1> DEFINE c == mods[m].counter
           one == IF TagOf(t) \in mods[m].under THEN 1 ELSE 0
<1>1. c \in Counters
  BY DEF Made
<1>2. c \in Advanced(t) <=> TagOf(t) \in mods[m].under
  <2>1. CASE TagOf(t) \in DOMAIN tags
    BY <2>1, InItsTags DEF Advanced
  <2>2. CASE TagOf(t) \notin DOMAIN tags
    BY <2>2, UnderIsThere DEF Advanced
  <2> QED
    BY <2>1, <2>2
<1>3. value'[c] = value[c] + (IF c \in Advanced(t) THEN 1 ELSE 0)
  BY <1>1 DEF Triggered
<1>4. count'[m] = count[m] + one
  BY DEF Triggered
<1> QED
  BY <1>2, <1>3, <1>4

LEMMA TriggerRuns ==
    ASSUME Inv, Trigger
    PROVE  Running'
<1>0. PICK t \in {1, 2} : \E scaled : Triggered(t, scaled)
  BY TriggerIs
<1>1. PICK scaled : Triggered(t, scaled)
  BY <1>0
<1>2. /\ step = "run" /\ step' = "read"
      /\ UNCHANGED <<tags, mods, madeFor, shadow, override, prev>>
  BY TriggerIs
<1>3. Modules' = Modules /\ Counters' = Counters /\ \A c : SamePlace(c)' <=> SamePlace(c)
  BY <1>2 DEF Modules, Counters, SamePlace
<1>4. \A m \in Modules : m \in DOMAIN mods /\ mods[m].counter \in Counters
  BY DEF Inv, Made, Modules
<1>5. /\ prev = value /\ value \in [Counters -> Nat]
      /\ \A m \in Modules : CounterFollows(m) /\ Holds(m)
  BY <1>2 DEF Inv, Running, CreateTypeOK
<1>6. ASSUME NEW m \in Modules, IsAuto(mods[m].counter), ~SamePlace(mods[m].counter)
      PROVE  LET c == mods[m].counter
                 one == IF TagOf(t) \in mods[m].under THEN 1 ELSE 0
             IN  value'[c] = value[c] + one /\ count'[m] = count[m] + one
  BY <1>1, <1>2, <1>4, <1>6, TriggerCounts DEF Inv
<1>7. ASSUME NEW m \in Modules
      PROVE  CounterFollows(m)'
  <2> SUFFICES ASSUME IsAuto(mods[m].counter), ~SamePlace(mods[m].counter)
               PROVE  value'[mods[m].counter] = count'[m]
    BY <1>2, <1>3 DEF CounterFollows
  <2>1. value[mods[m].counter] = count[m]
    BY <1>5 DEF CounterFollows
  <2> QED
    BY <1>6, <2>1
<1>8. ASSUME NEW m \in Modules
      PROVE  Holds(m)'
  BY <1>2, <1>5 DEF Holds
<1>9. ASSUME NEW m \in ReadOut'
      PROVE  Announced(m)'
  <2>1. m \in Modules /\ value'[mods[m].counter] # prev[mods[m].counter]
    BY <1>2, <1>3 DEF ReadOut
  <2> SUFFICES ASSUME NeedsPex(mods[m].type), IsAuto(mods[m].counter),
                      ~SamePlace(mods[m].counter)
               PROVE  prepared'
    BY <1>2, <1>3 DEF Announced
  <2>2. TagOf(t) \in mods[m].under
    <3>1. value[mods[m].counter] \in Nat
      BY <1>4, <1>5, <2>1
    <3> QED
      BY <1>5, <1>6, <2>1, <3>1
  <2>3. TagOf(t) \in DOMAIN tags /\ tags[TagOf(t)].pex
    BY <1>4, <2>1, <2>2, UnderIsThere DEF Inv, Listed
  <2> QED
    BY <1>1, <2>3 DEF Triggered
<1> QED
  BY <1>2, <1>3, <1>7, <1>8, <1>9 DEF Running

LEMMA RunningStep ==
    ASSUME Inv, [CreateNext]_createVars
    PROVE  Running'
<1> SUFFICES ASSUME step' \in {"run", "read"} PROVE Running'
  BY DEF Running
<1>1. CASE CrateInit
  BY <1>1, InitRuns DEF Inv
<1>2. CASE Trigger
  BY <1>2, TriggerRuns
<1>3. CASE Readout
  <2>1. /\ step = "read" /\ step' = "run" /\ prev' = value
        /\ UNCHANGED <<tags, mods, madeFor, shadow, override, value, count>>
    BY <1>3 DEF Readout, settings
  <2>2. Modules' = Modules /\ \A c : SamePlace(c)' <=> SamePlace(c)
    BY <2>1 DEF Modules, SamePlace
  <2>3. \A m \in Modules : CounterFollows(m) /\ Holds(m)
    BY <2>1 DEF Inv, Running
  <2>4. \A m \in Modules : CounterFollows(m)' /\ Holds(m)'
    BY <2>1, <2>2, <2>3 DEF CounterFollows, Holds
  <2> QED
    BY <2>1, <2>2, <2>4 DEF Running
<1>4. CASE UNCHANGED createVars
  BY <1>4 DEF Inv, Running, createVars, settings, running, Modules, ReadOut, SamePlace,
              CounterFollows, Holds, Announced
<1> QED
  BY <1>1, <1>2, <1>3, <1>4, RunsThen DEF Inv

-----------------------------------------------------------------------------
LEMMA InitInv ==
    ASSUME CreateInit
    PROVE  Inv
<1>1. /\ active = {"Default"} /\ counter = Automatic("Default")
      /\ step = "create" /\ nextId = 0 /\ mods = << >>
      /\ tags = [n \in {"Default"} |-> [NewTag EXCEPT !.counters = {counter}]]
      /\ madeFor = [c \in {counter} |-> {active}]
      /\ shadow = FALSE /\ override = 0 /\ prepared = FALSE
  BY DEF CreateInit
<1>2. active \in AnyNames /\ counter \in AnyCounter
  BY <1>1 DEF AnyNames, AnyCounter
<1>3. [NewTag EXCEPT !.counters = {counter}] \in Tag
      /\ [NewTag EXCEPT !.counters = {counter}].counters = {counter}
  BY <1>2, TagFields DEF Tag
<1>4. mods \in Seq(Entry) /\ DOMAIN mods = {}
  BY <1>1
<1>5. CreateTypeOK
  BY <1>1, <1>2, <1>3, <1>4 DEF CreateTypeOK, Counters
<1>6. IsFiniteSet({active})
  BY FS_Singleton
<1>7. Made
  BY <1>1, <1>4, <1>6 DEF Made, Counters
<1>8. Linked
  BY <1>1, <1>3 DEF Linked, Counters
<1>9. Listed
  BY <1>4 DEF Listed
<1>10. Running
  BY <1>1 DEF Running
<1> QED
  BY <1>5, <1>7, <1>8, <1>9, <1>10 DEF Inv

(* The tags, their counters and the modules fit at every step of creating  *)
(* and running a crate.                                                    *)
THEOREM CreateInv == CreateSpec => []Inv
<1>1. CreateInit => Inv
  BY InitInv
<1>2. Inv /\ [CreateNext]_createVars => Inv'
  <2> SUFFICES ASSUME Inv, [CreateNext]_createVars PROVE Inv'
    OBVIOUS
  <2> QED
    BY TypeStep, MadeStep, LinkedStep, ListedStep, RunningStep DEF Inv
<1> QED
  BY <1>1, <1>2, PTL DEF CreateSpec

(* When a trigger is read, its tag has done for each of its modules what   *)
(* the module's readout relies on: the counter has followed the module's   *)
(* triggers, the PEX board is prepared, and no more events are taken than  *)
(* the module holds (crate_create, module_insert,                          *)
(* crate_tag_counter_increase, crate_init).                                *)
THEOREM TagsServe == CreateSpec => []TagsServeModules
<1>1. Inv => TagsServeModules
  BY DEF Inv, Running, TagsServeModules
<1> QED
  BY <1>1, CreateInv, PTL
-----------------------------------------------------------------------------
(* The words that data begin with.                                         *)
W7nn == Sign(27..31, 24..26 \cup {14, 15}, {25})
F7nn == Whole(0..10)
W830 == Sign(27..31, {26}, {26})
F830 == Whole({4, 5, 11})
W1n90 == Sign(0..4, 27..31, {30})
F1n90 == V1n90Filler
WMesytec == Sign(16..23, 25..31, {30})
FMesytec == MesytecFiller
W767a == Whole({1, 3, 4, 5, 6, 9, 10, 12, 13, 14})
WVftx2 == Sign(0..7, 24..31, {24, 25, 27, 29, 31})
WVuprom == Sign(16..23, 24..31, 25..31)
WDummy == Sign({}, 16..31, {18, 20, 21, 25, 28})
W3316 == Sign({}, 16..31, {17, 18, 20, 24, 25, 28, 29})
Words == {W7nn, F7nn, W830, F830, W1n90, F1n90, WMesytec, FMesytec, W767a, WVftx2,
          WVuprom, WDummy, W3316}

(* Bit b is known of both words and differs.                               *)
Differs(p, q, b) == b \in p.fixed /\ b \in q.fixed /\ ~(b \in p.ones <=> b \in q.ones)
Apart(p, q) == \E b \in 24..31 : Differs(p, q, b)

(* What a word has in its upper byte: the bits that are one, and those that *)
(* are not known.                                                          *)
Top(p, ones, open) ==
    /\ \A b \in 24..31 : b \in p.fixed <=> b \notin open
    /\ \A b \in 24..31 : b \in p.ones <=> b \in ones

LEMMA Tops ==
    /\ Top(W7nn, {25}, 27..31) /\ Top(F7nn, 24..26, {})
    /\ Top(W830, {26}, {24, 25, 27, 28, 29, 30, 31}) /\ Top(F830, {27}, {})
    /\ Top(W1n90, {30}, 24..26) /\ Top(F1n90, 24..28, {})
    /\ Top(WMesytec, {30}, {24}) /\ Top(FMesytec, {25, 28, 29}, {})
    /\ Top(W767a, {25, 26, 28, 29, 30}, {}) /\ Top(WVftx2, {24, 25, 27, 29, 31}, {})
    /\ Top(WVuprom, 25..31, {}) /\ Top(WDummy, {25, 28}, {})
    /\ Top(W3316, {24, 25, 28, 29}, {})
<1> USE DEF Top, Sign, Whole, Twice
<1>1. Top(W7nn, {25}, 27..31)
  BY DEF W7nn
<1>2. Top(F7nn, 24..26, {})
  BY DEF F7nn
<1>3. Top(W830, {26}, {24, 25, 27, 28, 29, 30, 31})
  BY DEF W830
<1>4. Top(F830, {27}, {})
  BY DEF F830
<1>5. Top(W1n90, {30}, 24..26)
  BY DEF W1n90
<1>6. Top(F1n90, 24..28, {})
  BY DEF F1n90, V1n90Filler
<1>7. Top(WMesytec, {30}, {24})
  BY DEF WMesytec
<1>8. Top(FMesytec, {25, 28, 29}, {})
  BY DEF FMesytec, MesytecFiller
<1>9. Top(W767a, {25, 26, 28, 29, 30}, {})
  BY DEF W767a
<1>10. Top(WVftx2, {24, 25, 27, 29, 31}, {})
  BY DEF WVftx2
<1>11. Top(WVuprom, 25..31, {})
  BY DEF WVuprom
<1>12. Top(WDummy, {25, 28}, {})
  BY DEF WDummy
<1>13. Top(W3316, {24, 25, 28, 29}, {})
  BY DEF W3316
<1> QED
  BY <1>1, <1>2, <1>3, <1>4, <1>5, <1>6, <1>7, <1>8, <1>9, <1>10, <1>11, <1>12, <1>13

(* Words that the upper byte does not tell apart.                          *)
Near(p, q) ==
    \/ p = W7nn /\ q \in {W1n90, FMesytec, WDummy}
    \/ p = F7nn /\ q = W830
    \/ p = W830 /\ q \in {W1n90, F1n90, W767a, WVuprom}
    \/ p = W1n90 /\ q = WMesytec

LEMMA FarOrNear ==
    ASSUME NEW p \in Words, NEW q \in Words, p # q
    PROVE  Apart(p, q) \/ Near(p, q) \/ Near(q, p)
<1>1. \A r \in {F7nn, W830, F830, F1n90, WMesytec, W767a, WVftx2, WVuprom, W3316} :
            Apart(W7nn, r) /\ Apart(r, W7nn)
  BY Tops DEF Top, Apart, Differs
<1>2. \A r \in {F830, W1n90, F1n90, WMesytec, FMesytec, W767a, WVftx2, WVuprom, WDummy, W3316} :
            Apart(F7nn, r) /\ Apart(r, F7nn)
  BY Tops DEF Top, Apart, Differs
<1>3. \A r \in {F830, WMesytec, FMesytec, WVftx2, WDummy, W3316} : Apart(W830, r) /\ Apart(r, W830)
  BY Tops DEF Top, Apart, Differs
<1>4. \A r \in {W1n90, F1n90, WMesytec, FMesytec, W767a, WVftx2, WVuprom, WDummy, W3316} :
            Apart(F830, r) /\ Apart(r, F830)
  BY Tops DEF Top, Apart, Differs
<1>5. \A r \in {F1n90, FMesytec, W767a, WVftx2, WVuprom, WDummy, W3316} :
            Apart(W1n90, r) /\ Apart(r, W1n90)
  BY Tops DEF Top, Apart, Differs
<1>6. \A r \in {WMesytec, FMesytec, W767a, WVftx2, WVuprom, WDummy, W3316} :
            Apart(F1n90, r) /\ Apart(r, F1n90)
  BY Tops DEF Top, Apart, Differs
<1>7. \A r \in {FMesytec, W767a, WVftx2, WVuprom, WDummy, W3316} :
            Apart(WMesytec, r) /\ Apart(r, WMesytec)
  BY Tops DEF Top, Apart, Differs
<1>8. \A r \in {W767a, WVftx2, WVuprom, WDummy, W3316} : Apart(FMesytec, r) /\ Apart(r, FMesytec)
  BY Tops DEF Top, Apart, Differs
<1>9. \A r \in {WVftx2, WVuprom, WDummy, W3316} : Apart(W767a, r) /\ Apart(r, W767a)
  BY Tops DEF Top, Apart, Differs
<1>10. \A r \in {WVuprom, WDummy, W3316} : Apart(WVftx2, r) /\ Apart(r, WVftx2)
  BY Tops DEF Top, Apart, Differs
<1>11. \A r \in {WDummy, W3316} : Apart(WVuprom, r) /\ Apart(r, WVuprom)
  BY Tops DEF Top, Apart, Differs
<1>12. \A r \in {W3316} : Apart(WDummy, r) /\ Apart(r, WDummy)
  BY Tops DEF Top, Apart, Differs
<1> QED
  BY <1>1, <1>2, <1>3, <1>4, <1>5, <1>6, <1>7, <1>8, <1>9, <1>10, <1>11, <1>12 DEF Words, Near

(* Bits of a word that are known to be the id's are not fixed.             *)
LEMMA IdsAreFree ==
    \A p \in Words : p.id \cap p.fixed = {}
BY DEF Words, W7nn, F7nn, W830, F830, W1n90, F1n90, WMesytec, FMesytec, W767a, WVftx2,
       WVuprom, WDummy, W3316, V1n90Filler, MesytecFiller, Whole, Sign

LEMMA ApartNotAlike ==
    ASSUME NEW p \in Words, NEW q \in Words, NEW i, NEW j, Apart(p, q)
    PROVE  ~Alike(p, i, q, j)
<1>1. PICK b \in 24..31 : Differs(p, q, b)
  BY DEF Apart
<1>2. b \notin p.id /\ b \notin q.id
  BY <1>1, IdsAreFree DEF Differs
<1>3. /\ b \in Ones(p, i) <=> b \in p.ones
      /\ b \in Ones(q, j) <=> b \in q.ones
  BY <1>1, <1>2 DEF Differs, Ones, IdBits
<1> QED
  BY <1>1, <1>3 DEF Differs, Alike

(* An id is told by its bits.                                              *)
Weights == {1, 2, 4, 8, 16, 32, 64, 128}

LEMMA Halved ==
    ASSUME NEW i \in Nat, NEW k \in Weights
    PROVE  i \div (2 * k) = (i \div k) \div 2 /\ i \div k \in Nat
BY DEF Weights

LEMMA SameHalves ==
    ASSUME NEW i \in Nat, NEW j \in Nat, i \div 2 = j \div 2, i % 2 = j % 2
    PROVE  i = j
OBVIOUS

Bit(i, k) == (i \div k) % 2
LEMMA BitsTell ==
    ASSUME NEW i \in 0..255, NEW j \in 0..255,
           \A k \in Weights : Bit(i, k) = Bit(j, k)
    PROVE  i = j
<1>1. i \in Nat /\ j \in Nat /\ i \div 256 = 0 /\ j \div 256 = 0
  OBVIOUS
<1>2. ASSUME NEW k \in Weights, i \div (2 * k) = j \div (2 * k)
      PROVE  i \div k = j \div k
  <2>1. /\ i \div k \in Nat /\ j \div k \in Nat
        /\ (i \div k) \div 2 = (j \div k) \div 2
    BY <1>1, <1>2, Halved
  <2>2. (i \div k) % 2 = (j \div k) % 2
    BY DEF Bit
  <2> QED
    BY <2>1, <2>2, SameHalves
<1>3. i \div 128 = j \div 128
  BY <1>1, <1>2 DEF Weights
<1>4. i \div 64 = j \div 64
  BY <1>2, <1>3 DEF Weights
<1>5. i \div 32 = j \div 32
  BY <1>2, <1>4 DEF Weights
<1>6. i \div 16 = j \div 16
  BY <1>2, <1>5 DEF Weights
<1>7. i \div 8 = j \div 8
  BY <1>2, <1>6 DEF Weights
<1>8. i \div 4 = j \div 4
  BY <1>2, <1>7 DEF Weights
<1>9. i \div 2 = j \div 2
  BY <1>2, <1>8 DEF Weights
<1>10. i \div 1 = j \div 1
  BY <1>2, <1>9 DEF Weights
<1> QED
  BY <1>10

LEMMA LowBitIs ==
    ASSUME NEW lo \in Nat, NEW hi \in Nat, lo <= hi
    PROVE  LowBit(lo..hi) = lo
BY DEF LowBit

(* Two ids that fit into the bits a word has for them.                     *)
LEMMA IdsDiffer ==
    ASSUME NEW p, NEW lo \in Nat, NEW hi \in Nat, p.id = lo..hi, p.id \cap p.fixed = {},
           hi - lo \in {4, 7}, NEW i \in Nat, NEW j \in Nat, i # j,
           ~TooWide(p, i), ~TooWide(p, j)
    PROVE  ~Alike(p, i, p, j)
<1>0. lo <= hi
  OBVIOUS
<1>a. LowBit(lo..hi) = lo /\ lo \in lo..hi
  BY <1>0, LowBitIs
<1>1. lo <= hi /\ LowBit(p.id) = lo /\ p.id # {}
  BY <1>0, <1>a, Zenon
<1>2. Cardinality(p.id) = hi - lo + 1
  BY <1>1, FS_Interval
<1>3. i < Powers[hi - lo + 2] /\ j < Powers[hi - lo + 2]
  <2>1. Powers[hi - lo + 2] \in Nat
    BY DEF Powers
  <2> QED
    BY <1>1, <1>2, <2>1 DEF TooWide
<1>4. PICK n \in 0..(hi - lo) : Bit(i, Powers[n + 1]) # Bit(j, Powers[n + 1])
  <2>1. CASE hi - lo = 7
    <3>1. i \in 0..255 /\ j \in 0..255
      BY <1>3, <2>1 DEF Powers
    <3>2. PICK k \in Weights : Bit(i, k) # Bit(j, k)
      BY <3>1, BitsTell
    <3>3. \E n \in 0..7 : k = Powers[n + 1]
      BY DEF Powers, Weights
    <3> QED
      BY <2>1, <3>2, <3>3
  <2>2. CASE hi - lo = 4
    <3>1. i \in 0..31 /\ j \in 0..31
      BY <1>3, <2>2 DEF Powers
    <3>a. i \in 0..255 /\ j \in 0..255
      BY <3>1
    <3>2. PICK k \in Weights : Bit(i, k) # Bit(j, k)
      BY <3>a, BitsTell
    <3>3. k \in {1, 2, 4, 8, 16}
      BY <3>1, <3>2 DEF Bit, Weights
    <3>4. \E n \in 0..4 : k = Powers[n + 1]
      BY <3>3 DEF Powers
    <3> QED
      BY <2>2, <3>2, <3>4
  <2> QED
    BY <2>1, <2>2
<1> DEFINE b == lo + n
<1>5. b \in p.id /\ b - LowBit(p.id) + 1 = n + 1 /\ b \notin p.fixed
  BY <1>1
<1>6. /\ b \in IdBits(p, i) <=> Bit(i, Powers[n + 1]) = 1
      /\ b \in IdBits(p, j) <=> Bit(j, Powers[n + 1]) = 1
  BY <1>5 DEF IdBits, Bit
<1>7. Bit(i, Powers[n + 1]) \in {0, 1} /\ Bit(j, Powers[n + 1]) \in {0, 1}
  <2>1. Powers[n + 1] \in Weights
    <3>1. n + 1 \in 1..8
      BY <1>4
    <3>2. \A m \in 1..8 : Powers[m] \in Weights
      BY DEF Powers, Weights
    <3> QED
      BY <3>1, <3>2
  <2>2. \A k \in Weights : \A x \in Nat : (x \div k) % 2 \in {0, 1}
    BY DEF Weights
  <2> QED
    BY <2>1, <2>2 DEF Bit
<1>8. ~(b \in IdBits(p, i) <=> b \in IdBits(p, j))
  BY <1>4, <1>6, <1>7
<1>9. ~(b \in Ones(p, i) <=> b \in Ones(p, j))
  BY <1>5, <1>8 DEF Ones
<1> QED
  BY <1>5, <1>9 DEF Alike

------------------------------------------------------------------------------
(* Which modules begin with which words.                                   *)
LEMMA WordsOf ==
    ASSUME NEW type, NEW p \in First(type)
    PROVE  /\ p \in Words
           /\ p \in {W7nn, F7nn} => type = "v7nn"
           /\ p \in {W830, F830} => type = "v830"
           /\ p \in {W1n90, F1n90} => type = "v1n90"
           /\ p \in {WMesytec, FMesytec} => type \in MesytecTypes
           /\ p = W767a => type = "v767a"
           /\ p = WVuprom => type = "vuprom"
           /\ p = WDummy => type = "dummy"
<1>1. \/ type = "v7nn" /\ p \in {W7nn, F7nn}
      \/ type = "v830" /\ p \in {W830, F830}
      \/ type = "v1n90" /\ p \in {W1n90, F1n90}
      \/ type \in MesytecTypes /\ p \in {WMesytec, FMesytec}
      \/ type = "v767a" /\ p = W767a
      \/ type = "vftx2" /\ p = WVftx2
      \/ type = "vuprom" /\ p = WVuprom
      \/ type = "dummy" /\ p = WDummy
      \/ type = "sis_3316" /\ p = W3316
  BY DEF First, Signature, MesytecTypes, W7nn, F7nn, W830, F830, W1n90, F1n90, WMesytec,
         FMesytec, W767a, WVftx2, WVuprom, WDummy, W3316
<1>2. p \in Words
  BY <1>1 DEF Words
<1>3. p \in {W7nn, F7nn} => type = "v7nn"
  BY <1>1, Tops DEF Top
<1>4. p \in {W830, F830} => type = "v830"
  BY <1>1, Tops DEF Top
<1>5. p \in {W1n90, F1n90} => type = "v1n90"
  BY <1>1, Tops DEF Top
<1>6. p \in {WMesytec, FMesytec} => type \in MesytecTypes
  BY <1>1, Tops DEF Top
<1>7. (p = W767a => type = "v767a") /\ (p = WVuprom => type = "vuprom")
      /\ (p = WDummy => type = "dummy")
  BY <1>1, Tops DEF Top
<1> QED
  BY <1>2, <1>3, <1>4, <1>5, <1>6, <1>7

LEMMA MatchSymmetric ==
    ASSUME NEW s, NEW t, SignatureMatch(s, t)
    PROVE  SignatureMatch(t, s)
BY DEF SignatureMatch

Matches(p, q) ==
    /\ p.id # q.id
    /\ \A b \in p.fixed \cap q.fixed : b \in p.ones <=> b \in q.ones
LEMMA MatchIs ==
    ASSUME NEW s, NEW t, NEW p \in Signature(s), NEW q \in Signature(t), Matches(p, q)
    PROVE  SignatureMatch(s, t)
BY DEF SignatureMatch, Matches

(* The signatures that are not first words.                                *)
S1n90 == Sign(0..4, 27..31, {26})
SVuprom == Sign(16..23, 24..31 \cup 9..15, 25..31)

LEMMA SignaturesHave ==
    /\ W7nn \in Signature("v7nn") /\ F7nn \in Signature("v7nn")
    /\ W830 \in Signature("v830")
    /\ S1n90 \in Signature("v1n90") /\ F1n90 \in Signature("v1n90")
    /\ \A type \in MesytecTypes : FMesytec \in Signature(type)
    /\ W767a \in Signature("v767a") /\ SVuprom \in Signature("vuprom")
BY DEF Signature, Mesytec, MesytecTypes, W7nn, F7nn, W830, S1n90, F1n90, FMesytec, W767a,
       SVuprom

LEMMA SignaturesMatch ==
    /\ Matches(W7nn, S1n90) /\ Matches(W7nn, FMesytec) /\ Matches(F7nn, W830)
    /\ Matches(W830, S1n90) /\ Matches(W830, F1n90) /\ Matches(W830, W767a)
    /\ Matches(W830, SVuprom)
<1> USE DEF Matches, Sign, Whole, Twice
<1>1. Matches(W7nn, S1n90)
  BY DEF W7nn, S1n90
<1>2. Matches(W7nn, FMesytec)
  BY DEF W7nn, FMesytec, MesytecFiller
<1>3. Matches(F7nn, W830)
  BY DEF F7nn, W830
<1>4. Matches(W830, S1n90)
  BY DEF W830, S1n90
<1>5. Matches(W830, F1n90)
  BY DEF W830, F1n90, V1n90Filler
<1>6. Matches(W830, W767a)
  BY DEF W830, W767a
<1>7. Matches(W830, SVuprom)
  BY DEF W830, SVuprom
<1> QED
  BY <1>1, <1>2, <1>3, <1>4, <1>5, <1>6, <1>7

(* Words that their upper byte does not tell apart are of types with a     *)
(* match of their signatures, or of the pairs that are not what they say.  *)
LEMMA NearMatch ==
    ASSUME NEW s, NEW t, NEW p \in First(s), NEW q \in First(t),
           Near(p, q) \/ Near(q, p)
    PROVE  SignatureMatch(s, t) \/ {s, t} \in Misdeclared
<1>1. ASSUME NEW u, NEW v, NEW x \in First(u), NEW y \in First(v), Near(x, y)
      PROVE  SignatureMatch(u, v) \/ {u, v} \in Misdeclared
  <2>1. CASE x = W7nn /\ y = W1n90
    BY <2>1, WordsOf, SignaturesHave, SignaturesMatch, MatchIs
  <2>2. CASE x = W7nn /\ y = FMesytec
    BY <2>2, WordsOf, SignaturesHave, SignaturesMatch, MatchIs
  <2>3. CASE x = W7nn /\ y = WDummy
    <3>1. u = "v7nn" /\ v = "dummy"
      BY <2>3, WordsOf
    <3> QED
      BY <3>1 DEF Misdeclared
  <2>4. CASE x = F7nn /\ y = W830
    BY <2>4, WordsOf, SignaturesHave, SignaturesMatch, MatchIs
  <2>5. CASE x = W830 /\ y = W1n90
    BY <2>5, WordsOf, SignaturesHave, SignaturesMatch, MatchIs
  <2>6. CASE x = W830 /\ y = F1n90
    BY <2>6, WordsOf, SignaturesHave, SignaturesMatch, MatchIs
  <2>7. CASE x = W830 /\ y = W767a
    BY <2>7, WordsOf, SignaturesHave, SignaturesMatch, MatchIs
  <2>8. CASE x = W830 /\ y = WVuprom
    BY <2>8, WordsOf, SignaturesHave, SignaturesMatch, MatchIs
  <2>9. CASE x = W1n90 /\ y = WMesytec
    <3>1. u = "v1n90" /\ v \in MesytecTypes
      BY <2>9, WordsOf
    <3> QED
      BY <3>1 DEF Misdeclared
  <2> QED
    BY <1>1, <2>1, <2>2, <2>3, <2>4, <2>5, <2>6, <2>7, <2>8, <2>9 DEF Near
<1>2. CASE Near(p, q)
  BY <1>1, <1>2
<1>3. CASE Near(q, p)
  <2>1. SignatureMatch(t, s) \/ {t, s} \in Misdeclared
    BY <1>1, <1>3
  <2>2. {t, s} = {s, t}
    OBVIOUS
  <2> QED
    BY <2>1, <2>2, MatchSymmetric
<1> QED
  BY <1>2, <1>3

(* The ids that a word has room for.                                       *)
LEMMA IdsAre ==
    \A p \in Words : p.id = {} \/ \E lo, hi \in Nat : p.id = lo..hi /\ hi - lo \in {4, 7}
<1>1. \A p \in Words : \/ p.id = {} \/ p.id = 27..31 \/ p.id = 0..4 \/ p.id = 16..23
                        \/ p.id = 0..7
  BY DEF Words, W7nn, F7nn, W830, F830, W1n90, F1n90, WMesytec, FMesytec, W767a, WVftx2,
         WVuprom, WDummy, W3316, V1n90Filler, MesytecFiller, Whole, Sign
<1> DEFINE Fits(S) == \E lo, hi \in Nat : S = lo..hi /\ hi - lo \in {4, 7}
<1>2. ASSUME NEW lo \in Nat, NEW hi \in Nat, hi - lo \in {4, 7}
      PROVE  Fits(lo..hi)
  BY <1>2
<1>3. Fits(27..31) /\ Fits(0..4) /\ Fits(16..23) /\ Fits(0..7)
  <2>1. 31 - 27 \in {4, 7} /\ 4 - 0 \in {4, 7} /\ 23 - 16 \in {4, 7} /\ 7 - 0 \in {4, 7}
    OBVIOUS
  <2> HIDE DEF Fits
  <2> QED
    BY <1>2, <2>1
<1> QED
  BY <1>1, <1>3

(* Two types whose signatures do not match begin with words that differ.   *)
LEMMA ToldApart ==
    ASSUME NEW s, NEW t, ~SignatureMatch(s, t), {s, t} \notin Misdeclared,
           NEW i \in Nat, NEW j \in Nat, i # j,
           NEW p \in First(s), NEW q \in First(t), ~SameWord(p, q),
           ~TooWide(p, i), ~TooWide(q, j)
    PROVE  ~Alike(p, i, q, j)
<1>1. p \in Words /\ q \in Words
  BY WordsOf
<1>2. CASE p = q
  <2>1. p.id # {} /\ p.id \cap p.fixed = {}
    BY <1>1, <1>2, IdsAreFree DEF SameWord
  <2>2. PICK lo \in Nat, hi \in Nat : p.id = lo..hi /\ hi - lo \in {4, 7}
    BY <1>1, <2>1, IdsAre
  <2> QED
    BY <1>2, <2>1, <2>2, IdsDiffer
<1>3. CASE p # q
  <2>1. ~Near(p, q) /\ ~Near(q, p)
    BY NearMatch
  <2>2. Apart(p, q)
    BY <1>1, <1>3, <2>1, FarOrNear
  <2> QED
    BY <1>1, <2>2, ApartNotAlike
<1> QED
  BY <1>2, <1>3

------------------------------------------------------------------------------
(* The tags list their modules in order.                                   *)
Ordered ==
    \A n \in DOMAIN tags : LET refs == tags[n].refs IN
       \A j \in DOMAIN refs : /\ refs[j] \in DOMAIN mods
                              /\ \A k \in DOMAIN refs : j < k => refs[j] < refs[k]

(* Every module has an id of its own.                                      *)
OwnIds ==
    \A m \in Modules : /\ mods[m].id < nextId
                       /\ \A l \in Modules : l < m => mods[l].id < mods[m].id

(* A barrier has been demanded of modules whose signatures match, as far   *)
(* as both have been asked.                                                *)
Demanded ==
    \A l, m \in Modules : Neighbours(l, m) =>
       ~( /\ Delivers(mods[l].type) /\ Delivers(mods[m].type)
          /\ SignatureMatch(mods[m].type, mods[l].type) )

TellInv == Inv /\ Ordered /\ OwnIds /\ Demanded

LEMMA IdIsNat ==
    ASSUME CreateTypeOK, NEW m \in DOMAIN mods
    PROVE  mods[m].id \in Nat
<1>1. mods \in Seq(Entry)
  BY DEF CreateTypeOK
<1>2. mods[m] \in Entry
  BY <1>1
<1> QED
  BY <1>2 DEF Entry

(* ids are handed out upwards.                                             *)
LEMMA IdsGrow ==
    ASSUME CreateTypeOK, [CreateNext]_createVars
    PROVE  nextId' \in Nat /\ nextId <= nextId'
<1>0. nextId \in Nat
  BY DEF CreateTypeOK
<1>1. nextId' = nextId => nextId' \in Nat /\ nextId <= nextId'
  BY <1>0
<1>2. CASE IdSkip
  <2>1. PICK n \in Skips : nextId' = nextId + n
    BY <1>2 DEF IdSkip
  <2>2. n \in Nat
    BY SettingsAre
  <2> QED
    BY <1>0, <2>1, <2>2
<1>3. CASE AddModule
  <2>1. nextId' = nextId \/ nextId' = nextId + 1
    BY <1>3 DEF AddModule
  <2> QED
    BY <1>0, <2>1
<1>4. CASE Tags \/ Barrier \/ GsiPex \/ Created
  BY <1>1, <1>4 DEF Tags, Barrier, GsiPex, Created
<1>5. CASE CrateInit \/ Trigger \/ Readout \/ UNCHANGED createVars
  BY <1>1, <1>5 DEF CrateInit, Trigger, Readout, createVars
<1> QED
  BY <1>2, <1>3, <1>4, <1>5 DEF CreateNext

(* The modules before and after one has joined.                            *)
LEMMA Joined ==
    ASSUME CreateTypeOK, NEW e, Joins(e)
    PROVE  /\ Len(mods) \in Nat /\ DOMAIN mods = 1..Len(mods)
           /\ DOMAIN mods' = 1..(Len(mods) + 1)
           /\ \A m \in DOMAIN mods : mods'[m] = mods[m]
           /\ mods'[Len(mods) + 1] = e
           /\ \A m \in Modules' : m \in Modules \/ (m = Len(mods) + 1 /\ e.type # "barrier")
<1>1. mods \in Seq(Entry) /\ e \in Entry /\ mods' = Append(mods, e)
  BY DEF CreateTypeOK, Joins
<1>2. /\ Len(mods) \in Nat /\ DOMAIN mods = 1..Len(mods)
      /\ DOMAIN mods' = 1..(Len(mods) + 1)
      /\ \A m \in DOMAIN mods : mods'[m] = mods[m]
      /\ mods'[Len(mods) + 1] = e
  BY <1>1
<1>3. \A m \in 1..(Len(mods) + 1) : m \in 1..Len(mods) \/ m = Len(mods) + 1
  BY <1>2
<1> QED
  BY <1>2, <1>3 DEF Modules

(* A step that lets no module join leaves the modules as they are.         *)
LEMMA NoneJoins ==
    ASSUME CreateTypeOK, [CreateNext]_createVars, \A e : ~Joins(e)
    PROVE  /\ mods' = mods
           /\ \A n \in DOMAIN tags' : tags'[n].refs = Had(n).refs
<1>1. CASE Keeps
  BY <1>1 DEF Keeps, Had
<1>2. ASSUME NEW names, NEW c, Names(names, c)
      PROVE  /\ mods' = mods
             /\ \A n \in DOMAIN tags' : tags'[n].refs = Had(n).refs
  BY <1>2 DEF Names
<1> QED
  BY <1>1, <1>2, TagSteps

LEMMA OrderedStep ==
    ASSUME CreateTypeOK, Ordered, [CreateNext]_createVars
    PROVE  Ordered'
<1>1. CASE \A e : ~Joins(e)
  <2> SUFFICES ASSUME NEW n \in DOMAIN tags', NEW j \in DOMAIN tags'[n].refs
               PROVE  /\ tags'[n].refs[j] \in DOMAIN mods'
                      /\ \A k \in DOMAIN tags'[n].refs :
                            j < k => tags'[n].refs[j] < tags'[n].refs[k]
    BY DEF Ordered
  <2>1. mods' = mods /\ tags'[n].refs = Had(n).refs
    BY <1>1, NoneJoins
  <2>2. n \in DOMAIN tags
    <3>1. ~(j \in DOMAIN << >>)
      OBVIOUS
    <3> QED
      BY <2>1, <3>1, TagFields DEF Had
  <2> QED
    BY <2>1, <2>2 DEF Had, Ordered
<1>2. ASSUME NEW e, Joins(e)
      PROVE  Ordered'
  <2> SUFFICES ASSUME NEW n \in DOMAIN tags', NEW j \in DOMAIN tags'[n].refs
               PROVE  /\ tags'[n].refs[j] \in DOMAIN mods'
                      /\ \A k \in DOMAIN tags'[n].refs :
                            j < k => tags'[n].refs[j] < tags'[n].refs[k]
    BY DEF Ordered
  <2> DEFINE refs == tags[n].refs
             N == Len(mods)
  <2>1. /\ N \in Nat /\ DOMAIN mods = 1..N /\ DOMAIN mods' = 1..(N + 1)
    BY <1>2, Joined
  <2>2. n \in DOMAIN tags /\ refs \in Seq(Nat)
    BY <1>2 DEF Joins, CreateTypeOK, Tag
  <2>3. tags'[n].refs = refs \/ tags'[n].refs = Append(refs, N + 1)
    BY <1>2, <2>2 DEF Joins
  <2>4. /\ \A i \in DOMAIN refs : refs[i] \in 1..N
        /\ \A i, k \in DOMAIN refs : i < k => refs[i] < refs[k]
    BY <2>1, <2>2 DEF Ordered
  <2> HIDE DEF refs, N
  <2>5. CASE tags'[n].refs = refs
    BY <2>1, <2>2, <2>4, <2>5
  <2>6. CASE tags'[n].refs = Append(refs, N + 1)
    <3>1. /\ Len(refs) \in Nat /\ DOMAIN refs = 1..Len(refs)
          /\ DOMAIN Append(refs, N + 1) = 1..(Len(refs) + 1)
          /\ \A i \in DOMAIN refs : Append(refs, N + 1)[i] = refs[i]
          /\ Append(refs, N + 1)[Len(refs) + 1] = N + 1
      BY <2>1, <2>2
    <3>2. \A i \in 1..(Len(refs) + 1) : i \in DOMAIN refs \/ i = Len(refs) + 1
      BY <3>1
    <3>3. \A i \in DOMAIN refs : refs[i] \in 1..(N + 1) /\ refs[i] < N + 1
      BY <2>1, <2>4
    <3> DEFINE next == Append(refs, N + 1)
    <3> HIDE DEF next
    <3>4. /\ j \in 1..(Len(refs) + 1) /\ DOMAIN next = 1..(Len(refs) + 1)
          /\ \A i \in DOMAIN refs : next[i] = refs[i]
          /\ next[Len(refs) + 1] = N + 1
      BY <2>6, <3>1 DEF next
    <3>5. next[j] \in 1..(N + 1)
      BY <2>1, <3>2, <3>3, <3>4
    <3>6. ASSUME NEW k \in 1..(Len(refs) + 1), j < k
          PROVE  next[j] < next[k]
      <4>1. j \in DOMAIN refs
        BY <3>1, <3>2, <3>4, <3>6
      <4> QED
        BY <2>4, <3>2, <3>3, <3>4, <3>6, <4>1
    <3> QED
      BY <2>1, <2>6, <3>4, <3>5, <3>6 DEF next
  <2> QED
    BY <2>3, <2>5, <2>6
<1> QED
  BY <1>1, <1>2

LEMMA OwnIdsStep ==
    ASSUME CreateTypeOK, OwnIds, [CreateNext]_createVars
    PROVE  OwnIds'
<1>0. /\ nextId \in Nat /\ nextId' \in Nat /\ nextId <= nextId'
      /\ \A m \in DOMAIN mods : mods[m].id \in Nat
  BY IdsGrow, IdIsNat DEF CreateTypeOK
<1>1. CASE mods' = mods
  <2>1. Modules' = Modules
    BY <1>1 DEF Modules
  <2>2. \A m \in Modules : mods[m].id \in Nat
    BY <1>0 DEF Modules
  <2> QED
    BY <1>0, <1>1, <2>1, <2>2 DEF OwnIds
<1>2. ASSUME NEW e, Joins(e)
      PROVE  OwnIds'
  <2> SUFFICES ASSUME NEW m \in Modules'
               PROVE  /\ mods'[m].id < nextId'
                      /\ \A l \in Modules' : l < m => mods'[l].id < mods'[m].id
    BY DEF OwnIds
  <2> DEFINE N == Len(mods)
  <2>1. /\ N \in Nat /\ DOMAIN mods = 1..N
        /\ \A i \in DOMAIN mods : mods'[i] = mods[i]
        /\ mods'[N + 1] = e
        /\ \A i \in Modules' : i \in Modules \/ (i = N + 1 /\ e.type # "barrier")
    BY <1>2, Joined
  <2>2. \A i \in Modules : i \in 1..N /\ mods'[i] = mods[i] /\ mods[i].id \in Nat
    BY <1>0, <2>1 DEF Modules
  <2> HIDE DEF N
  <2>3. CASE m \in Modules
    <3>1. mods'[m].id < nextId'
      BY <1>0, <2>2, <2>3 DEF OwnIds
    <3>2. ASSUME NEW l \in Modules', l < m
          PROVE  mods'[l].id < mods'[m].id
      <4>1. l \in Modules
        BY <2>1, <2>2, <2>3, <3>2
      <4> QED
        BY <2>2, <2>3, <3>2, <4>1 DEF OwnIds
    <3> QED
      BY <3>1, <3>2
  <2>4. CASE m = N + 1 /\ e.type # "barrier"
    <3>1. e.id = nextId /\ nextId' = nextId + 1
      BY <1>2, <2>4 DEF Joins, IsNew
    <3>2. mods'[m].id = nextId
      BY <2>1, <2>4, <3>1
    <3>3. ASSUME NEW l \in Modules', l < m
          PROVE  mods'[l].id < mods'[m].id
      <4>1. l \in Modules
        BY <2>1, <2>4, <3>3
      <4> QED
        BY <2>2, <3>2, <4>1 DEF OwnIds
    <3> QED
      BY <1>0, <3>1, <3>2, <3>3
  <2> QED
    BY <2>1, <2>3, <2>4
<1> QED
  BY <1>1, <1>2, NoneJoins

(* The module that joins has been asked for every one it is a neighbour of.*)
LEMMA NewIsTold ==
    ASSUME Inv, Ordered, NEW e, Joins(e), e.type # "barrier",
           NEW l \in Modules, NEW m, m = Len(mods) + 1, Neighbours(l, m)',
           Delivers(mods[l].type), Delivers(e.type), SignatureMatch(e.type, mods[l].type)
    PROVE  FALSE
<1> DEFINE N == Len(mods)
<1>1. /\ N \in Nat /\ DOMAIN mods = 1..N
      /\ \A i \in DOMAIN mods : mods'[i] = mods[i]
      /\ mods'[N + 1] = e
  BY Joined DEF Inv
<1>2. l \in 1..N /\ mods'[l] = mods[l] /\ mods[l].type # "barrier"
  BY <1>1 DEF Modules
<1>3. PICK n : n \in mods[l].under /\ n \in active
  <2>1. mods'[l].under \cap mods'[m].under # {}
    BY DEF Neighbours
  <2> QED
    BY <1>1, <1>2, <2>1 DEF Joins
<1>4. "barrier" \notin {mods'[k].type : k \in (l + 1)..(m - 1)}
  BY DEF Neighbours, Between
<1>5. n \in DOMAIN tags /\ tags[n].refs \in Seq(Nat)
  BY <1>1, <1>2, <1>3, UnderIsThere DEF Inv, CreateTypeOK, Tag
<1> DEFINE refs == tags[n].refs
<1>6. PICK k \in DOMAIN refs : refs[k] = l
  BY <1>1, <1>2, <1>3 DEF Inv, Listed
<1>7. /\ \A i \in DOMAIN refs : refs[i] \in 1..N
      /\ \A i \in DOMAIN refs : k < i => l < refs[i]
  BY <1>1, <1>5, <1>6 DEF Ordered
<1>8. DOMAIN refs = 1..Len(refs) /\ Len(refs) \in Nat
  BY <1>5
<1>9. ASSUME NEW i \in k..Len(refs)
      PROVE  mods[refs[i]].type # "barrier"
  <2>1. i \in DOMAIN refs /\ (i = k \/ k < i)
    BY <1>8
  <2>2. CASE i = k
    BY <1>2, <1>6, <2>2
  <2>3. CASE k < i
    <3>1. refs[i] \in 1..N /\ l < refs[i]
      BY <1>7, <2>1, <2>3
    <3>2. refs[i] \in (l + 1)..(m - 1)
      BY <1>1, <1>2, <3>1
    <3>3. mods'[refs[i]].type # "barrier"
      BY <1>4, <3>2
    <3> QED
      BY <1>1, <3>1, <3>3
  <2> QED
    BY <2>1, <2>2, <2>3
<1>10. mods[l].type \in SinceBarrier(n)
  <2>1. mods[refs[k]].type \in SinceBarrier(n)
    BY <1>6, <1>9 DEF SinceBarrier
  <2> QED
    BY <1>6, <2>1
<1>11. BarrierMissing(e.type)
  BY <1>3, <1>10 DEF BarrierMissing
<1> QED
  BY <1>11 DEF Joins, IsNew

LEMMA DemandedStep ==
    ASSUME Inv, Ordered, Demanded, [CreateNext]_createVars
    PROVE  Demanded'
<1>1. CASE mods' = mods
  BY <1>1 DEF Demanded, Modules, Neighbours, Between
<1>2. ASSUME NEW e, Joins(e)
      PROVE  Demanded'
  <2> SUFFICES ASSUME NEW l \in Modules', NEW m \in Modules', Neighbours(l, m)',
                      Delivers(mods'[l].type), Delivers(mods'[m].type),
                      SignatureMatch(mods'[m].type, mods'[l].type)
               PROVE  FALSE
    BY DEF Demanded
  <2> DEFINE N == Len(mods)
  <2>1. /\ N \in Nat /\ DOMAIN mods = 1..N
        /\ \A i \in DOMAIN mods : mods'[i] = mods[i]
        /\ mods'[N + 1] = e
        /\ \A i \in Modules' : i \in Modules \/ (i = N + 1 /\ e.type # "barrier")
    BY <1>2, Joined DEF Inv
  <2>2. \A i \in Modules : i \in 1..N
    BY <2>1 DEF Modules
  <2>3. l < m /\ mods'[l].under \cap mods'[m].under # {} /\ "barrier" \notin Between(l, m)'
    BY DEF Neighbours
  <2>4. l \in Modules
    <3>1. m \in 1..(N + 1)
      BY <2>1, <2>2
    <3> HIDE DEF N
    <3> QED
      BY <2>1, <2>3, <3>1
  <2>5. mods'[l] = mods[l] /\ l \in 1..N
    BY <2>1, <2>2, <2>4
  <2>6. CASE m \in Modules
    <3>1. m \in 1..N /\ mods'[m] = mods[m]
      BY <2>1, <2>2, <2>6
    <3>2. \A k \in (l + 1)..(m - 1) : k \in 1..N
      <4> HIDE DEF N
      <4> QED
        BY <2>1, <2>5, <3>1
    <3>3. \A k \in (l + 1)..(m - 1) : mods'[k] = mods[k]
      BY <2>1, <3>2
    <3>4. Between(l, m)' = Between(l, m)
      BY <3>3 DEF Between
    <3>5. Neighbours(l, m)
      BY <2>3, <2>5, <3>1, <3>4 DEF Neighbours
    <3> QED
      BY <2>4, <2>5, <2>6, <3>1, <3>5 DEF Demanded
  <2>7. CASE m = N + 1 /\ e.type # "barrier"
    <3>1. mods'[m] = e
      BY <2>1, <2>7
    <3> QED
      BY <1>2, <2>4, <2>5, <2>7, <3>1, NewIsTold
  <2> QED
    BY <2>1, <2>6, <2>7
<1> QED
  BY <1>1, <1>2, NoneJoins DEF Inv

LEMMA TellIsDiffer ==
    ASSUME TellInv, step = "read"
    PROVE  NeighboursDiffer
<1> SUFFICES ASSUME NEW l \in ReadOut, NEW m \in ReadOut, Neighbours(l, m),
                    ~Unasked(l, m), Confused(l, m)
             PROVE  FALSE
  BY DEF NeighboursDiffer
<1> DEFINE s == mods[l].type
           t == mods[m].type
<1>1. l \in Modules /\ m \in Modules /\ l < m
  BY DEF ReadOut, Neighbours
<1>2. mods[l].id \in Nat /\ mods[m].id \in Nat
  BY <1>1, IdIsNat DEF TellInv, Inv, Modules
<1>3. mods[l].id # mods[m].id
  BY <1>1, <1>2 DEF TellInv, OwnIds
<1>4. {s, t} \notin Misdeclared /\ Delivers(s) /\ Delivers(t)
  BY DEF Unasked
<1>5. ~SignatureMatch(s, t)
  <2>1. ~SignatureMatch(t, s)
    BY <1>1, <1>4 DEF TellInv, Demanded
  <2> QED
    BY <2>1, MatchSymmetric
<1>6. PICK p \in First(s), q \in First(t) :
         /\ Alike(p, mods[l].id, q, mods[m].id)
         /\ ~SameWord(p, q) /\ ~TooWide(p, mods[l].id) /\ ~TooWide(q, mods[m].id)
  BY DEF Confused
<1> HIDE DEF s, t
<1> QED
  BY <1>2, <1>3, <1>4, <1>5, <1>6, ToldApart

(* Every module has an id of its own, the tags list their modules in the   *)
(* order they were added in, and between two modules of a tag there is a   *)
(* barrier if their signatures match, whatever blocks the configuration    *)
(* has and in whatever order (module_insert, crate_create's test with      *)
(* signature_match).                                                       *)
THEOREM BarriersAreDemanded == CreateSpec => []TellInv
<1>1. CreateInit => TellInv
  <2> SUFFICES ASSUME CreateInit PROVE TellInv
    OBVIOUS
  <2>1. Inv
    BY InitInv
  <2>2. mods = << >> /\ tags = [n \in {"Default"} |-> [NewTag EXCEPT !.counters = {counter}]]
    BY DEF CreateInit
  <2>3. DOMAIN << >> = {}
    OBVIOUS
  <2>4. [NewTag EXCEPT !.counters = {counter}].refs = << >>
    BY DEF NewTag
  <2>5. \A n \in DOMAIN tags : tags[n].refs = << >>
    BY <2>2, <2>4
  <2> QED
    BY <2>1, <2>2, <2>3, <2>5 DEF TellInv, Ordered, OwnIds, Demanded, Modules
<1>2. TellInv /\ [CreateNext]_createVars => TellInv'
  <2> SUFFICES ASSUME TellInv, [CreateNext]_createVars PROVE TellInv'
    OBVIOUS
  <2>1. Inv /\ CreateTypeOK
    BY DEF TellInv, Inv
  <2>2. Inv'
    BY <2>1, TypeStep, MadeStep, LinkedStep, ListedStep, RunningStep DEF Inv
  <2> QED
    BY <2>1, <2>2, OrderedStep, OwnIdsStep, DemandedStep DEF TellInv
<1> QED
  BY <1>1, <1>2, PTL DEF CreateSpec

(* In a cycle for one counter two modules without a barrier between them   *)
(* do not begin with the same word, except for the pairs whose signatures  *)
(* are not what their data say (crate.c:642, signature_match, and the      *)
(* readout and parse_data of the modules).                                 *)
THEOREM NeighboursAreTold == CreateSpec => []NeighboursDiffer
<1>1. TellInv => NeighboursDiffer
  BY TellIsDiffer DEF NeighboursDiffer
<1> QED
  BY <1>1, BarriersAreDemanded, PTL
=============================================================================
