------------------------------ MODULE ConfigGet ------------------------------
(***************************************************************************)
(* Reading settings. The program asks the configuration tree for values by *)
(* name, type, unit and range (config_get_...), goes through its blocks and *)
(* at the end of the creation of a crate and of the setup of a module      *)
(* makes sure that no setting was left unread (config_touched_assert).     *)
(* Settings come from users, with any type and unit; a getter converts     *)
(* what it can and ends the program otherwise (log_die).                   *)
(*                                                                         *)
(* Integers have Word bits. Doubles are tenths, and the result of a        *)
(* conversion is an exact fraction: how a double rounds is not modelled.   *)
(***************************************************************************)
EXTENDS Integers, SequencesExt

CONSTANTS
    Uses,   \* list of [tree, asks]: a tree as loaded, a list of [in, kind,
            \* name, scal], "in" being the place of the block in the list, 0
            \* outermost; and what the program asks for,
            \* by kind of getter
    Word,   \* bits of an integer and of a bitmask, 32
    IntMax  \* the largest integer, 2^(Word - 1) - 1

VARIABLES
    use,      \* which of the uses
    nodes,    \* the items of the tree, with mask and is_touched
    block,    \* the block the program is at
    gotten,      \* the last value the program has got, and from which item
    given,    \* items the program has taken all values of
    passed,   \* what config_touched_assert has let pass: [block, recurse]
    alive

getVars == <<use, nodes, block, gotten, given, passed, alive>>

-----------------------------------------------------------------------------
(* Units. *)

(* CONFIG_UNIT_*: kind, and the factor (unit_get_factor) as a power.       *)
Unit ==
    [none |-> <<"none", 1000, 0>>,
     ps |-> <<"time", 1000, 0>>, ns |-> <<"time", 1000, 1>>, us |-> <<"time", 1000, 2>>,
     ms |-> <<"time", 1000, 3>>, s |-> <<"time", 1000, 4>>,
     mV |-> <<"voltage", 1000, 0>>, V |-> <<"voltage", 1000, 1>>,
     Hz |-> <<"frequency", 1000, 0>>, kHz |-> <<"frequency", 1000, 1>>,
     MHz |-> <<"frequency", 1000, 2>>,
     B |-> <<"size", 1024, 0>>, KiB |-> <<"size", 1024, 1>>, MiB |-> <<"size", 1024, 2>>,
     fC |-> <<"charge", 1000, 0>>]
Compatible(u1, u2) == Unit[u1][1] = Unit[u2][1]

Power(b, n) ==
    CASE n = 0 -> 1 [] n = 1 -> b [] n = 2 -> b * b [] n = 3 -> b * b * b
      [] n = 4 -> b * b * b * b

Tenths(s) == IF s.t = "double" THEN s.v ELSE 10 * s.v
(* A value times unit_get_mult, as <<numerator, denominator>>.             *)
InUnit(s, u) ==
    LET e == Unit[s.u][3] - Unit[u][3] b == Unit[u][2] IN
    IF e >= 0 THEN <<Tenths(s) * Power(b, e), 10>> ELSE <<Tenths(s), 10 * Power(b, -e)>>

IntMin == -IntMax - 1
WordCodes == 2 * (IntMax + 1)
(* A cast of a double that does not fit is undefined.                      *)
Cast(v) ==
    IF v \in IntMin..IntMax THEN {v} ELSE {IntMin, IF v > 0 THEN IntMax ELSE IntMin}
(* i32_round_double: halves are rounded away from zero.                    *)
RoundedDown(q) == IF q[1] >= 0 THEN q[1] \div q[2] ELSE -((-q[1]) \div q[2])
Rounded(q) ==
    IF q[1] >= 0 THEN (2 * q[1] + q[2]) \div (2 * q[2])
    ELSE -((q[2] - 2 * q[1]) \div (2 * q[2]))

(* MIN(MAX(value, a_min), a_max), unsigned for CONFIG_GET_UINT*.           *)
Clamp(v, lo, hi) == IF v < lo THEN lo ELSE IF v > hi THEN hi ELSE v
Within(v, req) ==
    IF req.signed THEN Clamp(v, req.lo, req.hi)
    ELSE Clamp(v % WordCodes, req.lo % WordCodes, req.hi % WordCodes)
(* An element of the array it is stored in, which has req.codes values.    *)
Element(v, req) ==
    LET r == v % req.codes IN
    IF req.signed /\ ~req.into_unsigned /\ 2 * r >= req.codes THEN r - req.codes ELSE r

-----------------------------------------------------------------------------
(* The tree. *)

(* parser_create_bitmask, when a list of values has been read. Shifts are  *)
(* by a number modulo the width of a word.                                 *)
HasBitmask(l) ==
    \A j \in DOMAIN l : l[j].t = "range" \/ (l[j].t = "int" /\ l[j].u = "none")
Bitmask(l) ==
    UNION {IF l[j].t = "range" THEN (l[j].v[1] % Word)..(l[j].v[2] % Word)
           ELSE {l[j].v} \cap 0..(Word - 1) : j \in DOMAIN l}
EmptyScalar == [t |-> "empty", v |-> 0, u |-> "none", i |-> 0]
Loaded(n) ==
    LET l == n.scal mask == HasBitmask(l) IN
    [in |-> n.in, kind |-> n.kind, name |-> n.name,
     scal |-> IF l = << >> /\ n.kind = "config" THEN <<EmptyScalar>> ELSE l,
     has_bitmask |-> mask, bitmask |-> IF mask THEN Bitmask(l) ELSE {},
     touched |-> FALSE]

NothingGot == [req |-> [get |-> "none"], node |-> 0, values |-> << >>]
Use(n) ==
    /\ use = n /\ nodes = [k \in DOMAIN Uses[n].tree |-> Loaded(Uses[n].tree[k])]
    /\ block = 0 /\ gotten = NothingGot /\ given = {} /\ passed = {} /\ alive = TRUE
GetInit == \E n \in DOMAIN Uses : Use(n)

Asks(get) == Uses[use].asks[get]
InBlockAt(b) == {k \in DOMAIN nodes : nodes[k].in = b}
ConfigsNamed(name) ==
    {k \in InBlockAt(block) : nodes[k].kind = "config" /\ nodes[k].name = name}
BlocksNamed(b, name) ==
    {k \in InBlockAt(b) : nodes[k].kind = "block" /\ name \in {"any", nodes[k].name}}

(* What the parser makes: lists, of numbers, words and ranges of bits.     *)
IsScalar(s) ==
    /\ s.u \in DOMAIN Unit /\ s.i \in Nat
    /\ s.t \in {"int", "double"} => s.v \in Int
    /\ s.t = "range" => s.v \in Nat \X Nat
IsItem(n) ==
    /\ n.in \in Nat
    /\ Len(n.scal) \in Nat /\ DOMAIN n.scal = 1..Len(n.scal)
    /\ \A j \in DOMAIN n.scal : IsScalar(n.scal[j])
(* What the calls of the getters have in common: a range is not empty and  *)
(* fits the integers the getter works with and the elements it stores in,  *)
(* or the non-negative part of it does; bits are those of a word.          *)
IsRange(req) ==
    LET all == IF req.signed THEN IntMin..IntMax ELSE 0..(WordCodes - 1) IN
    req.signed \in BOOLEAN /\ req.lo \in all /\ req.hi \in all
IsRequest(req) ==
    /\ req.get \in {"int", "ints", "double", "doubles"} =>
         /\ req.unit \in DOMAIN Unit
         /\ req.lo \in Int /\ req.hi \in Int /\ req.lo <= req.hi
    /\ req.get \in {"int", "ints"} => IsRange(req)
    /\ req.get = "ints" =>
         /\ req.into_unsigned \in BOOLEAN /\ req.codes \in Nat
         /\ IF req.signed /\ ~req.into_unsigned
            THEN -req.codes <= 2 * req.lo /\ 2 * req.hi < req.codes
            ELSE 0 <= req.hi /\ req.hi < req.codes
    /\ req.get = "flex" => req.list \in Seq({req.list[p] : p \in DOMAIN req.list})
    /\ req.get = "bitmask" => req.first \in Nat /\ req.last \in 0..(Word - 1)
    /\ req.get = "param" => req.index \in Nat
Getters == {"int", "double", "ints", "doubles", "keyword", "keywords", "flex",
            "string", "bitmask", "param", "block"}
GetAssumption ==
    /\ Word \in Nat \ {0} /\ IntMax \in Nat /\ 2 * (IntMax + 1) = 2^Word
    /\ \A n \in DOMAIN Uses : LET tree == Uses[n].tree asks == Uses[n].asks IN
         /\ Len(tree) \in Nat /\ DOMAIN tree = 1..Len(tree)
         /\ \A k \in DOMAIN tree : IsItem(tree[k]) /\ tree[k].in <= Len(tree)
         /\ \A get \in Getters : \A req \in asks[get] : req.get = get /\ IsRequest(req)
ASSUME GetAssumption

-----------------------------------------------------------------------------
(* Values. *)

LogDie ==
    /\ alive' = FALSE
    /\ UNCHANGED <<use, nodes, block, gotten, given, passed>>

(* The value of item k is one of "values"; "all" tells whether this is all *)
(* the item has. Without a list of keywords nothing is marked.             *)
Hand(req, k, values, all) ==
    /\ \E v \in values : gotten' = [req |-> req, node |-> k, values |-> v]
    /\ nodes' = [nodes EXCEPT ![k].touched = @ \/ req.get # "keyword" \/ req.list # << >>]
    /\ given' = IF all THEN given \cup {k} ELSE given
    /\ UNCHANGED <<use, block, passed, alive>>

Int32Of(s, u) ==
    IF u = "none" /\ s.u = "none" THEN Cast(RoundedDown(InUnit(s, u)))
    ELSE Cast(Rounded(InUnit(s, u)))

FirstScalar(k) == nodes[k].scal[1]
Typed(name, types) == {k \in ConfigsNamed(name) : FirstScalar(k).t \in types}
Alone(k) == Len(nodes[k].scal) = 1

GetInt ==                                  \* config_get_int32, config_get_uint32
    \E req \in Asks("int") :
      /\ alive
      /\ LET found == Typed(req.name, {"int"}) k == Min(found) IN
         IF found = {} \/ ~Compatible(FirstScalar(k).u, req.unit) THEN LogDie
         ELSE Hand(req, k, {<<Within(v, req)>> : v \in Int32Of(FirstScalar(k), req.unit)}, Alone(k))

(* The range of a double is that of two integers here.                     *)
InRange(q, req) ==
    IF q[1] < req.lo * q[2] THEN <<req.lo, 1>>
    ELSE IF q[1] > req.hi * q[2] THEN <<req.hi, 1>> ELSE q
GetDouble ==                               \* config_get_double
    \E req \in Asks("double") :
      /\ alive
      /\ LET found == Typed(req.name, {"int", "double"}) k == Min(found) IN
         IF found = {} \/ ~Compatible(FirstScalar(k).u, req.unit) THEN LogDie
         ELSE Hand(req, k, {<<InRange(InUnit(FirstScalar(k), req.unit), req)>>}, Alone(k))

(* What config_get_*_array make sure of before they store anything.        *)
ListFits(l, num, types) ==
    /\ Len(l) = num
    /\ \A j \in 2..Len(l) : l[j - 1].i < l[j].i
    /\ \A j \in DOMAIN l : l[j].t \in types
Numbers(l, req) ==
    /\ ListFits(l, req.num, {"int", "double"})
    /\ \A j \in DOMAIN l : Compatible(req.unit, l[j].u)

GetIntArray ==                             \* config_get_int_array, config_get_uint_array
    \E req \in Asks("ints") :
      /\ alive
      /\ LET found == ConfigsNamed(req.name) k == Min(found) l == nodes[k].scal IN
         IF found = {} \/ ~Numbers(l, req) THEN LogDie
         ELSE LET of(j) == {Element(Within(v, req), req) : v \in Int32Of(l[j], req.unit)} IN
              Hand(req, k, {f \in [DOMAIN l -> UNION {of(j) : j \in DOMAIN l}] :
                              \A j \in DOMAIN l : f[j] \in of(j)}, TRUE)

GetDoubleArray ==                          \* config_get_double_array
    \E req \in Asks("doubles") :
      /\ alive
      /\ LET found == ConfigsNamed(req.name) k == Min(found) l == nodes[k].scal IN
         IF found = {} \/ ~Numbers(l, req) THEN LogDie
         ELSE Hand(req, k, {[j \in DOMAIN l |-> InRange(InUnit(l[j], req.unit), req)]}, TRUE)

(* keyword_match; without a list every keyword will do.                    *)
Match(list, v) == list = << >> \/ \E j \in DOMAIN list : list[j] = v
GetKeyword ==                              \* config_get_keyword_, config_get_boolean
    \E req \in Asks("keyword") :
      /\ alive
      /\ LET found == Typed(req.name, {"key"}) k == Min(found) IN
         IF found = {} \/ ~Match(req.list, FirstScalar(k).v) THEN LogDie
         ELSE Hand(req, k, {<<FirstScalar(k).v>>}, Alone(k))

GetKeywordArray ==                         \* config_get_keyword_array_
    \E req \in Asks("keywords") :
      /\ alive
      /\ LET found == ConfigsNamed(req.name) k == Min(found) l == nodes[k].scal IN
         IF found = {} \/ ~ListFits(l, req.num, {"key"})
            \/ \E j \in DOMAIN l : ~Match(req.list, l[j].v) THEN LogDie
         ELSE Hand(req, k, {[j \in DOMAIN l |-> l[j].v]}, TRUE)

(* In the table for a flexible array KW_NONE ends the keywords of an index. *)
Nones(list, p) == Cardinality({q \in 1..p : list[q] = "none"})
PartEnd(list, j) == Min({p \in DOMAIN list : Nones(list, p) >= j} \cup {Len(list) + 1})
Part(list, j) ==
    SubSeq(list, IF j = 1 THEN 1 ELSE PartEnd(list, j - 1) + 1, PartEnd(list, j) - 1)
GetFlexKeywordArray ==                     \* config_get_flex_keyword_array_
    \E req \in Asks("flex") :
      /\ alive
      /\ LET found == ConfigsNamed(req.name) k == Min(found) l == nodes[k].scal IN
         IF found = {} \/ ~ListFits(l, req.num, {"key"})
            \/ \E j \in DOMAIN l : \/ Part(req.list, j) = << >>
                                   \/ ~Match(Part(req.list, j), l[j].v) THEN LogDie
         ELSE Hand(req, k, {[j \in DOMAIN l |-> l[j].v]}, TRUE)

GetString ==                               \* config_get_string
    \E req \in Asks("string") :
      /\ alive
      /\ LET found == Typed(req.name, {"string"}) k == Min(found) IN
         IF found = {} THEN LogDie ELSE Hand(req, k, {<<FirstScalar(k).v>>}, Alone(k))

GetBitmask ==                              \* config_get_bitmask
    \E req \in Asks("bitmask") :
      /\ alive
      /\ LET found == {k \in ConfigsNamed(req.name) : nodes[k].has_bitmask} k == Min(found) IN
         IF found = {} THEN LogDie
         ELSE Hand(req, k, {<<nodes[k].bitmask \cap (req.first..req.last)>>}, TRUE)

(* Integer parameters are looked up by index, the others are counted.      *)
ParamAt(l, req) ==
    IF req.type = "int" THEN {j \in DOMAIN l : l[j].i = req.index}
    ELSE DOMAIN l \cap {req.index + 1}
GetBlockParam ==                           \* config_get_block_param_*
    \E req \in Asks("param") :
      /\ alive /\ block # 0
      /\ LET l == nodes[block].scal at == ParamAt(l, req) j == Min(at) IN
         IF at = {} \/ l[j].t # req.type THEN LogDie
         ELSE /\ gotten' = [req |-> req, node |-> block, values |-> <<l[j].v>>]
              /\ UNCHANGED <<use, nodes, block, given, passed, alive>>

-----------------------------------------------------------------------------
(* Blocks. *)

Enter(k) ==
    /\ block' = k
    /\ nodes' = [nodes EXCEPT ![k].touched = TRUE]
    /\ UNCHANGED <<use, gotten, given, passed, alive>>
GetBlock ==                                \* config_get_block
    \E req \in Asks("block") :
      /\ alive /\ BlocksNamed(block, req.name) # {}
      /\ Enter(Min(BlocksNamed(block, req.name)))
GetBlockNext ==                            \* config_get_block_next
    \E req \in Asks("block") :
      LET after == {k \in BlocksNamed(nodes[block].in, req.name) : k > block} IN
      /\ alive /\ block # 0 /\ after # {}
      /\ Enter(Min(after))
Leave ==
    /\ alive /\ block # 0
    /\ block' = nodes[block].in
    /\ UNCHANGED <<use, nodes, gotten, given, passed, alive>>

(* touched_traverse: the items it comes to.                                *)
Below(in, S) ==
    LET to[n \in 0..Len(in)] ==               \* S and what is n steps below
          IF n = 0 THEN S
          ELSE LET above == to[n - 1] IN above \cup {k \in DOMAIN in : in[k] \in above}
    IN {k \in DOMAIN in : in[k] \in to[Len(in)]}
Under(b) == InBlockAt(b) \cup Below([k \in DOMAIN nodes |-> nodes[k].in], InBlockAt(b))
VisitedFlat(b, recurse) == InBlockAt(b)
Visited(b, recurse) == IF recurse THEN Under(b) ELSE InBlockAt(b)
Checked(b, recurse) == {k \in Visited(b, recurse) : recurse \/ nodes[k].kind = "config"}

TouchedAssert ==                           \* config_touched_assert
    \E recurse \in BOOLEAN :
      /\ alive
      /\ IF \A k \in Checked(block, recurse) : nodes[k].touched
         THEN /\ passed' = passed \cup {[block |-> block, recurse |-> recurse]}
              /\ UNCHANGED <<use, nodes, block, gotten, given, alive>>
         ELSE LogDie

GetNext ==
    \/ GetInt \/ GetDouble \/ GetIntArray \/ GetDoubleArray
    \/ GetKeyword \/ GetKeywordArray \/ GetFlexKeywordArray \/ GetString
    \/ GetBitmask \/ GetBlockParam \/ GetBlock \/ GetBlockNext \/ Leave
    \/ TouchedAssert
GetSpec == GetInit /\ [][GetNext]_getVars
-----------------------------------------------------------------------------
(* What the file says, and what the code does otherwise.                   *)

Distance(v, q) == IF v * q[2] >= q[1] THEN v * q[2] - q[1] ELSE q[1] - v * q[2]
(* No integer of the range is closer to q than v.                          *)
Nearest(v, q, req) ==
    /\ v \in req.lo..req.hi
    /\ \A w \in {v - 1, v + 1} \cap (req.lo..req.hi) : Distance(v, q) <= Distance(w, q)
Exact(v, q, req) ==
    LET below(p, r) == p[1] * r[2] < r[1] * p[2]
        lo == <<req.lo, 1>> hi == <<req.hi, 1>>
        goal == IF below(q, lo) THEN lo ELSE IF below(hi, q) THEN hi ELSE q
    IN v[1] * goal[2] = goal[1] * v[2]

(* Too large for an integer after the conversion: the cast is undefined,   *)
(* on most machines the smallest integer comes out.                        *)
Overflows(q) == Rounded(q) \notin IntMin..IntMax
(* A negative value for an unsigned setting becomes the maximum.           *)
Wraps(q, req) == ~req.signed /\ q[1] < 0
(* Doubles in a list of integers without unit lose their fraction.         *)
CutOff(s, req) == s.t = "double" /\ req.unit = "none"
(* A negative value of a signed setting that is kept in an unsigned array. *)
Unsigned(q, req) == req.into_unsigned /\ q[1] < 0
(* The j-th value of a list belongs to another index.                      *)
Holes(l) == \E j \in DOMAIN l : l[j].i # j - 1
(* Limits beyond the word are taken modulo its width.                      *)
WideRange(l) == \E j \in DOMAIN l : l[j].t = "range" /\ (l[j].v[1] >= Word \/ l[j].v[2] >= Word)

IsInt(v, s, req) ==
    LET q == InUnit(s, req.unit) IN
    Overflows(q) \/ Wraps(q, req) \/ CutOff(s, req) \/ Nearest(v, q, req)

(* The value for an index.                                                 *)
Of(l, j) == l[CHOOSE m \in DOMAIN l : l[m].i = j - 1]

(* The values v for a request, of the list l of a setting.                 *)
Meant(req, l, v) ==
    CASE req.get = "int" -> IsInt(v[1], l[1], req)
      [] req.get = "ints" ->
           \A j \in DOMAIN v : \/ Holes(l) \/ Unsigned(InUnit(Of(l, j), req.unit), req)
                               \/ IsInt(v[j], Of(l, j), req)
      [] req.get = "double" -> Exact(v[1], InUnit(l[1], req.unit), req)
      [] req.get = "doubles" ->
           \A j \in DOMAIN v : Holes(l) \/ Exact(v[j], InUnit(Of(l, j), req.unit), req)
      [] req.get = "string" -> v[1] = l[1].v
      [] req.get = "keyword" -> v[1] = l[1].v /\ Match(req.list, v[1])
      [] req.get = "keywords" ->
           \A j \in DOMAIN v : Holes(l) \/ (v[j] = Of(l, j).v /\ Match(req.list, v[j]))
      [] req.get = "flex" ->
           \A j \in DOMAIN v :
             \/ Holes(l)
             \/ v[j] = Of(l, j).v /\ \E p \in DOMAIN req.list :
                  /\ req.list[p] = v[j]
                  /\ Cardinality({q \in 1..p : req.list[q] = "none"}) = j - 1
      [] req.get = "bitmask" ->
           \/ WideRange(l)
           \/ v[1] = {b \in req.first..req.last : \E j \in DOMAIN l :
                        IF l[j].t = "range" THEN b \in l[j].v[1]..l[j].v[2]
                        ELSE l[j].t = "int" /\ b = l[j].v}
      [] req.get = "param" ->
           \E j \in DOMAIN l :
             /\ l[j].t = req.type /\ l[j].v = v[1]
             /\ l[j].i = req.index \/ (req.type # "int" /\ Holes(l))
      [] OTHER -> TRUE

(* A getter gives the program what the file says for the index it asked    *)
(* about, in its unit: the integer of the range that is nearest, the exact *)
(* value of a double if it is in the range, the keyword that is allowed    *)
(* for this index, the bits that are listed and asked for (the conversions *)
(* and limits of the getters), but for what is named above.                *)
GotIsMeant == Meant(gotten.req, nodes[gotten.node].scal, gotten.values)

(* Lists of which the program has read the first value only.               *)
OnlyFirst(k) == nodes[k].kind = "config" /\ nodes[k].touched /\ ~Alone(k)

(* Once a block has passed, the program has taken every setting of it,     *)
(* and with recursion found every block in it and taken all of theirs: a   *)
(* misspelt or superfluous setting does not stay unnoticed. Later values   *)
(* of a list read as a single one do (touched_traverse, is_touched).       *)
UnusedIsReported ==
    \A p \in passed :
      /\ \A k \in InBlockAt(p.block) :
           nodes[k].kind = "config" => k \in given \/ OnlyFirst(k)
      /\ p.recurse =>
           \A k \in Under(p.block) :
             IF nodes[k].kind = "config" THEN k \in given \/ OnlyFirst(k)
             ELSE nodes[k].touched
=============================================================================
