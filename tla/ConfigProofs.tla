---------------------------- MODULE ConfigProofs ----------------------------
(***************************************************************************)
(* The configuration tree. The first half: the getters give what the file  *)
(* says, and nothing stays unread, for every tree the parser makes and     *)
(* every request the program makes. The second half: a list of items that  *)
(* the user sends is merged as it was given, or leaves the tree as it was, *)
(* for every list without parameters of blocks, with however many items    *)
(* and scalars. The packer and the reader go through the same places of    *)
(* such a list, each with the same bytes of the datagram behind it: the    *)
(* packer adds the bytes that tell the way to the next place, the first    *)
(* pass of the reader finds out whether every place can be passed, and the *)
(* second pass, which writes, can only go where the first one went.        *)
(***************************************************************************)
EXTENDS ConfigGet, ConfigSnippet, FiniteSetTheorems, SequenceTheorems,
        WellFoundedInduction, TLAPS

-----------------------------------------------------------------------------
(* Arithmetic.                                                             *)

(* A set of natural numbers has a smallest one.                            *)
LEMMA MinIsLeast ==
    ASSUME NEW S, S \subseteq Nat, S # {}
    PROVE  Min(S) \in S /\ \A x \in S : Min(S) <= x
<1> DEFINE Upto(x) == {y \in S : y <= x}
           T == {Upto(x) : x \in S}
<1>1. ASSUME NEW x \in S PROVE Upto(x) \subseteq S /\ IsFiniteSet(Upto(x))
  BY FS_BoundedSetOfNaturals
<1>2. T \subseteq FiniteSubsetsOf(S) /\ T # {}
  <2>1. ASSUME NEW t \in T PROVE t \in SUBSET S /\ IsFiniteSet(t)
    BY <1>1
  <2>2. T # {}
    OBVIOUS
  <2> HIDE DEF T
  <2> QED
    BY <2>1, <2>2 DEF FiniteSubsetsOf
<1>3. PICK t \in T : \A u \in T : ~(<<u, t>> \in StrictSubsetOrdering(S))
  <2>1. IsWellFoundedOn(StrictSubsetOrdering(S), FiniteSubsetsOf(S))
    BY FS_StrictSubsetOrderingWellFounded
  <2> HIDE DEF T
  <2> QED
    BY <1>2, <2>1, WFMin, Zenon
<1>4. PICK x \in S : t = Upto(x)
  OBVIOUS
<1>5. ASSUME NEW y \in S, y < x PROVE FALSE
  <2>1. x \in Nat /\ y \in Nat /\ \A z \in S : z \in Nat
    OBVIOUS
  <2>2. Upto(y) \subseteq Upto(x) /\ x \in Upto(x) /\ x \notin Upto(y)
    <3>1. ASSUME NEW z \in S, z <= y PROVE z <= x
      BY <1>5, <2>1, <3>1
    <3>2. x <= x /\ ~(x <= y)
      BY <1>5, <2>1
    <3> QED
      BY <3>1, <3>2
  <2>3. Upto(x) \in SUBSET S /\ Upto(y) \in SUBSET S /\ Upto(y) \in T
    OBVIOUS
  <2>4. ~(<<Upto(y), Upto(x)>> \in StrictSubsetOrdering(S))
    BY <1>3, <1>4, <2>3
  <2> HIDE DEF Upto, T
  <2> QED
    BY <2>2, <2>3, <2>4 DEF StrictSubsetOrdering
<1>6. \A y \in S : x =< y
  BY <1>5
<1> QED
  BY <1>6 DEF Min

(* Division and remainder.                                                 *)
LEMMA Divided ==
    ASSUME NEW x \in Int, NEW y \in Nat \ {0}
    PROVE  /\ x \div y \in Int /\ x % y \in 0..(y - 1)
           /\ x = y * (x \div y) + (x % y)
  OBVIOUS

LEMMA SmallRemainder ==
    ASSUME NEW y \in Nat \ {0}, NEW x \in 0..(y - 1)
    PROVE  x % y = x
  OBVIOUS

LEMMA NegativeRemainder ==
    ASSUME NEW y \in Nat \ {0}, NEW x \in (-y)..(-1)
    PROVE  x % y = x + y
  OBVIOUS

LEMMA TimesOrder ==
    ASSUME NEW d \in Nat \ {0}, NEW a \in Int, NEW b \in Int, a <= b
    PROVE  d * a \in Int /\ d * b \in Int /\ d * a <= d * b
  OBVIOUS

LEMMA TimesPositive ==
    ASSUME NEW a \in Nat \ {0}, NEW b \in Nat \ {0}
    PROVE  a * b \in Nat \ {0}
  OBVIOUS

-----------------------------------------------------------------------------
(* Numbers.                                                                *)

LEMMA UnitType ==
    \A u \in DOMAIN Unit : Unit[u][2] \in Nat \ {0} /\ Unit[u][3] \in 0..4
  BY DEF Unit

LEMMA PowerType ==
    ASSUME NEW b \in Nat \ {0}, NEW n \in 0..4
    PROVE  Power(b, n) \in Nat \ {0}
<1>1. b * b \in Nat \ {0}
  BY TimesPositive
<1>2. b * b * b \in Nat \ {0}
  BY <1>1, TimesPositive
<1>3. b * b * b * b \in Nat \ {0}
  BY <1>2, TimesPositive
<1> QED
  BY <1>1, <1>2, <1>3 DEF Power

(* A value in another unit is a fraction.                                  *)
LEMMA InUnitType ==
    ASSUME NEW s, IsScalar(s), s.t \in {"int", "double"}, NEW u \in DOMAIN Unit
    PROVE  /\ InUnit(s, u)[1] \in Int /\ InUnit(s, u)[2] \in Nat \ {0}
           /\ InUnit(s, u) = <<InUnit(s, u)[1], InUnit(s, u)[2]>>
<1> DEFINE e == Unit[s.u][3] - Unit[u][3]
           b == Unit[u][2]
<1>1. Tenths(s) \in Int
  BY DEF IsScalar, Tenths
<1>2. b \in Nat \ {0} /\ e \in -4..4
  BY UnitType DEF IsScalar
<1>3. CASE e >= 0
  <2>1. Power(b, e) \in Nat \ {0}
    BY <1>2, <1>3, PowerType
  <2>2. Tenths(s) * Power(b, e) \in Int
    BY <1>1, <2>1
  <2> QED
    BY <1>3, <2>2 DEF InUnit
<1>4. CASE ~(e >= 0)
  <2>1. Power(b, -e) \in Nat \ {0}
    BY <1>2, <1>4, PowerType
  <2> QED
    BY <1>1, <1>4, <2>1 DEF InUnit
<1> QED
  BY <1>3, <1>4

LEMMA PlainInt ==
    ASSUME NEW s, IsScalar(s), s.t = "int", s.u = "none"
    PROVE  /\ InUnit(s, "none") = <<10 * s.v, 10>> /\ s.v \in Int
           /\ RoundedDown(InUnit(s, "none")) = s.v
           /\ Rounded(InUnit(s, "none")) = s.v
<1>1. InUnit(s, "none") = <<10 * s.v, 10>> /\ s.v \in Int
  <2>1. s.v \in Int /\ Tenths(s) = 10 * s.v /\ Unit["none"] = <<"none", 1000, 0>>
    BY DEF IsScalar, Tenths, Unit
  <2> QED
    BY <2>1 DEF InUnit, Power
<1> QED
  BY <1>1 DEF RoundedDown, Rounded

(* Rounding is by at most a half.                                          *)
LEMMA RoundedIs ==
    ASSUME NEW n \in Int, NEW d \in Nat \ {0}
    PROVE  LET r == Rounded(<<n, d>>) IN
           /\ r \in Int /\ d * r \in Int
           /\ 2 * (d * r) <= 2 * n + d /\ 2 * n <= 2 * (d * r) + d
           /\ n >= 0 => r >= 0
<1>1. CASE n >= 0
  <2> DEFINE x == 2 * n + d
             y == 2 * d
             r == x \div y
  <2>1. x \in Int /\ y \in Nat \ {0}
    OBVIOUS
  <2>2. r \in Int /\ x % y \in 0..(y - 1) /\ x = y * r + (x % y)
    BY <2>1, Divided
  <2>3. Rounded(<<n, d>>) = r
    BY <1>1 DEF Rounded
  <2>4. y * r = 2 * (d * r) /\ d * r \in Int
    BY <2>2
  <2>5. r >= 0
    <3> SUFFICES ASSUME r <= -1 PROVE FALSE
      BY <2>2
    <3>1. d * r <= -d
      BY <2>2, TimesOrder
    <3> QED
      BY <1>1, <2>2, <2>4, <3>1
  <2> HIDE DEF r
  <2> QED
    BY <2>1, <2>2, <2>3, <2>4, <2>5
<1>2. CASE n < 0
  <2> DEFINE x == d - 2 * n
             y == 2 * d
             r == x \div y
  <2>1. x \in Int /\ y \in Nat \ {0}
    OBVIOUS
  <2>2. r \in Int /\ x % y \in 0..(y - 1) /\ x = y * r + (x % y)
    BY <2>1, Divided
  <2>3. Rounded(<<n, d>>) = -r
    BY <1>2 DEF Rounded
  <2> HIDE DEF r
  <2>4. y * r = 2 * (d * r) /\ d * r \in Int /\ d * (-r) = 0 - d * r
    BY <2>2
  <2> QED
    BY <1>2, <2>1, <2>2, <2>3, <2>4
<1> QED
  BY <1>1, <1>2

(* The rounded value, limited to the range, is the nearest of the range.   *)
LEMMA ClampedIsNearest ==
    ASSUME NEW n \in Int, NEW d \in Nat \ {0}, NEW req,
           req.lo \in Int, req.hi \in Int, req.lo <= req.hi
    PROVE  Nearest(Clamp(Rounded(<<n, d>>), req.lo, req.hi), <<n, d>>, req)
<1> DEFINE r == Rounded(<<n, d>>)
           lo == req.lo
           hi == req.hi
           v == Clamp(r, lo, hi)
<1>1. /\ r \in Int /\ d * r \in Int
      /\ 2 * (d * r) <= 2 * n + d /\ 2 * n <= 2 * (d * r) + d
  BY RoundedIs
<1> HIDE DEF r
<1>2. v \in lo..hi
  BY <1>1 DEF Clamp
<1> HIDE DEF v
<1>3. ASSUME NEW w \in {v - 1, v + 1} \cap (lo..hi)
      PROVE  Distance(v, <<n, d>>) <= Distance(w, <<n, d>>)
  <2>1. /\ v \in Int /\ w \in Int /\ v * d \in Int
        /\ w * d \in {v * d - d, v * d + d}
    <3>1. v \in Int /\ w \in {v - 1, v + 1}
      BY <1>2, <1>3
    <3>2. (v - 1) * d = v * d - d /\ (v + 1) * d = v * d + d /\ v * d \in Int
      BY <3>1
    <3> QED
      BY <3>1, <3>2
  <2>2. CASE v = r
    <3>1. v * d = d * r
      BY <1>1, <2>2
    <3> QED
      BY <1>1, <2>1, <3>1 DEF Distance
  <2>3. CASE r < v
    <3>1. v = lo /\ w = v + 1
      BY <1>1, <1>3, <2>3 DEF v, Clamp
    <3>2. d * r <= d * (v - 1) /\ d * (v - 1) = v * d - d
      BY <1>1, <2>1, <2>3, TimesOrder
    <3>3. w * d = v * d + d
      BY <2>1, <3>1
    <3> QED
      BY <1>1, <2>1, <3>2, <3>3 DEF Distance
  <2>4. CASE r > v
    <3>1. v = hi /\ w = v - 1
      BY <1>1, <1>3, <2>4 DEF v, Clamp
    <3>2. d * (v + 1) <= d * r /\ d * (v + 1) = v * d + d
      BY <1>1, <2>1, <2>4, TimesOrder
    <3>3. w * d = v * d - d
      BY <2>1, <3>1
    <3> QED
      BY <1>1, <2>1, <3>2, <3>3 DEF Distance
  <2> QED
    BY <1>1, <2>1, <2>2, <2>3, <2>4
<1>4. Nearest(v, <<n, d>>, req)
  BY <1>2, <1>3 DEF Nearest
<1> QED
  BY <1>4 DEF v, r

-----------------------------------------------------------------------------
(* Settings with a number.                                                 *)

LEMMA WordType == Word \in Nat \ {0} /\ IntMax \in Nat
  BY GetAssumption DEF GetAssumption

(* What the getters of integers work with.                                 *)
IntAsked(s, req) ==
    /\ IsScalar(s) /\ s.t \in {"int", "double"} /\ req.unit \in DOMAIN Unit
    /\ req.lo \in Int /\ req.hi \in Int /\ req.lo <= req.hi /\ IsRange(req)
(* The conversions a file may rely on.                                     *)
Regular(s, req) ==
    LET q == InUnit(s, req.unit) IN
    ~Overflows(q) /\ ~Wraps(q, req) /\ ~CutOff(s, req)

LEMMA RegularInt ==
    ASSUME NEW s, NEW req, IntAsked(s, req), Regular(s, req),
           NEW c \in Int32Of(s, req.unit)
    PROVE  /\ Within(c, req) = Clamp(Rounded(InUnit(s, req.unit)), req.lo, req.hi)
           /\ Rounded(InUnit(s, req.unit)) \in Int
           /\ InUnit(s, req.unit)[1] >= 0 => Rounded(InUnit(s, req.unit)) >= 0
<1> DEFINE q == InUnit(s, req.unit)
<1>1. q[1] \in Int /\ q[2] \in Nat \ {0} /\ q = <<q[1], q[2]>>
  BY InUnitType DEF IntAsked
<1>2. Rounded(q) \in Int /\ (q[1] >= 0 => Rounded(q) >= 0)
  BY <1>1, RoundedIs
<1>3. Cast(Rounded(q)) = {Rounded(q)} /\ Rounded(q) \in IntMin..IntMax
  BY DEF Regular, Overflows, Cast
<1>4. c = Rounded(q)
  <2>1. CASE req.unit = "none" /\ s.u = "none"
    <3>1. s.t = "int"
      BY <2>1 DEF IntAsked, Regular, CutOff
    <3>2. RoundedDown(q) = Rounded(q)
      BY <2>1, <3>1, PlainInt DEF IntAsked
    <3> QED
      BY <1>3, <2>1, <3>2 DEF Int32Of
  <2>2. CASE ~(req.unit = "none" /\ s.u = "none")
    BY <1>3, <2>2 DEF Int32Of
  <2> QED
    BY <2>1, <2>2
<1>5. CASE req.signed
  BY <1>2, <1>4, <1>5 DEF Within
<1>6. CASE ~req.signed
  <2>1. q[1] >= 0
    BY <1>1, <1>6 DEF Regular, Wraps
  <2>2. WordCodes \in Nat \ {0} /\ IntMax < WordCodes
    BY WordType DEF WordCodes
  <2>3. Rounded(q) \in 0..(WordCodes - 1)
    BY <1>2, <1>3, <2>1, <2>2, WordType DEF IntMin
  <2>4. req.lo \in 0..(WordCodes - 1) /\ req.hi \in 0..(WordCodes - 1)
    BY <1>6 DEF IntAsked, IsRange
  <2>5. /\ Rounded(q) % WordCodes = Rounded(q)
        /\ req.lo % WordCodes = req.lo /\ req.hi % WordCodes = req.hi
    BY <2>2, <2>3, <2>4, SmallRemainder
  <2> HIDE DEF q
  <2>6. Within(c, req) = Clamp(Rounded(q), req.lo, req.hi)
    BY <1>4, <1>6, <2>5 DEF Within
  <2> QED
    BY <1>2, <2>6 DEF q
<1> QED
  BY <1>5, <1>6 DEF IntAsked, IsRange

(* An integer is the nearest of the range asked for.                       *)
LEMMA IntIsMeant ==
    ASSUME NEW s, NEW req, IntAsked(s, req), NEW c \in Int32Of(s, req.unit)
    PROVE  IsInt(Within(c, req), s, req)
<1> DEFINE q == InUnit(s, req.unit)
<1>1. q[1] \in Int /\ q[2] \in Nat \ {0} /\ q = <<q[1], q[2]>>
  BY InUnitType DEF IntAsked
<1>2. CASE Regular(s, req)
  <2>1. Within(c, req) = Clamp(Rounded(q), req.lo, req.hi)
    BY <1>2, RegularInt
  <2>2. Nearest(Clamp(Rounded(q), req.lo, req.hi), q, req)
    BY <1>1, ClampedIsNearest DEF IntAsked
  <2> QED
    BY <2>1, <2>2 DEF IsInt
<1>3. CASE ~Regular(s, req)
  BY <1>3 DEF Regular, IsInt
<1> QED
  BY <1>2, <1>3

(* What fits an element is kept in it.                                     *)
LEMMA ElementKeeps ==
    ASSUME NEW req, IsRequest(req), req.get = "ints", NEW v \in req.lo..req.hi,
           req.into_unsigned => v >= 0
    PROVE  Element(v, req) = v
<1>1. /\ req.codes \in Nat /\ req.lo \in Int /\ req.hi \in Int
      /\ req.signed \in BOOLEAN /\ req.into_unsigned \in BOOLEAN /\ req.lo <= req.hi
  BY DEF IsRequest, IsRange
<1>2. CASE req.signed /\ ~req.into_unsigned
  <2>1. -req.codes <= 2 * req.lo /\ 2 * req.hi < req.codes
    BY <1>2 DEF IsRequest
  <2>2. req.codes \in Nat \ {0}
    BY <1>1, <2>1
  <2>3. CASE v >= 0
    <3>1. v \in 0..(req.codes - 1) /\ 2 * v < req.codes
      BY <1>1, <2>1, <2>3
    <3>2. v % req.codes = v
      BY <2>2, <3>1, SmallRemainder
    <3> QED
      BY <1>1, <3>1, <3>2 DEF Element
  <2>4. CASE v < 0
    <3>1. v \in (-req.codes)..(-1) /\ 2 * (v + req.codes) >= req.codes
      BY <1>1, <2>1, <2>4
    <3>2. v % req.codes = v + req.codes
      BY <2>2, <3>1, NegativeRemainder
    <3> QED
      BY <1>1, <1>2, <3>1, <3>2 DEF Element
  <2> QED
    BY <1>1, <2>3, <2>4
<1>3. CASE ~(req.signed /\ ~req.into_unsigned)
  <2>1. 0 <= req.hi /\ req.hi < req.codes
    BY <1>3 DEF IsRequest
  <2>2. v >= 0
    <3>1. ~req.signed => req.lo \in 0..(WordCodes - 1)
      BY DEF IsRequest, IsRange
    <3> QED
      BY <1>1, <1>3, <3>1
  <2>3. v \in 0..(req.codes - 1) /\ req.codes \in Nat \ {0}
    BY <1>1, <2>1, <2>2
  <2>4. v % req.codes = v
    BY <2>3, SmallRemainder
  <2> QED
    BY <1>3, <2>4 DEF Element
<1> QED
  BY <1>2, <1>3

LEMMA StoredIsMeant ==
    ASSUME NEW s, NEW req, IntAsked(s, req), IsRequest(req), req.get = "ints",
           NEW c \in Int32Of(s, req.unit)
    PROVE  \/ Unsigned(InUnit(s, req.unit), req)
           \/ IsInt(Element(Within(c, req), req), s, req)
<1> DEFINE q == InUnit(s, req.unit)
           v == Within(c, req)
<1> SUFFICES ASSUME ~Unsigned(q, req), Regular(s, req)
             PROVE  IsInt(Element(v, req), s, req)
  BY DEF Regular, IsInt
<1>1. q[1] \in Int /\ req.lo \in Int /\ req.hi \in Int /\ req.lo <= req.hi
  BY InUnitType DEF IntAsked
<1>2. /\ v = Clamp(Rounded(q), req.lo, req.hi) /\ Rounded(q) \in Int
      /\ q[1] >= 0 => Rounded(q) >= 0
  BY RegularInt
<1> HIDE DEF q, v
<1>3. v \in req.lo..req.hi
  BY <1>1, <1>2 DEF Clamp
<1>4. req.into_unsigned => v >= 0
  <2> SUFFICES ASSUME req.into_unsigned PROVE v >= 0
    OBVIOUS
  <2>1. Rounded(q) >= 0
    BY <1>1, <1>2 DEF Unsigned
  <2>2. 0 <= req.hi
    BY DEF IsRequest
  <2> QED
    BY <1>1, <1>2, <2>1, <2>2 DEF Clamp
<1>5. Element(v, req) = v
  BY <1>3, <1>4, ElementKeeps
<1>6. IsInt(v, s, req)
  BY IntIsMeant DEF v
<1> QED
  BY <1>5, <1>6

(* A double is exact, or the limit it is beyond.                           *)
LEMMA DoubleIsMeant ==
    ASSUME NEW s, NEW req, IsScalar(s), s.t \in {"int", "double"},
           req.unit \in DOMAIN Unit, req.lo \in Int, req.hi \in Int
    PROVE  Exact(InRange(InUnit(s, req.unit), req), InUnit(s, req.unit), req)
<1> DEFINE n == InUnit(s, req.unit)[1]
           d == InUnit(s, req.unit)[2]
<1>1. n \in Int /\ d \in Nat \ {0} /\ InUnit(s, req.unit) = <<n, d>>
  BY InUnitType
<1> HIDE DEF n, d
<1>2. req.lo * d \in Int /\ req.hi * d \in Int
  BY <1>1
<1>3. Exact(InRange(<<n, d>>, req), <<n, d>>, req)
  BY <1>1, <1>2 DEF Exact, InRange
<1> QED
  BY <1>1, <1>3

-----------------------------------------------------------------------------
(* Lists.                                                                  *)

IsList(l) ==
    /\ Len(l) \in Nat /\ DOMAIN l = 1..Len(l)
    /\ \A j \in DOMAIN l : IsScalar(l[j])

LEMMA OfIs ==
    ASSUME NEW l, IsList(l), ~Holes(l), NEW j \in DOMAIN l
    PROVE  Of(l, j) = l[j]
<1>1. \A m \in DOMAIN l : m \in Int /\ l[m].i = m - 1
  BY DEF IsList, Holes
<1>2. \A m \in DOMAIN l : l[m].i = j - 1 <=> m = j
  BY <1>1
<1> QED
  BY <1>2 DEF Of

LEMMA IntsMeant ==
    ASSUME NEW l, IsList(l), NEW req, IsRequest(req), req.get = "ints", Numbers(l, req),
           NEW v, DOMAIN v = DOMAIN l,
           \A j \in DOMAIN l : \E c \in Int32Of(l[j], req.unit) :
                v[j] = Element(Within(c, req), req)
    PROVE  Meant(req, l, v)
<1> SUFFICES ASSUME NEW j \in DOMAIN l, ~Holes(l)
             PROVE  Unsigned(InUnit(Of(l, j), req.unit), req) \/ IsInt(v[j], Of(l, j), req)
  BY DEF Meant
<1>1. Of(l, j) = l[j]
  BY OfIs
<1>2. IntAsked(l[j], req)
  BY DEF IntAsked, IsRequest, IsList, Numbers, ListFits
<1>3. PICK c \in Int32Of(l[j], req.unit) : v[j] = Element(Within(c, req), req)
  OBVIOUS
<1> QED
  BY <1>1, <1>2, <1>3, StoredIsMeant

LEMMA DoublesMeant ==
    ASSUME NEW l, IsList(l), NEW req, IsRequest(req), req.get = "doubles", Numbers(l, req)
    PROVE  Meant(req, l, [j \in DOMAIN l |-> InRange(InUnit(l[j], req.unit), req)])
<1> DEFINE v == [j \in DOMAIN l |-> InRange(InUnit(l[j], req.unit), req)]
<1>1. ASSUME NEW j \in DOMAIN l, ~Holes(l)
      PROVE  Exact(v[j], InUnit(Of(l, j), req.unit), req)
  <2>1. Of(l, j) = l[j]
    BY <1>1, OfIs
  <2>2. /\ IsScalar(l[j]) /\ l[j].t \in {"int", "double"} /\ req.unit \in DOMAIN Unit
        /\ req.lo \in Int /\ req.hi \in Int
    BY DEF IsRequest, IsList, Numbers, ListFits
  <2>3. Exact(InRange(InUnit(l[j], req.unit), req), InUnit(l[j], req.unit), req)
    BY <2>2, DoubleIsMeant
  <2> QED
    BY <2>1, <2>3
<1>2. DOMAIN v = DOMAIN l
  OBVIOUS
<1> HIDE DEF v
<1>3. Meant(req, l, v)
  BY <1>1, <1>2 DEF Meant
<1> QED
  BY <1>3 DEF v

LEMMA KeywordsMeant ==
    ASSUME NEW l, IsList(l), NEW req, req.get = "keywords",
           \A j \in DOMAIN l : Match(req.list, l[j].v)
    PROVE  Meant(req, l, [j \in DOMAIN l |-> l[j].v])
  BY OfIs DEF Meant

-----------------------------------------------------------------------------
(* Keywords by index.                                                      *)

LEMMA NonesGrow ==
    ASSUME NEW words, NEW p \in Nat, NEW q \in Nat, p <= q
    PROVE  /\ Nones(words, p) \in Nat /\ Nones(words, q) \in Nat
           /\ Nones(words, p) <= Nones(words, q)
<1> DEFINE N(n) == {r \in 1..n : words[r] = "none"}
<1>1. ASSUME NEW n \in Nat PROVE IsFiniteSet(N(n)) /\ Cardinality(N(n)) \in Nat
  <2>1. IsFiniteSet(1..n) /\ N(n) \in SUBSET (1..n)
    BY FS_Interval
  <2> QED
    BY <2>1, FS_Subset, FS_CardinalityType
<1>2. N(p) \in SUBSET N(q)
  OBVIOUS
<1>3. Cardinality(N(p)) <= Cardinality(N(q))
  BY <1>1, <1>2, FS_Subset
<1> QED
  BY <1>1, <1>3 DEF Nones

LEMMA PartEndIs ==
    ASSUME NEW words, Len(words) \in Nat, DOMAIN words = 1..Len(words), NEW j \in Nat
    PROVE  /\ PartEnd(words, j) \in 1..(Len(words) + 1)
           /\ PartEnd(words, j) <= Len(words) => Nones(words, PartEnd(words, j)) >= j
           /\ \A p \in DOMAIN words : p < PartEnd(words, j) => ~(Nones(words, p) >= j)
<1> DEFINE E == {p \in DOMAIN words : Nones(words, p) >= j} \cup {Len(words) + 1}
<1>1. E \subseteq 1..(Len(words) + 1) /\ E \subseteq Nat /\ E # {}
  OBVIOUS
<1>2. Min(E) \in E /\ \A x \in E : Min(E) <= x
  BY <1>1, MinIsLeast
<1>3. ASSUME NEW p \in DOMAIN words, p < Min(E) PROVE ~(Nones(words, p) >= j)
  <2>1. p \in Nat /\ Min(E) \in Nat /\ ~(Min(E) <= p)
    BY <1>1, <1>2, <1>3
  <2> QED
    BY <1>2, <2>1
<1>4. PartEnd(words, j) = Min(E)
  BY DEF PartEnd
<1>5. Min(E) <= Len(words) => Nones(words, Min(E)) >= j
  BY <1>2
<1> HIDE DEF E
<1> QED
  BY <1>1, <1>2, <1>3, <1>4, <1>5

(* The keywords of an index are those after as many ends.                  *)
LEMMA PartHolds ==
    ASSUME NEW S, NEW words \in Seq(S), NEW j \in Nat \ {0}, NEW i \in DOMAIN Part(words, j)
    PROVE  \E p \in DOMAIN words :
             words[p] = Part(words, j)[i] /\ Nones(words, p) = j - 1
<1> DEFINE a == IF j = 1 THEN 1 ELSE PartEnd(words, j - 1) + 1
           b == PartEnd(words, j) - 1
           p == i + a - 1
<1>1. Len(words) \in Nat /\ DOMAIN words = 1..Len(words)
  OBVIOUS
<1>2. a \in 1..(Len(words) + 2) /\ b \in 0..Len(words)
  <2>1. PartEnd(words, j) \in 1..(Len(words) + 1)
    BY <1>1, PartEndIs
  <2>2. ASSUME j # 1 PROVE PartEnd(words, j - 1) \in 1..(Len(words) + 1)
    <3>1. j - 1 \in Nat
      BY <2>2
    <3> QED
      BY <1>1, <3>1, PartEndIs
  <2> QED
    BY <1>1, <2>1, <2>2
<1> HIDE DEF a, b
<1>3. Part(words, j) = SubSeq(words, a, b)
  BY DEF Part, a, b
<1>4. /\ i \in 1..(b - a + 1) /\ i \in Int /\ a \in Int /\ b \in Int
      /\ Part(words, j)[i] = words[p]
  <2>1. \A k \in a..b : words[k] \in S
    BY <1>1, <1>2
  <2>2. /\ SubSeq(words, a, b) \in Seq(S)
        /\ Len(SubSeq(words, a, b)) = IF a <= b THEN b - a + 1 ELSE 0
        /\ \A k \in 1..(b - a + 1) : SubSeq(words, a, b)[k] = words[a + k - 1]
    BY <1>2, <2>1, SubSeqProperties
  <2>3. i \in 1..Len(SubSeq(words, a, b))
    BY <1>3, <2>2
  <2>4. i \in 1..(b - a + 1) /\ i \in Int /\ a \in Int /\ b \in Int
    BY <1>2, <2>2, <2>3
  <2>5. a + i - 1 = p
    BY <2>4
  <2> QED
    BY <1>3, <2>2, <2>4, <2>5
<1>e. PartEnd(words, j) \in Int /\ b = PartEnd(words, j) - 1
      /\ \A k \in DOMAIN words : k < PartEnd(words, j) => ~(Nones(words, k) >= j)
  BY <1>1, PartEndIs DEF b
<1>5. p \in 1..Len(words) /\ p \in Nat /\ p < PartEnd(words, j) /\ p >= a
  BY <1>1, <1>2, <1>4, <1>e
<1> HIDE DEF p
<1>6. Nones(words, p) \in Nat /\ ~(Nones(words, p) >= j)
  <2>1. Nones(words, p) \in Nat
    BY <1>5, NonesGrow
  <2> QED
    BY <1>1, <1>5, <1>e, <2>1
<1>7. Nones(words, p) >= j - 1
  <2>1. CASE j = 1
    BY <1>6, <2>1
  <2>2. CASE j > 1
    <3> DEFINE e == PartEnd(words, j - 1)
    <3>1. e \in 1..(Len(words) + 1) /\ p >= e + 1
      BY <1>1, <1>5, <2>2, PartEndIs DEF a
    <3>2. e <= Len(words) /\ e \in Nat /\ e <= p
      BY <1>1, <1>5, <3>1
    <3>3. Nones(words, e) >= j - 1
      BY <1>1, <2>2, <3>2, PartEndIs
    <3>4. Nones(words, e) \in Nat /\ Nones(words, e) <= Nones(words, p)
      BY <1>5, <3>2, NonesGrow
    <3> QED
      BY <1>6, <3>3, <3>4
  <2> QED
    BY <2>1, <2>2
<1> QED
  BY <1>1, <1>4, <1>5, <1>6, <1>7

LEMMA FlexMeant ==
    ASSUME NEW l, IsList(l), NEW req, IsRequest(req), req.get = "flex",
           \A j \in DOMAIN l : Part(req.list, j) # << >> /\ Match(Part(req.list, j), l[j].v)
    PROVE  Meant(req, l, [j \in DOMAIN l |-> l[j].v])
<1> DEFINE v == [j \in DOMAIN l |-> l[j].v]
<1>1. ASSUME NEW j \in DOMAIN l, ~Holes(l)
      PROVE  /\ v[j] = Of(l, j).v
             /\ \E p \in DOMAIN req.list : req.list[p] = v[j] /\ Nones(req.list, p) = j - 1
  <2>1. Of(l, j) = l[j] /\ v[j] = l[j].v
    BY <1>1, OfIs
  <2>2. PICK i \in DOMAIN Part(req.list, j) : Part(req.list, j)[i] = l[j].v
    BY DEF Match
  <2>3. req.list \in Seq({req.list[p] : p \in DOMAIN req.list}) /\ j \in Nat \ {0}
    BY DEF IsRequest, IsList
  <2>4. PICK p \in DOMAIN req.list :
          req.list[p] = Part(req.list, j)[i] /\ Nones(req.list, p) = j - 1
    BY <2>3, PartHolds
  <2> QED
    BY <2>1, <2>2, <2>4
<1>2. DOMAIN v = DOMAIN l
  OBVIOUS
<1> HIDE DEF v
<1>3. Meant(req, l, v)
  BY <1>1, <1>2 DEF Meant, Nones
<1> QED
  BY <1>3 DEF v

-----------------------------------------------------------------------------
(* Bits and parameters of a block.                                         *)

LEMMA BitmaskMeant ==
    ASSUME NEW n, IsItem(n), Loaded(n).has_bitmask, NEW req, IsRequest(req),
           req.get = "bitmask"
    PROVE  Meant(req, Loaded(n).scal, <<Loaded(n).bitmask \cap (req.first..req.last)>>)
<1> DEFINE l == n.scal
           L == Loaded(n).scal
           Meaning(words) == {b \in req.first..req.last : \E j \in DOMAIN words :
                              IF words[j].t = "range" THEN b \in words[j].v[1]..words[j].v[2]
                              ELSE words[j].t = "int" /\ b = words[j].v}
           val == Bitmask(l) \cap (req.first..req.last)
<1>1. HasBitmask(l) /\ Loaded(n).bitmask = Bitmask(l)
  BY DEF Loaded
<1>2. L = l \/ (l = << >> /\ L = <<EmptyScalar>>)
  BY DEF Loaded
<1>3. /\ DOMAIN l = 1..Len(l) /\ \A j \in DOMAIN l : IsScalar(l[j])
      /\ req.first \in Nat /\ req.last \in 0..(Word - 1)
  BY DEF IsItem, IsRequest
<1>4. ASSUME L = l, ~WideRange(L) PROVE val = Meaning(L)
  <2>1. ASSUME NEW b \in req.first..req.last, NEW j \in DOMAIN l
        PROVE  b \in (IF l[j].t = "range" THEN (l[j].v[1] % Word)..(l[j].v[2] % Word)
                      ELSE {l[j].v} \cap 0..(Word - 1))
               <=> (IF l[j].t = "range" THEN b \in l[j].v[1]..l[j].v[2]
                    ELSE l[j].t = "int" /\ b = l[j].v)
    <3>1. CASE l[j].t = "range"
      <4>1. l[j].v[1] \in 0..(Word - 1) /\ l[j].v[2] \in 0..(Word - 1) /\ Word \in Nat \ {0}
        BY <1>3, <1>4, <3>1, WordType DEF WideRange, IsScalar
      <4>2. l[j].v[1] % Word = l[j].v[1] /\ l[j].v[2] % Word = l[j].v[2]
        BY <4>1, SmallRemainder
      <4> QED
        BY <3>1, <4>2
    <3>2. CASE l[j].t # "range"
      <4>1. l[j].t = "int" /\ b \in 0..(Word - 1)
        BY <1>1, <1>3, <3>2, WordType DEF HasBitmask
      <4> QED
        BY <3>2, <4>1
    <3> QED
      BY <3>1, <3>2
  <2> QED
    BY <1>4, <2>1 DEF Bitmask
<1>5. ASSUME l = << >>, L = <<EmptyScalar>> PROVE val = Meaning(L)
  <2>1. val = {}
    BY <1>5 DEF Bitmask
  <2>2. DOMAIN L = {1} /\ L[1].t = "empty"
    BY <1>5 DEF EmptyScalar
  <2> HIDE DEF L
  <2>3. Meaning(L) = {}
    BY <2>2
  <2> QED
    BY <2>1, <2>3
<1>6. WideRange(L) \/ val = Meaning(L)
  BY <1>2, <1>4, <1>5
<1> HIDE DEF L, val
<1>7. Meant(req, L, <<val>>)
  BY <1>6 DEF Meant
<1> QED
  BY <1>1, <1>7 DEF L, val

LEMMA ParamMeant ==
    ASSUME NEW l, IsList(l), NEW req, IsRequest(req), req.get = "param",
           NEW j, j = Min(ParamAt(l, req)), ParamAt(l, req) # {}, l[j].t = req.type
    PROVE  Meant(req, l, <<l[j].v>>)
<1>1. ParamAt(l, req) \subseteq Nat /\ ParamAt(l, req) \subseteq DOMAIN l
  BY DEF ParamAt, IsList
<1>2. j \in ParamAt(l, req) /\ j \in DOMAIN l
  BY <1>1, MinIsLeast
<1>3. l[j].i = req.index \/ (req.type # "int" /\ Holes(l))
  <2>1. CASE req.type = "int"
    BY <1>2, <2>1 DEF ParamAt
  <2>2. CASE req.type # "int" /\ ~Holes(l)
    <3>1. j = req.index + 1 /\ l[j].i = j - 1 /\ req.index \in Nat
      BY <1>2, <2>2 DEF ParamAt, Holes, IsRequest
    <3> QED
      BY <3>1
  <2> QED
    BY <2>1, <2>2
<1> QED
  BY <1>2, <1>3 DEF Meant

-----------------------------------------------------------------------------
(* The invariant.                                                          *)

Tree == Uses[use].tree
Fields == {"in", "kind", "name", "scal", "has_bitmask", "bitmask", "touched"}

(* Nothing but is_touched changes after loading.                           *)
AsLoaded ==
    /\ use \in DOMAIN Uses
    /\ DOMAIN nodes = DOMAIN Tree
    /\ \A k \in DOMAIN nodes :
         /\ DOMAIN nodes[k] = Fields
         /\ nodes[k].in = Tree[k].in /\ nodes[k].kind = Tree[k].kind
         /\ nodes[k].name = Tree[k].name
         /\ nodes[k].scal = Loaded(Tree[k]).scal
         /\ nodes[k].has_bitmask = Loaded(Tree[k]).has_bitmask
         /\ nodes[k].bitmask = Loaded(Tree[k]).bitmask
InTree ==
    /\ block \in DOMAIN nodes \cup {0}
    /\ gotten.req.get # "none" => gotten.node \in DOMAIN nodes
(* A setting is marked when the program takes it, all of it but for lists  *)
(* it reads as a single value.                                             *)
TouchedIsGiven ==
    \A k \in DOMAIN nodes :
      nodes[k].kind = "config" /\ nodes[k].touched => k \in given \/ ~Alone(k)
(* What has passed stays touched.                                          *)
PassedIsTouched ==
    \A p \in passed : \A k \in Checked(p.block, p.recurse) : nodes[k].touched

GetInv == AsLoaded /\ InTree /\ TouchedIsGiven /\ PassedIsTouched /\ GotIsMeant

LEMMA TreeIs ==
    ASSUME AsLoaded
    PROVE  /\ Len(Tree) \in Nat /\ DOMAIN nodes = 1..Len(Tree)
           /\ DOMAIN nodes \subseteq Nat \ {0}
           /\ \A k \in DOMAIN nodes : IsItem(Tree[k]) /\ nodes[k].in \in DOMAIN nodes \cup {0}
           /\ \A get \in Getters : \A req \in Asks(get) : req.get = get /\ IsRequest(req)
<1>1. /\ Len(Tree) \in Nat /\ DOMAIN Tree = 1..Len(Tree)
      /\ \A k \in DOMAIN Tree : IsItem(Tree[k]) /\ Tree[k].in <= Len(Tree)
      /\ \A get \in Getters : \A req \in Asks(get) : req.get = get /\ IsRequest(req)
  BY GetAssumption DEF GetAssumption, AsLoaded, Tree, Asks
<1>2. ASSUME NEW k \in DOMAIN nodes PROVE nodes[k].in \in DOMAIN nodes \cup {0}
  <2>1. Tree[k].in \in Nat /\ Tree[k].in <= Len(Tree)
    BY <1>1, <1>2 DEF AsLoaded, IsItem
  <2> QED
    BY <1>1, <2>1 DEF AsLoaded
<1> QED
  BY <1>1, <1>2 DEF AsLoaded

LEMMA ScalarsAreList ==
    ASSUME AsLoaded, NEW k \in DOMAIN nodes
    PROVE  IsList(nodes[k].scal) /\ (nodes[k].kind = "config" => 1 \in DOMAIN nodes[k].scal)
<1> DEFINE n == Tree[k]
           l == nodes[k].scal
<1>1. IsItem(n)
  BY TreeIs
<1>2. l = IF n.scal = << >> /\ n.kind = "config" THEN <<EmptyScalar>> ELSE n.scal
  BY DEF AsLoaded, Loaded
<1>3. CASE n.scal = << >> /\ n.kind = "config"
  <2>1. IsScalar(EmptyScalar)
    BY DEF IsScalar, EmptyScalar, Unit
  <2>2. l = <<EmptyScalar>>
    BY <1>2, <1>3
  <2> HIDE DEF l
  <2>3. Len(l) = 1 /\ DOMAIN l = 1..1 /\ l[1] = EmptyScalar
    BY <2>2
  <2> QED
    BY <2>1, <2>3 DEF IsList, l
<1>4. CASE ~(n.scal = << >> /\ n.kind = "config")
  <2>1. IsList(n.scal)
    BY <1>1 DEF IsItem, IsList
  <2>2. n.kind = "config" => n.scal # << >>
    BY <1>4
  <2> QED
    BY <1>2, <1>4, <2>1, <2>2 DEF IsList, AsLoaded
<1> QED
  BY <1>3, <1>4

LEMMA BelowIsIn ==
    ASSUME NEW in, NEW S
    PROVE  Below(in, S) \subseteq DOMAIN in
  BY DEF Below

LEMMA SameChecked ==
    ASSUME DOMAIN nodes' = DOMAIN nodes,
           \A j \in DOMAIN nodes : nodes'[j].in = nodes[j].in /\ nodes'[j].kind = nodes[j].kind,
           NEW b, NEW recurse
    PROVE  /\ Checked(b, recurse)' = Checked(b, recurse)
           /\ Checked(b, recurse) \subseteq DOMAIN nodes
<1>1. \A c : InBlockAt(c)' = InBlockAt(c) /\ InBlockAt(c) \subseteq DOMAIN nodes
  BY DEF InBlockAt
<1>2. [k \in DOMAIN nodes |-> nodes[k].in]' = [k \in DOMAIN nodes |-> nodes[k].in]
  OBVIOUS
<1>3. Under(b)' = Under(b) /\ Under(b) \subseteq DOMAIN nodes
  BY <1>1, <1>2, BelowIsIn DEF Under
<1>4. Visited(b, recurse)' = Visited(b, recurse) /\ Visited(b, recurse) \subseteq DOMAIN nodes
  BY <1>1, <1>3 DEF Visited
<1> QED
  BY <1>4 DEF Checked

(* Steps that leave the tree and what was read from it.                    *)
LEMMA InvKept ==
    ASSUME GetInv, UNCHANGED <<use, nodes, gotten, given, passed>>,
           block' \in DOMAIN nodes \cup {0}
    PROVE  GetInv'
<1>1. AsLoaded' /\ InTree' /\ TouchedIsGiven' /\ GotIsMeant'
  BY DEF GetInv, AsLoaded, InTree, TouchedIsGiven, GotIsMeant, Tree, Alone
<1>2. PassedIsTouched'
  BY SameChecked DEF GetInv, PassedIsTouched
<1> QED
  BY <1>1, <1>2 DEF GetInv

(* Marking an item.                                                        *)
LEMMA Marked ==
    ASSUME AsLoaded, NEW k \in DOMAIN nodes, NEW t,
           nodes' = [nodes EXCEPT ![k].touched = t], use' = use
    PROVE  /\ AsLoaded' /\ DOMAIN nodes' = DOMAIN nodes
           /\ \A j \in DOMAIN nodes : /\ nodes'[j].in = nodes[j].in
                                      /\ nodes'[j].kind = nodes[j].kind
                                      /\ nodes'[j].scal = nodes[j].scal
           /\ \A j \in DOMAIN nodes : nodes'[j].touched = IF j = k THEN t ELSE nodes[j].touched
<1>1. DOMAIN nodes' = DOMAIN nodes
  OBVIOUS
<1>2. ASSUME NEW j \in DOMAIN nodes
      PROVE  /\ DOMAIN nodes'[j] = Fields
             /\ nodes'[j].in = nodes[j].in /\ nodes'[j].kind = nodes[j].kind
             /\ nodes'[j].name = nodes[j].name /\ nodes'[j].scal = nodes[j].scal
             /\ nodes'[j].has_bitmask = nodes[j].has_bitmask
             /\ nodes'[j].bitmask = nodes[j].bitmask
             /\ nodes'[j].touched = IF j = k THEN t ELSE nodes[j].touched
  <2>1. DOMAIN nodes[j] = Fields
    BY DEF AsLoaded
  <2>2. CASE j = k
    <3>1. nodes'[j] = [nodes[j] EXCEPT !.touched = t]
      BY <2>2
    <3> QED
      BY <2>1, <2>2, <3>1 DEF Fields
  <2>3. CASE j # k
    BY <2>1, <2>3
  <2> QED
    BY <2>2, <2>3
<1> QED
  BY <1>1, <1>2 DEF AsLoaded, Tree

(* The program is handed a value.                                          *)
LEMMA HandStep ==
    ASSUME GetInv, NEW k \in DOMAIN nodes, NEW req, NEW values, NEW all \in BOOLEAN,
           Hand(req, k, values, all), all \/ ~Alone(k),
           \A v \in values : Meant(req, nodes[k].scal, v)
    PROVE  GetInv'
<1> DEFINE t == nodes[k].touched \/ req.get # "keyword" \/ req.list # << >>
<1>1. /\ nodes' = [nodes EXCEPT ![k].touched = t] /\ use' = use
      /\ UNCHANGED <<block, passed>>
      /\ given' = IF all THEN given \cup {k} ELSE given
  BY DEF Hand
<1>2. PICK v \in values : gotten' = [req |-> req, node |-> k, values |-> v]
  BY DEF Hand
<1> HIDE DEF t
<1>3. /\ AsLoaded' /\ DOMAIN nodes' = DOMAIN nodes
      /\ \A j \in DOMAIN nodes : /\ nodes'[j].in = nodes[j].in
                                 /\ nodes'[j].kind = nodes[j].kind
                                 /\ nodes'[j].scal = nodes[j].scal
      /\ \A j \in DOMAIN nodes : nodes'[j].touched = IF j = k THEN t ELSE nodes[j].touched
  BY <1>1, Marked DEF GetInv
<1>4. InTree'
  BY <1>1, <1>2, <1>3 DEF GetInv, InTree
<1>5. TouchedIsGiven'
  <2> SUFFICES ASSUME NEW j \in DOMAIN nodes, nodes[j].kind = "config", nodes'[j].touched
               PROVE  j \in given' \/ ~Alone(j)
    BY <1>3 DEF TouchedIsGiven, Alone
  <2>1. CASE j = k
    BY <1>1, <2>1
  <2>2. CASE j # k
    BY <1>1, <1>3, <2>2 DEF GetInv, TouchedIsGiven
  <2> QED
    BY <2>1, <2>2
<1>6. PassedIsTouched'
  <2> SUFFICES ASSUME NEW p \in passed, NEW j \in Checked(p.block, p.recurse)
               PROVE  nodes'[j].touched
    BY <1>1, <1>3, SameChecked DEF PassedIsTouched
  <2>1. j \in DOMAIN nodes /\ nodes[j].touched
    BY <1>3, SameChecked DEF GetInv, PassedIsTouched
  <2>2. j = k => t
    BY <2>1 DEF t
  <2> QED
    BY <1>3, <2>1, <2>2
<1>7. GotIsMeant'
  <2>1. gotten'.req = req /\ gotten'.node = k /\ gotten'.values = v
    BY <1>2
  <2>2. nodes'[k].scal = nodes[k].scal
    BY <1>3
  <2> QED
    BY <1>2, <2>1, <2>2 DEF GotIsMeant
<1> QED
  BY <1>3, <1>4, <1>5, <1>6, <1>7 DEF GetInv

LEMMA HandAll ==
    ASSUME GetInv, NEW k \in DOMAIN nodes, NEW req, NEW v, Hand(req, k, {v}, TRUE),
           Meant(req, nodes[k].scal, v)
    PROVE  GetInv'
<1>1. \A w \in {v} : Meant(req, nodes[k].scal, w)
  OBVIOUS
<1> DEFINE values == {v}
           all == TRUE
<1>2. all \in BOOLEAN /\ Hand(req, k, values, all) /\ (all \/ ~Alone(k))
  OBVIOUS
<1> HIDE DEF values, all
<1> QED
  BY <1>1, <1>2, HandStep DEF values

LEMMA EnterStep ==
    ASSUME GetInv, NEW k \in DOMAIN nodes, nodes[k].kind = "block", Enter(k)
    PROVE  GetInv'
<1>1. /\ nodes' = [nodes EXCEPT ![k].touched = TRUE] /\ use' = use /\ block' = k
      /\ UNCHANGED <<gotten, given, passed>>
  BY DEF Enter
<1>2. /\ AsLoaded' /\ DOMAIN nodes' = DOMAIN nodes
      /\ \A j \in DOMAIN nodes : /\ nodes'[j].in = nodes[j].in
                                 /\ nodes'[j].kind = nodes[j].kind
                                 /\ nodes'[j].scal = nodes[j].scal
      /\ \A j \in DOMAIN nodes : nodes'[j].touched = IF j = k THEN TRUE ELSE nodes[j].touched
  BY <1>1, Marked DEF GetInv
<1>3. InTree'
  BY <1>1, <1>2 DEF GetInv, InTree
<1>4. TouchedIsGiven'
  BY <1>1, <1>2 DEF GetInv, TouchedIsGiven, Alone
<1>5. PassedIsTouched'
  BY <1>1, <1>2, SameChecked DEF GetInv, PassedIsTouched
<1>6. GotIsMeant'
  <2>1. CASE gotten.req.get = "none"
    BY <1>1, <2>1 DEF GotIsMeant, Meant
  <2>2. CASE gotten.req.get # "none"
    <3>1. gotten.node \in DOMAIN nodes
      BY <2>2 DEF GetInv, InTree
    <3> QED
      BY <1>1, <1>2, <3>1 DEF GetInv, GotIsMeant
  <2> QED
    BY <2>1, <2>2
<1> QED
  BY <1>2, <1>3, <1>4, <1>5, <1>6 DEF GetInv

-----------------------------------------------------------------------------
(* What the getters find.                                                  *)

LEMMA Found ==
    ASSUME AsLoaded, NEW S, S \subseteq DOMAIN nodes, S # {}
    PROVE  Min(S) \in S /\ Min(S) \in DOMAIN nodes
  BY TreeIs, MinIsLeast

LEMMA Named ==
    ASSUME NEW name
    PROVE  /\ ConfigsNamed(name) \subseteq DOMAIN nodes
           /\ \A k \in ConfigsNamed(name) : nodes[k].kind = "config"
           /\ \A types : Typed(name, types) \subseteq ConfigsNamed(name)
           /\ \A types : \A k \in Typed(name, types) : FirstScalar(k).t \in types
           /\ \A b : BlocksNamed(b, name) \subseteq DOMAIN nodes
           /\ \A b : \A k \in BlocksNamed(b, name) : nodes[k].kind = "block"
  BY DEF ConfigsNamed, BlocksNamed, InBlockAt, Typed

(* A setting found by the type of its first value.                         *)
LEMMA FoundFirst ==
    ASSUME AsLoaded, NEW name, NEW types, Typed(name, types) # {},
           NEW k, k = Min(Typed(name, types))
    PROVE  /\ k \in DOMAIN nodes /\ IsList(nodes[k].scal) /\ 1 \in DOMAIN nodes[k].scal
           /\ IsScalar(FirstScalar(k)) /\ FirstScalar(k).t \in types
           /\ Alone(k) \in BOOLEAN
<1>1. k \in Typed(name, types) /\ k \in DOMAIN nodes /\ nodes[k].kind = "config"
  BY Named, Found
<1>2. IsList(nodes[k].scal) /\ 1 \in DOMAIN nodes[k].scal
  BY <1>1, ScalarsAreList
<1> QED
  BY <1>1, <1>2, Named DEF IsList, FirstScalar, Alone

LEMMA FoundList ==
    ASSUME AsLoaded, NEW name, ConfigsNamed(name) # {}, NEW k, k = Min(ConfigsNamed(name))
    PROVE  k \in DOMAIN nodes /\ IsList(nodes[k].scal)
  BY Named, Found, ScalarsAreList

LEMMA Asked ==
    ASSUME AsLoaded, NEW get \in Getters, NEW req \in Asks(get)
    PROVE  req.get = get /\ IsRequest(req)
  BY TreeIs

LEMMA Died ==
    ASSUME GetInv, LogDie
    PROVE  GetInv'
  BY InvKept DEF LogDie, GetInv, InTree

-----------------------------------------------------------------------------
(* The steps.                                                              *)

LEMMA IntStep == ASSUME GetInv, GetInt PROVE GetInv'
<1>1. PICK req \in Asks("int") :
        LET found == Typed(req.name, {"int"}) k == Min(found) IN
        IF found = {} \/ ~Compatible(FirstScalar(k).u, req.unit) THEN LogDie
        ELSE Hand(req, k, {<<Within(v, req)>> : v \in Int32Of(FirstScalar(k), req.unit)}, Alone(k))
  BY DEF GetInt
<1> DEFINE found == Typed(req.name, {"int"})
           k == Min(found)
           values == {<<Within(v, req)>> : v \in Int32Of(FirstScalar(k), req.unit)}
<1>2. CASE found = {} \/ ~Compatible(FirstScalar(k).u, req.unit)
  BY <1>1, <1>2, Died
<1>3. CASE ~(found = {} \/ ~Compatible(FirstScalar(k).u, req.unit))
  <2>1. AsLoaded /\ req.get = "int" /\ IsRequest(req)
    BY Asked DEF GetInv, Getters
  <2>2. /\ k \in DOMAIN nodes /\ IsScalar(FirstScalar(k)) /\ FirstScalar(k).t = "int"
        /\ Alone(k) \in BOOLEAN
    BY <1>3, <2>1, FoundFirst
  <2>3. IntAsked(FirstScalar(k), req)
    BY <2>1, <2>2 DEF IntAsked, IsRequest
  <2>4. ASSUME NEW v \in values PROVE Meant(req, nodes[k].scal, v)
    <3>1. PICK c \in Int32Of(FirstScalar(k), req.unit) : v = <<Within(c, req)>>
      OBVIOUS
    <3>2. IsInt(v[1], nodes[k].scal[1], req)
      BY <2>3, <3>1, IntIsMeant DEF FirstScalar
    <3> QED
      BY <2>1, <3>2 DEF Meant
  <2>5. Hand(req, k, values, Alone(k))
    BY <1>1, <1>3
  <2> HIDE DEF k, values
  <2> QED
    BY <2>2, <2>4, <2>5, HandStep
<1> QED
  BY <1>2, <1>3

LEMMA DoubleStep == ASSUME GetInv, GetDouble PROVE GetInv'
<1>1. PICK req \in Asks("double") :
        LET found == Typed(req.name, {"int", "double"}) k == Min(found) IN
        IF found = {} \/ ~Compatible(FirstScalar(k).u, req.unit) THEN LogDie
        ELSE Hand(req, k, {<<InRange(InUnit(FirstScalar(k), req.unit), req)>>}, Alone(k))
  BY DEF GetDouble
<1> DEFINE found == Typed(req.name, {"int", "double"})
           k == Min(found)
           v == <<InRange(InUnit(FirstScalar(k), req.unit), req)>>
<1>2. CASE found = {} \/ ~Compatible(FirstScalar(k).u, req.unit)
  BY <1>1, <1>2, Died
<1>3. CASE ~(found = {} \/ ~Compatible(FirstScalar(k).u, req.unit))
  <2>1. AsLoaded /\ req.get = "double" /\ IsRequest(req)
    BY Asked DEF GetInv, Getters
  <2>2. /\ k \in DOMAIN nodes /\ IsScalar(FirstScalar(k))
        /\ FirstScalar(k).t \in {"int", "double"} /\ Alone(k) \in BOOLEAN
    BY <1>3, <2>1, FoundFirst
  <2>3. Exact(v[1], InUnit(nodes[k].scal[1], req.unit), req)
    BY <2>1, <2>2, DoubleIsMeant DEF IsRequest, FirstScalar
  <2>4. Hand(req, k, {v}, Alone(k))
    BY <1>1, <1>3
  <2> HIDE DEF k, v
  <2>5. Meant(req, nodes[k].scal, v)
    BY <2>1, <2>3 DEF Meant
  <2> QED
    BY <2>2, <2>4, <2>5, HandStep
<1> QED
  BY <1>2, <1>3

LEMMA IntArrayStep == ASSUME GetInv, GetIntArray PROVE GetInv'
<1>1. PICK req \in Asks("ints") :
        LET found == ConfigsNamed(req.name) k == Min(found) l == nodes[k].scal IN
        IF found = {} \/ ~Numbers(l, req) THEN LogDie
        ELSE LET of(j) == {Element(Within(v, req), req) : v \in Int32Of(l[j], req.unit)} IN
             Hand(req, k, {f \in [DOMAIN l -> UNION {of(j) : j \in DOMAIN l}] :
                             \A j \in DOMAIN l : f[j] \in of(j)}, TRUE)
  BY DEF GetIntArray
<1> DEFINE found == ConfigsNamed(req.name)
           k == Min(found)
           l == nodes[k].scal
           of(j) == {Element(Within(v, req), req) : v \in Int32Of(l[j], req.unit)}
           values == {f \in [DOMAIN l -> UNION {of(j) : j \in DOMAIN l}] :
                        \A j \in DOMAIN l : f[j] \in of(j)}
<1>2. CASE found = {} \/ ~Numbers(l, req)
  BY <1>1, <1>2, Died
<1>3. CASE ~(found = {} \/ ~Numbers(l, req))
  <2>1. AsLoaded /\ req.get = "ints" /\ IsRequest(req)
    BY Asked DEF GetInv, Getters
  <2>2. k \in DOMAIN nodes /\ IsList(l)
    BY <1>3, <2>1, FoundList
  <2>3. Numbers(l, req) /\ Hand(req, k, values, TRUE)
    BY <1>1, <1>3
  <2>4. ASSUME NEW f \in values PROVE Meant(req, l, f)
    <3>1. /\ DOMAIN f = DOMAIN l
          /\ \A j \in DOMAIN l :
               \E c \in Int32Of(l[j], req.unit) : f[j] = Element(Within(c, req), req)
      OBVIOUS
    <3> HIDE DEF l
    <3> QED
      BY <2>1, <2>2, <2>3, <3>1, IntsMeant
  <2> HIDE DEF k, values
  <2> QED
    BY <2>2, <2>3, <2>4, HandStep
<1> QED
  BY <1>2, <1>3

LEMMA DoubleArrayStep == ASSUME GetInv, GetDoubleArray PROVE GetInv'
<1>1. PICK req \in Asks("doubles") :
        LET found == ConfigsNamed(req.name) k == Min(found) l == nodes[k].scal IN
        IF found = {} \/ ~Numbers(l, req) THEN LogDie
        ELSE Hand(req, k, {[j \in DOMAIN l |-> InRange(InUnit(l[j], req.unit), req)]}, TRUE)
  BY DEF GetDoubleArray
<1> DEFINE found == ConfigsNamed(req.name)
           k == Min(found)
           l == nodes[k].scal
           v == [j \in DOMAIN l |-> InRange(InUnit(l[j], req.unit), req)]
<1>2. CASE found = {} \/ ~Numbers(l, req)
  BY <1>1, <1>2, Died
<1>3. CASE ~(found = {} \/ ~Numbers(l, req))
  <2>1. AsLoaded /\ req.get = "doubles" /\ IsRequest(req)
    BY Asked DEF GetInv, Getters
  <2>2. k \in DOMAIN nodes /\ IsList(l)
    BY <1>3, <2>1, FoundList
  <2>3. Numbers(l, req) /\ Hand(req, k, {v}, TRUE)
    BY <1>1, <1>3
  <2>4. Meant(req, l, v)
    BY <2>1, <2>2, <2>3, DoublesMeant
  <2> HIDE DEF k, v
  <2> QED
    BY <2>2, <2>3, <2>4, HandAll
<1> QED
  BY <1>2, <1>3

LEMMA KeywordStep == ASSUME GetInv, GetKeyword PROVE GetInv'
<1>1. PICK req \in Asks("keyword") :
        LET found == Typed(req.name, {"key"}) k == Min(found) IN
        IF found = {} \/ ~Match(req.list, FirstScalar(k).v) THEN LogDie
        ELSE Hand(req, k, {<<FirstScalar(k).v>>}, Alone(k))
  BY DEF GetKeyword
<1> DEFINE found == Typed(req.name, {"key"})
           k == Min(found)
           v == <<FirstScalar(k).v>>
<1>2. CASE found = {} \/ ~Match(req.list, FirstScalar(k).v)
  BY <1>1, <1>2, Died
<1>3. CASE ~(found = {} \/ ~Match(req.list, FirstScalar(k).v))
  <2>1. AsLoaded /\ req.get = "keyword"
    BY Asked DEF GetInv, Getters
  <2>2. k \in DOMAIN nodes /\ Alone(k) \in BOOLEAN
    BY <1>3, <2>1, FoundFirst
  <2>3. Hand(req, k, {v}, Alone(k)) /\ Match(req.list, v[1]) /\ v[1] = nodes[k].scal[1].v
    BY <1>1, <1>3 DEF FirstScalar
  <2> HIDE DEF k, v
  <2>4. Meant(req, nodes[k].scal, v)
    BY <2>1, <2>3 DEF Meant
  <2> QED
    BY <2>2, <2>3, <2>4, HandStep
<1> QED
  BY <1>2, <1>3

LEMMA KeywordArrayStep == ASSUME GetInv, GetKeywordArray PROVE GetInv'
<1>1. PICK req \in Asks("keywords") :
        LET found == ConfigsNamed(req.name) k == Min(found) l == nodes[k].scal IN
        IF found = {} \/ ~ListFits(l, req.num, {"key"})
           \/ \E j \in DOMAIN l : ~Match(req.list, l[j].v) THEN LogDie
        ELSE Hand(req, k, {[j \in DOMAIN l |-> l[j].v]}, TRUE)
  BY DEF GetKeywordArray
<1> DEFINE found == ConfigsNamed(req.name)
           k == Min(found)
           l == nodes[k].scal
           refused == found = {} \/ ~ListFits(l, req.num, {"key"})
                      \/ \E j \in DOMAIN l : ~Match(req.list, l[j].v)
           v == [j \in DOMAIN l |-> l[j].v]
<1>2. CASE refused
  BY <1>1, <1>2, Died
<1>3. CASE ~refused
  <2>1. AsLoaded /\ req.get = "keywords"
    BY Asked DEF GetInv, Getters
  <2>2. k \in DOMAIN nodes /\ IsList(l)
    BY <1>3, <2>1, FoundList
  <2>3. Hand(req, k, {v}, TRUE) /\ \A j \in DOMAIN l : Match(req.list, l[j].v)
    BY <1>1, <1>3
  <2>4. Meant(req, l, v)
    BY <2>1, <2>2, <2>3, KeywordsMeant
  <2> HIDE DEF k, v
  <2> QED
    BY <2>2, <2>3, <2>4, HandAll
<1> QED
  BY <1>2, <1>3

LEMMA FlexStep == ASSUME GetInv, GetFlexKeywordArray PROVE GetInv'
<1>1. PICK req \in Asks("flex") :
        LET found == ConfigsNamed(req.name) k == Min(found) l == nodes[k].scal IN
        IF found = {} \/ ~ListFits(l, req.num, {"key"})
           \/ \E j \in DOMAIN l : \/ Part(req.list, j) = << >>
                                  \/ ~Match(Part(req.list, j), l[j].v) THEN LogDie
        ELSE Hand(req, k, {[j \in DOMAIN l |-> l[j].v]}, TRUE)
  BY DEF GetFlexKeywordArray
<1> DEFINE found == ConfigsNamed(req.name)
           k == Min(found)
           l == nodes[k].scal
           refused == found = {} \/ ~ListFits(l, req.num, {"key"})
                      \/ \E j \in DOMAIN l : \/ Part(req.list, j) = << >>
                                             \/ ~Match(Part(req.list, j), l[j].v)
           v == [j \in DOMAIN l |-> l[j].v]
<1>2. CASE refused
  BY <1>1, <1>2, Died
<1>3. CASE ~refused
  <2>1. AsLoaded /\ req.get = "flex" /\ IsRequest(req)
    BY Asked DEF GetInv, Getters
  <2>2. k \in DOMAIN nodes /\ IsList(l)
    BY <1>3, <2>1, FoundList
  <2>3. /\ Hand(req, k, {v}, TRUE)
        /\ \A j \in DOMAIN l : Part(req.list, j) # << >> /\ Match(Part(req.list, j), l[j].v)
    BY <1>1, <1>3
  <2>4. Meant(req, l, v)
    BY <2>1, <2>2, <2>3, FlexMeant
  <2> HIDE DEF k, v
  <2> QED
    BY <2>2, <2>3, <2>4, HandAll
<1> QED
  BY <1>2, <1>3

LEMMA StringStep == ASSUME GetInv, GetString PROVE GetInv'
<1>1. PICK req \in Asks("string") :
        LET found == Typed(req.name, {"string"}) k == Min(found) IN
        IF found = {} THEN LogDie ELSE Hand(req, k, {<<FirstScalar(k).v>>}, Alone(k))
  BY DEF GetString
<1> DEFINE found == Typed(req.name, {"string"})
           k == Min(found)
           v == <<FirstScalar(k).v>>
<1>2. CASE found = {}
  BY <1>1, <1>2, Died
<1>3. CASE found # {}
  <2>1. AsLoaded /\ req.get = "string"
    BY Asked DEF GetInv, Getters
  <2>2. k \in DOMAIN nodes /\ Alone(k) \in BOOLEAN
    BY <1>3, <2>1, FoundFirst
  <2>3. Hand(req, k, {v}, Alone(k)) /\ v[1] = nodes[k].scal[1].v
    BY <1>1, <1>3 DEF FirstScalar
  <2> HIDE DEF k, v
  <2>4. Meant(req, nodes[k].scal, v)
    BY <2>1, <2>3 DEF Meant
  <2> QED
    BY <2>2, <2>3, <2>4, HandStep
<1> QED
  BY <1>2, <1>3

LEMMA BitmaskStep == ASSUME GetInv, GetBitmask PROVE GetInv'
<1>1. PICK req \in Asks("bitmask") :
        LET found == {k \in ConfigsNamed(req.name) : nodes[k].has_bitmask} k == Min(found) IN
        IF found = {} THEN LogDie
        ELSE Hand(req, k, {<<nodes[k].bitmask \cap (req.first..req.last)>>}, TRUE)
  BY DEF GetBitmask
<1> DEFINE found == {k \in ConfigsNamed(req.name) : nodes[k].has_bitmask}
           k == Min(found)
           v == <<nodes[k].bitmask \cap (req.first..req.last)>>
<1>2. CASE found = {}
  BY <1>1, <1>2, Died
<1>3. CASE found # {}
  <2>1. AsLoaded /\ req.get = "bitmask" /\ IsRequest(req)
    BY Asked DEF GetInv, Getters
  <2>2. k \in DOMAIN nodes /\ nodes[k].has_bitmask
    <3>1. found \subseteq DOMAIN nodes
      BY Named
    <3>2. k \in found /\ k \in DOMAIN nodes
      BY <1>3, <2>1, <3>1, Found
    <3> QED
      BY <3>2
  <2>3. Hand(req, k, {v}, TRUE)
    BY <1>1, <1>3
  <2> HIDE DEF k
  <2>4. /\ IsItem(Tree[k]) /\ Loaded(Tree[k]).has_bitmask
        /\ nodes[k].scal = Loaded(Tree[k]).scal /\ nodes[k].bitmask = Loaded(Tree[k]).bitmask
    BY <2>1, <2>2, TreeIs DEF AsLoaded
  <2>5. Meant(req, nodes[k].scal, v)
    BY <2>1, <2>4, BitmaskMeant
  <2> HIDE DEF v
  <2> QED
    BY <2>2, <2>3, <2>5, HandAll
<1> QED
  BY <1>2, <1>3

LEMMA ParamStep == ASSUME GetInv, GetBlockParam PROVE GetInv'
<1>1. PICK req \in Asks("param") :
        /\ block # 0
        /\ LET l == nodes[block].scal at == ParamAt(l, req) j == Min(at) IN
           IF at = {} \/ l[j].t # req.type THEN LogDie
           ELSE /\ gotten' = [req |-> req, node |-> block, values |-> <<l[j].v>>]
                /\ UNCHANGED <<use, nodes, block, given, passed, alive>>
  BY DEF GetBlockParam
<1> DEFINE l == nodes[block].scal
           j == Min(ParamAt(l, req))
           refused == ParamAt(l, req) = {} \/ l[j].t # req.type
<1>2. CASE refused
  BY <1>1, <1>2, Died
<1>3. CASE ~refused
  <2>1. AsLoaded /\ req.get = "param" /\ IsRequest(req)
    BY Asked DEF GetInv, Getters
  <2>2. block \in DOMAIN nodes /\ IsList(l)
    <3>1. block \in DOMAIN nodes
      BY <1>1 DEF GetInv, InTree
    <3> QED
      BY <2>1, <3>1, ScalarsAreList
  <2>3. ParamAt(l, req) # {} /\ l[j].t = req.type
    BY <1>3
  <2>4. Meant(req, l, <<l[j].v>>)
    BY <2>1, <2>2, <2>3, ParamMeant
  <2>5. /\ gotten' = [req |-> req, node |-> block, values |-> <<l[j].v>>]
        /\ UNCHANGED <<use, nodes, block, given, passed>>
    BY <1>1, <1>3
  <2>6. /\ gotten'.req = req /\ gotten'.node = block /\ gotten'.values = <<l[j].v>>
        /\ nodes' = nodes /\ use' = use /\ block' = block /\ given' = given /\ passed' = passed
    BY <2>5
  <2>7. AsLoaded' /\ TouchedIsGiven'
    BY <2>6 DEF GetInv, AsLoaded, TouchedIsGiven, Tree, Alone
  <2>8. InTree'
    BY <2>2, <2>6 DEF GetInv, InTree
  <2>9. GotIsMeant'
    BY <2>4, <2>6 DEF GotIsMeant
  <2>10. PassedIsTouched'
    BY <2>6, SameChecked DEF GetInv, PassedIsTouched
  <2> QED
    BY <2>7, <2>8, <2>9, <2>10 DEF GetInv
<1> QED
  BY <1>2, <1>3

LEMMA BlockStep == ASSUME GetInv, GetBlock PROVE GetInv'
<1>1. PICK req \in Asks("block") :
        /\ BlocksNamed(block, req.name) # {}
        /\ Enter(Min(BlocksNamed(block, req.name)))
  BY DEF GetBlock
<1> DEFINE k == Min(BlocksNamed(block, req.name))
<1>2. k \in DOMAIN nodes /\ nodes[k].kind = "block" /\ Enter(k)
  BY <1>1, Named, Found DEF GetInv
<1> HIDE DEF k
<1> QED
  BY <1>2, EnterStep

LEMMA BlockNextStep == ASSUME GetInv, GetBlockNext PROVE GetInv'
<1>1. PICK req \in Asks("block") :
        LET after == {k \in BlocksNamed(nodes[block].in, req.name) : k > block} IN
        after # {} /\ Enter(Min(after))
  BY DEF GetBlockNext
<1> DEFINE after == {k \in BlocksNamed(nodes[block].in, req.name) : k > block}
           k == Min(after)
<1>2. after \subseteq DOMAIN nodes /\ \A j \in after : nodes[j].kind = "block"
  BY Named
<1>3. after # {} /\ Enter(k)
  BY <1>1
<1> HIDE DEF after
<1>4. k \in DOMAIN nodes /\ nodes[k].kind = "block"
  BY <1>2, <1>3, Found DEF GetInv
<1> HIDE DEF k
<1> QED
  BY <1>3, <1>4, EnterStep

LEMMA LeaveStep == ASSUME GetInv, Leave PROVE GetInv'
<1>1. block \in DOMAIN nodes
  BY DEF GetInv, InTree, Leave
<1>2. block' \in DOMAIN nodes \cup {0}
  BY <1>1, TreeIs DEF GetInv, Leave
<1> QED
  BY <1>2, InvKept DEF Leave

LEMMA AssertStep == ASSUME GetInv, TouchedAssert PROVE GetInv'
<1>1. PICK recurse \in BOOLEAN :
        IF \A k \in Checked(block, recurse) : nodes[k].touched
        THEN /\ passed' = passed \cup {[block |-> block, recurse |-> recurse]}
             /\ UNCHANGED <<use, nodes, block, gotten, given, alive>>
        ELSE LogDie
  BY DEF TouchedAssert
<1>2. CASE \A k \in Checked(block, recurse) : nodes[k].touched
  <2>1. /\ passed' = passed \cup {[block |-> block, recurse |-> recurse]}
        /\ UNCHANGED <<use, nodes, block, gotten, given>>
    BY <1>1, <1>2
  <2>2. AsLoaded' /\ InTree' /\ TouchedIsGiven' /\ GotIsMeant'
    BY <2>1 DEF GetInv, AsLoaded, InTree, TouchedIsGiven, GotIsMeant, Tree, Alone
  <2>3. PassedIsTouched'
    <3> SUFFICES ASSUME NEW p \in passed', NEW k \in Checked(p.block, p.recurse)
                 PROVE  nodes[k].touched
      BY <2>1, SameChecked DEF PassedIsTouched
    <3>1. CASE p \in passed
      BY <3>1 DEF GetInv, PassedIsTouched
    <3>2. CASE p = [block |-> block, recurse |-> recurse]
      BY <1>2, <3>2
    <3> QED
      BY <2>1, <3>1, <3>2
  <2> QED
    BY <2>2, <2>3 DEF GetInv
<1>3. CASE ~(\A k \in Checked(block, recurse) : nodes[k].touched)
  BY <1>1, <1>3, Died
<1> QED
  BY <1>2, <1>3

-----------------------------------------------------------------------------
(* A tree that has just been loaded.                                       *)
LEMMA GetInitInv == ASSUME GetInit PROVE GetInv
<1>1. PICK n \in DOMAIN Uses : Use(n)
  BY DEF GetInit
<1>2. /\ use = n /\ nodes = [k \in DOMAIN Tree |-> Loaded(Tree[k])]
      /\ block = 0 /\ gotten = NothingGot /\ passed = {}
  BY <1>1 DEF Use, Tree
<1>3. DOMAIN nodes = DOMAIN Tree /\ \A k \in DOMAIN nodes : nodes[k] = Loaded(Tree[k])
  BY <1>2
<1>4. AsLoaded
  BY <1>1, <1>2, <1>3 DEF AsLoaded, Loaded, Fields
<1>5. TouchedIsGiven
  BY <1>3 DEF TouchedIsGiven, Loaded
<1>6. gotten.req.get = "none"
  BY <1>2 DEF NothingGot
<1> QED
  BY <1>2, <1>4, <1>5, <1>6 DEF GetInv, InTree, PassedIsTouched, GotIsMeant, Meant

-----------------------------------------------------------------------------
(* Results.                                                                *)

(* Every value the program has got is the one the file has for it, marked  *)
(* items were taken, and what passed stays marked (config_get_...,         *)
(* config_touched_assert), for every tree and every request.               *)
THEOREM GettersKeepInv == GetSpec => []GetInv
<1>1. ASSUME GetInv, [GetNext]_getVars PROVE GetInv'
  <2>1. CASE UNCHANGED getVars
    <3>1. block' \in DOMAIN nodes \cup {0} /\ UNCHANGED <<use, nodes, gotten, given, passed>>
      BY <1>1, <2>1 DEF getVars, GetInv, InTree
    <3> QED
      BY <1>1, <3>1, InvKept
  <2>2. CASE GetNext
    BY <1>1, <2>2, IntStep, DoubleStep, IntArrayStep, DoubleArrayStep, KeywordStep,
       KeywordArrayStep, FlexStep, StringStep, BitmaskStep, ParamStep, BlockStep,
       BlockNextStep, LeaveStep, AssertStep DEF GetNext
  <2> QED
    BY <1>1, <2>1, <2>2
<1> QED
  BY GetInitInv, <1>1, PTL DEF GetSpec

(* A getter gives the program what the file says for the index it asked    *)
(* about, in its unit, but for the conversions GotIsMeant names (the       *)
(* getters of config.c).                                                   *)
THEOREM GotAsMeant == GetSpec => []GotIsMeant
  BY GettersKeepInv, PTL DEF GetInv

(* No setting of a block that passed is unread, and with recursion nothing *)
(* in it is (config_touched_assert, touched_traverse), but for the later   *)
(* values of a list read as one.                                           *)
THEOREM UnusedReported == GetSpec => []UnusedIsReported
<1>1. ASSUME GetInv PROVE UnusedIsReported
  <2>1. ASSUME NEW p \in passed, NEW k \in Checked(p.block, p.recurse)
        PROVE  /\ nodes[k].touched
               /\ nodes[k].kind = "config" => k \in given \/ OnlyFirst(k)
    <3>1. k \in DOMAIN nodes
      BY BelowIsIn DEF Checked, Visited, Under, InBlockAt
    <3>2. nodes[k].touched
      BY <1>1 DEF GetInv, PassedIsTouched
    <3>3. nodes[k].kind = "config" => k \in given \/ ~Alone(k)
      BY <1>1, <3>1, <3>2, Zenon DEF GetInv, TouchedIsGiven
    <3> QED
      BY <3>2, <3>3, Zenon DEF OnlyFirst
  <2>2. ASSUME NEW p \in passed, NEW k \in InBlockAt(p.block), nodes[k].kind = "config"
        PROVE  k \in Checked(p.block, p.recurse)
    BY <2>2 DEF Checked, Visited, Under
  <2>3. ASSUME NEW p \in passed, p.recurse, NEW k \in Under(p.block)
        PROVE  k \in Checked(p.block, p.recurse)
    BY <2>3 DEF Checked, Visited
  <2> QED
    BY <2>1, <2>2, <2>3 DEF UnusedIsReported
<1> QED
  BY <1>1, GettersKeepInv, PTL

-----------------------------------------------------------------------------
(* Lists.                                                                  *)

(* A sequence of anything is a list.                                       *)
LEMMA SeqIsList ==
    ASSUME NEW S, NEW l \in Seq(S) PROVE AList(l)
BY DEF AList, ToSet

(* Its length and its elements.                                            *)
LEMMA ListIs ==
    ASSUME NEW l, AList(l)
    PROVE  /\ Len(l) \in Nat /\ DOMAIN l = 1..Len(l)
           /\ l = << >> <=> Len(l) = 0
BY DEF AList

(* m2 goes on where m1 ends.                                               *)
Extends(m1, m2) ==
    /\ AList(m2) /\ Len(m1) <= Len(m2)
    /\ \A i \in 1..Len(m1) : m2[i] = m1[i]

(* A token more.                                                           *)
LEMMA OneMore ==
    ASSUME NEW m, AList(m), NEW x
    PROVE  /\ Extends(m, m \o <<x>>)
           /\ Len(m \o <<x>>) = Len(m) + 1 /\ (m \o <<x>>)[Len(m) + 1] = x
<1> DEFINE S == ToSet(m) \cup {x}
<1>1. m \in Seq(S) /\ <<x>> \in Seq(S) /\ Len(<<x>>) = 1 /\ <<x>>[1] = x
  BY DEF AList
<1> HIDE DEF S
<1>2. /\ m \o <<x>> \in Seq(S) /\ Len(m \o <<x>>) = Len(m) + 1 /\ Len(m) \in Nat
      /\ \A i \in 1..(Len(m) + 1) :
           (m \o <<x>>)[i] = IF i <= Len(m) THEN m[i] ELSE <<x>>[i - Len(m)]
  BY <1>1, ConcatProperties
<1>3. AList(m \o <<x>>)
  BY <1>2, SeqIsList
<1>4. (m \o <<x>>)[Len(m) + 1] = x
  BY <1>1, <1>2
<1> QED
  BY <1>2, <1>3, <1>4 DEF Extends

(* Two tokens more.                                                        *)
LEMMA TwoMore ==
    ASSUME NEW m, AList(m), NEW x, NEW y
    PROVE  /\ Extends(m, m \o <<x, y>>)
           /\ Len(m \o <<x, y>>) = Len(m) + 2
           /\ (m \o <<x, y>>)[Len(m) + 1] = x /\ (m \o <<x, y>>)[Len(m) + 2] = y
<1> DEFINE S == ToSet(m) \cup {x, y}
<1>1. m \in Seq(S) /\ <<x, y>> \in Seq(S) /\ Len(<<x, y>>) = 2
      /\ <<x, y>>[1] = x /\ <<x, y>>[2] = y
  BY DEF AList
<1> HIDE DEF S
<1>2. /\ m \o <<x, y>> \in Seq(S) /\ Len(m \o <<x, y>>) = Len(m) + 2 /\ Len(m) \in Nat
      /\ \A i \in 1..(Len(m) + 2) :
           (m \o <<x, y>>)[i] = IF i <= Len(m) THEN m[i] ELSE <<x, y>>[i - Len(m)]
  BY <1>1, ConcatProperties
<1>3. AList(m \o <<x, y>>)
  BY <1>2, SeqIsList
<1>4. (m \o <<x, y>>)[Len(m) + 1] = x /\ (m \o <<x, y>>)[Len(m) + 2] = y
  BY <1>1, <1>2
<1> QED
  BY <1>2, <1>3, <1>4 DEF Extends

(* No token more.                                                          *)
LEMMA NoneMore ==
    ASSUME NEW m, AList(m)
    PROVE  Extends(m, m \o << >>) /\ Len(m \o << >>) = Len(m)
<1>1. m \o << >> = m
  BY DEF AList
<1> QED
  BY <1>1, ListIs DEF Extends

(* What is left of a list.                                                 *)
Suffix(l, n) == SubSeq(l, n + 1, Len(l))

LEMMA SuffixIs ==
    ASSUME NEW l, AList(l), NEW n \in 0..Len(l)
    PROVE  /\ AList(Suffix(l, n)) /\ Len(Suffix(l, n)) = Len(l) - n
           /\ \A i \in 1..(Len(l) - n) : Suffix(l, n)[i] = l[n + i]
           /\ Suffix(l, n) = << >> <=> n = Len(l)
<1> DEFINE S == ToSet(l)
<1>1. l \in Seq(S)
  BY DEF AList
<1> HIDE DEF S
<1>2. n + 1 \in 1..(Len(l) + 1) /\ Len(l) \in Nat
  BY <1>1
<1>3. /\ SubSeq(l, n + 1, Len(l)) \in Seq(S) /\ Len(SubSeq(l, n + 1, Len(l))) = Len(l) - n
      /\ \A i \in 1..(Len(l) - n) : SubSeq(l, n + 1, Len(l))[i] = l[n + i]
  BY <1>1, <1>2
<1>4. AList(SubSeq(l, n + 1, Len(l)))
  BY <1>3, SeqIsList
<1>5. SubSeq(l, n + 1, Len(l)) = << >> <=> n = Len(l)
  <2> DEFINE q == SubSeq(l, n + 1, Len(l))
  <2>1. AList(q) /\ Len(q) = Len(l) - n
    BY <1>3, <1>4
  <2> HIDE DEF q
  <2>2. q = << >> <=> Len(q) = 0
    BY <2>1, ListIs
  <2>3. q = << >> <=> n = Len(l)
    BY <1>2, <2>1, <2>2
  <2> QED
    BY <2>3 DEF q
<1> QED
  BY <1>3, <1>4, <1>5 DEF Suffix

(* The suffixes of a suffix, its head and its tail.                        *)
LEMMA SuffixOf ==
    ASSUME NEW l, AList(l), NEW n \in 0..Len(l), NEW d \in 0..(Len(l) - n)
    PROVE  SubSeq(Suffix(l, n), d + 1, Len(Suffix(l, n))) = Suffix(l, n + d)
<1>1. Len(l) \in Nat /\ n + d \in 0..Len(l)
  BY ListIs
<1>2. d \in 0..Len(Suffix(l, n)) /\ AList(Suffix(l, n))
  BY <1>1, SuffixIs
<1> DEFINE a == Suffix(Suffix(l, n), d)
           b == Suffix(l, n + d)
<1>3. AList(a) /\ AList(b) /\ Len(a) = Len(l) - n - d /\ Len(b) = Len(l) - n - d
  BY <1>1, <1>2, SuffixIs
<1>4. ASSUME NEW i \in 1..(Len(l) - n - d) PROVE a[i] = b[i]
  <2>1. a[i] = Suffix(l, n)[d + i]
    BY <1>1, <1>2, SuffixIs
  <2>2. d + i \in 1..(Len(l) - n)
    BY <1>1
  <2>3. Suffix(l, n)[d + i] = l[n + (d + i)]
    BY <2>2, SuffixIs
  <2>4. b[i] = l[(n + d) + i]
    BY <1>1, SuffixIs
  <2>5. n + (d + i) = (n + d) + i
    BY <1>1
  <2> QED
    BY <2>1, <2>3, <2>4, <2>5
<1> HIDE DEF a, b
<1>5. a = b
  <2>1. a \in Seq(ToSet(a)) /\ b \in Seq(ToSet(b)) /\ Len(a) = Len(b)
    BY <1>3 DEF AList
  <2>2. \A i \in 1..Len(a) : a[i] = b[i]
    BY <1>3, <1>4
  <2> QED
    BY <2>1, <2>2
<1> QED
  BY <1>5 DEF a, b, Suffix

LEMMA SuffixTail ==
    ASSUME NEW l, AList(l), NEW n \in Nat, n < Len(l)
    PROVE  /\ Suffix(l, n) # << >> /\ Head(Suffix(l, n)) = l[n + 1]
           /\ Tail(Suffix(l, n)) = Suffix(l, n + 1)
<1>1. n \in 0..Len(l) /\ 1 \in 0..(Len(l) - n) /\ Len(l) \in Nat
  BY ListIs
<1>2. SubSeq(Suffix(l, n), 2, Len(Suffix(l, n))) = Suffix(l, n + 1)
  <2>1. SubSeq(Suffix(l, n), 1 + 1, Len(Suffix(l, n))) = Suffix(l, n + 1)
    BY <1>1, SuffixOf
  <2> QED
    BY <2>1
<1>3. AList(Suffix(l, n)) /\ Suffix(l, n) # << >> /\ Suffix(l, n)[1] = l[n + 1]
  BY <1>1, SuffixIs
<1>4. Tail(Suffix(l, n)) = SubSeq(Suffix(l, n), 2, Len(Suffix(l, n)))
  BY <1>3 DEF AList
<1> QED
  BY <1>2, <1>3, <1>4 DEF AList

(* Lists of one and of two.                                                *)
LEMMA Single ==
    ASSUME NEW a
    PROVE  /\ AList(<<a>>) /\ <<a>> # << >> /\ Len(<<a>>) = 1 /\ <<a>>[1] = a
           /\ Last(<<a>>) = a /\ Append(<< >>, a) = <<a>>
           /\ SubSeq(<<a>>, 1, 0) = << >>
<1>1. <<a>> \in Seq({a}) /\ Len(<<a>>) = 1 /\ <<a>> # << >> /\ <<a>>[1] = a
  OBVIOUS
<1>2. Append(<< >>, a) = <<a>> /\ SubSeq(<<a>>, 1, 0) = << >>
  BY <1>1
<1> QED
  BY <1>1, <1>2, SeqIsList DEF Last

LEMMA Two ==
    ASSUME NEW a, NEW b
    PROVE  /\ AList(<<a, b>>) /\ <<a, b>> # << >> /\ Len(<<a, b>>) = 2
           /\ <<a, b>>[1] = a /\ <<a, b>>[2] = b /\ Last(<<a, b>>) = b
           /\ Append(<<a>>, b) = <<a, b>>
           /\ SubSeq(<<a, b>>, 1, 1) = <<a>> /\ Front(<<a, b>>) = <<a>>
<1> DEFINE S == {a, b}
<1>1. <<a>> \in Seq(S) /\ <<a, b>> \in Seq(S)
  OBVIOUS
<1>2. /\ Len(<<a>>) = 1 /\ Len(<<a, b>>) = 2 /\ <<a>>[1] = a
      /\ <<a, b>>[1] = a /\ <<a, b>>[2] = b /\ <<a, b>> # << >>
  OBVIOUS
<1>3. Append(<<a>>, b) = <<a, b>>
  <2>1. Append(<<a>>, b) \in Seq(S) /\ Len(Append(<<a>>, b)) = 2
        /\ Append(<<a>>, b)[1] = a /\ Append(<<a>>, b)[2] = b
    BY <1>1, <1>2, AppendProperties
  <2> DEFINE q == Append(<<a>>, b)
             r == <<a, b>>
  <2>2. q \in Seq(S) /\ r \in Seq(S) /\ Len(q) = Len(r) /\ \A i \in 1..Len(q) : q[i] = r[i]
    BY <1>1, <1>2, <2>1
  <2> HIDE DEF q, r
  <2>3. q = r
    BY <2>2
  <2> QED
    BY <2>3 DEF q, r
<1>4. SubSeq(<<a, b>>, 1, 1) = <<a>>
  <2>1. SubSeq(<<a, b>>, 1, 1) \in Seq(S) /\ Len(SubSeq(<<a, b>>, 1, 1)) = 1
        /\ SubSeq(<<a, b>>, 1, 1)[1] = a
    BY <1>1, <1>2
  <2> DEFINE q == SubSeq(<<a, b>>, 1, 1)
             r == <<a>>
  <2>2. q \in Seq(S) /\ r \in Seq(S) /\ Len(q) = Len(r) /\ \A i \in 1..Len(q) : q[i] = r[i]
    BY <1>1, <1>2, <2>1
  <2> HIDE DEF q, r
  <2>3. q = r
    BY <2>2
  <2> QED
    BY <2>3 DEF q, r
<1>5. Last(<<a, b>>) = b
  BY <1>2 DEF Last
<1>6. Front(<<a, b>>) = <<a>>
  BY <1>2, <1>4 DEF Front
<1>7. AList(<<a, b>>)
  BY <1>1, SeqIsList
<1> QED
  BY <1>2, <1>3, <1>4, <1>5, <1>6, <1>7

LEMMA Changed ==
    ASSUME NEW a, NEW b, NEW c
    PROVE  /\ [<<a>> EXCEPT ![1] = c] = <<c>>
           /\ [<<a, b>> EXCEPT ![2] = c] = <<a, c>>
OBVIOUS

-----------------------------------------------------------------------------
(* Runs of scalars.                                                        *)

(* A run of clones is in the list, and its scalars are clones.             *)
LEMMA ClonesAre ==
    ASSUME NEW l, AList(l), l # << >>
    PROVE  /\ Clones(l, 1) \in 1..Len(l)
           /\ \A j \in 1..(Clones(l, 1) - 1) :
                Same(l[1], l[j + 1]) /\ l[j + 1].i = l[j].i + 1
<1> DEFINE ok == {n \in 2..DupMax :
                   /\ 1 + n - 1 <= Len(l)
                   /\ \A j \in 1..(1 + n - 2) :
                        Same(l[1], l[j + 1]) /\ l[j + 1].i = l[j].i + 1}
           most == CHOOSE n \in ok : \A o \in ok : o <= n
           T == {DupMax - n : n \in ok}
<1>1. Clones(l, 1) = IF ok = {} THEN 1 ELSE most
  BY DEF Clones
<1>2. DupMax \in Nat /\ Len(l) \in Nat /\ Len(l) >= 1
  BY PackAssumption, ListIs
<1>3. CASE ok = {}
  BY <1>1, <1>2, <1>3
<1>4. CASE ok # {}
  <2>1. T \subseteq Nat /\ T # {}
    BY <1>2, <1>4
  <2>2. PICK m \in T : \A x \in T : m <= x
    BY <2>1, MinIsLeast
  <2>3. PICK n \in ok : m = DupMax - n
    BY <2>2
  <2>4. \A o \in ok : o <= n
    <3>1. ASSUME NEW o \in ok PROVE o <= n
      <4>1. DupMax - o \in T /\ o \in 2..DupMax /\ n \in 2..DupMax
        BY <2>3
      <4>2. m <= DupMax - o
        BY <2>2, <4>1
      <4> QED
        BY <1>2, <2>3, <4>1, <4>2
    <3> QED
      BY <3>1
  <2> HIDE DEF ok
  <2>5. most \in ok
    BY <2>4
  <2> USE DEF ok
  <2>6. most \in 2..DupMax /\ 1 + most - 1 <= Len(l)
        /\ \A j \in 1..(1 + most - 2) : Same(l[1], l[j + 1]) /\ l[j + 1].i = l[j].i + 1
    BY <2>5
  <2> HIDE DEF ok, most
  <2>7. most \in Nat /\ 1 + most - 1 = most /\ 1 + most - 2 = most - 1 /\ 1 <= most
    BY <1>2, <2>6
  <2> QED
    BY <1>1, <1>2, <1>4, <2>6, <2>7
<1> QED
  BY <1>3, <1>4

(* So is a run of different scalars; at most its last is left out.         *)
LEMMA RunIs ==
    ASSUME NEW l, AList(l), l # << >>
    PROVE  /\ Announces(l, 1) \in 1..Len(l)
           /\ Carried(Announces(l, 1)) \in 1..Announces(l, 1)
           /\ Announces(l, 1) - Carried(Announces(l, 1)) \in {0, 1}
<1> DEFINE ends == {j \in 1..Len(l) : j = Len(l) \/ Same(l[j], l[j + 1])}
           least == CHOOSE j \in ends : \A o \in ends : j <= o
<1>1. Len(l) \in Nat /\ Len(l) >= 1 /\ RawMax \in Nat /\ RawMax > 1
  BY PackAssumption, ListIs
<1>2. ends \subseteq Nat /\ Len(l) \in ends
  BY <1>1
<1>3. \E j \in ends : \A o \in ends : j <= o
  BY <1>2, MinIsLeast
<1>4. least \in ends
  BY <1>3
<1>5. RawLen(l, 1) = least - 1 + 1
  BY DEF RawLen
<1>6. least \in 1..Len(l)
  BY <1>4
<1> HIDE DEF least
<1>7. RawLen(l, 1) \in 1..Len(l)
  BY <1>1, <1>5, <1>6
<1> QED
  BY <1>1, <1>7 DEF Announces, Carried

(* Clones differ in their indices only.                                    *)
LEMMA CloneIs ==
    ASSUME NEW l, Given(l), NEW c \in Nat, c < Len(l), NEW n, n = Clones(Suffix(l, c), 1),
           n > 1
    PROVE  /\ n \in Nat /\ c + n <= Len(l) /\ AList(l) /\ l # <<Empty>>
           /\ \A j \in 1..n : l[c + j] = [l[c + 1] EXCEPT !.i = l[c + 1].i + j - 1]
<1>0. AList(l)
  <2>1. <<Empty>> \in Seq({Empty})
    OBVIOUS
  <2> QED
    BY <2>1, SeqIsList DEF Given
<1>1. /\ Len(l) \in Nat /\ AList(Suffix(l, c)) /\ Len(Suffix(l, c)) = Len(l) - c
      /\ \A i \in 1..(Len(l) - c) : Suffix(l, c)[i] = l[c + i]
      /\ Suffix(l, c) # << >>
  <2>1. Len(l) \in Nat /\ c \in 0..Len(l) /\ c # Len(l)
    BY <1>0, ListIs
  <2> QED
    BY <1>0, <2>1, SuffixIs
<1>2. /\ n \in 1..(Len(l) - c)
      /\ \A j \in 1..(n - 1) : /\ Same(Suffix(l, c)[1], Suffix(l, c)[j + 1])
                               /\ Suffix(l, c)[j + 1].i = Suffix(l, c)[j].i + 1
  BY <1>1, ClonesAre
<1>3. n \in Nat /\ c + n <= Len(l)
  BY <1>1, <1>2
<1>4. l # <<Empty>>
  <2>1. Len(<<Empty>>) = 1 /\ ~(c + n <= 1)
    BY <1>3
  <2> QED
    BY <1>3, <2>1
<1>5. \A k \in 1..Len(l) : l[k] = [t |-> l[k].t, v |-> l[k].v, i |-> l[k].i] /\ l[k].i \in Nat
  BY <1>4 DEF Given
<1>6. ASSUME NEW j \in 1..(n - 1)
      PROVE  Same(l[c + 1], l[c + j + 1]) /\ l[c + j + 1].i = l[c + j].i + 1
  <2>1. j \in 1..(Len(l) - c) /\ j + 1 \in 1..(Len(l) - c) /\ 1 \in 1..(Len(l) - c)
        /\ c + (j + 1) = c + j + 1
    BY <1>1, <1>3
  <2> QED
    BY <1>1, <1>2, <2>1
<1> DEFINE Bad == {j \in 1..n : l[c + j].i # l[c + 1].i + j - 1}
<1>7. Bad = {}
  <2> SUFFICES ASSUME Bad # {} PROVE FALSE
    OBVIOUS
  <2>1. PICK j \in Bad : \A x \in Bad : j <= x
    <3>1. Bad \subseteq Nat
      BY <1>3
    <3> QED
      BY <3>1, MinIsLeast
  <2>2. l[c + 1].i \in Nat
    <3>1. c + 1 \in 1..Len(l)
      BY <1>1
    <3> QED
      BY <3>1, <1>5
  <2>3. j # 1
    BY <2>1, <2>2
  <2>4. j - 1 \in 1..(n - 1) /\ j - 1 \in 1..n /\ j \in Nat
    <3>1. j \in 1..n
      BY <2>1
    <3> HIDE DEF Bad
    <3> QED
      BY <1>3, <2>3, <3>1
  <2>5. j - 1 \notin Bad
    BY <2>1, <2>4
  <2>6. l[c + (j - 1)].i = l[c + 1].i + (j - 1) - 1
    BY <2>4, <2>5
  <2>7. l[c + (j - 1) + 1].i = l[c + (j - 1)].i + 1
    BY <1>6, <2>4
  <2>8. c + (j - 1) + 1 = c + j
    BY <2>4
  <2>9. l[c + j].i # l[c + 1].i + j - 1
    BY <2>1
  <2>10. l[c + j].i = l[c + 1].i + (j - 1) - 1 + 1
    BY <2>6, <2>7, <2>8
  <2>11. \A x \in Nat : x + (j - 1) - 1 + 1 = x + j - 1
    BY <2>4
  <2> QED
    BY <2>2, <2>9, <2>10, <2>11, Zenon
<1>8. ASSUME NEW j \in 1..n PROVE l[c + j] = [l[c + 1] EXCEPT !.i = l[c + 1].i + j - 1]
  <2>1. l[c + j].i = l[c + 1].i + j - 1
    BY <1>7
  <2>2. c + j \in 1..Len(l) /\ c + 1 \in 1..Len(l) /\ j \in Nat /\ j >= 1
    BY <1>1, <1>3
  <2>3. Same(l[c + 1], l[c + j])
    <3>1. CASE j = 1
      BY <3>1 DEF Same
    <3>2. CASE j # 1
      <4>1. j - 1 \in 1..(n - 1) /\ c + (j - 1) + 1 = c + j
        BY <1>3, <2>2, <3>2
      <4> QED
        BY <1>6, <4>1
    <3> QED
      BY <3>1, <3>2
  <2>4. l[c + j] = [t |-> l[c + 1].t, v |-> l[c + 1].v, i |-> l[c + 1].i + j - 1]
    BY <1>5, <2>1, <2>2, <2>3 DEF Same
  <2>5. l[c + 1] = [t |-> l[c + 1].t, v |-> l[c + 1].v, i |-> l[c + 1].i]
    BY <1>5, <2>2
  <2> QED
    BY <2>4, <2>5
<1> QED
  BY <1>0, <1>3, <1>4, <1>8

-----------------------------------------------------------------------------
(* Places of a list, for the packer and for the reader. At depth 1 k items *)
(* are done, at depth 2 so are j items of the block after them; of the     *)
(* next item c scalars are done, of a raw run "run" are to come and "lost" *)
(* are announced and left out; pos tokens are before the place, and ref is *)
(* the reader's.                                                           *)
Place == [ph : {"start", "num", "item", "run", "raw"}, depth : {1, 2}, k : Nat, j : Nat,
          c : Nat, run : Nat, lost : Nat, ref : Nat, pos : Nat]
PlaceFields == {"ph", "depth", "k", "j", "c", "run", "lost", "ref", "pos"}
Origin == [ph |-> "start", depth |-> 1, k |-> 0, j |-> 0, c |-> 0, run |-> 0, lost |-> 0,
           ref |-> 1, pos |-> 0]

ListAt(s, L) == IF L.depth = 1 THEN s ELSE s[L.k + 1].sub
DoneAt(L) == IF L.depth = 1 THEN L.k ELSE L.j
Cur(s, L) == ListAt(s, L)[DoneAt(L) + 1]
Remains(s, L) == DoneAt(L) < Len(ListAt(s, L))
Rest(s, L) == Suffix(Cur(s, L).scal, L.c)

(* A list without parameters of blocks, of those a user writes.            *)
Usual(s) ==
    AList(s) /\ \A n \in 1..Len(s) : IsConfig(s[n]) \/ (IsBlock(s[n]) /\ s[n].scal = << >>)

Shape(s, L) ==
    /\ L \in Place
    /\ L.depth = 1 => L.j = 0 /\ L.k <= Len(s)
    /\ L.depth = 2 => /\ L.k < Len(s) /\ s[L.k + 1].kind = "block"
                      /\ L.j <= Len(s[L.k + 1].sub)
    /\ L.ph = "start" => L = Origin
    /\ L.ph = "num" => L.depth = 1 /\ L.k < Len(s) /\ s[L.k + 1].kind = "block"
    /\ L.ph \in {"run", "raw"} =>
         /\ Remains(s, L) /\ L.c <= Len(Cur(s, L).scal)
         /\ 1 <= L.ref /\ L.ref <= L.c + 1
    /\ L.ph = "raw" =>
         /\ L.c + L.run + L.lost <= Len(Cur(s, L).scal)
         /\ L.run + L.lost >= 1

(* How packing and reading go on.                                          *)
ToItems(s, L, M) ==
    /\ L.ph \in {"start", "num"}
    /\ M = [L EXCEPT !.ph = "item", !.depth = IF L.ph = "num" THEN 2 ELSE 1, !.pos = @ + 1]
ToRun(s, L, M) ==
    /\ L.ph = "item" /\ Remains(s, L)
    /\ M = [L EXCEPT !.ph = "run", !.c = 0, !.ref = 1, !.pos = @ + 1]
OverClones(s, L, M) ==
    /\ L.ph = "run" /\ L.c < Len(Cur(s, L).scal) /\ Clones(Rest(s, L), 1) > 1
    /\ M = [L EXCEPT !.c = @ + Clones(Rest(s, L), 1),
                     !.ref = @ + Clones(Rest(s, L), 1) - 1, !.pos = @ + 2]
ToRaw(s, L, M) ==
    /\ L.ph = "run" /\ L.c < Len(Cur(s, L).scal) /\ Clones(Rest(s, L), 1) = 1
    /\ LET n == Announces(Rest(s, L), 1) IN
       M = [L EXCEPT !.ph = "raw", !.run = Carried(n), !.lost = n - Carried(n),
                     !.pos = @ + 1]
OverScalar(s, L, M) ==
    /\ L.ph = "raw" /\ L.run > 0
    /\ M = [L EXCEPT !.ph = IF L.run + L.lost = 1 THEN "run" ELSE "raw",
                     !.c = @ + 1, !.run = @ - 1, !.pos = @ + 1,
                     !.ref = IF Cur(s, L).scal[L.c + 1].t = "empty" THEN @ ELSE @ + 1]
ToBlock(s, L, M) ==
    /\ L.ph = "run" /\ L.c = Len(Cur(s, L).scal) /\ Cur(s, L).kind = "block"
    /\ M = [L EXCEPT !.ph = "num"]
OverConfig(s, L, M) ==
    /\ L.ph = "run" /\ L.c = Len(Cur(s, L).scal) /\ Cur(s, L).kind = "config"
    /\ M = IF L.depth = 1 THEN [L EXCEPT !.ph = "item", !.k = @ + 1]
           ELSE [L EXCEPT !.ph = "item", !.j = @ + 1]
OverBlock(s, L, M) ==
    /\ L.ph = "item" /\ L.depth = 2 /\ ~Remains(s, L)
    /\ M = [L EXCEPT !.depth = 1, !.k = @ + 1, !.j = 0]

Leads(s, L, M) ==
    \/ ToItems(s, L, M) \/ ToRun(s, L, M) \/ OverClones(s, L, M) \/ ToRaw(s, L, M)
    \/ OverScalar(s, L, M) \/ ToBlock(s, L, M) \/ OverConfig(s, L, M) \/ OverBlock(s, L, M)

Final(s, L) == L.ph = "item" /\ L.depth = 1 /\ ~Remains(s, L)
Broken(L) == L.ph = "raw" /\ L.run = 0

(* The items of such a list.                                               *)
LEMMA ItemsAre ==
    ASSUME NEW s, Usual(s), NEW L, Shape(s, L)
    PROVE  /\ AList(s) /\ Len(s) \in Nat
           /\ AList(ListAt(s, L)) /\ Len(ListAt(s, L)) \in Nat
           /\ DoneAt(L) \in 0..Len(ListAt(s, L))
           /\ L.depth = 2 => IsBlock(s[L.k + 1]) /\ L.k + 1 \in 1..Len(s)
<1>0. AList(s) /\ Len(s) \in Nat /\ L \in Place
  BY ListIs DEF Usual, Shape
<1>1. CASE L.depth = 1
  BY <1>0, <1>1, ListIs DEF Shape, Place, ListAt, DoneAt
<1>2. CASE L.depth = 2
  <2>1. L.k + 1 \in 1..Len(s) /\ s[L.k + 1].kind = "block" /\ L.k \in Nat /\ L.j \in Nat
    BY <1>0, <1>2 DEF Shape, Place
  <2>2. IsBlock(s[L.k + 1])
    BY <2>1 DEF Usual, IsConfig
  <2>3. AList(s[L.k + 1].sub)
    BY <2>2 DEF IsBlock
  <2>4. Len(s[L.k + 1].sub) \in Nat /\ L.j <= Len(s[L.k + 1].sub)
    BY <2>3, <1>2, ListIs DEF Shape
  <2> QED
    BY <1>0, <1>2, <2>1, <2>2, <2>3, <2>4 DEF ListAt, DoneAt
<1> QED
  BY <1>0, <1>1, <1>2 DEF Place

LEMMA CurIs ==
    ASSUME NEW s, Usual(s), NEW L, Shape(s, L), Remains(s, L)
    PROVE  /\ \/ IsConfig(Cur(s, L)) /\ Cur(s, L).kind = "config"
                 /\ Cur(s, L).scal # << >>
              \/ /\ IsBlock(Cur(s, L)) /\ Cur(s, L).kind = "block"
                 /\ Cur(s, L).scal = << >> /\ L.depth = 1
           /\ AList(Cur(s, L).scal) /\ Len(Cur(s, L).scal) \in Nat
           /\ Cur(s, L).scal = << >> <=> Len(Cur(s, L).scal) = 0
<1>1. AList(ListAt(s, L)) /\ DoneAt(L) + 1 \in 1..Len(ListAt(s, L))
  BY ItemsAre DEF Remains
<1>2. \/ IsConfig(Cur(s, L))
      \/ IsBlock(Cur(s, L)) /\ Cur(s, L).scal = << >> /\ L.depth = 1
  <2>1. CASE L.depth = 1
    BY <1>1, <2>1 DEF Usual, Cur, ListAt
  <2>2. CASE L.depth # 1
    <3>1. L.depth = 2 /\ IsBlock(s[L.k + 1])
      BY <2>2, ItemsAre DEF Shape, Place
    <3>2. ListAt(s, L) = s[L.k + 1].sub
      BY <2>2 DEF ListAt
    <3> QED
      BY <1>1, <3>1, <3>2 DEF IsBlock, Cur
  <2> QED
    BY <2>1, <2>2
<1>3. AList(<<Empty>>) /\ <<Empty>> # << >>
  <2>1. <<Empty>> \in Seq({Empty})
    OBVIOUS
  <2> QED
    BY <2>1, SeqIsList
<1>4. AList(Cur(s, L).scal)
  BY <1>2, <1>3 DEF IsConfig, IsBlock, Given
<1>5. IsConfig(Cur(s, L)) => Cur(s, L).scal # << >>
  BY <1>3 DEF IsConfig, Given
<1> QED
  BY <1>2, <1>4, <1>5, ListIs DEF IsConfig, IsBlock

(* The scalars of an item that are not done.                               *)
LEMMA RestIs ==
    ASSUME NEW s, Usual(s), NEW L, Shape(s, L), L.ph = "run", L.c < Len(Cur(s, L).scal)
    PROVE  /\ IsConfig(Cur(s, L)) /\ AList(Rest(s, L)) /\ Rest(s, L) # << >>
           /\ Len(Rest(s, L)) = Len(Cur(s, L).scal) - L.c
           /\ Rest(s, L)[1] = Cur(s, L).scal[L.c + 1]
           /\ Clones(Rest(s, L), 1) \in 1..(Len(Cur(s, L).scal) - L.c)
           /\ Announces(Rest(s, L), 1) \in 1..(Len(Cur(s, L).scal) - L.c)
           /\ Carried(Announces(Rest(s, L), 1)) \in 1..Announces(Rest(s, L), 1)
           /\ Announces(Rest(s, L), 1) - Carried(Announces(Rest(s, L), 1)) \in {0, 1}
<1>1. L.c \in Nat /\ Remains(s, L)
  BY DEF Shape, Place
<1>2. AList(Cur(s, L).scal) /\ Len(Cur(s, L).scal) \in Nat
      /\ (Cur(s, L).scal = << >> <=> Len(Cur(s, L).scal) = 0)
  BY <1>1, CurIs
<1>3. IsConfig(Cur(s, L))
  BY <1>1, <1>2, CurIs
<1>4. L.c \in 0..Len(Cur(s, L).scal) /\ L.c # Len(Cur(s, L).scal)
      /\ 1 \in 1..(Len(Cur(s, L).scal) - L.c)
  BY <1>1, <1>2
<1>5. /\ AList(Rest(s, L)) /\ Rest(s, L) # << >>
      /\ Len(Rest(s, L)) = Len(Cur(s, L).scal) - L.c
      /\ Rest(s, L)[1] = Cur(s, L).scal[L.c + 1]
  BY <1>2, <1>4, SuffixIs DEF Rest
<1> QED
  BY <1>3, <1>5, ClonesAre, RunIs

(* The fields of a place.                                                  *)
LEMMA FieldsAre ==
    ASSUME NEW L \in Place
    PROVE  /\ L.k \in Nat /\ L.j \in Nat /\ L.c \in Nat /\ L.run \in Nat
           /\ L.lost \in Nat /\ L.ref \in Nat /\ L.pos \in Nat
           /\ L.depth \in {1, 2} /\ L.ph \in {"start", "num", "item", "run", "raw"}
           /\ DOMAIN L = PlaceFields
BY DEF Place, PlaceFields

LEMMA IsPlace ==
    ASSUME NEW M, M = [x \in PlaceFields |-> M[x]],
           M.ph \in {"start", "num", "item", "run", "raw"}, M.depth \in {1, 2},
           M.k \in Nat, M.j \in Nat, M.c \in Nat, M.run \in Nat, M.lost \in Nat,
           M.ref \in Nat, M.pos \in Nat
    PROVE  M \in Place
BY DEF Place, PlaceFields

(* At the same item.                                                       *)
LEMMA SameItem ==
    ASSUME NEW s, NEW L, NEW M, M.depth = L.depth, M.k = L.k, M.j = L.j
    PROVE  /\ Cur(s, M) = Cur(s, L) /\ (Remains(s, M) <=> Remains(s, L))
           /\ ListAt(s, M) = ListAt(s, L) /\ DoneAt(M) = DoneAt(L)
BY DEF Cur, ListAt, DoneAt, Remains

(* A place leads to places of the same list: what they are.                *)
LEMMA ToItemsIs ==
    ASSUME NEW s, Usual(s), NEW L, Shape(s, L), NEW M, ToItems(s, L, M)
    PROVE  /\ Shape(s, M) /\ M.ph = "item" /\ M.k = L.k /\ M.j = L.j /\ M.pos = L.pos + 1
           /\ L.ph = "start" => M.depth = 1 /\ L = Origin
           /\ L.ph = "num" => M.depth = 2
<1>1. L \in Place /\ Len(s) \in Nat
  BY ItemsAre DEF Shape
<1>2. /\ L.k \in Nat /\ L.j \in Nat /\ L.c \in Nat /\ L.run \in Nat
      /\ L.lost \in Nat /\ L.ref \in Nat /\ L.pos \in Nat /\ DOMAIN L = PlaceFields
  BY <1>1, FieldsAre
<1> DEFINE d == IF L.ph = "num" THEN 2 ELSE 1
<1>3. M = [L EXCEPT !.ph = "item", !.depth = d, !.pos = @ + 1]
  BY DEF ToItems
<1>4. d \in {1, 2} /\ (L.ph = "start" => d = 1) /\ (L.ph = "num" => d = 2)
  OBVIOUS
<1> HIDE DEF d
<1>5. /\ M = [x \in PlaceFields |-> M[x]] /\ M.ph = "item" /\ M.depth = d
      /\ M.k = L.k /\ M.j = L.j /\ M.c = L.c /\ M.run = L.run /\ M.lost = L.lost
      /\ M.ref = L.ref /\ M.pos = L.pos + 1
  BY <1>2, <1>3 DEF PlaceFields
<1>6. M \in Place
  BY <1>2, <1>4, <1>5, IsPlace
<1>7. CASE L.ph = "start"
  <2>1. L = Origin
    BY <1>7 DEF Shape
  <2>2. L.k = 0 /\ L.j = 0
    BY <2>1 DEF Origin
  <2> QED
    BY <1>1, <1>4, <1>5, <1>6, <1>7, <2>1, <2>2 DEF Shape
<1>8. CASE L.ph = "num"
  <2>1. L.depth = 1 /\ L.j = 0 /\ L.k < Len(s) /\ s[L.k + 1].kind = "block"
    BY <1>8 DEF Shape
  <2>2. L.k + 1 \in 1..Len(s)
    BY <1>1, <1>2, <2>1
  <2>3. AList(s[L.k + 1].sub)
    BY <2>1, <2>2 DEF Usual, IsConfig, IsBlock
  <2>4. Len(s[L.k + 1].sub) \in Nat
    BY <2>3, ListIs
  <2> QED
    BY <1>4, <1>5, <1>6, <1>8, <2>1, <2>4 DEF Shape
<1> QED
  BY <1>7, <1>8 DEF ToItems

LEMMA ToRunIs ==
    ASSUME NEW s, Usual(s), NEW L, Shape(s, L), NEW M, ToRun(s, L, M)
    PROVE  /\ Shape(s, M) /\ M.ph = "run" /\ M.depth = L.depth /\ M.k = L.k /\ M.j = L.j
           /\ M.c = 0 /\ M.ref = 1 /\ M.pos = L.pos + 1
<1>1. L \in Place /\ Remains(s, L) /\ L.ph = "item"
      /\ M = [L EXCEPT !.ph = "run", !.c = 0, !.ref = 1, !.pos = @ + 1]
  BY DEF Shape, ToRun
<1>2. /\ L.k \in Nat /\ L.j \in Nat /\ L.c \in Nat /\ L.run \in Nat /\ L.depth \in {1, 2}
      /\ L.lost \in Nat /\ L.ref \in Nat /\ L.pos \in Nat /\ DOMAIN L = PlaceFields
  BY <1>1, FieldsAre
<1>3. /\ M = [x \in PlaceFields |-> M[x]] /\ M.ph = "run" /\ M.depth = L.depth
      /\ M.k = L.k /\ M.j = L.j /\ M.c = 0 /\ M.run = L.run /\ M.lost = L.lost
      /\ M.ref = 1 /\ M.pos = L.pos + 1
  BY <1>1, <1>2 DEF PlaceFields
<1>4. M \in Place
  BY <1>2, <1>3, IsPlace
<1>5. Cur(s, M) = Cur(s, L) /\ Remains(s, M)
  <2>1. M.depth = L.depth /\ M.k = L.k /\ M.j = L.j /\ Remains(s, L)
    BY <1>1, <1>3
  <2> QED
    BY <2>1, SameItem
<1>6. Len(Cur(s, M).scal) \in Nat
  BY <1>1, <1>5, CurIs
<1>7. L.depth = 1 => L.j = 0 /\ L.k <= Len(s)
  BY DEF Shape
<1>8. L.depth = 2 => L.k < Len(s) /\ s[L.k + 1].kind = "block"
                     /\ L.j <= Len(s[L.k + 1].sub)
  BY DEF Shape
<1>9. M.c <= Len(Cur(s, M).scal) /\ 1 <= M.ref /\ M.ref <= M.c + 1
  BY <1>3, <1>6
<1>10. Shape(s, M)
  BY <1>3, <1>4, <1>5, <1>7, <1>8, <1>9 DEF Shape
<1> QED
  BY <1>3, <1>10

LEMMA OverClonesIs ==
    ASSUME NEW s, Usual(s), NEW L, Shape(s, L), NEW M, OverClones(s, L, M),
           NEW n, n = Clones(Rest(s, L), 1)
    PROVE  /\ Shape(s, M) /\ M.ph = "run" /\ M.depth = L.depth /\ M.k = L.k /\ M.j = L.j
           /\ M.c = L.c + n /\ M.ref = L.ref + n - 1 /\ M.pos = L.pos + 2
<1>1. L \in Place /\ M = [L EXCEPT !.c = @ + n, !.ref = @ + n - 1, !.pos = @ + 2]
      /\ L.ph = "run" /\ L.c < Len(Cur(s, L).scal) /\ n > 1
  BY DEF Shape, OverClones
<1>2. /\ L.k \in Nat /\ L.j \in Nat /\ L.c \in Nat /\ L.run \in Nat /\ L.depth \in {1, 2}
      /\ L.lost \in Nat /\ L.ref \in Nat /\ L.pos \in Nat /\ DOMAIN L = PlaceFields
  BY <1>1, FieldsAre
<1>3. n \in 1..(Len(Cur(s, L).scal) - L.c)
  BY <1>1, RestIs
<1>4. /\ L.ref >= 1 /\ L.ref <= L.c + 1 /\ Remains(s, L) /\ Len(Cur(s, L).scal) \in Nat
  BY <1>1, CurIs DEF Shape
<1> DEFINE len == Len(Cur(s, L).scal)
<1>5. n \in Nat /\ L.c + n \in Nat /\ L.ref + n - 1 \in Nat /\ L.pos + 2 \in Nat
      /\ L.c + n <= len /\ L.ref + n - 1 >= 1
      /\ L.ref + n - 1 <= L.c + n + 1
  <2>1. len \in Nat /\ n \in 1..(len - L.c)
    BY <1>3, <1>4
  <2>2. L.ref >= 1 /\ L.ref <= L.c + 1
    BY <1>4
  <2> HIDE DEF len
  <2> QED
    BY <1>2, <2>1, <2>2
<1>6. /\ M = [x \in PlaceFields |-> M[x]] /\ M.ph = "run" /\ M.depth = L.depth
      /\ M.k = L.k /\ M.j = L.j /\ M.c = L.c + n /\ M.run = L.run /\ M.lost = L.lost
      /\ M.ref = L.ref + n - 1 /\ M.pos = L.pos + 2
  BY <1>1, <1>2 DEF PlaceFields
<1>7. M \in Place
  <2>1. M.ph \in {"start", "num", "item", "run", "raw"} /\ M.depth \in {1, 2}
    BY <1>2, <1>5, <1>6
  <2>2. M.k \in Nat /\ M.j \in Nat /\ M.c \in Nat /\ M.pos \in Nat
    BY <1>2, <1>5, <1>6
  <2>3. M.run \in Nat /\ M.lost \in Nat /\ M.ref \in Nat
    BY <1>2, <1>5, <1>6
  <2> QED
    BY <1>6, <2>1, <2>2, <2>3, IsPlace
<1>8. Cur(s, M) = Cur(s, L) /\ Remains(s, M)
  <2>1. M.depth = L.depth /\ M.k = L.k /\ M.j = L.j /\ Remains(s, L)
    BY <1>4, <1>6
  <2> QED
    BY <2>1, SameItem
<1> QED
  BY <1>5, <1>6, <1>7, <1>8 DEF Shape

LEMMA ToRawIs ==
    ASSUME NEW s, Usual(s), NEW L, Shape(s, L), NEW M, ToRaw(s, L, M),
           NEW n, n = Announces(Rest(s, L), 1)
    PROVE  /\ Shape(s, M) /\ M.ph = "raw" /\ M.depth = L.depth /\ M.k = L.k /\ M.j = L.j
           /\ M.c = L.c /\ M.ref = L.ref /\ M.pos = L.pos + 1
           /\ M.run = Carried(n) /\ M.lost = n - Carried(n) /\ M.run + M.lost = n
           /\ M.run >= 1
<1> DEFINE m == Carried(n)
<1>1. L \in Place /\ M = [L EXCEPT !.ph = "raw", !.run = m, !.lost = n - m, !.pos = @ + 1]
      /\ L.ph = "run" /\ L.c < Len(Cur(s, L).scal)
  BY DEF Shape, ToRaw
<1>2. /\ L.k \in Nat /\ L.j \in Nat /\ L.c \in Nat /\ L.run \in Nat /\ L.depth \in {1, 2}
      /\ L.lost \in Nat /\ L.ref \in Nat /\ L.pos \in Nat /\ DOMAIN L = PlaceFields
  BY <1>1, FieldsAre
<1>3. n \in 1..(Len(Cur(s, L).scal) - L.c) /\ m \in 1..n /\ n - m \in {0, 1}
  BY <1>1, RestIs
<1> HIDE DEF m
<1>4. /\ L.ref >= 1 /\ L.ref <= L.c + 1 /\ Remains(s, L) /\ Len(Cur(s, L).scal) \in Nat
  BY <1>1, CurIs DEF Shape
<1>5. n \in Nat /\ m \in Nat /\ n - m \in Nat /\ m >= 1 /\ m + (n - m) = n
      /\ L.c + n <= Len(Cur(s, L).scal) /\ n >= 1
  <2> DEFINE len == Len(Cur(s, L).scal)
  <2>1. L.c \in Nat /\ len \in Nat /\ n \in 1..(len - L.c)
    BY <1>2, <1>3, <1>4
  <2> HIDE DEF len
  <2>2. n \in Nat /\ n >= 1 /\ L.c + n <= len
    BY <2>1
  <2>3. m \in Nat /\ m >= 1 /\ n - m \in Nat /\ m + (n - m) = n
    <3>1. \A x \in Nat : \A y \in 1..x : x - y \in Nat /\ y + (x - y) = x
      OBVIOUS
    <3>2. m \in 1..n
      BY <1>3
    <3>3. m \in Nat /\ m >= 1
      BY <2>2, <3>2
    <3> QED
      BY <2>2, <3>1, <3>2, <3>3, Zenon
  <2> QED
    BY <2>2, <2>3 DEF len
<1>6. /\ M = [x \in PlaceFields |-> M[x]] /\ M.ph = "raw" /\ M.depth = L.depth
      /\ M.k = L.k /\ M.j = L.j /\ M.c = L.c /\ M.run = m /\ M.lost = n - m
      /\ M.ref = L.ref /\ M.pos = L.pos + 1
  BY <1>1, <1>2 DEF PlaceFields
<1>7. M \in Place
  <2>1. M.ph \in {"start", "num", "item", "run", "raw"} /\ M.depth \in {1, 2}
    BY <1>2, <1>5, <1>6
  <2>2. M.k \in Nat /\ M.j \in Nat /\ M.c \in Nat /\ M.pos \in Nat
    BY <1>2, <1>6
  <2>3. M.run \in Nat /\ M.lost \in Nat /\ M.ref \in Nat
    BY <1>2, <1>5, <1>6
  <2> QED
    BY <1>6, <2>1, <2>2, <2>3, IsPlace
<1>8. Cur(s, M) = Cur(s, L) /\ Remains(s, M)
  <2>1. M.depth = L.depth /\ M.k = L.k /\ M.j = L.j /\ Remains(s, L)
    BY <1>4, <1>6
  <2> QED
    BY <2>1, SameItem
<1>9. M.c + M.run + M.lost <= Len(Cur(s, M).scal) /\ M.run + M.lost = n
  <2>1. M.run + M.lost = n
    BY <1>5, <1>6, Zenon
  <2>2. \A x \in Nat : \A y \in Nat : \A z \in Nat : (x + y) + z = x + (y + z)
    OBVIOUS
  <2>3. M.c \in Nat /\ M.run \in Nat /\ M.lost \in Nat
    BY <1>2, <1>5, <1>6, Zenon
  <2>4. (M.c + M.run) + M.lost = L.c + n
    <3>1. (M.c + M.run) + M.lost = M.c + (M.run + M.lost)
      BY <2>2, <2>3
    <3> QED
      BY <1>6, <2>1, <3>1, Zenon
  <2> QED
    BY <1>5, <1>8, <2>1, <2>4, Zenon
<1>10. M.c <= Len(Cur(s, M).scal)
  BY <1>1, <1>2, <1>4, <1>6, <1>8
<1>11. (M.depth = 1 => M.j = 0 /\ M.k <= Len(s))
       /\ (M.depth = 2 => /\ M.k < Len(s) /\ s[M.k + 1].kind = "block"
                          /\ M.j <= Len(s[M.k + 1].sub))
  BY <1>6 DEF Shape
<1>12. Shape(s, M)
  BY <1>4, <1>5, <1>6, <1>7, <1>8, <1>9, <1>10, <1>11 DEF Shape
<1> QED
  BY <1>5, <1>6, <1>9, <1>12 DEF m

LEMMA OverScalarIs ==
    ASSUME NEW s, Usual(s), NEW L, Shape(s, L), NEW M, OverScalar(s, L, M)
    PROVE  /\ Shape(s, M) /\ M.depth = L.depth /\ M.k = L.k /\ M.j = L.j
           /\ M.ph = IF L.run + L.lost = 1 THEN "run" ELSE "raw"
           /\ M.c = L.c + 1 /\ M.run = L.run - 1 /\ M.lost = L.lost
           /\ M.ref = IF Cur(s, L).scal[L.c + 1].t = "empty" THEN L.ref ELSE L.ref + 1
           /\ M.pos = L.pos + 1
<1> DEFINE r == IF Cur(s, L).scal[L.c + 1].t = "empty" THEN L.ref ELSE L.ref + 1
           p == IF L.run + L.lost = 1 THEN "run" ELSE "raw"
<1>1. L \in Place
      /\ M = [L EXCEPT !.ph = p, !.c = @ + 1, !.run = @ - 1, !.pos = @ + 1, !.ref = r]
      /\ L.ph = "raw" /\ L.run > 0
  BY DEF Shape, OverScalar
<1>2. /\ L.k \in Nat /\ L.j \in Nat /\ L.c \in Nat /\ L.run \in Nat /\ L.depth \in {1, 2}
      /\ L.lost \in Nat /\ L.ref \in Nat /\ L.pos \in Nat /\ DOMAIN L = PlaceFields
  BY <1>1, FieldsAre
<1>3. /\ L.ref >= 1 /\ L.ref <= L.c + 1 /\ Remains(s, L)
      /\ L.c + L.run + L.lost <= Len(Cur(s, L).scal)
      /\ Len(Cur(s, L).scal) \in Nat
  BY <1>1, CurIs DEF Shape
<1>4. r \in Nat /\ r >= 1 /\ r <= L.c + 1 + 1 /\ p \in {"run", "raw"}
      /\ (p = "raw" => L.run + L.lost # 1)
  <2>1. r = L.ref \/ r = L.ref + 1
    OBVIOUS
  <2>2. p \in {"run", "raw"} /\ (p = "raw" => L.run + L.lost # 1)
    OBVIOUS
  <2> HIDE DEF r, p
  <2>3. r \in Nat /\ r >= 1 /\ r <= L.c + 1 + 1
    <3>1. L.ref \in Nat /\ L.c \in Nat /\ L.ref >= 1 /\ L.ref <= L.c + 1
      BY <1>2, <1>3
    <3> QED
      BY <2>1, <3>1
  <2> QED
    BY <2>2, <2>3
<1> HIDE DEF r, p
<1> DEFINE len == Len(Cur(s, L).scal)
<1>5. /\ L.run - 1 \in Nat /\ L.c + 1 <= len
      /\ (L.c + 1) + (L.run - 1) + L.lost <= len
  <2>1. len \in Nat /\ L.c + L.run + L.lost <= len
    BY <1>3
  <2>2. \A c \in Nat : \A run \in Nat : \A lost \in Nat : \A n \in Nat :
          c + run + lost <= n /\ run > 0 =>
            run - 1 \in Nat /\ c + 1 <= n /\ (c + 1) + (run - 1) + lost <= n
    OBVIOUS
  <2> HIDE DEF len
  <2> QED
    BY <1>1, <1>2, <2>1, <2>2, Zenon
<1>6. p = "raw" => (L.run - 1) + L.lost >= 1
  BY <1>1, <1>2, <1>4
<1>7. /\ M = [x \in PlaceFields |-> M[x]] /\ M.ph = p /\ M.depth = L.depth
      /\ M.k = L.k /\ M.j = L.j /\ M.c = L.c + 1 /\ M.run = L.run - 1 /\ M.lost = L.lost
      /\ M.ref = r /\ M.pos = L.pos + 1
  BY <1>1, <1>2 DEF PlaceFields
<1>8. M \in Place
  <2>1. M.ph \in {"start", "num", "item", "run", "raw"} /\ M.depth \in {1, 2}
    BY <1>2, <1>4, <1>7
  <2>2. M.k \in Nat /\ M.j \in Nat /\ M.c \in Nat /\ M.pos \in Nat
    BY <1>2, <1>7
  <2>3. M.run \in Nat /\ M.lost \in Nat /\ M.ref \in Nat
    BY <1>2, <1>4, <1>5, <1>7
  <2> QED
    BY <1>7, <2>1, <2>2, <2>3, IsPlace
<1>9. Cur(s, M) = Cur(s, L) /\ Remains(s, M)
  <2>1. M.depth = L.depth /\ M.k = L.k /\ M.j = L.j /\ Remains(s, L)
    BY <1>3, <1>7
  <2> QED
    BY <2>1, SameItem
<1>10. (M.depth = 1 => M.j = 0 /\ M.k <= Len(s))
       /\ (M.depth = 2 => /\ M.k < Len(s) /\ s[M.k + 1].kind = "block"
                          /\ M.j <= Len(s[M.k + 1].sub))
  BY <1>7 DEF Shape
<1>11. Shape(s, M)
  BY <1>4, <1>5, <1>6, <1>7, <1>8, <1>9, <1>10 DEF Shape
<1> QED
  BY <1>7, <1>11 DEF p, r

LEMMA ToBlockIs ==
    ASSUME NEW s, Usual(s), NEW L, Shape(s, L), NEW M, ToBlock(s, L, M)
    PROVE  /\ Shape(s, M) /\ M.ph = "num" /\ M.depth = 1 /\ L.depth = 1
           /\ M.k = L.k /\ M.j = L.j /\ M.pos = L.pos
<1>1. L \in Place /\ M = [L EXCEPT !.ph = "num"] /\ L.ph = "run"
      /\ Cur(s, L).kind = "block"
  BY DEF Shape, ToBlock
<1>2. Remains(s, L)
  BY <1>1 DEF Shape
<1>3. L.depth = 1
  BY <1>1, <1>2, CurIs
<1>4. M \in Place
  BY <1>1 DEF Place
<1>5. M.depth = 1 /\ M.k = L.k /\ M.j = L.j /\ M.ph = "num" /\ M.pos = L.pos
  BY <1>1, <1>3 DEF Place
<1>6. L.k < Len(s) /\ s[L.k + 1].kind = "block" /\ L.j = 0
  BY <1>1, <1>2, <1>3 DEF Remains, Cur, ListAt, DoneAt, Shape
<1> QED
  BY <1>3, <1>4, <1>5, <1>6 DEF Shape

LEMMA OverConfigIs ==
    ASSUME NEW s, Usual(s), NEW L, Shape(s, L), NEW M, OverConfig(s, L, M)
    PROVE  /\ Shape(s, M) /\ M.ph = "item" /\ M.depth = L.depth /\ M.pos = L.pos
           /\ M.k = IF L.depth = 1 THEN L.k + 1 ELSE L.k
           /\ M.j = IF L.depth = 1 THEN L.j ELSE L.j + 1
<1>0. /\ L \in Place /\ Len(s) \in Nat
      /\ Len(ListAt(s, L)) \in Nat /\ DoneAt(L) \in 0..Len(ListAt(s, L))
  BY ItemsAre DEF Shape
<1>f. /\ L.k \in Nat /\ L.j \in Nat /\ L.c \in Nat /\ L.run \in Nat /\ L.depth \in {1, 2}
      /\ L.lost \in Nat /\ L.ref \in Nat /\ L.pos \in Nat /\ DOMAIN L = PlaceFields
  BY <1>0, FieldsAre
<1>1. Remains(s, L) /\ L.ph = "run"
  BY DEF OverConfig, Shape
<1>2. CASE L.depth = 1
  <2>1. M = [L EXCEPT !.ph = "item", !.k = @ + 1]
    BY <1>2 DEF OverConfig
  <2>2. /\ M = [x \in PlaceFields |-> M[x]] /\ M.ph = "item" /\ M.depth = L.depth
        /\ M.k = L.k + 1 /\ M.j = L.j /\ M.c = L.c /\ M.run = L.run /\ M.lost = L.lost
        /\ M.ref = L.ref /\ M.pos = L.pos
    BY <1>f, <2>1 DEF PlaceFields
  <2>3. M \in Place
    BY <1>f, <2>2, IsPlace
  <2>4. L.k + 1 <= Len(s) /\ L.j = 0
    BY <1>0, <1>f, <1>1, <1>2 DEF Remains, ListAt, DoneAt, Shape
  <2> QED
    BY <1>2, <2>2, <2>3, <2>4 DEF Shape
<1>3. CASE L.depth # 1
  <2>1. M = [L EXCEPT !.ph = "item", !.j = @ + 1]
    BY <1>3 DEF OverConfig
  <2>2. /\ M = [x \in PlaceFields |-> M[x]] /\ M.ph = "item" /\ M.depth = L.depth
        /\ M.k = L.k /\ M.j = L.j + 1 /\ M.c = L.c /\ M.run = L.run /\ M.lost = L.lost
        /\ M.ref = L.ref /\ M.pos = L.pos
    BY <1>f, <2>1 DEF PlaceFields
  <2>3. M \in Place
    BY <1>f, <2>2, IsPlace
  <2>4. L.j + 1 <= Len(s[L.k + 1].sub)
    <3>1. ListAt(s, L) = s[L.k + 1].sub /\ DoneAt(L) = L.j
      BY <1>3 DEF ListAt, DoneAt
    <3>2. L.j < Len(s[L.k + 1].sub) /\ Len(s[L.k + 1].sub) \in Nat
      BY <1>0, <1>1, <3>1 DEF Remains
    <3> QED
      BY <1>f, <3>2
  <2>5. L.k < Len(s) /\ s[L.k + 1].kind = "block"
    BY <1>f, <1>3 DEF Shape
  <2> QED
    BY <1>3, <2>2, <2>3, <2>4, <2>5 DEF Shape
<1> QED
  BY <1>2, <1>3

LEMMA OverBlockIs ==
    ASSUME NEW s, Usual(s), NEW L, Shape(s, L), NEW M, OverBlock(s, L, M)
    PROVE  /\ Shape(s, M) /\ M.ph = "item" /\ M.depth = 1 /\ M.k = L.k + 1 /\ M.j = 0
           /\ M.pos = L.pos
<1>1. L \in Place /\ M = [L EXCEPT !.depth = 1, !.k = @ + 1, !.j = 0]
      /\ L.ph = "item" /\ L.depth = 2 /\ Len(s) \in Nat
  BY ItemsAre DEF Shape, OverBlock
<1>2. /\ L.k \in Nat /\ L.j \in Nat /\ L.c \in Nat /\ L.run \in Nat /\ L.depth \in {1, 2}
      /\ L.lost \in Nat /\ L.ref \in Nat /\ L.pos \in Nat /\ DOMAIN L = PlaceFields
  BY <1>1, FieldsAre
<1>3. /\ M = [x \in PlaceFields |-> M[x]] /\ M.ph = "item" /\ M.depth = 1
      /\ M.k = L.k + 1 /\ M.j = 0 /\ M.c = L.c /\ M.run = L.run /\ M.lost = L.lost
      /\ M.ref = L.ref /\ M.pos = L.pos
  BY <1>1, <1>2 DEF PlaceFields
<1>4. M \in Place
  BY <1>2, <1>3, IsPlace
<1>5. L.k + 1 <= Len(s)
  BY <1>1, <1>2 DEF Shape
<1> QED
  BY <1>3, <1>4, <1>5 DEF Shape

LEMMA LeadsIn ==
    ASSUME NEW s, Usual(s), NEW L, Shape(s, L), NEW M, Leads(s, L, M)
    PROVE  Shape(s, M)
BY ToItemsIs, ToRunIs, OverClonesIs, ToRawIs, OverScalarIs, ToBlockIs, OverConfigIs,
   OverBlockIs DEF Leads

-----------------------------------------------------------------------------
(* Packing a list.                                                         *)

(* The token at pos + q is x.                                              *)
Says(s, L, q, x) ==
    \/ L.ph = "start" /\ q = 1 /\ x = [tok |-> "num", n |-> Len(s)]
    \/ L.ph = "num" /\ q = 1 /\ x = [tok |-> "num", n |-> Len(s[L.k + 1].sub)]
    \/ /\ L.ph = "item" /\ Remains(s, L) /\ q = 1
       /\ x = [tok |-> "item", kind |-> Cur(s, L).kind, name |-> Cur(s, L).name,
               num |-> Len(Cur(s, L).scal)]
    \/ /\ L.ph = "run" /\ L.c < Len(Cur(s, L).scal) /\ Clones(Rest(s, L), 1) > 1
       /\ \/ q = 1 /\ x = [tok |-> "dup", n |-> Clones(Rest(s, L), 1)]
          \/ q = 2 /\ x = [tok |-> "scalar", s |-> Cur(s, L).scal[L.c + 1]]
    \/ /\ L.ph = "run" /\ L.c < Len(Cur(s, L).scal) /\ Clones(Rest(s, L), 1) = 1
       /\ q = 1 /\ x = [tok |-> "raw", n |-> Announces(Rest(s, L), 1)]
    \/ /\ L.ph = "raw" /\ L.run > 0 /\ q = 1
       /\ x = [tok |-> "scalar", s |-> Cur(s, L).scal[L.c + 1]]

(* All of it is in the message.                                            *)
Full(m, s, L) ==
    \A q, x : Says(s, L, q, x) => L.pos + q \in 1..Len(m) /\ m[L.pos + q] = x

(* What the packer has left of the lists when b items are begun.           *)
Begun(s, L, b) ==
    IF L.depth = 1 THEN <<Suffix(s, L.k + b)>>
    ELSE <<Suffix(s, L.k + 1), Suffix(s[L.k + 1].sub, L.j + b)>>

(* l is left of the scalars of an item, with a hole in it.                 *)
IsLeft(l, scal, c, run, lost) ==
    /\ AList(l) /\ Len(l) = Len(scal) - c - lost
    /\ \A i \in 1..Len(l) : l[i] = IF i <= run THEN scal[c + i] ELSE scal[c + lost + i]

IsPack(p) == p = [rest |-> p.rest, item |-> p.item, scal |-> p.scal, run |-> p.run]

(* The packer is there.                                                    *)
PacksAt(s, G, ph, p, m) ==
    /\ Len(m) = G.pos
    /\ G.ph = "start" => ph = "packNum" /\ p.item = Outermost(s) /\ p.rest = << >>
    /\ G.ph = "num" => ph = "packNum" /\ p.item = Cur(s, G) /\ p.rest = Begun(s, G, 1)
    /\ G.ph = "item" => ph = "packItem" /\ p.rest = Begun(s, G, 0)
    /\ G.ph \in {"run", "raw"} => p.item = Cur(s, G) /\ p.rest = Begun(s, G, 1)
    /\ G.ph = "run" => ph = "packRun" /\ p.scal = Rest(s, G)
    /\ G.ph = "raw" => /\ ph = "packRaw" /\ p.run = G.run /\ G.run > 0
                       /\ IsLeft(p.scal, Cur(s, G).scal, G.c, G.run, G.lost)

(* It was there, after a run that announced more than it carried.          *)
WasAt(G, ph, m) ==
    /\ Broken(G)
    /\ \/ Len(m) = G.pos /\ ph # "packRaw"
       \/ Len(m) > G.pos /\ m[G.pos + 1].tok # "scalar"

PackPhases == {"packNum", "packItem", "packRun", "packRaw"}

(* A step of the packer.                                                   *)
Goes(s, G, M) ==
    /\ Leads(s, G, M) /\ Full(msg', s, G)
    /\ PacksAt(s, M, phase', pack', msg') \/ WasAt(M, phase', msg')

LEMMA PackNumGoes ==
    ASSUME Usual(sent), NEW G, Shape(sent, G), PacksAt(sent, G, phase, pack, msg),
           AList(msg), IsPack(pack), PackNum
    PROVE  \E M : Goes(sent, G, M)
<1>1. /\ G \in Place /\ phase = "packNum" /\ phase' = "packItem"
      /\ pack' = [pack EXCEPT !.rest = Append(@, pack.item.sub)]
      /\ msg' = msg \o <<[tok |-> "num", n |-> Len(pack.item.sub)]>>
  BY DEF Shape, PackNum, Emit
<1>2. G.ph \in {"start", "num"} /\ Len(msg) = G.pos /\ G.pos \in Nat
  BY <1>1, FieldsAre DEF PacksAt
<1> DEFINE M == [G EXCEPT !.ph = "item", !.depth = IF G.ph = "num" THEN 2 ELSE 1,
                          !.pos = @ + 1]
           x == [tok |-> "num", n |-> Len(pack.item.sub)]
<1>3. ToItems(sent, G, M)
  BY <1>2 DEF ToItems
<1>4. /\ Shape(sent, M) /\ M.ph = "item" /\ M.k = G.k /\ M.j = G.j /\ M.pos = G.pos + 1
      /\ G.ph = "start" => M.depth = 1 /\ G = Origin
      /\ G.ph = "num" => M.depth = 2
  BY <1>3, ToItemsIs
<1> HIDE DEF M
<1>5. Len(msg') = Len(msg) + 1 /\ msg'[Len(msg) + 1] = x
  BY <1>1, OneMore
<1>6. pack'.rest = Append(pack.rest, pack.item.sub)
  BY <1>1 DEF IsPack
<1>7. CASE G.ph = "start"
  <2>1. pack.item.sub = sent /\ pack.rest = << >>
    BY <1>7 DEF PacksAt, Outermost
  <2>2. AList(sent) /\ Len(sent) \in Nat
    BY ListIs DEF Usual
  <2>3. pack'.rest = <<sent>>
    BY <1>6, <2>1
  <2>4. Suffix(sent, 0) = sent
    BY <2>2 DEF Suffix, AList
  <2>5. G.k = 0
    BY <1>4, <1>7 DEF Origin
  <2>6. pack'.rest = Begun(sent, M, 0)
    BY <1>4, <1>7, <2>3, <2>4, <2>5 DEF Begun
  <2>7. Full(msg', sent, G)
    BY <1>2, <1>5, <1>7, <2>1 DEF Full, Says
  <2> QED
    BY <1>1, <1>2, <1>3, <1>4, <1>5, <2>6, <2>7 DEF Goes, Leads, PacksAt
<1>8. CASE G.ph = "num"
  <2>1. pack.item = Cur(sent, G) /\ pack.rest = Begun(sent, G, 1)
    BY <1>8 DEF PacksAt
  <2>2. G.depth = 1 /\ G.j = 0 /\ G.k < Len(sent) /\ sent[G.k + 1].kind = "block"
    BY <1>8 DEF Shape
  <2>3. pack.item = sent[G.k + 1] /\ pack.rest = <<Suffix(sent, G.k + 1)>>
    BY <2>1, <2>2 DEF Cur, ListAt, DoneAt, Begun
  <2>4. M.depth = 2 /\ M.k + 1 \in 1..Len(sent) /\ IsBlock(sent[M.k + 1])
    BY <1>4, <1>8, ItemsAre
  <2>5. AList(sent[G.k + 1].sub)
    BY <1>4, <2>4 DEF IsBlock
  <2>6. Suffix(sent[G.k + 1].sub, 0) = sent[G.k + 1].sub
    BY <2>5 DEF Suffix, AList
  <2>7. pack'.rest = <<Suffix(sent, G.k + 1), sent[G.k + 1].sub>>
    BY <1>6, <2>3, Two
  <2>8. pack'.rest = Begun(sent, M, 0)
    BY <1>4, <2>2, <2>4, <2>6, <2>7 DEF Begun
  <2>9. Full(msg', sent, G)
    BY <1>2, <1>5, <1>8, <2>3 DEF Full, Says
  <2> QED
    BY <1>1, <1>2, <1>3, <1>4, <1>5, <2>8, <2>9 DEF Goes, Leads, PacksAt
<1> QED
  BY <1>2, <1>7, <1>8

(* The lists begun, with the item at G begun or not.                       *)
LEMMA BegunIs ==
    ASSUME NEW s, Usual(s), NEW L, Shape(s, L), NEW rest, rest = Begun(s, L, 0)
    PROVE  /\ rest # << >> /\ Len(rest) = L.depth
           /\ Last(rest) = Suffix(ListAt(s, L), DoneAt(L))
           /\ Last(rest) = << >> <=> ~Remains(s, L)
           /\ Remains(s, L) =>
                /\ Head(Last(rest)) = Cur(s, L)
                /\ [rest EXCEPT ![Len(rest)] = Tail(@)] = Begun(s, L, 1)
<1>1. AList(ListAt(s, L)) /\ DoneAt(L) \in 0..Len(ListAt(s, L)) /\ Len(ListAt(s, L)) \in Nat
      /\ L.depth \in {1, 2}
  BY ItemsAre, FieldsAre DEF Shape
<1>2. Suffix(ListAt(s, L), DoneAt(L)) = << >> <=> ~Remains(s, L)
  BY <1>1, SuffixIs DEF Remains
<1>3. Remains(s, L) =>
        /\ Head(Suffix(ListAt(s, L), DoneAt(L))) = Cur(s, L)
        /\ Tail(Suffix(ListAt(s, L), DoneAt(L))) = Suffix(ListAt(s, L), DoneAt(L) + 1)
  BY <1>1, SuffixTail DEF Remains, Cur
<1>4. CASE L.depth = 1
  <2>1. rest = <<Suffix(ListAt(s, L), DoneAt(L))>>
        /\ Begun(s, L, 1) = <<Suffix(ListAt(s, L), DoneAt(L) + 1)>>
    <3>1. L.k + 0 = L.k
      BY <1>1, <1>4, FieldsAre DEF Shape
    <3> QED
      BY <1>4, <3>1 DEF Begun, ListAt, DoneAt
  <2>2. Len(rest) = 1 /\ Last(rest) = Suffix(ListAt(s, L), DoneAt(L)) /\ rest # << >>
        /\ rest[1] = Suffix(ListAt(s, L), DoneAt(L))
    BY <2>1, Single
  <2>3. [rest EXCEPT ![Len(rest)] = Tail(@)]
        = <<Tail(Suffix(ListAt(s, L), DoneAt(L)))>>
    BY <2>1, <2>2, Changed
  <2> QED
    BY <1>2, <1>3, <1>4, <2>1, <2>2, <2>3
<1>5. CASE L.depth = 2
  <2> DEFINE a == Suffix(s, L.k + 1)
             b == Suffix(ListAt(s, L), DoneAt(L))
             c == Suffix(ListAt(s, L), DoneAt(L) + 1)
  <2>1. rest = <<a, b>> /\ Begun(s, L, 1) = <<a, c>>
    <3>1. L.j + 0 = L.j
      BY <1>1, <1>5, FieldsAre DEF Shape
    <3> QED
      BY <1>5, <3>1 DEF Begun, ListAt, DoneAt
  <2>2. (Remains(s, L) => Head(b) = Cur(s, L) /\ Tail(b) = c)
        /\ (b = << >> <=> ~Remains(s, L))
    BY <1>2, <1>3
  <2>3. Len(rest) = 2 /\ Last(rest) = b /\ rest # << >> /\ rest[2] = b
    <3>1. rest = <<a, b>>
      BY <2>1
    <3> HIDE DEF a, b, c
    <3>2. Len(<<a, b>>) = 2 /\ Last(<<a, b>>) = b /\ <<a, b>> # << >> /\ <<a, b>>[2] = b
      BY Two
    <3> QED
      BY <3>1, <3>2, Zenon
  <2>4. [rest EXCEPT ![Len(rest)] = Tail(@)] = <<a, Tail(b)>>
    <3> HIDE DEF a, b
    <3> QED
      BY <2>1, <2>3, Changed
  <2> QED
    BY <1>5, <2>1, <2>2, <2>3, <2>4
<1> QED
  BY <1>1, <1>4, <1>5

LEMMA PackItemGoes ==
    ASSUME Usual(sent), NEW G, Shape(sent, G), PacksAt(sent, G, phase, pack, msg),
           AList(msg), IsPack(pack), PackItem
    PROVE  \E M : Goes(sent, G, M)
<1> DEFINE i == Head(Last(pack.rest))
           x == [tok |-> "item", kind |-> i.kind, name |-> i.name, num |-> Len(i.scal)]
<1>1. /\ G \in Place /\ phase = "packItem" /\ phase' = "packRun" /\ Last(pack.rest) # << >>
      /\ msg' = msg \o <<x>>
      /\ pack' = [pack EXCEPT !.item = i, !.scal = i.scal,
                              !.rest[Len(pack.rest)] = Tail(@)]
  BY DEF Shape, PackItem, Emit
<1>2. G.ph = "item" /\ Len(msg) = G.pos /\ G.pos \in Nat
  BY <1>1, FieldsAre DEF PacksAt
<1>3. pack.rest = Begun(sent, G, 0)
  BY <1>2 DEF PacksAt
<1>4. Remains(sent, G) /\ i = Cur(sent, G)
      /\ [pack.rest EXCEPT ![Len(pack.rest)] = Tail(@)] = Begun(sent, G, 1)
  BY <1>1, <1>3, BegunIs
<1> DEFINE M == [G EXCEPT !.ph = "run", !.c = 0, !.ref = 1, !.pos = @ + 1]
<1>5. ToRun(sent, G, M)
  BY <1>2, <1>4 DEF ToRun
<1>6. /\ Shape(sent, M) /\ M.ph = "run" /\ M.depth = G.depth /\ M.k = G.k /\ M.j = G.j
      /\ M.c = 0 /\ M.ref = 1 /\ M.pos = G.pos + 1
  BY <1>5, ToRunIs
<1> HIDE DEF M
<1>7. Len(msg') = Len(msg) + 1 /\ msg'[Len(msg) + 1] = x
  BY <1>1, OneMore
<1>8. /\ pack'.rest = [pack.rest EXCEPT ![Len(pack.rest)] = Tail(@)]
      /\ pack'.item = i /\ pack'.scal = i.scal
  BY <1>1 DEF IsPack
<1>9. Cur(sent, M) = Cur(sent, G) /\ Begun(sent, M, 1) = Begun(sent, G, 1)
  BY <1>6, SameItem DEF Begun
<1>10. AList(Cur(sent, G).scal)
  BY <1>4, CurIs
<1>11. Rest(sent, M) = Cur(sent, G).scal
  BY <1>6, <1>9, <1>10 DEF Rest, Suffix, AList
<1>12. Full(msg', sent, G)
  BY <1>2, <1>4, <1>7 DEF Full, Says
<1>13. pack'.rest = Begun(sent, M, 1) /\ pack'.item = Cur(sent, M)
       /\ pack'.scal = Rest(sent, M)
  BY <1>4, <1>8, <1>9, <1>11
<1>14. PacksAt(sent, M, phase', pack', msg')
  BY <1>1, <1>2, <1>6, <1>7, <1>13 DEF PacksAt
<1> QED
  BY <1>5, <1>12, <1>14 DEF Goes, Leads

LEMMA PackDupGoes ==
    ASSUME Usual(sent), NEW G, Shape(sent, G), PacksAt(sent, G, phase, pack, msg),
           AList(msg), IsPack(pack), PackDup
    PROVE  \E M : Goes(sent, G, M)
<1> DEFINE n == Clones(pack.scal, 1)
           x == [tok |-> "dup", n |-> n]
           y == [tok |-> "scalar", s |-> pack.scal[1]]
           scal == Cur(sent, G).scal
<1>1. /\ G \in Place /\ phase = "packRun" /\ phase' = phase /\ pack.scal # << >> /\ n > 1
      /\ msg' = msg \o <<x, y>>
      /\ pack' = [pack EXCEPT !.scal = SubSeq(@, n + 1, Len(@))]
  BY DEF Shape, PackDup, Emit
<1>2. G.ph = "run" /\ Len(msg) = G.pos /\ G.pos \in Nat /\ G.c \in Nat
  BY <1>1, FieldsAre DEF PacksAt
<1>3. /\ pack.item = Cur(sent, G) /\ pack.rest = Begun(sent, G, 1)
      /\ pack.scal = Rest(sent, G)
  BY <1>2 DEF PacksAt
<1>4. Remains(sent, G) /\ G.c <= Len(scal)
  BY <1>2 DEF Shape
<1>5. AList(scal) /\ Len(scal) \in Nat
  BY <1>4, CurIs
<1>6. G.c \in 0..Len(scal) /\ G.c < Len(scal)
  <2>1. G.c \in 0..Len(scal)
    BY <1>2, <1>4, <1>5
  <2>2. G.c # Len(scal)
    BY <1>1, <1>3, <1>5, <2>1, SuffixIs DEF Rest
  <2> QED
    BY <1>4, <1>5, <2>1, <2>2
<1>7. n = Clones(Rest(sent, G), 1) /\ n \in 1..(Len(scal) - G.c) /\ pack.scal[1] = scal[G.c + 1]
  BY <1>2, <1>3, <1>6, RestIs
<1> DEFINE M == [G EXCEPT !.c = @ + Clones(Rest(sent, G), 1),
                          !.ref = @ + Clones(Rest(sent, G), 1) - 1, !.pos = @ + 2]
<1>8. OverClones(sent, G, M)
  BY <1>1, <1>2, <1>6, <1>7 DEF OverClones
<1>9. /\ Shape(sent, M) /\ M.ph = "run" /\ M.depth = G.depth /\ M.k = G.k /\ M.j = G.j
      /\ M.c = G.c + n /\ M.ref = G.ref + n - 1 /\ M.pos = G.pos + 2
  <2> HIDE DEF n, M
  <2> QED
    BY <1>7, <1>8, OverClonesIs
<1> HIDE DEF M
<1>10. /\ Len(msg') = Len(msg) + 2 /\ msg'[Len(msg) + 1] = x /\ msg'[Len(msg) + 2] = y
  BY <1>1, TwoMore
<1>11. /\ pack'.rest = pack.rest /\ pack'.item = pack.item
       /\ pack'.scal = SubSeq(pack.scal, n + 1, Len(pack.scal))
  BY <1>1 DEF IsPack
<1>12. Cur(sent, M) = Cur(sent, G) /\ Begun(sent, M, 1) = Begun(sent, G, 1)
  BY <1>9, SameItem DEF Begun
<1>13. pack'.scal = Rest(sent, M)
  <2>1. n \in 0..(Len(scal) - G.c)
    BY <1>7
  <2>2. SubSeq(Suffix(scal, G.c), n + 1, Len(Suffix(scal, G.c))) = Suffix(scal, G.c + n)
    BY <1>5, <1>6, <2>1, SuffixOf
  <2> QED
    BY <1>3, <1>9, <1>11, <1>12, <2>2 DEF Rest
<1>14. Full(msg', sent, G)
  <2>1. Says(sent, G, 1, x) /\ Says(sent, G, 2, y)
    BY <1>1, <1>2, <1>6, <1>7 DEF Says
  <2>2. \A q, z : Says(sent, G, q, z) => (q = 1 /\ z = x) \/ (q = 2 /\ z = y)
    BY <1>1, <1>2, <1>6, <1>7 DEF Says
  <2>3. Len(msg') = G.pos + 2 /\ msg'[G.pos + 1] = x /\ msg'[G.pos + 2] = y
    BY <1>2, <1>10
  <2> HIDE DEF x, y
  <2> QED
    BY <1>2, <2>2, <2>3 DEF Full
<1>15. PacksAt(sent, M, phase', pack', msg')
  BY <1>1, <1>2, <1>3, <1>9, <1>10, <1>11, <1>12, <1>13 DEF PacksAt
<1> QED
  BY <1>8, <1>14, <1>15 DEF Goes, Leads

(* A hole in the scalars that are left.                                    *)
LEMMA LeftOutIs ==
    ASSUME NEW scal, AList(scal), NEW c \in 0..Len(scal), NEW n \in 1..(Len(scal) - c),
           Carried(n) \in 1..n, n - Carried(n) \in {0, 1}
    PROVE  IsLeft(LeftOut(Suffix(scal, c), n), scal, c, Carried(n), n - Carried(n))
<1> DEFINE l == Suffix(scal, c)
           m == Carried(n)
           S == ToSet(l)
           a == SubSeq(l, 1, m)
           b == SubSeq(l, n + 1, Len(l))
<1>1. Len(scal) \in Nat
  BY ListIs
<1>2. /\ AList(l) /\ Len(l) = Len(scal) - c
      /\ \A i \in 1..(Len(scal) - c) : l[i] = scal[c + i]
  BY SuffixIs
<1>3. m \in 1..n /\ n - m \in {0, 1}
  OBVIOUS
<1> HIDE DEF l, m
<1>4. l \in Seq(S) /\ n \in 1..Len(l) /\ m \in 1..Len(l) /\ Len(l) \in Nat
  BY <1>1, <1>2, <1>3 DEF AList
<1> HIDE DEF S
<1>5. a \in Seq(S) /\ Len(a) = m /\ \A i \in 1..m : a[i] = l[i]
  BY <1>4
<1>6. b \in Seq(S) /\ Len(b) = Len(l) - n /\ \A i \in 1..(Len(l) - n) : b[i] = l[n + i]
  BY <1>4
<1> HIDE DEF a, b
<1>7. /\ a \o b \in Seq(S) /\ Len(a \o b) = m + (Len(l) - n)
      /\ \A i \in 1..(m + (Len(l) - n)) : (a \o b)[i] = IF i <= m THEN a[i] ELSE b[i - m]
  <2>1. /\ a \o b \in Seq(S) /\ Len(a \o b) = Len(a) + Len(b)
        /\ \A i \in 1..(Len(a) + Len(b)) :
             (a \o b)[i] = IF i <= Len(a) THEN a[i] ELSE b[i - Len(a)]
    BY <1>5, <1>6, ConcatProperties
  <2> QED
    BY <1>5, <1>6, <2>1
<1>8. ASSUME NEW i \in 1..(m + (Len(l) - n))
      PROVE  (a \o b)[i] = IF i <= m THEN scal[c + i] ELSE scal[c + (n - m) + i]
  <2>1. CASE i <= m
    <3>1. i \in 1..m /\ i \in 1..(Len(scal) - c)
      BY <1>2, <1>4, <2>1
    <3> QED
      BY <1>2, <1>5, <1>7, <2>1, <3>1
  <2>2. CASE ~(i <= m)
    <3>1. i - m \in 1..(Len(l) - n) /\ n + (i - m) \in 1..(Len(scal) - c)
          /\ c + (n + (i - m)) = c + (n - m) + i
      BY <1>1, <1>2, <1>4, <2>2
    <3>2. (a \o b)[i] = l[n + (i - m)]
      BY <1>6, <1>7, <2>2, <3>1
    <3> QED
      BY <1>2, <2>2, <3>1, <3>2
  <2> QED
    BY <2>1, <2>2
<1>9. AList(a \o b) /\ m + (Len(l) - n) = Len(scal) - c - (n - m)
  <2>1. AList(a \o b)
    BY <1>7, SeqIsList
  <2>2. m \in Nat /\ n \in Nat /\ m + (Len(l) - n) = Len(scal) - c - (n - m)
    BY <1>1, <1>2, <1>4
  <2> QED
    BY <2>1, <2>2
<1>10. IsLeft(a \o b, scal, c, m, n - m)
  BY <1>7, <1>8, <1>9 DEF IsLeft
<1> QED
  BY <1>10 DEF LeftOut, a, b, l, m

LEMMA LeftTail ==
    ASSUME NEW scal, AList(scal), NEW c \in Nat, NEW run \in Nat, NEW lost \in Nat, NEW l,
           IsLeft(l, scal, c, run, lost), run > 0, c + run + lost <= Len(scal)
    PROVE  l[1] = scal[c + 1] /\ IsLeft(Tail(l), scal, c + 1, run - 1, lost)
<1>1. Len(scal) \in Nat /\ AList(l) /\ Len(l) = Len(scal) - c - lost
      /\ \A i \in 1..Len(l) : l[i] = IF i <= run THEN scal[c + i] ELSE scal[c + lost + i]
  BY ListIs DEF IsLeft
<1> DEFINE S == ToSet(l)
<1>2. l \in Seq(S) /\ Len(l) >= 1 /\ Len(l) \in Nat
  BY <1>1 DEF AList
<1> HIDE DEF S
<1>3. l # << >> /\ 1 \in 1..Len(l)
  BY <1>2
<1>4. /\ Tail(l) \in Seq(S) /\ Len(Tail(l)) = Len(l) - 1
      /\ \A i \in 1..(Len(l) - 1) : Tail(l)[i] = l[i + 1]
  BY <1>2, <1>3
<1>5. l[1] = scal[c + 1]
  BY <1>1, <1>3
<1>6. ASSUME NEW i \in 1..(Len(l) - 1)
      PROVE  Tail(l)[i] = IF i <= run - 1 THEN scal[(c + 1) + i] ELSE scal[(c + 1) + lost + i]
  <2>1. i + 1 \in 1..Len(l) /\ (i + 1 <= run <=> i <= run - 1)
        /\ c + (i + 1) = (c + 1) + i /\ c + lost + (i + 1) = (c + 1) + lost + i
    BY <1>2
  <2> QED
    BY <1>1, <1>4, <2>1
<1>7. AList(Tail(l)) /\ Len(l) - 1 = Len(scal) - (c + 1) - lost
  <2>1. AList(Tail(l))
    BY <1>4, SeqIsList
  <2>2. Len(l) - 1 = Len(scal) - (c + 1) - lost
    BY <1>1
  <2> QED
    BY <2>1, <2>2
<1> QED
  BY <1>4, <1>5, <1>6, <1>7 DEF IsLeft

LEMMA LeftAll ==
    ASSUME NEW scal, AList(scal), NEW c \in 0..Len(scal), NEW l, IsLeft(l, scal, c, 0, 0)
    PROVE  l = Suffix(scal, c)
<1>1. Len(scal) \in Nat /\ AList(l) /\ Len(l) = Len(scal) - c
      /\ \A i \in 1..Len(l) : l[i] = scal[c + i]
  BY ListIs DEF IsLeft
<1> DEFINE r == Suffix(scal, c)
<1>2. AList(r) /\ Len(r) = Len(scal) - c /\ \A i \in 1..(Len(scal) - c) : r[i] = scal[c + i]
  BY SuffixIs
<1> HIDE DEF r
<1>3. l \in Seq(ToSet(l)) /\ r \in Seq(ToSet(r)) /\ Len(l) = Len(r)
      /\ \A i \in 1..Len(l) : l[i] = r[i]
  BY <1>1, <1>2 DEF AList
<1>4. l = r
  BY <1>3
<1> QED
  BY <1>4 DEF r

LEMMA PackRawGoes ==
    ASSUME Usual(sent), NEW G, Shape(sent, G), PacksAt(sent, G, phase, pack, msg),
           AList(msg), IsPack(pack), PackRaw
    PROVE  \E M : Goes(sent, G, M)
<1> DEFINE n == Announces(pack.scal, 1)
           x == [tok |-> "raw", n |-> n]
           scal == Cur(sent, G).scal
<1>1. /\ G \in Place /\ phase = "packRun" /\ phase' = "packRaw" /\ pack.scal # << >>
      /\ Clones(pack.scal, 1) = 1 /\ msg' = msg \o <<x>>
      /\ pack' = [pack EXCEPT !.run = Carried(n), !.scal = LeftOut(@, n)]
  BY DEF Shape, PackRaw, Emit
<1>2. G.ph = "run" /\ Len(msg) = G.pos /\ G.pos \in Nat /\ G.c \in Nat
  BY <1>1, FieldsAre DEF PacksAt
<1>3. /\ pack.item = Cur(sent, G) /\ pack.rest = Begun(sent, G, 1)
      /\ pack.scal = Rest(sent, G)
  BY <1>2 DEF PacksAt
<1>4. Remains(sent, G) /\ G.c <= Len(scal)
  BY <1>2 DEF Shape
<1>5. AList(scal) /\ Len(scal) \in Nat
  BY <1>4, CurIs
<1>6. G.c \in 0..Len(scal) /\ G.c < Len(scal)
  <2>1. G.c \in 0..Len(scal)
    BY <1>2, <1>4, <1>5
  <2>2. G.c # Len(scal)
    BY <1>1, <1>3, <1>5, <2>1, SuffixIs DEF Rest
  <2> QED
    BY <1>4, <1>5, <2>1, <2>2
<1>7. n = Announces(Rest(sent, G), 1) /\ n \in 1..(Len(scal) - G.c)
      /\ Carried(n) \in 1..n /\ n - Carried(n) \in {0, 1}
  BY <1>2, <1>3, <1>6, RestIs
<1> DEFINE k == Announces(Rest(sent, G), 1)
           M == [G EXCEPT !.ph = "raw", !.run = Carried(k), !.lost = k - Carried(k),
                          !.pos = @ + 1]
<1>8. ToRaw(sent, G, M)
  BY <1>1, <1>2, <1>3, <1>6 DEF ToRaw
<1>9. /\ Shape(sent, M) /\ M.ph = "raw" /\ M.depth = G.depth /\ M.k = G.k /\ M.j = G.j
      /\ M.c = G.c /\ M.pos = G.pos + 1 /\ M.run = Carried(n) /\ M.lost = n - Carried(n)
      /\ M.run >= 1
  <2> HIDE DEF n, M
  <2> QED
    BY <1>7, <1>8, ToRawIs
<1> HIDE DEF M
<1>10. Len(msg') = Len(msg) + 1 /\ msg'[Len(msg) + 1] = x
  BY <1>1, OneMore
<1>11. /\ pack'.rest = pack.rest /\ pack'.item = pack.item
       /\ pack'.run = Carried(n) /\ pack'.scal = LeftOut(pack.scal, n)
  BY <1>1 DEF IsPack
<1>12. Cur(sent, M) = Cur(sent, G) /\ Begun(sent, M, 1) = Begun(sent, G, 1)
  BY <1>9, SameItem DEF Begun
<1>13. IsLeft(pack'.scal, Cur(sent, M).scal, M.c, M.run, M.lost)
  <2>1. IsLeft(LeftOut(Suffix(scal, G.c), n), scal, G.c, Carried(n), n - Carried(n))
    <3> HIDE DEF n, scal
    <3> QED
      BY <1>5, <1>6, <1>7, LeftOutIs
  <2> QED
    BY <1>3, <1>9, <1>11, <1>12, <2>1 DEF Rest
<1>14. Full(msg', sent, G)
  <2>1. \A q, z : Says(sent, G, q, z) => q = 1 /\ z = x
    BY <1>1, <1>2, <1>3, <1>6 DEF Says
  <2>2. Len(msg') = G.pos + 1 /\ msg'[G.pos + 1] = x
    BY <1>2, <1>10
  <2> HIDE DEF x
  <2> QED
    BY <1>2, <2>1, <2>2 DEF Full
<1>15. PacksAt(sent, M, phase', pack', msg')
  <2>1. M.run > 0 /\ pack'.run = M.run /\ Len(msg') = M.pos
    BY <1>2, <1>7, <1>9, <1>10, <1>11
  <2> QED
    BY <1>1, <1>3, <1>9, <1>11, <1>12, <1>13, <2>1 DEF PacksAt
<1> QED
  BY <1>8, <1>14, <1>15 DEF Goes, Leads

LEMMA PackScalarGoes ==
    ASSUME Usual(sent), NEW G, Shape(sent, G), PacksAt(sent, G, phase, pack, msg),
           AList(msg), IsPack(pack), PackScalar
    PROVE  \E M : Goes(sent, G, M)
<1> DEFINE x == [tok |-> "scalar", s |-> pack.scal[1]]
           scal == Cur(sent, G).scal
<1>1. /\ G \in Place /\ phase = "packRaw" /\ msg' = msg \o <<x>>
      /\ phase' = IF pack.run = 1 THEN "packRun" ELSE phase
      /\ pack' = [pack EXCEPT !.run = @ - 1, !.scal = Tail(@)]
  BY DEF Shape, PackScalar, Emit
<1>2. G.ph = "raw" /\ Len(msg) = G.pos
  BY <1>1, FieldsAre DEF PacksAt
<1>f. G.pos \in Nat /\ G.c \in Nat /\ G.run \in Nat /\ G.lost \in Nat
  BY <1>1, FieldsAre
<1>3. /\ pack.item = Cur(sent, G) /\ pack.rest = Begun(sent, G, 1)
      /\ pack.run = G.run /\ G.run > 0
      /\ IsLeft(pack.scal, scal, G.c, G.run, G.lost)
  BY <1>2 DEF PacksAt
<1>4. Remains(sent, G) /\ G.c + G.run + G.lost <= Len(scal)
  BY <1>2 DEF Shape
<1>5. AList(scal) /\ Len(scal) \in Nat
  BY <1>4, CurIs
<1>6. pack.scal[1] = scal[G.c + 1] /\ IsLeft(Tail(pack.scal), scal, G.c + 1, G.run - 1, G.lost)
  <2> HIDE DEF scal
  <2> QED
    BY <1>f, <1>3, <1>4, <1>5, LeftTail
<1> DEFINE M == [G EXCEPT !.ph = IF G.run + G.lost = 1 THEN "run" ELSE "raw",
                     !.c = @ + 1, !.run = @ - 1, !.pos = @ + 1,
                     !.ref = IF Cur(sent, G).scal[G.c + 1].t = "empty" THEN @ ELSE @ + 1]
<1>7. OverScalar(sent, G, M)
  BY <1>2, <1>3 DEF OverScalar
<1>8. /\ Shape(sent, M) /\ M.depth = G.depth /\ M.k = G.k /\ M.j = G.j
      /\ M.ph = (IF G.run + G.lost = 1 THEN "run" ELSE "raw")
      /\ M.c = G.c + 1 /\ M.run = G.run - 1 /\ M.lost = G.lost /\ M.pos = G.pos + 1
  BY <1>7, OverScalarIs
<1> HIDE DEF M
<1>9. Len(msg') = Len(msg) + 1 /\ msg'[Len(msg) + 1] = x
  BY <1>1, OneMore
<1>10. /\ pack'.rest = pack.rest /\ pack'.item = pack.item
       /\ pack'.run = pack.run - 1 /\ pack'.scal = Tail(pack.scal)
  BY <1>1 DEF IsPack
<1>11. Cur(sent, M) = Cur(sent, G) /\ Begun(sent, M, 1) = Begun(sent, G, 1)
  BY <1>8, SameItem DEF Begun
<1>12. Full(msg', sent, G)
  <2>1. \A q, z : Says(sent, G, q, z) => q = 1 /\ z = x
    BY <1>2, <1>6 DEF Says
  <2>2. Len(msg') = G.pos + 1 /\ msg'[G.pos + 1] = x
    BY <1>2, <1>9
  <2> HIDE DEF x
  <2> QED
    BY <1>f, <2>1, <2>2 DEF Full
<1>13. Len(msg') = M.pos /\ pack'.run = M.run
       /\ IsLeft(pack'.scal, Cur(sent, M).scal, M.c, M.run, M.lost)
  BY <1>2, <1>3, <1>6, <1>8, <1>9, <1>10, <1>11
<1>14. PacksAt(sent, M, phase', pack', msg') \/ WasAt(M, phase', msg')
  <2>1. CASE G.run = 1 /\ G.lost = 0
    <3>1. M.ph = "run" /\ M.run = 0 /\ M.lost = 0 /\ phase' = "packRun"
      BY <1>1, <1>3, <1>8, <2>1
    <3>2. M.c \in 0..Len(Cur(sent, M).scal) /\ AList(Cur(sent, M).scal)
      BY <1>f, <1>4, <1>5, <1>8, <1>11, <2>1
    <3>3. pack'.scal = Rest(sent, M)
      BY <1>13, <3>1, <3>2, LeftAll DEF Rest
    <3> QED
      BY <1>3, <1>10, <1>11, <1>13, <3>1, <3>3 DEF PacksAt
  <2>2. CASE G.run = 1 /\ G.lost # 0
    <3>1. M.ph = "raw" /\ M.run = 0 /\ phase' = "packRun"
      BY <1>f, <1>1, <1>3, <1>8, <2>2
    <3> QED
      BY <1>13, <3>1 DEF WasAt, Broken
  <2>3. CASE G.run # 1
    <3>1. M.ph = "raw" /\ M.run > 0 /\ phase' = "packRaw"
      BY <1>f, <1>1, <1>3, <1>8, <2>3
    <3> QED
      BY <1>3, <1>10, <1>11, <1>13, <3>1 DEF PacksAt
  <2> QED
    BY <2>1, <2>2, <2>3
<1> QED
  BY <1>7, <1>12, <1>14 DEF Goes, Leads

LEMMA PackEndGoes ==
    ASSUME Usual(sent), NEW G, Shape(sent, G), PacksAt(sent, G, phase, pack, msg),
           AList(msg), IsPack(pack), PackEnd
    PROVE  \E M : Goes(sent, G, M)
<1>0. G \in Place
  BY DEF Shape
<1>f. G.pos \in Nat /\ G.c \in Nat /\ G.depth \in {1, 2} /\ G.k \in Nat /\ G.j \in Nat
      /\ Len(msg) = G.pos
  BY <1>0, FieldsAre DEF PacksAt
<1>m. Len(msg') = Len(msg)
  BY NoneMore DEF PackEnd, Emit
<1>1. CASE phase = "packRun"
  <2>1. /\ pack.scal = << >> /\ pack' = pack
        /\ phase' = IF pack.item.kind = "block" THEN "packNum" ELSE "packItem"
    BY <1>1 DEF PackEnd
  <2>2. G.ph = "run"
    BY <1>0, <1>1, FieldsAre DEF PacksAt
  <2>3. /\ pack.item = Cur(sent, G) /\ pack.rest = Begun(sent, G, 1)
        /\ pack.scal = Rest(sent, G)
    BY <2>2 DEF PacksAt
  <2>4. Remains(sent, G) /\ G.c <= Len(Cur(sent, G).scal)
    BY <2>2 DEF Shape
  <2>5. AList(Cur(sent, G).scal) /\ Len(Cur(sent, G).scal) \in Nat
        /\ Cur(sent, G).kind \in {"config", "block"}
    BY <2>4, CurIs
  <2>6. G.c = Len(Cur(sent, G).scal)
    <3>1. G.c \in 0..Len(Cur(sent, G).scal)
      BY <1>f, <2>4, <2>5
    <3> QED
      BY <2>1, <2>3, <2>5, <3>1, SuffixIs DEF Rest
  <2>7. Full(msg', sent, G)
    BY <2>2, <2>5, <2>6 DEF Full, Says
  <2>8. CASE Cur(sent, G).kind = "block"
    <3> DEFINE M == [G EXCEPT !.ph = "num"]
    <3>1. ToBlock(sent, G, M)
      BY <2>2, <2>6, <2>8 DEF ToBlock
    <3>2. /\ M.ph = "num" /\ M.depth = 1 /\ G.depth = 1
          /\ M.k = G.k /\ M.j = G.j /\ M.pos = G.pos
      BY <3>1, ToBlockIs
    <3> HIDE DEF M
    <3>3. Cur(sent, M) = Cur(sent, G) /\ Begun(sent, M, 1) = Begun(sent, G, 1)
      BY <3>2, SameItem DEF Begun
    <3>4. PacksAt(sent, M, phase', pack', msg')
      BY <1>f, <1>m, <2>1, <2>3, <2>8, <3>2, <3>3 DEF PacksAt
    <3> QED
      BY <2>7, <3>1, <3>4 DEF Goes, Leads
  <2>9. CASE Cur(sent, G).kind # "block"
    <3> DEFINE M == IF G.depth = 1 THEN [G EXCEPT !.ph = "item", !.k = @ + 1]
                    ELSE [G EXCEPT !.ph = "item", !.j = @ + 1]
    <3>1. OverConfig(sent, G, M)
      BY <2>2, <2>5, <2>6, <2>9 DEF OverConfig
    <3>2. /\ M.ph = "item" /\ M.depth = G.depth /\ M.pos = G.pos
          /\ M.k = (IF G.depth = 1 THEN G.k + 1 ELSE G.k)
          /\ M.j = (IF G.depth = 1 THEN G.j ELSE G.j + 1)
      BY <3>1, OverConfigIs
    <3> HIDE DEF M
    <3>3. Begun(sent, M, 0) = Begun(sent, G, 1)
      <4>1. CASE G.depth = 1
        <5>1. M.k + 0 = G.k + 1
          BY <1>f, <3>2, <4>1
        <5> QED
          BY <3>2, <4>1, <5>1 DEF Begun
      <4>2. CASE G.depth # 1
        <5>1. M.j + 0 = G.j + 1 /\ M.k = G.k
          BY <1>f, <3>2, <4>2
        <5> QED
          BY <3>2, <4>2, <5>1 DEF Begun
      <4> QED
        BY <4>1, <4>2
    <3>4. PacksAt(sent, M, phase', pack', msg')
      BY <1>f, <1>m, <2>1, <2>3, <2>9, <3>2, <3>3 DEF PacksAt
    <3> QED
      BY <2>7, <3>1, <3>4 DEF Goes, Leads
  <2> QED
    BY <2>8, <2>9
<1>2. CASE phase # "packRun"
  <2>1. /\ phase = "packItem" /\ Last(pack.rest) = << >> /\ Len(pack.rest) > 1
        /\ phase' = phase /\ pack' = [pack EXCEPT !.rest = Front(@)]
    BY <1>2 DEF PackEnd
  <2>2. G.ph = "item"
    BY <1>0, <2>1, FieldsAre DEF PacksAt
  <2>3. pack.rest = Begun(sent, G, 0)
    BY <2>2 DEF PacksAt
  <2>4. G.depth = 2 /\ ~Remains(sent, G)
    BY <1>f, <2>1, <2>3, BegunIs
  <2> DEFINE M == [G EXCEPT !.depth = 1, !.k = @ + 1, !.j = 0]
  <2>5. OverBlock(sent, G, M)
    BY <2>2, <2>4 DEF OverBlock
  <2>6. M.ph = "item" /\ M.depth = 1 /\ M.k = G.k + 1 /\ M.j = 0 /\ M.pos = G.pos
    <3> HIDE DEF M
    <3> QED
      BY <2>5, OverBlockIs
  <2> HIDE DEF M
  <2>7. pack'.rest = Front(pack.rest)
    BY <2>1 DEF IsPack
  <2>8. pack'.rest = Begun(sent, M, 0)
    <3> DEFINE a == Suffix(sent, G.k + 1)
               b == Suffix(sent[G.k + 1].sub, G.j + 0)
    <3>1. pack.rest = <<a, b>>
      BY <2>3, <2>4 DEF Begun
    <3>2. M.k + 0 = G.k + 1
      BY <1>f, <2>6
    <3>3. Begun(sent, M, 0) = <<a>>
      BY <2>6, <3>2 DEF Begun
    <3> HIDE DEF a, b
    <3>4. Front(<<a, b>>) = <<a>>
      BY Two
    <3> QED
      BY <2>7, <3>1, <3>3, <3>4, Zenon
  <2>9. Full(msg', sent, G)
    BY <2>2, <2>4 DEF Full, Says
  <2>10. PacksAt(sent, M, phase', pack', msg')
    BY <1>f, <1>m, <2>1, <2>6, <2>8 DEF PacksAt
  <2> QED
    BY <2>5, <2>9, <2>10 DEF Goes, Leads
<1> QED
  BY <1>1, <1>2

(* A step of the packer keeps what is said.                                *)
LEMMA FullStays ==
    ASSUME NEW s, NEW L, L.pos \in Nat, NEW m1, NEW m2, AList(m1), Extends(m1, m2),
           Full(m1, s, L)
    PROVE  Full(m2, s, L)
<1>1. Len(m1) \in Nat /\ Len(m2) \in Nat /\ Len(m1) <= Len(m2)
  BY ListIs DEF Extends
<1> QED
  BY <1>1 DEF Full, Extends

LEMMA MessageGrows ==
    ASSUME AList(msg), IsPack(pack), Packing
    PROVE  Extends(msg, msg') /\ IsPack(pack') /\ sent' = sent /\ phase' \in PackPhases
<1>1. CASE PackNum
  BY <1>1, OneMore DEF PackNum, Emit, Packing, IsPack, PackPhases
<1>2. CASE PackItem
  BY <1>2, OneMore DEF PackItem, Emit, Packing, IsPack, PackPhases
<1>3. CASE PackDup
  BY <1>3, TwoMore DEF PackDup, Emit, Packing, IsPack, PackPhases
<1>4. CASE PackRaw
  BY <1>4, OneMore DEF PackRaw, Emit, Packing, IsPack, PackPhases
<1>5. CASE PackScalar
  BY <1>5, OneMore DEF PackScalar, Emit, Packing, IsPack, PackPhases
<1>6. CASE PackEnd
  BY <1>6, NoneMore DEF PackEnd, Emit, Packing, IsPack, PackPhases
<1> QED
  BY <1>1, <1>2, <1>3, <1>4, <1>5, <1>6 DEF Packing

(* After a run that announced too much, no scalar comes next.              *)
LEMMA NoScalarNext ==
    ASSUME NEW G, WasAt(G, phase, msg), AList(msg), G.pos \in Nat, Packing
    PROVE  WasAt(G, phase', msg')
<1>0. Len(msg) \in Nat /\ Broken(G)
  BY ListIs DEF WasAt
<1>1. CASE Len(msg) > G.pos /\ msg[G.pos + 1].tok # "scalar"
  <2>1. Extends(msg, msg')
    <3>1. CASE PackNum
      BY <3>1, OneMore DEF PackNum, Emit
    <3>2. CASE PackItem
      BY <3>2, OneMore DEF PackItem, Emit
    <3>3. CASE PackDup
      BY <3>3, TwoMore DEF PackDup, Emit
    <3>4. CASE PackRaw
      BY <3>4, OneMore DEF PackRaw, Emit
    <3>5. CASE PackScalar
      BY <3>5, OneMore DEF PackScalar, Emit
    <3>6. CASE PackEnd
      BY <3>6, NoneMore DEF PackEnd, Emit
    <3> QED
      BY <3>1, <3>2, <3>3, <3>4, <3>5, <3>6 DEF Packing
  <2>2. Len(msg') \in Nat /\ Len(msg) <= Len(msg') /\ G.pos + 1 \in 1..Len(msg)
    BY <1>0, <1>1, <2>1, ListIs DEF Extends
  <2>3. msg'[G.pos + 1] = msg[G.pos + 1]
    BY <2>1, <2>2 DEF Extends
  <2> QED
    BY <1>0, <1>1, <2>2, <2>3 DEF WasAt
<1>2. CASE Len(msg) = G.pos /\ phase # "packRaw"
  <2>1. ASSUME NEW x, x.tok # "scalar", Len(msg') > Len(msg), msg'[Len(msg) + 1] = x
        PROVE  WasAt(G, phase', msg')
    BY <1>0, <1>2, <2>1 DEF WasAt
  <2>2. CASE PackNum
    BY <2>1, <2>2, <1>0, OneMore DEF PackNum, Emit
  <2>3. CASE PackItem
    BY <2>1, <2>3, <1>0, OneMore DEF PackItem, Emit
  <2>4. CASE PackDup
    <3> DEFINE x == [tok |-> "dup", n |-> Clones(pack.scal, 1)]
               y == [tok |-> "scalar", s |-> pack.scal[1]]
    <3>1. msg' = msg \o <<x, y>>
      BY <2>4 DEF PackDup, Emit
    <3>2. x.tok # "scalar"
      OBVIOUS
    <3> HIDE DEF x, y
    <3>3. Len(msg') = Len(msg) + 2 /\ msg'[Len(msg) + 1] = x
      BY <3>1, TwoMore
    <3> QED
      BY <1>0, <2>1, <3>2, <3>3
  <2>5. CASE PackRaw
    BY <2>1, <2>5, <1>0, OneMore DEF PackRaw, Emit
  <2>6. CASE PackEnd
    BY <1>0, <1>2, <2>6, NoneMore DEF PackEnd, Emit, WasAt
  <2> QED
    BY <1>2, <2>2, <2>3, <2>4, <2>5, <2>6 DEF Packing, PackScalar
<1> QED
  BY <1>0, <1>1, <1>2 DEF WasAt

(* All that is packed leads from the start to the packer, or to where it   *)
(* left out a scalar.                                                      *)
Packs(P, G) ==
    /\ Origin \in P /\ G \in P
    /\ \A L \in P : Shape(sent, L)
    /\ \A L \in P : L = G \/ (Full(msg, sent, L) /\ \E M \in P : Leads(sent, L, M))
    /\ PacksAt(sent, G, phase, pack, msg) \/ WasAt(G, phase, msg)

PackInv ==
    phase \in PackPhases =>
      /\ AList(msg) /\ IsPack(pack)
      /\ Usual(sent) => \E P, G : Packs(P, G)

LEMMA PackingKeeps ==
    ASSUME PackInv, Packing
    PROVE  PackInv'
<1>1. phase \in PackPhases
  BY DEF Packing, PackNum, PackItem, PackDup, PackRaw, PackScalar, PackEnd, PackPhases
<1>2. AList(msg) /\ IsPack(pack)
  BY <1>1 DEF PackInv
<1>3. Extends(msg, msg') /\ IsPack(pack') /\ sent' = sent /\ phase' \in PackPhases
  BY <1>2, MessageGrows
<1>4. AList(msg')
  BY <1>3 DEF Extends
<1>5. ASSUME Usual(sent) PROVE \E P, G : Packs(P, G)'
  <2>1. PICK P, G : Packs(P, G)
    BY <1>1, <1>5 DEF PackInv
  <2>2. /\ Origin \in P /\ G \in P /\ \A L \in P : Shape(sent, L)
        /\ \A L \in P : L = G \/ (Full(msg, sent, L) /\ \E M \in P : Leads(sent, L, M))
    BY <2>1 DEF Packs
  <2>3. ASSUME NEW L \in P PROVE L.pos \in Nat
    BY <2>2, FieldsAre DEF Shape
  <2>4. ASSUME NEW L \in P, L # G PROVE Full(msg', sent, L)
    BY <1>2, <1>3, <2>2, <2>3, <2>4, FullStays
  <2>5. CASE PacksAt(sent, G, phase, pack, msg)
    <3>1. \E M : Goes(sent, G, M)
      BY <1>2, <1>5, <2>2, <2>5, PackNumGoes, PackItemGoes, PackDupGoes, PackRawGoes,
         PackScalarGoes, PackEndGoes DEF Packing
    <3>2. PICK M : Goes(sent, G, M)
      BY <3>1
    <3>3. Leads(sent, G, M) /\ Full(msg', sent, G)
          /\ (PacksAt(sent, M, phase', pack', msg') \/ WasAt(M, phase', msg'))
      BY <3>2 DEF Goes
    <3>4. Shape(sent, M)
      BY <1>5, <2>2, <3>3, LeadsIn
    <3> DEFINE Q == P \cup {M}
    <3>5. \A L \in Q : L = M \/ (Full(msg', sent, L) /\ \E N \in Q : Leads(sent, L, N))
      BY <2>2, <2>4, <3>3
    <3>6. Packs(Q, M)'
      BY <1>3, <2>2, <3>3, <3>4, <3>5 DEF Packs
    <3> QED
      BY <3>6
  <2>6. CASE WasAt(G, phase, msg)
    <3>1. WasAt(G, phase', msg')
      BY <1>2, <2>2, <2>3, <2>6, NoScalarNext
    <3>2. \A L \in P : L = G \/ (Full(msg', sent, L) /\ \E M \in P : Leads(sent, L, M))
      BY <2>2, <2>4
    <3>3. Packs(P, G)'
      BY <1>3, <2>2, <3>1, <3>2 DEF Packs
    <3> QED
      BY <3>3
  <2> QED
    BY <2>1, <2>5, <2>6 DEF Packs
<1> QED
  BY <1>3, <1>4, <1>5 DEF PackInv

(* What has arrived of it is there.                                        *)
Said(m, s, L) ==
    /\ \A q, x : Says(s, L, q, x) /\ L.pos + q <= Len(m) => m[L.pos + q] = x
    /\ Broken(L) /\ L.pos + 1 <= Len(m) => m[L.pos + 1].tok # "scalar"

(* P holds the places from the start to the end of the list, or to a run   *)
(* that is not complete.                                                   *)
Charted(s, m, P) ==
    /\ Origin \in P
    /\ \A L \in P : /\ Shape(s, L) /\ Said(m, s, L)
                    /\ Final(s, L) \/ Broken(L) \/ \E M \in P : Leads(s, L, M)

LEMMA SendCharts ==
    ASSUME PackInv, Send, Usual(sent)
    PROVE  AList(msg') /\ \E P : Charted(sent, msg', P)
<1>1. phase \in PackPhases /\ phase = "packItem" /\ pack.rest = <<<< >>>>
  BY DEF Send, AllPacked, PackPhases
<1>2. AList(msg) /\ IsPack(pack)
  BY <1>1 DEF PackInv
<1>3. PICK P, G : Packs(P, G)
  BY <1>1 DEF PackInv
<1>0. PICK n \in 1..Len(msg) : msg' = SubSeq(msg, 1, n)
  BY DEF Send
<1>4. n \in 0..Len(msg) /\ Len(msg) \in Nat
  BY <1>2, ListIs
<1>5. AList(msg') /\ Len(msg') = n /\ \A i \in 1..n : msg'[i] = msg[i]
  <2> DEFINE S == ToSet(msg)
  <2>1. msg \in Seq(S)
    BY <1>2 DEF AList
  <2> HIDE DEF S
  <2>2. SubSeq(msg, 1, n) \in Seq(S) /\ Len(SubSeq(msg, 1, n)) = n
        /\ \A i \in 1..n : SubSeq(msg, 1, n)[i] = msg[i]
    BY <1>4, <2>1
  <2>3. AList(SubSeq(msg, 1, n))
    BY <2>2, SeqIsList
  <2> QED
    BY <1>0, <2>2, <2>3
<1>6. ASSUME NEW L \in P PROVE L.pos \in Nat
  BY <1>3, FieldsAre DEF Packs, Shape
<1>7. ASSUME NEW L \in P, Full(msg, sent, L) PROVE Said(msg', sent, L)
  <2>1. ASSUME NEW q, NEW x, Says(sent, L, q, x), L.pos + q <= Len(msg')
        PROVE  msg'[L.pos + q] = x
    <3>1. L.pos + q \in 1..Len(msg) /\ msg[L.pos + q] = x
      BY <1>7, <2>1 DEF Full
    <3>2. L.pos + q \in 1..n
      BY <1>4, <1>5, <2>1, <3>1
    <3> QED
      BY <1>5, <3>1, <3>2
  <2>2. CASE Broken(L)
    <3>1. L.ph = "raw" /\ ~(L.run > 0) /\ L.run = 0
      BY <2>2 DEF Broken
    <3>2. \A M : ~Leads(sent, L, M)
      BY <3>1 DEF Leads, ToItems, ToRun, OverClones, ToRaw, OverScalar, ToBlock, OverConfig,
                  OverBlock
    <3>3. L = G
      BY <1>3, <3>2 DEF Packs
    <3>4. ~PacksAt(sent, G, phase, pack, msg)
      BY <3>1, <3>3 DEF PacksAt
    <3>5. WasAt(G, phase, msg)
      BY <1>3, <3>4 DEF Packs
    <3>6. L.pos + 1 <= Len(msg') => msg'[L.pos + 1].tok # "scalar"
      BY <1>4, <1>5, <1>6, <3>3, <3>5 DEF WasAt
    <3> QED
      BY <2>1, <3>6 DEF Said
  <2> QED
    BY <2>1, <2>2 DEF Said
<1>8. Shape(sent, G) /\ Said(msg', sent, G) /\ (Final(sent, G) \/ Broken(G))
  <2>0. Shape(sent, G) /\ G \in P /\ G.pos \in Nat
    BY <1>3, <1>6 DEF Packs
  <2>1. CASE PacksAt(sent, G, phase, pack, msg)
    <3>1. G.ph = "item" /\ pack.rest = Begun(sent, G, 0)
      BY <1>1, <2>0, <2>1, FieldsAre DEF PacksAt, Shape
    <3>2. Len(pack.rest) = 1 /\ Last(pack.rest) = << >>
      BY <1>1, Single
    <3>3. G.depth = 1 /\ ~Remains(sent, G)
      BY <2>0, <3>1, <3>2, BegunIs
    <3>4. Said(msg', sent, G)
      BY <3>1, <3>3 DEF Said, Says, Broken
    <3> QED
      BY <2>0, <3>1, <3>3, <3>4 DEF Final
  <2>2. CASE WasAt(G, phase, msg)
    <3>1. Broken(G) /\ G.ph = "raw" /\ ~(G.run > 0)
      BY <2>2 DEF WasAt, Broken
    <3>2. G.pos + 1 <= Len(msg') => msg'[G.pos + 1].tok # "scalar"
      BY <1>4, <1>5, <2>0, <2>2 DEF WasAt
    <3>3. Said(msg', sent, G)
      BY <3>1, <3>2 DEF Said, Says
    <3> QED
      BY <2>0, <3>1, <3>3
  <2> QED
    BY <1>3, <2>1, <2>2 DEF Packs
<1>9. Charted(sent, msg', P)
  BY <1>3, <1>7, <1>8 DEF Charted, Packs
<1> QED
  BY <1>5, <1>9

-----------------------------------------------------------------------------
(* Merging a snippet: the tree before it is in effect.                     *)

(* Nothing is written before the second pass.                              *)
DryInv ==
    /\ pass \in {0, 1}
    /\ phase = "refused" => pass = 0
    /\ pass = 0 /\ phase \in {"num", "item", "run", "raw", "refused"} => tree = before

Reads == {"num", "item", "run", "raw"}

LEMMA DryRunsClean ==
    ASSUME DryInv, [SnipNext]_snipVars
    PROVE  DryInv'
<1>1. CASE Pick
  BY <1>1 DEF Pick, Afresh, DryInv
<1>2. CASE Packing
  BY <1>2 DEF Packing, PackNum, PackItem, PackDup, PackRaw, PackScalar, PackEnd, DryInv
<1>3. CASE Send
  BY <1>3 DEF Send, Afresh, DryInv
<1>4. CASE ReadNum
  BY <1>4 DEF ReadNum, Fails, treeVars, DryInv
<1>5. CASE ReadItem
  BY <1>5 DEF ReadItem, Fails, treeVars, DryInv
<1>6. CASE ReadDup
  BY <1>6 DEF ReadDup, Fails, treeVars, DryInv
<1>7. CASE ReadRaw
  BY <1>7 DEF ReadRaw, Fails, treeVars, DryInv
<1>8. CASE ReadScalar
  BY <1>8 DEF ReadScalar, Fails, treeVars, DryInv
<1>9. CASE EnterBlock
  BY <1>9 DEF EnterBlock, Fails, treeVars, DryInv
<1>10. CASE EndConfig
  BY <1>10 DEF EndConfig, Writing, Fails, treeVars, DryInv
<1>11. CASE EndBlock
  BY <1>11 DEF EndBlock, Fails, treeVars, DryInv
<1>12. CASE UNCHANGED snipVars
  BY <1>12 DEF snipVars, treeVars, readVars, DryInv
<1>13. CASE TooBig
  BY <1>13 DEF TooBig, treeVars, DryInv
<1> QED
  BY <1>1, <1>2, <1>3, <1>4, <1>5, <1>6, <1>7, <1>8, <1>9, <1>10, <1>11, <1>12, <1>13
     DEF SnipNext

(* A list of items that is refused leaves the tree as it was, whatever the *)
(* user sends and wherever the datagram ends.                              *)
THEOREM RefusalIsClean == SnipSpec => []RefusedLeavesNoTrace
<1>1. SnipInit => DryInv
  BY DEF SnipInit, DryInv
<1>2. DryInv /\ [SnipNext]_snipVars => DryInv'
  BY DryRunsClean
<1>3. DryInv => RefusedLeavesNoTrace
  BY DEF DryInv, RefusedLeavesNoTrace
<1> QED
  BY <1>1, <1>2, <1>3, PTL DEF SnipSpec

-----------------------------------------------------------------------------
(* Reading a list.                                                         *)

(* The block a place is in and the path of its item.                       *)
BlockAt(s, L) == IF L.depth = 1 THEN "top" ELSE s[L.k + 1].name
PathAt(s, L) == <<BlockAt(s, L), Cur(s, L).name>>

Names(l, n) == {l[a].name : a \in 1..n}
Frame(at, left, seen) == [at |-> at, left |-> left, seen |-> seen, saved |-> << >>]
Header(x) == [kind |-> x.kind, name |-> x.name, num |-> Len(x.scal)]

(* The reader's stack when b items are begun.                              *)
InTop(s, L) == Frame("top", Len(s) - (L.k + 1), Names(s, L.k + 1))
Frames(s, L, b) ==
    LET f == Frame(BlockAt(s, L), Len(ListAt(s, L)) - (DoneAt(L) + b),
                   Names(ListAt(s, L), DoneAt(L) + b))
    IN  IF L.depth = 1 THEN <<f>> ELSE <<InTop(s, L), f>>

(* What the reader holds of c scalars: it drops an empty one.              *)
Taken(l, c) == IF l = <<Empty>> THEN << >> ELSE SubSeq(l, 1, c)

(* The reader is there.                                                    *)
ReadsAt(L) ==
    /\ pos = L.pos
    /\ phase = IF L.ph = "start" THEN "num" ELSE L.ph
    /\ L.ph = "start" => stack = << >>
    /\ L.ph = "num" => stack = Frames(sent, L, 1) /\ item = Header(Cur(sent, L))
    /\ L.ph = "item" => stack = Frames(sent, L, 0)
    /\ L.ph \in {"start", "num", "item"} => list = << >>
    /\ L.ph \in {"run", "raw"} =>
         /\ stack = Frames(sent, L, 1) /\ item = Header(Cur(sent, L))
         /\ list = Taken(Cur(sent, L).scal, L.c) /\ ref = L.ref
         /\ Cur(sent, L).kind = "config" => PathAt(sent, L) \in Items
    /\ L.ph = "run" => got = L.c
    /\ L.ph = "raw" => raw = L.run + L.lost /\ got = L.c + L.run + L.lost

(* The names of what is being read are new.                                *)
Fresh(s, L) ==
    /\ L.depth = 2 \/ L.ph \in {"num", "run", "raw"} => s[L.k + 1].name \notin Names(s, L.k)
    /\ L.depth = 2 /\ L.ph \in {"run", "raw"} =>
         s[L.k + 1].sub[L.j + 1].name \notin Names(s[L.k + 1].sub, L.j)

(* The reader can go on from there, with the tree b.                       *)
Passed(m, s, b, L) ==
    /\ \A q, x : Says(s, L, q, x) => L.pos + q <= Len(m)
    /\ ~Broken(L)
    /\ Final(s, L) => Len(m) = L.pos
    /\ L.ph = "item" /\ Remains(s, L) =>
         /\ Cur(s, L).name \notin Names(ListAt(s, L), DoneAt(L))
         /\ Cur(s, L).kind = "config" => PathAt(s, L) \in Items
    /\ L.ph = "run" /\ L.c < Len(Cur(s, L).scal) =>
         \A j \in 1..(Clones(Rest(s, L), 1) - 1) :
           L.ref + j - 1 <= Len(b[PathAt(s, L)]) =>
             b[PathAt(s, L)][L.ref + j - 1].t = Cur(s, L).scal[L.c + 1].t
    /\ L.ph = "raw" /\ Cur(s, L).scal # <<Empty>> =>
         /\ L.ref <= Len(b[PathAt(s, L)])
         /\ b[PathAt(s, L)][L.ref].t = Cur(s, L).scal[L.c + 1].t
    /\ L.ph = "run" /\ Cur(s, L).kind = "block" =>
         /\ PathAt(s, L) \in Items /\ Cur(s, L).name \in Blocks
         /\ Len(b[PathAt(s, L)]) = 0

(* A name more.                                                            *)
LEMMA NameMore ==
    ASSUME NEW l, NEW n \in Nat
    PROVE  /\ Names(l, n + 1) = Names(l, n) \cup {l[n + 1].name}
           /\ Names(l, 0) = {}
<1>1. 1..(n + 1) = (1..n) \cup {n + 1} /\ 1..0 = {}
  OBVIOUS
<1> QED
  BY <1>1 DEF Names

(* A frame changes.                                                        *)
Begins(f, x) == [f EXCEPT !.left = @ - 1, !.seen = @ \cup {x}]

LEMMA FrameChanges ==
    ASSUME NEW at, NEW left, NEW seen, NEW x
    PROVE  Begins(Frame(at, left, seen), x) = Frame(at, left - 1, seen \cup {x})
<1> SUFFICES ASSUME NEW f, f = Frame(at, left, seen), NEW g, g = Begins(f, x)
             PROVE  g = Frame(at, left - 1, seen \cup {x})
  OBVIOUS
<1> QED
  BY DEF Frame, Begins

LEMMA OneBegins ==
    ASSUME NEW f, NEW x, "left" \in DOMAIN f
    PROVE  [<<f>> EXCEPT ![1].left = @ - 1, ![1].seen = @ \cup {x}] = <<Begins(f, x)>>
<1> DEFINE g == [f EXCEPT !.left = f.left - 1]
<1>1. [<<f>> EXCEPT ![1].left = @ - 1] = <<g>> /\ g.seen = f.seen
  OBVIOUS
<1>2. [g EXCEPT !.seen = g.seen \cup {x}] = Begins(f, x)
  BY DEF Begins
<1> HIDE DEF g
<1>3. [<<g>> EXCEPT ![1].seen = @ \cup {x}] = <<[g EXCEPT !.seen = g.seen \cup {x}]>>
  OBVIOUS
<1> QED
  BY <1>1, <1>2, <1>3

LEMMA SecondBegins ==
    ASSUME NEW f, NEW x, NEW a, "left" \in DOMAIN f
    PROVE  [<<a, f>> EXCEPT ![2].left = @ - 1, ![2].seen = @ \cup {x}] = <<a, Begins(f, x)>>
<1> DEFINE g == [f EXCEPT !.left = f.left - 1]
<1>1. [<<a, f>> EXCEPT ![2].left = @ - 1] = <<a, g>> /\ g.seen = f.seen
  OBVIOUS
<1>2. [g EXCEPT !.seen = g.seen \cup {x}] = Begins(f, x)
  BY DEF Begins
<1> HIDE DEF g
<1>3. [<<a, g>> EXCEPT ![2].seen = @ \cup {x}] = <<a, [g EXCEPT !.seen = g.seen \cup {x}]>>
  OBVIOUS
<1> QED
  BY <1>1, <1>2, <1>3

(* The innermost frame.                                                    *)
LEMMA FramesAre ==
    ASSUME NEW s, Usual(s), NEW L, Shape(s, L), NEW b \in {0, 1}
    PROVE  /\ Frames(s, L, b) # << >>
           /\ Len(Frames(s, L, b)) = L.depth
           /\ Frames(s, L, b)[Len(Frames(s, L, b))]
              = Frame(BlockAt(s, L), Len(ListAt(s, L)) - (DoneAt(L) + b),
                      Names(ListAt(s, L), DoneAt(L) + b))
<1> DEFINE f == Frame(BlockAt(s, L), Len(ListAt(s, L)) - (DoneAt(L) + b),
                      Names(ListAt(s, L), DoneAt(L) + b))
           w == InTop(s, L)
<1>1. L.depth \in {1, 2}
  BY FieldsAre DEF Shape
<1>2. Frames(s, L, b) = IF L.depth = 1 THEN <<f>> ELSE <<w, f>>
  BY DEF Frames
<1> HIDE DEF f, w
<1>3. CASE L.depth = 1
  BY <1>2, <1>3, Single DEF f
<1>4. CASE L.depth = 2
  <2>1. Frames(s, L, b) = <<w, f>>
    BY <1>2, <1>4
  <2>2. Len(<<w, f>>) = 2 /\ <<w, f>>[2] = f /\ <<w, f>> # << >>
    BY Two
  <2> QED
    BY <1>4, <2>1, <2>2 DEF f
<1> QED
  BY <1>1, <1>3, <1>4

(* The item begun, the innermost frame has one item less to go.            *)
LEMMA FramesChange ==
    ASSUME NEW s, Usual(s), NEW L, Shape(s, L), NEW r, r = Frames(s, L, 0)
    PROVE  [r EXCEPT ![Len(r)].left = @ - 1, ![Len(r)].seen = @ \cup {Cur(s, L).name}]
           = Frames(s, L, 1)
<1> DEFINE at == BlockAt(s, L)
           left == Len(ListAt(s, L)) - (DoneAt(L) + 0)
           seen == Names(ListAt(s, L), DoneAt(L) + 0)
           f == Frame(at, left, seen)
           x == Cur(s, L).name
           new == Frame(at, left - 1, seen \cup {x})
           w == InTop(s, L)
           g == Frame(BlockAt(s, L), Len(ListAt(s, L)) - (DoneAt(L) + 1),
                      Names(ListAt(s, L), DoneAt(L) + 1))
<1>1. L.depth \in {1, 2} /\ DoneAt(L) \in Nat /\ Len(ListAt(s, L)) \in Nat
  BY ItemsAre, FieldsAre DEF Shape
<1>2. r = (IF L.depth = 1 THEN <<f>> ELSE <<w, f>>) /\ Len(r) = L.depth
  BY FramesAre DEF Frames
<1>3. Frames(s, L, 1) = IF L.depth = 1 THEN <<g>> ELSE <<w, g>>
  BY DEF Frames
<1>4. left - 1 = Len(ListAt(s, L)) - (DoneAt(L) + 1)
      /\ seen \cup {x} = Names(ListAt(s, L), DoneAt(L) + 1)
  <2>1. DoneAt(L) + 0 = DoneAt(L)
    BY <1>1
  <2>2. seen \cup {x} = Names(ListAt(s, L), DoneAt(L) + 1)
    BY <1>1, <2>1, NameMore DEF Cur
  <2> QED
    BY <1>1, <2>1, <2>2
<1> HIDE DEF at, left, seen, x, w
<1>5. /\ [<<f>> EXCEPT ![1].left = @ - 1, ![1].seen = @ \cup {x}] = <<new>>
      /\ [<<w, f>> EXCEPT ![2].left = @ - 1, ![2].seen = @ \cup {x}] = <<w, new>>
  <2>1. "left" \in DOMAIN f
    BY DEF Frame
  <2>2. Begins(f, x) = new
    BY FrameChanges
  <2> HIDE DEF f, new
  <2>3. [<<f>> EXCEPT ![1].left = @ - 1, ![1].seen = @ \cup {x}] = <<Begins(f, x)>>
    BY <2>1, OneBegins
  <2>4. [<<w, f>> EXCEPT ![2].left = @ - 1, ![2].seen = @ \cup {x}] = <<w, Begins(f, x)>>
    <3>1. \A a : [<<a, f>> EXCEPT ![2].left = @ - 1, ![2].seen = @ \cup {x}] = <<a, Begins(f, x)>>
      BY <2>1, SecondBegins
    <3> QED
      BY <3>1
  <2> QED
    BY <2>2, <2>3, <2>4
<1>6. new = g
  BY <1>4 DEF at
<1> HIDE DEF f, new, g
<1>7. CASE L.depth = 1
  BY <1>2, <1>3, <1>5, <1>6, <1>7 DEF x
<1>8. CASE L.depth = 2
  BY <1>2, <1>3, <1>5, <1>6, <1>8 DEF x
<1> QED
  BY <1>1, <1>7, <1>8

(* At the same item of the same block.                                     *)
LEMMA SameFrames ==
    ASSUME NEW s, NEW L, NEW M, M.depth = L.depth, M.k = L.k, M.j = L.j
    PROVE  /\ PathAt(s, M) = PathAt(s, L) /\ BlockAt(s, M) = BlockAt(s, L)
           /\ Frames(s, M, 1) = Frames(s, L, 1) /\ Frames(s, M, 0) = Frames(s, L, 0)
BY DEF PathAt, BlockAt, Frames, InTop, ListAt, DoneAt, Cur

(* The reader at a place of what the user sent, the item as it was.        *)
Reading(L) ==
    /\ Usual(sent) /\ Shape(sent, L) /\ Said(msg, sent, L) /\ AList(msg) /\ pass \in {0, 1}
    /\ ReadsAt(L) /\ Fresh(sent, L) /\ \A p \in Items : AList(before[p])
    /\ L.ph \in {"run", "raw"} /\ PathAt(sent, L) \in Items =>
         tree[PathAt(sent, L)] = before[PathAt(sent, L)]

(* The item there is more than the tree has room for.                      *)
Excess(p, l) ==
    \/ Len(l) > Len(before[p])
    \/ \E k \in 1..Len(l) : \A j \in 1..Len(before[p]) : before[p][j].i # l[k].i
Caused(L) ==
    /\ Remains(sent, L) /\ Cur(sent, L).kind = "config" /\ PathAt(sent, L) \in Items
    /\ Excess(PathAt(sent, L), Cur(sent, L).scal)

(* A step of the reader from there.                                        *)
Stops(L) ==
    \/ phase' = "refused" /\ pass = 0
    \/ phase' = "died" /\ pass = 1 /\ (~Passed(msg, sent, before, L) \/ Caused(L))
    \/ phase' = "crashed" /\ Caused(L)
Moves(L) ==
    /\ Passed(msg, sent, before, L) /\ ~Final(sent, L) /\ phase' \in Reads /\ pass' = pass
    /\ \A M : Leads(sent, L, M) => ReadsAt(M)' /\ Fresh(sent, M)

LEMMA TokenIs ==
    ASSUME NEW L, Reading(L), NEW q \in {1, 2}, NEW x, Says(sent, L, q, x)
    PROVE  /\ L.pos \in Nat /\ pos = L.pos /\ Len(msg) \in Nat
           /\ pos + q <= Len(msg) => msg[pos + q] = x
           /\ ~(pos + q <= Len(msg)) => ~Passed(msg, sent, before, L)
<1>1. L.pos \in Nat /\ pos = L.pos /\ Len(msg) \in Nat
  BY FieldsAre, ListIs DEF Reading, Shape, ReadsAt
<1> QED
  BY <1>1 DEF Reading, Said, Passed

LEMMA FailsStops ==
    ASSUME NEW L, Reading(L), Fails, ~Passed(msg, sent, before, L) \/ Caused(L)
    PROVE  Stops(L)
BY DEF Reading, Fails, Stops

LEMMA ReadNumFrom ==
    ASSUME NEW L, Reading(L), ReadNum
    PROVE  (Stops(L) \/ Moves(L)) /\ UNCHANGED treeVars
<1> DEFINE n == IF L.ph = "start" THEN Len(sent) ELSE Len(sent[L.k + 1].sub)
           x == [tok |-> "num", n |-> n]
<1>1. phase = "num" /\ L \in Place /\ Usual(sent) /\ Shape(sent, L) /\ ReadsAt(L)
      /\ Fresh(sent, L)
  BY DEF ReadNum, Reading, Shape
<1>2. L.ph \in {"start", "num"}
  BY <1>1, FieldsAre DEF ReadsAt
<1>3. Says(sent, L, 1, x)
  BY <1>2 DEF Says
<1>4. /\ L.pos \in Nat /\ pos = L.pos /\ Len(msg) \in Nat
      /\ pos + 1 <= Len(msg) => msg[pos + 1] = x
      /\ ~(pos + 1 <= Len(msg)) => ~Passed(msg, sent, before, L)
  BY <1>3, TokenIs
<1>5. CASE ~More("num")
  <2>1. Fails /\ UNCHANGED treeVars
    BY <1>5 DEF ReadNum, Fails
  <2>2. ~(pos + 1 <= Len(msg))
    BY <1>4, <1>5 DEF More
  <2> QED
    BY <1>4, <2>1, <2>2, FailsStops
<1>6. CASE More("num")
  <2>1. /\ stack' = Append(stack, [at |-> Top, left |-> Tok.n, seen |-> {}, saved |-> list])
        /\ pos' = pos + 1 /\ phase' = "item" /\ list' = << >>
        /\ UNCHANGED <<treeVars, pass>> /\ pos + 1 <= Len(msg)
    BY <1>4, <1>6 DEF ReadNum, More
  <2>2. Tok.n = n /\ list = << >>
    BY <1>1, <1>2, <1>4, <2>1 DEF Tok, ReadsAt
  <2>3. stack' = Append(stack, Frame(Top, n, {}))
    BY <2>1, <2>2 DEF Frame
  <2>4. ASSUME NEW M, Leads(sent, L, M) PROVE ReadsAt(M)' /\ Fresh(sent, M)
    <3>1. ToItems(sent, L, M)
      BY <1>2, <2>4 DEF Leads, ToRun, OverClones, ToRaw, OverScalar, ToBlock, OverConfig,
                        OverBlock
    <3>2. /\ Shape(sent, M) /\ M.ph = "item" /\ M.k = L.k /\ M.j = L.j /\ M.pos = L.pos + 1
          /\ L.ph = "start" => M.depth = 1 /\ L = Origin
          /\ L.ph = "num" => M.depth = 2
      BY <1>1, <3>1, ToItemsIs
    <3>3. CASE L.ph = "start"
      <4>1. stack' = <<Frame("top", Len(sent), {})>>
        BY <1>1, <2>3, <3>3 DEF ReadsAt, Top
      <4>2. M.depth = 1 /\ M.k = 0
        BY <3>2, <3>3 DEF Origin
      <4>3. Len(sent) \in Nat /\ ListAt(sent, M) = sent /\ DoneAt(M) = 0
            /\ BlockAt(sent, M) = "top"
        BY <1>1, <4>2, ItemsAre DEF ListAt, DoneAt, BlockAt
      <4>4. Len(sent) - (0 + 0) = Len(sent) /\ 0 + 0 = 0 /\ Names(sent, 0) = {}
        BY <4>3, NameMore
      <4>5. Frames(sent, M, 0) = <<Frame("top", Len(sent), {})>>
        BY <4>2, <4>3, <4>4 DEF Frames
      <4> QED
        BY <1>4, <2>1, <3>2, <4>1, <4>2, <4>5 DEF ReadsAt, treeVars, Fresh
    <3>4. CASE L.ph = "num"
      <4>1. L.depth = 1 /\ L.k \in Nat /\ L.j = 0 /\ M.depth = 2
        BY <1>1, <3>2, <3>4, FieldsAre DEF Shape
      <4>2. stack = <<InTop(sent, L)>> /\ stack # << >>
        <5>1. stack = Frames(sent, L, 1)
          BY <1>1, <3>4 DEF ReadsAt
        <5>2. stack = <<InTop(sent, L)>>
          BY <4>1, <5>1 DEF Frames, InTop, BlockAt, ListAt, DoneAt
        <5> QED
          BY <5>2, Single
      <4>3. Top = sent[L.k + 1].name
        BY <1>1, <3>4, <4>1, <4>2 DEF Top, ReadsAt, Header, Cur, ListAt, DoneAt
      <4>4. n = Len(sent[L.k + 1].sub) /\ n \in Nat
        <5>1. IsBlock(sent[M.k + 1]) /\ M.k = L.k
          BY <1>1, <3>2, <4>1, ItemsAre
        <5> QED
          BY <3>4, <5>1, ListIs DEF IsBlock
      <4> HIDE DEF n
      <4>5. stack' = <<InTop(sent, L), Frame(sent[L.k + 1].name, n, {})>>
        BY <2>3, <4>2, <4>3, Two
      <4>6. /\ ListAt(sent, M) = sent[L.k + 1].sub /\ DoneAt(M) = 0
            /\ BlockAt(sent, M) = sent[L.k + 1].name
            /\ InTop(sent, M) = InTop(sent, L)
        BY <3>2, <4>1 DEF ListAt, DoneAt, BlockAt, InTop
      <4>7. n - (0 + 0) = n /\ 0 + 0 = 0 /\ Names(sent[L.k + 1].sub, 0) = {}
        BY <4>4, NameMore
      <4>8. Frames(sent, M, 0) = stack'
        <5>1. Len(ListAt(sent, M)) - (DoneAt(M) + 0) = n
              /\ Names(ListAt(sent, M), DoneAt(M) + 0) = {}
          BY <4>4, <4>6, <4>7
        <5>2. M.depth # 1
          BY <4>1
        <5> QED
          BY <4>5, <4>6, <5>1, <5>2 DEF Frames
      <4>9. Fresh(sent, M)
        BY <1>1, <3>2, <3>4 DEF Fresh
      <4>10. sent' = sent
        BY <2>1 DEF treeVars
      <4> QED
        BY <1>4, <2>1, <3>2, <4>8, <4>9, <4>10 DEF ReadsAt
    <3> QED
      BY <1>2, <3>3, <3>4
  <2>5. Passed(msg, sent, before, L) /\ ~Final(sent, L)
    <3>1. ASSUME NEW q, NEW y, Says(sent, L, q, y) PROVE L.pos + q <= Len(msg)
      BY <1>2, <1>4, <2>1, <3>1 DEF Says
    <3> QED
      BY <1>2, <3>1 DEF Passed, Final, Broken
  <2> QED
    BY <2>1, <2>4, <2>5 DEF Moves, Reads
<1> QED
  BY <1>5, <1>6

(* What the reader sees of the block it is in.                             *)
LEMMA HereIs ==
    ASSUME NEW L, Reading(L), L.ph \in {"item", "run", "raw"},
           NEW b, b = IF L.ph = "item" THEN 0 ELSE 1
    PROVE  /\ stack = Frames(sent, L, b) /\ stack # << >> /\ Len(stack) = L.depth
           /\ Here.at = BlockAt(sent, L)
           /\ Here.left = Len(ListAt(sent, L)) - (DoneAt(L) + b)
           /\ Here.seen = Names(ListAt(sent, L), DoneAt(L) + b)
           /\ Here.saved = << >>
           /\ DoneAt(L) \in 0..Len(ListAt(sent, L)) /\ Len(ListAt(sent, L)) \in Nat
<1>1. Usual(sent) /\ Shape(sent, L) /\ stack = Frames(sent, L, b) /\ b \in {0, 1}
  BY DEF Reading, ReadsAt
<1>2. /\ stack # << >> /\ Len(stack) = L.depth
      /\ Here = Frame(BlockAt(sent, L), Len(ListAt(sent, L)) - (DoneAt(L) + b),
                      Names(ListAt(sent, L), DoneAt(L) + b))
  BY <1>1, FramesAre DEF Here
<1>3. DoneAt(L) \in 0..Len(ListAt(sent, L)) /\ Len(ListAt(sent, L)) \in Nat
  BY <1>1, ItemsAre
<1> QED
  BY <1>1, <1>2, <1>3 DEF Frame

LEMMA ReadItemFrom ==
    ASSUME NEW L, Reading(L), ReadItem
    PROVE  (Stops(L) \/ Moves(L)) /\ UNCHANGED treeVars
<1> DEFINE c == Cur(sent, L)
           x == [tok |-> "item", kind |-> c.kind, name |-> c.name, num |-> Len(c.scal)]
<1>1. phase = "item" /\ L \in Place /\ Usual(sent) /\ Shape(sent, L) /\ ReadsAt(L)
      /\ Fresh(sent, L) /\ Here.left > 0
  BY DEF ReadItem, Reading, Shape
<1>2. L.ph = "item" /\ L.depth \in {1, 2}
  BY <1>1, FieldsAre DEF ReadsAt
<1>3. /\ stack = Frames(sent, L, 0)
      /\ Here.at = BlockAt(sent, L)
      /\ Here.left = Len(ListAt(sent, L)) - (DoneAt(L) + 0)
      /\ Here.seen = Names(ListAt(sent, L), DoneAt(L) + 0)
      /\ DoneAt(L) \in 0..Len(ListAt(sent, L)) /\ Len(ListAt(sent, L)) \in Nat
  BY <1>2, HereIs
<1>4. DoneAt(L) + 0 = DoneAt(L) /\ Remains(sent, L)
  BY <1>1, <1>3 DEF Remains
<1>5. Says(sent, L, 1, x)
  BY <1>2, <1>4 DEF Says
<1>6. /\ L.pos \in Nat /\ pos = L.pos /\ Len(msg) \in Nat
      /\ pos + 1 <= Len(msg) => msg[pos + 1] = x
      /\ ~(pos + 1 <= Len(msg)) => ~Passed(msg, sent, before, L)
  BY <1>5, TokenIs
<1>7. CASE ~More("item")
  <2>1. Fails /\ UNCHANGED treeVars
    BY <1>7 DEF ReadItem, Fails
  <2>2. ~(pos + 1 <= Len(msg))
    BY <1>6, <1>7 DEF More
  <2> QED
    BY <1>6, <2>1, <2>2, FailsStops
<1>8. CASE More("item")
  <2>1. pos + 1 <= Len(msg)
    BY <1>6, <1>8 DEF More
  <2>2. Tok.name = c.name /\ Tok.kind = c.kind /\ Tok.num = Len(c.scal)
    BY <1>6, <2>1 DEF Tok
  <2>3. NameOk(Tok.name) <=> c.name \notin Names(ListAt(sent, L), DoneAt(L))
    BY <1>3, <1>4, <2>2 DEF NameOk
  <2>4. Known(Tok) <=> (c.kind = "config" => PathAt(sent, L) \in Items)
    BY <1>3, <2>2 DEF Known, Path, PathAt
  <2>5. CASE ~(NameOk(Tok.name) /\ Known(Tok))
    <3>1. Fails /\ UNCHANGED treeVars
      BY <1>8, <2>5 DEF ReadItem, Fails
    <3>2. ~Passed(msg, sent, before, L)
      BY <1>2, <1>4, <2>3, <2>4, <2>5 DEF Passed
    <3> QED
      BY <3>1, <3>2, FailsStops
  <2>6. CASE NameOk(Tok.name) /\ Known(Tok)
    <3>1. /\ stack' = [stack EXCEPT ![Len(stack)].left = @ - 1,
                                    ![Len(stack)].seen = @ \cup {Tok.name}]
          /\ item' = [kind |-> Tok.kind, name |-> Tok.name, num |-> Tok.num]
          /\ pos' = pos + 1 /\ got' = 0 /\ ref' = 1 /\ phase' = "run"
          /\ UNCHANGED <<treeVars, pass, raw, list>>
      BY <1>8, <2>6 DEF ReadItem
    <3>2. stack' = Frames(sent, L, 1)
      BY <1>1, <1>3, <2>2, <3>1, FramesChange
    <3>3. item' = Header(c)
      BY <2>2, <3>1 DEF Header
    <3>4. ASSUME NEW M, Leads(sent, L, M) PROVE ReadsAt(M)' /\ Fresh(sent, M)
      <4>1. ToRun(sent, L, M)
        BY <1>2, <1>4, <3>4 DEF Leads, ToItems, OverClones, ToRaw, OverScalar, ToBlock,
                                OverConfig, OverBlock
      <4>2. /\ M.ph = "run" /\ M.depth = L.depth /\ M.k = L.k /\ M.j = L.j
            /\ M.c = 0 /\ M.ref = 1 /\ M.pos = L.pos + 1
        BY <1>1, <4>1, ToRunIs
      <4>3. Cur(sent, M) = c /\ Frames(sent, M, 1) = Frames(sent, L, 1)
            /\ PathAt(sent, M) = PathAt(sent, L)
        BY <4>2, SameItem, SameFrames
      <4>4. Taken(c.scal, 0) = << >>
        <5>1. AList(c.scal)
          BY <1>1, <1>4, CurIs
        <5> QED
          BY <5>1 DEF Taken, AList
      <4>5. list' = << >> /\ sent' = sent
        BY <1>1, <1>2, <3>1 DEF ReadsAt, treeVars
      <4>6. c.name \notin Names(ListAt(sent, L), DoneAt(L))
            /\ (c.kind = "config" => PathAt(sent, L) \in Items)
        BY <2>3, <2>4, <2>6
      <4>7. ReadsAt(M)'
        BY <1>6, <3>1, <3>2, <3>3, <4>2, <4>3, <4>4, <4>5, <4>6 DEF ReadsAt
      <4>8. Fresh(sent, M)
        <5>1. CASE L.depth = 1
          BY <4>2, <4>6, <5>1 DEF Fresh, Cur, ListAt, DoneAt
        <5>2. CASE L.depth = 2
          BY <1>1, <4>2, <4>6, <5>2 DEF Fresh, Cur, ListAt, DoneAt
        <5> QED
          BY <1>2, <5>1, <5>2
      <4> QED
        BY <4>7, <4>8
    <3>5. Passed(msg, sent, before, L) /\ ~Final(sent, L)
      <4>1. ASSUME NEW q, NEW y, Says(sent, L, q, y) PROVE L.pos + q <= Len(msg)
        BY <1>2, <1>6, <2>1, <4>1 DEF Says
      <4>2. c.name \notin Names(ListAt(sent, L), DoneAt(L))
            /\ (c.kind = "config" => PathAt(sent, L) \in Items)
        BY <2>3, <2>4, <2>6
      <4> QED
        BY <1>2, <1>4, <4>1, <4>2 DEF Passed, Final, Broken
    <3> QED
      BY <3>1, <3>4, <3>5 DEF Moves, Reads
  <2> QED
    BY <2>5, <2>6
<1> QED
  BY <1>7, <1>8

(* What it holds of the item it is in.                                     *)
LEMMA ItemIs ==
    ASSUME NEW L, Reading(L), L.ph \in {"run", "raw"}
    PROVE  /\ item.kind = Cur(sent, L).kind /\ item.name = Cur(sent, L).name
           /\ item.num = Len(Cur(sent, L).scal) /\ item.num \in Nat
           /\ Path(item.name) = PathAt(sent, L) /\ ref = L.ref
           /\ list = Taken(Cur(sent, L).scal, L.c)
           /\ Remains(sent, L) /\ AList(Cur(sent, L).scal)
           /\ L.c \in 0..item.num /\ L.ref \in Nat /\ L.ref >= 1 /\ L.ref <= L.c + 1
           /\ Cur(sent, L).kind = "config" =>
                /\ PathAt(sent, L) \in Items /\ Old = before[PathAt(sent, L)]
                /\ IsConfig(Cur(sent, L))
<1>1. /\ Usual(sent) /\ Shape(sent, L) /\ L \in Place /\ item = Header(Cur(sent, L))
      /\ list = Taken(Cur(sent, L).scal, L.c) /\ ref = L.ref
      /\ Cur(sent, L).kind = "config" => PathAt(sent, L) \in Items
  BY DEF Reading, ReadsAt, Shape
<1>2. /\ item.kind = Cur(sent, L).kind /\ item.name = Cur(sent, L).name
      /\ item.num = Len(Cur(sent, L).scal)
  BY <1>1 DEF Header
<1>3. Here.at = BlockAt(sent, L)
  BY HereIs
<1>4. Path(item.name) = PathAt(sent, L)
  BY <1>2, <1>3 DEF Path, PathAt
<1>5. /\ Remains(sent, L) /\ L.c <= Len(Cur(sent, L).scal)
      /\ 1 <= L.ref /\ L.ref <= L.c + 1
  BY <1>1 DEF Shape
<1>6. /\ AList(Cur(sent, L).scal) /\ Len(Cur(sent, L).scal) \in Nat
      /\ (Cur(sent, L).kind = "config" => IsConfig(Cur(sent, L)))
  BY <1>1, <1>5, CurIs DEF IsBlock
<1>7. L.c \in Nat /\ L.ref \in Nat
  BY <1>1, FieldsAre
<1>8. Cur(sent, L).kind = "config" => Old = before[PathAt(sent, L)]
  BY <1>1, <1>2, <1>4 DEF Old, Reading
<1> QED
  BY <1>1, <1>2, <1>4, <1>5, <1>6, <1>7, <1>8

(* The scalars taken, and clones after them.                               *)
LEMMA TakenIs ==
    ASSUME NEW l, AList(l), l # <<Empty>>, NEW c \in 0..Len(l)
    PROVE  /\ AList(Taken(l, c)) /\ Len(Taken(l, c)) = c
           /\ \A i \in 1..c : Taken(l, c)[i] = l[i]
<1> DEFINE S == ToSet(l)
<1>1. l \in Seq(S)
  BY DEF AList
<1> HIDE DEF S
<1>2. /\ SubSeq(l, 1, c) \in Seq(S) /\ Len(SubSeq(l, 1, c)) = c
      /\ \A i \in 1..c : SubSeq(l, 1, c)[i] = l[i]
  BY <1>1
<1>3. AList(SubSeq(l, 1, c))
  BY <1>2, SeqIsList
<1> QED
  BY <1>2, <1>3 DEF Taken

(* A list is its elements.                                                 *)
LEMMA SameList ==
    ASSUME NEW a, AList(a), NEW b, AList(b), Len(a) = Len(b),
           \A i \in 1..Len(a) : a[i] = b[i]
    PROVE  a = b
BY DEF AList

LEMMA TakenOn ==
    ASSUME NEW l, AList(l), l # <<Empty>>, NEW c \in Nat, NEW n \in Nat, c + n <= Len(l),
           NEW r, r = [j \in 1..n |-> r[j]], \A j \in 1..n : r[j] = l[c + j]
    PROVE  Taken(l, c) \o r = Taken(l, c + n)
<1> DEFINE a == Taken(l, c) \o r
           b == Taken(l, c + n)
           S == ToSet(l)
           t == Taken(l, c)
<1>1. Len(l) \in Nat /\ c \in 0..Len(l) /\ c + n \in 0..Len(l)
  BY ListIs
<1>2. /\ AList(t) /\ Len(t) = c /\ \A i \in 1..c : t[i] = l[i]
      /\ AList(b) /\ Len(b) = c + n /\ \A i \in 1..(c + n) : b[i] = l[i]
  BY <1>1, TakenIs
<1>3. l \in Seq(S)
  BY DEF AList
<1> HIDE DEF S, t, b
<1>4. \A i \in 1..Len(l) : l[i] \in S
  BY <1>3
<1>5. t \in Seq(S)
  <2>1. \A i \in 1..c : t[i] \in S
    BY <1>1, <1>2, <1>4
  <2>2. t = [i \in 1..c |-> t[i]]
    BY <1>2 DEF AList
  <2> QED
    BY <2>1, <2>2
<1>6. r \in Seq(S) /\ Len(r) = n
  <2>1. \A j \in 1..n : r[j] \in S
    BY <1>1, <1>4
  <2> QED
    BY <2>1
<1>7. /\ t \o r \in Seq(S) /\ Len(t \o r) = c + n
      /\ \A i \in 1..(c + n) : (t \o r)[i] = IF i <= c THEN t[i] ELSE r[i - c]
  BY <1>2, <1>5, <1>6, ConcatProperties
<1>8. \A i \in 1..(c + n) : (t \o r)[i] = l[i]
  <2> SUFFICES ASSUME NEW i \in 1..(c + n) PROVE (t \o r)[i] = l[i]
    OBVIOUS
  <2>1. CASE i <= c
    BY <1>2, <1>7, <2>1
  <2>2. CASE ~(i <= c)
    <3>1. i - c \in 1..n /\ c + (i - c) = i
      BY <2>2
    <3> QED
      BY <1>7, <2>2, <3>1
  <2> QED
    BY <2>1, <2>2
<1>9. AList(t \o r)
  BY <1>7, SeqIsList
<1>10. t \o r = b
  BY <1>2, <1>7, <1>8, <1>9, SameList
<1> QED
  BY <1>10 DEF t, b

LEMMA ReadDupFrom ==
    ASSUME NEW L, Reading(L), ReadDup
    PROVE  (Stops(L) \/ Moves(L)) /\ UNCHANGED treeVars
<1> DEFINE l == Cur(sent, L).scal
           n == Clones(Rest(sent, L), 1)
           p == PathAt(sent, L)
<1>1. phase = "run" /\ L \in Place /\ Usual(sent) /\ Shape(sent, L) /\ ReadsAt(L)
      /\ Fresh(sent, L) /\ got < item.num
  BY DEF ReadDup, Reading, Shape
<1>2. L.ph = "run" /\ L.depth \in {1, 2} /\ got = L.c
  BY <1>1, FieldsAre DEF ReadsAt
<1>3. /\ item.num = Len(l) /\ item.num \in Nat /\ Path(item.name) = p /\ ref = L.ref
      /\ list = Taken(l, L.c) /\ Remains(sent, L) /\ AList(l)
      /\ L.c \in 0..item.num /\ L.ref \in Nat
      /\ Cur(sent, L).kind = "config" => Old = before[p] /\ p \in Items
  BY <1>2, ItemIs
<1>4. L.c < Len(l) /\ L.c \in Nat
  BY <1>1, <1>2, <1>3
<1>5. Cur(sent, L).kind = "config" /\ Given(l) /\ n \in 1..(Len(l) - L.c)
  BY <1>1, <1>2, <1>4, RestIs DEF IsConfig
<1>6. n \in Nat /\ n >= 1 /\ L.c + n <= item.num
  <2> HIDE DEF l, n
  <2> QED
    BY <1>3, <1>4, <1>5
<1>7. CASE n = 1
  <2> DEFINE x == [tok |-> "raw", n |-> Announces(Rest(sent, L), 1)]
  <2>1. Says(sent, L, 1, x)
    BY <1>2, <1>4, <1>7 DEF Says
  <2>2. /\ L.pos \in Nat /\ pos = L.pos /\ Len(msg) \in Nat
        /\ pos + 1 <= Len(msg) => msg[pos + 1] = x
        /\ ~(pos + 1 <= Len(msg)) => ~Passed(msg, sent, before, L)
    BY <2>1, TokenIs
  <2>3. ~More("dup")
    BY <2>2 DEF More
  <2>4. Fails /\ UNCHANGED treeVars /\ ~More("raw")
    BY <2>3 DEF ReadDup, Fails
  <2>5. ~(pos + 1 <= Len(msg))
    BY <2>2, <2>4 DEF More
  <2> QED
    BY <2>2, <2>4, <2>5, FailsStops
<1>8. CASE n # 1
  <2> DEFINE x == [tok |-> "dup", n |-> n]
             y == [tok |-> "scalar", s |-> l[L.c + 1]]
             s == l[L.c + 1]
  <2>0. n > 1
    BY <1>6, <1>8
  <2>1. Says(sent, L, 1, x) /\ Says(sent, L, 2, y)
    BY <1>2, <1>4, <2>0 DEF Says
  <2>2. /\ L.pos \in Nat /\ pos = L.pos /\ Len(msg) \in Nat
        /\ pos + 1 <= Len(msg) => msg[pos + 1] = x
        /\ ~(pos + 1 <= Len(msg)) => ~Passed(msg, sent, before, L)
        /\ pos + 2 <= Len(msg) => msg[pos + 2] = y
        /\ ~(pos + 2 <= Len(msg)) => ~Passed(msg, sent, before, L)
    <3> HIDE DEF x, y
    <3> QED
      BY <2>1, TokenIs
  <2>3. CASE ~More("dup") /\ ~More("raw")
    <3>1. Fails /\ UNCHANGED treeVars
      BY <2>3 DEF ReadDup, Fails
    <3>2. ~(pos + 1 <= Len(msg))
      BY <2>2, <2>3 DEF More
    <3> QED
      BY <2>2, <3>1, <3>2, FailsStops
  <2>4. CASE More("dup") \/ More("raw")
    <3>1. pos + 1 <= Len(msg)
      BY <2>2, <2>4 DEF More
    <3>2. Tok.n = n /\ More("dup")
      BY <2>2, <2>4, <3>1 DEF Tok, More
    <3>3. got + Tok.n <= item.num
      <4> HIDE DEF n
      <4> QED
        BY <1>2, <1>6, <3>2
    <3>4. pos + 2 <= Len(msg) => msg[pos + 2].s = s
      BY <2>2
    <3>5. CASE pos + 2 > Len(msg)
               \/ \E j \in 1..(Tok.n - 1) : ~TypeFits(msg[pos + 2].s, ref + j - 1)
      <4>1. Fails /\ UNCHANGED treeVars
        <5>1. pos + 2 <= Len(msg) => ~(pos + 2 > Len(msg))
          BY <2>2
        <5>2. Fails
          BY <3>2, <3>5, <5>1 DEF ReadDup
        <5> QED
          BY <5>2 DEF Fails
      <4>2. CASE ~(pos + 2 <= Len(msg))
        BY <2>2, <4>1, <4>2, FailsStops
      <4>3. CASE pos + 2 <= Len(msg)
        <5>1. PICK j \in 1..(n - 1) : ~TypeFits(s, L.ref + j - 1)
          BY <1>3, <2>2, <3>2, <3>4, <3>5, <4>3
        <5>2. L.ref + j - 1 <= Len(before[p]) /\ before[p][L.ref + j - 1].t # s.t
          BY <1>3, <1>5, <5>1 DEF TypeFits
        <5>3. ~Passed(msg, sent, before, L)
          BY <1>2, <1>4, <5>2 DEF Passed
        <5> QED
          BY <4>1, <5>3, FailsStops
      <4> QED
        BY <4>2, <4>3
    <3>6. CASE ~(pos + 2 > Len(msg)
                 \/ \E j \in 1..(Tok.n - 1) : ~TypeFits(msg[pos + 2].s, ref + j - 1))
      <4> DEFINE r == [j \in 1..n |-> [s EXCEPT !.i = s.i + j - 1]]
      <4>1. pos + 2 <= Len(msg) /\ \A j \in 1..(n - 1) : TypeFits(s, L.ref + j - 1)
        BY <1>3, <2>2, <3>2, <3>4, <3>6
      <4>2. msg[pos + 2].s = s
        BY <3>4, <4>1
      <4>3. /\ list' = list \o r
            /\ got' = got + n /\ ref' = ref + n - 1 /\ pos' = pos + 2
            /\ UNCHANGED <<treeVars, pass, stack, item, raw, phase>>
        <5> DEFINE z == msg[pos + 2].s
        <5>1. got + Tok.n <= item.num => ~(got + Tok.n > item.num)
          <6> HIDE DEF n
          <6> QED
            BY <1>2, <1>3, <1>4, <1>6, <3>2
        <5>2. /\ list' = list \o [j \in 1..Tok.n |-> [z EXCEPT !.i = z.i + j - 1]]
              /\ got' = got + Tok.n /\ ref' = ref + Tok.n - 1 /\ pos' = pos + 2
              /\ UNCHANGED <<treeVars, pass, stack, item, raw, phase>>
          BY <3>2, <3>3, <3>6, <5>1 DEF ReadDup
        <5>3. z = s /\ Tok.n = n
          BY <3>2, <4>2
        <5> HIDE DEF z, s, n
        <5> QED
          BY <5>2, <5>3
      <4>4. list' = Taken(l, L.c + n)
        <5>1. /\ l # <<Empty>> /\ L.c + n <= Len(l)
              /\ \A j \in 1..n : l[L.c + j] = [l[L.c + 1] EXCEPT !.i = l[L.c + 1].i + j - 1]
          <6> DEFINE k == n
          <6>1. k = Clones(Suffix(l, L.c), 1) /\ k > 1
            BY <2>0 DEF Rest
          <6> HIDE DEF k, l
          <6> DEFINE c == L.c
          <6>3. c \in Nat /\ c < Len(l) /\ Given(l) /\ k = Clones(Suffix(l, c), 1) /\ k > 1
            BY <1>4, <1>5, <6>1
          <6> HIDE DEF c
          <6>2. /\ l # <<Empty>> /\ c + k <= Len(l)
                /\ \A j \in 1..k : l[c + j] = [l[c + 1] EXCEPT !.i = l[c + 1].i + j - 1]
            BY <6>3, CloneIs
          <6> QED
            BY <6>2 DEF k, c
        <5> HIDE DEF n, l
        <5>2. r = [j \in 1..n |-> r[j]] /\ \A j \in 1..n : r[j] = l[L.c + j]
          BY <5>1
        <5> HIDE DEF r
        <5>3. Taken(l, L.c) \o r = Taken(l, L.c + n)
          <6> DEFINE c == L.c
          <6>1. AList(l) /\ c \in Nat /\ n \in Nat /\ l # <<Empty>> /\ c + n <= Len(l)
            BY <1>3, <1>4, <1>6, <5>1
          <6>2. \A j \in 1..n : r[j] = l[c + j]
            BY <5>2
          <6> HIDE DEF c
          <6>3. Taken(l, c) \o r = Taken(l, c + n)
            BY <5>2, <6>1, <6>2, TakenOn
          <6> QED
            BY <6>3 DEF c
        <5> QED
          BY <1>3, <4>3, <5>3
      <4>5. ASSUME NEW M, Leads(sent, L, M) PROVE ReadsAt(M)' /\ Fresh(sent, M)
        <5>1. OverClones(sent, L, M)
          <6>1. ~ToRaw(sent, L, M) /\ ~ToBlock(sent, L, M) /\ ~OverConfig(sent, L, M)
            BY <1>3, <1>4, <1>8 DEF ToRaw, ToBlock, OverConfig
          <6> QED
            BY <1>2, <4>5, <6>1 DEF Leads, ToItems, ToRun, OverScalar, OverBlock
        <5>2. /\ M.ph = "run" /\ M.depth = L.depth /\ M.k = L.k /\ M.j = L.j
              /\ M.c = L.c + n /\ M.ref = L.ref + n - 1 /\ M.pos = L.pos + 2
          BY <1>1, <5>1, OverClonesIs
        <5>3. Cur(sent, M) = Cur(sent, L) /\ Frames(sent, M, 1) = Frames(sent, L, 1)
              /\ PathAt(sent, M) = PathAt(sent, L)
          BY <5>2, SameItem, SameFrames
        <5>4. sent' = sent
          BY <4>3 DEF treeVars
        <5>5. ReadsAt(M)'
          <6> HIDE DEF n, l
          <6>1. stack = Frames(sent, L, 1) /\ item = Header(Cur(sent, L))
            BY <1>1, <1>2 DEF ReadsAt
          <6>2. M.ph = "run" /\ pos' = M.pos /\ phase' = "run" /\ got' = M.c /\ ref' = M.ref
            BY <1>1, <1>2, <1>3, <2>2, <4>3, <5>2
          <6>3. list' = Taken(Cur(sent, M).scal, M.c)
            BY <4>4, <5>2, <5>3 DEF l
          <6>4. stack' = Frames(sent, M, 1) /\ item' = Header(Cur(sent, M))
                /\ PathAt(sent, M) \in Items
            BY <1>3, <1>5, <4>3, <5>3, <6>1
          <6> QED
            BY <5>4, <6>2, <6>3, <6>4 DEF ReadsAt
        <5>6. Fresh(sent, M)
          BY <1>1, <1>2, <5>2 DEF Fresh
        <5> QED
          BY <5>5, <5>6
      <4>6. Passed(msg, sent, before, L) /\ ~Final(sent, L)
        <5>1. ASSUME NEW q, NEW z, Says(sent, L, q, z) PROVE L.pos + q <= Len(msg)
          BY <1>2, <2>2, <3>1, <4>1, <5>1 DEF Says
        <5>2. \A j \in 1..(n - 1) :
                L.ref + j - 1 <= Len(before[p]) => before[p][L.ref + j - 1].t = s.t
          BY <1>3, <1>5, <4>1 DEF TypeFits
        <5> QED
          BY <1>2, <1>5, <5>1, <5>2 DEF Passed, Final, Broken
      <4> QED
        BY <1>1, <4>3, <4>5, <4>6 DEF Moves, Reads
    <3> QED
      BY <3>5, <3>6
  <2> QED
    BY <2>3, <2>4
<1> QED
  BY <1>7, <1>8

LEMMA ReadRawFrom ==
    ASSUME NEW L, Reading(L), ReadRaw
    PROVE  (Stops(L) \/ Moves(L)) /\ UNCHANGED treeVars
<1> DEFINE l == Cur(sent, L).scal
           n == Announces(Rest(sent, L), 1)
           p == PathAt(sent, L)
           x == [tok |-> "raw", n |-> n]
<1>1. phase = "run" /\ L \in Place /\ Usual(sent) /\ Shape(sent, L) /\ ReadsAt(L)
      /\ Fresh(sent, L) /\ got < item.num /\ More("raw")
  BY DEF ReadRaw, Reading, Shape
<1>2. L.ph = "run" /\ L.depth \in {1, 2} /\ got = L.c
  BY <1>1, FieldsAre DEF ReadsAt
<1>3. /\ item.num = Len(l) /\ item.num \in Nat /\ ref = L.ref
      /\ list = Taken(l, L.c) /\ L.c \in 0..item.num
      /\ Cur(sent, L).kind = "config" => p \in Items
  BY <1>2, ItemIs
<1>4. L.c < Len(l) /\ L.c \in Nat
  BY <1>1, <1>2, <1>3
<1>5. Cur(sent, L).kind = "config" /\ n \in 1..(Len(l) - L.c)
      /\ Clones(Rest(sent, L), 1) \in 1..(Len(l) - L.c)
  BY <1>1, <1>2, <1>4, RestIs DEF IsConfig
<1>6. L.pos \in Nat /\ pos = L.pos /\ Len(msg) \in Nat /\ pos + 1 <= Len(msg)
  BY <1>1, FieldsAre, ListIs DEF Reading, ReadsAt, More
<1>7. Clones(Rest(sent, L), 1) = 1
  <2> SUFFICES ASSUME Clones(Rest(sent, L), 1) # 1 PROVE FALSE
    OBVIOUS
  <2> DEFINE y == [tok |-> "dup", n |-> Clones(Rest(sent, L), 1)]
  <2>1. Clones(Rest(sent, L), 1) > 1
    <3> DEFINE d == Clones(Rest(sent, L), 1)
               e == Len(l) - L.c
    <3>1. d \in 1..e /\ d # 1
      BY <1>5
    <3> HIDE DEF d, e
    <3>2. d > 1
      BY <3>1
    <3> QED
      BY <3>2 DEF d
  <2>2. Says(sent, L, 1, y)
    BY <1>2, <1>4, <2>1 DEF Says
  <2>3. msg[pos + 1] = y
    BY <1>6, <2>2, TokenIs
  <2> QED
    BY <1>1, <2>3 DEF More
<1>8. Says(sent, L, 1, x)
  BY <1>2, <1>4, <1>7 DEF Says
<1>9. Tok.n = n
  <2>1. msg[pos + 1] = x
    BY <1>6, <1>8, TokenIs
  <2> QED
    BY <2>1 DEF Tok
<1>10. n \in Nat /\ n >= 1 /\ got + Tok.n <= item.num
  <2> HIDE DEF l, n
  <2> QED
    BY <1>2, <1>3, <1>4, <1>5, <1>9
<1>11. /\ got' = got + n /\ raw' = n /\ pos' = pos + 1 /\ phase' = "raw"
       /\ UNCHANGED <<treeVars, pass, stack, item, list, ref>>
  <2>1. ~(got + Tok.n > item.num)
    <3> HIDE DEF n
    <3> QED
      BY <1>2, <1>3, <1>4, <1>9, <1>10
  <2>2. /\ got' = got + Tok.n /\ raw' = Tok.n /\ pos' = pos + 1 /\ phase' = "raw"
        /\ UNCHANGED <<treeVars, pass, stack, item, list, ref>>
    BY <2>1 DEF ReadRaw
  <2> QED
    BY <1>9, <2>2
<1>12. ASSUME NEW M, Leads(sent, L, M) PROVE ReadsAt(M)' /\ Fresh(sent, M)
  <2>1. ToRaw(sent, L, M)
    <3>1. ~OverClones(sent, L, M) /\ ~ToBlock(sent, L, M) /\ ~OverConfig(sent, L, M)
      BY <1>3, <1>4, <1>7 DEF OverClones, ToBlock, OverConfig
    <3> QED
      BY <1>2, <1>12, <3>1 DEF Leads, ToItems, ToRun, OverScalar, OverBlock
  <2>2. /\ Shape(sent, M) /\ M.ph = "raw" /\ M.depth = L.depth /\ M.k = L.k /\ M.j = L.j
        /\ M.c = L.c /\ M.ref = L.ref /\ M.pos = L.pos + 1 /\ M.run + M.lost = n
    BY <1>1, <2>1, ToRawIs
  <2>3. Cur(sent, M) = Cur(sent, L) /\ Frames(sent, M, 1) = Frames(sent, L, 1)
        /\ PathAt(sent, M) = PathAt(sent, L)
    BY <2>2, SameItem, SameFrames
  <2>4. got' = M.c + M.run + M.lost /\ raw' = M.run + M.lost
    <3>1. M.run \in Nat /\ M.lost \in Nat
      BY <2>2, FieldsAre DEF Shape
    <3> HIDE DEF n
    <3> QED
      BY <1>2, <1>4, <1>11, <2>2, <3>1
  <2>5. stack = Frames(sent, L, 1) /\ item = Header(Cur(sent, L))
    BY <1>1, <1>2 DEF ReadsAt
  <2>6. pos' = M.pos /\ phase' = "raw" /\ ref' = M.ref
        /\ list' = Taken(Cur(sent, M).scal, M.c)
    BY <1>3, <1>6, <1>11, <2>2, <2>3
  <2>7. stack' = Frames(sent, M, 1) /\ item' = Header(Cur(sent, M))
        /\ PathAt(sent, M) \in Items /\ sent' = sent
    BY <1>3, <1>5, <1>11, <2>3, <2>5 DEF treeVars
  <2>8. ReadsAt(M)'
    BY <2>2, <2>4, <2>6, <2>7 DEF ReadsAt
  <2>9. Fresh(sent, M)
    BY <1>1, <1>2, <2>2 DEF Fresh
  <2> QED
    BY <2>8, <2>9
<1>13. Passed(msg, sent, before, L) /\ ~Final(sent, L)
  <2>1. ASSUME NEW q, NEW z, Says(sent, L, q, z) PROVE L.pos + q <= Len(msg)
    BY <1>2, <1>6, <1>7, <2>1 DEF Says
  <2>2. 1..(Clones(Rest(sent, L), 1) - 1) = {}
    BY <1>7
  <2> QED
    BY <1>2, <1>5, <2>1, <2>2 DEF Passed, Final, Broken
<1> QED
  BY <1>11, <1>12, <1>13 DEF Moves, Reads

LEMMA ReadScalarFrom ==
    ASSUME NEW L, Reading(L), ReadScalar
    PROVE  (Stops(L) \/ Moves(L)) /\ UNCHANGED treeVars
<1> DEFINE l == Cur(sent, L).scal
           p == PathAt(sent, L)
           s == l[L.c + 1]
           x == [tok |-> "scalar", s |-> s]
<1>1. phase = "raw" /\ L \in Place /\ Usual(sent) /\ Shape(sent, L) /\ ReadsAt(L)
      /\ Fresh(sent, L)
  BY DEF ReadScalar, Reading, Shape
<1>2. L.ph = "raw" /\ L.depth \in {1, 2} /\ got = L.c + L.run + L.lost
      /\ raw = L.run + L.lost
  BY <1>1, FieldsAre DEF ReadsAt
<1>3. /\ Path(item.name) = p /\ ref = L.ref /\ Len(l) \in Nat /\ AList(l)
      /\ list = Taken(l, L.c) /\ Remains(sent, L) /\ L.ref \in Nat /\ L.ref <= L.c + 1
      /\ Cur(sent, L).kind = "config" =>
           p \in Items /\ Old = before[p] /\ IsConfig(Cur(sent, L))
  BY <1>2, ItemIs
<1>f. L.c \in Nat /\ L.run \in Nat /\ L.lost \in Nat
  BY <1>1, FieldsAre
<1>4. L.c + L.run + L.lost <= Len(l) /\ L.run + L.lost >= 1 /\ L.c < Len(l)
  <2>1. L.c + L.run + L.lost <= Len(l) /\ L.run + L.lost >= 1
    BY <1>1, <1>2 DEF Shape
  <2> HIDE DEF l
  <2> QED
    BY <1>3, <1>f, <2>1
<1>5. Cur(sent, L).kind = "config" /\ Given(l) /\ Old = before[p] /\ p \in Items
  <2>1. Len(l) # 0
    <3> HIDE DEF l
    <3> QED
      BY <1>3, <1>4, <1>f
  <2>2. Cur(sent, L).kind = "config"
    BY <1>1, <1>3, <2>1, CurIs
  <2> QED
    BY <1>3, <2>2 DEF IsConfig
<1>6. L.pos \in Nat /\ pos = L.pos /\ Len(msg) \in Nat
  BY <1>1, FieldsAre, ListIs DEF Reading, ReadsAt
<1>7. CASE L.run = 0
  <2>1. Broken(L)
    BY <1>2, <1>7 DEF Broken
  <2>2. pos + 1 <= Len(msg) => msg[pos + 1].tok # "scalar"
    BY <1>6, <2>1 DEF Reading, Said
  <2>3. ~More("scalar")
    BY <1>6, <2>2 DEF More
  <2>4. Fails /\ UNCHANGED treeVars
    BY <2>3 DEF ReadScalar, Fails
  <2>5. ~Passed(msg, sent, before, L)
    BY <2>1 DEF Passed
  <2> QED
    BY <2>4, <2>5, FailsStops
<1>8. CASE L.run # 0
  <2>0. L.run > 0
    BY <1>f, <1>8
  <2>1. Says(sent, L, 1, x)
    BY <1>2, <2>0 DEF Says
  <2>2. /\ pos + 1 <= Len(msg) => msg[pos + 1] = x
        /\ ~(pos + 1 <= Len(msg)) => ~Passed(msg, sent, before, L)
    <3> HIDE DEF x
    <3> QED
      BY <2>1, TokenIs
  <2>3. CASE ~More("scalar")
    <3>1. Fails /\ UNCHANGED treeVars
      BY <2>3 DEF ReadScalar, Fails
    <3>2. ~(pos + 1 <= Len(msg))
      BY <1>6, <2>2, <2>3 DEF More
    <3> QED
      BY <2>2, <3>1, <3>2, FailsStops
  <2>4. CASE More("scalar")
    <3> DEFINE all == Unpacked(s)
    <3>1. pos + 1 <= Len(msg) /\ Tok.s = s
      BY <1>6, <2>2, <2>4 DEF More, Tok
    <3>2. \/ /\ all # << >> /\ ref > Len(Old) /\ phase' = "crashed"
             /\ UNCHANGED treeVars
          \/ /\ all # << >> /\ ref <= Len(Old) /\ ~TypeFits(all[Len(all)], ref)
             /\ Fails
          \/ /\ all # << >> => ref <= Len(Old) /\ TypeFits(all[Len(all)], ref)
             /\ list' = all /\ ref' = IF all = << >> THEN ref ELSE ref + 1
             /\ raw' = raw - 1 /\ pos' = pos + 1
             /\ phase' = IF raw = 1 THEN "run" ELSE "raw"
             /\ UNCHANGED <<treeVars, pass, stack, item, got>>
      BY <2>4, <3>1 DEF ReadScalar
    <3>3. /\ l = <<Empty>> =>
               all = << >> /\ s.t = "empty" /\ Taken(l, L.c + 1) = << >>
          /\ l # <<Empty>> =>
               /\ all # << >> /\ all[Len(all)] = s /\ s.t # "empty"
               /\ all = Taken(l, L.c + 1)
      <4>1. CASE l = <<Empty>>
        <5>1. Len(<<Empty>>) = 1 /\ <<Empty>>[1] = Empty
          OBVIOUS
        <5>2. L.c + 1 = 1
          <6> HIDE DEF l
          <6> QED
            BY <1>4, <1>f, <4>1, <5>1
        <5>3. s = Empty
          BY <4>1, <5>1, <5>2
        <5> QED
          BY <1>3, <4>1, <5>3 DEF Empty, Unpacked, Taken
      <4>2. CASE l # <<Empty>>
        <5> DEFINE t == Taken(l, L.c)
                   r == <<s>>
        <5>1. L.c + 1 \in 1..Len(l) /\ L.c \in 0..Len(l) /\ L.c + 1 <= Len(l)
          <6> HIDE DEF l
          <6> QED
            BY <1>3, <1>4, <1>f
        <5>2. s.t # "empty"
          BY <1>5, <4>2, <5>1 DEF Given
        <5>3. all = Append(t, s)
          BY <1>3, <5>2 DEF Unpacked
        <5>4. AList(t) /\ Len(t) = L.c
          BY <1>3, <4>2, <5>1, TakenIs
        <5>5. r = [j \in 1..1 |-> r[j]] /\ \A j \in 1..1 : r[j] = l[L.c + j]
          OBVIOUS
        <5>6. t \o r = Taken(l, L.c + 1)
          <6> DEFINE c == L.c
                     n == 1
          <6>1. AList(l) /\ c \in Nat /\ n \in Nat /\ l # <<Empty>> /\ c + n <= Len(l)
                /\ r = [j \in 1..n |-> r[j]] /\ \A j \in 1..n : r[j] = l[c + j]
            BY <1>3, <1>f, <4>2, <5>1, <5>5
          <6> HIDE DEF c, n, r, l
          <6>2. Taken(l, c) \o r = Taken(l, c + n)
            BY <6>1, TakenOn
          <6> QED
            BY <6>2 DEF c, n
        <5> HIDE DEF t, s, all
        <5>7. Append(t, s) = t \o <<s>>
          BY <5>4 DEF AList
        <5>8. Len(t \o <<s>>) = Len(t) + 1 /\ (t \o <<s>>)[Len(t) + 1] = s
              /\ AList(t \o <<s>>)
          BY <5>4, OneMore DEF Extends
        <5>9. t \o <<s>> # << >>
          <6> DEFINE u == t \o <<s>>
          <6>1. Len(u) = L.c + 1 /\ AList(u)
            BY <5>4, <5>8
          <6> HIDE DEF u
          <6>2. u # << >>
            BY <1>f, <6>1, ListIs
          <6> QED
            BY <6>2 DEF u
        <5>10. all = t \o <<s>> /\ t \o <<s>> = Taken(l, L.c + 1)
          BY <5>3, <5>6, <5>7 DEF r
        <5>11. all[Len(all)] = s
          BY <5>8, <5>10
        <5> QED
          BY <4>2, <5>2, <5>9, <5>10, <5>11
      <4> QED
        BY <4>1, <4>2
    <3> HIDE DEF all
    <3>4. CASE /\ all # << >> /\ ref > Len(Old) /\ phase' = "crashed"
               /\ UNCHANGED treeVars
      <4>1. Len(before[p]) \in Nat
        BY <1>5, ListIs DEF Reading
      <4>2. Len(l) > Len(before[p])
        <5> DEFINE b == Len(before[p])
                   e == Len(l)
        <5>1. e \in Nat /\ b \in Nat /\ L.ref > b /\ L.ref <= L.c + 1 /\ L.c < e
              /\ L.ref \in Nat
          BY <1>3, <1>4, <1>5, <3>4, <4>1
        <5> HIDE DEF b, e
        <5>2. e > b
          BY <1>f, <5>1
        <5> QED
          BY <5>2 DEF b, e
      <4>3. Caused(L)
        BY <1>3, <1>5, <4>2 DEF Caused, Excess
      <4> QED
        BY <3>4, <4>3 DEF Stops
    <3>5. CASE /\ all # << >> /\ ref <= Len(Old) /\ ~TypeFits(all[Len(all)], ref)
               /\ Fails
      <4>1. l # <<Empty>> /\ before[p][L.ref].t # s.t
        BY <1>3, <1>5, <3>3, <3>5 DEF TypeFits
      <4>2. ~Passed(msg, sent, before, L)
        BY <1>2, <4>1 DEF Passed
      <4>3. UNCHANGED treeVars
        BY <3>5 DEF Fails
      <4> QED
        BY <3>5, <4>2, <4>3, FailsStops
    <3>6. CASE /\ all # << >> => ref <= Len(Old) /\ TypeFits(all[Len(all)], ref)
               /\ list' = all /\ ref' = (IF all = << >> THEN ref ELSE ref + 1)
               /\ raw' = raw - 1 /\ pos' = pos + 1
               /\ phase' = (IF raw = 1 THEN "run" ELSE "raw")
               /\ UNCHANGED <<treeVars, pass, stack, item, got>>
      <4>1. ASSUME NEW M, Leads(sent, L, M) PROVE ReadsAt(M)' /\ Fresh(sent, M)
        <5>1. OverScalar(sent, L, M)
          BY <1>2, <4>1 DEF Leads, ToItems, ToRun, OverClones, ToRaw, ToBlock, OverConfig,
                            OverBlock
        <5>2. /\ M.depth = L.depth /\ M.k = L.k /\ M.j = L.j
              /\ M.ph = (IF L.run + L.lost = 1 THEN "run" ELSE "raw")
              /\ M.c = L.c + 1 /\ M.run = L.run - 1 /\ M.lost = L.lost
              /\ M.ref = (IF s.t = "empty" THEN L.ref ELSE L.ref + 1)
              /\ M.pos = L.pos + 1
          BY <1>1, <5>1, OverScalarIs
        <5>3. Cur(sent, M) = Cur(sent, L) /\ Frames(sent, M, 1) = Frames(sent, L, 1)
              /\ PathAt(sent, M) = PathAt(sent, L)
          BY <5>2, SameItem, SameFrames
        <5>4. stack = Frames(sent, L, 1) /\ item = Header(Cur(sent, L))
          BY <1>1, <1>2 DEF ReadsAt
        <5>5. ref' = M.ref /\ list' = Taken(Cur(sent, M).scal, M.c)
          BY <1>3, <3>3, <3>6, <5>2, <5>3
        <5>6. pos' = M.pos /\ phase' = M.ph
          BY <1>2, <1>6, <3>6, <5>2
        <5>7. stack' = Frames(sent, M, 1) /\ item' = Header(Cur(sent, M))
              /\ PathAt(sent, M) \in Items /\ sent' = sent
          BY <1>5, <3>6, <5>3, <5>4 DEF treeVars
        <5>8. /\ M.ph = "run" => got' = M.c
              /\ M.ph = "raw" => raw' = M.run + M.lost /\ got' = M.c + M.run + M.lost
          <6>1. got' = L.c + L.run + L.lost /\ raw' = L.run + L.lost - 1
            <7>1. got' = got /\ raw' = raw - 1
              BY <3>6
            <7>2. got = L.c + L.run + L.lost /\ raw = L.run + L.lost
              BY <1>2
            <7> QED
              BY <1>f, <7>1, <7>2
          <6>2. M.ph = "run" => L.run + L.lost = 1
            BY <5>2
          <6>3. (L.c + 1) + (L.run - 1) + L.lost = L.c + L.run + L.lost
                /\ (L.run - 1) + L.lost = L.run + L.lost - 1
                /\ (L.run + L.lost = 1 => L.c + L.run + L.lost = L.c + 1)
            BY <1>f
          <6> QED
            BY <5>2, <6>1, <6>2, <6>3
        <5>9. M.ph \in {"run", "raw"}
          BY <5>2
        <5>10. ReadsAt(M)'
          BY <5>5, <5>6, <5>7, <5>8, <5>9 DEF ReadsAt
        <5>11. Fresh(sent, M)
          BY <1>1, <1>2, <5>2 DEF Fresh
        <5> QED
          BY <5>10, <5>11
      <4>2. Passed(msg, sent, before, L) /\ ~Final(sent, L)
        <5>1. ASSUME NEW q, NEW z, Says(sent, L, q, z) PROVE L.pos + q <= Len(msg)
          BY <1>2, <1>6, <3>1, <5>1 DEF Says
        <5>2. l # <<Empty>> => L.ref <= Len(before[p]) /\ before[p][L.ref].t = s.t
          BY <1>3, <1>5, <3>3, <3>6 DEF TypeFits
        <5> QED
          BY <1>2, <1>8, <5>1, <5>2 DEF Passed, Final, Broken
      <4>3. phase' \in Reads /\ pass' = pass /\ UNCHANGED treeVars
        BY <3>6 DEF Reads
      <4> QED
        BY <4>1, <4>2, <4>3 DEF Moves
    <3> QED
      BY <3>2, <3>4, <3>5, <3>6
  <2> QED
    BY <2>3, <2>4
<1> QED
  BY <1>7, <1>8

LEMMA EnterBlockFrom ==
    ASSUME NEW L, Reading(L), EnterBlock
    PROVE  (Stops(L) \/ Moves(L)) /\ UNCHANGED treeVars
<1> DEFINE l == Cur(sent, L).scal
           p == PathAt(sent, L)
<1>1. phase = "run" /\ L \in Place /\ Usual(sent) /\ Shape(sent, L) /\ ReadsAt(L)
      /\ Fresh(sent, L) /\ got = item.num /\ item.kind = "block"
  BY DEF EnterBlock, Reading, Shape
<1>2. L.ph = "run" /\ L.depth \in {1, 2} /\ got = L.c
  BY <1>1, FieldsAre DEF ReadsAt
<1>3. /\ item.kind = Cur(sent, L).kind /\ item.num = Len(l) /\ Path(item.name) = p
      /\ item.name = Cur(sent, L).name
      /\ list = Taken(l, L.c) /\ Remains(sent, L)
  BY <1>2, ItemIs
<1>4. Cur(sent, L).kind = "block" /\ L.c = Len(l)
  BY <1>1, <1>2, <1>3
<1>5. l = << >> /\ L.depth = 1
  BY <1>1, <1>3, <1>4, CurIs DEF IsConfig
<1>6. Len(l) = 0 /\ list = << >> /\ Len(list) = 0
  <2>1. << >> # <<Empty>> /\ SubSeq(<< >>, 1, 0) = << >> /\ Len(<< >>) = 0
    OBVIOUS
  <2>2. Len(l) = 0
    BY <1>5, <2>1
  <2>3. Taken(l, L.c) = << >>
    BY <1>4, <1>5, <2>1, <2>2 DEF Taken
  <2> QED
    BY <1>3, <2>1, <2>2, <2>3
<1>7. Matches <=> p \in Items /\ Cur(sent, L).name \in Blocks /\ Len(before[p]) = 0
  <2>1. p \in Items => tree[p] = before[p]
    BY <1>2 DEF Reading
  <2>2. 1..Len(list) = {}
    BY <1>6
  <2> QED
    BY <1>3, <1>6, <2>1, <2>2 DEF Matches
<1>8. CASE ~Matches
  <2>1. Fails /\ UNCHANGED treeVars
    BY <1>8 DEF EnterBlock, Fails
  <2>2. ~Passed(msg, sent, before, L)
    BY <1>2, <1>4, <1>7, <1>8 DEF Passed
  <2> QED
    BY <2>1, <2>2, FailsStops
<1>9. CASE Matches
  <2>1. /\ phase' = "num"
        /\ UNCHANGED <<treeVars, pos, pass, stack, item, got, raw, list, ref>>
    BY <1>9 DEF EnterBlock
  <2>2. ASSUME NEW M, Leads(sent, L, M) PROVE ReadsAt(M)' /\ Fresh(sent, M)
    <3>1. ToBlock(sent, L, M)
      <4>1. ~(L.c < Len(l))
        BY <1>4, <1>6
      <4> QED
        BY <1>2, <1>4, <2>2, <4>1 DEF Leads, ToItems, ToRun, OverClones, ToRaw, OverScalar,
                                      OverConfig, OverBlock
    <3>2. /\ M.ph = "num" /\ M.depth = L.depth /\ M.k = L.k /\ M.j = L.j /\ M.pos = L.pos
      BY <1>1, <3>1, ToBlockIs
    <3>3. Cur(sent, M) = Cur(sent, L) /\ Frames(sent, M, 1) = Frames(sent, L, 1)
      BY <3>2, SameItem, SameFrames
    <3>4. stack = Frames(sent, L, 1) /\ item = Header(Cur(sent, L)) /\ pos = L.pos
      BY <1>1, <1>2 DEF ReadsAt
    <3>5. sent' = sent
      BY <2>1 DEF treeVars
    <3>6. ReadsAt(M)'
      BY <1>6, <2>1, <3>2, <3>3, <3>4, <3>5 DEF ReadsAt
    <3>7. Fresh(sent, M)
      BY <1>1, <1>2, <1>5, <3>2 DEF Fresh
    <3> QED
      BY <3>6, <3>7
  <2>3. Passed(msg, sent, before, L) /\ ~Final(sent, L)
    <3>1. ~(L.c < Len(l))
      BY <1>4, <1>6
    <3>2. ASSUME NEW q, NEW z, Says(sent, L, q, z) PROVE L.pos + q <= Len(msg)
      BY <1>2, <3>1, <3>2 DEF Says
    <3> QED
      BY <1>2, <1>7, <1>9, <3>1, <3>2 DEF Passed, Final, Broken
  <2> QED
    BY <2>1, <2>2, <2>3 DEF Moves, Reads
<1> QED
  BY <1>8, <1>9

(* What a merge makes of the scalars of an item.                           *)
WrittenAs(old, l) == IF l = <<Empty>> THEN <<Empty>> ELSE Replaced(old, l)

(* A config is read: it is written in the second pass.                     *)
Writes(L) ==
    /\ Moves(L) /\ UNCHANGED <<before, sent, msg, pack, merges>>
    /\ Remains(sent, L) /\ Cur(sent, L).kind = "config" /\ PathAt(sent, L) \in Items
    /\ L.ph = "run" /\ L.c = Len(Cur(sent, L).scal)
    /\ tree' = IF pass = 1
               THEN [tree EXCEPT ![PathAt(sent, L)]
                                 = WrittenAs(before[PathAt(sent, L)], Cur(sent, L).scal)]
               ELSE tree

LEMMA EndConfigFrom ==
    ASSUME NEW L, Reading(L), EndConfig
    PROVE  (Stops(L) /\ UNCHANGED treeVars) \/ Writes(L)
<1> DEFINE l == Cur(sent, L).scal
           p == PathAt(sent, L)
<1>1. phase = "run" /\ L \in Place /\ Usual(sent) /\ Shape(sent, L) /\ ReadsAt(L)
      /\ Fresh(sent, L) /\ got = item.num /\ item.kind = "config" /\ pass \in {0, 1}
  BY DEF EndConfig, Reading, Shape
<1>2. L.ph = "run" /\ L.depth \in {1, 2} /\ got = L.c
  BY <1>1, FieldsAre DEF ReadsAt
<1>3. /\ item.kind = Cur(sent, L).kind /\ item.num = Len(l) /\ Path(item.name) = p
      /\ list = Taken(l, L.c) /\ Remains(sent, L) /\ AList(l) /\ Len(l) \in Nat
      /\ Cur(sent, L).kind = "config" =>
           p \in Items /\ Old = before[p] /\ IsConfig(Cur(sent, L))
  BY <1>2, ItemIs
<1>4. Cur(sent, L).kind = "config" /\ L.c = Len(l) /\ p \in Items /\ Old = before[p]
      /\ Given(l) /\ L.c \in Nat /\ ~(L.c < Len(l))
  <2>1. Cur(sent, L).kind = "config" /\ L.c = Len(l)
    BY <1>1, <1>2, <1>3
  <2> HIDE DEF l
  <2> QED
    BY <1>3, <2>1 DEF IsConfig, l
<1>5. l # <<Empty>> => list = l /\ l # << >>
  <2> SUFFICES ASSUME l # <<Empty>> PROVE list = l /\ l # << >>
    OBVIOUS
  <2>1. l # << >>
    BY <1>4 DEF Given
  <2>2. SubSeq(l, 1, Len(l)) = l
    BY <1>3 DEF AList
  <2> QED
    BY <1>3, <1>4, <2>1, <2>2 DEF Taken
<1>6. l = <<Empty>> => list = << >>
  BY <1>3 DEF Taken
<1>7. Written(Old) = WrittenAs(before[p], l)
  BY <1>4, <1>5, <1>6 DEF Written, WrittenAs
<1>8. CASE Writing(Old) /\ ~AllPlaced(Old, list)
  <2>1. Fails /\ UNCHANGED treeVars
    BY <1>8 DEF EndConfig, Fails
  <2>2. l # <<Empty>>
    <3>1. 1..Len(<< >>) = {}
      OBVIOUS
    <3> QED
      BY <1>6, <1>8, <3>1 DEF AllPlaced
  <2>3. Caused(L)
    BY <1>3, <1>4, <1>5, <1>8, <2>2 DEF Caused, Excess, AllPlaced
  <2> QED
    BY <2>1, <2>3, FailsStops
<1>9. CASE ~(Writing(Old) /\ ~AllPlaced(Old, list))
  <2>1. /\ tree' = (IF Writing(Old)
                    THEN [tree EXCEPT ![Path(item.name)] = Written(Old)] ELSE tree)
        /\ list' = << >> /\ phase' = "item"
        /\ UNCHANGED <<before, sent, pack, msg, merges, pos, pass, stack, item, got,
                       raw, ref>>
    BY <1>9 DEF EndConfig
  <2>2. tree' = IF pass = 1 THEN [tree EXCEPT ![p] = WrittenAs(before[p], l)] ELSE tree
    BY <1>3, <1>7, <2>1 DEF Writing
  <2>3. ASSUME NEW M, Leads(sent, L, M) PROVE ReadsAt(M)' /\ Fresh(sent, M)
    <3>1. OverConfig(sent, L, M)
      BY <1>2, <1>4, <2>3 DEF Leads, ToItems, ToRun, OverClones, ToRaw, OverScalar,
                              ToBlock, OverBlock
    <3>2. /\ M.ph = "item" /\ M.depth = L.depth /\ M.pos = L.pos
          /\ M.k = (IF L.depth = 1 THEN L.k + 1 ELSE L.k)
          /\ M.j = (IF L.depth = 1 THEN L.j ELSE L.j + 1)
      BY <1>1, <3>1, OverConfigIs
    <3>3. L.k \in Nat /\ L.j \in Nat
      BY <1>1, FieldsAre
    <3>4. Frames(sent, M, 0) = Frames(sent, L, 1)
      <4>1. CASE L.depth = 1
        <5>1. DoneAt(M) + 0 = DoneAt(L) + 1 /\ ListAt(sent, M) = ListAt(sent, L)
              /\ BlockAt(sent, M) = BlockAt(sent, L)
          BY <3>2, <3>3, <4>1 DEF DoneAt, ListAt, BlockAt
        <5> QED
          BY <3>2, <4>1, <5>1 DEF Frames
      <4>2. CASE L.depth = 2
        <5>1. DoneAt(M) + 0 = DoneAt(L) + 1 /\ ListAt(sent, M) = ListAt(sent, L)
              /\ BlockAt(sent, M) = BlockAt(sent, L) /\ InTop(sent, M) = InTop(sent, L)
          BY <3>2, <3>3, <4>2 DEF DoneAt, ListAt, BlockAt, InTop
        <5> QED
          BY <3>2, <4>2, <5>1 DEF Frames
      <4> QED
        BY <1>2, <4>1, <4>2
    <3>5. stack = Frames(sent, L, 1) /\ pos = L.pos
      BY <1>1, <1>2 DEF ReadsAt
    <3>6. ReadsAt(M)'
      BY <2>1, <3>2, <3>4, <3>5 DEF ReadsAt
    <3>7. Fresh(sent, M)
      BY <1>1, <1>2, <3>2 DEF Fresh
    <3> QED
      BY <3>6, <3>7
  <2>4. Passed(msg, sent, before, L) /\ ~Final(sent, L)
    <3>1. ASSUME NEW q, NEW z, Says(sent, L, q, z) PROVE L.pos + q <= Len(msg)
      BY <1>2, <1>4, <3>1 DEF Says
    <3> QED
      BY <1>2, <1>4, <3>1 DEF Passed, Final, Broken
  <2>5. Moves(L)
    BY <2>1, <2>3, <2>4 DEF Moves, Reads
  <2> QED
    BY <1>2, <1>3, <1>4, <2>1, <2>2, <2>5 DEF Writes
<1> QED
  BY <1>8, <1>9

(* The list is read: again, or it is done.                                 *)
Ends(L) ==
    /\ Final(sent, L) /\ Passed(msg, sent, before, L) /\ pass' = 1
    /\ phase' = IF pass = 0 THEN "num" ELSE "merged"
    /\ pass = 0 => ReadsAt(Origin)'

LEMMA EndBlockFrom ==
    ASSUME NEW L, Reading(L), EndBlock
    PROVE  (Stops(L) \/ Moves(L) \/ Ends(L)) /\ UNCHANGED treeVars
<1>1. phase = "item" /\ L \in Place /\ Usual(sent) /\ Shape(sent, L) /\ ReadsAt(L)
      /\ Fresh(sent, L) /\ Here.left = 0
  BY DEF EndBlock, Reading, Shape
<1>2. L.ph = "item" /\ L.depth \in {1, 2} /\ L.pos \in Nat /\ pos = L.pos /\ L.k \in Nat
      /\ Len(msg) \in Nat
  BY <1>1, FieldsAre, ListIs DEF ReadsAt, Reading
<1>3. /\ stack = Frames(sent, L, 0) /\ Len(stack) = L.depth /\ Here.saved = << >>
      /\ Here.left = Len(ListAt(sent, L)) - (DoneAt(L) + 0)
      /\ DoneAt(L) \in 0..Len(ListAt(sent, L)) /\ Len(ListAt(sent, L)) \in Nat
  BY <1>2, HereIs
<1>4. ~Remains(sent, L)
  BY <1>1, <1>3 DEF Remains
<1>5. ASSUME NEW q, NEW z, Says(sent, L, q, z) PROVE L.pos + q <= Len(msg)
  BY <1>2, <1>4, <1>5 DEF Says
<1>6. CASE L.depth = 2
  <2>1. /\ stack' = SubSeq(stack, 1, Len(stack) - 1) /\ list' = Here.saved
        /\ UNCHANGED <<treeVars, pos, pass, item, got, raw, ref, phase>>
    <3>1. Len(stack) = 2
      BY <1>3, <1>6, Zenon
    <3>2. Len(stack) # 1
      BY <3>1
    <3> QED
      BY <3>2 DEF EndBlock
  <2>2. stack' = <<InTop(sent, L)>>
    <3> DEFINE f == Frame(BlockAt(sent, L), Len(ListAt(sent, L)) - (DoneAt(L) + 0),
                          Names(ListAt(sent, L), DoneAt(L) + 0))
               w == InTop(sent, L)
    <3>1. stack = <<w, f>>
      BY <1>3, <1>6 DEF Frames
    <3>2. stack' = SubSeq(stack, 1, 1)
      BY <1>3, <1>6, <2>1
    <3> HIDE DEF f, w
    <3>3. SubSeq(<<w, f>>, 1, 1) = <<w>>
      BY Two
    <3> QED
      BY <3>1, <3>2, <3>3 DEF w
  <2>3. ASSUME NEW M, Leads(sent, L, M) PROVE ReadsAt(M)' /\ Fresh(sent, M)
    <3>1. OverBlock(sent, L, M)
      BY <1>2, <1>4, <2>3 DEF Leads, ToItems, ToRun, OverClones, ToRaw, OverScalar,
                              ToBlock, OverConfig
    <3>2. M.ph = "item" /\ M.depth = 1 /\ M.k = L.k + 1 /\ M.j = 0 /\ M.pos = L.pos
      BY <1>1, <3>1, OverBlockIs
    <3>3. Frames(sent, M, 0) = <<InTop(sent, L)>>
      <4>1. DoneAt(M) + 0 = L.k + 1 /\ ListAt(sent, M) = sent /\ BlockAt(sent, M) = "top"
        BY <1>2, <3>2 DEF DoneAt, ListAt, BlockAt
      <4> QED
        BY <3>2, <4>1 DEF Frames, InTop
    <3>4. sent' = sent
      BY <2>1 DEF treeVars
    <3>5. ReadsAt(M)'
      BY <1>1, <1>2, <1>3, <2>1, <2>2, <3>2, <3>3, <3>4 DEF ReadsAt
    <3>6. Fresh(sent, M)
      BY <3>2 DEF Fresh
    <3> QED
      BY <3>5, <3>6
  <2>4. Passed(msg, sent, before, L) /\ ~Final(sent, L)
    BY <1>2, <1>4, <1>5, <1>6 DEF Passed, Final, Broken
  <2> QED
    BY <1>1, <2>1, <2>3, <2>4 DEF Moves, Reads
<1>7. CASE L.depth = 1 /\ pos # Len(msg)
  <2>1. Fails /\ UNCHANGED treeVars
    <3>1. Len(stack) = 1
      BY <1>3, <1>7, Zenon
    <3>2. ~(Len(stack) > 1)
      BY <3>1
    <3> QED
      BY <1>7, <3>1, <3>2 DEF EndBlock, Fails
  <2>2. ~Passed(msg, sent, before, L)
    BY <1>2, <1>4, <1>7 DEF Passed, Final
  <2> QED
    BY <2>1, <2>2, FailsStops
<1>8. CASE L.depth = 1 /\ pos = Len(msg)
  <2>1. /\ stack' = << >> /\ item' = None
        /\ pos' = (IF pass = 0 THEN 0 ELSE pos)
        /\ pass' = 1 /\ list' = << >>
        /\ phase' = (IF pass = 0 THEN "num" ELSE "merged")
        /\ UNCHANGED <<treeVars, got, raw, ref>>
    <3>1. Len(stack) = 1
      BY <1>3, <1>8, Zenon
    <3>2. ~(Len(stack) > 1)
      BY <3>1
    <3> QED
      BY <1>8, <3>1, <3>2 DEF EndBlock
  <2>2. Final(sent, L)
    BY <1>2, <1>4, <1>8 DEF Final
  <2>3. Passed(msg, sent, before, L)
    BY <1>2, <1>4, <1>5, <1>8 DEF Passed, Broken
  <2>4. pass = 0 => ReadsAt(Origin)'
    BY <2>1 DEF ReadsAt, Origin
  <2> QED
    BY <2>1, <2>2, <2>3, <2>4 DEF Ends
<1> QED
  BY <1>2, <1>6, <1>7, <1>8

-----------------------------------------------------------------------------
(* What is done of a list.                                                 *)

(* The config for the path p, with the scalars l, is done.                 *)
DoneAs(s, L, p, l) ==
    \/ \E n \in 1..L.k :
         s[n].kind = "config" /\ p = <<"top", s[n].name>> /\ l = s[n].scal
    \/ \E n \in 1..L.k : \E m \in 1..Len(s[n].sub) :
         /\ s[n].kind = "block" /\ p = <<s[n].name, s[n].sub[m].name>>
         /\ l = s[n].sub[m].scal
    \/ L.depth = 2 /\ \E m \in 1..L.j :
         p = <<s[L.k + 1].name, s[L.k + 1].sub[m].name>> /\ l = s[L.k + 1].sub[m].scal

(* At the start nothing is.                                                *)
LEMMA NoneDone ==
    ASSUME NEW s, NEW p, NEW l
    PROVE  ~DoneAs(s, Origin, p, l)
<1>1. Origin.k = 0 /\ Origin.depth = 1 /\ 1..0 = {}
  BY DEF Origin
<1> QED
  BY <1>1 DEF DoneAs

(* A step that does not end a config does none.                            *)
LEMMA SameDone ==
    ASSUME NEW s, Usual(s), NEW L, Shape(s, L), NEW M, Leads(s, L, M), ~OverConfig(s, L, M),
           NEW p, NEW l
    PROVE  DoneAs(s, M, p, l) <=> DoneAs(s, L, p, l)
<1>1. L.k \in Nat /\ L.j \in Nat /\ L.depth \in {1, 2}
  BY FieldsAre DEF Shape
<1>2. CASE M.depth = L.depth /\ M.k = L.k /\ M.j = L.j
  BY <1>2 DEF DoneAs
<1>3. CASE ToItems(s, L, M)
  <2>1. /\ M.k = L.k /\ M.j = L.j /\ L.ph \in {"start", "num"}
        /\ (L.ph = "start" => M.depth = 1 /\ L = Origin)
        /\ (L.ph = "num" => M.depth = 2)
    <3>1. L.ph \in {"start", "num"}
      BY <1>3 DEF ToItems
    <3> QED
      BY <1>3, <3>1, ToItemsIs
  <2>2. CASE L.ph = "start"
    <3>1. L.depth = 1 /\ M.depth = 1
      BY <2>1, <2>2 DEF Origin
    <3> QED
      BY <1>2, <2>1, <3>1
  <2>3. CASE L.ph = "num"
    <3>1. L.depth = 1 /\ L.j = 0 /\ 1..0 = {}
      BY <2>3 DEF Shape
    <3> QED
      BY <2>1, <3>1 DEF DoneAs
  <2> QED
    BY <2>1, <2>2, <2>3
<1>4. CASE OverBlock(s, L, M)
  <2>1. /\ M.depth = 1 /\ M.k = L.k + 1 /\ M.j = 0 /\ L.depth = 2 /\ ~Remains(s, L)
    BY <1>4, OverBlockIs DEF OverBlock
  <2>2. L.j = Len(s[L.k + 1].sub)
    <3>1. ListAt(s, L) = s[L.k + 1].sub /\ DoneAt(L) = L.j
      BY <2>1 DEF ListAt, DoneAt
    <3>2. L.j \in 0..Len(s[L.k + 1].sub) /\ Len(s[L.k + 1].sub) \in Nat
      BY <3>1, ItemsAre
    <3> QED
      BY <2>1, <3>1, <3>2 DEF Remains
  <2>3. s[L.k + 1].kind = "block"
    BY <2>1 DEF Shape
  <2>4. 1..(L.k + 1) = (1..L.k) \cup {L.k + 1}
    BY <1>1
  <2>5. DoneAs(s, M, p, l) <=>
          \/ \E n \in 1..(L.k + 1) :
               s[n].kind = "config" /\ p = <<"top", s[n].name>> /\ l = s[n].scal
          \/ \E n \in 1..(L.k + 1) : \E m \in 1..Len(s[n].sub) :
               /\ s[n].kind = "block" /\ p = <<s[n].name, s[n].sub[m].name>>
               /\ l = s[n].sub[m].scal
    BY <2>1 DEF DoneAs
  <2>6. (\E n \in 1..(L.k + 1) :
           s[n].kind = "config" /\ p = <<"top", s[n].name>> /\ l = s[n].scal)
        <=> \E n \in 1..L.k :
              s[n].kind = "config" /\ p = <<"top", s[n].name>> /\ l = s[n].scal
    BY <2>3, <2>4
  <2>7. (\E n \in 1..(L.k + 1) : \E m \in 1..Len(s[n].sub) :
           /\ s[n].kind = "block" /\ p = <<s[n].name, s[n].sub[m].name>>
           /\ l = s[n].sub[m].scal)
        <=> \/ \E n \in 1..L.k : \E m \in 1..Len(s[n].sub) :
                 /\ s[n].kind = "block" /\ p = <<s[n].name, s[n].sub[m].name>>
                 /\ l = s[n].sub[m].scal
            \/ \E m \in 1..L.j : /\ p = <<s[L.k + 1].name, s[L.k + 1].sub[m].name>>
                                  /\ l = s[L.k + 1].sub[m].scal
    BY <2>2, <2>3, <2>4
  <2> QED
    BY <2>1, <2>5, <2>6, <2>7 DEF DoneAs
<1>5. CASE ToRun(s, L, M)
  BY <1>2, <1>5, ToRunIs
<1>6. CASE OverClones(s, L, M)
  BY <1>2, <1>6, OverClonesIs
<1>7. CASE ToRaw(s, L, M)
  BY <1>2, <1>7, ToRawIs
<1>8. CASE OverScalar(s, L, M)
  BY <1>2, <1>8, OverScalarIs
<1>9. CASE ToBlock(s, L, M)
  BY <1>2, <1>9, ToBlockIs
<1> QED
  BY <1>3, <1>4, <1>5, <1>6, <1>7, <1>8, <1>9 DEF Leads

(* The end of a config does that one.                                      *)
LEMMA OneMoreDone ==
    ASSUME NEW s, Usual(s), NEW L, Shape(s, L), NEW M, OverConfig(s, L, M), NEW p, NEW l
    PROVE  DoneAs(s, M, p, l) <=>
             DoneAs(s, L, p, l) \/ (p = PathAt(s, L) /\ l = Cur(s, L).scal)
<1>1. L.k \in Nat /\ L.j \in Nat /\ L.depth \in {1, 2}
  BY FieldsAre DEF Shape
<1>2. /\ M.depth = L.depth /\ Cur(s, L).kind = "config"
      /\ M.k = (IF L.depth = 1 THEN L.k + 1 ELSE L.k)
      /\ M.j = (IF L.depth = 1 THEN L.j ELSE L.j + 1)
  <2>1. Cur(s, L).kind = "config"
    BY DEF OverConfig
  <2> QED
    BY <2>1, OverConfigIs
<1>3. CASE L.depth = 1
  <2>1. Cur(s, L) = s[L.k + 1] /\ PathAt(s, L) = <<"top", s[L.k + 1].name>>
    BY <1>3 DEF Cur, ListAt, DoneAt, PathAt, BlockAt
  <2>2. 1..(L.k + 1) = (1..L.k) \cup {L.k + 1} /\ M.k = L.k + 1 /\ M.depth = 1
    BY <1>1, <1>2, <1>3
  <2>3. s[L.k + 1].kind = "config"
    BY <1>2, <2>1
  <2> QED
    BY <1>3, <2>1, <2>2, <2>3 DEF DoneAs
<1>4. CASE L.depth = 2
  <2>1. /\ Cur(s, L) = s[L.k + 1].sub[L.j + 1]
        /\ PathAt(s, L) = <<s[L.k + 1].name, s[L.k + 1].sub[L.j + 1].name>>
    BY <1>4 DEF Cur, ListAt, DoneAt, PathAt, BlockAt
  <2>2. 1..(L.j + 1) = (1..L.j) \cup {L.j + 1} /\ M.j = L.j + 1 /\ M.k = L.k /\ M.depth = 2
    BY <1>1, <1>2, <1>4
  <2> QED
    BY <1>4, <2>1, <2>2 DEF DoneAs
<1> QED
  BY <1>1, <1>3, <1>4

(* The item being read has not been done.                                  *)
LEMMA NotYetDone ==
    ASSUME NEW s, Usual(s), NEW L, Shape(s, L), Fresh(s, L), L.ph \in {"run", "raw"}, NEW l
    PROVE  ~DoneAs(s, L, PathAt(s, L), l)
<1>1. L.k \in Nat /\ L.j \in Nat /\ L.depth \in {1, 2} /\ Len(s) \in Nat
  BY FieldsAre, ItemsAre DEF Shape
<1>2. L.k <= Len(s) /\ \A n \in 1..L.k : n \in 1..Len(s)
  <2>1. L.k <= Len(s)
    BY <1>1 DEF Shape
  <2> QED
    BY <1>1, <2>1
<1>3. \A n \in 1..L.k : s[n].name # "top" /\ s[n].name # s[L.k + 1].name
  <2>1. \A n \in 1..L.k : s[n].name # "top"
    BY <1>2 DEF Usual, IsConfig, IsBlock
  <2> QED
    BY <2>1 DEF Fresh, Names
<1>4. CASE L.depth = 1
  <2>1. PathAt(s, L) = <<"top", s[L.k + 1].name>>
    BY <1>4 DEF Cur, ListAt, DoneAt, PathAt, BlockAt
  <2> QED
    BY <1>3, <1>4, <2>1 DEF DoneAs
<1>5. CASE L.depth = 2
  <2>1. PathAt(s, L) = <<s[L.k + 1].name, s[L.k + 1].sub[L.j + 1].name>>
    BY <1>5 DEF Cur, ListAt, DoneAt, PathAt, BlockAt
  <2>2. s[L.k + 1].name # "top"
    BY <1>5, ItemsAre DEF IsBlock
  <2>3. \A m \in 1..L.j : s[L.k + 1].sub[m].name # s[L.k + 1].sub[L.j + 1].name
    BY <1>5 DEF Fresh, Names
  <2> QED
    BY <1>3, <2>1, <2>2, <2>3 DEF DoneAs
<1> QED
  BY <1>1, <1>4, <1>5

(* What the user asked for.                                                *)
LEMMA AskedIs ==
    ASSUME Usual(sent), NEW p, NEW l
    PROVE  l \in AskedFor(p) <=>
             \/ \E n \in 1..Len(sent) :
                  /\ sent[n].kind = "config" /\ p = <<"top", sent[n].name>>
                  /\ l = sent[n].scal
             \/ \E n \in 1..Len(sent) : \E m \in 1..Len(sent[n].sub) :
                  /\ sent[n].kind = "block" /\ p = <<sent[n].name, sent[n].sub[m].name>>
                  /\ l = sent[n].sub[m].scal
<1>1. ToSet(sent) = {sent[n] : n \in 1..Len(sent)}
  BY DEF Usual, AList, ToSet
<1>2. \A n \in 1..Len(sent) : sent[n].kind = "block" =>
        ToSet(sent[n].sub) = {sent[n].sub[m] : m \in 1..Len(sent[n].sub)}
  <2> SUFFICES ASSUME NEW n \in 1..Len(sent), sent[n].kind = "block"
               PROVE  ToSet(sent[n].sub) = {sent[n].sub[m] : m \in 1..Len(sent[n].sub)}
    OBVIOUS
  <2>1. AList(sent[n].sub)
    BY DEF Usual, IsConfig, IsBlock
  <2> QED
    BY <2>1, ListIs DEF ToSet
<1> DEFINE A == {i.scal : i \in {x \in ToSet(sent) :
                                  x.kind = "config" /\ p = <<"top", x.name>>}}
           B(b) == {i.scal : i \in {x \in ToSet(b.sub) : p = <<b.name, x.name>>}}
           C == {x \in ToSet(sent) : x.kind = "block"}
<1>3. l \in AskedFor(p) <=> l \in A \/ \E b \in C : l \in B(b)
  BY DEF AskedFor
<1>4. l \in A <=> \E n \in 1..Len(sent) :
        sent[n].kind = "config" /\ p = <<"top", sent[n].name>> /\ l = sent[n].scal
  BY <1>1
<1>5. (\E b \in C : l \in B(b)) <=>
        \E n \in 1..Len(sent) : sent[n].kind = "block" /\ l \in B(sent[n])
  <2> HIDE DEF B
  <2> QED
    BY <1>1
<1>6. \A n \in 1..Len(sent) : sent[n].kind = "block" =>
        (l \in B(sent[n]) <=> \E m \in 1..Len(sent[n].sub) :
           p = <<sent[n].name, sent[n].sub[m].name>> /\ l = sent[n].sub[m].scal)
  BY <1>2
<1> HIDE DEF A, B, C
<1> QED
  BY <1>3, <1>4, <1>5, <1>6

(* At the end it is done, and nothing else.                                *)
LEMMA AllDone ==
    ASSUME Usual(sent), NEW L, Shape(sent, L), Final(sent, L), NEW p, NEW l
    PROVE  l \in AskedFor(p) <=> DoneAs(sent, L, p, l)
<1>1. L.depth = 1 /\ L.k = Len(sent)
  <2>1. L.depth = 1 /\ ~Remains(sent, L)
    BY DEF Final
  <2>2. DoneAt(L) \in 0..Len(ListAt(sent, L)) /\ Len(ListAt(sent, L)) \in Nat
    BY ItemsAre
  <2> QED
    BY <2>1, <2>2 DEF Remains, ListAt, DoneAt
<1> QED
  BY <1>1, AskedIs DEF DoneAs

(* The item at a place is asked for.                                       *)
LEMMA CurAsked ==
    ASSUME Usual(sent), NEW L, Shape(sent, L), Remains(sent, L),
           Cur(sent, L).kind = "config"
    PROVE  Cur(sent, L).scal \in AskedFor(PathAt(sent, L))
<1>1. L.k \in Nat /\ L.j \in Nat /\ L.depth \in {1, 2}
      /\ DoneAt(L) + 1 \in 1..Len(ListAt(sent, L))
  BY FieldsAre, ItemsAre DEF Shape, Remains
<1>2. CASE L.depth = 1
  <2>1. /\ Cur(sent, L) = sent[L.k + 1] /\ PathAt(sent, L) = <<"top", sent[L.k + 1].name>>
        /\ L.k + 1 \in 1..Len(sent)
    BY <1>1, <1>2 DEF Cur, ListAt, DoneAt, PathAt, BlockAt
  <2> QED
    BY <2>1, AskedIs
<1>3. CASE L.depth = 2
  <2>1. /\ Cur(sent, L) = sent[L.k + 1].sub[L.j + 1]
        /\ PathAt(sent, L) = <<sent[L.k + 1].name, sent[L.k + 1].sub[L.j + 1].name>>
        /\ L.j + 1 \in 1..Len(sent[L.k + 1].sub)
    BY <1>1, <1>3 DEF Cur, ListAt, DoneAt, PathAt, BlockAt
  <2>2. L.k + 1 \in 1..Len(sent) /\ sent[L.k + 1].kind = "block"
    BY <1>3, ItemsAre DEF IsBlock
  <2> QED
    BY <2>1, <2>2, AskedIs
<1> QED
  BY <1>1, <1>2, <1>3

(* The scalars of an item that is written.                                 *)
LEMMA ReplacedIs ==
    ASSUME NEW old, AList(old), NEW l
    PROVE  /\ AList(Replaced(old, l)) /\ AList(<<Empty>>)
           /\ Len(Replaced(old, l)) = Len(old)
           /\ Given(l) /\ l # <<Empty>> =>
                \A j \in 1..Len(old) :
                  /\ (\A k \in 1..Len(l) : l[k].i # old[j].i) => Replaced(old, l)[j] = old[j]
                  /\ \A k \in 1..Len(l) : l[k].i = old[j].i => Replaced(old, l)[j] = l[k]
<1> DEFINE hits(j) == {k \in 1..Len(l) : l[k].i = old[j].i}
           e(j) == IF hits(j) = {} THEN old[j]
                   ELSE l[CHOOSE k \in hits(j) : \A o \in hits(j) : o <= k]
           r == Replaced(old, l)
<1>1. r = [j \in 1..Len(old) |-> e(j)] /\ Len(old) \in Nat
  BY ListIs DEF Replaced
<1>2. Len(r) = Len(old) /\ \A j \in 1..Len(old) : r[j] = e(j)
  <2> HIDE DEF e, r
  <2> QED
    BY <1>1
<1>3. AList(r)
  <2> HIDE DEF e, r
  <2>1. \A j \in 1..Len(old) : r[j] \in ToSet(r)
    BY <1>1 DEF ToSet
  <2>2. r = [j \in 1..Len(old) |-> r[j]]
    BY <1>1
  <2> QED
    BY <1>1, <2>1, <2>2 DEF AList
<1>4. ASSUME Given(l), l # <<Empty>>, NEW j \in 1..Len(old)
      PROVE  /\ hits(j) = {} => r[j] = old[j]
             /\ \A k \in hits(j) : r[j] = l[k]
  <2>1. r[j] = e(j)
    BY <1>2
  <2>2. ASSUME NEW k \in hits(j) PROVE r[j] = l[k]
    <3>1. \A o \in hits(j) : o = k
      BY <1>4, <2>2 DEF Given
    <3>2. \A o \in hits(j) : o <= k
      <4>1. k \in Int
        OBVIOUS
      <4> QED
        BY <3>1, <4>1
    <3> HIDE DEF hits
    <3>3. (CHOOSE o \in hits(j) : \A q \in hits(j) : q <= o) = k
      BY <2>2, <3>1, <3>2
    <3> QED
      BY <2>1, <2>2, <3>3
  <2> QED
    BY <2>1, <2>2
<1>5. AList(<<Empty>>)
  BY Single
<1> HIDE DEF e, r
<1>6. Given(l) /\ l # <<Empty>> =>
        \A j \in 1..Len(old) : /\ hits(j) = {} => r[j] = old[j]
                               /\ \A k \in hits(j) : r[j] = l[k]
  BY <1>4
<1>7. Given(l) /\ l # <<Empty>> =>
        \A j \in 1..Len(old) :
          /\ (\A k \in 1..Len(l) : l[k].i # old[j].i) => r[j] = old[j]
          /\ \A k \in 1..Len(l) : l[k].i = old[j].i => r[j] = l[k]
  BY <1>6 DEF hits
<1> QED
  BY <1>2, <1>3, <1>5, <1>7 DEF r

-----------------------------------------------------------------------------
(* Two passes over the message.                                            *)

(* What the tree is when the reader is there in the second pass.           *)
SoFar(L) ==
    \A p \in Items :
      /\ (\A l : ~DoneAs(sent, L, p, l)) => tree[p] = before[p]
      /\ \A l : DoneAs(sent, L, p, l) => tree[p] = WrittenAs(before[p], l)

(* The first pass: the places in V are passed, and lead to L.              *)
Tries(P, V, L) ==
    /\ Charted(sent, msg, P) /\ L \in P /\ V \subseteq P
    /\ ReadsAt(L) /\ Fresh(sent, L) /\ Origin \in V \cup {L}
    /\ \A K \in V : /\ Passed(msg, sent, before, K)
                    /\ \E M \in V \cup {L} : Leads(sent, K, M)

(* The second pass goes over places the first one has passed.              *)
Repeats(V, L) ==
    /\ L \in V /\ ReadsAt(L) /\ Fresh(sent, L) /\ SoFar(L)
    /\ \A K \in V : /\ Shape(sent, K) /\ Said(msg, sent, K) /\ Passed(msg, sent, before, K)
                    /\ Final(sent, K) \/ \E M \in V : Leads(sent, K, M)

ReadInv ==
    phase \in Reads /\ Usual(sent) =>
      /\ AList(msg)
      /\ pass = 0 => \E P, V, L : Tries(P, V, L)
      /\ pass = 1 => \E V, L : Repeats(V, L)

TreesAre ==
    /\ DOMAIN tree = Items /\ DOMAIN before = Items
    /\ \A p \in Items : AList(tree[p]) /\ AList(before[p])

SnipInv ==
    /\ DryInv /\ TreesAre /\ (~Parameters => Usual(sent)) /\ PackInv /\ ReadInv
    /\ DownForCause /\ MergeIsExact

Reader ==
    \/ ReadNum \/ ReadItem \/ ReadDup \/ ReadRaw \/ ReadScalar \/ EnterBlock \/ EndConfig
    \/ EndBlock

(* A config ends where the reader ends it.                                 *)
LEMMA OnlyThere ==
    ASSUME NEW L, Reading(L), NEW M, OverConfig(sent, L, M), Reader
    PROVE  EndConfig
<1>1. L.ph = "run" /\ L.c = Len(Cur(sent, L).scal) /\ Cur(sent, L).kind = "config"
  BY DEF OverConfig
<1>2. phase = "run" /\ got = L.c
  BY <1>1 DEF Reading, ReadsAt
<1>3. item.kind = "config" /\ got = item.num /\ item.num \in Nat
  BY <1>1, <1>2, ItemIs
<1> QED
  BY <1>2, <1>3 DEF Reader, ReadNum, ReadItem, ReadDup, ReadRaw, ReadScalar, EnterBlock,
                    EndBlock

(* A step of the reader, whichever it is.                                  *)
LEMMA ReaderFrom ==
    ASSUME NEW L, Reading(L), Reader
    PROVE  \/ Stops(L) /\ UNCHANGED treeVars
           \/ Moves(L) /\ UNCHANGED treeVars /\ \A M : ~OverConfig(sent, L, M)
           \/ Writes(L)
           \/ Ends(L) /\ UNCHANGED treeVars
<1>1. CASE EndConfig
  BY <1>1, EndConfigFrom
<1>2. CASE ~EndConfig
  <2>1. \A M : ~OverConfig(sent, L, M)
    BY <1>2, OnlyThere
  <2>2. (Stops(L) \/ Moves(L) \/ Ends(L)) /\ UNCHANGED treeVars
    BY <1>2, ReadNumFrom, ReadItemFrom, ReadDupFrom, ReadRawFrom, ReadScalarFrom,
       EnterBlockFrom, EndBlockFrom DEF Reader
  <2> QED
    BY <2>1, <2>2
<1> QED
  BY <1>1, <1>2

(* The program goes down for what the user asked for.                      *)
LEMMA DownFor ==
    ASSUME NEW L, Reading(L), Caused(L), UNCHANGED treeVars
    PROVE  DownForCause'
<1>1. PICK p \in Items : p = PathAt(sent, L) /\ Excess(p, Cur(sent, L).scal)
  BY DEF Caused
<1>2. Cur(sent, L).scal \in AskedFor(p)
  BY <1>1, CurAsked DEF Caused, Reading
<1>3. sent' = sent /\ before' = before
  BY DEF treeVars
<1>4. Cur(sent, L).scal \in AskedFor(p)'
  BY <1>2, <1>3 DEF AskedFor
<1>5. \/ Len(Cur(sent, L).scal) > Len(before'[p])
      \/ \E k \in 1..Len(Cur(sent, L).scal) : \A j \in 1..Len(before'[p]) :
           before'[p][j].i # Cur(sent, L).scal[k].i
  BY <1>1, <1>3 DEF Excess
<1> QED
  BY <1>4, <1>5 DEF DownForCause

(* At the end every item is what it should be.                             *)
IsMerged ==
    \A p \in Items :
      /\ AskedFor(p) = {} => tree[p] = before[p]
      /\ \A new \in AskedFor(p) :
           IF new = <<Empty>> THEN tree[p] = <<Empty>>
           ELSE /\ Len(tree[p]) = Len(before[p])
                /\ \A j \in 1..Len(tree[p]) :
                     LET hit == {k \in 1..Len(new) : new[k].i = before[p][j].i} IN
                     /\ hit = {} => tree[p][j] = before[p][j]
                     /\ \A k \in hit : tree[p][j] = new[k]

LEMMA EndIsExact ==
    ASSUME TreesAre, Usual(sent), NEW L, Shape(sent, L), Final(sent, L), SoFar(L)
    PROVE  IsMerged
<1>1. ASSUME NEW p \in Items, AskedFor(p) = {} PROVE tree[p] = before[p]
  BY <1>1, AllDone DEF SoFar
<1>2. ASSUME NEW p \in Items, NEW new \in AskedFor(p)
      PROVE  IF new = <<Empty>> THEN tree[p] = <<Empty>>
             ELSE /\ Len(tree[p]) = Len(before[p])
                  /\ \A j \in 1..Len(tree[p]) :
                       LET hit == {k \in 1..Len(new) : new[k].i = before[p][j].i} IN
                       /\ hit = {} => tree[p][j] = before[p][j]
                       /\ \A k \in hit : tree[p][j] = new[k]
  <2>1. tree[p] = WrittenAs(before[p], new)
    BY <1>2, AllDone DEF SoFar
  <2>2. Given(new)
    <3>1. AskedFor(p) \subseteq {l \in AskedFor(p) : Given(l)}
      <4>1. ASSUME NEW l \in AskedFor(p) PROVE Given(l)
        <5>1. ASSUME NEW n \in 1..Len(sent), sent[n].kind = "config"
              PROVE  Given(sent[n].scal)
          BY <5>1 DEF Usual, IsConfig, IsBlock
        <5>2. ASSUME NEW n \in 1..Len(sent), sent[n].kind = "block",
                     NEW m \in 1..Len(sent[n].sub)
              PROVE  Given(sent[n].sub[m].scal)
          BY <5>2 DEF Usual, IsConfig, IsBlock
        <5> QED
          BY <4>1, <5>1, <5>2, AskedIs
      <4> QED
        BY <4>1
    <3> QED
      BY <1>2, <3>1
  <2>3. AList(before[p])
    BY DEF TreesAre
  <2>4. CASE new = <<Empty>>
    BY <2>1, <2>4 DEF WrittenAs
  <2>5. CASE new # <<Empty>>
    <3>1. tree[p] = Replaced(before[p], new)
      BY <2>1, <2>5 DEF WrittenAs
    <3> QED
      <4>1. Len(Replaced(before[p], new)) = Len(before[p])
        BY <2>3, ReplacedIs
      <4>2. \A j \in 1..Len(before[p]) :
              LET hit == {k \in 1..Len(new) : new[k].i = before[p][j].i} IN
              /\ hit = {} => Replaced(before[p], new)[j] = before[p][j]
              /\ \A k \in hit : Replaced(before[p], new)[j] = new[k]
        <5> DEFINE old == before[p]
        <5>1. AList(old) /\ Given(new) /\ new # <<Empty>>
          BY <2>2, <2>3, <2>5
        <5> HIDE DEF old
        <5>2. \A j \in 1..Len(old) :
                /\ (\A k \in 1..Len(new) : new[k].i # old[j].i) =>
                     Replaced(old, new)[j] = old[j]
                /\ \A k \in 1..Len(new) : new[k].i = old[j].i =>
                     Replaced(old, new)[j] = new[k]
          BY <5>1, ReplacedIs
        <5> QED
          BY <5>2 DEF old
      <4>3. Len(tree[p]) = Len(before[p])
        BY <3>1, <4>1
      <4>4. \A j \in 1..Len(tree[p]) :
              LET hit == {k \in 1..Len(new) : new[k].i = before[p][j].i} IN
              /\ hit = {} => tree[p][j] = before[p][j]
              /\ \A k \in hit : tree[p][j] = new[k]
        BY <3>1, <4>2, <4>3, Zenon
      <4> QED
        BY <2>5, <4>3, <4>4, Zenon
  <2> QED
    BY <2>4, <2>5
<1> QED
  BY <1>1, <1>2 DEF IsMerged

(* The trees stay trees.                                                   *)
LEMMA TreesStay ==
    ASSUME TreesAre, [SnipNext]_snipVars
    PROVE  TreesAre'
<1>1. CASE UNCHANGED <<tree, before>>
  BY <1>1 DEF TreesAre
<1>2. CASE Send \/ Pick
  BY <1>2 DEF Send, Pick, Afresh, TreesAre
<1>3. CASE EndConfig
  <2>1. before' = before
    BY <1>3 DEF EndConfig, Fails, treeVars
  <2>2. tree' = tree \/ (/\ item.kind = "config"
                         /\ tree' = [tree EXCEPT ![Path(item.name)] = Written(Old)])
    BY <1>3 DEF EndConfig, Fails, treeVars
  <2>3. CASE /\ item.kind = "config"
             /\ tree' = [tree EXCEPT ![Path(item.name)] = Written(Old)]
    <3> DEFINE q == Path(item.name)
               w == Written(Old)
    <3>1. DOMAIN tree' = Items /\ \A p \in Items : tree'[p] = IF p = q THEN w ELSE tree[p]
      <4> HIDE DEF q, w
      <4> QED
        BY <2>3 DEF TreesAre, q, w
    <3>2. q \in Items => AList(w)
      <4>1. q \in Items => AList(Old)
        BY <2>3 DEF Old, TreesAre
      <4> QED
        BY <4>1, ReplacedIs DEF Written
    <3> HIDE DEF q, w
    <3> QED
      BY <2>1, <3>1, <3>2 DEF TreesAre
  <2> QED
    BY <1>1, <2>1, <2>2, <2>3
<1>4. CASE ~Send /\ ~Pick /\ ~EndConfig
  <2>1. UNCHANGED <<tree, before>>
    BY <1>4 DEF SnipNext, snipVars, treeVars, readVars, TooBig, Packing, ReadNum, ReadItem,
                ReadDup, ReadRaw, ReadScalar, EnterBlock, EndBlock, Fails
  <2> QED
    BY <1>1, <2>1
<1> QED
  BY <1>2, <1>3, <1>4

(* A step of the reader in the first pass.                                 *)
LEMMA FirstPass ==
    ASSUME SnipInv, phase \in Reads, Usual(sent), pass = 0, Reader
    PROVE  (ReadInv /\ DownForCause /\ MergeIsExact)'
<1>1. AList(msg) /\ tree = before /\ \A p \in Items : AList(before[p])
  BY DEF SnipInv, ReadInv, DryInv, TreesAre, Reads
<1>2. PICK P, V, L : Tries(P, V, L)
  BY DEF SnipInv, ReadInv
<1>3. /\ Charted(sent, msg, P) /\ L \in P /\ V \subseteq P /\ Origin \in V \cup {L}
      /\ ReadsAt(L) /\ Fresh(sent, L)
      /\ \A K \in V : /\ Passed(msg, sent, before, K)
                      /\ \E M \in V \cup {L} : Leads(sent, K, M)
  BY <1>2 DEF Tries
<1>4. \A K \in P : /\ Shape(sent, K) /\ Said(msg, sent, K)
                   /\ Final(sent, K) \/ Broken(K) \/ \E M \in P : Leads(sent, K, M)
  BY <1>3 DEF Charted
<1>5. Reading(L)
  BY <1>1, <1>3, <1>4 DEF Reading
<1>6. CASE Stops(L) /\ UNCHANGED treeVars
  <2>1. phase' \in {"refused", "crashed"}
    BY <1>6 DEF Stops
  <2>2. phase' = "crashed" => DownForCause'
    BY <1>5, <1>6, DownFor DEF Stops
  <2>3. phase' = "refused" => DownForCause'
    BY DEF DownForCause
  <2> QED
    BY <2>1, <2>2, <2>3 DEF ReadInv, Reads, MergeIsExact
<1>7. CASE Moves(L) /\ UNCHANGED <<before, sent, msg>>
  <2>1. /\ Passed(msg, sent, before, L) /\ ~Final(sent, L) /\ phase' \in Reads /\ pass' = 0
        /\ \A M : Leads(sent, L, M) => ReadsAt(M)' /\ Fresh(sent, M)
    BY <1>7 DEF Moves
  <2>2. ~Broken(L)
    BY <2>1 DEF Passed
  <2>3. PICK M \in P : Leads(sent, L, M)
    BY <1>3, <1>4, <2>1, <2>2
  <2> DEFINE W == V \cup {L}
  <2>4. W \subseteq P /\ Origin \in W \cup {M}
        /\ \A K \in W : /\ Passed(msg, sent, before, K)
                        /\ \E N \in W \cup {M} : Leads(sent, K, N)
    BY <1>3, <2>1, <2>3
  <2> HIDE DEF W
  <2>5. Tries(P, W, M)'
    BY <1>3, <1>7, <2>1, <2>3, <2>4 DEF Tries
  <2>6. ReadInv'
    BY <1>1, <1>7, <2>1, <2>5 DEF ReadInv
  <2> QED
    BY <2>1, <2>6 DEF Reads, DownForCause, MergeIsExact
<1>8. CASE Ends(L) /\ UNCHANGED treeVars
  <2>1. /\ Final(sent, L) /\ Passed(msg, sent, before, L) /\ pass' = 1 /\ phase' = "num"
        /\ ReadsAt(Origin)' /\ sent' = sent /\ msg' = msg /\ before' = before /\ tree' = tree
    BY <1>8 DEF Ends, treeVars
  <2> DEFINE W == V \cup {L}
  <2>2. Origin \in W
        /\ \A K \in W : /\ Shape(sent, K) /\ Said(msg, sent, K)
                        /\ Passed(msg, sent, before, K)
                        /\ Final(sent, K) \/ \E M \in W : Leads(sent, K, M)
    BY <1>3, <1>4, <2>1
  <2> HIDE DEF W
  <2>3. SoFar(Origin)'
    BY <1>1, <2>1, NoneDone DEF SoFar
  <2>4. Fresh(sent, Origin)
    BY DEF Fresh, Origin
  <2>5. Repeats(W, Origin)'
    BY <2>1, <2>2, <2>3, <2>4 DEF Repeats
  <2>6. ReadInv'
    BY <1>1, <2>1, <2>5 DEF ReadInv
  <2> QED
    BY <2>1, <2>6 DEF DownForCause, MergeIsExact
<1> QED
  BY <1>5, <1>6, <1>7, <1>8, ReaderFrom DEF Writes, treeVars

(* A step of the reader in the second pass.                                *)
LEMMA SecondPass ==
    ASSUME SnipInv, phase \in Reads, Usual(sent), pass = 1, Reader
    PROVE  (ReadInv /\ DownForCause /\ MergeIsExact)'
<1>1. AList(msg) /\ TreesAre /\ DOMAIN tree = Items /\ \A p \in Items : AList(before[p])
  BY DEF SnipInv, ReadInv, TreesAre
<1>2. PICK V, L : Repeats(V, L)
  BY DEF SnipInv, ReadInv
<1>3. /\ L \in V /\ ReadsAt(L) /\ Fresh(sent, L) /\ SoFar(L)
      /\ \A K \in V : /\ Shape(sent, K) /\ Said(msg, sent, K)
                      /\ Passed(msg, sent, before, K)
                      /\ Final(sent, K) \/ \E M \in V : Leads(sent, K, M)
  BY <1>2 DEF Repeats
<1>4. Reading(L)
  <2>1. L.ph \in {"run", "raw"} /\ PathAt(sent, L) \in Items =>
          tree[PathAt(sent, L)] = before[PathAt(sent, L)]
    BY <1>3, NotYetDone DEF SoFar
  <2> QED
    BY <1>1, <1>3, <2>1 DEF Reading
<1>5. CASE Stops(L) /\ UNCHANGED treeVars
  <2>1. phase' \in {"died", "crashed"} /\ Caused(L)
    BY <1>3, <1>5 DEF Stops
  <2>2. DownForCause'
    BY <1>4, <1>5, <2>1, DownFor
  <2> QED
    BY <2>1, <2>2 DEF ReadInv, Reads, MergeIsExact
<1>6. ASSUME Moves(L), UNCHANGED <<before, sent, msg>>,
             NEW M \in V, Leads(sent, L, M), SoFar(M)'
      PROVE  (ReadInv /\ DownForCause /\ MergeIsExact)'
  <2>1. /\ phase' \in Reads /\ pass' = 1 /\ ReadsAt(M)' /\ Fresh(sent, M)
    BY <1>6 DEF Moves
  <2>2. Repeats(V, M)'
    BY <1>3, <1>6, <2>1 DEF Repeats
  <2>3. ReadInv'
    BY <1>1, <1>6, <2>1, <2>2 DEF ReadInv
  <2> QED
    BY <2>1, <2>3 DEF Reads, DownForCause, MergeIsExact
<1>7. CASE Moves(L) /\ UNCHANGED treeVars /\ \A M : ~OverConfig(sent, L, M)
  <2>1. PICK M \in V : Leads(sent, L, M)
    BY <1>3, <1>7 DEF Moves
  <2>2. sent' = sent /\ tree' = tree /\ UNCHANGED <<before, sent, msg>>
    BY <1>7 DEF treeVars
  <2>3. \A p, l : DoneAs(sent, M, p, l) <=> DoneAs(sent, L, p, l)
    BY <1>3, <1>7, <2>1, SameDone
  <2>4. SoFar(M)'
    BY <1>3, <2>2, <2>3 DEF SoFar
  <2> QED
    BY <1>6, <1>7, <2>1, <2>2, <2>4
<1>8. CASE Writes(L)
  <2> DEFINE q == PathAt(sent, L)
             new == Cur(sent, L).scal
             w == WrittenAs(before[q], new)
  <2>1. /\ Moves(L) /\ UNCHANGED <<before, sent, msg>> /\ L.ph = "run"
        /\ tree' = [tree EXCEPT ![q] = w] /\ q \in Items
        /\ L.c = Len(Cur(sent, L).scal) /\ Cur(sent, L).kind = "config"
    BY <1>8 DEF Writes
  <2>2. PICK M \in V : Leads(sent, L, M)
    BY <1>3, <2>1 DEF Moves
  <2>3. OverConfig(sent, L, M)
    <3>1. ~(L.c < Len(Cur(sent, L).scal))
      <4>1. L.c \in Nat
        BY <1>3, FieldsAre DEF Shape
      <4> QED
        BY <2>1, <4>1
    <3> QED
      BY <2>1, <2>2, <3>1 DEF Leads, ToItems, ToRun, OverClones, ToRaw, OverScalar,
                              ToBlock, OverBlock
  <2>4. \A p, l : DoneAs(sent, M, p, l) <=> DoneAs(sent, L, p, l) \/ (p = q /\ l = new)
    BY <1>3, <2>3, OneMoreDone
  <2>5. \A l : ~DoneAs(sent, L, q, l)
    BY <1>3, <2>1, NotYetDone
  <2> HIDE DEF q, new
  <2>6. \A p \in Items : tree'[p] = IF p = q THEN w ELSE tree[p]
    <3> HIDE DEF w
    <3> QED
      BY <1>1, <2>1
  <2>7. SoFar(M)'
    <3>1. ASSUME NEW p \in Items, \A l : ~DoneAs(sent, M, p, l)
          PROVE  tree'[p] = before[p]
      BY <1>3, <2>4, <2>6, <3>1 DEF SoFar
    <3>2. ASSUME NEW p \in Items, NEW l, DoneAs(sent, M, p, l)
          PROVE  tree'[p] = WrittenAs(before[p], l)
      BY <1>3, <2>4, <2>5, <2>6, <3>2 DEF SoFar
    <3> QED
      BY <2>1, <3>1, <3>2 DEF SoFar
  <2> QED
    BY <1>6, <2>1, <2>2, <2>7
<1>9. CASE Ends(L) /\ UNCHANGED treeVars
  <2>1. Final(sent, L) /\ phase' = "merged" /\ UNCHANGED <<tree, before, sent>>
    BY <1>9 DEF Ends, treeVars
  <2>2. IsMerged
    BY <1>1, <1>3, <2>1, EndIsExact
  <2>3. \A p : AskedFor(p)' = AskedFor(p)
    BY <2>1 DEF AskedFor
  <2>4. IsMerged'
    BY <2>1, <2>2, <2>3 DEF IsMerged
  <2> QED
    BY <2>1, <2>4 DEF IsMerged, ReadInv, Reads, DownForCause, MergeIsExact
<1> QED
  BY <1>4, <1>5, <1>7, <1>8, <1>9, ReaderFrom

(* A list is picked.                                                       *)
LEMMA PickPacks ==
    ASSUME Pick
    PROVE  PackInv' /\ (~Parameters => Usual(sent))'
<1>1. PICK s \in Snippets :
         /\ sent' = s
         /\ pack' = [rest |-> << >>, item |-> Outermost(s), scal |-> << >>, run |-> 0]
  BY DEF Pick
<1>2. msg' = << >> /\ phase' = "packNum"
  BY DEF Pick
<1>3. AList(s) /\ \A k \in 1..Len(s) : IsConfig(s[k]) \/ IsBlock(s[k])
  BY SnippetAssumption DEF SnippetAssumption
<1>4. ~Parameters' => Usual(sent')
  BY <1>1, <1>3 DEF Parameters, Usual, IsBlock
<1>5. AList(<< >>) /\ Len(<< >>) = 0
  BY DEF AList
<1>6. IsPack(pack')
  BY <1>1 DEF IsPack
<1>7. ASSUME Usual(sent') PROVE Packs({Origin}, Origin)'
  <2>1. Shape(sent', Origin)
    <3>1. Origin \in Place
      BY DEF Origin, Place
    <3>2. Len(sent') \in Nat
      BY <1>7, ListIs DEF Usual
    <3> QED
      BY <3>1, <3>2 DEF Shape, Origin
  <2>2. PacksAt(sent', Origin, phase', pack', msg')
    BY <1>1, <1>2, <1>5 DEF PacksAt, Origin
  <2> QED
    BY <2>1, <2>2 DEF Packs
<1>8. PackInv'
  BY <1>2, <1>5, <1>6, <1>7 DEF PackInv
<1> QED
  BY <1>4, <1>8

(* The dry run starts.                                                     *)
LEMMA SendStarts ==
    ASSUME SnipInv, Send
    PROVE  (PackInv /\ ReadInv /\ DownForCause /\ MergeIsExact)'
<1>1. /\ phase' = "num" /\ pass' = 0 /\ pos' = 0 /\ stack' = << >> /\ list' = << >>
      /\ sent' = sent /\ before' = tree
  BY DEF Send, Afresh
<1>2. ASSUME Usual(sent) PROVE AList(msg') /\ \E P, V, L : Tries(P, V, L)'
  <2>1. AList(msg') /\ \E P : Charted(sent, msg', P)
    BY <1>2, SendCharts DEF SnipInv
  <2>2. PICK P : Charted(sent, msg', P)
    BY <2>1
  <2>3. Origin \in P
    BY <2>2 DEF Charted
  <2>4. ReadsAt(Origin)' /\ Fresh(sent, Origin)
    BY <1>1 DEF ReadsAt, Origin, Fresh
  <2>5. Tries(P, {}, Origin)'
    BY <1>1, <2>2, <2>3, <2>4 DEF Tries
  <2> QED
    BY <2>1, <2>5
<1>3. ReadInv'
  BY <1>1, <1>2 DEF ReadInv
<1> QED
  BY <1>1, <1>3 DEF PackInv, PackPhases, DownForCause, MergeIsExact

LEMMA SnipInvIsInvariant == SnipSpec => []SnipInv
<1>1. SnipInit => SnipInv
  <2> SUFFICES ASSUME SnipInit PROVE SnipInv
    OBVIOUS
  <2>1. DryInv
    BY DEF SnipInit, DryInv
  <2>2. TreesAre
    BY SnippetAssumption DEF SnipInit, TreesAre, SnippetAssumption
  <2>3. Usual(sent)
    <3>1. AList(<< >>) /\ 1..Len(<< >>) = {}
      BY DEF AList
    <3> QED
      BY <3>1 DEF SnipInit, Usual
  <2>4. phase = "idle"
    BY DEF SnipInit
  <2> QED
    BY <2>1, <2>2, <2>3, <2>4 DEF SnipInv, PackInv, PackPhases, ReadInv, Reads, DownForCause,
                                  MergeIsExact
<1>2. SnipInv /\ [SnipNext]_snipVars => SnipInv'
  <2> SUFFICES ASSUME SnipInv, [SnipNext]_snipVars PROVE SnipInv'
    OBVIOUS
  <2>1. TreesAre'
    BY TreesStay DEF SnipInv
  <2>2. DryInv'
    BY DryRunsClean DEF SnipInv
  <2>3. CASE Pick
    <3>1. phase' = "packNum"
      BY <2>3 DEF Pick
    <3>2. (ReadInv /\ DownForCause /\ MergeIsExact)'
      BY <3>1 DEF ReadInv, Reads, DownForCause, MergeIsExact
    <3> QED
      BY <2>1, <2>2, <2>3, <3>2, PickPacks DEF SnipInv
  <2>4. CASE Packing
    <3>1. PackInv'
      BY <2>4, PackingKeeps DEF SnipInv
    <3>2. phase' \in PackPhases /\ sent' = sent
      BY <2>4 DEF Packing, PackNum, PackItem, PackDup, PackRaw, PackScalar, PackEnd,
                  PackPhases
    <3>3. (ReadInv /\ DownForCause /\ MergeIsExact)'
      BY <3>2 DEF PackPhases, ReadInv, Reads, DownForCause, MergeIsExact
    <3>4. (~Parameters => Usual(sent))'
      BY <3>2 DEF SnipInv, Parameters
    <3> QED
      BY <2>1, <2>2, <3>1, <3>3, <3>4 DEF SnipInv
  <2>5. CASE Send
    <3>1. sent' = sent
      BY <2>5 DEF Send
    <3>2. (~Parameters => Usual(sent))'
      BY <3>1 DEF SnipInv, Parameters
    <3> QED
      BY <2>1, <2>2, <2>5, <3>2, SendStarts DEF SnipInv
  <2>6. CASE Reader
    <3>1. phase \in Reads /\ pass \in {0, 1}
      BY <2>6 DEF Reader, ReadNum, ReadItem, ReadDup, ReadRaw, ReadScalar, EnterBlock,
                  EndConfig, EndBlock, Reads, SnipInv, DryInv
    <3>2. sent' = sent /\ phase' \notin PackPhases
      BY <2>6 DEF Reader, ReadNum, ReadItem, ReadDup, ReadRaw, ReadScalar, EnterBlock,
                  EndConfig, EndBlock, Fails, treeVars, PackPhases
    <3>3. (~Parameters => Usual(sent))'
      BY <3>2 DEF SnipInv, Parameters
    <3>4. CASE Usual(sent)
      <4>1. (ReadInv /\ DownForCause /\ MergeIsExact)'
        BY <2>6, <3>1, <3>4, FirstPass, SecondPass
      <4> QED
        BY <2>1, <2>2, <3>2, <3>3, <4>1 DEF SnipInv, PackInv
    <3>5. CASE ~Usual(sent)
      <4>1. Parameters' /\ ~Usual(sent)'
        BY <3>2, <3>5 DEF SnipInv, Parameters
      <4>2. (ReadInv /\ DownForCause /\ MergeIsExact)'
        BY <4>1 DEF ReadInv, DownForCause, MergeIsExact
      <4> QED
        BY <2>1, <2>2, <3>2, <3>3, <4>2 DEF SnipInv, PackInv
    <3> QED
      BY <3>4, <3>5
  <2>8. CASE TooBig
    <3>1. phase' = "idle" /\ sent' = sent
      BY <2>8 DEF TooBig, treeVars
    <3>2. (PackInv /\ ReadInv /\ DownForCause /\ MergeIsExact)'
      BY <3>1 DEF PackInv, PackPhases, ReadInv, Reads, DownForCause, MergeIsExact
    <3>3. (~Parameters => Usual(sent))'
      BY <3>1 DEF SnipInv, Parameters
    <3> QED
      BY <2>1, <2>2, <3>2, <3>3 DEF SnipInv
  <2>7. CASE UNCHANGED snipVars
    <3>1. UNCHANGED <<tree, before, sent, pack, msg, merges, pos, pass, stack, item, got,
                      raw, list, ref, phase>>
      BY <2>7 DEF snipVars, treeVars, readVars
    <3>2. PackInv'
      <4>1. \A P, G : Packs(P, G)' <=> Packs(P, G)
        BY <3>1 DEF Packs
      <4> QED
        BY <3>1, <4>1 DEF SnipInv, PackInv
    <3>3. \A p : AskedFor(p)' = AskedFor(p)
      BY <3>1 DEF AskedFor
    <3>4. Parameters' <=> Parameters
      BY <3>1 DEF Parameters
    <3>5. DownForCause' <=> DownForCause
      BY <3>1, <3>3, <3>4 DEF DownForCause
    <3>6. MergeIsExact' <=> MergeIsExact
      BY <3>1, <3>3, <3>4 DEF MergeIsExact
    <3>7. (~Parameters => Usual(sent))'
      BY <3>1, <3>4 DEF SnipInv
    <3>8. ReadInv'
      BY <3>1 DEF SnipInv, ReadInv, Tries, Repeats, ReadsAt, SoFar
    <3> QED
      BY <2>1, <2>2, <3>2, <3>5, <3>6, <3>7, <3>8 DEF SnipInv
  <2> QED
    BY <2>3, <2>4, <2>5, <2>6, <2>7, <2>8 DEF SnipNext, Reader
<1> QED
  BY <1>1, <1>2, PTL DEF SnipSpec

(* A list that is merged has changed what the user gave, all of it and     *)
(* nothing else, however it was packed in runs.                            *)
THEOREM MergesExactly == SnipSpec => []MergeIsExact
<1>1. SnipInv => MergeIsExact
  BY DEF SnipInv
<1> QED
  BY <1>1, SnipInvIsInvariant, PTL

(* The program goes down in a merge only for a list that asks for more     *)
(* than an item has, or for one with parameters of a block.                *)
THEOREM GoesDownForCause == SnipSpec => []DownForCause
<1>1. SnipInv => DownForCause
  BY DEF SnipInv
<1> QED
  BY <1>1, SnipInvIsInvariant, PTL
=============================================================================
