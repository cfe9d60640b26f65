-------------------------- MODULE CmvlcFetchProofs --------------------------
(***************************************************************************)
(* What CmvlcFetch promises, proved for any number of modules, counters of *)
(* any width and any number of faults: an event is accepted only if it is  *)
(* whole, and refused only for a cause.                                    *)
(***************************************************************************)
EXTENDS CmvlcFetch, SequenceTheorems, TLAPS

-----------------------------------------------------------------------------
(* Where the words of a module are when none is lost or doubled.           *)
Base == IF Free THEN 1 ELSE 0
DtAt(m) == Base + 3 * (m - 1)
DataAt(m) == 3 * N + 1 + 2 * (m - 1)
Total == 5 * N + 1 + Base

Word == {Num(v) : v \in 0..(Half - 1)}
        \cup {Mark(kind) : kind \in {"start", "sep", "end"}}
        \cup {Feed(m) : m \in Modules} \cup {Abba(m) : m \in Modules}
        \cup {Block(m, c) : m \in Modules, c \in 0..(Mod - 1)} \cup {NoData}
Counts == [Modules -> 0..(Mod - 1)]
Values == [Modules -> Nat]

TypeOK ==
    /\ mode \in Modes /\ armed \in BOOLEAN
    /\ hw \in Counts /\ cnt \in 0..(Mod - 1) /\ ahead \in Counts
    /\ val \in Values /\ parse \in Values
    /\ mis \subseteq Modules /\ reinit \in BOOLEAN
    /\ pc \in {"idle", "get", "dt", "data", "accepted", "failed"}
    /\ i \in 1..(N + 1)
    /\ words \in Seq(Word) /\ pos \in 0..Len(words)
    /\ res \subseteq {"driver", "counter", "corrupt"}
    /\ out \in Seq(Word)
    /\ edits \in 0..MaxEdit /\ misses \in 0..MaxMiss
    /\ hurt \in BOOLEAN /\ late \subseteq Modules /\ clean \in BOOLEAN

Fetching == pc \in {"get", "dt", "data", "accepted"}

(* The words are those of this event, or one edit away from them.          *)
Arrived(miss) ==
    IF hurt THEN /\ words \in Edit(Intact(hw, miss), late = {})
                 /\ words # Intact(hw, miss)
    ELSE words = Intact(hw, miss)
Delivered == Fetching => \E miss \in SUBSET late : Arrived(miss)

(* By how much a module is behind the crate.                               *)
Lag(c, a, h, d) == \E q \in Int : c + a - d - h = Mod * q
BehindBy(m, d) == (m \in late <=> d > 0) /\ Lag(cnt, ahead[m], hw[m], d)
Behind ==
    (Free => armed \/ pc = "idle") => \A m \in Modules : \E d \in 0..misses : BehindBy(m, d)

(* Who fetches, and where the fetching is.                                 *)
Running ==
    /\ Fetching /\ Free => armed
    /\ pc = "get" => Free
Placed ==
    /\ pc = "get" => i = 1
    /\ pc = "dt" => pos = DtAt(i)
    /\ pc = "data" => pos = DataAt(i)
    /\ pc = "accepted" => i = N + 1 /\ Len(words) = Total /\ res = {}

(* What has been found in the words before that place.                     *)
Framed ==
    /\ pc \in {"dt", "data", "accepted"} /\ Free =>
          Len(words) >= 2 /\ words[1] = Mark("start") /\ words[Len(words)] = Mark("end")
    /\ pc \in {"data", "accepted"} /\ ~Free => words[3 * N + 1] = Mark("sep")
CounterOf(m) == Counter(words[DtAt(m) + 1], words[DtAt(m) + 2])
CountedOne(m) ==
    /\ words[DtAt(m) + 3] = Feed(m)
    /\ val[m] = CounterOf(m) /\ ~Differs(m, CounterOf(m))
Counted ==
    pc \in {"dt", "data", "accepted"} /\ res = {} =>
       \A m \in Modules : (pc = "dt" => m < i) => CountedOne(m)
TakenOne(m) ==
    LET w == words[DataAt(m) + 1] IN
    /\ w[1] = "block" /\ (w = NoData \/ w[2] = m)
    /\ words[DataAt(m) + 2] = Abba(m)
    /\ parse[m] = val[m]
Taken ==
    pc \in {"data", "accepted"} /\ res = {} => \A m \in Modules : m < i => TakenOne(m)
Written ==
    /\ pc \in {"get", "dt"} => out = << >>
    /\ pc \in {"data", "accepted"} /\ ~hurt /\ late = {} =>
          out = [m \in 1..(i - 1) |-> Block(m, hw[m])]

(* What the parsers expect, when nothing is wrong.                         *)
Trouble == late # {} \/ ~clean \/ (Free /\ ~armed)
Expected ==
    ~Trouble =>
       /\ pc = "idle" => parse = hw
       /\ Fetching /\ ~hurt =>
            /\ res = {}
            /\ pc # "accepted" => \A m \in Modules : (pc = "data" => m >= i)
                                     => (parse[m] + 1) % Mod = hw[m]
       /\ pc = "failed" => hurt
-----------------------------------------------------------------------------
(* Numbers: the product that is the modulus is kept in one place.          *)
LEMMA ModType == Mod \in Nat /\ Mod > 1 /\ Half \in Nat /\ Half > 1 /\ N \in Nat /\ N > 0
<1>1. Half \in Nat /\ Half > 1 /\ N \in Nat /\ N > 0
  BY SizeAssumption DEF SizeAssumption
<1>2. Half * Half \in Nat /\ Half * Half > Half
  BY <1>1
<1> QED
  BY <1>1, <1>2 DEF Mod

(* The two words of a counter, and back.                                   *)
LEMMA Halves ==
    ASSUME NEW c \in 0..(Mod - 1)
    PROVE  /\ c % Half \in 0..(Half - 1) /\ c \div Half \in 0..(Half - 1)
           /\ (c % Half) + Half * (c \div Half) = c
<1> DEFINE q == c \div Half
           r == c % Half
<1>1. Half \in Nat /\ Half > 1
  BY ModType
<1>2. q \in Int /\ r \in 0..(Half - 1) /\ c = Half * q + r
  BY <1>1
<1>3. c < Half * Half /\ c >= 0
  BY <1>1 DEF Mod
<1> HIDE DEF q, r
<1>4. q >= 0
  <2>1. SUFFICES ASSUME q <= -1 PROVE FALSE
    BY <1>2
  <2>2. Half * q <= Half * (-1)
    BY <1>1, <1>2, <2>1
  <2> QED
    BY <1>1, <1>2, <1>3, <2>2
<1>5. q < Half
  <2>1. SUFFICES ASSUME q >= Half PROVE FALSE
    BY <1>1, <1>2
  <2>2. Half * q >= Half * Half
    BY <1>1, <1>2, <2>1
  <2> QED
    BY <1>1, <1>2, <1>3, <2>2
<1>6. q \in 0..(Half - 1) /\ r + Half * q = c
  BY <1>1, <1>2, <1>4, <1>5
<1> QED
  BY <1>2, <1>6 DEF q, r

LEMMA Joined ==
    ASSUME NEW lo \in 0..(Half - 1), NEW hi \in 0..(Half - 1)
    PROVE  lo + Half * hi \in 0..(Mod - 1)
<1>1. Half \in Nat /\ Half > 1
  BY ModType
<1>2. Half * hi \in Nat /\ Half * hi <= Half * (Half - 1)
  BY <1>1
<1>3. Half * (Half - 1) = Half * Half - Half
  BY <1>1
<1> QED
  BY <1>1, <1>2, <1>3 DEF Mod

LEMMA OneWay ==
    ASSUME NEW lo \in 0..(Half - 1), NEW hi \in 0..(Half - 1),
           NEW lo2 \in 0..(Half - 1), NEW hi2 \in 0..(Half - 1),
           lo + Half * hi = lo2 + Half * hi2
    PROVE  lo = lo2 /\ hi = hi2
<1>1. Half \in Nat /\ Half > 1
  BY ModType
<1>2. Half * (hi - hi2) = lo2 - lo
  BY <1>1
<1>3. hi - hi2 < 1
  <2>1. SUFFICES ASSUME hi - hi2 >= 1 PROVE FALSE
    OBVIOUS
  <2>2. Half * (hi - hi2) >= Half
    BY <1>1, <2>1
  <2> QED
    BY <1>1, <1>2, <2>2
<1>4. hi - hi2 > -1
  <2>1. SUFFICES ASSUME hi - hi2 <= -1 PROVE FALSE
    OBVIOUS
  <2>2. Half * (hi - hi2) <= -Half
    BY <1>1, <2>1
  <2> QED
    BY <1>1, <1>2, <2>2
<1>5. hi = hi2
  BY <1>3, <1>4
<1> QED
  BY <1>1, <1>5

LEMMA SmallMultiple ==
    ASSUME NEW x \in Int, x < Mod, x > -Mod, NEW q \in Int, x = Mod * q
    PROVE  x = 0
<1>1. Mod \in Nat /\ Mod > 1
  BY ModType
<1> DEFINE M == Mod
<1>2. M \in Nat /\ M > 1 /\ x < M /\ x > -M /\ x = M * q
  BY <1>1
<1> HIDE DEF M
<1>3. q < 1
  <2>1. SUFFICES ASSUME q >= 1 PROVE FALSE
    OBVIOUS
  <2>2. M * q >= M
    BY <1>2, <2>1
  <2> QED
    BY <1>2, <2>2
<1>4. q > -1
  <2>1. SUFFICES ASSUME q <= -1 PROVE FALSE
    OBVIOUS
  <2>2. M * q <= -M
    BY <1>2, <2>1
  <2> QED
    BY <1>2, <2>2
<1>5. q = 0
  BY <1>3, <1>4
<1> QED
  BY <1>2, <1>5

LEMMA Multiple ==
    ASSUME NEW x \in Int
    PROVE  x % Mod = 0 <=> \E q \in Int : x = Mod * q
<1>1. Mod \in Nat /\ Mod > 1
  BY ModType
<1> DEFINE M == Mod
<1>2. M \in Nat /\ M > 1
  BY <1>1
<1> HIDE DEF M
<1> DEFINE q == x \div M
           r == x % M
<1>3. q \in Int /\ r \in 0..(M - 1) /\ x = M * q + r
  BY <1>2
<1> HIDE DEF q, r
<1>4. ASSUME r = 0 PROVE \E p \in Int : x = M * p
  <2>1. M * q \in Int
    BY <1>2, <1>3
  <2>2. x = M * q
    BY <1>3, <1>4, <2>1
  <2> QED
    BY <1>3, <2>2
<1>5. ASSUME NEW p \in Int, x = M * p PROVE r = 0
  <2>1. r = M * (p - q) /\ p - q \in Int
    BY <1>2, <1>3, <1>5
  <2>2. r \in Int /\ r < Mod /\ r > -Mod /\ r = Mod * (p - q)
    BY <1>2, <1>3, <2>1 DEF M
  <2> QED
    BY <2>1, <2>2, SmallMultiple
<1> QED
  BY <1>4, <1>5 DEF M, r

LEMMA OneMore ==
    ASSUME NEW c \in 0..(Mod - 1)
    PROVE  (c + 1) % Mod = IF c + 1 = Mod THEN 0 ELSE c + 1
<1>1. Mod \in Nat /\ Mod > 1
  BY ModType
<1> DEFINE M == Mod
<1>2. M \in Nat /\ M > 1 /\ c \in 0..(M - 1)
  BY <1>1
<1> HIDE DEF M
<1>3. (c + 1) % M = IF c + 1 = M THEN 0 ELSE c + 1
  BY <1>2
<1> QED
  BY <1>3 DEF M

-----------------------------------------------------------------------------
(* The words.                                                              *)
LEMMA Kinds ==
    /\ \A v : Num(v)[1] = "num" /\ Num(v)[2] = v
    /\ \A kind : Mark(kind)[1] = kind
    /\ \A m : Feed(m)[1] = "feed" /\ Abba(m)[1] = "abba"
    /\ \A m, c : Block(m, c)[1] = "block" /\ Block(m, c)[2] = m /\ Block(m, c)[3] = c
    /\ NoData[1] = "block"
    /\ \A m, c : Block(m, c) # NoData
<1>1. \A m, c : Block(m, c) # NoData
  BY DEF Block, NoData
<1> QED
  BY <1>1 DEF Num, Mark, Feed, Abba, Block, NoData

LEMMA OnlyType ==
    ASSUME NEW b \in BOOLEAN, NEW w \in Word
    PROVE  /\ Only(b, w) \in Seq(Word)
           /\ Len(Only(b, w)) = (IF b THEN 1 ELSE 0)
           /\ b => Only(b, w)[1] = w
BY DEF Only

LEMMA CountsAre ==
    ASSUME NEW c \in Counts, NEW m \in Modules
    PROVE  /\ c[m] \in 0..(Mod - 1)
           /\ c[m] % Half \in 0..(Half - 1) /\ c[m] \div Half \in 0..(Half - 1)
           /\ (c[m] % Half) + Half * (c[m] \div Half) = c[m]
<1>1. c[m] \in 0..(Mod - 1)
  BY DEF Counts
<1> QED
  BY <1>1, Halves

LEMMA WordsAre ==
    /\ \A v \in 0..(Half - 1) : Num(v) \in Word
    /\ Mark("start") \in Word /\ Mark("sep") \in Word /\ Mark("end") \in Word
    /\ \A m \in Modules : Feed(m) \in Word /\ Abba(m) \in Word
    /\ \A m \in Modules : \A c \in 0..(Mod - 1) : Block(m, c) \in Word
    /\ NoData \in Word
BY DEF Word

(* The counter part and the data part of an event.                         *)
CounterPart(c) ==
    [k \in 1..(3 * N) |->
       LET m == (k - 1) \div 3 + 1 IN
       <<Num(c[m] % Half), Num(c[m] \div Half), Feed(m)>>[1 + ((k - 1) % 3)]]
DataPart(c, miss) ==
    [k \in 1..(2 * N) |->
       LET m == (k - 1) \div 2 + 1 IN
       <<IF m \in miss THEN NoData ELSE Block(m, c[m]), Abba(m)>>[1 + ((k - 1) % 2)]]

LEMMA CounterPartIs ==
    ASSUME NEW c \in Counts
    PROVE  /\ CounterPart(c) \in Seq(Word) /\ Len(CounterPart(c)) = 3 * N
           /\ \A m \in Modules :
                /\ CounterPart(c)[3 * (m - 1) + 1] = Num(c[m] % Half)
                /\ CounterPart(c)[3 * (m - 1) + 2] = Num(c[m] \div Half)
                /\ CounterPart(c)[3 * (m - 1) + 3] = Feed(m)
<1>1. N \in Nat /\ N > 0
  BY ModType
<1> DEFINE T(m) == <<Num(c[m] % Half), Num(c[m] \div Half), Feed(m)>>
           P == CounterPart(c)
<1>2. \A k \in 1..(3 * N) : P[k] = T((k - 1) \div 3 + 1)[1 + ((k - 1) % 3)]
  BY DEF CounterPart
<1>3. DOMAIN P = 1..(3 * N)
  BY DEF CounterPart
<1>4. ASSUME NEW m \in Modules
      PROVE  /\ P[3 * (m - 1) + 1] = T(m)[1] /\ P[3 * (m - 1) + 2] = T(m)[2]
             /\ P[3 * (m - 1) + 3] = T(m)[3]
  <2>1. ASSUME NEW r \in {1, 2, 3}, NEW k, k = 3 * (m - 1) + r PROVE P[k] = T(m)[r]
    <3> HIDE DEF T, P
    <3>1. m \in Int /\ m >= 1 /\ m <= N /\ r \in 1..3
      BY <1>1 DEF Modules
    <3>2. k \in 1..(3 * N) /\ (k - 1) \div 3 + 1 = m /\ 1 + ((k - 1) % 3) = r
      BY <1>1, <2>1, <3>1
    <3>3. P[k] = T((k - 1) \div 3 + 1)[1 + ((k - 1) % 3)]
      BY <1>2, <3>2
    <3> QED
      BY <3>2, <3>3
  <2> HIDE DEF T, P
  <2> QED
    BY <2>1
<1>5. ASSUME NEW k \in 1..(3 * N) PROVE P[k] \in Word
  <2> DEFINE m == (k - 1) \div 3 + 1
             r == 1 + ((k - 1) % 3)
  <2>1. m \in Modules /\ r \in {1, 2, 3}
    BY <1>1 DEF Modules
  <2>2. P[k] = T(m)[r]
    BY <1>2
  <2> HIDE DEF m, r, P
  <2>3. T(m)[1] \in Word /\ T(m)[2] \in Word /\ T(m)[3] \in Word
    BY <2>1, CountsAre, WordsAre
  <2> QED
    BY <2>1, <2>2, <2>3
<1>6. P \in [1..(3 * N) -> Word]
  BY <1>5 DEF CounterPart
<1>7. P \in Seq(Word) /\ Len(P) = 3 * N
  BY <1>1, <1>3, <1>6
<1> QED
  BY <1>4, <1>7

LEMMA DataPartIs ==
    ASSUME NEW c \in Counts, NEW miss \in SUBSET Modules
    PROVE  /\ DataPart(c, miss) \in Seq(Word) /\ Len(DataPart(c, miss)) = 2 * N
           /\ \A m \in Modules :
                /\ DataPart(c, miss)[2 * (m - 1) + 1] =
                      IF m \in miss THEN NoData ELSE Block(m, c[m])
                /\ DataPart(c, miss)[2 * (m - 1) + 2] = Abba(m)
<1>1. N \in Nat /\ N > 0
  BY ModType
<1> DEFINE B(m) == IF m \in miss THEN NoData ELSE Block(m, c[m])
           T(m) == <<B(m), Abba(m)>>
           P == DataPart(c, miss)
<1>2. \A k \in 1..(2 * N) : P[k] = T((k - 1) \div 2 + 1)[1 + ((k - 1) % 2)]
  BY DEF DataPart
<1>3. DOMAIN P = 1..(2 * N)
  BY DEF DataPart
<1>4. ASSUME NEW m \in Modules
      PROVE  P[2 * (m - 1) + 1] = T(m)[1] /\ P[2 * (m - 1) + 2] = T(m)[2]
  <2>1. ASSUME NEW r \in {1, 2}, NEW k, k = 2 * (m - 1) + r PROVE P[k] = T(m)[r]
    <3> HIDE DEF T, P
    <3>1. m \in Int /\ m >= 1 /\ m <= N /\ r \in 1..2
      BY <1>1 DEF Modules
    <3>2. k \in 1..(2 * N) /\ (k - 1) \div 2 + 1 = m /\ 1 + ((k - 1) % 2) = r
      BY <1>1, <2>1, <3>1
    <3>3. P[k] = T((k - 1) \div 2 + 1)[1 + ((k - 1) % 2)]
      BY <1>2, <3>2
    <3> QED
      BY <3>2, <3>3
  <2> HIDE DEF T, P
  <2> QED
    BY <2>1
<1>5. ASSUME NEW k \in 1..(2 * N) PROVE P[k] \in Word
  <2> DEFINE m == (k - 1) \div 2 + 1
             r == 1 + ((k - 1) % 2)
  <2>1. m \in Modules /\ r \in {1, 2}
    BY <1>1 DEF Modules
  <2>2. P[k] = T(m)[r]
    BY <1>2
  <2> HIDE DEF m, r, P
  <2>3. T(m)[1] \in Word /\ T(m)[2] \in Word
    BY <2>1, CountsAre, WordsAre
  <2> QED
    BY <2>1, <2>2, <2>3
<1>6. P \in [1..(2 * N) -> Word]
  BY <1>5 DEF DataPart
<1>7. P \in Seq(Word) /\ Len(P) = 2 * N
  BY <1>1, <1>3, <1>6
<1> QED
  BY <1>4, <1>7

Joins(u, s, t) ==
    /\ u \in Seq(Word) /\ Len(u) = Len(s) + Len(t)
    /\ \A k \in 1..Len(s) : u[k] = s[k]
    /\ \A k \in 1..Len(t) : u[Len(s) + k] = t[k]

LEMMA Concat ==
    ASSUME NEW s \in Seq(Word), NEW t \in Seq(Word)
    PROVE  s \o t \in Seq(Word) /\ Joins(s \o t, s, t)
<1> DEFINE u == s \o t
<1>1. Len(s) \in Nat /\ Len(t) \in Nat
  BY LenProperties
<1>2. /\ u \in Seq(Word) /\ Len(u) = Len(s) + Len(t)
      /\ \A k \in 1..(Len(s) + Len(t)) : u[k] = IF k <= Len(s) THEN s[k] ELSE t[k - Len(s)]
  BY ConcatProperties
<1> HIDE DEF u
<1>3. ASSUME NEW k \in 1..Len(s) PROVE u[k] = s[k]
  BY <1>1, <1>2
<1>4. ASSUME NEW k \in 1..Len(t) PROVE u[Len(s) + k] = t[k]
  <2>1. /\ Len(s) + k \in 1..(Len(s) + Len(t)) /\ ~(Len(s) + k <= Len(s))
        /\ Len(s) + k - Len(s) = k
    BY <1>1
  <2> QED
    BY <1>2, <2>1
<1> QED
  BY <1>2, <1>3, <1>4 DEF Joins, u

(* Every word of an event, in its place.                                   *)
Whole(w, c, miss) ==
    /\ w \in Seq(Word) /\ Len(w) = Total
    /\ Free => w[1] = Mark("start") /\ w[Total] = Mark("end")
    /\ ~Free => w[3 * N + 1] = Mark("sep")
    /\ \A m \in Modules :
         /\ w[DtAt(m) + 1] = Num(c[m] % Half)
         /\ w[DtAt(m) + 2] = Num(c[m] \div Half)
         /\ w[DtAt(m) + 3] = Feed(m)
         /\ w[DataAt(m) + 1] = IF m \in miss THEN NoData ELSE Block(m, c[m])
         /\ w[DataAt(m) + 2] = Abba(m)

LEMMA IntactIsWhole ==
    ASSUME NEW c \in Counts, NEW miss \in SUBSET Modules
    PROVE  Whole(Intact(c, miss), c, miss)
<1> DEFINE A == Only(Free, Mark("start"))
           B == CounterPart(c)
           C == Only(~Free, Mark("sep"))
           D == DataPart(c, miss)
           E == Only(Free, Mark("end"))
           w == Intact(c, miss)
<1>1. w = A \o B \o C \o D \o E
  BY DEF Intact, CounterPart, DataPart
<1>2. N \in Nat /\ N > 0
  BY ModType
<1>3. Free \in BOOLEAN /\ (~Free) \in BOOLEAN
  BY DEF Free
<1>4. /\ A \in Seq(Word) /\ Len(A) = (IF Free THEN 1 ELSE 0)
      /\ Free => A[1] = Mark("start")
  BY <1>3, OnlyType, WordsAre
<1>5. B \in Seq(Word) /\ Len(B) = 3 * N
  BY CounterPartIs
<1>6. /\ C \in Seq(Word) /\ Len(C) = (IF Free THEN 0 ELSE 1)
      /\ ~Free => C[1] = Mark("sep")
  BY <1>3, OnlyType, WordsAre
<1>7. D \in Seq(Word) /\ Len(D) = 2 * N
  BY DataPartIs
<1>8. /\ E \in Seq(Word) /\ Len(E) = (IF Free THEN 1 ELSE 0)
      /\ Free => E[1] = Mark("end")
  BY <1>3, OnlyType, WordsAre
<1> HIDE DEF A, B, C, D, E, w
<1>9. PICK AB : AB = A \o B
  OBVIOUS
<1>10. PICK ABC : ABC = AB \o C
  OBVIOUS
<1>11. PICK ABCD : ABCD = ABC \o D
  OBVIOUS
<1>12. w = ABCD \o E
  BY <1>1, <1>9, <1>10, <1>11
<1>26. A \in Seq(Word) /\ B \in Seq(Word) /\ C \in Seq(Word) /\ D \in Seq(Word)
       /\ E \in Seq(Word)
  BY <1>4, <1>5, <1>6, <1>7, <1>8
<1>27. AB \in Seq(Word) /\ Joins(AB, A, B)
  BY <1>9, <1>26, Concat
<1>28. ABC \in Seq(Word) /\ Joins(ABC, AB, C)
  BY <1>10, <1>26, <1>27, Concat
<1>29. ABCD \in Seq(Word) /\ Joins(ABCD, ABC, D)
  BY <1>11, <1>26, <1>28, Concat
<1>30. Joins(w, ABCD, E)
  BY <1>12, <1>26, <1>29, Concat
<1>13. /\ Len(AB) = Len(A) + Len(B)
       /\ \A k \in 1..Len(A) : AB[k] = A[k]
       /\ \A k \in 1..Len(B) : AB[Len(A) + k] = B[k]
  BY <1>27 DEF Joins
<1>22. /\ Len(ABC) = Len(AB) + Len(C)
       /\ \A k \in 1..Len(AB) : ABC[k] = AB[k]
       /\ \A k \in 1..Len(C) : ABC[Len(AB) + k] = C[k]
  BY <1>28 DEF Joins
<1>23. /\ Len(ABCD) = Len(ABC) + Len(D)
       /\ \A k \in 1..Len(ABC) : ABCD[k] = ABC[k]
       /\ \A k \in 1..Len(D) : ABCD[Len(ABC) + k] = D[k]
  BY <1>29 DEF Joins
<1>24. /\ w \in Seq(Word) /\ Len(w) = Len(ABCD) + Len(E)
       /\ \A k \in 1..Len(ABCD) : w[k] = ABCD[k]
       /\ \A k \in 1..Len(E) : w[Len(ABCD) + k] = E[k]
  BY <1>30 DEF Joins
<1>14. Len(A) = Base /\ Len(E) = Base /\ Len(C) = 1 - Base /\ Base \in {0, 1} /\ (Free <=> Base = 1)
  BY <1>3, <1>4, <1>6, <1>8 DEF Base
<1>15. Len(AB) = Base + 3 * N /\ Len(ABC) = 3 * N + 1 /\ Len(ABCD) = 5 * N + 1
  BY <1>2, <1>5, <1>7, <1>13, <1>22, <1>23, <1>14
<1>16. Len(w) = Total
  BY <1>2, <1>24, <1>14, <1>15 DEF Total
<1>17. ASSUME NEW k \in 1..(Base + 3 * N) PROVE w[k] = AB[k]
  <2>1. k \in 1..Len(AB) /\ k \in 1..Len(ABC) /\ k \in 1..Len(ABCD)
    BY <1>2, <1>14, <1>15
  <2> QED
    BY <1>22, <1>23, <1>24, <2>1
<1>25. ASSUME NEW k \in 1..(3 * N) PROVE w[Base + k] = B[k]
  <2>1. k \in 1..Len(B) /\ Base + k \in 1..(Base + 3 * N)
    BY <1>2, <1>5, <1>14
  <2> QED
    BY <1>13, <1>14, <1>17, <2>1
<1>18. ASSUME NEW k \in 1..(2 * N) PROVE w[3 * N + 1 + k] = D[k]
  <2>1. k \in 1..Len(D) /\ 3 * N + 1 + k \in 1..Len(ABCD)
    BY <1>2, <1>7, <1>15
  <2> QED
    BY <1>15, <1>23, <1>24, <2>1
<1>19. ASSUME Free PROVE w[1] = Mark("start") /\ w[Total] = Mark("end")
  <2>1. 1 \in 1..Len(A) /\ 1 \in 1..(Base + 3 * N) /\ 1 \in 1..Len(E) /\ Total = Len(ABCD) + 1
    BY <1>2, <1>14, <1>15, <1>19 DEF Total
  <2>2. w[1] = A[1] /\ w[Total] = E[1]
    BY <1>13, <1>17, <1>24, <2>1
  <2> QED
    BY <1>4, <1>8, <1>19, <2>2
<1>20. ASSUME ~Free PROVE w[3 * N + 1] = Mark("sep")
  <2>1. 1 \in 1..Len(C) /\ 3 * N + 1 = Len(AB) + 1 /\ 3 * N + 1 \in 1..Len(ABC)
        /\ 3 * N + 1 \in 1..Len(ABCD)
    BY <1>2, <1>14, <1>15, <1>20
  <2>2. ABC[3 * N + 1] = C[1] /\ ABCD[3 * N + 1] = ABC[3 * N + 1]
        /\ w[3 * N + 1] = ABCD[3 * N + 1]
    BY <1>22, <1>23, <1>24, <2>1
  <2> QED
    BY <1>6, <1>20, <2>2
<1>21. ASSUME NEW m \in Modules
       PROVE  /\ w[DtAt(m) + 1] = Num(c[m] % Half)
              /\ w[DtAt(m) + 2] = Num(c[m] \div Half)
              /\ w[DtAt(m) + 3] = Feed(m)
              /\ w[DataAt(m) + 1] = IF m \in miss THEN NoData ELSE Block(m, c[m])
              /\ w[DataAt(m) + 2] = Abba(m)
  <2>1. m \in Int /\ m >= 1 /\ m <= N
    BY <1>2 DEF Modules
  <2>2. /\ 3 * (m - 1) + 1 \in 1..(3 * N) /\ 3 * (m - 1) + 2 \in 1..(3 * N)
        /\ 3 * (m - 1) + 3 \in 1..(3 * N)
        /\ 2 * (m - 1) + 1 \in 1..(2 * N) /\ 2 * (m - 1) + 2 \in 1..(2 * N)
    BY <1>2, <2>1
  <2>3. /\ DtAt(m) + 1 = Base + (3 * (m - 1) + 1) /\ DtAt(m) + 2 = Base + (3 * (m - 1) + 2)
        /\ DtAt(m) + 3 = Base + (3 * (m - 1) + 3)
        /\ DataAt(m) + 1 = 3 * N + 1 + (2 * (m - 1) + 1)
        /\ DataAt(m) + 2 = 3 * N + 1 + (2 * (m - 1) + 2)
    BY <1>2, <1>14, <2>1 DEF DtAt, DataAt
  <2>4. /\ w[DtAt(m) + 1] = B[3 * (m - 1) + 1] /\ w[DtAt(m) + 2] = B[3 * (m - 1) + 2]
        /\ w[DtAt(m) + 3] = B[3 * (m - 1) + 3]
    BY <1>25, <2>2, <2>3
  <2>5. w[DataAt(m) + 1] = D[2 * (m - 1) + 1] /\ w[DataAt(m) + 2] = D[2 * (m - 1) + 2]
    BY <1>18, <2>2, <2>3
  <2> QED
    BY <2>4, <2>5, CounterPartIs, DataPartIs DEF B, D
<1> QED
  BY <1>16, <1>19, <1>20, <1>21, <1>24 DEF Whole, w

(* There is no other place in an event.                                    *)
LEMMA Places ==
    ASSUME NEW k \in 1..Total
    PROVE  \/ Free /\ (k = 1 \/ k = Total)
           \/ ~Free /\ k = 3 * N + 1
           \/ \E m \in Modules : k \in {DtAt(m) + 1, DtAt(m) + 2, DtAt(m) + 3,
                                        DataAt(m) + 1, DataAt(m) + 2}
<1>1. N \in Nat /\ N > 0 /\ Base \in {0, 1} /\ (Free <=> Base = 1) /\ k \in Int
  BY ModType DEF Base, Free
<1>2. CASE k > Base /\ k <= Base + 3 * N
  <2> DEFINE m == (k - Base - 1) \div 3 + 1
  <2>1. m \in Int /\ m >= 1 /\ m <= N /\ k - Base - 3 * (m - 1) \in {1, 2, 3}
    BY <1>1, <1>2
  <2> HIDE DEF m
  <2>2. m \in Modules /\ k \in {DtAt(m) + 1, DtAt(m) + 2, DtAt(m) + 3}
    BY <1>1, <2>1 DEF Modules, DtAt
  <2> QED
    BY <2>2
<1>3. CASE k > 3 * N + 1 /\ k <= 5 * N + 1
  <2> DEFINE m == (k - 3 * N - 2) \div 2 + 1
  <2>1. m \in Int /\ m >= 1 /\ m <= N /\ k - 3 * N - 1 - 2 * (m - 1) \in {1, 2}
    BY <1>1, <1>3
  <2> HIDE DEF m
  <2>2. m \in Modules /\ k \in {DataAt(m) + 1, DataAt(m) + 2}
    BY <1>1, <2>1 DEF Modules, DataAt
  <2> QED
    BY <2>2
<1> QED
  BY <1>1, <1>2, <1>3 DEF Total

-----------------------------------------------------------------------------
(* What the fetching makes of a word.                                      *)
LEMMA NumWord ==
    ASSUME NEW w \in Word, IsNum(w)
    PROVE  \E v \in 0..(Half - 1) : w = Num(v) /\ w[2] = v
<1>1. w[1] = "num"
  BY DEF IsNum
<1>2. ASSUME NEW v \in 0..(Half - 1), w = Num(v) PROVE w[2] = v
  BY <1>2, Kinds
<1>3. \E v \in 0..(Half - 1) : w = Num(v)
  BY <1>1, Kinds DEF Word
<1> QED
  BY <1>2, <1>3

LEMMA CounterIs ==
    ASSUME NEW lo \in Word, NEW hi \in Word
    PROVE  /\ Counter(lo, hi) \in 0..Mod /\ Counter(lo, hi) \in Nat
           /\ Counter(lo, hi) # Mod => IsNum(lo) /\ IsNum(hi)
           /\ IsNum(lo) /\ IsNum(hi) =>
                 /\ Counter(lo, hi) \in 0..(Mod - 1)
                 /\ lo[2] \in 0..(Half - 1) /\ hi[2] \in 0..(Half - 1)
                 /\ lo = Num(lo[2]) /\ hi = Num(hi[2])
                 /\ Counter(lo, hi) = lo[2] + Half * hi[2]
<1>1. Mod \in Nat /\ Mod > 1
  BY ModType
<1>2. CASE IsNum(lo) /\ IsNum(hi)
  <2>1. /\ lo[2] \in 0..(Half - 1) /\ hi[2] \in 0..(Half - 1)
        /\ lo = Num(lo[2]) /\ hi = Num(hi[2])
    BY <1>2, NumWord
  <2>2. Counter(lo, hi) = lo[2] + Half * hi[2]
    BY <1>2 DEF Counter
  <2>3. Counter(lo, hi) \in 0..(Mod - 1)
    BY <2>1, <2>2, Joined
  <2>4. Counter(lo, hi) \in 0..Mod /\ Counter(lo, hi) \in Nat
    BY <1>1, <2>3
  <2> QED
    BY <1>2, <2>1, <2>2, <2>3, <2>4
<1>3. CASE ~(IsNum(lo) /\ IsNum(hi))
  <2>1. Counter(lo, hi) = Mod
    BY <1>3 DEF Counter
  <2> QED
    BY <1>1, <1>3, <2>1
<1> QED
  BY <1>2, <1>3

LEMMA ParsedType ==
    ASSUME NEW m, NEW w PROVE Parsed(m, w) \subseteq {"driver", "counter", "corrupt"}
BY DEF Parsed

(* One edit. If the length is the same, a word has replaced another.       *)
Replaced(e, w, inStep) ==
    \E k, j \in 1..Len(w) :
       /\ inStep \/ ~(IsNum(w[k]) /\ IsNum(w[j]))
       /\ \A z \in 1..Len(w) : e[z] = IF z = k THEN w[j] ELSE w[z]

LEMMA EditIs ==
    ASSUME NEW w \in Seq(Word), NEW inStep, NEW e \in Edit(w, inStep)
    PROVE  e \in Seq(Word) /\ (Len(e) = Len(w) => Replaced(e, w, inStep))
<1>1. Len(w) \in Nat /\ DOMAIN w = 1..Len(w) /\ \A z \in 1..Len(w) : w[z] \in Word
  BY LenProperties, ElementOfSeq
<1>2. ASSUME NEW k \in DOMAIN w, e = SubSeq(w, 1, k - 1) \o SubSeq(w, k + 1, Len(w))
      PROVE  e \in Seq(Word) /\ Len(e) # Len(w)
  <2>1. k \in Int /\ k >= 1 /\ k <= Len(w)
    BY <1>1
  <2>2. SubSeq(w, 1, k - 1) \in Seq(Word) /\ Len(SubSeq(w, 1, k - 1)) = k - 1
    BY <1>1, <2>1, SubSeqProperties
  <2>3. SubSeq(w, k + 1, Len(w)) \in Seq(Word) /\ Len(SubSeq(w, k + 1, Len(w))) = Len(w) - k
    BY <1>1, <2>1, SubSeqProperties
  <2>4. e \in Seq(Word) /\ Len(e) = Len(SubSeq(w, 1, k - 1)) + Len(SubSeq(w, k + 1, Len(w)))
    BY <1>2, <2>2, <2>3, Concat DEF Joins
  <2> QED
    BY <1>1, <2>1, <2>2, <2>3, <2>4
<1>3. ASSUME NEW k \in DOMAIN w, e = SubSeq(w, 1, k) \o SubSeq(w, k, Len(w))
      PROVE  e \in Seq(Word) /\ Len(e) # Len(w)
  <2>1. k \in Int /\ k >= 1 /\ k <= Len(w)
    BY <1>1
  <2>2. SubSeq(w, 1, k) \in Seq(Word) /\ Len(SubSeq(w, 1, k)) = k
    BY <1>1, <2>1, SubSeqProperties
  <2>3. SubSeq(w, k, Len(w)) \in Seq(Word) /\ Len(SubSeq(w, k, Len(w))) = Len(w) - k + 1
    BY <1>1, <2>1, SubSeqProperties
  <2>4. e \in Seq(Word) /\ Len(e) = Len(SubSeq(w, 1, k)) + Len(SubSeq(w, k, Len(w)))
    BY <1>3, <2>2, <2>3, Concat DEF Joins
  <2> QED
    BY <1>1, <2>1, <2>2, <2>3, <2>4
<1>4. ASSUME NEW k \in DOMAIN w, NEW j \in DOMAIN w,
             inStep \/ ~(IsNum(w[k]) /\ IsNum(w[j])), e = [w EXCEPT ![k] = w[j]]
      PROVE  /\ e \in Seq(Word)
             /\ \A z \in 1..Len(w) : e[z] = IF z = k THEN w[j] ELSE w[z]
  <2>1. k \in 1..Len(w) /\ j \in 1..Len(w) /\ w[j] \in Word
    BY <1>1
  <2> QED
    BY <1>4, <2>1, ExceptSeq
<1>5. \/ \E k \in DOMAIN w : e = SubSeq(w, 1, k - 1) \o SubSeq(w, k + 1, Len(w))
      \/ \E k \in DOMAIN w : e = SubSeq(w, 1, k) \o SubSeq(w, k, Len(w))
      \/ \E k, j \in DOMAIN w : /\ inStep \/ ~(IsNum(w[k]) /\ IsNum(w[j]))
                                /\ e = [w EXCEPT ![k] = w[j]]
  BY DEF Edit
<1>6. CASE \E k \in DOMAIN w : e = SubSeq(w, 1, k - 1) \o SubSeq(w, k + 1, Len(w))
  BY <1>2, <1>6
<1>7. CASE \E k \in DOMAIN w : e = SubSeq(w, 1, k) \o SubSeq(w, k, Len(w))
  BY <1>3, <1>7
<1>8. CASE \E k, j \in DOMAIN w : /\ inStep \/ ~(IsNum(w[k]) /\ IsNum(w[j]))
                                  /\ e = [w EXCEPT ![k] = w[j]]
  <2>1. PICK k \in DOMAIN w, j \in DOMAIN w :
             /\ inStep \/ ~(IsNum(w[k]) /\ IsNum(w[j]))
             /\ e = [w EXCEPT ![k] = w[j]]
    BY <1>8
  <2>2. k \in 1..Len(w) /\ j \in 1..Len(w)
    BY <1>1
  <2>3. e \in Seq(Word) /\ \A z \in 1..Len(w) : e[z] = IF z = k THEN w[j] ELSE w[z]
    BY <1>4, <2>1
  <2> QED
    BY <2>1, <2>2, <2>3 DEF Replaced
<1> QED
  BY <1>5, <1>6, <1>7, <1>8

LEMMA ArrivedType ==
    ASSUME NEW c \in Counts, NEW miss \in SUBSET Modules, NEW b,
           NEW w, w = Intact(c, miss) \/ w \in Edit(Intact(c, miss), b)
    PROVE  w \in Seq(Word)
<1>1. Intact(c, miss) \in Seq(Word)
  BY IntactIsWhole DEF Whole
<1> QED
  BY <1>1, EditIs

LEMMA WordAt ==
    ASSUME TypeOK, NEW k \in Int, k >= 1, pos + k <= Len(words)
    PROVE  /\ pos + k \in 1..Len(words) /\ pos + k \in Nat /\ Len(words) \in Nat
           /\ words[pos + k] \in Word
<1>1. words \in Seq(Word) /\ pos \in 0..Len(words)
  BY DEF TypeOK
<1>2. Len(words) \in Nat
  BY <1>1, LenProperties
<1>3. pos + k \in 1..Len(words)
  BY <1>1, <1>2
<1> QED
  BY <1>1, <1>2, <1>3, ElementOfSeq

-----------------------------------------------------------------------------
LEMMA IncreaseType == \A c \in 0..(Mod - 1) : Increase(c) \in 0..(Mod - 1)
<1> SUFFICES ASSUME NEW c \in 0..(Mod - 1) PROVE Increase(c) \in 0..(Mod - 1)
  OBVIOUS
<1>1. Mod \in Nat /\ Mod > 1
  BY ModType
<1>2. (c + 1) % Mod = IF c + 1 = Mod THEN 0 ELSE c + 1
  BY OneMore
<1> QED
  BY <1>1, <1>2 DEF Increase

LEMMA TriggeredType ==
    ASSUME NEW c \in Counts, NEW miss \in SUBSET Modules
    PROVE  [m \in Modules |-> IF m \in miss THEN c[m] ELSE (c[m] + 1) % Mod] \in Counts
<1>1. ASSUME NEW m \in Modules
      PROVE  (IF m \in miss THEN c[m] ELSE (c[m] + 1) % Mod) \in 0..(Mod - 1)
  <2>1. c[m] \in 0..(Mod - 1)
    BY DEF Counts
  <2>2. (c[m] + 1) % Mod \in 0..(Mod - 1)
    BY <2>1, IncreaseType DEF Increase
  <2> QED
    BY <2>1, <2>2
<1> QED
  BY <1>1 DEF Counts

LEMMA CountsAreValues == Counts \subseteq Values
BY ModType DEF Counts, Values

LEMMA TypeInit == Init => TypeOK
<1> SUFFICES ASSUME Init PROVE TypeOK
  OBVIOUS
<1>1. Mod \in Nat /\ Mod > 1 /\ N \in Nat /\ N > 0
  BY ModType
<1>2. hw \in Counts
  <2>1. ASSUME NEW m \in Modules PROVE (2 * m) % Mod \in 0..(Mod - 1)
    <3>1. 2 * m \in Int
      BY DEF Modules
    <3> DEFINE x == 2 * m
               M == Mod
    <3>2. x \in Int /\ M \in Nat /\ M > 1
      BY <1>1, <3>1
    <3> HIDE DEF x, M
    <3>3. x % M \in 0..(M - 1)
      BY <3>2
    <3> QED
      BY <3>3 DEF x, M
  <2> QED
    BY <2>1 DEF Init, Counts
<1>3. hw \in Values
  BY <1>2, CountsAreValues
<1>4. /\ << >> \in Seq(Word) /\ Len(<< >>) = 0
  OBVIOUS
<1>5. ahead = hw /\ val = hw /\ parse = hw /\ words = << >> /\ out = << >> /\ pos = 0
  BY DEF Init
<1>6. words \in Seq(Word) /\ out \in Seq(Word) /\ pos \in 0..Len(words)
  BY <1>4, <1>5
<1>7. edits \in 0..MaxEdit /\ misses \in 0..MaxMiss
  BY BoundAssumption DEF Init, BoundAssumption
<1>8. /\ mode \in Modes /\ armed = FALSE /\ cnt = 0 /\ mis = {} /\ reinit = FALSE
      /\ pc = "idle" /\ i = 1 /\ res = {} /\ hurt = FALSE /\ late = {} /\ clean = TRUE
  BY DEF Init
<1>9. i \in 1..(N + 1) /\ cnt \in 0..(Mod - 1)
  BY <1>1, <1>8
<1> QED
  BY <1>2, <1>3, <1>5, <1>6, <1>7, <1>8, <1>9 DEF TypeOK

LEMMA TypeStep == ASSUME TypeOK, [Next]_vars PROVE TypeOK'
<1>0. Mod \in Nat /\ Mod > 1 /\ N \in Nat /\ N > 0
  BY ModType
<1>t. /\ hw \in Counts /\ cnt \in 0..(Mod - 1) /\ i \in 1..(N + 1)
      /\ words \in Seq(Word) /\ pos \in 0..Len(words) /\ Len(words) \in Nat
      /\ val \in Values /\ parse \in Values /\ res \subseteq {"driver", "counter", "corrupt"}
      /\ out \in Seq(Word) /\ misses \in 0..MaxMiss /\ edits \in 0..MaxEdit
      /\ late \subseteq Modules
  BY LenProperties DEF TypeOK
<1>e. << >> \in Seq(Word) /\ Len(<< >>) = 0
  OBVIOUS
<1>1. CASE NoEvent
  <2>1. cnt' \in 0..(Mod - 1)
    BY <1>1, <1>t, IncreaseType DEF NoEvent
  <2>2. words' \in Seq(Word) /\ out' \in Seq(Word) /\ pos' \in 0..Len(words')
    BY <1>1, <1>e DEF NoEvent
  <2> QED
    BY <1>0, <1>1, <2>1, <2>2 DEF NoEvent, initVars, TypeOK
<1>2. CASE Event
  <2>1. PICK miss \in SUBSET Modules :
          LET n == IF miss = {} THEN 0 ELSE 1
              c == [m \in Modules |->
                      IF m \in miss THEN hw[m] ELSE (hw[m] + 1) % Mod] IN
          /\ misses + n <= MaxMiss /\ misses' = misses + n
          /\ hw' = c /\ late' = late \cup miss
          /\ \/ words' = Intact(c, miss) /\ hurt' = FALSE /\ edits' = edits
             \/ /\ edits < MaxEdit /\ edits' = edits + 1
                /\ words' \in Edit(Intact(c, miss), late' = {})
                /\ hurt' = (words' # Intact(c, miss))
    BY <1>2 DEF Event
  <2>2. hw' \in Counts
    BY <1>t, <2>1, TriggeredType
  <2>3. words' = Intact(hw', miss) \/ words' \in Edit(Intact(hw', miss), late' = {})
    BY <2>1
  <2>4. words' \in Seq(Word)
    BY <2>2, <2>3, ArrivedType
  <2>5. Len(words') \in Nat
    BY <2>4, LenProperties
  <2>6. pos' \in 0..Len(words') /\ out' \in Seq(Word)
    BY <1>2, <1>e, <2>5 DEF Event
  <2>7. cnt' \in 0..(Mod - 1)
    BY <1>2, <1>t, IncreaseType DEF Event
  <2>8. misses' \in 0..MaxMiss
    BY <1>t, <2>1, BoundAssumption DEF BoundAssumption
  <2>9. edits' \in 0..MaxEdit
    BY <1>t, <2>1, BoundAssumption DEF BoundAssumption
  <2>10. hurt' \in BOOLEAN /\ late' \subseteq Modules
    BY <1>t, <2>1
  <2>11. /\ i' \in 1..(N + 1) /\ res' = {} /\ pc' \in {"get", "dt"}
         /\ UNCHANGED <<mode, armed, ahead, clean, val, parse, mis, reinit>>
    BY <1>0, <1>2 DEF Event, initVars
  <2> QED
    BY <2>2, <2>4, <2>6, <2>7, <2>8, <2>9, <2>10, <2>11 DEF TypeOK
<1>3. CASE GetEvent
  <2>1. pos' \in 0..Len(words)
    BY <1>3, <1>t DEF GetEvent
  <2> QED
    BY <1>3, <2>1 DEF GetEvent, Fail, KeepOut, hwVars, initVars, TypeOK
<1>4. CASE FetchDt
  <2>1. i \in Modules
    BY <1>0, <1>4, <1>t DEF FetchDt, Modules
  <2>2. ASSUME Remain >= 2
        PROVE  [val EXCEPT ![i] = Counter(words[pos + 1], words[pos + 2])] \in Values
    <3>1. words[pos + 1] \in Word /\ words[pos + 2] \in Word
      BY <1>t, <2>2, WordAt DEF Remain
    <3>2. Counter(words[pos + 1], words[pos + 2]) \in Nat
      BY <3>1, CounterIs
    <3> QED
      BY <1>t, <2>1, <3>2 DEF Values
  <2>3. val' \in Values
    BY <1>4, <1>t, <2>2 DEF FetchDt
  <2>4. pos' \in 0..Len(words)
    BY <1>4, <1>t DEF FetchDt, MarkerAt, Remain
  <2>5. i' \in 1..(N + 1)
    BY <1>0, <1>4, <1>t DEF FetchDt
  <2>6. mis' \subseteq Modules
    BY <1>4, <2>1 DEF FetchDt, TypeOK
  <2>7. res' \subseteq {"driver", "counter", "corrupt"}
    BY <1>4, <1>t DEF FetchDt, Fail
  <2>8. pc' \in {"dt", "failed"} /\ reinit' \in BOOLEAN
    BY <1>4 DEF FetchDt, Fail, TypeOK
  <2>9. UNCHANGED <<hwVars, initVars, parse, out>>
    BY <1>4 DEF FetchDt
  <2> QED
    BY <2>3, <2>4, <2>5, <2>6, <2>7, <2>8, <2>9 DEF hwVars, initVars, TypeOK
<1>5. CASE DtDone
  <2>1. pos' \in 0..Len(words)
    BY <1>5, <1>t DEF DtDone, MarkerAt, Remain
  <2>2. i' \in 1..(N + 1)
    BY <1>0, <1>5, <1>t DEF DtDone
  <2>3. res' \subseteq {"driver", "counter", "corrupt"} /\ pc' \in {"data", "failed"}
    BY <1>5, <1>t DEF DtDone, Fail
  <2>4. UNCHANGED <<hwVars, initVars, val, parse, mis, reinit, out>>
    BY <1>5 DEF DtDone, KeepOut
  <2> QED
    BY <2>1, <2>2, <2>3, <2>4 DEF hwVars, initVars, TypeOK
<1>6. CASE Fetch
  <2>1. i \in Modules
    BY <1>0, <1>6, <1>t DEF Fetch, Modules
  <2>2. parse' \in Values
    <3>1. val[i] \in Nat
      BY <1>t, <2>1 DEF Values
    <3>2. [parse EXCEPT ![i] = val[i]] \in Values
      BY <1>t, <2>1, <3>1 DEF Values
    <3> QED
      BY <1>6, <1>t, <3>2 DEF Fetch
  <2>3. out' \in Seq(Word)
    <3>1. ASSUME Remain > 0
          PROVE  out \o Only(words[pos + 1] # NoData, words[pos + 1]) \in Seq(Word)
      <4>1. words[pos + 1] \in Word
        BY <1>t, <3>1, WordAt DEF Remain
      <4>2. Only(words[pos + 1] # NoData, words[pos + 1]) \in Seq(Word)
        BY <4>1, OnlyType
      <4> QED
        BY <1>t, <4>2, Concat
    <3> QED
      BY <1>6, <1>t, <3>1 DEF Fetch
  <2>4. pos' \in 0..Len(words)
    BY <1>6, <1>t DEF Fetch, MarkerAt, Remain
  <2>5. i' \in 1..(N + 1)
    BY SMTT(30), <1>0, <1>6, <1>t DEF Fetch
  <2>6. res' \subseteq {"driver", "counter", "corrupt"}
    BY <1>6, <1>t, ParsedType DEF Fetch, Fail
  <2>7. pc' \in {"data", "failed"} /\ reinit' \in BOOLEAN
    BY <1>6 DEF Fetch, Fail, TypeOK
  <2>8. UNCHANGED <<hwVars, initVars, val, mis>>
    BY <1>6 DEF Fetch
  <2> QED
    BY <2>2, <2>3, <2>4, <2>5, <2>6, <2>7, <2>8 DEF hwVars, initVars, TypeOK
<1>7. CASE DataDone
  <2>1. res' \subseteq {"driver", "counter", "corrupt"} /\ pc' \in {"accepted", "failed"}
    BY <1>7, <1>t DEF DataDone, Fail
  <2>2. UNCHANGED <<hwVars, initVars, val, parse, mis, i, pos, reinit, out>>
    BY <1>7 DEF DataDone, KeepOut
  <2> QED
    BY <2>1, <2>2 DEF hwVars, initVars, TypeOK
<1>8. CASE Return
  BY <1>8 DEF Return, KeepOut, hwVars, initVars, TypeOK
<1>9. CASE Reinit
  <2>1. /\ hw' \in Counts /\ val' \in Values /\ parse' \in Values /\ ahead' \in Counts
        /\ armed' \in BOOLEAN /\ cnt' \in 0..(Mod - 1)
    BY <1>0, <1>9, <1>t, CountsAreValues DEF Reinit, Started, Free
  <2>2. /\ mis' = {} /\ late' = {} /\ reinit' = FALSE /\ pc' = "idle"
        /\ UNCHANGED <<mode, words, edits, misses, hurt, clean, i, pos, res, out>>
    BY <1>9 DEF Reinit
  <2> QED
    BY <2>1, <2>2 DEF TypeOK
<1>10. CASE GoOn
  BY <1>10 DEF GoOn, hwVars, TypeOK
<1>11. CASE UNCHANGED vars
  BY <1>11 DEF vars, hwVars, initVars, TypeOK
<1> QED
  BY <1>1, <1>2, <1>3, <1>4, <1>5, <1>6, <1>7, <1>8, <1>9, <1>10, <1>11 DEF Next

-----------------------------------------------------------------------------
(* The words of the event stay what they are while they are fetched.       *)
LEMMA SameIntact ==
    ASSUME NEW c, NEW miss, mode' = mode
    PROVE  Intact(c, miss)' = Intact(c, miss)
BY DEF Intact, Free

LEMMA DeliveredStep == ASSUME TypeOK, Delivered, [Next]_vars PROVE Delivered'
<1>u. ASSUME UNCHANGED <<mode, hw, words, hurt, late>>, Fetching' => Fetching PROVE Delivered'
  <2> SUFFICES ASSUME Fetching' PROVE (\E miss \in SUBSET late : Arrived(miss))'
    BY DEF Delivered
  <2>1. PICK miss \in SUBSET late : Arrived(miss)
    BY <1>u DEF Delivered
  <2>2. PICK c : c = hw
    OBVIOUS
  <2>3. Intact(c, miss)' = Intact(c, miss) /\ hw' = c /\ hw = c
    BY <1>u, <2>2, SameIntact
  <2>4. Arrived(miss)'
    BY <1>u, <2>1, <2>3 DEF Arrived
  <2> QED
    BY <1>u, <2>4
<1>1. CASE NoEvent
  BY <1>1 DEF NoEvent, Fetching, Delivered
<1>2. CASE Event
  <2>1. PICK miss \in SUBSET Modules :
          LET n == IF miss = {} THEN 0 ELSE 1
              c == [m \in Modules |->
                      IF m \in miss THEN hw[m] ELSE (hw[m] + 1) % Mod] IN
          /\ misses + n <= MaxMiss /\ misses' = misses + n
          /\ hw' = c /\ late' = late \cup miss
          /\ \/ words' = Intact(c, miss) /\ hurt' = FALSE /\ edits' = edits
             \/ /\ edits < MaxEdit /\ edits' = edits + 1
                /\ words' \in Edit(Intact(c, miss), late' = {})
                /\ hurt' = (words' # Intact(c, miss))
    BY <1>2 DEF Event
  <2>2. PICK c : c = hw'
    OBVIOUS
  <2>3. mode' = mode
    BY <1>2 DEF Event
  <2>4. Intact(c, miss)' = Intact(c, miss)
    BY <2>3, SameIntact
  <2>5. \/ words' = Intact(c, miss) /\ hurt' = FALSE
        \/ words' \in Edit(Intact(c, miss), late' = {}) /\ hurt' = (words' # Intact(c, miss))
    BY <2>1, <2>2
  <2>6. (Intact(hw, miss))' = Intact(c, miss)
    BY <2>2, <2>4
  <2>7. Arrived(miss)'
    BY <2>5, <2>6 DEF Arrived
  <2>8. miss \in SUBSET late'
    BY <2>1
  <2> QED
    BY <2>7, <2>8 DEF Delivered
<1>3. CASE GetEvent
  BY <1>3, <1>u DEF GetEvent, Fetching, KeepOut, hwVars, Fail
<1>4. CASE FetchDt
  BY <1>4, <1>u DEF FetchDt, Fetching, KeepOut, hwVars, Fail
<1>5. CASE DtDone
  BY <1>5, <1>u DEF DtDone, Fetching, KeepOut, hwVars, Fail
<1>6. CASE Fetch
  BY <1>6, <1>u DEF Fetch, Fetching, KeepOut, hwVars, Fail
<1>7. CASE DataDone
  BY <1>7, <1>u DEF DataDone, Fetching, KeepOut, hwVars, Fail
<1>8. CASE Return
  BY <1>8, <1>u DEF Return, Fetching, KeepOut, hwVars, Fail
<1>9. CASE Reinit
  BY <1>9 DEF Reinit, Fetching, Delivered
<1>10. CASE GoOn
  BY <1>10, <1>u DEF GoOn, Fetching, KeepOut, hwVars, Fail
<1>11. CASE UNCHANGED vars
  BY <1>11, <1>u DEF vars, Fetching, KeepOut, hwVars, Fail
<1> QED
  BY <1>1, <1>2, <1>3, <1>4, <1>5, <1>6, <1>7, <1>8, <1>9, <1>10, <1>11 DEF Next

LEMMA RunningStep == ASSUME TypeOK, Running, [Next]_vars PROVE Running'
<1>1. CASE NoEvent
  BY <1>1 DEF NoEvent, Fetching, Running, KeepOut, hwVars, Fail, Free
<1>2. CASE Event
  BY <1>2 DEF Event, Fetching, Running, KeepOut, hwVars, Fail, Free
<1>3. CASE GetEvent
  BY <1>3 DEF GetEvent, Fetching, Running, KeepOut, hwVars, Fail, Free
<1>4. CASE FetchDt
  BY <1>4 DEF FetchDt, Fetching, Running, KeepOut, hwVars, Fail, Free
<1>5. CASE DtDone
  BY <1>5 DEF DtDone, Fetching, Running, KeepOut, hwVars, Fail, Free
<1>6. CASE Fetch
  BY <1>6 DEF Fetch, Fetching, Running, KeepOut, hwVars, Fail, Free
<1>7. CASE DataDone
  BY <1>7 DEF DataDone, Fetching, Running, KeepOut, hwVars, Fail, Free
<1>8. CASE Return
  BY <1>8 DEF Return, Fetching, Running, KeepOut, hwVars, Fail, Free
<1>9. CASE Reinit
  BY <1>9 DEF Reinit, Fetching, Running, KeepOut, hwVars, Fail, Free
<1>10. CASE GoOn
  BY <1>10 DEF GoOn, Fetching, Running, KeepOut, hwVars, Fail, Free
<1>11. CASE UNCHANGED vars
  BY <1>11 DEF vars, Fetching, Running, KeepOut, hwVars, Fail, Free
<1> QED
  BY <1>1, <1>2, <1>3, <1>4, <1>5, <1>6, <1>7, <1>8, <1>9, <1>10, <1>11 DEF Next

LEMMA Shift == \A q \in Int : Mod * (q + 1) = Mod * q + Mod /\ Mod * (q - 1) = Mod * q - Mod
<1>1. Mod \in Nat
  BY ModType
<1> DEFINE M == Mod
<1>2. M \in Nat
  BY <1>1
<1> HIDE DEF M
<1>3. \A q \in Int : M * (q + 1) = M * q + M /\ M * (q - 1) = M * q - M
  BY <1>2
<1> QED
  BY <1>3 DEF M

LEMMA InStep == \A h \in 0..(Mod - 1) : Lag(0, h, h, 0)
<1> SUFFICES ASSUME NEW h \in 0..(Mod - 1) PROVE \E q \in Int : 0 + h - 0 - h = Mod * q
  BY DEF Lag
<1>1. Mod \in Nat
  BY ModType
<1>2. 0 \in Int /\ Mod * 0 = 0 /\ 0 + h - 0 - h = 0
  BY <1>1
<1> QED
  BY <1>2

(* Two counters go on together, each on its own round, or one alone.       *)
LEMMA Turning ==
    ASSUME NEW c \in Int, NEW h \in Int, NEW a \in Int, NEW d \in Int, Lag(c, a, h, d),
           NEW c2 \in {c + 1, c + 1 - Mod}, NEW h2 \in {h + 1, h + 1 - Mod}
    PROVE  Lag(c2, a, h2, d)
<1>1. PICK q \in Int : c + a - d - h = Mod * q
  BY DEF Lag
<1>2. /\ Mod \in Nat /\ Mod * (q + 1) = Mod * q + Mod /\ Mod * (q - 1) = Mod * q - Mod
      /\ Mod * q \in Int
  BY ModType, Shift
<1>3. c2 + a - d - h2 \in {Mod * q, Mod * (q - 1), Mod * (q + 1)}
  BY <1>1, <1>2
<1>4. q \in Int /\ q - 1 \in Int /\ q + 1 \in Int
  OBVIOUS
<1> QED
  BY <1>3, <1>4 DEF Lag

LEMMA Lagging ==
    ASSUME NEW c \in Int, NEW h \in Int, NEW a \in Int, NEW d \in Int, Lag(c, a, h, d),
           NEW c2 \in {c + 1, c + 1 - Mod}
    PROVE  Lag(c2, a, h, d + 1)
<1>1. PICK q \in Int : c + a - d - h = Mod * q
  BY DEF Lag
<1>2. /\ Mod \in Nat /\ Mod * (q - 1) = Mod * q - Mod /\ Mod * q \in Int
  BY ModType, Shift
<1>3. c2 + a - (d + 1) - h \in {Mod * q, Mod * (q - 1)}
  BY <1>1, <1>2
<1>4. q \in Int /\ q - 1 \in Int
  OBVIOUS
<1> QED
  BY <1>3, <1>4 DEF Lag

LEMMA BehindStep ==
    ASSUME TypeOK, TypeOK', Running, Behind, [Next]_vars
    PROVE  Behind'
<1>u. ASSUME UNCHANGED <<mode, armed, hw, cnt, ahead, misses, late>>,
             (Free => armed \/ pc' = "idle") => (Free => armed \/ pc = "idle")
      PROVE  Behind'
  BY <1>u DEF Behind, BehindBy, Free
<1>1. CASE NoEvent
  BY <1>1 DEF NoEvent, Behind, Free
<1>2. CASE Event
  <2>1. PICK miss \in SUBSET Modules :
          /\ misses' = misses + (IF miss = {} THEN 0 ELSE 1) /\ late' = late \cup miss
          /\ hw' = [m \in Modules |-> IF m \in miss THEN hw[m] ELSE (hw[m] + 1) % Mod]
    BY <1>2 DEF Event
  <2>2. cnt' = (cnt + 1) % Mod /\ ahead' = ahead /\ pc = "idle"
    BY <1>2 DEF Event, initVars, Increase
  <2> SUFFICES ASSUME NEW m \in Modules PROVE \E d \in 0..misses' : BehindBy(m, d)'
    BY DEF Behind
  <2>3. PICK d \in 0..misses : BehindBy(m, d)
    BY <2>2 DEF Behind
  <2>4. Lag(cnt, ahead[m], hw[m], d)
    BY <2>3 DEF BehindBy
  <2>5. /\ hw[m] \in 0..(Mod - 1) /\ ahead[m] \in 0..(Mod - 1) /\ cnt \in 0..(Mod - 1)
        /\ misses \in Nat /\ Mod \in Nat /\ Mod > 1 /\ d \in Nat
    BY ModType, BoundAssumption DEF TypeOK, Counts, BoundAssumption
  <2>6. cnt' = IF cnt + 1 = Mod THEN 0 ELSE cnt + 1
    BY <2>2, <2>5, OneMore
  <2>7. (hw[m] + 1) % Mod = IF hw[m] + 1 = Mod THEN 0 ELSE hw[m] + 1
    BY <2>5, OneMore
  <2>8. /\ cnt \in Int /\ hw[m] \in Int /\ ahead[m] \in Int /\ d \in Int
        /\ cnt' \in {cnt + 1, cnt + 1 - Mod}
    BY <2>5, <2>6
  <2>9. CASE m \in miss
    <3>1. d + 1 \in 0..misses' /\ d + 1 > 0 /\ m \in late' /\ hw'[m] = hw[m]
      BY <2>1, <2>5, <2>9
    <3>2. Lag(cnt', ahead[m], hw[m], d + 1)
      BY <2>4, <2>8, Lagging
    <3>3. BehindBy(m, d + 1)'
      BY <2>2, <3>1, <3>2 DEF BehindBy
    <3> QED
      BY <3>1, <3>3
  <2>10. CASE m \notin miss
    <3>1. d \in 0..misses' /\ (m \in late' <=> m \in late) /\ hw'[m] = (hw[m] + 1) % Mod
      BY <2>1, <2>5, <2>10
    <3>2. Lag(cnt', ahead[m], hw'[m], d)
      <4>1. hw'[m] \in {hw[m] + 1, hw[m] + 1 - Mod}
        BY <2>5, <2>7, <3>1
      <4> QED
        BY ZenonT(30), <2>4, <2>8, <4>1, Turning
    <3>3. BehindBy(m, d)'
      BY <2>2, <2>3, <3>1, <3>2 DEF BehindBy
    <3> QED
      BY <3>1, <3>3
  <2> QED
    BY <2>9, <2>10
<1>3. CASE GetEvent
  BY <1>3, <1>u DEF GetEvent, Running, Fetching, Free, KeepOut, hwVars, initVars
<1>4. CASE FetchDt
  BY <1>4, <1>u DEF FetchDt, Running, Fetching, Free, KeepOut, hwVars, initVars
<1>5. CASE DtDone
  BY <1>5, <1>u DEF DtDone, Running, Fetching, Free, KeepOut, hwVars, initVars
<1>6. CASE Fetch
  BY <1>6, <1>u DEF Fetch, Running, Fetching, Free, KeepOut, hwVars, initVars
<1>7. CASE DataDone
  BY <1>7, <1>u DEF DataDone, Running, Fetching, Free, KeepOut, hwVars, initVars
<1>8. CASE Return
  BY <1>8, <1>u DEF Return, Running, Fetching, Free, KeepOut, hwVars, initVars
<1>9. CASE Reinit
  <2>1. late' = {} /\ ahead' = hw' /\ cnt' = 0
    BY <1>9 DEF Reinit
  <2>2. ASSUME NEW m \in Modules PROVE \E d \in 0..misses' : BehindBy(m, d)'
    <3>1. hw'[m] \in 0..(Mod - 1) /\ misses' \in Nat
      BY BoundAssumption DEF TypeOK, Counts, BoundAssumption
    <3>2. Lag(0, hw'[m], hw'[m], 0)
      BY <3>1, InStep
    <3>3. BehindBy(m, 0)'
      BY <2>1, <3>2 DEF BehindBy
    <3> QED
      BY <3>1, <3>3
  <2> QED
    BY <2>2 DEF Behind
<1>10. CASE GoOn
  BY <1>10, <1>u DEF GoOn, Running, Fetching, Free, KeepOut, hwVars, initVars
<1>11. CASE UNCHANGED vars
  BY <1>11, <1>u DEF vars, Running, Fetching, Free, KeepOut, hwVars, initVars
<1> QED
  BY <1>1, <1>2, <1>3, <1>4, <1>5, <1>6, <1>7, <1>8, <1>9, <1>10, <1>11 DEF Next

LEMMA BaseIs == Base \in {0, 1} /\ (Free <=> Base = 1) /\ N \in Nat /\ N > 0
BY ModType DEF Base, Free

LEMMA PlacedStep ==
    ASSUME TypeOK, TypeOK', Running, Placed, [Next]_vars
    PROVE  Placed'
<1>0. Base \in {0, 1} /\ (Free <=> Base = 1) /\ N \in Nat /\ N > 0 /\ i \in 1..(N + 1)
      /\ Len(words) \in Nat
  BY BaseIs, LenProperties DEF TypeOK
<1>u. mode' = mode =>
        /\ Base' = Base /\ Total' = Total
        /\ DtAt(i)' = Base + 3 * (i' - 1) /\ DataAt(i)' = 3 * N + 1 + 2 * (i' - 1)
  BY DEF Base, Free, Total, DtAt, DataAt
<1>v. UNCHANGED <<mode, i, pos, words, res>> /\ pc' \in {pc, "failed"} => Placed'
  <2>1. UNCHANGED <<mode, i>> => DtAt(i)' = DtAt(i) /\ DataAt(i)' = DataAt(i)
    BY <1>u DEF DtAt, DataAt
  <2> QED
    BY <1>u, <2>1 DEF Placed
<1>1. CASE NoEvent
  BY <1>1 DEF NoEvent, Placed
<1>2. CASE Event
  <2>1. /\ mode' = mode /\ pos' = 0 /\ i' = 1
        /\ Free => pc' = "get"
        /\ ~Free => pc' = "dt"
    BY <1>2 DEF Event
  <2>2. ~Free => DtAt(i)' = 0
    BY <1>0, <1>u, <2>1
  <2> QED
    BY <2>1, <2>2 DEF Placed
<1>3. CASE GetEvent
  <2>1. mode' = mode /\ i' = i /\ words' = words /\ pc = "get"
    BY <1>3 DEF GetEvent, KeepOut, hwVars
  <2>2. CASE pc' = "dt"
    <3>1. pos' = 1
      BY <1>3, <2>2 DEF GetEvent, Fail
    <3>2. Free /\ i = 1
      BY <2>1 DEF Running, Placed
    <3>3. DtAt(i)' = 1
      BY <1>0, <1>u, <2>1, <3>2
    <3> QED
      BY <2>2, <3>1, <3>3 DEF Placed
  <2>3. CASE pc' = "failed"
    BY <2>3 DEF Placed
  <2> QED
    BY <1>3, <2>2, <2>3 DEF GetEvent, Fail
<1>4. CASE FetchDt
  <2>1. UNCHANGED <<mode, words>> /\ pc = "dt" /\ pos = DtAt(i)
    BY <1>4 DEF FetchDt, hwVars, Placed
  <2>2. CASE pc' = "dt"
    <3>1. pos' = pos + 3 /\ i' = i + 1
      BY <1>4, <2>2 DEF FetchDt, Fail
    <3>2. DtAt(i)' = pos'
      BY <1>0, <1>u, <2>1, <3>1 DEF DtAt
    <3> QED
      BY <2>2, <3>2 DEF Placed
  <2>3. CASE pc' = "failed"
    BY <2>3 DEF Placed
  <2> QED
    BY <1>4, <2>2, <2>3 DEF FetchDt, Fail
<1>5. CASE DtDone
  <2>1. UNCHANGED <<mode, words>> /\ pc = "dt" /\ pos = DtAt(i) /\ i = N + 1
    BY <1>5 DEF DtDone, KeepOut, hwVars, Placed
  <2>2. CASE pc' = "data"
    <3>1. pos' = (IF Free THEN pos ELSE pos + 1) /\ i' = 1
      BY <1>5, <2>2 DEF DtDone, Fail
    <3>2. DataAt(i)' = pos'
      BY <1>0, <1>u, <2>1, <3>1 DEF DtAt
    <3> QED
      BY <2>2, <3>2 DEF Placed
  <2>3. CASE pc' = "failed"
    BY <2>3 DEF Placed
  <2> QED
    BY <1>5, <2>2, <2>3 DEF DtDone, Fail
<1>6. CASE Fetch
  <2>1. UNCHANGED <<mode, words>> /\ pc = "data" /\ pos = DataAt(i)
    BY <1>6 DEF Fetch, hwVars, Placed
  <2>2. CASE pc' = "data"
    <3>1. pos' = pos + 2 /\ i' = i + 1
      BY <1>6, <2>2 DEF Fetch, Fail
    <3>2. DataAt(i)' = pos'
      BY <1>0, <1>u, <2>1, <3>1 DEF DataAt
    <3> QED
      BY <2>2, <3>2 DEF Placed
  <2>3. CASE pc' = "failed"
    BY <2>3 DEF Placed
  <2> QED
    BY <1>6, <2>2, <2>3 DEF Fetch, Fail
<1>7. CASE DataDone
  <2>1. CASE pc' = "accepted"
    <3>1. res = {} /\ res' = {} /\ Remain = (IF Free THEN 1 ELSE 0) /\ pos = DataAt(i) /\ i = N + 1
      BY <1>7, <2>1 DEF DataDone, Fail, Placed
    <3>2. pos \in Nat /\ UNCHANGED <<mode, words, i>>
      BY <1>7 DEF DataDone, KeepOut, hwVars, TypeOK
    <3>3. Len(words) = Total
      BY <1>0, <3>1, <3>2 DEF Remain, DataAt, Total
    <3> QED
      BY <1>u, <2>1, <3>1, <3>2, <3>3 DEF Placed, Total
  <2>2. CASE pc' = "failed"
    BY <2>2 DEF Placed
  <2> QED
    BY <1>7, <2>1, <2>2 DEF DataDone, Fail
<1>8. CASE Return
  BY <1>8 DEF Return, Placed
<1>9. CASE Reinit
  BY <1>9 DEF Reinit, Placed
<1>10. CASE GoOn
  BY <1>10 DEF GoOn, Placed
<1>11. CASE UNCHANGED vars
  BY <1>11, <1>v DEF vars, hwVars
<1> QED
  BY <1>1, <1>2, <1>3, <1>4, <1>5, <1>6, <1>7, <1>8, <1>9, <1>10, <1>11 DEF Next

LEMMA FramedStep ==
    ASSUME TypeOK, Running, Placed, Framed, [Next]_vars
    PROVE  Framed'
<1>0. Base \in {0, 1} /\ (Free <=> Base = 1) /\ N \in Nat /\ N > 0 /\ i \in 1..(N + 1)
  BY BaseIs DEF TypeOK
<1>1. CASE NoEvent
  BY <1>1 DEF NoEvent, Framed, Free, KeepOut, hwVars, Fail
<1>2. CASE Event
  BY <1>2 DEF Event, Framed, Free, KeepOut, hwVars, Fail
<1>3. CASE GetEvent
  BY <1>3 DEF GetEvent, Framed, Free, KeepOut, hwVars, Fail
<1>4. CASE FetchDt
  BY <1>4 DEF FetchDt, Framed, Free, KeepOut, hwVars, Fail
<1>5. CASE DtDone
  <2>1. UNCHANGED <<mode, words>> /\ pc = "dt"
    BY <1>5 DEF DtDone, KeepOut, hwVars
  <2>2. ASSUME pc' = "data", ~Free PROVE words[3 * N + 1] = Mark("sep")
    <3>1. MarkerAt(0, Mark("sep")) /\ i = N + 1 /\ pos = DtAt(i)
      BY <1>5, <2>2 DEF DtDone, Fail, Placed
    <3>2. words[pos + 0 + 1] = Mark("sep") /\ pos + 0 + 1 = 3 * N + 1
      BY <1>0, <2>2, <3>1 DEF MarkerAt, DtAt
    <3> QED
      BY <3>2
  <2>3. pc' \in {"data", "failed"}
    BY <1>5 DEF DtDone, Fail
  <2> QED
    BY <2>1, <2>2, <2>3 DEF Framed, Free
<1>6. CASE Fetch
  BY <1>6 DEF Fetch, Framed, Free, KeepOut, hwVars, Fail
<1>7. CASE DataDone
  BY <1>7 DEF DataDone, Framed, Free, KeepOut, hwVars, Fail
<1>8. CASE Return
  BY <1>8 DEF Return, Framed, Free, KeepOut, hwVars, Fail
<1>9. CASE Reinit
  BY <1>9 DEF Reinit, Framed, Free, KeepOut, hwVars, Fail
<1>10. CASE GoOn
  BY <1>10 DEF GoOn, Framed, Free, KeepOut, hwVars, Fail
<1>11. CASE UNCHANGED vars
  BY <1>11 DEF vars, Framed, Free, KeepOut, hwVars, Fail
<1> QED
  BY <1>1, <1>2, <1>3, <1>4, <1>5, <1>6, <1>7, <1>8, <1>9, <1>10, <1>11 DEF Next

LEMMA CountedStep ==
    ASSUME TypeOK, Placed, Counted, [Next]_vars
    PROVE  Counted'
<1>0. Base \in {0, 1} /\ (Free <=> Base = 1) /\ N \in Nat /\ N > 0 /\ i \in 1..(N + 1)
  BY BaseIs DEF TypeOK
<1>u. ASSUME NEW m \in Modules, UNCHANGED <<mode, words, cnt, ahead>>, val'[m] = val[m],
             CountedOne(m)
      PROVE  CountedOne(m)'
  BY <1>u DEF CountedOne, CounterOf, Differs, DtAt, Base, Free
<1>v. ASSUME UNCHANGED <<mode, words, cnt, ahead, val>>,
             pc' \in {"dt", "data", "accepted"} /\ res' = {}
                => /\ pc \in {"dt", "data", "accepted"} /\ res = {}
                   /\ \A m \in Modules : (pc' = "dt" => m < i') => (pc = "dt" => m < i)
      PROVE  Counted'
  <2> SUFFICES ASSUME pc' \in {"dt", "data", "accepted"} /\ res' = {},
                      NEW m \in Modules, pc' = "dt" => m < i'
               PROVE  CountedOne(m)'
    BY DEF Counted
  <2> QED
    BY <1>u, <1>v DEF Counted
<1>1. CASE NoEvent
  BY <1>1 DEF NoEvent, Counted
<1>2. CASE Event
  <2>1. i' = 1 /\ pc' \in {"get", "dt"}
    BY <1>2 DEF Event
  <2>2. \A m \in Modules : ~(m < 1)
    BY DEF Modules
  <2> QED
    BY <2>1, <2>2 DEF Counted
<1>3. CASE GetEvent
  <2>1. i' = 1 /\ pc' \in {"dt", "failed"}
    BY <1>3 DEF GetEvent, Fail, Placed
  <2>2. \A m \in Modules : ~(m < 1)
    BY DEF Modules
  <2> QED
    BY <2>1, <2>2 DEF Counted
<1>4. CASE FetchDt
  <2> SUFFICES ASSUME pc' \in {"dt", "data", "accepted"}, res' = {},
                      NEW m \in Modules, pc' = "dt" => m < i'
               PROVE  CountedOne(m)'
    BY DEF Counted
  <2>1. /\ pc = "dt" /\ res = {} /\ MarkerAt(2, Feed(i)) /\ i' = i + 1 /\ ~Differs(i, val'[i])
        /\ val' = [val EXCEPT ![i] = Counter(words[pos + 1], words[pos + 2])]
        /\ UNCHANGED <<mode, words, cnt, ahead>> /\ pc' = "dt"
    BY <1>4 DEF FetchDt, Fail, hwVars, initVars
  <2>2. pos = DtAt(i) /\ m < i + 1 /\ val \in Values
    BY <2>1 DEF Placed, TypeOK
  <2>3. CASE m = i
    <3>1. val'[m] = Counter(words[DtAt(m) + 1], words[DtAt(m) + 2])
      BY <2>1, <2>2, <2>3 DEF Values
    <3>2. words[DtAt(m) + 3] = Feed(m)
      <4>1. words[pos + 2 + 1] = Feed(i) /\ pos \in Int
        BY <2>1 DEF MarkerAt, TypeOK
      <4> QED
        BY <2>2, <2>3, <4>1
    <3> QED
      BY <2>1, <2>3, <3>1, <3>2 DEF CountedOne, CounterOf, Differs, DtAt, Base, Free
  <2>4. CASE m # i
    <3>1. m < i /\ val'[m] = val[m]
      BY <1>0, <2>1, <2>2, <2>4 DEF Values, Modules
    <3> QED
      BY <1>u, <2>1, <3>1 DEF Counted
  <2> QED
    BY <2>3, <2>4
<1>5. CASE DtDone
  <2>1. \A m \in Modules : m < N + 1
    BY <1>0 DEF Modules
  <2>2. i = N + 1 /\ pc = "dt" /\ UNCHANGED <<mode, words, cnt, ahead, val>>
    BY <1>5 DEF DtDone, KeepOut, hwVars, initVars
  <2>3. pc' \in {"dt", "data", "accepted"} => res' = res
    BY <1>5 DEF DtDone, Fail
  <2> QED
    BY <1>v, <2>1, <2>2, <2>3
<1>6. CASE Fetch
  BY <1>6, <1>v DEF Fetch, KeepOut, hwVars, initVars, Fail
<1>7. CASE DataDone
  BY <1>7, <1>v DEF DataDone, KeepOut, hwVars, initVars, Fail
<1>8. CASE Return
  BY <1>8 DEF Return, Counted
<1>9. CASE Reinit
  BY <1>9 DEF Reinit, Counted
<1>10. CASE GoOn
  BY <1>10 DEF GoOn, Counted
<1>11. CASE UNCHANGED vars
  BY <1>11, <1>v DEF vars, KeepOut, hwVars, initVars, Fail
<1> QED
  BY <1>1, <1>2, <1>3, <1>4, <1>5, <1>6, <1>7, <1>8, <1>9, <1>10, <1>11 DEF Next

LEMMA TakenStep ==
    ASSUME TypeOK, Placed, Taken, [Next]_vars
    PROVE  Taken'
<1>0. N \in Nat /\ N > 0 /\ i \in 1..(N + 1)
  BY ModType DEF TypeOK
<1>u. ASSUME NEW m \in Modules, UNCHANGED <<words, val>>, parse'[m] = parse[m], TakenOne(m)
      PROVE  TakenOne(m)'
  BY <1>u DEF TakenOne, DataAt
<1>v. ASSUME UNCHANGED <<words, val, parse, i>>,
             pc' \in {"data", "accepted"} /\ res' = {} => pc \in {"data", "accepted"} /\ res = {}
      PROVE  Taken'
  <2> SUFFICES ASSUME pc' \in {"data", "accepted"} /\ res' = {}, NEW m \in Modules, m < i'
               PROVE  TakenOne(m)'
    BY DEF Taken
  <2> QED
    BY <1>u, <1>v DEF Taken
<1>1. CASE NoEvent
  BY <1>1 DEF NoEvent, Taken, Fail
<1>2. CASE Event
  BY <1>2 DEF Event, Taken, Fail
<1>3. CASE GetEvent
  BY <1>3 DEF GetEvent, Taken, Fail
<1>4. CASE FetchDt
  BY <1>4 DEF FetchDt, Taken, Fail
<1>5. CASE DtDone
  <2>1. pc' = "data" => i' = 1
    BY <1>5 DEF DtDone, Fail
  <2>2. pc' \in {"data", "failed"} /\ \A m \in Modules : ~(m < 1)
    BY <1>5 DEF DtDone, Fail, Modules
  <2> QED
    BY <2>1, <2>2 DEF Taken
<1>6. CASE Fetch
  <2> SUFFICES ASSUME pc' \in {"data", "accepted"} /\ res' = {}, NEW m \in Modules, m < i'
               PROVE  TakenOne(m)'
    BY DEF Taken
  <2> DEFINE w == words[pos + 1]
  <2>1. /\ pc = "data" /\ res = {} /\ w[1] = "block" /\ MarkerAt(1, Abba(i))
        /\ Parsed(i, w) = {} /\ i' = i + 1 /\ parse' = [parse EXCEPT ![i] = val[i]]
        /\ UNCHANGED <<words, val>>
    BY <1>6 DEF Fetch, Fail, hwVars
  <2>2. pos = DataAt(i) /\ pos \in Int /\ m < i + 1 /\ parse \in Values
    BY <2>1 DEF Placed, TypeOK
  <2>3. CASE m = i
    <3>1. parse'[m] = val[m]
      BY <2>1, <2>2, <2>3 DEF Values
    <3>2. words[DataAt(m) + 2] = Abba(m)
      <4>1. words[pos + 1 + 1] = Abba(i)
        BY <2>1 DEF MarkerAt
      <4> QED
        BY <2>2, <2>3, <4>1
    <3>3. w = NoData \/ w[2] = m
      <4> HIDE DEF w
      <4> QED
        BY <2>1, <2>3 DEF Parsed
    <3>4. w = words[DataAt(m) + 1]
      BY <2>2, <2>3
    <3> HIDE DEF w
    <3>5. TakenOne(m)' <=> /\ words[DataAt(m) + 1][1] = "block"
                           /\ words[DataAt(m) + 1] = NoData \/ words[DataAt(m) + 1][2] = m
                           /\ words[DataAt(m) + 2] = Abba(m)
                           /\ parse'[m] = val[m]
      BY <2>1 DEF TakenOne, DataAt
    <3> QED
      BY <2>1, <3>1, <3>2, <3>3, <3>4, <3>5
  <2>4. CASE m # i
    <3>1. m < i /\ parse'[m] = parse[m]
      BY <1>0, <2>1, <2>2, <2>4 DEF Values, Modules
    <3> QED
      BY <1>u, <2>1, <3>1 DEF Taken
  <2> QED
    BY <2>3, <2>4
<1>7. CASE DataDone
  BY <1>7, <1>v DEF DataDone, KeepOut, hwVars, Fail
<1>8. CASE Return
  BY <1>8 DEF Return, Taken, Fail
<1>9. CASE Reinit
  BY <1>9 DEF Reinit, Taken, Fail
<1>10. CASE GoOn
  BY <1>10 DEF GoOn, Taken, Fail
<1>11. CASE UNCHANGED vars
  BY <1>11, <1>v DEF vars, KeepOut, hwVars, Fail
<1> QED
  BY <1>1, <1>2, <1>3, <1>4, <1>5, <1>6, <1>7, <1>8, <1>9, <1>10, <1>11 DEF Next

-----------------------------------------------------------------------------
(* What the checks see.                                                    *)
LEMMA Undisturbed ==
    ASSUME TypeOK, Delivered, Fetching, ~hurt, late = {}
    PROVE  Whole(words, hw, {})
<1>1. PICK miss \in SUBSET late : words = Intact(hw, miss)
  BY DEF Delivered, Arrived
<1>2. miss = {} /\ {} \in SUBSET Modules /\ hw \in Counts
  BY <1>1 DEF TypeOK
<1> QED
  BY <1>1, <1>2, IntactIsWhole

LEMMA DtPlaces ==
    ASSUME NEW m \in Modules
    PROVE  /\ DtAt(m) + 1 \in 1..Total /\ DtAt(m) + 2 \in 1..Total /\ DtAt(m) + 3 \in 1..Total
           /\ DataAt(m) + 1 \in 1..Total /\ DataAt(m) + 2 \in 1..Total
           /\ DtAt(m) \in Nat /\ DataAt(m) \in Nat /\ Total \in Nat
           /\ DataAt(m) + 2 <= 5 * N + 1
<1>1. m \in Int /\ m >= 1 /\ m <= N /\ N \in Nat /\ Base \in {0, 1}
  BY BaseIs DEF Modules
<1> QED
  BY <1>1 DEF DtAt, DataAt, Total

LEMMA SameCounter ==
    ASSUME NEW m \in Modules, hw \in Counts, NEW lo, NEW hi,
           lo = Num(hw[m] % Half), hi = Num(hw[m] \div Half)
    PROVE  Counter(lo, hi) = hw[m]
<1>1. /\ (hw[m] % Half) + Half * (hw[m] \div Half) = hw[m]
  BY CountsAre
<1>2. IsNum(lo) /\ IsNum(hi) /\ lo[2] = hw[m] % Half /\ hi[2] = hw[m] \div Half
  BY Kinds DEF IsNum
<1> QED
  BY <1>1, <1>2 DEF Counter

(* The comparison of crate_cmvlc_fetch_dt, for a value a module can have.  *)
LEMMA Compared ==
    ASSUME TypeOK, NEW m \in Modules, NEW d \in 0..misses, BehindBy(m, d),
           NEW v \in 0..(Mod - 1)
    PROVE  /\ d = 0 => (Differs(m, v) <=> v # hw[m])
           /\ d > 0 /\ MaxMiss < Mod => Differs(m, hw[m])
<1>1. /\ Mod \in Nat /\ Mod > 1 /\ misses \in Nat /\ misses <= MaxMiss /\ MaxMiss \in Nat
      /\ hw[m] \in 0..(Mod - 1) /\ ahead[m] \in 0..(Mod - 1) /\ cnt \in 0..(Mod - 1)
  BY ModType, BoundAssumption DEF TypeOK, Counts, BoundAssumption
<1>2. PICK q \in Int : cnt + ahead[m] - d - hw[m] = Mod * q
  BY DEF BehindBy, Lag
<1>3. Mod * q \in Int
  BY <1>1
<1>4. ASSUME NEW x \in 0..(Mod - 1)
      PROVE  Differs(m, x) <=> ~\E p \in Int : cnt - x + ahead[m] = Mod * p
  <2>1. cnt - x + ahead[m] \in Int /\ x # Mod
    BY <1>1
  <2> QED
    BY <2>1, Multiple DEF Differs
<1>5. ASSUME NEW x \in 0..(Mod - 1), ~Differs(m, x), hw[m] + d - x < Mod, hw[m] + d - x > -Mod
      PROVE  x = hw[m] + d
  <2>1. PICK p \in Int : cnt - x + ahead[m] = Mod * p
    BY <1>4, <1>5
  <2>2. Mod * p \in Int /\ Mod * (p - q) = Mod * p - Mod * q /\ p - q \in Int
    <3> DEFINE M == Mod
    <3>1. M \in Nat
      BY <1>1
    <3> HIDE DEF M
    <3>2. M * p \in Int /\ M * (p - q) = M * p - M * q
      BY <3>1
    <3> QED
      BY <3>2 DEF M
  <2>3. d \in Int /\ hw[m] + d - x \in Int /\ hw[m] + d - x = Mod * (p - q)
    BY <1>1, <1>2, <1>3, <2>1, <2>2
  <2>4. hw[m] + d - x = 0
    BY <1>5, <2>2, <2>3, SmallMultiple
  <2> QED
    BY <1>1, <2>3, <2>4
<1>6. ASSUME d = 0 PROVE Differs(m, v) <=> v # hw[m]
  <2>1. ~Differs(m, hw[m])
    <3>1. cnt - hw[m] + ahead[m] = Mod * q
      BY <1>1, <1>2, <1>3, <1>6
    <3> QED
      BY <1>1, <1>4, <3>1
  <2>2. ASSUME ~Differs(m, v) PROVE v = hw[m]
    <3>1. hw[m] + d - v < Mod /\ hw[m] + d - v > -Mod
      BY <1>1, <1>6
    <3>2. v = hw[m] + d
      BY <1>5, <2>2, <3>1
    <3> QED
      BY <1>1, <1>6, <3>2
  <2> QED
    BY <2>1, <2>2
<1>7. ASSUME d > 0, MaxMiss < Mod PROVE Differs(m, hw[m])
  <2>1. SUFFICES ASSUME ~Differs(m, hw[m]) PROVE FALSE
    OBVIOUS
  <2>2. hw[m] + d - hw[m] < Mod /\ hw[m] + d - hw[m] > -Mod
    BY <1>1, <1>7
  <2>3. hw[m] = hw[m] + d
    BY <1>1, <1>5, <2>1, <2>2
  <2> QED
    BY <1>1, <1>7, <2>3
<1> QED
  BY <1>6, <1>7

LEMMA NoneBehind ==
    ASSUME TypeOK, Behind, Free => armed \/ pc = "idle", late = {}, NEW m \in Modules,
           NEW v \in 0..(Mod - 1)
    PROVE  Differs(m, v) <=> v # hw[m]
<1>1. PICK d \in 0..misses : BehindBy(m, d)
  BY DEF Behind
<1>2. d = 0
  BY <1>1, BoundAssumption DEF BehindBy, TypeOK, BoundAssumption
<1> QED
  BY <1>1, <1>2, Compared

(* Intact words, and modules that have seen every trigger.                 *)
LEMMA AllIsWell ==
    ASSUME TypeOK, Delivered, Running, Behind, Fetching, ~hurt, late = {}, NEW m \in Modules
    PROVE  CounterOf(m) = hw[m] /\ ~Differs(m, hw[m])
<1>1. Whole(words, hw, {})
  BY Undisturbed
<1>2. hw \in Counts /\ hw[m] \in 0..(Mod - 1)
  BY DEF TypeOK, Counts
<1>3. CounterOf(m) = hw[m]
  BY <1>1, <1>2, SameCounter DEF Whole, CounterOf
<1>4. ~Differs(m, hw[m])
  BY <1>2, NoneBehind DEF Running
<1> QED
  BY <1>3, <1>4

LEMMA OneMoreBlock ==
    ASSUME NEW c \in Counts, NEW m \in Modules
    PROVE  [k \in 1..(m - 1) |-> Block(k, c[k])] \o <<Block(m, c[m])>>
             = [k \in 1..m |-> Block(k, c[k])]
<1> DEFINE s == [k \in 1..(m - 1) |-> Block(k, c[k])]
           t == <<Block(m, c[m])>>
           u == [k \in 1..m |-> Block(k, c[k])]
<1>1. m \in Nat /\ m >= 1 /\ m <= N /\ N \in Nat
  BY ModType DEF Modules
<1>2. \A k \in 1..m : Block(k, c[k]) \in Word
  BY <1>1, WordsAre DEF Modules, Counts
<1>3. s \in Seq(Word) /\ Len(s) = m - 1 /\ t \in Seq(Word) /\ Len(t) = 1
  <2>1. s \in [1..(m - 1) -> Word] /\ m - 1 \in Nat
    BY <1>1, <1>2
  <2>2. Block(m, c[m]) \in Word
    BY <1>1, <1>2
  <2> QED
    BY <2>1, <2>2
<1>4. u \in Seq(Word) /\ Len(u) = m
  <2>1. u \in [1..m -> Word]
    BY <1>1, <1>2
  <2> QED
    BY <1>1, <2>1
<1>5. s \o t \in Seq(Word) /\ Joins(s \o t, s, t)
  BY <1>3, Concat
<1>6. /\ Len(s \o t) = m /\ \A k \in 1..(m - 1) : (s \o t)[k] = s[k]
      /\ (s \o t)[m] = t[1]
  <2>1. /\ Len(s \o t) = Len(s) + Len(t)
        /\ \A k \in 1..Len(s) : (s \o t)[k] = s[k]
        /\ \A k \in 1..Len(t) : (s \o t)[Len(s) + k] = t[k]
    BY <1>5 DEF Joins
  <2>2. 1 \in 1..Len(t) /\ Len(s) + 1 = m
    BY <1>1, <1>3
  <2>3. (s \o t)[Len(s) + 1] = t[1]
    BY <2>1, <2>2
  <2> HIDE DEF s, t
  <2> QED
    BY <1>1, <1>3, <2>1, <2>2, <2>3
<1>7. ASSUME NEW k \in 1..Len(s \o t) PROVE (s \o t)[k] = u[k]
  <2>1. CASE k = m
    <3>1. t[1] = Block(m, c[m]) /\ u[m] = Block(m, c[m])
      BY <1>1
    <3> QED
      BY <1>6, <2>1, <3>1
  <2>2. CASE k # m
    <3>1. k \in 1..(m - 1) /\ k \in 1..m
      BY <1>1, <1>6, <2>2
    <3>2. s[k] = Block(k, c[k]) /\ u[k] = Block(k, c[k])
      BY <3>1
    <3> QED
      BY <1>6, <3>1, <3>2
  <2> QED
    BY <2>1, <2>2
<1> HIDE DEF s, t, u
<1>8. s \o t = u
  BY <1>4, <1>5, <1>6, <1>7, SeqEqual
<1> QED
  BY <1>8 DEF s, t, u

LEMMA WrittenStep ==
    ASSUME TypeOK, Delivered, Placed, Written, [Next]_vars
    PROVE  Written'
<1>0. N \in Nat /\ N > 0 /\ i \in 1..(N + 1)
  BY ModType DEF TypeOK
<1>1. CASE NoEvent
  BY <1>1 DEF NoEvent, Written, KeepOut, hwVars, Fail
<1>2. CASE Event
  BY <1>2 DEF Event, Written, KeepOut, hwVars, Fail
<1>3. CASE GetEvent
  BY <1>3 DEF GetEvent, Written, KeepOut, hwVars, Fail
<1>4. CASE FetchDt
  BY <1>4 DEF FetchDt, Written, KeepOut, hwVars, Fail
<1>5. CASE DtDone
  <2>1. out = << >> /\ out' = out /\ pc' \in {"data", "failed"} /\ (pc' = "data" => i' = 1)
    BY <1>5 DEF DtDone, Fail, Written, KeepOut
  <2>2. [m \in 1..(1 - 1) |-> Block(m, hw'[m])] = << >>
    OBVIOUS
  <2> QED
    BY <2>1, <2>2 DEF Written
<1>6. CASE Fetch
  <2> SUFFICES ASSUME pc' \in {"data", "accepted"}, ~hurt', late' = {}
               PROVE  out' = [m \in 1..(i' - 1) |-> Block(m, hw'[m])]
    BY <1>6 DEF Written, Fetch, Fail
  <2>1. /\ pc = "data" /\ i' = i + 1 /\ i \in Modules /\ ~hurt /\ late = {} /\ hw' = hw
        /\ out' = out \o Only(words[pos + 1] # NoData, words[pos + 1])
    BY <1>6, <1>0 DEF Fetch, Fail, hwVars, Modules
  <2>2. Whole(words, hw, {}) /\ pos = DataAt(i) /\ hw \in Counts
    BY <2>1, Undisturbed DEF Fetching, Placed, TypeOK
  <2>3. words[pos + 1] = Block(i, hw[i])
    BY <2>1, <2>2 DEF Whole
  <2>4. Only(words[pos + 1] # NoData, words[pos + 1]) = <<Block(i, hw[i])>>
    BY <2>3, Kinds DEF Only
  <2>5. out = [m \in 1..(i - 1) |-> Block(m, hw[m])]
    BY <2>1 DEF Written
  <2>6. out' = [m \in 1..i |-> Block(m, hw[m])]
    BY <2>1, <2>2, <2>4, <2>5, OneMoreBlock
  <2>7. i' - 1 = i
    BY <1>0, <2>1
  <2> QED
    BY <2>1, <2>6, <2>7
<1>7. CASE DataDone
  BY <1>7 DEF DataDone, Written, KeepOut, hwVars, Fail
<1>8. CASE Return
  BY <1>8 DEF Return, Written, KeepOut, hwVars, Fail
<1>9. CASE Reinit
  BY <1>9 DEF Reinit, Written, KeepOut, hwVars, Fail
<1>10. CASE GoOn
  BY <1>10 DEF GoOn, Written, KeepOut, hwVars, Fail
<1>11. CASE UNCHANGED vars
  BY <1>11 DEF vars, Written, KeepOut, hwVars, Fail
<1> QED
  BY <1>1, <1>2, <1>3, <1>4, <1>5, <1>6, <1>7, <1>8, <1>9, <1>10, <1>11 DEF Next

-----------------------------------------------------------------------------
(* An event that has passed the checks. One edit more or less would have   *)
(* changed the length; a word in the place of another would have been      *)
(* found there.                                                            *)
Passed == pc = "accepted" /\ Placed /\ Framed /\ Counted /\ Taken

LEMMA PassedIs ==
    ASSUME Passed, NEW m \in Modules
    PROVE  CountedOne(m) /\ TakenOne(m)
<1>1. m < N + 1
  BY ModType DEF Modules
<1> QED
  BY <1>1 DEF Passed, Placed, Counted, Taken

(* Counter words are numbers, so that only numbers can take their place.   *)
LEMMA NumbersThere ==
    ASSUME TypeOK, Passed, NEW m \in Modules
    PROVE  /\ IsNum(words[DtAt(m) + 1]) /\ IsNum(words[DtAt(m) + 2])
           /\ words[DtAt(m) + 1] \in Word /\ words[DtAt(m) + 2] \in Word
<1>1. words \in Seq(Word) /\ Len(words) = Total
  BY DEF TypeOK, Passed, Placed
<1>2. words[DtAt(m) + 1] \in Word /\ words[DtAt(m) + 2] \in Word
  BY <1>1, DtPlaces, ElementOfSeq
<1>3. CounterOf(m) # Mod
  BY PassedIs DEF CountedOne, Differs
<1> QED
  BY <1>2, <1>3, CounterIs DEF CounterOf

LEMMA LateIsFound ==
    ASSUME TypeOK, Delivered, Running, Behind, Passed, MaxMiss < Mod
    PROVE  late = {}
<1> SUFFICES ASSUME NEW m \in Modules, m \in late PROVE FALSE
  BY DEF TypeOK
<1>1. PICK miss \in SUBSET late : Arrived(miss)
  BY DEF Delivered, Fetching, Passed
<1> DEFINE W == Intact(hw, miss)
<1>2. Whole(W, hw, miss) /\ hw \in Counts /\ miss \in SUBSET Modules
  BY <1>1, IntactIsWhole DEF TypeOK
<1>3. W \in Seq(Word) /\ Len(W) = Total /\ Len(words) = Total
  BY <1>2 DEF Whole, Passed, Placed
<1>4. PICK inStep : inStep = (late = {}) /\ inStep \in BOOLEAN
  OBVIOUS
<1>13. words = W \/ words \in Edit(W, inStep)
  BY <1>1, <1>4 DEF Arrived
<1>14. ~inStep
  BY <1>4
<1>5. /\ W[DtAt(m) + 1] = Num(hw[m] % Half) /\ W[DtAt(m) + 2] = Num(hw[m] \div Half)
  BY <1>2 DEF Whole
<1> HIDE DEF W
<1>6. ASSUME NEW x \in 1..Total, IsNum(W[x]), IsNum(words[x]) PROVE words[x] = W[x]
  <2>1. CASE words \in Edit(W, inStep)
    <3>1. PICK k \in 1..Len(W), j \in 1..Len(W) :
            /\ inStep \/ ~(IsNum(W[k]) /\ IsNum(W[j]))
            /\ \A z \in 1..Len(W) : words[z] = IF z = k THEN W[j] ELSE W[z]
      <4>1. Replaced(words, W, inStep)
        BY <1>3, <2>1, EditIs
      <4> QED
        BY <4>1 DEF Replaced
    <3>2. words[x] = IF x = k THEN W[j] ELSE W[x]
      BY <1>3, <3>1
    <3> QED
      BY <1>6, <1>14, <3>1, <3>2
  <2> QED
    BY <1>13, <2>1
<1>7. /\ DtAt(m) + 1 \in 1..Total /\ DtAt(m) + 2 \in 1..Total
      /\ IsNum(W[DtAt(m) + 1]) /\ IsNum(W[DtAt(m) + 2])
  BY <1>5, DtPlaces, Kinds DEF IsNum
<1>8. words[DtAt(m) + 1] = W[DtAt(m) + 1] /\ words[DtAt(m) + 2] = W[DtAt(m) + 2]
  BY <1>6, <1>7, NumbersThere
<1>9. CounterOf(m) = hw[m]
  BY <1>2, <1>5, <1>8, SameCounter DEF CounterOf
<1>10. ~Differs(m, hw[m])
  BY <1>9, PassedIs DEF CountedOne
<1>11. PICK d \in 0..misses : BehindBy(m, d)
  BY DEF Behind, Running, Fetching, Passed
<1>12. d > 0 /\ hw[m] \in 0..(Mod - 1)
  BY <1>2, <1>11 DEF BehindBy, Counts
<1> QED
  BY <1>10, <1>11, <1>12, Compared

LEMMA HurtIsFound ==
    ASSUME TypeOK, Delivered, Running, Behind, Passed, late = {}
    PROVE  ~hurt
<1> SUFFICES ASSUME hurt PROVE FALSE
  OBVIOUS
<1> DEFINE W == Intact(hw, {})
<1>1. words \in Edit(W, late = {}) /\ words # W
  <2>1. PICK miss \in SUBSET late : Arrived(miss)
    BY DEF Delivered, Fetching, Passed
  <2>2. miss = {}
    OBVIOUS
  <2> QED
    BY <2>1, <2>2 DEF Arrived
<1>10. PICK inStep : words \in Edit(W, inStep)
  BY <1>1
<1>2. Whole(W, hw, {}) /\ hw \in Counts
  BY IntactIsWhole DEF TypeOK
<1>3. /\ W \in Seq(Word) /\ Len(W) = Total /\ words \in Seq(Word) /\ Len(words) = Total
      /\ Total \in Nat
  <2>1. Total \in Nat
    BY BaseIs DEF Total
  <2> QED
    BY <1>2, <2>1 DEF Whole, TypeOK, Passed, Placed
<1> HIDE DEF W
<1>4. PICK k \in 1..Total, j \in 1..Total :
        \A z \in 1..Total : words[z] = IF z = k THEN W[j] ELSE W[z]
  <2>1. Replaced(words, W, inStep)
    BY <1>3, <1>10, EditIs
  <2>2. PICK k \in 1..Len(W), j \in 1..Len(W) :
          \A z \in 1..Len(W) : words[z] = IF z = k THEN W[j] ELSE W[z]
    BY <2>1 DEF Replaced
  <2>3. k \in 1..Total /\ j \in 1..Total
    BY <1>3
  <2>4. \A z \in 1..Total : words[z] = IF z = k THEN W[j] ELSE W[z]
    BY <1>3, <2>2
  <2> QED
    BY <2>3, <2>4
<1>5. ASSUME NEW m \in Modules
      PROVE  /\ words[DtAt(m) + 1] = W[DtAt(m) + 1] /\ words[DtAt(m) + 2] = W[DtAt(m) + 2]
             /\ words[DtAt(m) + 3] = W[DtAt(m) + 3]
  <2> DEFINE lo == words[DtAt(m) + 1]
             hi == words[DtAt(m) + 2]
  <2>1. /\ IsNum(lo) /\ IsNum(hi) /\ lo \in Word /\ hi \in Word
    BY NumbersThere
  <2>2. Counter(lo, hi) = CounterOf(m)
    BY DEF CounterOf
  <2> HIDE DEF lo, hi
  <2>3. /\ Counter(lo, hi) \in 0..(Mod - 1)
        /\ lo[2] \in 0..(Half - 1) /\ hi[2] \in 0..(Half - 1)
        /\ lo = Num(lo[2]) /\ hi = Num(hi[2])
        /\ Counter(lo, hi) = lo[2] + Half * hi[2]
    BY <2>1, CounterIs
  <2>4. Counter(lo, hi) = hw[m]
    <3>1. ~Differs(m, Counter(lo, hi))
      BY <2>2, PassedIs DEF CountedOne
    <3>2. Free => armed \/ pc = "idle"
      BY DEF Running, Fetching, Passed
    <3> QED
      BY <2>3, <3>1, <3>2, NoneBehind
  <2>5. /\ hw[m] % Half \in 0..(Half - 1) /\ hw[m] \div Half \in 0..(Half - 1)
        /\ lo[2] + Half * hi[2] = (hw[m] % Half) + Half * (hw[m] \div Half)
    BY <1>2, <2>3, <2>4, CountsAre
  <2>6. lo[2] = hw[m] % Half /\ hi[2] = hw[m] \div Half
    BY <2>3, <2>5, OneWay
  <2>7. /\ W[DtAt(m) + 1] = Num(hw[m] % Half) /\ W[DtAt(m) + 2] = Num(hw[m] \div Half)
        /\ W[DtAt(m) + 3] = Feed(m)
    BY <1>2 DEF Whole
  <2>8. words[DtAt(m) + 3] = Feed(m)
    BY PassedIs DEF CountedOne
  <2>9. lo = W[DtAt(m) + 1] /\ hi = W[DtAt(m) + 2]
    BY <2>3, <2>6, <2>7
  <2> QED
    BY <2>7, <2>8, <2>9 DEF lo, hi
<1>6. ASSUME NEW x \in 1..Total, W[x][1] = "block"
      PROVE  \E m \in Modules : W[x] = Block(m, hw[m])
  <2>1. \/ Free /\ (x = 1 \/ x = Total)
        \/ ~Free /\ x = 3 * N + 1
        \/ \E m \in Modules : x \in {DtAt(m) + 1, DtAt(m) + 2, DtAt(m) + 3,
                                     DataAt(m) + 1, DataAt(m) + 2}
    BY Places
  <2>2. CASE (Free /\ (x = 1 \/ x = Total)) \/ (~Free /\ x = 3 * N + 1)
    <3>1. W[x] \in {Mark("start"), Mark("end"), Mark("sep")}
      BY <1>2, <2>2 DEF Whole
    <3> QED
      BY <1>6, <3>1, Kinds
  <2>3. ASSUME NEW m \in Modules, x \in {DtAt(m) + 1, DtAt(m) + 2, DtAt(m) + 3,
                                         DataAt(m) + 1, DataAt(m) + 2}
        PROVE  W[x] = Block(m, hw[m])
    <3>1. W[x] \in {Num(hw[m] % Half), Num(hw[m] \div Half), Feed(m), Block(m, hw[m]), Abba(m)}
      <4>1. /\ W[DtAt(m) + 1] = Num(hw[m] % Half) /\ W[DtAt(m) + 2] = Num(hw[m] \div Half)
            /\ W[DtAt(m) + 3] = Feed(m) /\ W[DataAt(m) + 1] = Block(m, hw[m])
            /\ W[DataAt(m) + 2] = Abba(m)
        BY <1>2 DEF Whole
      <4> QED
        BY <2>3, <4>1
    <3> QED
      BY <1>6, <3>1, Kinds
  <2> QED
    BY <2>1, <2>2, <2>3
<1>7. ASSUME NEW m \in Modules
      PROVE  words[DataAt(m) + 1] = W[DataAt(m) + 1] /\ words[DataAt(m) + 2] = W[DataAt(m) + 2]
  <2> DEFINE x == DataAt(m) + 1
             w == words[x]
  <2>1. W[x] = Block(m, hw[m]) /\ W[DataAt(m) + 2] = Abba(m)
    BY <1>2 DEF Whole
  <2>2. /\ w[1] = "block" /\ (w = NoData \/ w[2] = m)
        /\ words[DataAt(m) + 2] = Abba(m)
    BY PassedIs DEF TakenOne
  <2>3. x \in 1..Total
    BY DtPlaces
  <2> HIDE DEF x
  <2>4. w = W[j] \/ w = W[x]
    BY <1>4, <2>3
  <2> HIDE DEF w
  <2>5. CASE w = W[j]
    <3>1. PICK n \in Modules : W[j] = Block(n, hw[n])
      BY <1>6, <2>2, <2>5
    <3>2. n = m
      BY <2>2, <2>5, <3>1, Kinds
    <3> QED
      BY <2>1, <2>2, <2>5, <3>1, <3>2 DEF w, x
  <2>6. CASE w = W[x]
    BY <2>1, <2>2, <2>6 DEF w, x
  <2> QED
    BY <2>4, <2>5, <2>6
<1>8. ASSUME NEW x \in 1..Total PROVE words[x] = W[x]
  <2>1. \/ Free /\ (x = 1 \/ x = Total)
        \/ ~Free /\ x = 3 * N + 1
        \/ \E m \in Modules : x \in {DtAt(m) + 1, DtAt(m) + 2, DtAt(m) + 3,
                                     DataAt(m) + 1, DataAt(m) + 2}
    BY Places
  <2>2. CASE Free /\ (x = 1 \/ x = Total)
    <3>1. words[1] = Mark("start") /\ words[Total] = Mark("end")
      BY <1>3, <2>2 DEF Passed, Framed
    <3> QED
      BY <1>2, <2>2, <3>1 DEF Whole
  <2>3. CASE ~Free /\ x = 3 * N + 1
    BY <1>2, <2>3 DEF Whole, Passed, Framed
  <2>4. CASE \E m \in Modules : x \in {DtAt(m) + 1, DtAt(m) + 2, DtAt(m) + 3,
                                       DataAt(m) + 1, DataAt(m) + 2}
    BY <1>5, <1>7, <2>4
  <2> QED
    BY <2>1, <2>2, <2>3, <2>4
<1>9. words = W
  BY <1>3, <1>8, SeqEqual
<1> QED
  BY <1>1, <1>9

LEMMA ExpectedStep ==
    ASSUME TypeOK, TypeOK', Delivered, Running, Behind, Placed, Framed, Counted, Taken,
           Expected, [Next]_vars
    PROVE  Expected'
<1>0. /\ Base \in {0, 1} /\ (Free <=> Base = 1) /\ N \in Nat /\ N > 0 /\ i \in 1..(N + 1)
      /\ pos \in Nat /\ Len(words) \in Nat
  BY BaseIs, LenProperties DEF TypeOK
<1>f. ASSUME Fetching, ~hurt, ~Trouble
      PROVE  /\ res = {} /\ Whole(words, hw, {}) /\ Len(words) = Total
             /\ \A m \in Modules : CounterOf(m) = hw[m] /\ ~Differs(m, hw[m])
  <2>1. res = {} /\ late = {}
    BY <1>f DEF Expected, Trouble
  <2>2. Whole(words, hw, {})
    BY <1>f, <2>1, Undisturbed
  <2> QED
    BY <1>f, <2>1, <2>2, AllIsWell DEF Whole
<1>v. ASSUME Trouble' PROVE Expected'
  BY <1>v DEF Expected
<1>w. ASSUME Fetching, hurt, hurt' = hurt, pc' # "idle" PROVE Expected'
  BY <1>w DEF Expected, Fetching
<1>1. CASE NoEvent
  BY <1>1 DEF NoEvent, Expected, Trouble, Free, Fetching, KeepOut, hwVars, initVars, Fail
<1>2. CASE Event
  <2> SUFFICES ASSUME ~Trouble' PROVE Expected'
    BY <1>v
  <2>1. PICK miss \in SUBSET Modules :
          /\ late' = late \cup miss
          /\ hw' = [m \in Modules |-> IF m \in miss THEN hw[m] ELSE (hw[m] + 1) % Mod]
    BY <1>2 DEF Event
  <2>2. /\ UNCHANGED <<mode, armed, clean, parse>> /\ pc = "idle" /\ pc' \in {"get", "dt"}
        /\ res' = {}
    BY <1>2 DEF Event, initVars
  <2>3. late = {} /\ miss = {} /\ ~Trouble
    BY <2>1, <2>2 DEF Trouble, Free
  <2>4. parse = hw
    BY <2>2, <2>3 DEF Expected
  <2>5. \A m \in Modules : (parse'[m] + 1) % Mod = hw'[m]
    BY <2>1, <2>2, <2>3, <2>4
  <2> QED
    BY <2>2, <2>5 DEF Expected
<1>3. CASE GetEvent
  <2>s. UNCHANGED <<mode, armed, late, clean, hw, hurt, words>> /\ Fetching
    BY <1>3 DEF GetEvent, KeepOut, hwVars, initVars, Fetching
  <2> SUFFICES ASSUME ~Trouble, ~hurt PROVE Expected'
    <3>1. Trouble' = Trouble /\ pc' # "idle"
      BY <1>3, <2>s DEF GetEvent, Fail, Trouble, Free
    <3> QED
      BY <1>v, <1>w, <2>s, <3>1
  <2>f. /\ res = {} /\ Whole(words, hw, {}) /\ Len(words) = Total
        /\ \A m \in Modules : CounterOf(m) = hw[m] /\ ~Differs(m, hw[m])
    BY <1>f, <2>s

  <2>1. Free
    BY <1>3 DEF GetEvent, Running
  <2>2. Len(words) >= 2 /\ words[1] = Mark("start") /\ words[Len(words)] = Mark("end")
    BY <1>0, <2>1, <2>f DEF Whole, Total
  <2>3. pc = "get" /\ pc' = "dt" /\ res' = {} /\ parse' = parse
    BY <1>3, <2>2, <2>f, <2>s DEF GetEvent, KeepOut
  <2>4. \A m \in Modules : (parse[m] + 1) % Mod = hw[m]
    BY <2>s, <2>3 DEF Expected
  <2> QED
    BY <2>s, <2>3, <2>4 DEF Expected
<1>4. CASE FetchDt
  <2>s. UNCHANGED <<mode, armed, late, clean, hw, hurt, words>> /\ Fetching
    BY <1>4 DEF FetchDt, KeepOut, hwVars, initVars, Fetching
  <2> SUFFICES ASSUME ~Trouble, ~hurt PROVE Expected'
    <3>1. Trouble' = Trouble /\ pc' # "idle"
      BY <1>4, <2>s DEF FetchDt, Fail, Trouble, Free
    <3> QED
      BY <1>v, <1>w, <2>s, <3>1
  <2>f. /\ res = {} /\ Whole(words, hw, {}) /\ Len(words) = Total
        /\ \A m \in Modules : CounterOf(m) = hw[m] /\ ~Differs(m, hw[m])
    BY <1>f, <2>s

  <2>1. i \in Modules /\ pos = DtAt(i) /\ pc = "dt"
    BY <1>4, <1>0 DEF FetchDt, Placed, Modules
  <2>2. DtAt(i) + 3 <= Len(words) /\ words[DtAt(i) + 3] = Feed(i)
    BY <2>1, <2>f, DtPlaces DEF Whole
  <2>3. Remain >= 2 /\ MarkerAt(2, Feed(i))
    <3>1. Len(words) - pos > 2 /\ pos + 2 + 1 = DtAt(i) + 3
      BY <1>0, <2>1, <2>2
    <3> QED
      BY <2>2, <3>1, <1>0 DEF Remain, MarkerAt
  <2>4. Counter(words[pos + 1], words[pos + 2]) = hw[i]
    BY <2>1, <2>f DEF CounterOf
  <2>9. /\ parse' = parse /\ val' = [val EXCEPT ![i] = Counter(words[pos + 1], words[pos + 2])]
        /\ \/ res # {} \/ ~MarkerAt(2, Feed(i))
           \/ /\ IF Differs(i, val'[i]) THEN mis' = mis \cup {i} /\ res' = {"counter"}
                 ELSE UNCHANGED <<mis, res>>
              /\ UNCHANGED <<pc, reinit>>
    <3>1. ~(Remain < 2)
      BY <1>0, <2>3 DEF Remain
    <3> QED
      BY <1>4, <3>1 DEF FetchDt
  <2>5. /\ pc' = pc /\ parse' = parse
        /\ Differs(i, val'[i]) \/ res' = res
        /\ val' = [val EXCEPT ![i] = Counter(words[pos + 1], words[pos + 2])]
    BY <2>3, <2>9, <2>f
  <2>6. val'[i] = hw[i]
    BY <2>1, <2>4, <2>5 DEF TypeOK, Values
  <2>7. res' = {}
    BY <2>1, <2>5, <2>6, <2>f
  <2>8. \A m \in Modules : (parse[m] + 1) % Mod = hw[m]
    BY <2>s, <2>1 DEF Expected
  <2> QED
    BY <2>s, <2>1, <2>5, <2>7, <2>8 DEF Expected
<1>5. CASE DtDone
  <2>s. UNCHANGED <<mode, armed, late, clean, hw, hurt, words>> /\ Fetching
    BY <1>5 DEF DtDone, KeepOut, hwVars, initVars, Fetching
  <2> SUFFICES ASSUME ~Trouble, ~hurt PROVE Expected'
    <3>1. Trouble' = Trouble /\ pc' # "idle"
      BY <1>5, <2>s DEF DtDone, Fail, Trouble, Free
    <3> QED
      BY <1>v, <1>w, <2>s, <3>1
  <2>f. /\ res = {} /\ Whole(words, hw, {}) /\ Len(words) = Total
        /\ \A m \in Modules : CounterOf(m) = hw[m] /\ ~Differs(m, hw[m])
    BY <1>f, <2>s

  <2>1. pos = DtAt(i) /\ pc = "dt" /\ i = N + 1
    BY <1>5 DEF DtDone, Placed
  <2>2. ~Free => MarkerAt(0, Mark("sep"))
    <3>1. ~Free => pos + 0 + 1 = 3 * N + 1 /\ Len(words) - pos > 0
      BY <1>0, <2>1, <2>f DEF DtAt, Total
    <3> QED
      BY <2>f, <3>1 DEF MarkerAt, Remain, Whole
  <2>3. pc' = "data" /\ res' = {} /\ parse' = parse
    BY <1>5, <2>2, <2>f DEF DtDone, KeepOut
  <2>4. \A m \in Modules : (parse[m] + 1) % Mod = hw[m]
    BY <2>s, <2>1 DEF Expected
  <2> QED
    BY <2>s, <2>3, <2>4 DEF Expected
<1>6. CASE Fetch
  <2>s. UNCHANGED <<mode, armed, late, clean, hw, hurt, words>> /\ Fetching
    BY <1>6 DEF Fetch, KeepOut, hwVars, initVars, Fetching
  <2> SUFFICES ASSUME ~Trouble, ~hurt PROVE Expected'
    <3>1. Trouble' = Trouble /\ pc' # "idle"
      BY <1>6, <2>s DEF Fetch, Fail, Trouble, Free
    <3> QED
      BY <1>v, <1>w, <2>s, <3>1
  <2>f. /\ res = {} /\ Whole(words, hw, {}) /\ Len(words) = Total
        /\ \A m \in Modules : CounterOf(m) = hw[m] /\ ~Differs(m, hw[m])
    BY <1>f, <2>s

  <2>1. i \in Modules /\ pos = DataAt(i) /\ pc = "data"
    BY <1>6, <1>0 DEF Fetch, Placed, Modules
  <2>2. /\ DataAt(i) + 2 <= Len(words) /\ words[DataAt(i) + 2] = Abba(i)
        /\ words[DataAt(i) + 1] = Block(i, hw[i])
    BY <2>1, <2>f, DtPlaces DEF Whole
  <2>3. /\ Remain > 0 /\ MarkerAt(1, Abba(i)) /\ words[pos + 1] = Block(i, hw[i])
    <3>1. Len(words) - pos > 1 /\ pos + 1 + 1 = DataAt(i) + 2 /\ Len(words) - pos > 0
      BY <1>0, <2>1, <2>2
    <3> QED
      BY <2>1, <2>2, <3>1 DEF Remain, MarkerAt
  <2>4. \A m \in Modules : m >= i => (parse[m] + 1) % Mod = hw[m]
    BY <2>s, <2>1 DEF Expected
  <2>5. Parsed(i, words[pos + 1]) = {}
    <3>1. (parse[i] + 1) % Mod = hw[i]
      BY <1>0, <2>1, <2>4
    <3> QED
      BY <2>3, <3>1, Kinds DEF Parsed
  <2>6. words[pos + 1][1] = "block"
    BY <2>3, Kinds
  <2>7. /\ pc' = pc /\ i' = i + 1 /\ res' = {} /\ parse' = [parse EXCEPT ![i] = val[i]]
    BY <1>6, <2>3, <2>5, <2>6, <2>f DEF Fetch, Fail
  <2>8. ASSUME NEW m \in Modules, m >= i' PROVE (parse'[m] + 1) % Mod = hw[m]
    <3>1. m # i /\ m >= i
      BY <1>0, <2>7, <2>8 DEF Modules
    <3>2. parse'[m] = parse[m]
      BY <2>7, <3>1 DEF TypeOK, Values
    <3> QED
      BY <2>4, <3>1, <3>2
  <2> QED
    BY <2>s, <2>1, <2>7, <2>8 DEF Expected
<1>7. CASE DataDone
  <2>s. UNCHANGED <<mode, armed, late, clean, hw, hurt, words>> /\ Fetching
    BY <1>7 DEF DataDone, KeepOut, hwVars, initVars, Fetching
  <2> SUFFICES ASSUME ~Trouble, ~hurt PROVE Expected'
    <3>1. Trouble' = Trouble /\ pc' # "idle"
      BY <1>7, <2>s DEF DataDone, Fail, Trouble, Free
    <3> QED
      BY <1>v, <1>w, <2>s, <3>1
  <2>f. /\ res = {} /\ Whole(words, hw, {}) /\ Len(words) = Total
        /\ \A m \in Modules : CounterOf(m) = hw[m] /\ ~Differs(m, hw[m])
    BY <1>f, <2>s

  <2>1. pos = DataAt(i) /\ pc = "data" /\ i = N + 1
    BY <1>7 DEF DataDone, Placed
  <2>2. Remain = (IF Free THEN 1 ELSE 0)
    BY <1>0, <2>1, <2>f DEF Remain, DataAt, Total
  <2>3. pc' = "accepted" /\ res' = {}
    BY <1>7, <2>2, <2>f DEF DataDone
  <2> QED
    BY <2>3 DEF Expected
<1>8. CASE Return
  <2>1. UNCHANGED <<mode, armed, late, clean, hw, parse>> /\ pc = "accepted" /\ pc' = "idle"
    BY <1>8 DEF Return, KeepOut, hwVars, initVars
  <2> SUFFICES ASSUME ~Trouble PROVE Expected'
    BY <1>v, <2>1 DEF Trouble, Free
  <2>2. late = {} /\ Passed
    BY <2>1 DEF Trouble, Passed
  <2>3. ~hurt
    BY <2>2, HurtIsFound
  <2>4. ASSUME NEW m \in Modules PROVE parse[m] = hw[m]
    BY <1>f, <2>1, <2>2, <2>3, PassedIs DEF Fetching, CountedOne, TakenOne
  <2>5. parse = hw
    BY SMTT(30), <2>4 DEF TypeOK, Values, Counts
  <2> QED
    BY <2>1, <2>5 DEF Expected, Fetching
<1>9. CASE Reinit
  BY <1>9 DEF Reinit, Expected, Trouble, Free, Fetching, KeepOut, hwVars, initVars, Fail
<1>10. CASE GoOn
  BY <1>10 DEF GoOn, Expected, Trouble, Free, Fetching, KeepOut, hwVars, initVars, Fail
<1>11. CASE UNCHANGED vars
  BY <1>11 DEF vars, hwVars, initVars, Expected, Trouble, Free, Fetching
<1> QED
  BY <1>1, <1>2, <1>3, <1>4, <1>5, <1>6, <1>7, <1>8, <1>9, <1>10, <1>11 DEF Next

-----------------------------------------------------------------------------
Inv == /\ TypeOK /\ Delivered /\ Running /\ Behind /\ Placed /\ Framed /\ Counted
       /\ Taken /\ Written /\ Expected

LEMMA InitInv == Init => Inv
<1> SUFFICES ASSUME Init PROVE Inv
  OBVIOUS
<1>1. TypeOK
  BY TypeInit
<1>2. /\ pc = "idle" /\ late = {} /\ ahead = hw /\ cnt = 0 /\ parse = hw
  BY DEF Init
<1>3. Behind
  <2>1. ASSUME NEW m \in Modules PROVE \E d \in 0..misses : BehindBy(m, d)
    <3>1. hw[m] \in 0..(Mod - 1) /\ misses \in Nat
      BY <1>1, BoundAssumption DEF TypeOK, Counts, BoundAssumption
    <3>2. Lag(0, hw[m], hw[m], 0)
      BY <3>1, InStep
    <3>3. BehindBy(m, 0)
      BY <1>2, <3>2 DEF BehindBy
    <3> QED
      BY <3>1, <3>3
  <2> QED
    BY <2>1 DEF Behind
<1> QED
  BY <1>1, <1>2, <1>3
     DEF Inv, Delivered, Running, Placed, Framed, Counted, Taken, Written, Expected, Fetching

LEMMA NextInv == Inv /\ [Next]_vars => Inv'
<1> SUFFICES ASSUME Inv, [Next]_vars PROVE Inv'
  OBVIOUS
<1>1. /\ TypeOK /\ Delivered /\ Running /\ Behind /\ Placed /\ Framed /\ Counted
      /\ Taken /\ Written /\ Expected
  BY DEF Inv
<1>2. TypeOK'
  BY <1>1, TypeStep
<1>3. Delivered' /\ Running'
  BY <1>1, DeliveredStep, RunningStep
<1>4. Behind' /\ Placed'
  BY <1>1, <1>2, BehindStep, PlacedStep
<1>5. Framed' /\ Counted' /\ Taken' /\ Written'
  BY <1>1, FramedStep, CountedStep, TakenStep, WrittenStep
<1>6. Expected'
  BY <1>1, <1>2, ExpectedStep
<1> QED
  BY <1>2, <1>3, <1>4, <1>5, <1>6 DEF Inv

(* The inductive invariant: where the fetching is, and what it has found   *)
(* in the words before that place.                                         *)
THEOREM FetchInv == Spec => []Inv
<1> QED
  BY InitInv, NextInv, PTL DEF Spec

(* Whatever words are lost, doubled or replaced, and whichever modules     *)
(* miss a trigger: an event that the checks of crate_cmvlc_fetch_dt and    *)
(* crate_cmvlc_fetch let pass is the one the sequencer produced, of        *)
(* modules that are in step, and its data are all of it. A module may not  *)
(* have missed as many triggers as its counter has values.                 *)
THEOREM AcceptedWhole ==
    ASSUME MaxMiss < Mod
    PROVE  Spec => []AcceptedIsWhole
<1>1. Inv => AcceptedIsWhole
  <2> SUFFICES ASSUME Inv, pc = "accepted"
               PROVE  /\ ~hurt /\ late = {}
                      /\ out = [m \in Modules |-> Block(m, hw[m])]
    BY DEF AcceptedIsWhole
  <2>1. Passed /\ TypeOK /\ Delivered /\ Running /\ Behind
    BY DEF Inv, Passed
  <2>2. late = {}
    BY <2>1, LateIsFound
  <2>3. ~hurt
    BY <2>1, <2>2, HurtIsFound
  <2>4. i - 1 = N
    BY ModType DEF Inv, Placed
  <2>5. out = [m \in 1..(i - 1) |-> Block(m, hw[m])]
    BY <2>2, <2>3 DEF Inv, Written
  <2> QED
    BY <2>2, <2>3, <2>4, <2>5 DEF Modules
<1> QED
  BY <1>1, FetchInv, PTL

(* Fetching fails only if words were hurt, a module missed a trigger since *)
(* the last initialisation, an earlier failure was passed over, or the     *)
(* stack of a free-running system was not set up.                          *)
THEOREM RefusedWithCause == Spec => []RefusedForCause
<1>1. Inv => RefusedForCause
  BY DEF Inv, Expected, Trouble, RefusedForCause
<1> QED
  BY <1>1, FetchInv, PTL
=============================================================================
