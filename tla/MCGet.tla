------------------------------- MODULE MCGet -------------------------------
EXTENDS ConfigGet

Scal(t, v, u, i) == [t |-> t, v |-> v, u |-> u, i |-> i]
Ints(u, vs) == [j \in DOMAIN vs |-> Scal("int", vs[j], u, j - 1)]
Doubles(u, vs) == [j \in DOMAIN vs |-> Scal("double", vs[j], u, j - 1)]
Keys(vs) == [j \in DOMAIN vs |-> Scal("key", vs[j], "none", j - 1)]

Numerals == <<<<0>>, <<-1>>, <<7>>, <<2047>>, <<-3, 5>>, <<1, 2, 3>>>>
Fractions == <<<<4>>, <<5>>, <<15>>, <<-5>>, <<-6, 25>>, <<20470>>>>
Words == <<<<"a">>, <<"c">>, <<"a", "c">>, <<"c", "a">>, <<"a", "b">>>>
MCUnits == <<"none", "ns", "us", "kHz", "B", "KiB">>
MCValues ==
    FlattenSeq([n \in DOMAIN MCUnits |->
      [j \in DOMAIN Numerals |-> Ints(MCUnits[n], Numerals[j])]
      \o [j \in DOMAIN Fractions |-> Doubles(MCUnits[n], Fractions[j])]])
    \o [j \in DOMAIN Words |-> Keys(Words[j])]
    \o <<<< >>,
         <<Scal("string", "text", "none", 0)>>,
         <<Scal("range", <<1, 3>>, "none", 0)>>, <<Scal("range", <<3, 1>>, "none", 0)>>,
         <<Scal("range", <<2, 14>>, "none", 0)>>,
         <<Scal("int", 0, "none", 0), Scal("range", <<2, 3>>, "none", 1)>>,
         <<Scal("int", 5, "ns", 0), Scal("double", 15, "us", 1)>>,
         <<Scal("int", 5, "none", 0), Scal("key", "a", "none", 1)>>,
         <<Scal("int", 5, "none", 2)>>, <<Scal("key", "a", "none", 1)>>,
         <<Scal("int", 5, "none", 0), Scal("int", 6, "none", 2)>>>>
Setting(in, name, l) == [in |-> in, kind |-> "config", name |-> name, scal |-> l]
Block(in, name, l) == [in |-> in, kind |-> "block", name |-> name, scal |-> l]

(* Two modules of a crate, the first with a block in it.                   *)
Modules2(p, v) ==
    <<Block(0, "m", p), Setting(1, "y", Keys(<<"b">>)), Setting(1, "z", Ints("none", v)),
      Block(1, "n", << >>), Setting(4, "y", Keys(<<"a">>)), Block(0, "m", << >>)>>
------------------------------------------------------------------------------
Number1(get, name, u, lo, hi, signed) ==
    [get |-> get, name |-> name, unit |-> u, lo |-> lo, hi |-> hi, signed |-> signed]
Number2(get, name, n, u, lo, hi, signed, codes, into) ==
    [get |-> get, name |-> name, num |-> n, unit |-> u, lo |-> lo, hi |-> hi,
     signed |-> signed, codes |-> codes, into_unsigned |-> into]
Choice(get, name, n, l) == [get |-> get, name |-> name, num |-> n, list |-> l]
AboutX ==
    {Number1("int", "x", u, r[1], r[2], r[3]) :
       u \in {"none", "ns", "us", "B", "KiB"},
       r \in {<<0, 2047, TRUE>>, <<-2, 6, TRUE>>, <<0, 6, FALSE>>, <<1, 2047, FALSE>>}}
    \cup {Number1("double", "x", u, r[1], r[2], TRUE) :
            u \in {"none", "ns", "us", "KiB"}, r \in {<<0, 2000>>, <<-1, 1>>}}
    \cup {Number2("ints", "x", n, u, r[1], r[2], r[3], r[4], r[5]) :
            n \in 1..3, u \in {"none", "ns", "us", "KiB"},
            r \in {<<0, 15, TRUE, 16, TRUE>>, <<-7, 7, TRUE, 16, FALSE>>,
                   <<0, 15, FALSE, 16, TRUE>>, <<-15, 15, TRUE, 16, TRUE>>,
                   <<-2048, 2047, TRUE, 4096, FALSE>>}}
    \cup {Number2("doubles", "x", n, u, -1, 2000, TRUE, 4096, FALSE) :
            n \in 1..2, u \in {"none", "ns", "us", "KiB"}}
    \cup {Choice("keyword", "x", 1, l) : l \in {<<"a", "b">>, << >>}}
    \cup {Choice("keywords", "x", n, l) : n \in 1..2, l \in {<<"a", "c">>, << >>}}
    \cup {Choice("flex", "x", n, l) :
            n \in 1..2, l \in {<<"a", "none", "b", "c", "none">>, <<"a", "none", "c">>,
                               <<"a", "b">>, <<"none", "a">>}}
    \cup {[get |-> "string", name |-> "x"]}
    \cup {[get |-> "bitmask", name |-> "x", first |-> f, last |-> l] :
            f \in {0, 2}, l \in {2, 11}}
    \cup {[get |-> "block", name |-> "any"]}
AboutModules ==
    {Number1("int", "z", "none", 0, 7, TRUE),
     Number2("ints", "z", 2, "none", 0, 7, TRUE, 16, TRUE),
     Choice("keyword", "y", 1, <<"a", "b">>)}
    \cup {[get |-> "param", type |-> t[1], index |-> t[2]] :
            t \in {<<"int", 1>>, <<"int", 2>>, <<"key", 0>>, <<"string", 0>>}}
    \cup {[get |-> "block", name |-> b] : b \in {"m", "n", "any"}}
ByGetter(asks) ==
    LET by(g) == {r \in asks : r.get = g} IN
    [int |-> by("int"), double |-> by("double"), ints |-> by("ints"),
     doubles |-> by("doubles"), keyword |-> by("keyword"),
     keywords |-> by("keywords"), flex |-> by("flex"),
     string |-> by("string"), bitmask |-> by("bitmask"),
     param |-> by("param"), block |-> by("block")]
AskedX == ByGetter(AboutX)
AskedModules == ByGetter(AboutModules)
ModuleTrees ==
    <<Modules2(<<Scal("key", "a", "none", 0), Scal("int", 3, "none", 1)>>, <<3>>),
      Modules2(<<Scal("string", "text", "none", 1), Scal("int", 3, "none", 2)>>, <<3, 4>>)>>
MCTrees == [n \in DOMAIN MCValues |-> <<Setting(0, "x", MCValues[n])>>] \o ModuleTrees
MCUses ==
    [n \in DOMAIN MCTrees |->
       [tree |-> MCTrees[n], asks |-> IF n \in DOMAIN MCValues THEN AskedX ELSE AskedModules]]
=============================================================================
