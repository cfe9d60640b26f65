------------------------------ MODULE MCConfig ------------------------------
EXTENDS ConfigSnippet, ConfigLoad, CrateCreate, MCData, MCGet

I(v, i) == [t |-> "int", v |-> v, i |-> i]
K(v, i) == [t |-> "key", v |-> v, i |-> i]

MCItems == {<<"top", "v">>, <<"top", "s">>, <<"top", "b">>, <<"b", "v">>,
            <<"top", "d">>, <<"d", "v">>}
MCBlocks == {"b", "d"}
MCStart == [p \in MCItems |->
              IF p = <<"top", "v">> THEN <<I(1, 0), I(1, 1), I(2, 2)>>
              ELSE IF p = <<"top", "s">> THEN <<K(1, 0)>>
              ELSE IF p = <<"top", "b">> THEN << >>
              ELSE IF p = <<"top", "d">> THEN <<I(1, 0), I(1, 1)>>
              ELSE <<I(1, 0), I(2, 1)>>]

Lists == {<<Empty>>, <<I(3, 0)>>, <<K(3, 0)>>, <<I(3, 1)>>,
          <<I(3, 0), I(3, 1)>>, <<I(3, 0), I(4, 1)>>,
          <<I(3, 0), I(3, 1), I(3, 2)>>, <<I(3, 0), I(4, 1), I(5, 2)>>,
          <<I(3, 0), I(3, 1), I(4, 2)>>}

Conf(name, l) == [kind |-> "config", name |-> name, scal |-> l, sub |-> << >>]
InBlock(name, l, sub) == [kind |-> "block", name |-> name, scal |-> l, sub |-> sub]
Confs == {Conf(n, l) : n \in {"v", "s"}, l \in Lists}
Short == {Conf("v", l) : l \in {<<Empty>>, <<I(4, 0)>>, <<I(4, 1)>>, <<K(3, 0)>>}}
           \cup {Conf("x", <<I(3, 0)>>), Conf("b", <<I(3, 0)>>)}
InBs == {InBlock("b", p, s) : p \in {<< >>, <<I(1, 0)>>},
                              s \in {<< >>} \cup {<<c>> : c \in Confs}}
InDs == {InBlock("d", <<I(1, 0), I(1, 1)>>, <<Conf("v", <<I(4, 1)>>)>>)}
MCSnippets == {<<c>> : c \in Confs \cup InBs}
                \cup {<<c, d>> : c \in Confs \cup InBs, d \in Short}
                \cup {<<c, d>> : c \in InDs, d \in Short}
------------------------------------------------------------------------------
Val(v, n) == [v |-> v, n |-> n]
Set(name, idx, vals) == [k |-> "set", name |-> name, idx |-> idx, vals |-> vals]
Open(name, p) == [k |-> "open", name |-> name,
                  params |-> [j \in 1..Len(p) |-> Scalar(j - 1, p[j])]]
Close == [k |-> "close"]
Incl(f) == [k |-> "include", name |-> f]

Sets(w) == {Set("a", -1, <<Val(w, 1)>>), Set("a", -1, <<Val(w, 2), Val("z", 1)>>),
            Set("a", -1, << >>), Set("a", 1, <<Val(w, 1)>>)}
Units(w) ==
    {<<s>> : s \in Sets(w)} \cup {<<Open("p", << >>), s, Close>> : s \in Sets(w)}
    \cup {<<Open("p", <<1>>), Set("a", -1, <<Val(w, 1)>>), Close>>,
          <<Open("p", << >>), Set("b", -1, <<Val(w, 1)>>), Close>>,
          <<Open("m", << >>), Set("b", -1, <<Val(w, 1)>>), Close>>,
          <<Open("m", << >>), Set("a", -1, <<Val(w, 1)>>), Close>>,
          <<Open("p", << >>), Open("p", << >>), Open("p", << >>)>>,
          <<[k |-> "barrier", name |-> "barrier"]>>,
          <<Close>>, <<Incl("inc")>>}
Texts(w) == {u \o v : u, v \in Units(w)}
ByFew == {<<Open("p", << >>), Set("a", -1, <<Val("d", 3)>>), Close>>,
          <<Open("m", << >>), Set("a", -1, <<Val("d", 1)>>), Close, Incl("inc")>>,
          <<Set("a", -1, <<Val("d", 3)>>), Incl("inc")>>}
Inc == <<Open("p", << >>), Set("a", 2, <<Val("i", 1)>>), Close>>

MCPrograms ==
    LET U == <<"user", "main">> D == <<"default", "main">> A == <<"default", "auto">>
        N == <<"user", "inc">>
        au == <<Set("a", -1, <<Val("x", 1)>>)>> IN
    {[f \in {U, D, A, N} |-> IF f = U THEN u ELSE IF f = D THEN d
                             ELSE IF f = A THEN au ELSE Inc] :
       u \in Texts("u"), d \in ByFew}
    \cup {[f \in {U, A} |-> IF f = U THEN u ELSE au] : u \in Texts("u")}
    \cup {[f \in {A} |-> au]}
MCAuto == [b \in {"m", "p"} |-> IF b = "m" THEN <<"auto">> ELSE << >>]

------------------------------------------------------------------------------
MCTagBlocks ==
    {[names |-> n, scaler |-> ""] : n \in {{"1"}, {"2"}, {"1", "2"}}}
    \cup {[names |-> {"1"}, scaler |-> "ms"], [names |-> {}, scaler |-> ""]}
Plain(t) == [type |-> t, scaler |-> "", multi |-> ""]
MCModuleBlocks ==
    {Plain(t) : t \in {"v7nn", "v1n90", "madc32", "mtdc32", "vftx2", "febex"}}
    \cup {[type |-> "vulom", scaler |-> "ms", multi |-> m] : m \in {"1", "Default"}}
MCPlaces == {<<"main", "a">>, <<"main", "b">>, <<"inc", "a">>}

VARIABLE part

OneCase == CHOOSE c \in Cases : c.call.what = "crates"
OneProgram == CHOOSE p \in Programs : Cardinality(DOMAIN p) = 1


MCInit == /\ part \in {"snippet", "load", "create", "answer", "get"}
          /\ part # "load" => files = OneProgram
          /\ SnipInit /\ LoadInit /\ CreateInit
          /\ IF part = "answer" THEN DataInit ELSE Case(OneCase, 506)
          /\ IF part = "get" THEN GetInit ELSE Use(1)
MCNext == \/ part = "snippet" /\ SnipNext
             /\ UNCHANGED <<part, loadVars, createVars, dataVars, getVars>>
          \/ part = "load" /\ LoadNext
             /\ UNCHANGED <<part, snipVars, createVars, dataVars, getVars>>
          \/ part = "create" /\ CreateNext
             /\ UNCHANGED <<part, snipVars, loadVars, dataVars, getVars>>
          \/ part = "answer" /\ DataNext
             /\ UNCHANGED <<part, snipVars, loadVars, createVars, getVars>>
          \/ part = "get" /\ GetNext
             /\ UNCHANGED <<part, snipVars, loadVars, createVars, dataVars>>
MCSpec == MCInit /\ [][MCNext]_<<part, snipVars, loadVars, createVars, dataVars, getVars>>
=============================================================================
