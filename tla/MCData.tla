------------------------------- MODULE MCData -------------------------------
EXTENDS CtrlData

MCRegisters ==
    10 :> <<[ofs |-> 0, bits |-> 16, num |-> 2, step |-> 2],
            [ofs |-> 4, bits |-> 32, num |-> 1, step |-> 0]>>
    @@ 11 :> <<[ofs |-> 2, bits |-> 16, num |-> 1, step |-> 0]>>

Module(t, subs, map, words) == [type |-> t, subs |-> subs, map |-> map, words |-> words]
TheInfo == [events |-> 0, release |-> 1, acvt |-> 300, bytes |-> 4096, max |-> 70000]
CrateOf(name, pex, ms) == [name |-> name, info |-> TheInfo, modules |-> ms, pex |-> pex]
MCCrates ==
    {<< >>,
     <<CrateOf(<<65>>, FALSE, << >>)>>,
     <<CrateOf(<<65, 66>>, TRUE, <<Module(10, << >>, TRUE, 0), Module(1, << >>, FALSE, 0),
                                   Module(11, <<7, 8>>, TRUE, 2)>>),
       CrateOf(<<66>>, FALSE, <<Module(10, <<7>>, FALSE, 0)>>)>>}

Sc(t, v, i) == [t |-> t, v |-> v, i |-> i]
Num(n, i) == Sc("int", <<n, 0>>, i)
MCLists ==
    {<<Sc("empty", << >>, 0)>>,
     <<Num(1, 0), Num(1, 1), Num(1, 2), Num(1, 3)>>,
     <<Num(1, 0), Num(1, 1), Num(2, 2), Num(2, 3), Num(3, 4)>>,
     <<Sc("double", <<3, 2>>, 0), Sc("key", <<300>>, 1)>>,
     <<Sc("range", <<1, 7>>, 0), Num(5, 1), Num(5, 2)>>,
     <<Sc("string", <<65, 66>>, 0), Sc("string", <<65, 66>>, 1)>>,
     <<Num(1, 0), Num(2, 1), Num(3, 2), Num(4, 3)>>}
Item(kind, name, touched, l, sub) ==
    [kind |-> kind, name |-> name, touched |-> touched, scal |-> l, sub |-> sub]
Config1(l) == Item("config", 5, TRUE, l, << >>)
MCConfigs ==
    {<< >>} \cup {<<Config1(l)>> : l \in MCLists}
    \cup {<<Item("block", 300, TRUE, l, <<Config1(l2), Item("block", 1, FALSE, << >>, << >>)>>),
            Item("config", 6, FALSE, l2, << >>)>> : l, l2 \in MCLists}

R(o, b) == [ofs |-> o, bits |-> b, read |-> TRUE, value |-> 0]
W(o, b, v) == [ofs |-> o, bits |-> b, read |-> FALSE, value |-> v]
Offsets == {0, 2, 4, 257, 258, 65538, 65540}
MCAccess ==
    {<<R(o, b)>> : o \in Offsets, b \in {16, 32}}
    \cup {<<W(o, b, 500), R(o2, b)>> : o, o2 \in Offsets, b \in {16, 32}}
    \cup {<<R(o, 16), W(o2, 32, 70000), R(o2, 32)>> : o, o2 \in Offsets}
    \cup {<<W(0, 16, 9)>>}
    \cup {[k \in 1..n |-> R(2 * (k - 1), 16)] : n \in {254, 255, 256}}
    \cup {[k \in 1..n |-> W(65540 * (k % 2), 32, 1)] : n \in {56, 80}}
MCCalls ==
    {[what |-> "crates"]}
    \cup {[what |-> "info", crate |-> c] : c \in 0..2}
    \cup {[what |-> "regs", crate |-> c, module |-> m] : c \in 0..2, m \in 0..3}
    \cup {[what |-> "goc", crate |-> c, num |-> n, ofs |-> 8, id |-> 77] :
            c \in 0..1, n \in {0, 1, 3}}
    \cup {[what |-> "access", crate |-> c, module |-> m, list |-> l] :
            c \in {0, 2}, m \in {0, 1, 3}, l \in MCAccess}
MCCases ==
    {[server |-> [crates |-> s, config |-> << >>], call |-> c] : s \in MCCrates, c \in MCCalls}
    \cup {[server |-> [crates |-> << >>, config |-> s], call |-> [what |-> "config"]] :
            s \in MCConfigs}
=============================================================================
