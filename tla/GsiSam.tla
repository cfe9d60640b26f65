-------------------------------- MODULE GsiSam --------------------------------
(***************************************************************************)
(* The driver of the GSI SAM5 with Siderem or Tacquila cards on its two    *)
(* GTB busses. Each bus has a buffer of one event with two flags, one that *)
(* the trigger has come and one that the data are there; the driver clears *)
(* both, the first in the dead time and the second after the readout. What *)
(* comes before that waits in the cards. Every event carries a local       *)
(* number.                                                                 *)
(***************************************************************************)
EXTENDS Integers, Sequences, SequencesExt

CONSTANTS
    NumberMod,  \* width of the local number, 16 in the code
    Cards,      \* the cards of a bus
    Room        \* words of the event buffer

Clients == 0..1  \* the busses

Word(k, g, card, n, c, id) ==
    [k |-> k, g |-> g, card |-> card, n |-> n, c |-> c, id |-> id]
DmaFiller == Word("filler", 0, 0, 0, 0, 0)

(* An event with the local number c: a header for each Siderem, with n     *)
(* data, but one for the whole bus of Tacquila, where a card also has the  *)
(* time of its stop.                                                       *)
Words(type, c, n, id) ==
    LET lec == c % NumberMod
        data(g, card, k) == [j \in 1..k |-> Word("datum", g, card, j, 0, id)]
        ofCard(g, card) ==
            IF type = "siderem"
            THEN <<Word("header", g, card, n, lec, id)>> \o data(g, card, n)
            ELSE data(g, card, n + 1)
        bus(g) ==
            (IF type = "siderem" THEN << >>
             ELSE <<Word("header", g, 0, Cards * (n + 1), lec, id)>>)
              \o FlattenSeq([card \in 1..Cards |-> ofCard(g, card)])
    IN bus(0) \o bus(1)

\* gsi_siderem_crate_init_slow, gsi_tacquila_crate_init_slow
InitSlow(ec) == [ec |-> ec, seen |-> ec, lec |-> [g \in Clients |-> 0]]

OfBus(fifo, g) == SelectSeq(fifo, LAMBDA w : w.g = g)
Frame(fifo, g) ==
    LET w == OfBus(fifo, g) IN SelectSeq(w, LAMBDA x : x.id = w[1].id)

(* gsi_sam_readout_dt: all busses must have an event, the counter is the   *)
(* driver's own.                                                           *)
Ready(fifo) == \A g \in Clients : OfBus(fifo, g) # << >>
ReadoutDt(m, fifo) == IF Ready(fifo) THEN [m EXCEPT !.ec = @ + 1] ELSE m

(* gsi_sam_readout, pad[g] words before a long 64-bit transfer of bus g    *)
Read(m, fifo, pad) ==
    LET read == FlattenSeq([g \in 1..2 |->
                    [j \in 1..pad[g - 1] |-> DmaFiller] \o Frame(fifo, g - 1)])
        isRead(w) == \E j \in DOMAIN read : read[j] = w
    IN IF Len(read) > Room
       THEN [out |-> << >>, rest |-> fifo, res |-> {"too_much"}, m |-> m]
       ELSE [out |-> read, rest |-> SelectSeq(fifo, LAMBDA w : ~isRead(w)),
             res |-> {}, m |-> m]

-----------------------------------------------------------------------------
(* The parsers of the clients take the words of their bus from the front   *)
(* of b, and are called for all busses whatever the result.                *)
IsHeader(w, g, lec) == w.k = "header" /\ w.g = g /\ w.c = lec

(* parse_data of the Siderem: a header for each card, but not of which. A  *)
(* number of words past the end of the buffer ends the program.            *)
SideremCard(s, g, lec) ==
    IF s.res # {} THEN s
    ELSE IF s.b = << >> \/ ~IsHeader(s.b[1], g, lec)
    THEN [s EXCEPT !.res = {"corrupt"}]
    ELSE IF s.b[1].n + 1 > Len(s.b) THEN [s EXCEPT !.res = {"die"}]
    ELSE [s EXCEPT !.b = SubSeq(@, s.b[1].n + 2, Len(@))]

Siderem(b, g, lec) ==
    LET s == FoldLeft(LAMBDA t, card : SideremCard(t, g, lec),
                      [b |-> b, res |-> {}], [card \in 1..Cards |-> card])
    IN [b |-> s.b, res |-> s.res,
        lec |-> IF s.res = {} THEN (lec + 1) % NumberMod ELSE lec]

(* parse_data of the Tacquila: all cards, each in one piece; the number    *)
(* goes on in any case.                                                    *)
Runs(d) == {j \in DOMAIN d : j = 1 \/ d[j - 1].card # d[j].card}
Tacquila(b, g, lec) ==
    LET next == (lec + 1) % NumberMod
        n == b[1].n
        d == SubSeq(b, 2, n + 1)
        whole == /\ \A j \in DOMAIN d : d[j].k = "datum"
                 /\ \A i, j \in Runs(d) : d[i].card = d[j].card => i = j
                 /\ {d[j].card : j \in DOMAIN d} = 1..Cards
    IN IF b = << >> THEN [b |-> b, res |-> {"die"}, lec |-> next]
       ELSE IF ~IsHeader(b[1], g, lec) \/ Len(b) - 1 < n
       THEN [b |-> SubSeq(b, 2, Len(b)), res |-> {"corrupt"}, lec |-> next]
       ELSE [b |-> SubSeq(b, n + 2, Len(b)), lec |-> next,
             res |-> IF whole THEN {} ELSE {"corrupt"}]

(* gsi_sam_parse_data: one filler before each bus, nothing after the last. *)
Parse(type, m, b) ==
    LET bus(s, g) ==
            LET rest == IF s.b # << >> /\ s.b[1].k = "filler" THEN Tail(s.b) ELSE s.b
                p == IF type = "siderem" THEN Siderem(rest, g, s.m.lec[g])
                     ELSE Tacquila(rest, g, s.m.lec[g])
            IN [b |-> p.b, res |-> s.res \cup p.res, m |-> [s.m EXCEPT !.lec[g] = p.lec]]
        end == FoldLeft(bus, [b |-> b, res |-> {}, m |-> m], <<0, 1>>)
    IN [m |-> end.m, res |-> IF end.res = {} /\ end.b # << >> THEN {"too_much"}
                             ELSE end.res]
=============================================================================
