------------------------------ MODULE CaenV1n90 ------------------------------
(***************************************************************************)
(* The driver of the CAEN V1190 and V1290, which tell the number of words  *)
(* of each event in a FIFO of their own. An event is a global header with  *)
(* its number, for each TDC a header, measurements and a footer, and a     *)
(* global trailer. The counter mask of the module is 0, hence the crate    *)
(* does not wait for it.                                                   *)
(***************************************************************************)
EXTENDS Integers, Sequences, SequencesExt, FiniteSets

CONSTANTS
    NumberMod,  \* width of the number in the header, 2^22 in the code
    Depth,      \* events that make the event FIFO full, 1024
    Room        \* words of the event buffer

Word(k, n, c, id) == [k |-> k, n |-> n, c |-> c, id |-> id]

(* The words of an event with the number c, n measurements, in one TDC.    *)
Words(c, n, id) ==
    <<Word("header", 0, c % NumberMod, id), Word("tdc", 0, 0, id)>>
        \o [j \in 1..n |-> Word("datum", j, 0, id)]
        \o <<Word("footer", 0, 0, id), Word("trailer", 0, 0, id)>>

(* caen_v1n90_init_slow leaves was_full alone.                             *)
InitSlow(wasFull) ==
    [ec |-> 0, seen |-> 0, header |-> 0, expect |-> "header", full |-> wasFull]

(* Events with words in the buffer, each of which is in the event FIFO.    *)
Events(fifo) == Cardinality({fifo[j].id : j \in DOMAIN fifo})

(* caen_v1n90_readout_dt: without data, nothing is updated.                *)
ReadoutDt(m, hw, fifo) ==
    IF fifo = << >> THEN m
    ELSE [m EXCEPT !.ec = hw, !.full = Events(fifo) >= Depth]

-----------------------------------------------------------------------------
(* caen_v1n90_readout: the two numbers of events are compared with that of *)
(* the crate, and that of the first word with the one expected, which      *)
(* advances in any case.                                                   *)
Read(m, fifo, diff) ==
    LET full == IF m.full THEN {"too_much"} ELSE {}
        number == IF Events(fifo) # diff THEN {"counter"} ELSE {}
        first == IF fifo = << >> \/ fifo[1].c # m.header THEN {"corrupt"} ELSE {}
    IN IF Len(fifo) > Room
       THEN [out |-> << >>, rest |-> fifo, m |-> m,
             res |-> full \cup number \cup {"too_much"}]
       ELSE [out |-> fifo, rest |-> << >>, res |-> full \cup number \cup first,
             m |-> [m EXCEPT !.header = (@ + diff) % NumberMod]]

(* caen_v1n90_parse_data: the order of the words, remembered from one      *)
(* buffer to the next.                                                     *)
After(expect, w) ==
    CASE expect = "header" /\ w.k = "header"            -> "tdc"
      [] expect = "tdc" /\ w.k = "tdc"                  -> "data"
      [] expect = "data" /\ w.k \in {"datum", "error"}  -> "data"
      [] expect = "data" /\ w.k = "footer"              -> "more"
      [] expect = "more" /\ w.k = "tdc"                 -> "data"
      [] expect = "more" /\ w.k = "timetag"             -> "trailer"
      [] expect \in {"more", "trailer"} /\ w.k = "trailer" -> "header"
      [] OTHER                                          -> "corrupt"

Parse(m, b) ==
    LET word(s, w) == IF s.res # {} THEN s
                      ELSE LET e == After(s.m.expect, w) IN
                           IF e = "corrupt" THEN [s EXCEPT !.res = {"corrupt"}]
                           ELSE [s EXCEPT !.m.expect = e]
    IN FoldLeft(word, [m |-> m, res |-> {}], b)
=============================================================================
