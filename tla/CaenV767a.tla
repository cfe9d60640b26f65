------------------------------ MODULE CaenV767a ------------------------------
(***************************************************************************)
(* The driver of the CAEN V767A. An event is a header, the data, and an    *)
(* end of block with their number. One event is read, the module must then *)
(* be empty.                                                               *)
(***************************************************************************)
EXTENDS Integers, Sequences, SequencesExt

CONSTANTS Room  \* words of the event buffer

Word(k, n, c, id) == [k |-> k, n |-> n, c |-> c, id |-> id]

Words(c, n, id) ==
    <<Word("header", 0, c, id)>> \o [j \in 1..n |-> Word("datum", j, 0, id)]
        \o <<Word("eob", n, 0, id)>>

(* caen_v767a_init_fast clears the counter of the module, but not what the *)
(* driver has last read of it.                                             *)
InitFast(ec) == [ec |-> ec, seen |-> ec]

(* caen_v767a_readout_dt                                                   *)
ReadoutDt(m, hw) == [m EXCEPT !.ec = hw]

(* caen_v767a_readout, the set of its results: none while it waits for a   *)
(* word that does not come. What is neither a datum nor the end of block   *)
(* is passed over, and a wrong number of data goes to the log only. The    *)
(* event of the output is that of the header, which itself is left out.    *)
Read(m, fifo) ==
    LET eob == SelectInSeq(fifo, LAMBDA w : w.k = "eob")
        data == SelectSeq(SubSeq(fifo, 2, eob), LAMBDA w : w.k = "datum")
        rest == SubSeq(fifo, eob + 1, Len(fifo))
        with(res) == [out |-> <<Word("header", Len(data), 0, fifo[1].id)>> \o data,
                      rest |-> rest, res |-> res, m |-> m]
    IN IF fifo = << >> THEN {}
       ELSE IF fifo[1].k # "header" THEN {with({"die"})}
       ELSE IF eob = 0 THEN {}
       ELSE {with(IF Len(data) + 3 >= Room \/ rest # << >> THEN {"die"} ELSE {})}
=============================================================================
