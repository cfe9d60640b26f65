---------------------------- MODULE MesytecMxdc32 ----------------------------
(***************************************************************************)
(* The driver of the Mesytec MADC32, MQDC32, MTDC32, MDPP and VMMR8, whose *)
(* modules tell in the dead time how much there is to read. An event is a  *)
(* header with the number of data, the data, and an end of event with the  *)
(* event counter, from before this event is counted if the module is old.  *)
(***************************************************************************)
EXTENDS Integers, Sequences, SequencesExt

CONSTANTS
    CounterMod,  \* the width of COUNTER_VALUE, 2^30 in the code
    Room         \* words of the event buffer

Value(c) == c % CounterMod  \* COUNTER_VALUE

Word(k, n, c, id) == [k |-> k, n |-> n, c |-> c, id |-> id]
DmaFiller == Word("filler", 0, 0, 0)

(* The words of event id with n data, after which the counter is c. For    *)
(* 64-bit transfers a zero makes them even.                                *)
Words(c, n, id, old, mode) ==
    LET zero == IF mode = "mblt" /\ n % 2 = 1 THEN <<Word("zero", 0, 0, id)>>
                ELSE << >>
    IN <<Word("header", n + Len(zero), 0, id)>>
         \o [j \in 1..n |-> Word("datum", j, 0, id)] \o zero
         \o <<Word("eoe", 0, Value(IF old THEN c - 1 ELSE c), id)>>

\* Counters are reset in mesytec_mxdc32_init_fast and read in ..._post_init.
PostInit == [ec |-> 0, parse |-> 0, seen |-> 0, len |-> 0]

(* mesytec_mxdc32_readout_dt: what is to be read is settled here, so that  *)
(* events after an early end of the dead time are for the next readout.    *)
ReadoutDt(m, hw, fifo) == [m EXCEPT !.ec = hw, !.len = Len(fifo)]

-----------------------------------------------------------------------------
(* mesytec_mxdc32_readout. A zero after the data is dropped with block     *)
(* transfers, which pad words align. The last word is to hold the counter, *)
(* whatever word it is.                                                    *)
EndCounter(m, old) == Value(IF old THEN m.ec - 1 ELSE m.ec)

Read(mode, m, fifo, old, pad) ==
    LET got == SubSeq(fifo, 1, m.len)
        data == IF mode # "noblt" /\ got # << >> /\ Last(got).k = "zero"
                THEN Front(got) ELSE got
        out == [j \in 1..pad |-> DmaFiller] \o data
    IN IF m.len = 0 THEN [out |-> << >>, rest |-> fifo, res |-> {}]
       ELSE IF m.len > Room
       THEN [out |-> << >>, rest |-> fifo, res |-> {"too_much"}]
       ELSE [out |-> out, rest |-> SubSeq(fifo, m.len + 1, Len(fifo)),
             res |-> IF Last(out).c # EndCounter(m, old) THEN {"counter"} ELSE {}]

(* mesytec_mxdc32_readout_shadow without block transfers: all there is, if *)
(* it fits. The last end of event tells the counter.                       *)
ReadShadow(m, buf, fifo, old) ==
    IF Len(fifo) > Room - Len(buf)
    THEN [out |-> buf, rest |-> fifo, m |-> m, res |-> {"too_much"}]
    ELSE LET w == Last(fifo) IN
         [out |-> buf \o fifo, rest |-> << >>, res |-> {},
          m |-> IF w.k = "eoe"
                THEN [m EXCEPT !.seen = Value(IF old THEN w.c + 1 ELSE w.c)] ELSE m]

-----------------------------------------------------------------------------
(* mesytec_mxdc32_parse_data: counters in a row, and data for as many      *)
(* words as the header says, the last of which may be a zero.              *)
IsDatum(b, j, e) == b[j].k = "datum" \/ (b[j].k = "zero" /\ j = e - 1)

AnyCounter(w, exp) == TRUE
NextCounter(w, exp) == w.c = Value(exp)

RECURSIVE ParseFrom(_, _, _)
ParseFrom(b, k, exp) ==
    IF k > Len(b) THEN {}
    ELSE LET e == k + b[k].n + 1 IN
         IF b[k].k # "header" THEN {"corrupt"}
         ELSE IF e > Len(b) THEN {"missing"}
         ELSE IF b[e].k # "eoe" \/ \E j \in (k + 1)..(e - 1) : ~IsDatum(b, j, e)
         THEN {"corrupt"}
         ELSE IF ~NextCounter(b[e], exp) THEN {"counter"}
         ELSE ParseFrom(b, e + 1, exp + 1)

(* Whatever the result, the next buffer is to begin with the event after   *)
(* the counter of readout_dt.                                              *)
Parse(m, b, old) ==
    LET first == SelectInSeq(b, LAMBDA w : w.k # "filler") IN
    [m |-> [m EXCEPT !.parse = m.ec],
     res |-> ParseFrom(b, IF first = 0 THEN Len(b) + 1 ELSE first,
                       IF old THEN m.parse ELSE m.parse + 1)]
=============================================================================
