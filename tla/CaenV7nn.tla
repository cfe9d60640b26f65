------------------------------ MODULE CaenV7nn ------------------------------
(***************************************************************************)
(* The driver of the CAEN V775, V785, V792 and V965: how the words of the  *)
(* module's output buffer are read, and what the parser accepts. An event  *)
(* is a header with the number of data, the data, and an end of block with *)
(* the event counter. Words that say "not valid" follow the last one.      *)
(***************************************************************************)
EXTENDS Integers, Sequences, SequencesExt

CONSTANTS
    CounterMod,  \* COUNTER_MASK + 1, 2^24 in the code
    CutOff,      \* 1e4 in the code
    Channels,    \* number_of_channels
    Room         \* words of the event buffer

Value(c) == c % CounterMod  \* COUNTER_VALUE

Word(k, n, c, id) == [k |-> k, n |-> n, c |-> c, id |-> id]
NotValid == Word("notvalid", 0, 0, 0)
DmaFiller == Word("filler", 0, 0, 0)

(* After a reset the counter reads all ones, so that the first event has   *)
(* counter 0.                                                              *)
ResetCounter == CounterMod - 1

(* The words of event id with n data and the counter c. A module that does *)
(* not include empty events writes nothing if there are no data.           *)
Words(c, n, id, incl) ==
    IF n = 0 /\ ~incl THEN << >>
    ELSE <<Word("header", n, 0, id)>> \o [j \in 1..n |-> Word("datum", j, 0, id)]
           \o <<Word("eob", 0, Value(c), id)>>

(* caen_v7nn_init_slow: the counter is reset and read back.                *)
InitSlow == [ec |-> ResetCounter, parse |-> ResetCounter, seen |-> ResetCounter]

(* caen_v7nn_readout_dt                                                    *)
ReadoutDt(m, hw) == [m EXCEPT !.ec = hw]

-----------------------------------------------------------------------------
(* caen_v7nn_readout, word by word. left counts what the header announced, *)
(* events the ends of block. With header, the next word must be one.       *)
Stop(s, result) == [s EXCEPT !.done = TRUE, !.res = @ \cup result]

ReadHeader(s, w) ==
    IF w.k # "header" THEN Stop(s, {"corrupt"})
    ELSE IF Len(s.out) + w.n + 2 > Room THEN Stop(s, {"too_much"})
    ELSE [s EXCEPT !.left = w.n + 1, !.header = FALSE]

\* Only the end of block of the last event is compared with the counter.
ReadRest(s, m, diff, w) ==
    CASE s.left = 0 \/ w.k \notin {"datum", "eob"} -> Stop(s, {"corrupt"})
      [] s.left > 0 /\ w.k = "datum" -> [s EXCEPT !.left = @ - 1]
      [] s.left > 1 /\ w.k = "eob" -> Stop(s, {"corrupt"})
      [] s.left = 1 /\ w.k = "eob" ->
           LET t == [s EXCEPT !.events = @ + 1, !.header = TRUE, !.left = 0] IN
           IF t.events # diff THEN t
           ELSE IF w.c # m.ec THEN Stop(t, {"corrupt"}) ELSE Stop(t, {})

ReadWord(s, m, diff, w) ==
    IF s.done THEN s
    ELSE IF Len(s.out) = Room THEN Stop([s EXCEPT !.taken = @ + 1], {"too_much"})
    ELSE LET t == [s EXCEPT !.out = Append(@, w), !.taken = @ + 1] IN
         IF t.header THEN ReadHeader(t, w) ELSE ReadRest(t, m, diff, w)

(* What is not in the buffer when it is empty does not come before         *)
(* NO_DATA_TIMEOUT.                                                        *)
ReadNoBlt(m, fifo, diff) ==
    LET s0 == [out |-> << >>, header |-> TRUE, left |-> 0, events |-> 0,
               taken |-> 0, done |-> FALSE, res |-> {}]
        s == FoldLeft(LAMBDA x, w : ReadWord(x, m, diff, w), s0, fifo)
    IN [out |-> s.out, rest |-> SubSeq(fifo, s.taken + 1, Len(fifo)),
        res |-> IF s.done THEN s.res ELSE {"missing"}]

(* The block transfer asks for what the events can have at most. It ends   *)
(* with a bus error, or goes on over words that are not valid, one of      *)
(* which is there by asking for one more. pad words align the destination. *)
ReadBlt(berr, fifo, diff, pad) ==
    LET asked == diff * (Channels + 2)
        n == IF berr THEN asked ELSE asked + 1
        got == SubSeq(fifo, 1, IF n < Len(fifo) THEN n ELSE Len(fifo))
        fill == [j \in 1..pad |-> DmaFiller]
    IN IF pad + asked > Room
       THEN [out |-> fill, rest |-> fifo, res |-> {"too_much"}]
       ELSE [out |-> fill \o got,
             rest |-> SubSeq(fifo, Len(got) + 1, Len(fifo)),
             res |-> IF ~berr /\ Len(got) = n THEN {"corrupt"} ELSE {}]

Read(mode, m, fifo, diff, pad) ==
    IF mode = "noblt" THEN ReadNoBlt(m, fifo, diff)
    ELSE ReadBlt(mode = "berr", fifo, diff, pad)

(* caen_v7nn_readout_shadow without block transfers: all there is. A word  *)
(* that has no place is lost. The last end of block tells the counter.     *)
ReadShadow(m, buf, fifo) ==
    LET fits == IF Len(fifo) <= Room - Len(buf) THEN Len(fifo) ELSE Room - Len(buf)
        all == buf \o SubSeq(fifo, 1, fits)
    IN [out |-> all, rest |-> SubSeq(fifo, fits + 2, Len(fifo)),
        m |-> IF all # << >> /\ Last(all).k = "eob"
              THEN [m EXCEPT !.seen = Last(all).c] ELSE m,
        res |-> IF fits < Len(fifo) THEN {"too_much"} ELSE {}]

-----------------------------------------------------------------------------
(* caen_v7nn_parse_data: a counter must lie between that of the event      *)
(* before and that of the crate. There is no sign, hence the cut-off.      *)
NotBetween(prev, c, ms) == Value(prev - c) < CutOff \/ Value(c - ms) < CutOff

RECURSIVE ParseFrom(_, _, _, _)
ParseFrom(b, k, prev, ms) ==
    IF k > Len(b) THEN [parse |-> prev, res |-> {}]
    ELSE LET e == k + b[k].n + 1 IN
         IF b[k].k # "header" THEN [parse |-> prev, res |-> {"corrupt"}]
         ELSE IF e > Len(b) THEN [parse |-> prev, res |-> {"missing"}]
         ELSE IF b[e].k # "eob" \/ NotBetween(prev, b[e].c, ms)
         THEN [parse |-> prev, res |-> {"corrupt"}]
         ELSE ParseFrom(b, e + 1, b[e].c, ms)

Parse(m, b, ms) ==
    LET first == SelectInSeq(b, LAMBDA w : w.k # "filler")
        p == ParseFrom(b, IF first = 0 THEN Len(b) + 1 ELSE first, m.parse, ms)
    IN [m |-> [m EXCEPT !.parse = p.parse], res |-> p.res]
=============================================================================
