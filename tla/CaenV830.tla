------------------------------ MODULE CaenV830 ------------------------------
(***************************************************************************)
(* The driver of the CAEN V830 scaler. An event in its buffer is a header  *)
(* with the low bits of the trigger number and the number of data, then    *)
(* one datum for each enabled channel: its number and 26 bits of the       *)
(* value, or all 32 bits of it.                                            *)
(***************************************************************************)
EXTENDS Integers, Sequences, SequencesExt, FiniteSets

CONSTANTS
    CounterMod,  \* 2^32 in the code
    NumberMod,   \* 2^16 in the code: the trigger number of the header
    Channels,    \* enabled channels
    Geo,         \* the number of the board
    Room         \* words of the event buffer

(* Every word has bits at the places of the number of the board, of the    *)
(* number of data and of the trigger number, whatever they mean in it.     *)
Word(k, top, n, c, id) == [k |-> k, top |-> top, n |-> n, c |-> c, id |-> id]
DmaFiller == Word("filler", 0, 0, 0, 0)

(* The header has the trigger number from before it is counted. Data have  *)
(* some value v; the topmost bits are the number of the channel, or with   *)
(* bits = 32 those of the value, which are then any bits.                  *)
Values(bits) == [top : IF bits = 32 THEN {0, Geo} ELSE {0}, n : {0, Channels}]
Words(bits, c, v, id) ==
    <<Word("header", Geo, Channels, (c - 1) % NumberMod, id)>>
        \o [j \in 1..Channels |->
               Word("datum", IF bits = 32 THEN v.top ELSE j, v.n, id % NumberMod, id)]

\* caen_v8n0_init_slow resets the counter, caen_v830_init_fast reads it.
InitFast == [ec |-> 0, parse |-> 0, seen |-> 0]

(* caen_v830_readout_dt                                                    *)
ReadoutDt(m, hw) == [m EXCEPT !.ec = hw]

-----------------------------------------------------------------------------
(* caen_v830_readout: more events than expected are fine here; with less,  *)
(* or none at all before NO_DATA_TIMEOUT, there is an error, but what      *)
(* there is is read.                                                       *)
Events(fifo) == Cardinality({j \in DOMAIN fifo : fifo[j].k = "header"})
Enough(fifo, diff) == IF diff > Events(fifo) THEN {"counter"} ELSE {}

(* Without block transfers: diff times a word, taken for a header, and the *)
(* words it announces, whatever they are. An empty buffer gives fillers.   *)
RECURSIVE ReadEvents(_, _, _)
ReadEvents(out, fifo, diff) ==
    IF diff = 0 THEN [out |-> out, rest |-> fifo, res |-> {}]
    ELSE IF Len(out) = Room
    THEN [out |-> out, rest |-> fifo, res |-> {"too_much"}]
    ELSE LET h == IF fifo = << >> THEN DmaFiller ELSE fifo[1]
             body == [j \in 1..h.n |-> IF j + 1 <= Len(fifo) THEN fifo[j + 1]
                                       ELSE DmaFiller]
         IN IF Len(out) + 1 + h.n > Room
            THEN [out |-> Append(out, h), rest |-> SubSeq(fifo, 2, Len(fifo)),
                  res |-> {"too_much"}]
            ELSE ReadEvents(Append(out, h) \o body,
                            SubSeq(fifo, h.n + 2, Len(fifo)), diff - 1)

(* With them: as many words as the events should have, for an MBLT aligned *)
(* with pad fillers and an even number, and no look at how many have come. *)
(* After these there is what was in the memory, mem.                       *)
Rounded(mode, n) == IF mode = "mblt" THEN n + (n % 2) ELSE n
Fillers(mode, pad) == [j \in 1..(IF mode = "mblt" THEN pad ELSE 0) |-> DmaFiller]

ReadBlock(mode, fifo, diff, mem, pad) ==
    LET n == Rounded(mode, diff * (1 + Channels))
        front == Fillers(mode, pad)
    IN IF Len(front) + n > Room
       THEN [out |-> front, rest |-> fifo, res |-> {"too_much"}]
       ELSE [out |-> front \o [j \in 1..n |-> IF j <= Len(fifo) THEN fifo[j]
                                             ELSE IF j <= Len(mem) THEN mem[j]
                                             ELSE DmaFiller],
             rest |-> SubSeq(fifo, n + 1, Len(fifo)), res |-> {}]

Read(mode, fifo, diff, mem, pad) ==
    IF fifo = << >>
    THEN [out |-> << >>, rest |-> fifo, res |-> Enough(fifo, diff) \cup {"missing"}]
    ELSE LET r == IF mode = "noblt" THEN ReadEvents(<< >>, fifo, diff)
                  ELSE ReadBlock(mode, fifo, diff, mem, pad)
         IN [r EXCEPT !.res = @ \cup Enough(fifo, diff)]

-----------------------------------------------------------------------------
(* caen_v830_parse_data: trigger numbers in a row and data for as many     *)
(* words as the header says. The mark of a header is asked for only if the *)
(* word is of another board, so that a datum with the board's number in    *)
(* these bits passes for a header. Data of 26 bits have a channel at most  *)
(* once in an event, and no mark; those of 32 bits are not looked at.      *)
IsHeader(w) == w.k = "header" \/ w.top = Geo
AnyNumber(w, c) == TRUE
NextNumber(w, c) == w.c = c % NumberMod
BadData(bits, b, data) ==
    bits = 26 /\ \E j \in data : \/ b[j].k = "header"
                               \/ \E o \in data : o < j /\ b[o].top = b[j].top

RECURSIVE ParseFrom(_, _, _, _)
ParseFrom(bits, b, k, c) ==
    IF k > Len(b) THEN {}
    ELSE LET e == k + b[k].n IN
         IF ~IsHeader(b[k]) THEN {"corrupt"}
         ELSE IF ~NextNumber(b[k], c) THEN {"counter"}
         ELSE IF BadData(bits, b, {j \in (k + 1)..e : j <= Len(b)}) THEN {"corrupt"}
         ELSE IF e > Len(b) THEN {"missing"}
         ELSE ParseFrom(bits, b, e + 1, c + 1)

(* The fillers in front are passed over.                                   *)
Start(b) == LET first == SelectInSeq(b, LAMBDA w : w.k # "filler") IN
            IF first = 0 THEN Len(b) + 1 ELSE first

(* Whatever the result, the next buffer is to begin with the events after  *)
(* the present counter.                                                    *)
ParseAnew(bits, m, b) == [m |-> m, res |-> ParseFrom(bits, b, Start(b), m.parse)]
Parse(bits, m, b) ==
    [m |-> [m EXCEPT !.parse = m.ec], res |-> ParseFrom(bits, b, Start(b), m.parse)]

(* Where the parser has found a header in what it accepts.                 *)
RECURSIVE HeadersFrom(_, _)
HeadersFrom(b, k) ==
    IF k > Len(b) THEN {} ELSE {k} \cup HeadersFrom(b, k + b[k].n + 1)
HeaderPlaces(b) == HeadersFrom(b, Start(b))
=============================================================================
