---------------------------- MODULE Sis3820Scaler ----------------------------
(***************************************************************************)
(* The driver of the SIS 3820 scaler with latching: a copy of the enabled  *)
(* channels goes to its FIFO with every trigger, which it counts. A header *)
(* of the driver says how many of them are in the buffer.                  *)
(***************************************************************************)
EXTENDS Integers, Sequences

CONSTANTS
    Channels,  \* enabled channels
    Room       \* words of the event buffer

Word(k, n, id) == [k |-> k, n |-> n, id |-> id]
DmaFiller == Word("filler", 0, 0)

(* The copy of a trigger has no mark where it begins; "header" names its   *)
(* first channel.                                                          *)
Words(id) == [n \in 1..Channels |-> Word(IF n = 1 THEN "header" ELSE "datum", n, id)]
Front(diff) == Word("front", diff, 0)

(* sis_3820_scaler_init_fast: after key_reset, acq_count is read.          *)
InitFast == [ec |-> 0, seen |-> 0]

(* sis_3820_scaler_readout_dt                                              *)
ReadoutDt(m, hw) == [m EXCEPT !.ec = hw]

(* sis_3820_scaler_readout: exactly the words of diff triggers. For an     *)
(* MBLT they are aligned, with pad fillers, and even in number.            *)
ExactNumber(n, fifo) ==
    CASE Len(fifo) < n -> {"missing"}
      [] Len(fifo) > n -> {"too_much"}
      [] OTHER -> {}

Fillers(n) == [j \in 1..n |-> DmaFiller]
Aligned(mode, fifo, pad) ==
    IF mode # "mblt" THEN fifo ELSE Fillers(pad) \o fifo \o Fillers(Len(fifo) % 2)

Read(mode, fifo, diff, pad) ==
    LET n == diff * Channels
        words == <<Front(diff)>> \o Aligned(mode, fifo, pad)
        res == IF n >= Room THEN {"too_much"}
               ELSE IF ExactNumber(n, fifo) # {} THEN ExactNumber(n, fifo)
               ELSE IF Len(words) > Room THEN {"too_much"} ELSE {}
    IN [out |-> IF res = {} THEN words ELSE << >>,
        rest |-> IF res = {} THEN << >> ELSE fifo, res |-> res]

(* sis_3820_scaler_parse_data: the number of words is that of the header,  *)
(* and, in the 24-bit format, they are of enabled channels. Fillers are    *)
(* words here too.                                                         *)
Parse(b) ==
    CASE b = << >> -> {"missing"}
      [] \/ b # << >> /\ Len(b) # 1 + b[1].n * Channels
         \/ \E j \in 2..Len(b) : b[j].n \notin 1..Channels -> {"corrupt"}
      [] OTHER -> {}
=============================================================================
