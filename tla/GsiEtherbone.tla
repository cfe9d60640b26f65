----------------------------- MODULE GsiEtherbone -----------------------------
(***************************************************************************)
(* The driver of the White-Rabbit receivers Vetar and Pexaria, read        *)
(* directly. A trigger gives one timestamp in the FIFO, some time later.   *)
(* They have no counter of events: the driver adds up what it finds.       *)
(***************************************************************************)
EXTENDS Integers, Sequences

CONSTANTS
    CounterMod,  \* 2^32 in the code
    Room         \* timestamps the event buffer holds

Word(id) == [k |-> "header", id |-> id]
Words(id) == <<Word(id)>>

(* direct_init clears the FIFO and leaves the driver's counter alone.      *)
InitSlow(ec) == [ec |-> ec, num |-> 0, seen |-> ec]

(* gsi_etherbone_readout_dt, with num timestamps in the FIFO. The crate    *)
(* asks until its counter is reached, and they are added every time.       *)
ReadoutDt(m, num) == [m EXCEPT !.num = num, !.ec = (@ + num) % CounterMod]

(* gsi_etherbone_readout, direct_readout, write_ts: the number of words    *)
(* was found in the dead time.                                             *)
Read(m, fifo, diff) ==
    IF diff > Room THEN [out |-> << >>, rest |-> fifo, res |-> {"too_much"}]
    ELSE [out |-> SubSeq(fifo, 1, m.num),
          rest |-> SubSeq(fifo, m.num + 1, Len(fifo)), res |-> {}]

(* gsi_vetar_check_empty has yet to look at the FIFO.                      *)
CheckEmpty(mode, rest) == mode = "pexaria" /\ rest # << >>
=============================================================================
