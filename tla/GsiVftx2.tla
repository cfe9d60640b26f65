------------------------------ MODULE GsiVftx2 ------------------------------
(***************************************************************************)
(* The driver of the GSI VFTX2. The module has no event counter. It keeps  *)
(* one event in its FIFO, a header and the hits, and takes no other        *)
(* trigger until the readout allows it to.                                 *)
(***************************************************************************)
EXTENDS Integers, Sequences

CONSTANTS Room  \* words of the event buffer

Word(k, n, id) == [k |-> k, n |-> n, id |-> id]

(* The second header is the module's, the first that of the driver.        *)
Words(n, id) ==
    <<Word("header", 0, id)>> \o [j \in 1..n |-> Word("datum", j, id)]
Front(n) == Word("front", n, 0)

(* gsi_vftx2_create_ clears the mask of the counter, gsi_vftx2_init_fast   *)
(* reads the FIFO until it is empty.                                       *)
InitFast == [ec |-> 0, seen |-> 0]

(* gsi_vftx2_readout: after NO_DATA_TIMEOUT the event is missing; else     *)
(* everything there is is taken for it.                                    *)
Read(fifo) ==
    CASE fifo = << >> -> [out |-> << >>, rest |-> << >>, res |-> {"missing"}]
      [] Len(fifo) >= Room -> [out |-> << >>, rest |-> fifo, res |-> {"too_much"}]
      [] OTHER -> [out |-> <<Front(Len(fifo))>> \o fifo, rest |-> << >>, res |-> {}]

(* gsi_vftx2_parse_data: the words the first header counts are the second  *)
(* header and then nothing but hits.                                       *)
FirstIsHeader(b) == Len(b) > 1 /\ b[2].k = "header"
NoOtherHeader(b) == \A j \in 3..(b[1].n + 1) : j <= Len(b) => b[j].k = "datum"
Parse(b) ==
    CASE \/ b[1].k # "front"
         \/ b[1].n > 0 /\ ~FirstIsHeader(b)
         \/ ~NoOtherHeader(b) -> {"corrupt"}
      [] b[1].n > Len(b) - 1 -> {"missing"}
      [] OTHER -> {}
=============================================================================
