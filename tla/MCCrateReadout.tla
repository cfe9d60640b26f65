--------------------------- MODULE MCCrateReadout ----------------------------
(***************************************************************************)
(* CrateReadout for TLC: that a crate implements EventStream.              *)
(***************************************************************************)
EXTENDS CrateReadoutInv

(* The batch is on offer from the end of a good crate_readout until        *)
(* crate_readout_finalize moves counter->prev on.                          *)
Offering == rpc = "fin" /\ state = "READY" /\ ~Again
Stream == INSTANCE EventStream WITH
            Members <- Waited, acc <- ms, dead <- dt, lo <- cprev, hi <- ctr,
            offer <- IF Offering THEN [m \in Waited |-> eb[m]] ELSE << >>

(* The readout of a crate keeps the promises of EventStream: the threads,  *)
(* buffers and counters of crate.c never give the dead time back before    *)
(* the accepted events are in a batch, never hand out a partial batch, and *)
(* lose events only in failed cycles and re-initialisations.               *)
ImplementsEventStream == Stream!Spec
=============================================================================
