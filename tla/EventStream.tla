----------------------------- MODULE EventStream ------------------------------
(***************************************************************************)
(* What the readout of a crate promises to the experiment, without saying  *)
(* how: the electronics accept events outside the dead time; a readout     *)
(* cycle fixes a batch, the events (lo, hi]; the dead time is given back   *)
(* only when all accepted events belong to a batch; and what a good cycle  *)
(* offers is the whole batch, in order, for every module. A cycle that     *)
(* does not end well drops its batch, and a re-initialisation skips to the *)
(* present: those are the only ways to lose events.                        *)
(***************************************************************************)
EXTENDS Integers, Sequences

CONSTANT Members   \* the modules whose data a batch consists of

VARIABLES
    acc,    \* events accepted so far
    dead,   \* the dead time is on
    lo, hi, \* the batch of the current cycle is the events lo+1 .. hi
    offer   \* what the cycle hands out per module, or Nothing

Nothing == << >>
esVars == <<acc, dead, lo, hi, offer>>

Batch == [m \in Members |-> [k \in 1..(hi - lo) |-> lo + k]]

Init == /\ acc = 0 /\ dead = FALSE /\ lo = 0 /\ hi = 0 /\ offer = Nothing

Accept == /\ ~dead /\ acc' = acc + 1
          /\ UNCHANGED <<dead, lo, hi, offer>>

(* A trigger is for events that are in no batch yet. *)
Trigger == /\ ~dead /\ acc > hi /\ dead' = TRUE
           /\ UNCHANGED <<acc, lo, hi, offer>>

(* The batch is fixed inside the dead time. *)
Latch == /\ dead /\ hi' = acc
         /\ UNCHANGED <<acc, dead, lo, offer>>

Release == /\ dead /\ hi = acc /\ dead' = FALSE
           /\ UNCHANGED <<acc, lo, hi, offer>>

Offer == /\ offer = Nothing /\ offer' = Batch
         /\ UNCHANGED <<acc, dead, lo, hi>>

(* The cycle is over; what was not offered is lost. *)
Close == /\ lo' = hi /\ offer' = Nothing
         /\ UNCHANGED <<acc, dead, hi>>
Withdraw == /\ offer' = Nothing
            /\ UNCHANGED <<acc, dead, lo, hi>>

Reinit == /\ offer = Nothing /\ lo' = acc /\ hi' = acc
          /\ UNCHANGED <<acc, dead, offer>>

Next == \/ Accept \/ Trigger \/ Latch \/ Release
        \/ Offer \/ Close \/ Withdraw \/ Reinit

Spec == Init /\ [][Next]_esVars

(* The batch is well formed. *)
BatchOK == lo <= hi /\ hi <= acc
=============================================================================
