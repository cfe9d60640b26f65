------------------------------ MODULE ConfigPack ------------------------------
(***************************************************************************)
(* The scalars of a configuration item as pack_scalar_list packs them, in  *)
(* runs of clones and of different scalars; for snippets from a client and *)
(* for the dump the server sends.                                          *)
(***************************************************************************)
EXTENDS Integers, Sequences, SequencesExt

CONSTANTS
    RawMax,  \* announced length of the longest raw run: 128
    DupMax   \* longest run of clones: 129

ASSUME PackAssumption == RawMax \in Nat \ {0, 1} /\ DupMax \in Nat \ {0, 1}

Same(a, b) == a.t = b.t /\ a.v = b.v        \* scalar_are_equal

(* Length of the run of clones with consecutive indices from k on. *)
Clones(l, k) ==
    LET ok == {n \in 2..DupMax :
                 /\ k + n - 1 <= Len(l)
                 /\ \A j \in k..(k + n - 2) :
                      Same(l[k], l[j + 1]) /\ l[j + 1].i = l[j].i + 1}
    IN  IF ok = {} THEN 1 ELSE CHOOSE n \in ok : \A o \in ok : o <= n

(* Scalars of a raw run: up to one whose successor equals it.             *)
RawLen(l, k) ==
    LET ends == {j \in k..Len(l) : j = Len(l) \/ Same(l[j], l[j + 1])}
    IN  (CHOOSE j \in ends : \A o \in ends : j <= o) - k + 1

(* What a run of different scalars announces; one that reaches the limit   *)
(* announces its last scalar and leaves it out.                            *)
Announces(l, k) == IF RawLen(l, k) < RawMax THEN RawLen(l, k) ELSE RawMax
Carried(n) == IF n < RawMax THEN n ELSE RawMax - 1

Runs(l, first) ==                          \* pack_scalar_list
    LET from[k \in 1..(Len(l) + 1)] ==
          IF k > Len(l) THEN << >>
          ELSE IF Clones(l, k) > 1
          THEN <<[tok |-> "dup", n |-> Clones(l, k)], [tok |-> "scalar", s |-> l[k]]>>
                 \o from[k + Clones(l, k)]
          ELSE LET n == Announces(l, k) IN
               <<[tok |-> "raw", n |-> n]>>
                 \o [j \in 1..Carried(n) |-> [tok |-> "scalar", s |-> l[k + j - 1]]]
                 \o from[k + n]
    IN from[first]
=============================================================================
