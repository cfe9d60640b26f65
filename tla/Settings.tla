------------------------------ MODULE Settings ------------------------------
(***************************************************************************)
(* How a driver passes the settings of its block on. A module is           *)
(*   my   what the driver keeps in its structure ("my_..."), and           *)
(*   reg  what has been written to the hardware since it was reset,        *)
(* each a function. Of a value only this is kept: the settings (and fields *)
(* of the driver) that it was computed from, and what they were. So two    *)
(* registers are equal if the code must have computed the same for them.   *)
(* Registers that are always written, and with the same constant, are left *)
(* out.                                                                    *)
(***************************************************************************)
EXTENDS TLC

Unplugged == [my |-> << >>, reg |-> << >>]

Content(m, c, from) == [x \in from |-> IF x \in DOMAIN c THEN c[x] ELSE m.my[x]]
Computed(m, c, table) == [n \in DOMAIN table |-> Content(m, c, table[n])]

Keep(m, c, table) == [m EXCEPT !.my = Computed(m, c, table) @@ @]
Write(m, c, table) == [m EXCEPT !.reg = Computed(m, c, table) @@ @]
Reset(m) == [m EXCEPT !.reg = << >>]

(* MAP_WRITE in a branch                                                   *)
WriteIf(cond, m, c, table) == IF cond THEN Write(m, c, table) ELSE m

On(c, x) == c[x] = 1
=============================================================================
