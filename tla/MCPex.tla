-------------------------------- MODULE MCPex --------------------------------
(* The crates for which TLC checks PexToken: a chain of each kind on its   *)
(* own, and two chains on one board.                                       *)
EXTENDS PexToken

MCCrates == [0..0 -> Kinds] \cup {[s \in 0..1 |-> IF s = 0 THEN "ctdc" ELSE "tamex"],
                                  [s \in 0..1 |-> IF s = 0 THEN "tamex" ELSE "febex"]}
=============================================================================
