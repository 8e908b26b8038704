-------------------------- MODULE MCComputeInstance --------------------------
(***************************************************************************)
(* ComputeInstance for TLC: two boot volumes, one replacing the other, on   *)
(* a full page, and three block volumes over two pages. The sizes are       *)
(* distinct powers of two, so that a total tells which volumes it covers.   *)
(***************************************************************************)
EXTENDS ComputeInstance

CONSTANTS b1, b2, v1, v2, v3

MCListing    == [k \in {"boot", "block"} |-> IF k = "boot" THEN <<b1, b2>> ELSE <<v1, v2, v3>>]
MCPageSize   == 2
MCSize       == [v \in {b1, b2, v1, v2, v3} |-> CASE v = b1 -> 1 [] v = b2 -> 2
                      [] v = v1 -> 4 [] v = v2 -> 8 [] v = v3 -> 16]
MCMaxChanges == 2
==============================================================================
