---------------------------- MODULE MCClientCache ----------------------------
(***************************************************************************)
(* ClientCache for TLC: three workers and two regions, so that two workers  *)
(* compete for one region while the third uses the other. There is a client *)
(* more than there are regions, for a cache that makes one too many.        *)
(***************************************************************************)
EXTENDS ClientCache

CONSTANTS w1, w2, w3, r1, r2, c1, c2, c3

MCWorker == {w1, w2, w3}
MCRegion == {r1, r2}
MCClient == {c1, c2, c3}
==============================================================================
