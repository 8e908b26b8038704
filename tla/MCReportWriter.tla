--------------------------- MODULE MCReportWriter ---------------------------
(***************************************************************************)
(* ReportWriter for TLC: two runs that report into one directory within one *)
(* second; one of them alone is a behaviour in which the other never        *)
(* leaves its first step.                                                   *)
(***************************************************************************)
EXTENDS ReportWriter

CONSTANTS w1, w2

MCWriter == {w1, w2}
=============================================================================
