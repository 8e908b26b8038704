---------------------------- MODULE MCReportOrder ----------------------------
(***************************************************************************)
(* ReportOrder for TLC: three records, two regions, two names in two        *)
(* spellings. Three records are the fewest in which two equal names can be  *)
(* separated by a variant of theirs.                                        *)
(***************************************************************************)
EXTENDS ReportOrder

MCRanks == 1..2
==============================================================================
