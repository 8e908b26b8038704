---------------------------- MODULE MCReportFiles ----------------------------
(***************************************************************************)
(* ReportFiles for TLC: two regions; an instance has no boot volume or one, *)
(* with or without a size, and up to two block volumes, one of which two    *)
(* instances may share.                                                     *)
(***************************************************************************)
EXTENDS ReportFiles

CONSTANTS r1, r2

MCRegion == {r1, r2}

Failed         == [complete |-> FALSE, volumes |-> <<>>]
Whole(volumes) == [complete |-> TRUE, volumes |-> volumes]
Volume(v, s)   == [id |-> v, size |-> s]

MCBootListing ==
    {Failed, Whole(<<>>)}
        \cup {Whole(<<Volume(v, s)>>) : v \in {"boot1", "boot2"}, s \in {50, NoSize}}

MCBlockListing ==
    {Failed, Whole(<<>>), Whole(<<Volume("block1", 10), Volume("block2", 20)>>)}
        \cup {Whole(<<Volume("block1", s)>>) : s \in {10, NoSize}}
==============================================================================
