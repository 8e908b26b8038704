----------------------------- MODULE MCInventory -----------------------------
(***************************************************************************)
(* Inventory for TLC: two regions, one with a database and two instances,   *)
(* the other with a database.                                               *)
(***************************************************************************)
EXTENDS Inventory

CONSTANTS east, west, adb1, adb2, vm1, vm2

MCRegion   == {east, west}
MCDatabase == {adb1, adb2}
MCInstance == {vm1, vm2}
MCLocation == [x \in {adb1, adb2, vm1, vm2} |->
                   IF x = adb2 THEN west ELSE east]
==============================================================================
