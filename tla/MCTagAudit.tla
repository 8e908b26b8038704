----------------------------- MODULE MCTagAudit -----------------------------
(***************************************************************************)
(* TagAudit for TLC: the canonical namespace and two variants of it, two    *)
(* free-form keys for each name, a day of two ticks, and dates that are     *)
(* further away than the longest Duration.                                  *)
(***************************************************************************)
EXTENDS TagAudit

MCCanonical == {"Oracle-Tags"}
MCVariant   == {"Oracle_Tags", "oracle tags"}
MCFreeOn    == {"Oracle-Tags.CreatedOn", "Oracle_Tags/CreatedOn"}
MCFreeBy    == {"Oracle-Tags.CreatedBy", "Oracle_Tags/CreatedBy"}
MCUser      == {"ann", "bob"}
==============================================================================
