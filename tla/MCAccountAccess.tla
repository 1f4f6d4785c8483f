--------------------------- MODULE MCAccountAccess ---------------------------
(***************************************************************************)
(* AccountAccess for TLC: two client ids with their secrets, so that a     *)
(* form or a poll can read fields that do not belong together.             *)
(***************************************************************************)
EXTENDS AccountAccess

CONSTANTS k1, k2
TwoKeys == {k1, k2}
=============================================================================
