--------------------------- MODULE MC_AutoChecks ---------------------------
(* One purely auto-discovered check and one that a YAML check shares its    *)
(* name with, both with two definitions, so that a target changes while a   *)
(* probe of the old one is under way.                                       *)
EXTENDS AutoChecks
=============================================================================
