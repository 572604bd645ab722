---------------------------- MODULE MC_Classify -----------------------------
(* Model values for Classify: two addresses a jump target may start with.  *)
EXTENDS Classify

CONSTANTS a1, a2
=============================================================================
