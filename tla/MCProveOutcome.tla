--------------------------- MODULE MCProveOutcome ---------------------------
(***************************************************************************)
(* Instances of ProveOutcome for TLC; the bounds are in the .cfg files.    *)
(***************************************************************************)
EXTENDS ProveOutcome
=============================================================================
