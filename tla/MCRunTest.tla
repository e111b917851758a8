----------------------------- MODULE MCRunTest -----------------------------
(***************************************************************************)
(* RunTest is finite as it is.                                             *)
(***************************************************************************)
EXTENDS RunTest
=============================================================================
