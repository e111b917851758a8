---------------------------- MODULE MCProveLock ----------------------------
(***************************************************************************)
(* Small instances of ProveLock for TLC.                                   *)
(***************************************************************************)
EXTENDS ProveLock

CONSTANTS p1, p2, p3

Three == {p1, p2, p3}

\* Every process has a pid of its own.
OwnPid == [p \in Three |-> p]
=============================================================================
