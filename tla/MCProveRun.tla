----------------------------- MODULE MCProveRun -----------------------------
(***************************************************************************)
(* Small instances of ProveRun for TLC: a change of one edited file and    *)
(* one added file.                                                         *)
(***************************************************************************)
EXTENDS ProveRun

CONSTANTS r1, r2, x1, x2, edited, added

Whole == [p \in Runs |-> {{Paths}}]
\* One run may be in piece mode, whichever comes first.
WholeOrPieces == [Whole EXCEPT ![r1] = @ \cup {{{f} : f \in Paths}}]

NoFails == {}
\* A revert may fail half way.  A Restore that fails is, here, one that is
\* killed at the same place; the errors of the other calls are in MCCheckout.
Failing == {"mkdir", "revert"}

\* A kill may come at any point but within os.RemoveAll(stash).
CrashAnywhere == {"idle", "failed", "save", "create", "sync", "revert",
                  "swapped", "check", "read", "putback"}
=============================================================================
