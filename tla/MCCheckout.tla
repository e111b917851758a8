----------------------------- MODULE MCCheckout -----------------------------
(***************************************************************************)
(* Small instances of Checkout for TLC: an edited file, a file the change  *)
(* adds, one it removes and a symlink it retargets.                        *)
(***************************************************************************)
EXTENDS Checkout

CONSTANTS r1, r2, x1, x2, edited, added, deleted, symlink

TwoRuns == {r1, r2}
OneRun == {r1}
TwoRestorers == {x1, x2}

Whole == {Paths}
WholeOrPiece == {Paths} \cup {{f} : f \in Paths}

AllFails == {"mkdir", "save", "manifest", "revert", "restore", "clean"}
AllPhases == SwapPhases \cup RestorePhases \cup {"idle"}

\* os.Mkdir fails only because the stash is there.
MkdirSound == AllFails \ {"mkdir"}

\* os.RemoveAll(stash) runs to its end.
CleanSound == AllFails \ {"clean"}
NoCrashInClean == AllPhases \ {"clean"}
=============================================================================
