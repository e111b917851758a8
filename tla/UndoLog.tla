------------------------------ MODULE UndoLog ------------------------------
(***************************************************************************)
(* What the stash of `test-check prove` promises, without files: a set of  *)
(* paths is logged in one step before any of them is touched, touched      *)
(* paths are in the log, and the log is given up in one step, when every   *)
(* logged path is back.                                                    *)
(***************************************************************************)
CONSTANTS
    Paths, Versions,
    Change,         \* the version of each path before anything is touched
    NoLog           \* no log

VARIABLES
    tree,           \* the version of each path
    log             \* the logged version of each logged path, or NoLog

undoVars == <<tree, log>>

UndoInit ==
    /\ tree = Change
    /\ log = NoLog

Log(S) ==
    /\ log = NoLog
    /\ log' = [f \in S |-> tree[f]]
    /\ UNCHANGED tree

Touch(f) ==
    /\ log # NoLog
    /\ f \in DOMAIN log
    /\ \E v \in Versions : tree' = [tree EXCEPT ![f] = v]
    /\ UNCHANGED log

GiveUpLog ==
    /\ log # NoLog
    /\ \A f \in DOMAIN log : tree[f] = log[f]
    /\ log' = NoLog
    /\ UNCHANGED tree

UndoNext ==
    \/ \E S \in SUBSET Paths : Log(S)
    \/ \E f \in Paths : Touch(f)
    \/ GiveUpLog

UndoSpec == UndoInit /\ [][UndoNext]_undoVars
=============================================================================
