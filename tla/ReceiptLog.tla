----------------------------- MODULE ReceiptLog -----------------------------
(***************************************************************************)
(* What the receipts promise to whoever reads them: a log in which each    *)
(* command enters at most one receipt, in one step, for good.              *)
(***************************************************************************)
CONSTANT Commands

VARIABLE log    \* the commands whose receipt can be read

LogInit == log = {}

Enter(c) == c \notin log /\ log' = log \cup {c}

LogNext == \E c \in Commands : Enter(c)

LogSpec == LogInit /\ [][LogNext]_log
=============================================================================
