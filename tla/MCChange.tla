------------------------------ MODULE MCChange ------------------------------
(***************************************************************************)
(* The readers of a change, side by side: a behaviour is either a script   *)
(* that grows line by line, with what prove makes of it, or one run of     *)
(* the advice.  The other half stands still.                               *)
(***************************************************************************)
EXTENDS CodePieces, ChangedTests, Advice

NoScript == file = "none" /\ context = 0 /\ script = <<>>
NoAdvice == /\ mode = "none" /\ at = "none" /\ states = <<>> /\ untracked = {}
            /\ input = [files |-> <<>>, head |-> 0, incomplete |-> FALSE]
            /\ AdviceInit

Init == \/ ScriptInit /\ NoAdvice /\ ~key
        \/ NoScript /\ SourceInit /\ AdviceInit

Next == \/ mode = "none" /\ AddLine /\ UNCHANGED <<sourceVars, adviceVars>>
        \/ file = "none" /\ AdviceNext /\ UNCHANGED scriptVars

Spec == Init /\ [][Next]_<<scriptVars, sourceVars, adviceVars>>
=============================================================================
