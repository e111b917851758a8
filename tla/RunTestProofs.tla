--------------------------- MODULE RunTestProofs ---------------------------
(***************************************************************************)
(* What a test command's result says, proved for every command: whatever   *)
(* it starts, in which order its processes end, and whenever the timers    *)
(* and the caller's cancellation come.                                     *)
(***************************************************************************)
EXTENDS RunTest, TLAPS

(***************************************************************************)
(* Where runTest is tells what is known of the shell; a shell that was     *)
(* killed had a reason to be, and took its group with it.                  *)
(***************************************************************************)
ShellKnown ==
    /\ pc = "start" => sh = "none" /\ delay = "off" /\ result = ""
    /\ pc \in {"wait", "drain"} => sh # "none" /\ result = ""
    /\ pc \in {"drain", "returned"} => sh # "running"
    /\ sh = "none" => kids = {}
    /\ sh = "killed" => cancelled \/ deadline
    /\ sh = "killed" => \A k \in kids : ~k.group

TestInv == TestTypeOK /\ ShellKnown /\ ResultIsTrue

LEMMA InitInv == TestInit => TestInv
<1> SUFFICES ASSUME TestInit PROVE TestInv
  OBVIOUS
<1>1. TestTypeOK
  BY DEF TestInit, TestTypeOK
<1>2. ShellKnown /\ ResultIsTrue
  BY DEF TestInit, ShellKnown, ResultIsTrue
<1> QED
  BY <1>1, <1>2 DEF TestInv

LEMMA StepInv == TestInv /\ [TestNext]_testVars => TestInv'
<1> SUFFICES ASSUME TestInv, [TestNext]_testVars PROVE TestInv'
  OBVIOUS
<1> USE DEF TestInv, TestTypeOK, ShellKnown, ResultIsTrue
<1>1. CASE StartCommand
  BY <1>1 DEF StartCommand, Return
<1>2. CASE CancelGroup
  BY <1>2 DEF CancelGroup
<1>3. CASE Reap
  BY <1>3 DEF Reap
<1>4. CASE Drained
  BY <1>4 DEF Drained, Return
<1>5. CASE GiveUpOutput
  BY <1>5 DEF GiveUpOutput, Return
<1>6. CASE Fork
  <2>1. PICK k \in Kinds \ kids :
          /\ \/ sh = "running"
             \/ \E j \in kids : (k.group => j.group) /\ (k.pipe => j.pipe)
          /\ kids' = kids \cup {k}
    BY <1>6 DEF Fork
  <2>2. sh = "killed" => ~k.group
    BY <2>1
  <2>3. sh # "none"
    BY <2>1
  <2> QED
    BY <1>6, <2>1, <2>2, <2>3 DEF Fork
<1>7. CASE ProcessEnds
  BY <1>7 DEF ProcessEnds
<1>8. CASE ShellEnds
  BY <1>8 DEF ShellEnds
<1>9. CASE CallerCancels
  BY <1>9 DEF CallerCancels, Over
<1>10. CASE TestCheckKilled
  BY <1>10 DEF TestCheckKilled, Over
<1>11. CASE DeadlinePasses
  BY <1>11 DEF DeadlinePasses, Over
<1>12. CASE DelayPasses
  BY <1>12 DEF DelayPasses
<1>13. CASE UNCHANGED testVars
  BY <1>13 DEF testVars
<1> QED
  BY <1>1, <1>2, <1>3, <1>4, <1>5, <1>6, <1>7, <1>8, <1>9, <1>10, <1>11,
     <1>12, <1>13 DEF TestNext, TestStep, Idle

(***************************************************************************)
(* A result is what happened: green is an exit of 0, red is never a        *)
(* command that test-check killed, an interruption has its cause.          *)
(***************************************************************************)
THEOREM ResultsAreTrue == TestSpec => []ResultIsTrue
<1>1. TestInv => ResultIsTrue
  BY DEF TestInv
<1> QED
  BY InitInv, StepInv, <1>1, PTL DEF TestSpec

(***************************************************************************)
(* After an interruption nothing of the command's group is alive, unless   *)
(* its shell had ended by itself.                                          *)
(***************************************************************************)
THEOREM InterruptionsStop == TestSpec => []InterruptedIsStopped
<1>1. TestInv => InterruptedIsStopped
  BY DEF TestInv, TestTypeOK, ShellKnown, InterruptedIsStopped
<1> QED
  BY InitInv, StepInv, <1>1, PTL DEF TestSpec
=============================================================================
