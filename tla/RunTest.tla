------------------------------ MODULE RunTest ------------------------------
(***************************************************************************)
(* runTest of internal/prove/prove.go: one test command in a process group *)
(* of its own, with its timeout, the caller's cancellation and the wait    *)
(* for its output; and the processes the command leaves behind.            *)
(*                                                                         *)
(* The shell and whatever it starts are the environment.  What os/exec     *)
(* does between Start and Wait is modelled from how runTest sets it up:    *)
(* Cancel, WaitDelay and one pipe for both outputs.                        *)
(***************************************************************************)
EXTENDS Naturals

VARIABLES
    pc,             \* where runTest is; "dead": test-check was killed
    sh,             \* the shell: not started, running, its exit, or killed
    kids,           \* the kinds of other processes of the command that live
    cancelled,      \* the caller's context is cancelled
    deadline,       \* the timeout of runCtx has passed
    delay,          \* the WaitDelay timer: "off", "on" or "over"
    result          \* what runTest returned

testVars == <<pc, sh, kids, cancelled, deadline, delay, result>>

(***************************************************************************)
(* A process is told apart by what can reach it: it is in the command's    *)
(* group or left it, and it holds the output pipe or not.                  *)
(***************************************************************************)
Kinds == [group : BOOLEAN, pipe : BOOLEAN]

TestTypeOK ==
    /\ pc \in {"start", "wait", "drain", "returned", "dead"}
    /\ sh \in {"none", "running", "zero", "nonzero", "killed"}
    /\ kids \subseteq Kinds
    /\ cancelled \in BOOLEAN /\ deadline \in BOOLEAN
    /\ delay \in {"off", "on", "over"}
    /\ result \in {"", "ok", "failed", "timeout", "cancelled"}

TestInit ==
    /\ pc = "start" /\ sh = "none" /\ kids = {}
    /\ cancelled \in BOOLEAN /\ deadline = FALSE
    /\ delay = "off" /\ result = ""

PipeHeld == \E k \in kids : k.pipe
Over == pc \in {"returned", "dead"}

-----------------------------------------------------------------------------
(* The command, the caller and the clock *)

(***************************************************************************)
(* A new process has the group and the pipe of the one that starts it, or  *)
(* leaves the one and closes the other.                                    *)
(***************************************************************************)
Fork ==
    /\ \E k \in Kinds \ kids :
         /\ \/ sh = "running"
            \/ \E j \in kids : (k.group => j.group) /\ (k.pipe => j.pipe)
         /\ kids' = kids \cup {k}
    /\ UNCHANGED <<pc, sh, cancelled, deadline, delay, result>>

ProcessEnds ==
    /\ \E k \in kids : kids' = kids \ {k}
    /\ UNCHANGED <<pc, sh, cancelled, deadline, delay, result>>

ShellEnds ==
    /\ sh = "running"
    /\ sh' \in {"zero", "nonzero"}
    /\ UNCHANGED <<pc, kids, cancelled, deadline, delay, result>>

CallerCancels ==
    /\ ~Over /\ ~cancelled
    /\ cancelled' = TRUE
    /\ UNCHANGED <<pc, sh, kids, deadline, delay, result>>

DeadlinePasses ==
    /\ ~Over /\ ~deadline
    /\ deadline' = TRUE
    /\ UNCHANGED <<pc, sh, kids, cancelled, delay, result>>

\* A variant of DelayPasses: WaitDelay is not set.
DelayNever == FALSE /\ UNCHANGED testVars

(***************************************************************************)
(* WaitDelay: long enough to read what is in a pipe nobody holds.          *)
(***************************************************************************)
DelayPasses ==
    /\ pc = "drain" /\ delay = "on"
    /\ PipeHeld
    /\ delay' = "over"
    /\ UNCHANGED <<pc, sh, kids, cancelled, deadline, result>>

TestCheckKilled ==
    /\ ~Over
    /\ pc' = "dead"
    /\ UNCHANGED <<sh, kids, cancelled, deadline, delay, result>>

-----------------------------------------------------------------------------
(* runTest *)

\* A variant of Return: a command that is cut off counts as one that failed.
ReturnExit(err) == pc' = "returned" /\ result' = err

(***************************************************************************)
(* What runTest makes of the error of CombinedOutput: the state of the two *)
(* contexts at that moment comes first.                                    *)
(***************************************************************************)
Return(err) ==
    /\ pc' = "returned"
    /\ result' = IF cancelled THEN "cancelled"
                 ELSE IF deadline THEN "timeout" ELSE err

(***************************************************************************)
(* Start refuses a context that is over, and may fail by itself.           *)
(***************************************************************************)
StartCommand ==
    /\ pc = "start"
    /\ \/ Return("failed") /\ UNCHANGED sh
       \/ ~cancelled /\ ~deadline /\ sh' = "running" /\ pc' = "wait"
          /\ UNCHANGED result
    /\ UNCHANGED <<kids, cancelled, deadline, delay>>

\* A variant of CancelGroup: the shell alone is killed, not its group.
CancelShell ==
    /\ pc = "wait" /\ delay = "off"
    /\ cancelled \/ deadline
    /\ sh' = IF sh = "running" THEN "killed" ELSE sh
    /\ delay' = "on"
    /\ UNCHANGED <<pc, kids, cancelled, deadline, result>>

(***************************************************************************)
(* cmd.Cancel, called when runCtx is done before Wait has the shell: a     *)
(* SIGKILL to the group, whose leader may have ended by then.              *)
(***************************************************************************)
CancelGroup ==
    /\ pc = "wait" /\ delay = "off"
    /\ cancelled \/ deadline
    /\ sh' = IF sh = "running" THEN "killed" ELSE sh
    /\ kids' = {k \in kids : ~k.group}
    /\ delay' = "on"
    /\ UNCHANGED <<pc, cancelled, deadline, result>>

(***************************************************************************)
(* Wait has the shell's exit.  From here on Cancel is not called any more, *)
(* and the wait for the output is bounded by WaitDelay.                    *)
(***************************************************************************)
Reap ==
    /\ pc = "wait" /\ sh # "running"
    /\ pc' = "drain"
    /\ delay' = "on"
    /\ UNCHANGED <<sh, kids, cancelled, deadline, result>>

Drained ==
    /\ pc = "drain" /\ ~PipeHeld
    /\ Return(IF sh = "zero" THEN "ok" ELSE "failed")
    /\ UNCHANGED <<sh, kids, cancelled, deadline, delay>>

(***************************************************************************)
(* exec.ErrWaitDelay: an error even for a command that exited with 0.      *)
(***************************************************************************)
GiveUpOutput ==
    /\ pc = "drain" /\ delay = "over"
    /\ Return("failed")
    /\ UNCHANGED <<sh, kids, cancelled, deadline, delay>>

TestStep == StartCommand \/ CancelGroup \/ Reap \/ Drained \/ GiveUpOutput

Idle == Over /\ UNCHANGED testVars

TestNext ==
    \/ TestStep
    \/ Fork \/ ProcessEnds \/ ShellEnds \/ CallerCancels \/ TestCheckKilled
    \/ DeadlinePasses \/ DelayPasses
    \/ Idle

(***************************************************************************)
(* runTest goes on and the timers run; the command may do nothing for      *)
(* ever, and so may what it started.                                       *)
(***************************************************************************)
TestFairness ==
    /\ WF_testVars(TestStep)
    /\ WF_testVars(DeadlinePasses) /\ WF_testVars(DelayPasses)

TestSpec == TestInit /\ [][TestNext]_testVars /\ TestFairness

-----------------------------------------------------------------------------

Interrupted == result \in {"timeout", "cancelled"}

(***************************************************************************)
(* What the verdict is built on: green is an exit of 0 with the whole      *)
(* output read; red is never a command that test-check killed, but it may  *)
(* be one that could not be started, or one that exited with 0 and left a  *)
(* process on its output; an interruption has its cause.                   *)
(***************************************************************************)
ResultIsTrue ==
    pc = "returned" =>
      /\ result = "ok" => sh = "zero"
      /\ result = "failed" => \/ sh \in {"none", "nonzero"}
                              \/ sh = "zero" /\ delay = "over"
      /\ result = "timeout" => deadline
      /\ result = "cancelled" => cancelled
      /\ result # ""

(***************************************************************************)
(* "a timeout or cancel stops everything it started": nothing of the       *)
(* command's group is alive after an interrupted runTest, unless its shell *)
(* had ended by itself and runTest was waiting for the output; and the     *)
(* shell is never left running.                                            *)
(***************************************************************************)
InterruptedIsStopped ==
    pc = "returned" =>
      /\ sh # "running"
      /\ Interrupted /\ (\E k \in kids : k.group) => sh \in {"zero", "nonzero"}

(***************************************************************************)
(* "A grandchild holding the output pipe must not block the return":       *)
(* runTest returns whatever the command and its processes do.              *)
(***************************************************************************)
TestReturns == <>Over
=============================================================================
