------------------------------ MODULE ProveRun ------------------------------
(***************************************************************************)
(* Whole processes of `test-check prove` on one checkout: Run and Restore  *)
(* of internal/prove/prove.go, composed of the lock (ProveLock) and of the *)
(* stash and working tree (Checkout).                                      *)
(*                                                                         *)
(* A run takes the lock, refuses an existing stash, runs the tests on the  *)
(* change, swaps to the base once (or once for each piece) and releases.   *)
(* A Restore of its own looks at the lock and does not take it.            *)
(***************************************************************************)
EXTENDS FiniteSets, Naturals

CONSTANTS
    Runs, Restorers, None, Paths, Added, Deleted, Linked,
    Agendas,        \* for each run, the sets of slices it may be asked to
                    \* revert, one after another: {{Paths}} for a whole or
                    \* per-test run
    Fails, CrashIn, \* I/O errors and kills, as in Checkout
    Overlap         \* may a process start while another is inside acquire or
                    \* a Restore of its own is running

ASSUME RunAssumption ==
    /\ Runs \cap Restorers = {}
    /\ None \notin Runs \cup Restorers \cup Paths
    /\ Added \subseteq Paths /\ Deleted \subseteq Paths
    /\ Added \cap Deleted = {}
    /\ Linked \subseteq Paths \ Deleted
    /\ \A p \in Runs : \A A \in Agendas[p] : A \subseteq SUBSET Paths
    /\ Fails \subseteq {"mkdir", "save", "manifest", "revert", "restore", "clean"}
    /\ Overlap \in BOOLEAN

VARIABLES
    lock, named, lpc, tries,
    tree, dir, manifest, writer, entries, saved,
    phase, todo, cur, plan, undone,
    at,             \* where each run is in Run: "acquire", "stat", "newrun",
                    \* "base", "return" or "over"
    agenda          \* the slices it has still to revert

lockVars == <<lock, named, lpc, tries>>
checkoutVars == <<tree, dir, manifest, writer, entries, saved,
                  phase, todo, cur, plan, undone>>
runVars == <<lockVars, checkoutVars, at, agenda>>

L == INSTANCE ProveLock WITH
       Procs <- Runs, NoFile <- None, Pid <- [p \in Runs |-> p],
       Overlap <- TRUE, Fails <- {}

\* What a swap may revert.
Slices == UNION UNION {Agendas[p] : p \in Runs}

C == INSTANCE Checkout WITH
       Overlap <- TRUE

RunInit ==
    /\ L!LockInit
    /\ C!CheckoutInit
    /\ at = [p \in Runs |-> "acquire"]
    /\ agenda = [p \in Runs |-> {}]

Move(p, to) == at' = [at EXCEPT ![p] = to]

(***************************************************************************)
(* Nobody is between two looks at the lock: no other run is inside acquire *)
(* and no other Restore of its own is running.                             *)
(***************************************************************************)
Calm(p) ==
    /\ \A q \in Runs \ {p} : lpc[q] \notin L!Acquiring
    /\ \A x \in Restorers \ {p} : ~C!Active(x)

-----------------------------------------------------------------------------
(* Run *)

StartRun(p) ==
    /\ Overlap \/ Calm(p)
    /\ L!Start(p)
    /\ UNCHANGED <<checkoutVars, at, agenda>>

Acquire(p) ==
    /\ L!AcquireStep(p)
    /\ IF lpc'[p] = "held" THEN Move(p, "stat") ELSE UNCHANGED at
    /\ UNCHANGED <<checkoutVars, agenda>>

\* A variant of LookForStash: an existing stash is not looked for.
LookForNoStash(p) ==
    /\ at[p] = "stat"
    /\ Move(p, "newrun")
    /\ \E A \in Agendas[p] : agenda' = [agenda EXCEPT ![p] = A]
    /\ UNCHANGED <<lockVars, checkoutVars>>

(***************************************************************************)
(* os.Stat(stash): a stash means an earlier run did not restore.  After it *)
(* Run lists the change; an error, or a change with nothing to revert or   *)
(* no test, ends the run there.                                            *)
(***************************************************************************)
LookForStash(p) ==
    /\ at[p] = "stat"
    /\ \/ /\ ~dir
          /\ Move(p, "newrun")
          /\ \E A \in Agendas[p] : agenda' = [agenda EXCEPT ![p] = A]
       \/ /\ Move(p, "return")
          /\ UNCHANGED agenda
    /\ UNCHANGED <<lockVars, checkoutVars>>

(***************************************************************************)
(* The test command has run on the change: it passed, or it failed or was  *)
(* interrupted and nothing is reverted.                                    *)
(***************************************************************************)
NewRunEnds(p) ==
    /\ at[p] = "newrun"
    /\ \E to \in {"base", "return"} : Move(p, to)
    /\ UNCHANGED <<lockVars, checkoutVars, agenda>>

NextSwap(p) ==
    /\ at[p] = "base"
    /\ \E S \in agenda[p] :
         /\ C!BeginSwap(p, S)
         /\ agenda' = [agenda EXCEPT ![p] = @ \ {S}]
    /\ UNCHANGED <<lockVars, at>>

SwapToBase(p) ==
    /\ C!SwapStep(p)
    /\ UNCHANGED <<lockVars, at, agenda>>

(***************************************************************************)
(* Every slice is done, an interrupted old run ends the loop over them, or *)
(* onBase returned an error.                                               *)
(***************************************************************************)
EndSwaps(p) ==
    /\ at[p] = "base"
    /\ phase[p] \in {"idle", "failed"}
    /\ Move(p, "return")
    /\ UNCHANGED <<lockVars, checkoutVars, agenda>>

Return(p) ==
    /\ at[p] = "return"
    /\ L!Release(p)
    /\ Move(p, "over")
    /\ UNCHANGED <<checkoutVars, agenda>>

\* The run is over; its process has still to end.
ExitRun(p) ==
    /\ L!Exit(p)
    /\ UNCHANGED <<checkoutVars, at, agenda>>

RunCrash(p) ==
    /\ L!Crash(p)
    /\ C!CheckoutCrash(p)
    /\ Move(p, "over")
    /\ UNCHANGED agenda

-----------------------------------------------------------------------------
(* Restore, by a run or by a process of its own *)

(***************************************************************************)
(* The lock names a live process other than the caller.                    *)
(***************************************************************************)
HeldByOther(p) == lock # p /\ L!HeldByLive

StartRestore(x) ==
    /\ Overlap \/ Calm(x)
    /\ C!CallRestore(x)
    /\ UNCHANGED <<lockVars, at, agenda>>

\* A variant of LookAtLock: Restore does not look at the lock.
LookAtNothing(p) ==
    /\ C!PassCheck(p)
    /\ UNCHANGED <<lockVars, at, agenda>>

LookAtLock(p) ==
    /\ IF HeldByOther(p) THEN C!RefuseRestore(p) ELSE C!PassCheck(p)
    /\ UNCHANGED <<lockVars, at, agenda>>

PutBack(p) ==
    /\ C!PutBackStep(p)
    /\ UNCHANGED <<lockVars, at, agenda>>

RestorerCrash(x) ==
    /\ x \in Restorers
    /\ C!Active(x)
    /\ C!CheckoutCrash(x)
    /\ UNCHANGED <<lockVars, at, agenda>>

-----------------------------------------------------------------------------

(***************************************************************************)
(* What a live process does next of its own accord.                        *)
(***************************************************************************)
RunStep(p) ==
    \/ Acquire(p) \/ LookForStash(p) \/ NewRunEnds(p) \/ NextSwap(p)
    \/ SwapToBase(p) \/ LookAtLock(p) \/ PutBack(p) \/ EndSwaps(p)
    \/ Return(p) \/ ExitRun(p)

RestorerStep(x) == LookAtLock(x) \/ PutBack(x)

AllOver ==
    /\ \A p \in Runs : lpc[p] \in L!Ended
    /\ \A x \in Restorers : ~C!Active(x)
    /\ UNCHANGED runVars

RunNext ==
    \/ \E p \in Runs : StartRun(p) \/ RunStep(p) \/ RunCrash(p)
    \/ \E x \in Restorers :
         StartRestore(x) \/ RestorerStep(x) \/ RestorerCrash(x)
    \/ AllOver

(***************************************************************************)
(* No step waits for another process, and the test command is killed at    *)
(* its timeout: a process that is not killed keeps going.                  *)
(***************************************************************************)
RunFairness ==
    /\ \A p \in Runs : WF_runVars(RunStep(p))
    /\ \A x \in Restorers : WF_runVars(RestorerStep(x))

RunSpec == RunInit /\ [][RunNext]_runVars /\ RunFairness

-----------------------------------------------------------------------------

(***************************************************************************)
(* "A lock whose process is gone is taken over", wherever in Run or in     *)
(* acquire itself the process died.                                        *)
(***************************************************************************)
Takeover == L!Takeover

(***************************************************************************)
(* What the change has is in the tree or Restore can put it back, at every *)
(* moment ("the working tree must come back", comment in onBase).          *)
(***************************************************************************)
WorkSafe == C!WorkSafe

TreeNew == \A f \in Paths : tree[f] = C!New(f)

(***************************************************************************)
(* The two test runs a verdict compares see what they should: the new run  *)
(* the whole change, the old run the base for its slice and the change for *)
(* the rest, whatever runs and kills came before.                          *)
(***************************************************************************)
RunsOnRightTree ==
    /\ \A p \in Runs : at[p] = "newrun" => TreeNew
    /\ C!OldRunOnBase

(***************************************************************************)
(* "Only one prove run may use a checkout at a time": a run that is past   *)
(* its look for a stash is the only user, other runs and --restore wait.   *)
(***************************************************************************)
OneUser ==
    \A p \in Runs : at[p] \in {"newrun", "base"} =>
        /\ \A q \in Runs \ {p} : at[q] \notin {"newrun", "base"}
        /\ \A x \in Restorers : phase[x] \notin {"read", "putback", "clean"}

(***************************************************************************)
(* A run that reports a result leaves the checkout as it found it: no      *)
(* stash, and every file as the change has it.                             *)
(***************************************************************************)
LeavesNoTrace ==
    [][\A p \in Runs :
         at[p] = "base" /\ at'[p] = "return" /\ phase[p] = "idle"
           => ~dir /\ TreeNew]_runVars

Recovered(x) == phase[x] = "dead" \/ (phase[x] = "done" /\ TreeNew)

(***************************************************************************)
(* "An interrupted or crashed run is recovered with `test-check prove      *)
(* --restore`": a Restore that starts when no process is inside Run, and   *)
(* is not killed itself, succeeds and leaves the whole change in the tree, *)
(* for every stash whose manifest was written whole or not at all, however *)
(* often runs and Restores were killed or failed before.  A run killed     *)
(* between the creation of the manifest and its sync leaves one that no    *)
(* Restore accepts.                                                        *)
(***************************************************************************)
RecoversUntorn ==
    \A x \in Restorers :
        phase[x] = "check" /\ (\A p \in Runs : ~L!Inside(p)) /\ manifest # "torn"
          ~> Recovered(x)
=============================================================================
