--------------------------- MODULE ProveRunProofs ---------------------------
(***************************************************************************)
(* Proofs about ProveRun, from those about its two parts: the lock keeps   *)
(* the users of the stash apart, and one user at a time keeps the stash    *)
(* and the working tree right.                                             *)
(***************************************************************************)
EXTENDS ProveRun, TLAPS

LP == INSTANCE ProveLockProofs WITH
        Procs <- Runs, NoFile <- None, Pid <- [p \in Runs |-> p],
        Overlap <- TRUE, Fails <- {}

CP == INSTANCE CheckoutProofs WITH
        Overlap <- TRUE

(***************************************************************************)
(* The conditions of the theorems below: a process starts only when nobody *)
(* is between two looks at the lock, and, if anybody calls Restore, every  *)
(* clean-up of a stash gets to its end.                                    *)
(***************************************************************************)
RunRegime == ~Overlap /\ CP!CleanEnds

Holding == {"stat", "newrun", "base", "return"}

RunTyped ==
    /\ at \in [Runs -> {"acquire", "over"} \cup Holding]
    /\ agenda \in [Runs -> SUBSET Slices]

(***************************************************************************)
(* A run holds the lock exactly from its look for a stash to its return,   *)
(* and is in the stash only in the swap loop, which it enters, and goes    *)
(* round, without a stash on the disk.                                     *)
(***************************************************************************)
Stage(p) ==
    /\ lpc[p] = "held" <=> at[p] \in Holding
    /\ lpc[p] \in L!Acquiring \cup {"out"} => at[p] = "acquire"
    /\ at[p] \in {"acquire", "stat", "newrun"} => phase[p] = "idle"
    /\ CP!Active(p) => at[p] = "base"
    /\ at[p] = "newrun" => ~dir
    /\ at[p] = "base" /\ phase[p] = "idle" => ~dir

(***************************************************************************)
(* Beside a Restore of its own nobody enters acquire and nobody else       *)
(* restores, and once it is past its look at the lock no run holds it.     *)
(***************************************************************************)
Alone(x) ==
    /\ CP!Active(x) =>
         /\ \A p \in Runs : lpc[p] \notin L!Acquiring
         /\ \A y \in Restorers \ {x} : ~CP!Active(y)
    /\ phase[x] \in {"read", "putback", "clean"} =>
         \A p \in Runs : lpc[p] # "held"

RunInv ==
    /\ RunTyped
    /\ LP!LockInv
    /\ CP!CheckoutCore
    /\ \A p \in Runs : Stage(p)
    /\ \A x \in Restorers : Alone(x)

-----------------------------------------------------------------------------
(* The parts, as ProveRun and as their proofs name them *)

LEMMA PartsAssumed == LP!LockAssumption /\ CP!CheckoutAssumption
<1>1. LP!LockAssumption
  BY RunAssumption DEF LP!LockAssumption
<1>2. Slices \subseteq SUBSET Paths
  BY RunAssumption DEF Slices
<1>3. CP!CheckoutAssumption
  BY <1>2, RunAssumption DEF CP!CheckoutAssumption, CP!Procs
<1> QED
  BY <1>1, <1>3

LEMMA SameSwap ==
    ASSUME NEW p
    PROVE  /\ \A S : C!BeginSwap(p, S) => CP!BeginSwap(p, S)
           /\ C!SwapStep(p) => CP!SwapStep(p)
<1> USE DEF C!Goto, CP!Goto, C!UndoRevert, CP!UndoRevert, C!Put, CP!Put,
            C!Visited, CP!Visited, C!Entry, CP!Entry, C!Listed, CP!Listed,
            C!stashVars, CP!stashVars, C!HalfWritten, CP!HalfWritten
<1>1. \A S : C!BeginSwap(p, S) => CP!BeginSwap(p, S)
  BY DEF C!BeginSwap, CP!BeginSwap, C!Unlisted, CP!Unlisted, C!Active,
         CP!Active, C!SwapPhases, CP!SwapPhases, C!RestorePhases,
         CP!RestorePhases
<1>2. \A f : /\ C!Save(p, f) => CP!Save(p, f)
             /\ C!SaveFails(p, f) => CP!SaveFails(p, f)
             /\ C!RemoveNew(p, f) => CP!RemoveNew(p, f)
  BY DEF C!Save, CP!Save, C!SaveFails, CP!SaveFails, C!RemoveNew, CP!RemoveNew
<1>3. /\ C!AllSaved(p) => CP!AllSaved(p)
      /\ C!CreateManifest(p) => CP!CreateManifest(p)
      /\ C!SyncManifest(p) => CP!SyncManifest(p)
      /\ C!SyncFails(p) => CP!SyncFails(p)
  BY DEF C!AllSaved, CP!AllSaved, C!CreateManifest, CP!CreateManifest,
         C!SyncManifest, CP!SyncManifest, C!SyncFails, CP!SyncFails
<1>4. /\ C!WriteOld(p) => CP!WriteOld(p)
      /\ C!RevertFails(p) => CP!RevertFails(p)
      /\ C!AllReverted(p) => CP!AllReverted(p)
      /\ C!OldRunEnds(p) => CP!OldRunEnds(p)
  BY DEF C!WriteOld, CP!WriteOld, C!RevertFails, CP!RevertFails,
         C!AllReverted, CP!AllReverted, C!OldRunEnds, CP!OldRunEnds
<1>5. C!SwapStep(p) => CP!SwapStep(p)
  BY <1>2, <1>3, <1>4 DEF C!SwapStep, CP!SwapStep
<1> QED
  BY <1>1, <1>5

LEMMA SameRestore ==
    ASSUME NEW p
    PROVE  /\ C!CallRestore(p) => CP!CallRestore(p)
           /\ C!PassCheck(p) => CP!PassCheck(p)
           /\ C!RefuseRestore(p) => CP!RefuseRestore(p)
           /\ C!PutBackStep(p) => CP!PutBackStep(p)
           /\ C!CheckoutCrash(p) => CP!CheckoutCrash(p)
<1> USE DEF C!Goto, CP!Goto, C!Put, CP!Put, C!Visited, CP!Visited,
            C!Listed, CP!Listed, C!Unlisted, CP!Unlisted, C!stashVars,
            CP!stashVars, C!procVars, CP!procVars, C!HalfWritten,
            CP!HalfWritten, C!Backing, CP!Backing
<1>1. /\ C!CallRestore(p) => CP!CallRestore(p)
      /\ C!PassCheck(p) => CP!PassCheck(p)
      /\ C!RefuseRestore(p) => CP!RefuseRestore(p)
      /\ C!CheckoutCrash(p) => CP!CheckoutCrash(p)
  BY DEF C!CallRestore, CP!CallRestore, C!PassCheck, CP!PassCheck,
         C!RefuseRestore, CP!RefuseRestore, C!CheckoutCrash, CP!CheckoutCrash,
         C!Procs, CP!Procs, C!Active, CP!Active, C!SwapPhases, CP!SwapPhases,
         C!RestorePhases, CP!RestorePhases
<1>2. \A f : /\ C!RemoveOld(p, f) => CP!RemoveOld(p, f)
             /\ C!CleanSaved(p, f) => CP!CleanSaved(p, f)
  BY DEF C!RemoveOld, CP!RemoveOld, C!CleanSaved, CP!CleanSaved
<1>3. /\ C!ReadManifest(p) => CP!ReadManifest(p)
      /\ C!WriteNew(p) => CP!WriteNew(p)
      /\ C!PutBackFails(p) => CP!PutBackFails(p)
      /\ C!AllBack(p) => CP!AllBack(p)
  BY DEF C!ReadManifest, CP!ReadManifest, C!WriteNew, CP!WriteNew,
         C!PutBackFails, CP!PutBackFails, C!AllBack, CP!AllBack
<1>4. /\ C!CleanManifest(p) => CP!CleanManifest(p)
      /\ C!CleanFails(p) => CP!CleanFails(p)
      /\ C!CleanDir(p) => CP!CleanDir(p)
  BY DEF C!CleanManifest, CP!CleanManifest, C!CleanFails, CP!CleanFails,
         C!CleanDir, CP!CleanDir
<1>5. C!PutBackStep(p) => CP!PutBackStep(p)
  BY <1>2, <1>3, <1>4 DEF C!PutBackStep, CP!PutBackStep
<1> QED
  BY <1>1, <1>5

LEMMA SameLock ==
    ASSUME NEW p
    PROVE  /\ L!Start(p) => LP!Start(p)
           /\ L!AcquireStep(p) => LP!AcquireStep(p)
           /\ L!Release(p) => LP!Release(p)
           /\ L!Exit(p) => LP!Exit(p)
           /\ L!Crash(p) => LP!Crash(p)
           /\ L!HeldByLive <=> LP!HeldByLive
BY DEF L!Start, LP!Start, L!AcquireStep, LP!AcquireStep, L!Release, LP!Release,
       L!Exit, LP!Exit, L!Crash, LP!Crash, L!Create, LP!Create, L!GiveUp, LP!GiveUp,
       L!WritePid, LP!WritePid, L!Inspect, LP!Inspect, L!Steal, LP!Steal,
       L!Goto, LP!Goto, L!RemoveLock, LP!RemoveLock, L!HeldByLive,
       LP!HeldByLive, L!Alive, LP!Alive, L!Live, LP!Live, L!Inside,
       LP!Inside, L!Acquiring, LP!Acquiring

-----------------------------------------------------------------------------
(* What the steps of the parts do to the rest of RunInv *)

LEMMA CoreTypes ==
    ASSUME CP!CheckoutCore
    PROVE  CP!CheckoutTyped /\ CP!CheckoutTypeOK
BY DEF CP!CheckoutCore, CP!CheckoutTyped

LEMMA CoreUnchanged ==
    ASSUME CP!CheckoutCore, UNCHANGED checkoutVars
    PROVE  CP!CheckoutCore'
BY DEF checkoutVars, CP!CheckoutCore, CP!CheckoutTyped, CP!CheckoutTypeOK,
       CP!Loops, CP!OneUses, CP!Uses, CP!DiskInv, CP!NoOrphan, CP!Knows,
       CP!Planned, CP!Through, CP!Intact, CP!TreeNew, CP!Backed, CP!Backing,
       CP!Listed

LEMMA LockUnchanged ==
    ASSUME LP!LockInv, UNCHANGED lockVars
    PROVE  LP!LockInv'
BY DEF lockVars, LP!LockInv, LP!LockBounded, LP!LockTypeOK, LP!InLoop,
       LP!NamedPast, LP!OneAcquires, LP!CreatorOwns, LP!HolderIsNamed,
       LP!StealExcludes, LP!Acquiring

(***************************************************************************)
(* Each step of a process moves only its own phase.                        *)
(***************************************************************************)
LEMMA SwapEffect ==
    ASSUME CP!CheckoutTypeOK, NEW p \in CP!Procs, CP!SwapStep(p)
    PROVE  /\ \A q \in CP!Procs \ {p} : phase'[q] = phase[q]
           /\ UNCHANGED dir
           /\ phase[p] \in CP!SwapPhases
           /\ CP!Active(p)' /\ phase'[p] \in CP!SwapPhases \cup {"check"}
<1> USE DEF CP!CheckoutTypeOK
<1>1. phase'[p] \in CP!SwapPhases \cup {"check"}
  BY DEF CP!SwapStep, CP!Save, CP!SaveFails, CP!AllSaved, CP!CreateManifest,
         CP!SyncManifest, CP!SyncFails, CP!RemoveNew, CP!WriteOld,
         CP!RevertFails, CP!AllReverted, CP!OldRunEnds, CP!UndoRevert,
         CP!Goto, CP!SwapPhases, CP!RestorePhases, CP!stashVars
<1>2. /\ \A q \in CP!Procs \ {p} : phase'[q] = phase[q]
      /\ phase[p] \in CP!SwapPhases
  BY DEF CP!SwapStep, CP!Save, CP!SaveFails, CP!AllSaved, CP!CreateManifest,
         CP!SyncManifest, CP!SyncFails, CP!RemoveNew, CP!WriteOld,
         CP!RevertFails, CP!AllReverted, CP!OldRunEnds, CP!UndoRevert,
         CP!Goto, CP!SwapPhases, CP!stashVars
<1>3. UNCHANGED dir
  BY DEF CP!SwapStep, CP!Save, CP!SaveFails, CP!AllSaved, CP!CreateManifest,
         CP!SyncManifest, CP!SyncFails, CP!RemoveNew, CP!WriteOld,
         CP!RevertFails, CP!AllReverted, CP!OldRunEnds, CP!stashVars
<1> QED
  BY <1>1, <1>2, <1>3 DEF CP!Active, CP!RestorePhases

LEMMA PutBackEffect ==
    ASSUME CP!CheckoutTypeOK, NEW p \in CP!Procs, CP!PutBackStep(p)
    PROVE  /\ \A q \in CP!Procs \ {p} : phase'[q] = phase[q]
           /\ dir' => dir
           /\ phase[p] \in {"read", "putback", "clean"}
           /\ phase'[p] \in {"read", "putback", "clean", "failed", "done",
                             "idle"}
           /\ phase'[p] = "idle" => ~dir'
<1> USE DEF CP!CheckoutTypeOK
<1>1. /\ \A q \in CP!Procs \ {p} : phase'[q] = phase[q]
      /\ phase[p] \in {"read", "putback", "clean"}
  BY DEF CP!PutBackStep, CP!ReadManifest, CP!RemoveOld, CP!WriteNew,
         CP!PutBackFails, CP!AllBack, CP!CleanSaved, CP!CleanManifest,
         CP!CleanFails, CP!CleanDir, CP!Goto, CP!procVars
<1>2. dir' => dir
  BY DEF CP!PutBackStep, CP!ReadManifest, CP!RemoveOld, CP!WriteNew,
         CP!PutBackFails, CP!AllBack, CP!CleanSaved, CP!CleanManifest,
         CP!CleanFails, CP!CleanDir, CP!stashVars
<1>3. /\ phase'[p] \in {"read", "putback", "clean", "failed", "done", "idle"}
      /\ phase'[p] = "idle" => ~dir'
  BY DEF CP!PutBackStep, CP!ReadManifest, CP!RemoveOld, CP!WriteNew,
         CP!PutBackFails, CP!AllBack, CP!CleanSaved, CP!CleanManifest,
         CP!CleanFails, CP!CleanDir, CP!Goto, CP!procVars
<1> QED
  BY <1>1, <1>2, <1>3

-----------------------------------------------------------------------------
(* RunInv is inductive *)

LEMMA RunInvInit == RunInit => RunInv
<1> SUFFICES ASSUME RunInit PROVE RunInv
  OBVIOUS
<1>1. LP!LockInit /\ CP!CheckoutInit
  BY DEF RunInit, L!LockInit, LP!LockInit, C!CheckoutInit, CP!CheckoutInit,
         C!New, CP!New, C!Unlisted, CP!Unlisted, C!Procs, CP!Procs
<1>2. LP!LockInv /\ CP!CheckoutCore
  BY <1>1, PartsAssumed, LP!LockInvInit, CP!CheckoutCoreInit
<1>3. RunTyped
  BY DEF RunInit, RunTyped
<1>4. \A p \in Runs : Stage(p)
  BY <1>1 DEF RunInit, Stage, Holding, LP!LockInit, CP!CheckoutInit, CP!Procs,
              CP!Active, CP!SwapPhases, CP!RestorePhases
<1>5. \A x \in Restorers : Alone(x)
  BY <1>1 DEF Alone, CP!CheckoutInit, CP!Procs, CP!Active, CP!SwapPhases,
              CP!RestorePhases
<1> QED
  BY <1>2, <1>3, <1>4, <1>5 DEF RunInv

(***************************************************************************)
(* The holder of the lock is the process the lock file names, so no other  *)
(* run is in the swap loop, no Restore is past its look, and a process     *)
(* that looks at the lock is told so.                                      *)
(***************************************************************************)
LEMMA HolderAlone ==
    ASSUME RunInv, NEW p \in Runs, at[p] \in Holding
    PROVE  /\ lpc[p] = "held" /\ lock = p /\ L!HeldByLive
           /\ \A q \in Runs \ {p} : lpc[q] # "held" /\ at[q] \notin Holding
           /\ \A q \in CP!Procs \ {p} : ~CP!Uses(q)
<1>1. lpc[p] = "held" /\ lock = p /\ p \in named
  BY DEF RunInv, Stage, LP!LockInv, LP!HolderIsNamed
<1>2. L!HeldByLive
  BY <1>1, RunAssumption DEF L!HeldByLive, L!Alive, L!Live, L!Inside
<1>3. \A q \in Runs \ {p} : lpc[q] # "held" /\ at[q] \notin Holding
  BY <1>1 DEF RunInv, Stage, LP!LockInv, LP!HolderIsNamed
<1>4. \A q \in Runs \ {p} : ~CP!Uses(q)
  BY <1>3 DEF RunInv, Stage, Holding, CP!Uses, CP!Active, CP!SwapPhases,
              CP!RestorePhases
<1>5. \A x \in Restorers : ~CP!Uses(x)
  <2>1. ASSUME NEW x \in Restorers PROVE ~CP!Uses(x)
    <3>1. phase[x] \notin {"read", "putback", "clean"} /\ x \notin Runs
      BY <1>1, RunAssumption DEF RunInv, Alone
    <3>2. phase[x] \notin CP!SwapPhases
      BY <3>1 DEF RunInv, CP!CheckoutCore, CP!Knows, CP!Procs
    <3> QED
      BY <3>1, <3>2 DEF CP!Uses
  <2> QED
    BY <2>1
<1> QED
  BY <1>1, <1>2, <1>3, <1>4, <1>5 DEF CP!Procs

LEMMA StartRunInv ==
    ASSUME RunRegime, RunInv, NEW p \in Runs, StartRun(p)
    PROVE  RunInv'
<1>1. Calm(p) /\ LP!Start(p) /\ UNCHANGED <<checkoutVars, at, agenda>>
  BY SameLock DEF StartRun, RunRegime
<1>2. \A q \in Runs : lpc[q] \notin LP!Acquiring
  BY <1>1 DEF Calm, LP!Start, LP!Acquiring, L!Acquiring
<1>3. LP!LockInv'
  BY <1>1, <1>2, PartsAssumed, LP!LockInvStart DEF RunInv
<1>4. CP!CheckoutCore'
  BY <1>1, CoreUnchanged DEF RunInv
<1>5. RunTyped'
  BY <1>1 DEF RunInv, RunTyped
<1>6. \A q \in Runs : Stage(q)'
  BY <1>1 DEF RunInv, Stage, LP!Start, LP!Goto, LP!LockInv, LP!LockBounded,
              LP!LockTypeOK, L!Acquiring, CP!Active, checkoutVars, Holding
<1>7. \A x \in Restorers : Alone(x)'
  <2>1. \A x \in Restorers : ~CP!Active(x)
    BY <1>1, RunAssumption
    DEF Calm, C!Active, CP!Active, C!SwapPhases, CP!SwapPhases,
        C!RestorePhases, CP!RestorePhases
  <2> QED
    BY <1>1, <2>1 DEF Alone, CP!Active, CP!RestorePhases, checkoutVars
<1> QED
  BY <1>3, <1>4, <1>5, <1>6, <1>7 DEF RunInv

LEMMA AcquireInv ==
    ASSUME RunInv, NEW p \in Runs, Acquire(p)
    PROVE  RunInv'
<1> USE DEF LP!LockInv, LP!LockBounded, LP!LockTypeOK
<1>1. LP!AcquireStep(p) /\ UNCHANGED <<checkoutVars, agenda>>
  BY SameLock DEF Acquire
<1>2. LP!LockInv'
  BY <1>1, PartsAssumed, LP!LockInvMove DEF RunInv
<1>3. /\ lpc[p] \in L!Acquiring
      /\ \E to \in L!Acquiring \cup {"held", "refused"} :
           lpc' = [lpc EXCEPT ![p] = to]
  BY <1>1 DEF LP!AcquireStep, LP!Create, LP!GiveUp, LP!WritePid, LP!Inspect,
              LP!Steal, LP!Goto, L!Acquiring
<1>4. at' = IF lpc'[p] = "held" THEN [at EXCEPT ![p] = "stat"] ELSE at
  BY DEF Acquire, Move
<1>5. at[p] = "acquire" /\ phase[p] = "idle" /\ ~CP!Active(p)
  BY <1>3 DEF RunInv, Stage
<1>6. RunTyped'
  BY <1>1, <1>4 DEF RunInv, RunTyped, Holding
<1>7. CP!CheckoutCore'
  BY <1>1, CoreUnchanged DEF RunInv
<1>8. \A q \in Runs : Stage(q)'
  <2>1. Stage(p)'
    BY <1>1, <1>3, <1>4, <1>5
    DEF RunInv, RunTyped, Stage, Holding, L!Acquiring, CP!Active, checkoutVars
  <2>2. ASSUME NEW q \in Runs \ {p} PROVE Stage(q)'
    BY <1>1, <1>3, <1>4
    DEF RunInv, RunTyped, Stage, CP!Active, checkoutVars
  <2> QED
    BY <2>1, <2>2
<1>9. \A x \in Restorers : Alone(x)'
  <2>1. \A x \in Restorers : ~CP!Active(x)
    BY <1>3 DEF RunInv, Alone
  <2> QED
    BY <1>1, <2>1 DEF Alone, CP!Active, CP!RestorePhases, checkoutVars
<1> QED
  BY <1>2, <1>6, <1>7, <1>8, <1>9 DEF RunInv

(***************************************************************************)
(* The steps of Run that leave the lock and the checkout alone.            *)
(***************************************************************************)
LEMMA OnwardInv ==
    ASSUME RunInv, NEW p \in Runs,
           LookForStash(p) \/ NewRunEnds(p) \/ EndSwaps(p)
    PROVE  RunInv'
<1>1. UNCHANGED <<lockVars, checkoutVars>>
  BY DEF LookForStash, NewRunEnds, EndSwaps
<1>2. /\ at[p] \in Holding /\ ~CP!Active(p)
      /\ \E to \in {"newrun", "base", "return"} : at' = [at EXCEPT ![p] = to]
      /\ at'[p] \in {"newrun", "base"} => ~dir /\ phase[p] = "idle"
  BY DEF LookForStash, NewRunEnds, EndSwaps, Move, Holding, RunInv, Stage,
         RunTyped, CP!Active, CP!SwapPhases, CP!RestorePhases
<1>3. RunTyped'
  <2>1. at' \in [Runs -> {"acquire", "over"} \cup Holding]
    BY <1>2 DEF RunInv, RunTyped, Holding
  <2>2. \A A \in Agendas[p] : A \subseteq Slices
    BY DEF Slices
  <2>3. agenda' \in [Runs -> SUBSET Slices]
    BY <2>2 DEF RunInv, RunTyped, LookForStash, NewRunEnds, EndSwaps
  <2> QED
    BY <2>1, <2>3 DEF RunTyped
<1>4. LP!LockInv' /\ CP!CheckoutCore'
  BY <1>1, LockUnchanged, CoreUnchanged DEF RunInv
<1>5. \A q \in Runs : Stage(q)'
  BY <1>1, <1>2
  DEF RunInv, RunTyped, Stage, Holding, L!Acquiring, CP!Active, lockVars,
      checkoutVars
<1>6. \A x \in Restorers : Alone(x)'
  BY <1>1 DEF RunInv, Alone, CP!Active, lockVars, checkoutVars
<1> QED
  BY <1>3, <1>4, <1>5, <1>6 DEF RunInv

LEMMA ReturnInv ==
    ASSUME RunInv, NEW p \in Runs, Return(p)
    PROVE  RunInv'
<1> USE DEF LP!LockInv, LP!LockBounded, LP!LockTypeOK
<1>1. /\ LP!Release(p) /\ at[p] = "return" /\ at' = [at EXCEPT ![p] = "over"]
      /\ UNCHANGED <<checkoutVars, agenda>>
  BY SameLock DEF Return, Move
<1>2. LP!LockInv'
  BY <1>1, PartsAssumed, LP!LockInvMove DEF RunInv
<1>3. lpc' = [lpc EXCEPT ![p] = "released"] /\ ~CP!Active(p)
  BY <1>1 DEF LP!Release, LP!Goto, RunInv, Stage
<1>4. RunTyped' /\ CP!CheckoutCore'
  BY <1>1, CoreUnchanged DEF RunInv, RunTyped
<1>5. \A q \in Runs : Stage(q)'
  BY <1>1, <1>3
  DEF RunInv, RunTyped, Stage, Holding, L!Acquiring, CP!Active, checkoutVars
<1>6. \A x \in Restorers : Alone(x)'
  BY <1>1, <1>3 DEF RunInv, Alone, CP!Active, L!Acquiring, checkoutVars
<1> QED
  BY <1>2, <1>4, <1>5, <1>6 DEF RunInv

LEMMA ExitInv ==
    ASSUME RunInv, NEW p \in Runs, ExitRun(p)
    PROVE  RunInv'
<1> USE DEF LP!LockInv, LP!LockBounded, LP!LockTypeOK
<1>1. LP!Exit(p) /\ UNCHANGED <<checkoutVars, at, agenda>>
  BY SameLock DEF ExitRun
<1>2. LP!LockInv'
  BY <1>1, PartsAssumed, LP!LockInvMove DEF RunInv
<1>3. lpc[p] = "released" /\ lpc' = [lpc EXCEPT ![p] = "done"]
  BY <1>1 DEF LP!Exit, LP!Goto
<1>4. RunTyped' /\ CP!CheckoutCore'
  BY <1>1, CoreUnchanged DEF RunInv, RunTyped
<1>5. \A q \in Runs : Stage(q)'
  BY <1>1, <1>3
  DEF RunInv, RunTyped, Stage, Holding, L!Acquiring, CP!Active, checkoutVars
<1>6. \A x \in Restorers : Alone(x)'
  BY <1>1, <1>3 DEF RunInv, Alone, CP!Active, L!Acquiring, checkoutVars
<1> QED
  BY <1>2, <1>4, <1>5, <1>6 DEF RunInv

(***************************************************************************)
(* What a step inside the stash leaves to show.  It may be a run's, which  *)
(* stays in the swap loop, or that of a Restore of its own.                *)
(***************************************************************************)
LEMMA StashStepInv ==
    ASSUME RunInv, UNCHANGED <<lockVars, at>>, RunTyped', CP!CheckoutCore',
           NEW p \in CP!Procs, \A q \in CP!Procs \ {p} : phase'[q] = phase[q],
           dir' => dir \/ (p \in Runs /\ at[p] = "base"),
           p \in Runs => Stage(p)',
           p \in Restorers => Alone(p)'
    PROVE  RunInv'
<1> USE DEF CP!Procs
<1>1. LP!LockInv'
  BY LockUnchanged DEF RunInv
<1>2. ASSUME NEW q \in Runs, q # p PROVE Stage(q)'
  <2>1. at[q] \in Holding => (dir' => dir)
    BY <1>2, HolderAlone DEF Holding
  <2> QED
    BY <1>2, <2>1 DEF RunInv, Stage, Holding, CP!Active, lockVars
<1>3. ASSUME NEW x \in Restorers, x # p PROVE Alone(x)'
  <2>1. phase'[x] = phase[x] /\ UNCHANGED lpc
    BY <1>3 DEF lockVars
  <2>2. CASE p \in Runs
    BY <1>3, <2>1, <2>2, RunAssumption DEF RunInv, Alone, CP!Active
  <2>3. CASE p \in Restorers
    \* If both were active afterwards, Alone(p)' would not hold.
    BY <1>3, <2>1, <2>3 DEF RunInv, Alone, CP!Active
  <2> QED
    BY <2>2, <2>3
<1> QED
  BY <1>1, <1>2, <1>3 DEF RunInv

LEMMA NextSwapInv ==
    ASSUME RunInv, NEW p \in Runs, NextSwap(p)
    PROVE  RunInv'
<1>1. /\ UNCHANGED <<lockVars, at>> /\ at[p] = "base" /\ p \in CP!Procs
      /\ CP!CheckoutTypeOK
  BY CoreTypes DEF NextSwap, RunInv, CP!Procs
<1>2. PICK S \in agenda[p] :
        CP!BeginSwap(p, S) /\ agenda' = [agenda EXCEPT ![p] = @ \ {S}]
  BY SameSwap DEF NextSwap
<1>3. RunTyped' /\ S \in Slices
  BY <1>1, <1>2 DEF RunInv, RunTyped
<1>4. ~dir /\ \A q \in CP!Procs \ {p} : ~CP!Uses(q)
  BY <1>1, <1>2, HolderAlone DEF CP!BeginSwap, RunInv, Stage, Holding
<1>5. CP!CheckoutCore'
  <2>1. CP!CheckoutTyped'
    BY <1>1, <1>2, <1>3, CoreTypes, PartsAssumed, CP!SwapTyped DEF RunInv
  <2> QED
    BY <1>1, <1>2, <1>3, <1>4, <2>1, PartsAssumed, CP!BeginSwapCore DEF RunInv
<1>6. /\ \A q \in CP!Procs \ {p} : phase'[q] = phase[q]
      /\ phase'[p] \in {"save", "check"}
  BY <1>1, <1>2, <1>4
  DEF CP!BeginSwap, CP!UndoRevert, CP!Goto, CP!CheckoutTypeOK
<1>7. Stage(p)'
  BY <1>1, <1>6 DEF RunInv, Stage, Holding, L!Acquiring, lockVars
<1> QED
  BY <1>1, <1>3, <1>5, <1>6, <1>7, RunAssumption, StashStepInv

LEMMA SwapToBaseInv ==
    ASSUME RunInv, NEW p \in Runs, SwapToBase(p)
    PROVE  RunInv'
<1>1. /\ UNCHANGED <<lockVars, at, agenda>> /\ CP!SwapStep(p)
      /\ p \in CP!Procs /\ CP!CheckoutTypeOK
  BY SameSwap, CoreTypes DEF SwapToBase, RunInv, CP!Procs
<1>2. RunTyped'
  BY <1>1 DEF RunInv, RunTyped
<1>3. CP!CheckoutCore'
  <2>1. CP!CheckoutTyped'
    BY <1>1, CoreTypes, PartsAssumed, CP!SwapTyped DEF RunInv
  <2> QED
    BY <1>1, <2>1, PartsAssumed, CP!SaveCore, CP!ManifestCore, CP!RevertCore
    DEF RunInv, CP!SwapStep
<1>4. /\ \A q \in CP!Procs \ {p} : phase'[q] = phase[q]
      /\ UNCHANGED dir
      /\ CP!Active(p) /\ phase'[p] \in CP!SwapPhases \cup {"check"}
  BY <1>1, SwapEffect DEF CP!Active
<1>5. Stage(p)'
  BY <1>1, <1>4
  DEF RunInv, Stage, Holding, L!Acquiring, CP!SwapPhases, lockVars
<1> QED
  BY <1>1, <1>2, <1>3, <1>4, <1>5, RunAssumption, StashStepInv

LEMMA PutBackInv ==
    ASSUME RunRegime, RunInv, NEW p \in CP!Procs, PutBack(p)
    PROVE  RunInv'
<1>1. /\ UNCHANGED <<lockVars, at, agenda>> /\ CP!PutBackStep(p)
      /\ CP!CheckoutTypeOK
  BY SameRestore, CoreTypes DEF PutBack, RunInv
<1>2. RunTyped'
  BY <1>1 DEF RunInv, RunTyped
<1>3. CP!CheckoutCore'
  <2>1. CP!CheckoutTyped'
    BY <1>1, CoreTypes, PartsAssumed, CP!RestoreTyped DEF RunInv
  <2> QED
    BY <1>1, <2>1, PartsAssumed, CP!ReadCore, CP!PutBackCore, CP!CleanCore
    DEF RunInv, RunRegime, CP!PutBackStep
<1>4. /\ \A q \in CP!Procs \ {p} : phase'[q] = phase[q]
      /\ dir' => dir
      /\ phase[p] \in {"read", "putback", "clean"}
      /\ phase'[p] \in {"read", "putback", "clean", "failed", "done", "idle"}
      /\ phase'[p] = "idle" => ~dir'
  BY <1>1, PutBackEffect
<1>5. p \in Runs => Stage(p)'
  BY <1>1, <1>4
  DEF RunInv, Stage, Holding, L!Acquiring, CP!Active, CP!RestorePhases,
      lockVars
<1>6. p \in Restorers => Alone(p)'
  BY <1>1, <1>4, RunAssumption
  DEF RunInv, Alone, CP!Active, CP!RestorePhases, CP!Procs, lockVars
<1> QED
  BY <1>1, <1>2, <1>3, <1>4, <1>5, <1>6, StashStepInv

(***************************************************************************)
(* A run's Restore is never refused: the lock is its own.  A Restore of    *)
(* its own is refused while a run holds the lock.                          *)
(***************************************************************************)
LEMMA LookAtLockInv ==
    ASSUME RunInv, NEW p \in CP!Procs, LookAtLock(p)
    PROVE  RunInv'
<1>1. /\ UNCHANGED <<lockVars, at, agenda>> /\ CP!CheckoutTypeOK
      /\ IF HeldByOther(p) THEN CP!RefuseRestore(p) ELSE CP!PassCheck(p)
  BY SameRestore, CoreTypes DEF LookAtLock, RunInv
<1>2. /\ phase[p] = "check"
      /\ phase' = [phase EXCEPT ![p] = IF HeldByOther(p) THEN "failed" ELSE "read"]
      /\ UNCHANGED dir
  BY <1>1 DEF CP!RefuseRestore, CP!PassCheck, CP!Goto, CP!stashVars
<1>3. \A q \in CP!Procs \ {p} : phase'[q] = phase[q]
  BY <1>1, <1>2 DEF CP!CheckoutTypeOK
<1>4. RunTyped'
  BY <1>1 DEF RunInv, RunTyped
<1>5. CASE p \in Runs
  <2>1. at[p] = "base" /\ ~HeldByOther(p)
    BY <1>2, <1>5, HolderAlone
    DEF RunInv, Stage, CP!Active, CP!RestorePhases, Holding, HeldByOther
  <2>2. \A q \in CP!Procs \ {p} : ~CP!Uses(q)
    BY <1>5, <2>1, HolderAlone DEF Holding
  <2>3. CP!CheckoutTyped'
    BY <1>1, CoreTypes, PartsAssumed, CP!RestoreTyped DEF RunInv
  <2>4. CP!CheckoutCore'
    BY <1>1, <2>1, <2>2, <2>3, PartsAssumed, CP!LookCore DEF RunInv
  <2>5. Stage(p)'
    BY <1>1, <1>2, <1>5, <2>1, HolderAlone
    DEF Stage, Holding, L!Acquiring, lockVars, CP!CheckoutTypeOK
  <2> QED
    BY <1>1, <1>2, <1>3, <1>4, <1>5, <2>4, <2>5, RunAssumption, StashStepInv
<1>6. CASE p \in Restorers
  <2>1. p \notin Runs /\ p # None /\ lock # p
    BY <1>6, RunAssumption
    DEF RunInv, LP!LockInv, LP!LockBounded, LP!LockTypeOK
  <2>2. ~HeldByOther(p) => \A q \in Runs : lpc[q] # "held"
    BY <2>1, HolderAlone DEF HeldByOther, RunInv, Stage
  <2>3. ~HeldByOther(p) => \A q \in CP!Procs \ {p} : ~CP!Uses(q)
    <3> SUFFICES ASSUME ~HeldByOther(p), NEW q \in CP!Procs \ {p}
                 PROVE  ~CP!Uses(q)
      OBVIOUS
    <3>1. CASE q \in Runs
      BY <2>2, <3>1 DEF RunInv, Stage, Holding, CP!Uses, CP!Active,
                        CP!SwapPhases, CP!RestorePhases
    <3>2. CASE q \in Restorers
      BY <1>2, <1>6, <3>2, RunAssumption
      DEF RunInv, Alone, CP!Uses, CP!Active, CP!SwapPhases, CP!RestorePhases
    <3> QED
      BY <3>1, <3>2 DEF CP!Procs
  <2>4. CP!CheckoutTyped'
    BY <1>1, CoreTypes, PartsAssumed, CP!RestoreTyped DEF RunInv
  <2>5. CP!CheckoutCore'
    BY <1>1, <2>3, <2>4, PartsAssumed, CP!LookCore DEF RunInv
  <2>6. Alone(p)'
    <3>1. CP!Active(p)
      BY <1>2 DEF CP!Active, CP!RestorePhases
    <3>2. /\ \A q \in Runs : lpc[q] \notin L!Acquiring
          /\ \A y \in Restorers \ {p} : ~CP!Active(y)
      BY <1>6, <3>1 DEF RunInv, Alone
    <3>3. \A y \in Restorers \ {p} : ~CP!Active(y)'
      BY <1>3, <3>2 DEF CP!Active, CP!Procs
    <3>4. phase'[p] \in {"read", "putback", "clean"} => ~HeldByOther(p)
      BY <1>1, <1>2 DEF CP!CheckoutTypeOK
    <3> QED
      BY <1>1, <2>2, <3>2, <3>3, <3>4 DEF Alone, lockVars
  <2> QED
    BY <1>1, <1>2, <1>3, <1>4, <2>1, <2>5, <2>6, StashStepInv
<1> QED
  BY <1>5, <1>6 DEF CP!Procs

(***************************************************************************)
(* A kill of a run takes it out of the lock and of the stash at once.      *)
(***************************************************************************)
LEMMA CrashEffect ==
    ASSUME CP!CheckoutTypeOK, NEW p \in CP!Procs, CP!CheckoutCrash(p)
    PROVE  phase' = [phase EXCEPT ![p] = "dead"] /\ UNCHANGED dir
BY DEF CP!CheckoutCrash, CP!Goto, CP!stashVars

LEMMA RunCrashInv ==
    ASSUME RunRegime, RunInv, NEW p \in Runs, RunCrash(p)
    PROVE  RunInv'
<1> USE DEF LP!LockInv, LP!LockBounded, LP!LockTypeOK
<1>1. /\ LP!Crash(p) /\ CP!CheckoutCrash(p) /\ p \in CP!Procs
      /\ at' = [at EXCEPT ![p] = "over"] /\ UNCHANGED agenda
      /\ CP!CheckoutTypeOK
  BY SameLock, SameRestore, CoreTypes DEF RunCrash, Move, RunInv, CP!Procs
<1>2. LP!LockInv'
  BY <1>1, PartsAssumed, LP!LockInvMove DEF RunInv
<1>3. CP!CheckoutCore'
  <2>1. CP!CheckoutTyped'
    BY <1>1, CoreTypes, PartsAssumed, CP!RestoreTyped DEF RunInv
  <2> QED
    BY <1>1, <2>1, PartsAssumed, CP!CrashCore DEF RunInv, RunRegime
<1>4. /\ lpc' = [lpc EXCEPT ![p] = "dead"]
      /\ phase' = [phase EXCEPT ![p] = "dead"] /\ UNCHANGED dir
  BY <1>1, CrashEffect DEF LP!Crash, LP!Goto
<1>5. RunTyped'
  BY <1>1 DEF RunInv, RunTyped
<1>6. \A q \in Runs : Stage(q)'
  <2>1. Stage(p)'
    BY <1>1, <1>4
    DEF RunInv, RunTyped, Stage, Holding, L!Acquiring, CP!Active,
        CP!SwapPhases, CP!RestorePhases, CP!CheckoutTypeOK
  <2>2. ASSUME NEW q \in Runs, q # p PROVE Stage(q)'
    BY <1>1, <1>4, <2>2 DEF RunInv, RunTyped, Stage, CP!Active,
                            CP!CheckoutTypeOK
  <2> QED
    BY <2>1, <2>2
<1>7. \A x \in Restorers : Alone(x)'
  BY <1>1, <1>4, RunAssumption
  DEF RunInv, Alone, CP!Active, L!Acquiring, CP!CheckoutTypeOK
<1> QED
  BY <1>2, <1>3, <1>5, <1>6, <1>7 DEF RunInv

LEMMA StartRestoreInv ==
    ASSUME RunRegime, RunInv, NEW x \in Restorers, StartRestore(x)
    PROVE  RunInv'
<1>1. /\ Calm(x) /\ CP!CallRestore(x) /\ UNCHANGED <<lockVars, at, agenda>>
      /\ x \in CP!Procs /\ x \notin Runs /\ CP!CheckoutTypeOK
  BY SameRestore, CoreTypes, RunAssumption
  DEF StartRestore, RunRegime, RunInv, CP!Procs
<1>2. phase' = [phase EXCEPT ![x] = "check"] /\ UNCHANGED dir
  BY <1>1 DEF CP!CallRestore, CP!Goto, CP!stashVars
<1>3. RunTyped'
  BY <1>1 DEF RunInv, RunTyped
<1>4. CP!CheckoutCore'
  <2>1. CP!CheckoutTyped'
    BY <1>1, CoreTypes, PartsAssumed, CP!RestoreTyped DEF RunInv
  <2> QED
    BY <1>1, <2>1, PartsAssumed, CP!LookCore DEF RunInv
<1>5. \A q \in CP!Procs \ {x} : phase'[q] = phase[q]
  BY <1>1, <1>2 DEF CP!CheckoutTypeOK
<1>6. Alone(x)'
  <2>1. \A y \in Restorers \ {x} : ~CP!Active(y)
    BY <1>1 DEF Calm, C!Active, CP!Active, C!SwapPhases, CP!SwapPhases,
                C!RestorePhases, CP!RestorePhases
  <2>2. \A y \in Restorers \ {x} : ~CP!Active(y)'
    BY <1>5, <2>1 DEF CP!Active, CP!Procs
  <2>3. \A q \in Runs : lpc'[q] \notin L!Acquiring
    BY <1>1 DEF Calm, lockVars
  <2>4. phase'[x] = "check"
    BY <1>1, <1>2 DEF CP!CheckoutTypeOK
  <2> QED
    BY <2>2, <2>3, <2>4 DEF Alone
<1> QED
  BY <1>1, <1>2, <1>3, <1>4, <1>5, <1>6, StashStepInv

LEMMA RestorerCrashInv ==
    ASSUME RunRegime, RunInv, NEW x \in Restorers, RestorerCrash(x)
    PROVE  RunInv'
<1>1. /\ CP!CheckoutCrash(x) /\ UNCHANGED <<lockVars, at, agenda>>
      /\ x \in CP!Procs /\ x \notin Runs /\ CP!CheckoutTypeOK
  BY SameRestore, CoreTypes, RunAssumption DEF RestorerCrash, RunInv, CP!Procs
<1>2. phase' = [phase EXCEPT ![x] = "dead"] /\ UNCHANGED dir
  BY <1>1, CrashEffect
<1>3. RunTyped'
  BY <1>1 DEF RunInv, RunTyped
<1>4. CP!CheckoutCore'
  <2>1. CP!CheckoutTyped'
    BY <1>1, CoreTypes, PartsAssumed, CP!RestoreTyped DEF RunInv
  <2> QED
    BY <1>1, <2>1, PartsAssumed, CP!CrashCore DEF RunInv, RunRegime
<1>5. \A q \in CP!Procs \ {x} : phase'[q] = phase[q]
  BY <1>1, <1>2 DEF CP!CheckoutTypeOK
<1>6. Alone(x)'
  BY <1>1, <1>2
  DEF Alone, CP!Active, CP!SwapPhases, CP!RestorePhases, CP!CheckoutTypeOK
<1> QED
  BY <1>1, <1>2, <1>3, <1>4, <1>5, <1>6, StashStepInv

LEMMA RunInvStep ==
    ASSUME RunRegime, RunInv, [RunNext]_runVars
    PROVE  RunInv'
<1>1. ASSUME NEW p \in Runs, StartRun(p) \/ RunStep(p) \/ RunCrash(p)
      PROVE  RunInv'
  <2>1. p \in CP!Procs
    BY DEF CP!Procs
  <2> QED
    BY <1>1, <2>1, StartRunInv, AcquireInv, OnwardInv, NextSwapInv,
       SwapToBaseInv, LookAtLockInv, PutBackInv, ReturnInv, ExitInv,
       RunCrashInv
    DEF RunStep
<1>2. ASSUME NEW x \in Restorers,
             StartRestore(x) \/ RestorerStep(x) \/ RestorerCrash(x)
      PROVE  RunInv'
  <2>1. x \in CP!Procs
    BY DEF CP!Procs
  <2> QED
    BY <1>2, <2>1, StartRestoreInv, LookAtLockInv, PutBackInv,
       RestorerCrashInv
    DEF RestorerStep
<1>3. CASE AllOver \/ UNCHANGED runVars
  <2>1. UNCHANGED <<lockVars, checkoutVars, at, agenda>>
    BY <1>3 DEF AllOver, runVars
  <2>2. LP!LockInv' /\ CP!CheckoutCore'
    BY <2>1, LockUnchanged, CoreUnchanged DEF RunInv
  <2>3. RunTyped'
    BY <2>1 DEF RunInv, RunTyped
  <2>4. (\A p \in Runs : Stage(p)') /\ (\A x \in Restorers : Alone(x)')
    BY <2>1 DEF RunInv, Stage, Alone, CP!Active, lockVars, checkoutVars
  <2> QED
    BY <2>2, <2>3, <2>4 DEF RunInv
<1> QED
  BY <1>1, <1>2, <1>3 DEF RunNext

-----------------------------------------------------------------------------

LEMMA NoStashTreeNew ==
    ASSUME RunInv, ~dir
    PROVE  TreeNew
BY DEF RunInv, CP!CheckoutCore, CP!DiskInv, CP!TreeNew, TreeNew, C!New, CP!New

LEMMA RunInvImplies ==
    ASSUME RunInv
    PROVE  WorkSafe /\ RunsOnRightTree /\ OneUser
<1>1. WorkSafe
  BY DEF RunInv, CP!CheckoutCore, CP!DiskInv, CP!TreeNew, CP!Intact, WorkSafe,
         C!WorkSafe, C!New, CP!New, C!Backed, CP!Backed, C!Backing, CP!Backing
<1>2. \A p \in Runs : at[p] = "newrun" => TreeNew
  BY NoStashTreeNew DEF RunInv, Stage
<1>3. C!OldRunOnBase
  <2>1. \A p \in CP!Procs : phase[p] = "swapped" =>
          CP!Through(p, CP!Old) /\ todo[p] = {}
    BY DEF RunInv, CP!CheckoutCore, CP!Knows
  <2> QED
    BY <2>1 DEF C!OldRunOnBase, C!Procs, CP!Procs, C!Listed, C!Old, CP!Old,
                C!New, CP!New, CP!Through, CP!Intact
<1>4. OneUser
  <2>1. ASSUME NEW p \in Runs, at[p] \in {"newrun", "base"}, NEW x \in Restorers
        PROVE  phase[x] \notin {"read", "putback", "clean"}
    BY <2>1, HolderAlone DEF RunInv, Alone, Holding
  <2> QED
    BY <2>1, HolderAlone DEF OneUser, Holding
<1> QED
  BY <1>1, <1>2, <1>3, <1>4 DEF RunsOnRightTree

LEMMA RunInvHolds ==
    ASSUME RunRegime
    PROVE  RunSpec => []RunInv
<1>1. RunInv /\ [RunNext]_runVars => RunInv'
  BY RunInvStep
<1> QED
  BY <1>1, RunInvInit, PTL DEF RunSpec

(***************************************************************************)
(* Whole runs and Restores lose no work: what the change has is in the     *)
(* tree, or the stash on disk leads Restore to it, after any number of     *)
(* runs, kills and failed system calls.                                    *)
(***************************************************************************)
THEOREM RunsLoseNoWork ==
    ASSUME RunRegime
    PROVE  RunSpec => []WorkSafe
<1>1. RunInv => WorkSafe
  BY RunInvImplies
<1> QED
  BY <1>1, RunInvHolds, PTL

(***************************************************************************)
(* The new run of the tests sees the whole change, and the old run the     *)
(* base for its slice and the change for the rest.                         *)
(***************************************************************************)
THEOREM RunsSeeTheirTree ==
    ASSUME RunRegime
    PROVE  RunSpec => []RunsOnRightTree
<1>1. RunInv => RunsOnRightTree
  BY RunInvImplies
<1> QED
  BY <1>1, RunInvHolds, PTL

(***************************************************************************)
(* "Only one prove run may use a checkout at a time": a run past its look  *)
(* for a stash is the only one, and no Restore of its own is beyond its    *)
(* look at the lock.                                                       *)
(***************************************************************************)
THEOREM CheckoutHasOneUser ==
    ASSUME RunRegime
    PROVE  RunSpec => []OneUser
<1>1. RunInv => OneUser
  BY RunInvImplies
<1> QED
  BY <1>1, RunInvHolds, PTL

(***************************************************************************)
(* A run whose swaps all came back returns with no stash on the disk and   *)
(* every file as the change has it.                                        *)
(***************************************************************************)
THEOREM RunsLeaveNoTrace ==
    ASSUME RunRegime
    PROVE  RunSpec => LeavesNoTrace
<1>1. RunInv /\ [RunNext]_runVars
        => [\A p \in Runs :
              at[p] = "base" /\ at'[p] = "return" /\ phase[p] = "idle"
                => ~dir /\ TreeNew]_runVars
  BY NoStashTreeNew DEF RunInv, Stage
<1> QED
  BY <1>1, RunInvHolds, PTL DEF RunSpec, LeavesNoTrace

-----------------------------------------------------------------------------

(***************************************************************************)
(* The stash of whole runs and Restores is the undo log of UndoLog too.    *)
(***************************************************************************)
LEMMA SameUndo ==
    /\ C!StashAsLog = CP!StashAsLog
    /\ C!NoLog = CP!NoLog
    /\ [f \in Paths |-> C!New(f)] = [f \in Paths |-> CP!New(f)]
    /\ C!Versions = CP!Versions
BY DEF C!StashAsLog, CP!StashAsLog, C!NoLog, CP!NoLog, C!Listed, CP!Listed,
       C!Backed, CP!Backed, C!Backing, CP!Backing, C!New, CP!New,
       C!Versions, CP!Versions

LEMMA RunUndoStep ==
    ASSUME RunRegime, RunInv, [RunNext]_runVars
    PROVE  CP!UndoStep
<1> USE DEF RunInv
<1>0. ASSUME UNCHANGED <<tree, manifest, entries, saved>> PROVE CP!UndoStep
  <2>1. CP!StashAsLog' = CP!StashAsLog
    BY <1>0 DEF CP!StashAsLog, CP!Listed, CP!Backed, CP!Backing, CP!NoLog
  <2>2. UNCHANGED CP!Undo!undoVars
    BY <1>0, <2>1 DEF CP!Undo!undoVars
  <2> QED
    BY <2>2 DEF CP!UndoStep
<1>1. ASSUME UNCHANGED checkoutVars PROVE CP!UndoStep
  BY <1>0, <1>1 DEF checkoutVars
<1>2. ASSUME NEW p \in CP!Procs, NEW S \in Slices,
             C!BeginSwap(p, S)
      PROVE  CP!UndoStep
  <2>1. CP!BeginSwap(p, S)
    BY <1>2, SameSwap
  <2> QED
    BY <1>0, <2>1 DEF CP!BeginSwap
<1>3. ASSUME NEW p \in CP!Procs, C!SwapStep(p) PROVE CP!UndoStep
  BY <1>3, PartsAssumed, SameSwap, CP!SwapUndoes
<1>4. ASSUME NEW p \in CP!Procs,
             \/ C!CallRestore(p) \/ C!PassCheck(p) \/ C!RefuseRestore(p)
             \/ C!PutBackStep(p) \/ C!CheckoutCrash(p)
      PROVE  CP!UndoStep
  <2>1. \/ CP!CallRestore(p) \/ CP!PassCheck(p) \/ CP!RefuseRestore(p)
        \/ CP!PutBackStep(p) \/ CP!CheckoutCrash(p)
    BY <1>4, SameRestore
  <2> QED
    BY <2>1, PartsAssumed, CP!RestoreUndoes
<1>5. ASSUME NEW p \in Runs, StartRun(p) \/ RunStep(p) \/ RunCrash(p)
      PROVE  CP!UndoStep
  <2>1. p \in CP!Procs
    BY DEF CP!Procs
  <2>2. NextSwap(p) => \E S \in Slices : C!BeginSwap(p, S)
    BY DEF NextSwap, RunTyped
  <2> QED
    BY <1>1, <1>2, <1>3, <1>4, <1>5, <2>1, <2>2
    DEF StartRun, RunStep, Acquire, LookForStash, NewRunEnds, SwapToBase,
        LookAtLock, PutBack, EndSwaps, Return, ExitRun, RunCrash
<1>6. ASSUME NEW x \in Restorers,
             StartRestore(x) \/ RestorerStep(x) \/ RestorerCrash(x)
      PROVE  CP!UndoStep
  <2>1. x \in CP!Procs
    BY DEF CP!Procs
  <2> QED
    BY <1>4, <1>6, <2>1
    DEF StartRestore, RestorerStep, LookAtLock, PutBack, RestorerCrash
<1> QED
  BY <1>1, <1>5, <1>6 DEF RunNext, AllOver, runVars

(***************************************************************************)
(* Whole runs and Restores, with the lock between them, implement the undo *)
(* log: from process to process, through kills and failures, the paths are *)
(* logged in one step before one is touched, only logged paths are touched *)
(* and the log goes in one step when every path is back.                   *)
(***************************************************************************)
THEOREM RunsImplementLog ==
    ASSUME RunRegime
    PROVE  RunSpec => C!StashIsUndoLog
<1>1. RunInit => C!Undo!UndoInit
  BY DEF RunInit, C!CheckoutInit, C!Undo!UndoInit, C!StashAsLog
<1>2. CP!UndoStep => [C!Undo!UndoNext]_(C!Undo!undoVars)
  <2>1. C!StashAsLog' = CP!StashAsLog'
    BY DEF C!StashAsLog, CP!StashAsLog, C!NoLog, CP!NoLog, C!Listed,
           CP!Listed, C!Backed, CP!Backed, C!Backing, CP!Backing
  <2>2. \A S : CP!Undo!Log(S) => C!Undo!Log(S)
    BY <2>1, SameUndo DEF CP!Undo!Log, C!Undo!Log
  <2>3. \A f : CP!Undo!Touch(f) => C!Undo!Touch(f)
    BY <2>1, SameUndo DEF CP!Undo!Touch, C!Undo!Touch
  <2>4. CP!Undo!GiveUpLog => C!Undo!GiveUpLog
    BY <2>1, SameUndo DEF CP!Undo!GiveUpLog, C!Undo!GiveUpLog
  <2>5. UNCHANGED CP!Undo!undoVars => UNCHANGED C!Undo!undoVars
    BY <2>1, SameUndo DEF CP!Undo!undoVars, C!Undo!undoVars
  <2> QED
    BY <2>2, <2>3, <2>4, <2>5
    DEF CP!UndoStep, CP!Undo!UndoNext, C!Undo!UndoNext
<1>3. RunInv /\ [RunNext]_runVars => [C!Undo!UndoNext]_(C!Undo!undoVars)
  BY <1>2, RunUndoStep
<1> QED
  BY <1>1, <1>3, RunInvHolds, PTL DEF RunSpec, C!StashIsUndoLog, C!Undo!UndoSpec
=============================================================================
