-------------------------- MODULE ProveLockProofs --------------------------
(***************************************************************************)
(* Proofs about ProveLock: for any number of processes, any assignment of  *)
(* pids, and kills anywhere, the lock excludes as long as no two processes *)
(* are inside acquire at once and the pid reaches the file.                *)
(***************************************************************************)
EXTENDS ProveLock, TLAPS

(***************************************************************************)
(* Inside the loop body fewer than two attempts have failed, which is what *)
(* keeps tries within its type when Steal counts one more.                 *)
(***************************************************************************)
InLoop == \A p \in Procs : lpc[p] \in {"inspect", "steal"} => tries[p] < 2

(***************************************************************************)
(* A pid is read from a lock file only after acquire returned.             *)
(***************************************************************************)
NamedPast == \A p \in named : lpc[p] \in {"held", "released", "done", "dead"}

LockBounded == LockTypeOK /\ InLoop /\ NamedPast

LEMMA LockBoundedInit == LockInit => LockBounded
BY DEF LockInit, LockBounded, LockTypeOK, InLoop, NamedPast, Acquiring

LEMMA LockBoundedStep == LockBounded /\ [LockNext]_lockVars => LockBounded'
<1> USE DEF LockBounded, LockTypeOK, InLoop, NamedPast, Acquiring, Ended
<1> SUFFICES ASSUME LockBounded, [LockNext]_lockVars PROVE LockBounded'
  OBVIOUS
<1>1. ASSUME NEW p \in Procs, Start(p) PROVE LockBounded'
  BY <1>1 DEF Start, Goto
<1>2. ASSUME NEW p \in Procs, Create(p) PROVE LockBounded'
  BY <1>2 DEF Create, Goto
<1>3. ASSUME NEW p \in Procs, GiveUp(p) PROVE LockBounded'
  BY <1>3 DEF GiveUp, Goto
<1>4. ASSUME NEW p \in Procs, WritePid(p) PROVE LockBounded'
  BY <1>4 DEF WritePid, Goto
<1>5. ASSUME NEW p \in Procs, Inspect(p) PROVE LockBounded'
  BY <1>5 DEF Inspect, Goto
<1>6. ASSUME NEW p \in Procs, Steal(p) PROVE LockBounded'
  BY <1>6 DEF Steal, RemoveLock, Goto
<1>7. ASSUME NEW p \in Procs, Release(p) PROVE LockBounded'
  BY <1>7 DEF Release, RemoveLock, Goto
<1>8. ASSUME NEW p \in Procs, Crash(p) PROVE LockBounded'
  BY <1>8 DEF Crash, Live, Inside, Goto
<1>9. ASSUME NEW p \in Procs, Exit(p) PROVE LockBounded'
  BY <1>9 DEF Exit, Goto
<1>10. CASE AllEnded \/ UNCHANGED lockVars
  BY <1>10 DEF AllEnded, lockVars
<1> QED
  BY <1>1, <1>2, <1>3, <1>4, <1>5, <1>6, <1>7, <1>8, <1>9, <1>10
  DEF LockNext, AcquireStep

(***************************************************************************)
(* Every variable of the lock keeps its type, and acquire makes at most    *)
(* two attempts, whatever fails and however the processes overlap.         *)
(***************************************************************************)
THEOREM LockTyped == LockSpec => []LockTypeOK
<1>1. LockBounded => LockTypeOK
  BY DEF LockBounded
<1> QED
  BY <1>1, LockBoundedInit, LockBoundedStep, PTL DEF LockSpec

-----------------------------------------------------------------------------

(***************************************************************************)
(* LockInv is the inductive strengthening of Mutex.  The holder's file is  *)
(* the one at the path and names it; a process that has created its file   *)
(* and one that is about to remove the file both exclude every holder.     *)
(***************************************************************************)
OneAcquires ==
    \A p, q \in Procs : lpc[p] \in Acquiring /\ lpc[q] \in Acquiring => p = q

CreatorOwns == \A p \in Procs : lpc[p] = "name" => lock = p

StealExcludes ==
    \A p, q \in Procs : lpc[p] = "steal" => lpc[q] # "held"

LockInv ==
    /\ LockBounded
    /\ OneAcquires
    /\ CreatorOwns
    /\ HolderIsNamed
    /\ StealExcludes

LEMMA LockInvInit == LockInit => LockInv
BY LockBoundedInit
DEF LockInit, LockInv, OneAcquires, CreatorOwns, HolderIsNamed,
    StealExcludes, Acquiring

(***************************************************************************)
(* A process enters acquire while nobody else is inside.                   *)
(***************************************************************************)
LEMMA LockInvStart ==
    ASSUME LockInv, NEW p \in Procs, Start(p),
           \A q \in Procs : lpc[q] \notin Acquiring
    PROVE  LockInv'
<1>1. LockBounded'
  BY LockBoundedStep DEF LockInv, LockNext
<1> QED
  BY <1>1
  DEF LockInv, LockBounded, LockTypeOK, OneAcquires, CreatorOwns,
      HolderIsNamed, StealExcludes, Acquiring, Start, Goto

(***************************************************************************)
(* Every other step, once entries do not overlap.                          *)
(***************************************************************************)
LEMMA LockInvMove ==
    ASSUME "write" \notin Fails, LockInv, NEW p \in Procs,
           AcquireStep(p) \/ Release(p) \/ Exit(p) \/ Crash(p)
    PROVE  LockInv'
<1> USE DEF LockBounded, LockTypeOK, OneAcquires, CreatorOwns,
            HolderIsNamed, StealExcludes, Acquiring
<1> DEFINE Rest == /\ OneAcquires
                   /\ CreatorOwns
                   /\ HolderIsNamed
                   /\ StealExcludes
<1>1. LockBounded /\ Rest
  BY DEF LockInv
<1>2. LockBounded'
  BY LockBoundedStep DEF LockInv, LockNext
<1>3. Rest'
  <2>1. CASE Create(p)
    BY <1>1, <2>1, LockAssumption DEF Create, Goto
  <2>2. CASE GiveUp(p)
    BY <1>1, <2>2 DEF GiveUp, Goto
  <2>3. CASE WritePid(p)
    BY <1>1, <2>3 DEF WritePid, Goto
  <2>4. CASE Inspect(p)
    \* A live holder is named by the file, so Inspect refuses.
    <3>1. \A q \in Procs : lpc[q] = "held" => HeldByLive
      BY <1>1, LockAssumption DEF HeldByLive, Alive, Live, Inside
    <3> QED
      BY <1>1, <2>4, <3>1 DEF Inspect, Goto
  <2>5. CASE Steal(p)
    BY <1>1, <2>5 DEF Steal, RemoveLock, Goto
  <2>6. CASE Release(p)
    \* No process is at "name": the file at the path is the holder's.
    BY <1>1, <2>6 DEF Release, RemoveLock, Goto
  <2>7. CASE Crash(p)
    BY <1>1, <2>7 DEF Crash, Goto
  <2>8. CASE Exit(p)
    BY <1>1, <2>8 DEF Exit, Goto
  <2> QED
    BY <2>1, <2>2, <2>3, <2>4, <2>5, <2>6, <2>7, <2>8 DEF AcquireStep
<1> QED
  BY <1>2, <1>3 DEF LockInv

LEMMA LockInvStep ==
    ASSUME ~Overlap, "write" \notin Fails, LockInv, [LockNext]_lockVars
    PROVE  LockInv'
<1>1. ASSUME NEW p \in Procs, Start(p) PROVE LockInv'
  BY <1>1, LockInvStart DEF Start
<1>2. ASSUME NEW p \in Procs,
             AcquireStep(p) \/ Release(p) \/ Exit(p) \/ Crash(p)
      PROVE  LockInv'
  BY <1>2, LockInvMove
<1>3. CASE AllEnded \/ UNCHANGED lockVars
  BY <1>3 DEF AllEnded, lockVars, LockInv, LockBounded, LockTypeOK, InLoop,
              NamedPast, OneAcquires, CreatorOwns, HolderIsNamed,
              StealExcludes
<1> QED
  BY <1>1, <1>2, <1>3 DEF LockNext

(***************************************************************************)
(* Two runs are never past acquire together, for any processes and pids,   *)
(* if their calls of acquire do not overlap and the pid is written.        *)
(***************************************************************************)
THEOREM LockExcludes ==
    ASSUME ~Overlap, "write" \notin Fails
    PROVE  LockSpec => [](Mutex /\ HolderIsNamed)
<1>1. LockInv => Mutex /\ HolderIsNamed
  BY DEF LockInv, Mutex, HolderIsNamed
<1>2. LockInv /\ [LockNext]_lockVars => LockInv'
  BY LockInvStep
<1> QED
  BY <1>1, <1>2, LockInvInit, PTL DEF LockSpec

(***************************************************************************)
(* A process whose lock file is at the path, and that has released, is one *)
(* whose own removal failed: it created one file only.                     *)
(***************************************************************************)
LingersByFailure ==
    \A p \in Procs : lpc[p] = "released" /\ lock = p => "remove" \in Fails

LEMMA LingersStep ==
    ASSUME LockBounded, LingersByFailure, [LockNext]_lockVars
    PROVE  LingersByFailure'
<1> USE LockAssumption
    DEF LockBounded, LockTypeOK, LingersByFailure
<1>1. ASSUME NEW p \in Procs, Start(p) PROVE LingersByFailure'
  BY <1>1 DEF Start, Goto
<1>2. ASSUME NEW p \in Procs, Create(p) PROVE LingersByFailure'
  BY <1>2 DEF Create, Goto
<1>3. ASSUME NEW p \in Procs, GiveUp(p) \/ WritePid(p) \/ Inspect(p)
      PROVE  LingersByFailure'
  BY <1>3 DEF GiveUp, WritePid, Inspect, Goto
<1>4. ASSUME NEW p \in Procs, Steal(p) \/ Release(p) PROVE LingersByFailure'
  BY <1>4 DEF Steal, Release, RemoveLock, Goto
<1>5. ASSUME NEW p \in Procs, Exit(p) \/ Crash(p) PROVE LingersByFailure'
  BY <1>5 DEF Exit, Crash, Goto
<1>6. CASE AllEnded \/ UNCHANGED lockVars
  BY <1>6 DEF AllEnded, lockVars
<1> QED
  BY <1>1, <1>2, <1>3, <1>4, <1>5, <1>6 DEF LockNext, AcquireStep

(***************************************************************************)
(* What a refusal of acquire says of the process it names: it lives, it is *)
(* past acquire, and it is inside Run still unless its own removal of the  *)
(* file failed.  This needs pids that are not used twice, but neither that *)
(* calls of acquire do not overlap nor that every system call succeeds.    *)
(***************************************************************************)
THEOREM LockRefusesRightly ==
    ASSUME \A p, q \in Procs : Pid[p] = Pid[q] => p = q
    PROVE  LockSpec => RefusedByHolder
<1> DEFINE Blames(q) ==
        /\ lock = q
        /\ \/ lpc[q] = "held"
           \/ lpc[q] = "released" /\ "remove" \in Fails
<1> DEFINE Rightly ==
        \A p \in Procs :
          lpc[p] = "inspect" /\ lpc'[p] = "refused"
            => \E q \in Procs \ {p} : Blames(q)
<1>1. LockBounded /\ LingersByFailure /\ [LockNext]_lockVars
        => [Rightly]_lockVars
  <2> SUFFICES ASSUME LockBounded, LingersByFailure, [LockNext]_lockVars,
                      NEW p \in Procs,
                      lpc[p] = "inspect", lpc'[p] = "refused"
               PROVE  \E q \in Procs \ {p} : Blames(q)
    BY DEF Rightly
  <2>1. Inspect(p)
    BY DEF LockNext, AcquireStep, Start, Create, GiveUp, WritePid, Inspect,
           Steal, Release, Exit, Crash, Goto, AllEnded, lockVars, Live,
           Inside, LockBounded, LockTypeOK, Acquiring
  <2>2. HeldByLive
    BY <2>1 DEF Inspect, Goto, LockBounded, LockTypeOK
  <2>3. PICK q \in Procs : Live(q) /\ Pid[q] = Pid[lock]
    BY <2>2 DEF HeldByLive, Alive
  <2>4. lock = q /\ q \in named
    BY <2>2, <2>3 DEF HeldByLive, LockBounded, LockTypeOK
  <2>5. q # p /\ lpc[q] \in {"held", "released"}
    BY <2>3, <2>4 DEF LockBounded, NamedPast, Live, Inside, Acquiring
  <2> QED
    BY <2>4, <2>5 DEF LingersByFailure
<1>2. LockInit => LockBounded /\ LingersByFailure
  BY LockBoundedInit DEF LockInit, LingersByFailure
<1>3. LockBounded /\ LingersByFailure /\ [LockNext]_lockVars
        => LockBounded' /\ LingersByFailure'
  BY LockBoundedStep, LingersStep
<1> QED
  BY <1>1, <1>2, <1>3, PTL DEF LockSpec, RefusedByHolder
=============================================================================
