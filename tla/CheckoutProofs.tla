--------------------------- MODULE CheckoutProofs ---------------------------
(***************************************************************************)
(* Proofs about Checkout: for any processes, paths and slices, no kill and *)
(* no I/O error loses work, as long as os.RemoveAll(stash) runs to its end *)
(* or nobody calls Restore on what it left.                                *)
(***************************************************************************)
EXTENDS Checkout, TLAPS

(***************************************************************************)
(* A path that is removed and not yet written is one the loop has still to *)
(* visit, and one the base has if the tree is being reverted; a loop       *)
(* visits the paths its entries list.  This is what makes WriteNew write a *)
(* version and WriteOld the right one.                                     *)
(***************************************************************************)
Loops ==
    \A p \in Procs :
        /\ cur[p] # None
             => phase[p] \in {"revert", "putback"} /\ cur[p] \in todo[p]
        /\ cur[p] # None /\ phase[p] = "revert" => cur[p] \notin Added
        /\ phase[p] \in {"revert", "putback"}
             => \A f \in todo[p] : plan[p][f] # "unlisted"

CheckoutTyped == CheckoutTypeOK /\ Loops

LEMMA VersionTypes ==
    ASSUME NEW f \in Paths
    PROVE  New(f) \in Versions /\ Old(f) \in Versions
BY DEF New, Old, Versions

LEMMA EntryType ==
    ASSUME CheckoutTypeOK, NEW f \in Paths
    PROVE  Entry(f) \in Kinds /\ Entry(f) # "unlisted"
BY DEF CheckoutTypeOK, Entry, Kinds, Versions

LEMMA BackingType ==
    ASSUME CheckoutTypeOK, NEW f \in Paths, NEW k \in Kinds, k # "unlisted"
    PROVE  Backing(k, f) \in Versions \cup {"none"}
BY DEF CheckoutTypeOK, Backing, Kinds, Versions

LEMMA CheckoutTypedInit == CheckoutInit => CheckoutTyped
<1> SUFFICES ASSUME CheckoutInit PROVE CheckoutTyped
  OBVIOUS
<1>1. Unlisted \in [Paths -> Kinds]
  BY DEF Unlisted, Kinds
<1>2. CheckoutTypeOK
  BY <1>1, VersionTypes DEF CheckoutInit, CheckoutTypeOK
<1>3. Loops
  BY DEF CheckoutInit, Loops
<1> QED
  BY <1>2, <1>3 DEF CheckoutTyped

LEMMA SwapTyped ==
    ASSUME CheckoutTyped, NEW p \in Procs,
           SwapStep(p) \/ \E S \in Slices : BeginSwap(p, S)
    PROVE  CheckoutTyped'
<1> USE DEF CheckoutTyped, CheckoutTypeOK, Loops, SwapPhases, RestorePhases,
            Procs, Goto, Put, Visited, UndoRevert, stashVars, Kinds, Listed
<1>1. ASSUME NEW S \in Slices, BeginSwap(p, S) PROVE CheckoutTyped'
  <2>0. S \in SUBSET Paths /\ Unlisted \in [Paths -> Kinds]
    BY CheckoutAssumption DEF Unlisted
  <2>1. CASE ~dir /\ phase' = [phase EXCEPT ![p] = "save"]
    <3>1. /\ dir' = TRUE
          /\ todo' = [todo EXCEPT ![p] = S]
          /\ plan' = [plan EXCEPT ![p] = Unlisted]
          /\ UNCHANGED <<cur, undone, tree, manifest, writer, entries, saved>>
      BY <1>1, <2>1 DEF BeginSwap
    <3>a. CheckoutTypeOK'
      BY <2>0, <2>1, <3>1
    <3>b. Loops'
      BY <1>1, <2>1 DEF BeginSwap
    <3> QED
      BY <3>a, <3>b
  <2>2. CASE phase' = [phase EXCEPT ![p] = "failed"]
    BY <1>1, <2>2 DEF BeginSwap
  <2>3. CASE phase' = [phase EXCEPT ![p] = "check"]
    <3>a. CheckoutTypeOK'
      BY <1>1, <2>3 DEF BeginSwap
    <3>b. Loops'
      BY <1>1, <2>3 DEF BeginSwap
    <3> QED
      BY <3>a, <3>b
  <2> QED
    BY <1>1, <2>1, <2>2, <2>3 DEF BeginSwap
<1>2. ASSUME NEW f \in Paths, Save(p, f) PROVE CheckoutTyped'
  BY <1>2, EntryType DEF Save
<1>3. ASSUME NEW f \in Paths, SaveFails(p, f) PROVE CheckoutTyped'
  BY <1>3 DEF SaveFails, Versions
<1>4. CASE AllSaved(p)
  BY <1>4 DEF AllSaved
<1>5. CASE CreateManifest(p)
  <2>1. CASE phase' = [phase EXCEPT ![p] = "sync"]
    BY <1>5, <2>1 DEF CreateManifest
  <2>2. CASE phase' = [phase EXCEPT ![p] = "check"]
    <3>a. CheckoutTypeOK'
      BY <1>5, <2>2 DEF CreateManifest
    <3>b. Loops'
      BY <1>5, <2>2 DEF CreateManifest
    <3> QED
      BY <3>a, <3>b
  <2> QED
    BY <1>5, <2>1, <2>2 DEF CreateManifest
<1>6. CASE SyncManifest(p)
  BY <1>6 DEF SyncManifest
<1>7. CASE SyncFails(p)
  BY <1>7 DEF SyncFails
<1>8. ASSUME NEW f \in Paths, RemoveNew(p, f) PROVE CheckoutTyped'
  <2>1. CASE f \in Added
    <3>a. CheckoutTypeOK'
      BY <1>8, <2>1 DEF RemoveNew, Versions
    <3>b. Loops'
      BY <1>8, <2>1 DEF RemoveNew, Versions
    <3> QED
      BY <3>a, <3>b
  <2>2. CASE ~(f \in Added)
    BY <1>8, <2>2 DEF RemoveNew, Versions
  <2> QED
    BY <2>1, <2>2
<1>9. CASE WriteOld(p)
  BY <1>9 DEF WriteOld, Versions
<1>10. CASE RevertFails(p)
  BY <1>10 DEF RevertFails, HalfWritten, Versions
<1>11. CASE AllReverted(p)
  BY <1>11 DEF AllReverted
<1>12. CASE OldRunEnds(p)
  BY <1>12 DEF OldRunEnds
<1> QED
  BY <1>1, <1>2, <1>3, <1>4, <1>5, <1>6, <1>7, <1>8, <1>9, <1>10, <1>11,
     <1>12 DEF SwapStep

LEMMA RestoreTyped ==
    ASSUME CheckoutTyped, NEW p \in Procs,
           \/ CallRestore(p) \/ PassCheck(p) \/ RefuseRestore(p)
           \/ PutBackStep(p) \/ CheckoutCrash(p)
    PROVE  CheckoutTyped'
<1> USE DEF CheckoutTyped, CheckoutTypeOK, Loops, SwapPhases, RestorePhases,
            Goto, Put, Visited, stashVars, procVars, Unlisted, Listed
<1>1. CASE CallRestore(p)
  BY <1>1 DEF CallRestore
<1>2. CASE PassCheck(p)
  BY <1>2 DEF PassCheck
<1>3. CASE RefuseRestore(p)
  BY <1>3 DEF RefuseRestore
<1>4. CASE ReadManifest(p)
  <2>1. CASE phase'[p] = "putback"
    <3>1. /\ phase[p] = "read" /\ phase' = [phase EXCEPT ![p] = "putback"]
          /\ plan' = [plan EXCEPT ![p] = entries]
          /\ todo' = [todo EXCEPT ![p] = Listed(entries)]
          /\ UNCHANGED <<tree, dir, manifest, writer, entries, saved, cur, undone>>
      BY <1>4, <2>1 DEF ReadManifest
    <3>2. CheckoutTypeOK'
      BY <3>1
    <3>3. cur[p] = None
      BY <3>1
    <3>4. Loops'
      BY <3>1, <3>3
    <3> QED
      BY <3>2, <3>4
  <2>2. CASE phase'[p] # "putback"
    BY <1>4, <2>2 DEF ReadManifest
  <2> QED
    BY <2>1, <2>2
<1>5. ASSUME NEW f \in Paths, RemoveOld(p, f) PROVE CheckoutTyped'
  <2>1. CASE plan[p][f] = "missing"
    <3>a. CheckoutTypeOK'
      BY <1>5, <2>1 DEF RemoveOld, Versions
    <3>b. Loops'
      BY <1>5, <2>1 DEF RemoveOld, Versions
    <3> QED
      BY <3>a, <3>b
  <2>2. CASE ~(plan[p][f] = "missing")
    BY <1>5, <2>2 DEF RemoveOld, Versions
  <2> QED
    BY <2>1, <2>2
<1>6. CASE WriteNew(p)
  <2>1. cur[p] \in Paths /\ plan[p][cur[p]] \in Kinds \ {"unlisted"}
    BY <1>6 DEF WriteNew
  <2>2. Backing(plan[p][cur[p]], cur[p]) \in Versions
    BY <1>6, <2>1, BackingType DEF WriteNew
  <2> QED
    BY <1>6, <2>1, <2>2 DEF WriteNew
<1>7. CASE PutBackFails(p)
  BY <1>7 DEF PutBackFails, HalfWritten, Versions
<1>8. CASE AllBack(p)
  BY <1>8 DEF AllBack
<1>9. ASSUME NEW f \in Paths, CleanSaved(p, f) PROVE CheckoutTyped'
  BY <1>9 DEF CleanSaved
<1>10. CASE CleanManifest(p)
  BY <1>10 DEF CleanManifest, Kinds
<1>11. CASE CleanFails(p)
  BY <1>11 DEF CleanFails
<1>12. CASE CleanDir(p)
  BY <1>12 DEF CleanDir
<1>13. CASE CheckoutCrash(p)
  BY <1>13 DEF CheckoutCrash, HalfWritten, Versions
<1> QED
  BY <1>1, <1>2, <1>3, <1>4, <1>5, <1>6, <1>7, <1>8, <1>9, <1>10, <1>11,
     <1>12, <1>13 DEF PutBackStep

LEMMA CheckoutTypedStep ==
    CheckoutTyped /\ [CheckoutNext]_checkoutVars => CheckoutTyped'
<1>1. ASSUME CheckoutTyped, AtRest \/ UNCHANGED checkoutVars
      PROVE  CheckoutTyped'
  BY <1>1 DEF AtRest, checkoutVars, CheckoutTyped, CheckoutTypeOK, Loops,
              Listed
<1> QED
  BY <1>1, SwapTyped, RestoreTyped DEF CheckoutNext

(***************************************************************************)
(* Every variable of the checkout keeps its type, with any kills and       *)
(* errors and any overlap of runs and Restores: in particular Restore      *)
(* never writes a file it has no version for.                              *)
(***************************************************************************)
THEOREM CheckoutTypes == CheckoutSpec => []CheckoutTypeOK
<1>1. CheckoutTyped => CheckoutTypeOK
  BY DEF CheckoutTyped
<1> QED
  BY <1>1, CheckoutTypedInit, CheckoutTypedStep, PTL DEF CheckoutSpec

-----------------------------------------------------------------------------

(***************************************************************************)
(* The conditions of the theorems below.  os.Mkdir fails only for a stash  *)
(* that exists, and either there are only runs, however they overlap, or   *)
(* a Restore of its own runs beside nobody and every clean-up gets to its  *)
(* end.                                                                    *)
(***************************************************************************)
CleanEnds ==
    Restorers = {} \/ ("clean" \notin Fails /\ "clean" \notin CrashIn)

Regime ==
    /\ "mkdir" \notin Fails
    /\ Restorers = {} \/ ~Overlap
    /\ CleanEnds

TreeNew == \A f \in Paths : tree[f] = New(f)

(***************************************************************************)
(* The stash on disk leads back to the change from wherever the tree is.   *)
(***************************************************************************)
Intact ==
    \A f \in Paths : IF entries[f] = "unlisted" THEN tree[f] = New(f)
                                                ELSE Backed(f) = New(f)

(***************************************************************************)
(* The entries a process holds in memory lead back to the change.          *)
(***************************************************************************)
Planned(p) ==
    \A f \in Paths : plan[p][f] # "unlisted" => Backing(plan[p][f], f) = New(f)

(***************************************************************************)
(* The manifest holds what the process does, and the paths its loop has    *)
(* been through have the version V(f).                                     *)
(***************************************************************************)
Through(p, V(_)) ==
    /\ manifest = "whole" /\ entries = plan[p] /\ Intact
    /\ \A f \in Paths : plan[p][f] # "unlisted" /\ f \notin todo[p]
                           => tree[f] = V(f)

(***************************************************************************)
(* What a process knows of the disk in each of its phases.  A Restore of   *)
(* its own knows nothing before it has looked at the lock.                 *)
(***************************************************************************)
Knows(p) ==
    /\ phase[p] \in {"save", "create"} => manifest = "none" /\ Planned(p)
    /\ phase[p] = "sync" => manifest = "torn" /\ writer = p /\ Planned(p)
    /\ phase[p] = "revert" => Through(p, Old)
    /\ phase[p] = "swapped" => Through(p, Old) /\ todo[p] = {}
    /\ phase[p] = "check" /\ p \in Runs => (manifest = "whole" => Intact)
    /\ phase[p] = "read" => (manifest = "whole" => Intact)
    /\ phase[p] = "putback" => Through(p, New)
    /\ phase[p] = "clean" => TreeNew
    /\ phase[p] \in SwapPhases => p \in Runs

(***************************************************************************)
(* The processes whose steps read or write the stash.                      *)
(***************************************************************************)
Uses(p) ==
    \/ phase[p] \in SwapPhases \cup {"read", "putback", "clean"}
    \/ phase[p] = "check" /\ p \in Runs

OneUses == \A p, q \in Procs : Uses(p) /\ Uses(q) => p = q

(***************************************************************************)
(* What holds of the disk whatever the processes do.  A copy that is in    *)
(* the stash is the right one.                                             *)
(***************************************************************************)
DiskInv ==
    /\ ~dir => manifest = "none" /\ \A f \in Paths : saved[f] = "none"
    /\ manifest # "whole" => entries = Unlisted /\ TreeNew
    /\ manifest = "whole" => Intact \/ TreeNew
    /\ manifest = "whole" =>
         \A f \in Paths : entries[f] # "unlisted" => Backed(f) \in {New(f), "none"}

(***************************************************************************)
(* A stash that does not lead back is being cleaned, or nobody restores.   *)
(***************************************************************************)
NoOrphan ==
    manifest = "whole" /\ ~Intact
      => Restorers = {} \/ \E p \in Procs : phase[p] = "clean"

(***************************************************************************)
(* The part that any caller who lets one process at a time use the stash   *)
(* preserves, and the part this module's own schedule adds.                *)
(***************************************************************************)
CheckoutCore ==
    /\ CheckoutTyped
    /\ OneUses
    /\ DiskInv
    /\ NoOrphan
    /\ \A p \in Procs : Knows(p)

DirOwned == \A p \in Runs : Active(p) => dir

CheckoutInv == CheckoutCore /\ OneUser /\ DirOwned

LEMMA CheckoutCoreInit == CheckoutInit => CheckoutCore
BY CheckoutTypedInit
DEF CheckoutInit, CheckoutCore, OneUses, Uses, DiskInv, NoOrphan, Knows,
    TreeNew, SwapPhases

(***************************************************************************)
(* A step of the one user: what the others know is vacuous.                *)
(***************************************************************************)
LEMMA UserStep ==
    ASSUME CheckoutCore, NEW p \in Procs, Uses(p), CheckoutTyped',
           \A q \in Procs \ {p} : phase'[q] = phase[q],
           DiskInv', NoOrphan', Knows(p)'
    PROVE  CheckoutCore'
<1>1. \A q \in Procs \ {p} : ~Uses(q) /\ ~Uses(q)'
  BY DEF CheckoutCore, OneUses, Uses
<1>2. OneUses'
  BY <1>1 DEF OneUses
<1>3. \A q \in Procs \ {p} : Knows(q)'
  BY <1>1 DEF Knows, Uses, SwapPhases
<1> QED
  BY <1>2, <1>3 DEF CheckoutCore

(***************************************************************************)
(* A process becomes the user when nobody else is.                         *)
(***************************************************************************)
LEMMA UserEnters ==
    ASSUME CheckoutCore, NEW p \in Procs, \A q \in Procs \ {p} : ~Uses(q),
           CheckoutTyped',
           \A q \in Procs \ {p} : phase'[q] = phase[q],
           DiskInv', NoOrphan', Knows(p)'
    PROVE  CheckoutCore'
<1>1. \A q \in Procs \ {p} : ~Uses(q)'
  BY DEF Uses
<1>2. OneUses'
  BY <1>1 DEF OneUses
<1>3. \A q \in Procs \ {p} : Knows(q)'
  BY <1>1 DEF Knows, Uses, SwapPhases
<1> QED
  BY <1>2, <1>3 DEF CheckoutCore

(***************************************************************************)
(* A process that does not use the stash takes a step that leaves the disk *)
(* alone, and does not use it afterwards.                                  *)
(***************************************************************************)
LEMMA BystanderStep ==
    ASSUME CheckoutCore, CheckoutTyped', NEW p \in Procs, ~Uses(p), ~Uses(p)',
           \A q \in Procs \ {p} : phase'[q] = phase[q],
           UNCHANGED <<tree, dir, manifest, writer, entries, saved, todo, plan>>
    PROVE  CheckoutCore'
<1> USE DEF CheckoutCore
<1>1. \A q \in Procs : Uses(q)' => Uses(q) /\ q # p
  BY DEF Uses
<1>2. OneUses'
  BY <1>1 DEF OneUses
<1>3. Intact' <=> Intact
  BY DEF Intact, Backed, Backing
<1>4. DiskInv'
  BY <1>3 DEF DiskInv, Backed, Backing, TreeNew
<1>5. NoOrphan'
  BY <1>3 DEF NoOrphan, Uses
<1>6. Knows(p)'
  BY DEF Knows, Uses, SwapPhases
<1>7. ASSUME NEW q \in Procs \ {p} PROVE Knows(q)'
  <2>1. Planned(q) => Planned(q)'
    BY DEF Planned, Backing
  <2>2. Through(q, Old) => Through(q, Old)'
    BY <1>3 DEF Through, Old
  <2>3. Through(q, New) => Through(q, New)'
    BY <1>3 DEF Through, New
  <2>4. TreeNew => TreeNew'
    BY DEF TreeNew
  <2> QED
    BY <1>3, <2>1, <2>2, <2>3, <2>4 DEF Knows
<1> QED
  BY <1>2, <1>4, <1>5, <1>6, <1>7

(***************************************************************************)
(* The swap to the base, one step at a time.                               *)
(***************************************************************************)
LEMMA BeginSwapCore ==
    ASSUME CheckoutCore, CheckoutTyped', NEW p \in Procs,
           NEW S \in Slices, BeginSwap(p, S),
           IF dir THEN "mkdir" \notin Fails
                  ELSE \A q \in Procs \ {p} : ~Uses(q)
    PROVE  CheckoutCore'
<1> USE DEF CheckoutCore
<1>1. CASE ~dir
  <2>0. manifest = "none" /\ p \in Runs
    BY <1>1 DEF DiskInv, BeginSwap
  <2>1. \A q \in Procs \ {p} : phase'[q] = phase[q]
    BY DEF BeginSwap, Goto, UndoRevert, CheckoutTyped, CheckoutTypeOK
  <2>2. UNCHANGED <<tree, manifest, entries, saved>>
    BY DEF BeginSwap
  <2>3. DiskInv' /\ NoOrphan'
    BY <1>1, <2>0, <2>2 DEF DiskInv, NoOrphan, TreeNew
  <2>4. Knows(p)'
    <3>1. CASE phase' = [phase EXCEPT ![p] = "save"]
      <4>1. plan' = [plan EXCEPT ![p] = Unlisted]
        BY <1>1, <3>1 DEF BeginSwap, UndoRevert, Goto, CheckoutTyped,
                          CheckoutTypeOK
      <4>2. Planned(p)'
        BY <4>1 DEF Planned, Unlisted, CheckoutTyped, CheckoutTypeOK
      <4> QED
        BY <2>0, <2>2, <3>1, <4>2
        DEF Knows, CheckoutTyped, CheckoutTypeOK
    <3>2. CASE phase' = [phase EXCEPT ![p] = "check"]
      BY <2>0, <2>2, <3>2 DEF Knows, SwapPhases, CheckoutTyped, CheckoutTypeOK
    <3> QED
      BY <1>1, <3>1, <3>2 DEF BeginSwap, UndoRevert, Goto
  <2> QED
    BY <1>1, <2>1, <2>3, <2>4, UserEnters
<1>2. CASE dir
  <2>1. phase[p] = "idle" /\ phase' = [phase EXCEPT ![p] = "failed"]
    BY <1>2 DEF BeginSwap, Goto
  <2>2. UNCHANGED <<dir, tree, manifest, writer, entries, saved, todo, plan>>
    BY <1>2 DEF BeginSwap
  <2>3. ~Uses(p) /\ ~Uses(p)' /\ \A q \in Procs \ {p} : phase'[q] = phase[q]
    BY <2>1 DEF Uses, SwapPhases, CheckoutTyped, CheckoutTypeOK
  <2> QED
    BY <2>2, <2>3, BystanderStep
<1> QED
  BY <1>1, <1>2

LEMMA SaveCore ==
    ASSUME CheckoutCore, CheckoutTyped', NEW p \in Procs, NEW f \in Paths,
           Save(p, f) \/ SaveFails(p, f)
    PROVE  CheckoutCore'
<1> USE DEF CheckoutCore, CheckoutTyped, CheckoutTypeOK
<1>1. Uses(p) /\ p \in Runs /\ manifest = "none" /\ TreeNew /\ Planned(p)
  BY DEF Save, SaveFails, Uses, SwapPhases, Knows, DiskInv
<1>2. \A q \in Procs \ {p} : phase'[q] = phase[q]
  BY DEF Save, SaveFails, UndoRevert, Goto
<1>3. UNCHANGED <<tree, dir, manifest, entries>>
  BY DEF Save, SaveFails
<1>a. ~dir => UNCHANGED saved
  BY DEF Save, SaveFails
<1>4. DiskInv' /\ NoOrphan'
  BY <1>1, <1>3, <1>a DEF DiskInv, NoOrphan, TreeNew
<1>5. Knows(p)'
  <2>1. CASE Save(p, f)
    <3>1. phase[p] = "save" /\ UNCHANGED phase
      BY <2>1 DEF Save
    <3>2. Planned(p)'
      <4>1. Backing(plan[p][f], f)' = New(f)
        BY <1>1, <2>1, EntryType
        DEF Save, Backing, Entry, TreeNew, New
      <4>2. ASSUME NEW g \in Paths, g # f, plan'[p][g] # "unlisted"
            PROVE  Backing(plan[p][g], g)' = New(g)
        BY <1>1, <2>1, <4>2 DEF Save, Planned, Backing
      <4> QED
        BY <4>1, <4>2 DEF Planned
    <3> QED
      BY <1>1, <1>3, <3>1, <3>2 DEF Knows, Uses, SwapPhases
  <2>2. CASE SaveFails(p, f)
    BY <1>1, <1>3, <2>2 DEF SaveFails, Knows, UndoRevert, Goto, SwapPhases
  <2> QED
    BY <2>1, <2>2
<1> QED
  BY <1>1, <1>2, <1>4, <1>5, UserStep

LEMMA ManifestCore ==
    ASSUME CheckoutCore, CheckoutTyped', NEW p \in Procs,
           \/ AllSaved(p) \/ CreateManifest(p)
           \/ SyncManifest(p) \/ SyncFails(p)
    PROVE  CheckoutCore'
<1> USE DEF CheckoutCore, CheckoutTyped, CheckoutTypeOK
<1>1. Uses(p) /\ p \in Runs /\ manifest # "whole" /\ TreeNew /\ Planned(p)
  BY DEF AllSaved, CreateManifest, SyncManifest, SyncFails, Uses,
         SwapPhases, Knows, DiskInv
<1>2. \A q \in Procs \ {p} : phase'[q] = phase[q]
  BY DEF AllSaved, CreateManifest, SyncManifest, SyncFails, UndoRevert, Goto
<1>3. UNCHANGED <<tree, dir, saved, plan>>
  BY DEF AllSaved, CreateManifest, SyncManifest, SyncFails
<1>4. manifest' # "whole" => entries' = entries
  BY DEF AllSaved, CreateManifest, SyncManifest, SyncFails
<1>5. manifest' = "whole" => entries' = plan[p]
  BY <1>1 DEF AllSaved, CreateManifest, SyncManifest, SyncFails
<1>6. manifest' = "whole" => Intact'
  BY <1>1, <1>3, <1>5 DEF Intact, Planned, TreeNew, Backed, Backing
<1>a. manifest' # "none" => dir
  BY DEF AllSaved, CreateManifest, SyncManifest, SyncFails, DiskInv, Knows
<1>7. DiskInv' /\ NoOrphan'
  BY <1>1, <1>3, <1>4, <1>6, <1>a DEF Intact, DiskInv, NoOrphan, TreeNew
<1>8. Planned(p)'
  BY <1>1, <1>3 DEF Planned, Backing
<1>9. Knows(p)'
  <2>1. CASE AllSaved(p)
    BY <1>1, <1>8, <2>1 DEF AllSaved, Knows, Goto, Uses, SwapPhases
  <2>2. CASE CreateManifest(p)
    <3>1. CASE phase' = [phase EXCEPT ![p] = "sync"]
      BY <1>1, <1>8, <2>2, <3>1
      DEF CreateManifest, UndoRevert, Knows, Goto, Uses, SwapPhases
    <3>2. CASE phase' = [phase EXCEPT ![p] = "check"]
      BY <1>1, <1>6, <1>3, <2>2, <3>2 DEF Knows, SwapPhases
    <3> QED
      BY <2>2, <3>1, <3>2 DEF CreateManifest, UndoRevert, Goto
  <2>3. CASE SyncManifest(p)
    <3>1. /\ phase[p] = "sync" /\ phase' = [phase EXCEPT ![p] = "revert"]
          /\ todo'[p] = Listed(plan[p])
      BY <2>3 DEF SyncManifest, Goto
    <3>2. manifest' = "whole" /\ entries' = plan'[p]
      BY <1>3, <2>3, <3>1 DEF SyncManifest, Knows
    <3>3. Through(p, Old)'
      BY <1>3, <1>6, <3>1, <3>2 DEF Through, Listed
    <3> QED
      BY <1>1, <1>3, <3>1, <3>3 DEF Knows, SwapPhases
  <2>4. CASE SyncFails(p)
    BY <1>1, <1>3, <1>6, <2>4
    DEF SyncFails, UndoRevert, Knows, Goto, SwapPhases
  <2> QED
    BY <2>1, <2>2, <2>3, <2>4
<1> QED
  BY <1>1, <1>2, <1>7, <1>9, UserStep

LEMMA RevertCore ==
    ASSUME CheckoutCore, CheckoutTyped', NEW p \in Procs,
           \/ \E f \in Paths : RemoveNew(p, f)
           \/ WriteOld(p) \/ RevertFails(p) \/ AllReverted(p) \/ OldRunEnds(p)
    PROVE  CheckoutCore'
<1> USE DEF CheckoutCore, CheckoutTyped, CheckoutTypeOK
<1>1. /\ Uses(p) /\ p \in Runs /\ manifest = "whole" /\ entries = plan[p] /\ Intact
      /\ phase[p] \in {"revert", "swapped"} /\ Through(p, Old)
  BY DEF RemoveNew, WriteOld, RevertFails, AllReverted, OldRunEnds, Uses,
         SwapPhases, Knows, Through
<1>2. \A q \in Procs \ {p} : phase'[q] = phase[q]
  BY DEF RemoveNew, WriteOld, RevertFails, AllReverted, OldRunEnds,
         UndoRevert, Goto
<1>3. UNCHANGED <<dir, manifest, writer, entries, saved, plan>>
  BY DEF RemoveNew, WriteOld, RevertFails, AllReverted, OldRunEnds, stashVars
<1>4. \A f \in Paths : tree'[f] # tree[f] => entries[f] # "unlisted"
  BY <1>1 DEF RemoveNew, WriteOld, RevertFails, AllReverted, OldRunEnds,
              HalfWritten, Put, Loops
<1>5. Intact'
  BY <1>1, <1>3, <1>4 DEF Intact, Backed, Backing
<1>6. DiskInv' /\ NoOrphan'
  BY <1>1, <1>3, <1>5 DEF Intact, DiskInv, NoOrphan
<1>7. Knows(p)'
  <2>1. ASSUME NEW f \in Paths, RemoveNew(p, f) PROVE Knows(p)'
    <3>1. phase[p] = "revert" /\ UNCHANGED phase
      BY <2>1 DEF RemoveNew
    <3>2. Through(p, Old)'
      BY <1>1, <1>3, <1>5, <2>1 DEF RemoveNew, Through, Visited, Put, Old
    <3> QED
      BY <1>1, <1>3, <3>1, <3>2 DEF Knows, SwapPhases
  <2>2. CASE WriteOld(p)
    <3>1. phase[p] = "revert" /\ UNCHANGED phase
      BY <2>2 DEF WriteOld
    <3>2. cur[p] \in todo[p] /\ cur[p] \in Paths /\ Old(cur[p]) = "old"
      BY <2>2 DEF WriteOld, Loops, Old
    <3>3. Through(p, Old)'
      BY <1>1, <1>3, <1>5, <2>2, <3>2 DEF WriteOld, Through, Visited, Put
    <3> QED
      BY <1>1, <1>3, <3>1, <3>3 DEF Knows, SwapPhases
  <2>3. CASE RevertFails(p)
    BY <1>1, <1>3, <1>5, <2>3
    DEF RevertFails, UndoRevert, Knows, Goto, SwapPhases
  <2>4. CASE AllReverted(p)
    <3>1. phase' = [phase EXCEPT ![p] = "swapped"] /\ todo'[p] = {}
      BY <2>4 DEF AllReverted, Goto
    <3>2. Through(p, Old)'
      BY <1>1, <1>3, <1>5, <2>4 DEF AllReverted, Through
    <3> QED
      BY <1>1, <1>3, <3>1, <3>2 DEF Knows, SwapPhases
  <2>5. CASE OldRunEnds(p)
    BY <1>1, <1>3, <1>5, <2>5 DEF OldRunEnds, Knows, Goto, SwapPhases
  <2> QED
    BY <2>1, <2>2, <2>3, <2>4, <2>5
<1> QED
  BY <1>1, <1>2, <1>6, <1>7, UserStep

(***************************************************************************)
(* Restore, one step at a time.  A Restore of its own that passes its look *)
(* at the lock finds nobody at the stash, and so a stash that leads back.  *)
(***************************************************************************)
LEMMA LookCore ==
    ASSUME CheckoutCore, CheckoutTyped', NEW p \in Procs,
           \/ CallRestore(p) \/ RefuseRestore(p)
           \/ PassCheck(p) /\ \A q \in Procs \ {p} : ~Uses(q)
    PROVE  CheckoutCore'
<1> USE DEF CheckoutCore, CheckoutTyped, CheckoutTypeOK
<1>1. UNCHANGED <<tree, dir, manifest, writer, entries, saved, todo, plan>>
  BY DEF CallRestore, PassCheck, RefuseRestore, stashVars
<1>2. \A q \in Procs \ {p} : phase'[q] = phase[q]
  BY DEF CallRestore, PassCheck, RefuseRestore, Goto
<1>3. (Intact' <=> Intact) /\ (TreeNew' <=> TreeNew)
  BY <1>1 DEF Intact, TreeNew, Backed, Backing
<1>4. DiskInv'
  BY <1>1, <1>3 DEF DiskInv, Backed, Backing
<1>5. NoOrphan'
  BY <1>1, <1>3 DEF NoOrphan, CallRestore, PassCheck, RefuseRestore, Goto
<1>6. CASE CallRestore(p)
  <2>1. ~Uses(p) /\ ~Uses(p)'
    BY <1>6, CheckoutAssumption DEF CallRestore, Goto, Uses, SwapPhases
  <2> QED
    BY <1>1, <1>2, <2>1, BystanderStep
<1>7. CASE RefuseRestore(p)
  <2>1. phase[p] = "check" /\ phase'[p] = "failed"
    BY <1>7 DEF RefuseRestore, Goto
  <2>2. Knows(p)'
    BY <2>1 DEF Knows, SwapPhases
  <2>3. CASE p \in Runs
    BY <1>2, <1>4, <1>5, <2>1, <2>2, <2>3, UserStep DEF Uses
  <2>4. CASE p \notin Runs
    <3>1. ~Uses(p) /\ ~Uses(p)'
      BY <2>1, <2>4 DEF Uses, SwapPhases
    <3> QED
      BY <1>1, <1>2, <3>1, BystanderStep
  <2> QED
    BY <2>3, <2>4
<1>8. CASE PassCheck(p) /\ \A q \in Procs \ {p} : ~Uses(q)
  <2>1. phase[p] = "check" /\ phase'[p] = "read"
    BY <1>8 DEF PassCheck, Goto
  <2>2. manifest = "whole" => Intact
    <3>1. CASE p \in Runs
      BY <2>1, <3>1 DEF Knows
    <3>2. CASE p \notin Runs
      BY <1>8, <2>1, <3>2 DEF NoOrphan, Uses, Procs
    <3> QED
      BY <3>1, <3>2
  <2>3. Knows(p)'
    BY <1>1, <1>3, <2>1, <2>2 DEF Knows, SwapPhases
  <2> QED
    BY <1>2, <1>4, <1>5, <1>8, <2>3, UserEnters
<1> QED
  BY <1>6, <1>7, <1>8

LEMMA ReadCore ==
    ASSUME CheckoutCore, CheckoutTyped', NEW p \in Procs, ReadManifest(p)
    PROVE  CheckoutCore'
<1> USE DEF CheckoutCore, CheckoutTyped, CheckoutTypeOK
<1>1. Uses(p) /\ (manifest = "whole" => Intact)
  BY DEF ReadManifest, Uses, Knows
<1>2. \A q \in Procs \ {p} : phase'[q] = phase[q]
  BY DEF ReadManifest, Goto
<1>3. UNCHANGED <<tree, dir, manifest, writer, entries, saved>>
  BY DEF ReadManifest, stashVars
<1>4. manifest' = "whole" => Intact'
  BY <1>1, <1>3 DEF Intact, Backed, Backing
<1>5. DiskInv' /\ NoOrphan'
  BY <1>3, <1>4 DEF Intact, DiskInv, NoOrphan, TreeNew
<1>6. Knows(p)'
  <2>1. CASE phase' = [phase EXCEPT ![p] = "putback"]
    <3>1. /\ manifest = "whole"
          /\ plan'[p] = entries /\ todo'[p] = Listed(entries)
      BY <2>1 DEF ReadManifest, Goto
    <3>2. Through(p, New)'
      BY <1>3, <1>4, <3>1 DEF Through, Listed
    <3> QED
      BY <2>1, <3>2 DEF Knows, SwapPhases
  <2>2. CASE phase' = [phase EXCEPT ![p] = "clean"]
    <3>1. TreeNew'
      BY <1>3, <2>2 DEF ReadManifest, Goto, DiskInv, TreeNew
    <3> QED
      BY <2>2, <3>1 DEF Knows, SwapPhases
  <2>3. CASE phase' = [phase EXCEPT ![p] = "failed"]
    BY <2>3 DEF Knows, SwapPhases
  <2> QED
    BY <2>1, <2>2, <2>3 DEF ReadManifest, Goto
<1> QED
  BY <1>1, <1>2, <1>5, <1>6, UserStep

LEMMA PutBackCore ==
    ASSUME CheckoutCore, CheckoutTyped', NEW p \in Procs,
           \/ \E f \in Paths : RemoveOld(p, f)
           \/ WriteNew(p) \/ PutBackFails(p) \/ AllBack(p)
    PROVE  CheckoutCore'
<1> USE DEF CheckoutCore, CheckoutTyped, CheckoutTypeOK
<1>1. /\ Uses(p) /\ manifest = "whole" /\ entries = plan[p] /\ Intact
      /\ phase[p] = "putback" /\ Through(p, New)
  BY DEF RemoveOld, WriteNew, PutBackFails, AllBack, Uses, RestorePhases,
         Knows, Through
<1>2. \A q \in Procs \ {p} : phase'[q] = phase[q]
  BY DEF RemoveOld, WriteNew, PutBackFails, AllBack, Goto
<1>3. UNCHANGED <<dir, manifest, writer, entries, saved, plan>>
  BY DEF RemoveOld, WriteNew, PutBackFails, AllBack, stashVars
<1>4. \A f \in Paths : tree'[f] # tree[f] => entries[f] # "unlisted"
  BY <1>1 DEF RemoveOld, WriteNew, PutBackFails, AllBack, HalfWritten, Put,
              Loops
<1>5. Intact'
  BY <1>1, <1>3, <1>4 DEF Intact, Backed, Backing
<1>6. DiskInv' /\ NoOrphan'
  BY <1>1, <1>3, <1>5 DEF Intact, DiskInv, NoOrphan
<1>7. Knows(p)'
  <2>1. ASSUME NEW f \in Paths, RemoveOld(p, f) PROVE Knows(p)'
    <3>1. UNCHANGED phase
      BY <2>1 DEF RemoveOld
    <3>2. plan[p][f] = "missing" => New(f) = "absent"
      BY <1>1 DEF Intact, Backed, Backing
    <3>3. Through(p, New)'
      BY <1>1, <1>3, <1>5, <2>1, <3>2 DEF RemoveOld, Through, Visited, Put
    <3> QED
      BY <1>1, <1>3, <3>1, <3>3 DEF Knows, SwapPhases
  <2>2. CASE WriteNew(p)
    <3>1. UNCHANGED phase
      BY <2>2 DEF WriteNew
    <3>2. /\ cur[p] \in Paths /\ plan[p][cur[p]] # "unlisted"
          /\ Backing(plan[p][cur[p]], cur[p]) = New(cur[p])
      BY <1>1, <2>2 DEF WriteNew, Loops, Intact, Backed
    <3>3. Through(p, New)'
      BY <1>1, <1>3, <1>5, <2>2, <3>2 DEF WriteNew, Through, Visited, Put
    <3> QED
      BY <1>1, <1>3, <3>1, <3>3 DEF Knows, SwapPhases
  <2>3. CASE PutBackFails(p)
    BY <1>1, <1>3, <2>3
    DEF PutBackFails, Knows, Goto, Uses, SwapPhases, RestorePhases
  <2>4. CASE AllBack(p)
    <3>1. TreeNew'
      BY <1>1, <2>4 DEF AllBack, Through, Intact, TreeNew
    <3> QED
      BY <1>1, <1>3, <2>4, <3>1 DEF AllBack, Goto, Knows, SwapPhases
  <2> QED
    BY <2>1, <2>2, <2>3, <2>4
<1> QED
  BY <1>1, <1>2, <1>6, <1>7, UserStep

LEMMA CleanCore ==
    ASSUME CleanEnds, CheckoutCore, CheckoutTyped', NEW p \in Procs,
           \/ \E f \in Paths : CleanSaved(p, f)
           \/ CleanManifest(p) \/ CleanFails(p) \/ CleanDir(p)
    PROVE  CheckoutCore'
<1> USE DEF CheckoutCore, CheckoutTyped, CheckoutTypeOK
<1>1. Uses(p) /\ phase[p] = "clean" /\ TreeNew
  BY DEF CleanSaved, CleanManifest, CleanFails, CleanDir, Uses,
         RestorePhases, Knows
<1>2. \A q \in Procs \ {p} : phase'[q] = phase[q]
  BY DEF CleanSaved, CleanManifest, CleanFails, CleanDir, Goto, procVars
<1>3. TreeNew'
  BY <1>1 DEF CleanSaved, CleanManifest, CleanFails, CleanDir, TreeNew
<1>4. DiskInv'
  <2>1. manifest' = "whole" => manifest = "whole" /\ UNCHANGED entries
    BY DEF CleanSaved, CleanManifest, CleanFails, CleanDir, stashVars
  <2>2. manifest' = "whole" =>
          \A f \in Paths : entries'[f] # "unlisted"
                             => Backed(f)' \in {New(f), "none"}
    BY <2>1 DEF CleanSaved, CleanManifest, CleanFails, CleanDir, stashVars,
                DiskInv, Backed, Backing
  <2> QED
    BY <1>3, <2>2 DEF DiskInv, CleanSaved, CleanManifest, CleanFails,
                      CleanDir, stashVars
<1>5. NoOrphan'
  <2>1. CASE CleanDir(p)
    BY <2>1 DEF CleanDir, NoOrphan
  <2>2. CASE CleanFails(p)
    BY <2>2 DEF CleanFails, CleanEnds, NoOrphan
  <2>3. CASE UNCHANGED phase
    BY <1>1, <2>3 DEF NoOrphan
  <2> QED
    BY <2>1, <2>2, <2>3 DEF CleanSaved, CleanManifest, procVars
<1>6. Knows(p)'
  <2>1. CASE UNCHANGED <<phase, dir>>
    BY <1>1, <1>3, <2>1 DEF Knows, SwapPhases
  <2>2. CASE phase'[p] \in {"idle", "done", "failed"}
    BY <2>2 DEF Knows, Uses, SwapPhases, RestorePhases
  <2> QED
    BY <2>1, <2>2
    DEF CleanSaved, CleanManifest, CleanFails, CleanDir, Goto, procVars
<1> QED
  BY <1>1, <1>2, <1>4, <1>5, <1>6, UserStep

(***************************************************************************)
(* A kill leaves the disk as it is, and half a file at the path that was   *)
(* being written, which is a listed one.                                   *)
(***************************************************************************)
LEMMA CrashCore ==
    ASSUME CleanEnds, CheckoutCore, CheckoutTyped', NEW p \in Procs,
           CheckoutCrash(p)
    PROVE  CheckoutCore'
<1> USE DEF CheckoutCore, CheckoutTyped, CheckoutTypeOK
<1>1. /\ phase' = [phase EXCEPT ![p] = "dead"]
      /\ UNCHANGED <<dir, manifest, writer, entries, saved, todo, plan>>
  BY DEF CheckoutCrash, Goto, stashVars
<1>2. \A q \in Procs : Uses(q)' => Uses(q) /\ q # p
  BY <1>1 DEF Uses, SwapPhases, RestorePhases
<1>3. OneUses'
  BY <1>2 DEF OneUses
<1>4. CASE UNCHANGED tree
  <2>1. DiskInv'
    BY <1>1, <1>4 DEF DiskInv, Intact, TreeNew, Backed, Backing
  <2>2. NoOrphan'
    BY <1>1, <1>4
    DEF CheckoutCrash, NoOrphan, CleanEnds, Intact, Backed, Backing
  <2>3. \A q \in Procs : Knows(q)'
    BY <1>1, <1>2, <1>4
    DEF Knows, Planned, Through, Intact, TreeNew, Backed, Backing, Uses,
        SwapPhases
  <2> QED
    BY <1>3, <2>1, <2>2, <2>3
<1>5. CASE HalfWritten(p)
  <2>1. /\ Uses(p) /\ manifest = "whole" /\ Intact
        /\ cur[p] \in Paths /\ entries[cur[p]] # "unlisted"
    BY <1>5 DEF HalfWritten, Loops, Uses, SwapPhases, RestorePhases, Knows,
                Through
  <2>2. Intact'
    BY <1>1, <1>5, <2>1 DEF HalfWritten, Put, Intact, Backed, Backing
  <2>3. DiskInv' /\ NoOrphan'
    BY <1>1, <2>1, <2>2 DEF Intact, DiskInv, NoOrphan, Knows, Uses
  <2>4. \A q \in Procs : ~Uses(q)'
    BY <1>2, <2>1 DEF OneUses
  <2>5. \A q \in Procs : Knows(q)'
    BY <1>1, <2>4 DEF Knows, Uses, SwapPhases, RestorePhases
  <2> QED
    BY <1>3, <2>3, <2>5
<1> QED
  BY <1>4, <1>5 DEF CheckoutCrash

(***************************************************************************)
(* The steps of the module in its own schedule.                            *)
(***************************************************************************)
LEMMA CheckoutInvInit == CheckoutInit => CheckoutInv
BY CheckoutCoreInit
DEF CheckoutInit, CheckoutInv, OneUser, DirOwned, Active, SwapPhases,
    RestorePhases, Procs

LEMMA CheckoutCoreStep ==
    ASSUME Regime, CheckoutInv, [CheckoutNext]_checkoutVars
    PROVE  CheckoutCore'
<1> USE DEF CheckoutInv
<1>1. CheckoutTyped'
  BY CheckoutTypedStep DEF CheckoutCore
<1>2. ASSUME NEW p \in Procs, NEW S \in Slices, BeginSwap(p, S)
      PROVE  CheckoutCore'
  <2>1. ~dir => \A q \in Procs \ {p} : ~Uses(q)
    BY <1>2 DEF BeginSwap, Regime, DirOwned, Uses, Active, SwapPhases,
                RestorePhases, Procs
  <2> QED
    BY <1>1, <1>2, <2>1, BeginSwapCore DEF Regime
<1>3. ASSUME NEW p \in Procs, SwapStep(p) PROVE CheckoutCore'
  BY <1>1, <1>3, SaveCore, ManifestCore, RevertCore DEF SwapStep
<1>4. ASSUME NEW p \in Procs,
             CallRestore(p) \/ PassCheck(p) \/ RefuseRestore(p)
      PROVE  CheckoutCore'
  <2>1. PassCheck(p) => \A q \in Procs \ {p} : ~Uses(q)
    BY DEF PassCheck, OneUser, Active, Uses, SwapPhases, RestorePhases
  <2> QED
    BY <1>1, <1>4, <2>1, LookCore
<1>5. ASSUME NEW p \in Procs, PutBackStep(p) PROVE CheckoutCore'
  BY <1>1, <1>5, ReadCore, PutBackCore, CleanCore DEF PutBackStep, Regime
<1>6. ASSUME NEW p \in Procs, CheckoutCrash(p) PROVE CheckoutCore'
  BY <1>1, <1>6, CrashCore DEF Regime
<1>7. CASE AtRest \/ UNCHANGED checkoutVars
  <2>1. UNCHANGED checkoutVars
    BY <1>7 DEF AtRest
  <2>2. OneUses' /\ DiskInv' /\ NoOrphan'
    BY <2>1 DEF checkoutVars, CheckoutCore, OneUses, DiskInv, NoOrphan, Uses,
                Intact, TreeNew, Backed, Backing
  <2>3. \A q \in Procs : Knows(q)'
    BY <2>1 DEF checkoutVars, CheckoutCore, Knows, Planned, Through, Intact,
                TreeNew, Backed, Backing
  <2> QED
    BY <1>1, <2>2, <2>3 DEF CheckoutCore
<1> QED
  BY <1>2, <1>3, <1>4, <1>5, <1>6, <1>7 DEF CheckoutNext

(***************************************************************************)
(* A process becomes active only in BeginSwap, which owns the directory,   *)
(* and in CallRestore.                                                     *)
(***************************************************************************)
LEMMA ActiveStep ==
    ASSUME CheckoutTypeOK, NEW p \in Procs,
           \/ SwapStep(p) \/ PassCheck(p) \/ RefuseRestore(p)
           \/ PutBackStep(p) \/ CheckoutCrash(p)
    PROVE  /\ \A q \in Procs : Active(q)' => Active(q)
           /\ dir' # dir => CleanDir(p) /\ ~Active(p)'
<1> USE DEF CheckoutTypeOK
<1>1. /\ \A q \in Procs \ {p} : phase'[q] = phase[q]
      /\ Active(p)' => Active(p)
  BY DEF SwapStep, PutBackStep, PassCheck, RefuseRestore, CheckoutCrash,
         Save, SaveFails, AllSaved, CreateManifest, SyncManifest, SyncFails,
         RemoveNew, WriteOld, RevertFails, AllReverted, OldRunEnds,
         ReadManifest, RemoveOld, WriteNew, PutBackFails, AllBack, CleanSaved,
         CleanManifest, CleanFails, CleanDir, UndoRevert, Goto, procVars,
         Active, SwapPhases, RestorePhases
<1>2. dir' # dir => CleanDir(p)
  BY DEF SwapStep, PutBackStep, PassCheck, RefuseRestore, CheckoutCrash,
         Save, SaveFails, AllSaved, CreateManifest, SyncManifest, SyncFails,
         RemoveNew, WriteOld, RevertFails, AllReverted, OldRunEnds,
         ReadManifest, RemoveOld, WriteNew, PutBackFails, AllBack, CleanSaved,
         CleanManifest, CleanFails, stashVars
<1>3. CleanDir(p) => ~Active(p)'
  BY DEF CleanDir, Goto, Active, SwapPhases, RestorePhases
<1> QED
  BY <1>1, <1>2, <1>3 DEF Active

LEMMA CheckoutInvStep ==
    ASSUME Regime, CheckoutInv, [CheckoutNext]_checkoutVars
    PROVE  CheckoutInv'
<1> SUFFICES OneUser' /\ DirOwned'
  BY CheckoutCoreStep DEF CheckoutInv
<1> USE DEF CheckoutInv, CheckoutCore, CheckoutTyped, CheckoutTypeOK
<1>1. ASSUME NEW p \in Procs, NEW S \in Slices, BeginSwap(p, S)
      PROVE  OneUser' /\ DirOwned'
  <2>1. CASE ~dir
    <3>1. \A q \in Procs : ~Active(q)
      BY <1>1, <2>1 DEF BeginSwap, Regime, DirOwned, Procs, Active,
                        SwapPhases, RestorePhases
    <3>2. \A q \in Procs \ {p} : ~Active(q)'
      BY <1>1, <2>1, <3>1 DEF BeginSwap, Regime, Goto, Active
    <3>3. dir'
      BY <1>1, <2>1 DEF BeginSwap, Regime
    <3> QED
      BY <3>2, <3>3 DEF OneUser, DirOwned
  <2>2. CASE dir
    <3>1. phase' = [phase EXCEPT ![p] = "failed"] /\ dir'
      BY <1>1, <2>2 DEF BeginSwap, Regime, Goto
    <3>2. \A q \in Procs : Active(q)' => Active(q)
      BY <3>1 DEF Active, SwapPhases, RestorePhases
    <3> QED
      BY <3>1, <3>2 DEF OneUser, DirOwned
  <2> QED
    BY <2>1, <2>2
<1>2. ASSUME NEW p \in Procs, CallRestore(p)
      PROVE  OneUser' /\ DirOwned'
  <2>1. ~Overlap /\ \A q \in Procs \ {p} : ~Active(q)
    BY <1>2 DEF CallRestore, Regime
  <2>2. \A q \in Procs \ {p} : ~Active(q)'
    BY <1>2, <2>1 DEF CallRestore, Goto, Active
  <2> QED
    BY <1>2, <2>2, CheckoutAssumption DEF OneUser, DirOwned, CallRestore, Procs
<1>3. ASSUME NEW p \in Procs,
             \/ SwapStep(p) \/ PassCheck(p) \/ RefuseRestore(p)
             \/ PutBackStep(p) \/ CheckoutCrash(p)
      PROVE  OneUser' /\ DirOwned'
  <2>1. /\ \A q \in Procs : Active(q)' => Active(q)
        /\ dir' # dir => CleanDir(p) /\ ~Active(p)'
    BY <1>3, ActiveStep
  <2>2. CleanDir(p) => Active(p)
    BY DEF CleanDir, Active, RestorePhases
  <2> QED
    BY <2>1, <2>2 DEF OneUser, DirOwned, Procs
<1>4. CASE AtRest \/ UNCHANGED checkoutVars
  BY <1>4 DEF AtRest, checkoutVars, OneUser, DirOwned, Active
<1> QED
  BY <1>1, <1>2, <1>3, <1>4 DEF CheckoutNext

-----------------------------------------------------------------------------

LEMMA CheckoutInvImplies ==
    ASSUME CheckoutInv
    PROVE  WorkSafe /\ OneUser /\ OldRunOnBase
<1>1. WorkSafe
  BY DEF CheckoutInv, CheckoutCore, DiskInv, WorkSafe, TreeNew, Intact
<1>2. OldRunOnBase
  BY DEF CheckoutInv, CheckoutCore, OldRunOnBase, Knows, Through, Intact, Listed
<1> QED
  BY <1>1, <1>2 DEF CheckoutInv

(***************************************************************************)
(* No work is lost, at any point of any run and after any kill or error    *)
(* (WorkSafe); the stash has one live user (OneUser); and the old run sees *)
(* its slice of the change reverted and nothing else (OldRunOnBase).       *)
(***************************************************************************)
THEOREM CheckoutSafe ==
    ASSUME Regime
    PROVE  CheckoutSpec => [](WorkSafe /\ OneUser /\ OldRunOnBase)
<1>1. CheckoutInv => WorkSafe /\ OneUser /\ OldRunOnBase
  BY CheckoutInvImplies
<1>2. CheckoutInv /\ [CheckoutNext]_checkoutVars => CheckoutInv'
  BY CheckoutInvStep
<1> QED
  BY <1>1, <1>2, CheckoutInvInit, PTL DEF CheckoutSpec

(***************************************************************************)
(* The old run sees the files of its slice as the merge base has them and  *)
(* every other file as the change has it, whatever runs and Restores were  *)
(* killed or failed before.                                                *)
(***************************************************************************)
THEOREM OldRunsSeeBase ==
    ASSUME Regime
    PROVE  CheckoutSpec => []OldRunOnBase
<1>1. CheckoutSpec => [](WorkSafe /\ OneUser /\ OldRunOnBase)
  BY CheckoutSafe
<1> QED
  BY <1>1, PTL

(***************************************************************************)
(* When the stash directory disappears the whole change is in the tree.    *)
(***************************************************************************)
THEOREM RestoreIsComplete ==
    ASSUME Regime
    PROVE  CheckoutSpec => RestoreComplete
<1>1. CheckoutInv /\ [CheckoutNext]_checkoutVars
        => [dir /\ ~dir' => \A f \in Paths : tree[f] = New(f)]_checkoutVars
  <2> SUFFICES ASSUME CheckoutInv, CheckoutNext, dir, ~dir'
               PROVE  TreeNew
    BY DEF TreeNew, checkoutVars
  <2>1. PICK p \in Procs : CleanDir(p)
    BY DEF CheckoutNext, AtRest, checkoutVars, stashVars, procVars,
           BeginSwap, SwapStep, PutBackStep, CallRestore, PassCheck,
           RefuseRestore, CheckoutCrash, Save, SaveFails, AllSaved,
           CreateManifest, SyncManifest, SyncFails, RemoveNew, WriteOld,
           RevertFails, AllReverted, OldRunEnds, ReadManifest, RemoveOld,
           WriteNew, PutBackFails, AllBack, CleanSaved, CleanManifest,
           CleanFails
  <2> QED
    BY <2>1 DEF CleanDir, CheckoutInv, CheckoutCore, Knows
<1>2. CheckoutInv /\ [CheckoutNext]_checkoutVars => CheckoutInv'
  BY CheckoutInvStep
<1> QED
  BY <1>1, <1>2, CheckoutInvInit, PTL DEF CheckoutSpec, RestoreComplete

-----------------------------------------------------------------------------

(***************************************************************************)
(* The refinement of UndoLog.  A log is there and leads back, or it is not *)
(* a log: every step below is a step of UndoLog under the mapping of       *)
(* Checkout, or leaves the tree and the mapped log alone.                  *)
(***************************************************************************)
HasLog == manifest = "whole" /\ \A f \in Paths : Backed(f) # "none"

UndoStep == [Undo!UndoNext]_(Undo!undoVars)

LEMMA LogOf ==
    ASSUME HasLog
    PROVE  /\ StashAsLog = [f \in Listed(entries) |-> Backed(f)]
           /\ \A f \in Listed(entries) : StashAsLog # NoLog
BY DEF HasLog, StashAsLog, NoLog, Listed

LEMMA NoLogOf ==
    ASSUME ~HasLog
    PROVE  StashAsLog = NoLog
BY DEF HasLog, StashAsLog

LEMMA LogKept ==
    ASSUME UNCHANGED <<manifest, entries, saved>>
    PROVE  UNCHANGED StashAsLog
BY DEF StashAsLog, Listed, Backed, Backing, NoLog

(***************************************************************************)
(* A step that leaves the tree, the manifest and the copies it needs alone *)
(* is a stutter.                                                           *)
(***************************************************************************)
LEMMA UndoStutters ==
    ASSUME UNCHANGED <<tree, StashAsLog>>
    PROVE  UndoStep
BY DEF UndoStep, Undo!undoVars

(***************************************************************************)
(* The sync of the manifest logs every path the swap will touch.           *)
(***************************************************************************)
LEMMA SyncLogs ==
    ASSUME CheckoutCore, NEW p \in Procs, SyncManifest(p) \/ SyncFails(p)
    PROVE  UndoStep
<1> USE DEF CheckoutCore, CheckoutTyped, CheckoutTypeOK
<1>1. /\ phase[p] = "sync" /\ manifest = "torn" /\ TreeNew /\ Planned(p)
      /\ UNCHANGED <<tree, saved>>
  BY DEF SyncManifest, SyncFails, Knows, DiskInv
<1>2. StashAsLog = NoLog
  BY <1>1, NoLogOf DEF HasLog
<1>3. CASE manifest' = "whole" /\ entries' = plan[p]
  <2>1. \A f \in Paths : plan[p][f] # "unlisted" => Backed(f)' = tree[f]
    BY <1>1, <1>3 DEF Planned, TreeNew, Backed, Backing
  <2>2. \A f \in Paths : Backed(f)' # "none"
    <3>1. \A f \in Paths : plan[p][f] = "unlisted" => Backed(f)' # "none"
      BY <1>3 DEF Backed, Backing
    <3> QED
      BY <2>1, <3>1 DEF Versions
  <2>3. StashAsLog' = [f \in Listed(plan[p]) |-> Backed(f)']
    BY <1>3, <2>2 DEF StashAsLog, Listed
  <2>4. StashAsLog' = [f \in Listed(plan[p]) |-> tree[f]]
    BY <2>1, <2>3 DEF Listed
  <2>5. Listed(plan[p]) \in SUBSET Paths
    BY DEF Listed
  <2>6. Undo!Log(Listed(plan[p]))
    BY <1>1, <1>2, <2>4 DEF Undo!Log
  <2> QED
    BY <2>5, <2>6 DEF UndoStep, Undo!UndoNext
<1>4. CASE UNCHANGED <<manifest, entries>>
  BY <1>1, <1>4, LogKept, UndoStutters
<1> QED
  BY <1>1, <1>3, <1>4 DEF SyncManifest, SyncFails, Knows

(***************************************************************************)
(* Every path that is removed or written, whole or in part, is a logged    *)
(* one, before and after.                                                  *)
(***************************************************************************)
LEMMA TouchIsLogged ==
    ASSUME CheckoutCore, NEW f \in Paths, NEW v \in Versions,
           manifest = "whole", Intact, entries[f] # "unlisted",
           Put(f, v), UNCHANGED <<manifest, entries, saved>>
    PROVE  UndoStep
<1> USE DEF CheckoutCore, CheckoutTyped, CheckoutTypeOK
<1>1. HasLog
  BY DEF HasLog, Intact, Backed, Backing, New
<1>2. f \in DOMAIN StashAsLog /\ StashAsLog # NoLog
  BY <1>1, LogOf DEF Listed
<1>3. Undo!Touch(f)
  BY <1>2, LogKept DEF Undo!Touch, Put
<1> QED
  BY <1>3 DEF UndoStep, Undo!UndoNext

LEMMA RevertTouches ==
    ASSUME CheckoutCore, NEW p \in Procs,
           \/ \E f \in Paths : RemoveNew(p, f)
           \/ WriteOld(p) \/ RevertFails(p) \/ AllReverted(p) \/ OldRunEnds(p)
    PROVE  UndoStep
<1> USE DEF CheckoutCore, CheckoutTyped, CheckoutTypeOK
<1>1. UNCHANGED <<manifest, entries, saved>>
  BY DEF RemoveNew, WriteOld, RevertFails, AllReverted, OldRunEnds, stashVars
<1>2. CASE UNCHANGED tree
  BY <1>1, <1>2, LogKept, UndoStutters
<1>3. CASE tree' # tree
  <2>1. PICK f \in Paths, v \in Versions :
          f \in todo[p] /\ phase[p] = "revert" /\ Put(f, v)
    BY <1>3 DEF RemoveNew, WriteOld, RevertFails, AllReverted, OldRunEnds,
                HalfWritten, Loops, Versions
  <2>2. manifest = "whole" /\ Intact /\ entries[f] # "unlisted"
    BY <2>1 DEF Knows, Through, Loops
  <2> QED
    BY <1>1, <2>1, <2>2, TouchIsLogged
<1> QED
  BY <1>2, <1>3

LEMMA PutBackTouches ==
    ASSUME CheckoutCore, CheckoutTyped', NEW p \in Procs,
           \/ \E f \in Paths : RemoveOld(p, f)
           \/ WriteNew(p) \/ PutBackFails(p) \/ AllBack(p)
    PROVE  UndoStep
<1> USE DEF CheckoutCore, CheckoutTyped, CheckoutTypeOK
<1>1. UNCHANGED <<manifest, entries, saved>>
  BY DEF RemoveOld, WriteNew, PutBackFails, AllBack, stashVars
<1>2. CASE UNCHANGED tree
  BY <1>1, <1>2, LogKept, UndoStutters
<1>3. CASE tree' # tree
  <2>1. phase[p] = "putback"
    BY DEF RemoveOld, WriteNew, PutBackFails, AllBack
  <2>2. PICK f \in Paths, v \in Versions : f \in todo[p] /\ Put(f, v)
    <3>1. CASE WriteNew(p)
      <4>1. cur[p] \in todo[p] /\ cur[p] \in Paths
        BY <3>1 DEF WriteNew, Loops
      <4>2. tree'[cur[p]] = Backing(plan[p][cur[p]], cur[p])
        BY <3>1, <4>1 DEF WriteNew, Put
      <4>3. tree'[cur[p]] \in Versions
        BY <4>1
      <4> QED
        BY <3>1, <4>1, <4>2, <4>3 DEF WriteNew
    <3>2. CASE ~WriteNew(p)
      BY <1>3, <2>1, <3>2 DEF RemoveOld, PutBackFails, AllBack, HalfWritten,
                              Loops, Versions
    <3> QED
      BY <3>1, <3>2
  <2>3. manifest = "whole" /\ Intact /\ entries[f] # "unlisted"
    BY <2>1, <2>2 DEF Knows, Through, Loops
  <2> QED
    BY <1>1, <2>2, <2>3, TouchIsLogged
<1> QED
  BY <1>2, <1>3

LEMMA CrashTouches ==
    ASSUME CheckoutCore, NEW p \in Procs, CheckoutCrash(p)
    PROVE  UndoStep
<1> USE DEF CheckoutCore, CheckoutTyped, CheckoutTypeOK
<1>1. UNCHANGED <<manifest, entries, saved>>
  BY DEF CheckoutCrash, stashVars
<1>2. CASE UNCHANGED tree
  BY <1>1, <1>2, LogKept, UndoStutters
<1>3. CASE HalfWritten(p)
  <2>1. /\ cur[p] \in Paths /\ Put(cur[p], "torn") /\ manifest = "whole"
        /\ Intact /\ entries[cur[p]] # "unlisted"
    BY <1>3 DEF HalfWritten, Loops, Knows, Through
  <2> QED
    BY <1>1, <2>1, TouchIsLogged DEF Versions
<1> QED
  BY <1>2, <1>3 DEF CheckoutCrash

(***************************************************************************)
(* os.RemoveAll(stash) gives the log up with the first file it needs; the  *)
(* whole change is in the tree by then.                                    *)
(***************************************************************************)
LEMMA CleanGivesUp ==
    ASSUME CheckoutCore, NEW p \in Procs,
           \/ \E f \in Paths : CleanSaved(p, f)
           \/ CleanManifest(p) \/ CleanFails(p) \/ CleanDir(p)
    PROVE  UndoStep
<1> USE DEF CheckoutCore, CheckoutTyped, CheckoutTypeOK
<1>1. TreeNew /\ UNCHANGED tree
  BY DEF CleanSaved, CleanManifest, CleanFails, CleanDir, Knows, stashVars
<1>2. CASE ~HasLog
  <2>1. ~HasLog'
    <3>1. CASE UNCHANGED <<manifest, entries, saved>>
      BY <1>2, <3>1 DEF HasLog, Backed, Backing
    <3>2. CASE CleanManifest(p)
      BY <3>2 DEF CleanManifest, HasLog
    <3>3. ASSUME NEW f \in Paths, CleanSaved(p, f) PROVE ~HasLog'
      BY <1>2, <3>3 DEF CleanSaved, HasLog, Backed, Backing
    <3> QED
      BY <3>1, <3>2, <3>3 DEF CleanFails, CleanDir, stashVars
  <2>2. StashAsLog = NoLog /\ StashAsLog' = NoLog
    BY <1>2, <2>1, NoLogOf DEF HasLog, StashAsLog
  <2> QED
    BY <1>1, <2>2, UndoStutters
<1>3. CASE HasLog /\ ~HasLog'
  <2>1. StashAsLog' = NoLog
    BY <1>3 DEF HasLog, StashAsLog
  <2>2. CASE StashAsLog = NoLog
    BY <1>1, <2>1, <2>2, UndoStutters
  <2>3. CASE StashAsLog # NoLog
    <3>1. \A f \in Listed(entries) : Backed(f) = New(f)
      BY <1>3 DEF HasLog, DiskInv, Listed
    <3>2. \A f \in DOMAIN StashAsLog : tree[f] = StashAsLog[f]
      BY <1>1, <1>3, <3>1, LogOf DEF TreeNew, Listed
    <3>3. Undo!GiveUpLog
      BY <1>1, <2>1, <2>3, <3>2 DEF Undo!GiveUpLog
    <3> QED
      BY <3>3 DEF UndoStep, Undo!UndoNext
  <2> QED
    BY <2>2, <2>3
<1>4. CASE HasLog /\ HasLog'
  <2>1. UNCHANGED <<manifest, entries>>
    BY <1>4 DEF HasLog, CleanSaved, CleanManifest, CleanFails, CleanDir,
                stashVars
  <2>2. \A f \in Listed(entries) : Backed(f)' = Backed(f)
    BY <1>4, <2>1 DEF HasLog, CleanSaved, CleanManifest, CleanFails, CleanDir,
                stashVars, Listed, Backed, Backing
  <2>3. StashAsLog' = [f \in Listed(entries) |-> Backed(f)']
    BY <1>4, <2>1 DEF StashAsLog, HasLog, Listed
  <2>4. UNCHANGED StashAsLog
    BY <1>4, <2>2, <2>3, LogOf
  <2> QED
    BY <1>1, <2>4, UndoStutters
<1> QED
  BY <1>2, <1>3, <1>4

LEMMA SwapUndoes ==
    ASSUME CheckoutCore, NEW p \in Procs, SwapStep(p)
    PROVE  UndoStep
<1>1. ASSUME \/ \E f \in Paths : Save(p, f) \/ SaveFails(p, f)
             \/ AllSaved(p) \/ CreateManifest(p)
      PROVE  UndoStep
  <2>1. UNCHANGED tree /\ manifest # "whole" /\ manifest' # "whole"
    BY <1>1 DEF Save, SaveFails, AllSaved, CreateManifest, CheckoutCore, Knows
  <2> QED
    BY <2>1, UndoStutters DEF StashAsLog
<1> QED
  BY <1>1, SyncLogs, RevertTouches DEF SwapStep

LEMMA RestoreUndoes ==
    ASSUME CheckoutCore, NEW p \in Procs,
           \/ CallRestore(p) \/ PassCheck(p) \/ RefuseRestore(p)
           \/ PutBackStep(p) \/ CheckoutCrash(p)
    PROVE  UndoStep
<1>1. ASSUME \/ CallRestore(p) \/ PassCheck(p) \/ RefuseRestore(p)
             \/ ReadManifest(p)
      PROVE  UndoStep
  BY <1>1, LogKept, UndoStutters
  DEF CallRestore, PassCheck, RefuseRestore, ReadManifest, stashVars
<1>2. CheckoutTyped'
  BY RestoreTyped DEF CheckoutCore
<1> QED
  BY <1>1, <1>2, PutBackTouches, CleanGivesUp, CrashTouches DEF PutBackStep

LEMMA CheckoutUndoStep ==
    ASSUME CheckoutCore, [CheckoutNext]_checkoutVars
    PROVE  UndoStep
<1>1. ASSUME NEW p \in Procs, NEW S \in Slices, BeginSwap(p, S)
      PROVE  UndoStep
  BY <1>1, LogKept, UndoStutters DEF BeginSwap
<1>2. CASE AtRest \/ UNCHANGED checkoutVars
  BY <1>2, LogKept, UndoStutters DEF AtRest, checkoutVars
<1> QED
  BY <1>1, <1>2, SwapUndoes, RestoreUndoes DEF CheckoutNext

(***************************************************************************)
(* The stash implements the undo log: however the system calls of runs     *)
(* and Restores fail and whichever processes are killed, the paths are     *)
(* logged in one step before one of them is touched, only logged paths are *)
(* touched, and the log goes in one step when every path is back.          *)
(***************************************************************************)
THEOREM StashImplementsLog ==
    ASSUME Regime
    PROVE  CheckoutSpec => StashIsUndoLog
<1>1. CheckoutInit => Undo!UndoInit
  BY DEF CheckoutInit, Undo!UndoInit, StashAsLog
<1>2. CheckoutInv /\ [CheckoutNext]_checkoutVars
        => CheckoutInv' /\ [Undo!UndoNext]_(Undo!undoVars)
  BY CheckoutInvStep, CheckoutUndoStep DEF UndoStep, CheckoutInv
<1> QED
  BY <1>1, <1>2, CheckoutInvInit, PTL
  DEF CheckoutSpec, StashIsUndoLog, Undo!UndoSpec
=============================================================================
