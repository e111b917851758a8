------------------------------ MODULE Checkout ------------------------------
(***************************************************************************)
(* The working tree and the stash of `test-check prove`: stashPaths,       *)
(* swapToBase, writeBase, applyPiece, onBase and Restore of                *)
(* internal/prove, called by any number of processes, with I/O errors and  *)
(* kills between any two system calls.                                     *)
(*                                                                         *)
(* The lock of ProveLock is left out here: Restore's look at it is a       *)
(* choice, and ProveRun decides it.  What this module shows is what the    *)
(* stash gives by itself.                                                  *)
(***************************************************************************)
EXTENDS FiniteSets, Naturals

CONSTANTS
    Runs,           \* processes of `prove --test`
    Restorers,      \* processes of `prove --restore`; each calls Restore once
    None,           \* no process, no path
    Paths,          \* the changed files that are not on the test side
    Added,          \* those the merge base does not have
    Deleted,        \* those the change removed
    Linked,         \* those that are symlinks in the change
    Slices,         \* the sets of paths one swap may revert: all of them for
                    \* a whole or per-test run, one file for a piece
    Fails,          \* the parts of a swap in which an I/O error may happen
    CrashIn,        \* the phases in which a process may be killed
    Overlap         \* may Restore of one process run beside another process

Procs == Runs \cup Restorers

Versions == {"new", "old", "absent", "torn"}

ASSUME CheckoutAssumption ==
    /\ Runs \cap Restorers = {}
    /\ None \notin Procs \cup Paths
    /\ Added \subseteq Paths /\ Deleted \subseteq Paths
    /\ Added \cap Deleted = {}
    /\ Linked \subseteq Paths \ Deleted
    /\ Slices \subseteq SUBSET Paths
    /\ Fails \subseteq {"mkdir", "save", "manifest", "revert", "restore", "clean"}
    /\ Overlap \in BOOLEAN

VARIABLES
    tree,           \* the version of each path in the working tree
    dir,            \* the stash directory exists
    manifest,       \* its manifest file: "none", "torn" or "whole"
    writer,         \* the process that created the manifest file
    entries,        \* the manifest's entry for each path
    saved,          \* the stash's copy of each path, or "none"
    phase,          \* where each process is
    todo,           \* the paths its loop has still to visit
    cur,            \* the path it has removed and has still to write
    plan,           \* the entries it holds in memory
    undone          \* its revert failed: an error is returned after Restore

stashVars == <<dir, manifest, writer, entries, saved>>
procVars == <<phase, todo, cur, plan, undone>>
checkoutVars == <<tree, dir, manifest, writer, entries, saved,
                  phase, todo, cur, plan, undone>>

New(f) == IF f \in Deleted THEN "absent" ELSE "new"
Old(f) == IF f \in Added THEN "absent" ELSE "old"

(***************************************************************************)
(* An entry of the manifest: the path did not exist ("missing"), its       *)
(* content is in the stash ("file"), or it is a symlink and the entry      *)
(* itself holds its target, told apart by its version.                     *)
(***************************************************************************)
Kinds == {"unlisted", "missing", "file"} \cup Versions
Unlisted == [f \in Paths |-> "unlisted"]
Listed(e) == {f \in Paths : e[f] # "unlisted"}

Entry(f) == CASE tree[f] = "absent" -> "missing"
              [] tree[f] # "absent" /\ f \in Linked -> tree[f]
              [] OTHER -> "file"

(***************************************************************************)
(* The version Restore writes for a path whose entry is k, and so the one  *)
(* the stash on disk leads to.                                             *)
(***************************************************************************)
Backing(k, f) == CASE k = "missing" -> "absent"
                   [] k = "file" -> saved[f]
                   [] OTHER -> k
Backed(f) == Backing(entries[f], f)

SwapPhases == {"save", "create", "sync", "revert", "swapped"}
RestorePhases == {"check", "read", "putback", "clean"}
Active(p) == phase[p] \in SwapPhases \cup RestorePhases

CheckoutTypeOK ==
    /\ tree \in [Paths -> Versions]
    /\ dir \in BOOLEAN
    /\ manifest \in {"none", "torn", "whole"}
    /\ writer \in Procs \cup {None}
    /\ entries \in [Paths -> Kinds]
    /\ saved \in [Paths -> Versions \cup {"none"}]
    /\ phase \in [Procs -> SwapPhases \cup RestorePhases
                             \cup {"idle", "done", "failed", "dead"}]
    /\ todo \in [Procs -> SUBSET Paths]
    /\ cur \in [Procs -> Paths \cup {None}]
    /\ plan \in [Procs -> [Paths -> Kinds]]
    /\ undone \in [Procs -> BOOLEAN]

CheckoutInit ==
    /\ tree = [f \in Paths |-> New(f)]
    /\ dir = FALSE
    /\ manifest = "none"
    /\ writer = None
    /\ entries = Unlisted
    /\ saved = [f \in Paths |-> "none"]
    /\ phase = [p \in Procs |-> "idle"]
    /\ todo = [p \in Procs |-> {}]
    /\ cur = [p \in Procs |-> None]
    /\ plan = [p \in Procs |-> Unlisted]
    /\ undone = [p \in Procs |-> FALSE]

Goto(p, to) == phase' = [phase EXCEPT ![p] = to]
Put(f, v) == tree' = [tree EXCEPT ![f] = v]

(***************************************************************************)
(* The loop visits f and is done with it.                                  *)
(***************************************************************************)
Visited(p, f) == todo' = [todo EXCEPT ![p] = @ \ {f}]

(***************************************************************************)
(* A regular file being written may be left half written; a symlink not.   *)
(***************************************************************************)
HalfWritten(p) ==
    /\ cur[p] # None
    /\ cur[p] \notin Linked
    /\ Put(cur[p], "torn")

(***************************************************************************)
(* onBase and runPieces: a failed revert, save for a stash that is already *)
(* there, calls Restore and then returns an error.                         *)
(***************************************************************************)
UndoRevert(p) ==
    /\ Goto(p, "check")
    /\ undone' = [undone EXCEPT ![p] = TRUE]
    /\ cur' = [cur EXCEPT ![p] = None]

-----------------------------------------------------------------------------
(* Swap to the base *)

(***************************************************************************)
(* os.Mkdir(stash) at the head of stashPaths: exclusive, so a stash that   *)
(* exists is another run's (errStashTaken) and is left alone.              *)
(***************************************************************************)
BeginSwap(p, S) ==
    /\ p \in Runs
    /\ phase[p] = "idle"
    /\ Overlap \/ \A q \in Restorers : ~Active(q)
    /\ \/ /\ ~dir
          /\ dir' = TRUE
          /\ Goto(p, "save")
          /\ todo' = [todo EXCEPT ![p] = S]
          /\ plan' = [plan EXCEPT ![p] = Unlisted]
          /\ UNCHANGED <<cur, undone>>
       \/ /\ dir
          /\ Goto(p, "failed")
          /\ UNCHANGED <<dir, todo, plan, cur, undone>>
       \/ /\ "mkdir" \in Fails
          /\ UndoRevert(p)
          /\ UNCHANGED <<dir, todo, plan>>
    /\ UNCHANGED <<tree, manifest, writer, entries, saved>>

(***************************************************************************)
(* One turn of the save loop of stashPaths: Lstat, Readlink or ReadFile,   *)
(* and the copy of a regular file under the stash.                         *)
(***************************************************************************)
Save(p, f) ==
    /\ phase[p] = "save"
    /\ f \in todo[p]
    /\ Entry(f) = "file" => dir
    /\ plan' = [plan EXCEPT ![p][f] = Entry(f)]
    /\ saved' = [saved EXCEPT ![f] = IF Entry(f) = "file" THEN tree[f] ELSE @]
    /\ Visited(p, f)
    /\ UNCHANGED <<tree, dir, manifest, writer, entries, phase, cur, undone>>

SaveFails(p, f) ==
    /\ phase[p] = "save"
    /\ f \in todo[p]
    /\ "save" \in Fails \/ ~dir
    /\ \/ UNCHANGED saved
       \/ dir /\ Entry(f) = "file" /\ saved' = [saved EXCEPT ![f] = "torn"]
    /\ UndoRevert(p)
    /\ UNCHANGED <<tree, dir, manifest, writer, entries, todo, plan>>

\* A variant of AllSaved: the tree is touched before a manifest is written.
AllSavedRevert(p) ==
    /\ phase[p] = "save"
    /\ todo[p] = {}
    /\ Goto(p, "revert")
    /\ todo' = [todo EXCEPT ![p] = Listed(plan[p])]
    /\ UNCHANGED <<tree, stashVars, cur, plan, undone>>

AllSaved(p) ==
    /\ phase[p] = "save"
    /\ todo[p] = {}
    /\ Goto(p, "create")
    /\ UNCHANGED <<tree, dir, manifest, writer, entries, saved,
                   todo, cur, plan, undone>>

(***************************************************************************)
(* writeSynced: the exclusive create, and then the write, sync and close.  *)
(* A manifest that is created and not written does not parse.              *)
(***************************************************************************)
CreateManifest(p) ==
    /\ phase[p] = "create"
    /\ \/ /\ dir /\ manifest = "none"
          /\ manifest' = "torn"
          /\ writer' = p
          /\ Goto(p, "sync")
          /\ UNCHANGED <<cur, undone>>
       \/ /\ "manifest" \in Fails \/ ~dir \/ manifest # "none"
          /\ UndoRevert(p)
          /\ UNCHANGED <<manifest, writer>>
    /\ UNCHANGED <<tree, dir, entries, saved, todo, plan>>

(***************************************************************************)
(* The content goes to the file this process created; if somebody removed  *)
(* that file, the write succeeds and leaves nothing at the path.           *)
(***************************************************************************)
SyncManifest(p) ==
    /\ phase[p] = "sync"
    /\ IF manifest = "torn" /\ writer = p
         THEN manifest' = "whole" /\ entries' = plan[p]
         ELSE UNCHANGED <<manifest, entries>>
    /\ Goto(p, "revert")
    /\ todo' = [todo EXCEPT ![p] = Listed(plan[p])]
    /\ UNCHANGED <<tree, dir, writer, saved, cur, plan, undone>>

SyncFails(p) ==
    /\ phase[p] = "sync"
    /\ "manifest" \in Fails
    /\ \/ UNCHANGED <<manifest, entries>>
       \/ /\ manifest = "torn" /\ writer = p
          /\ manifest' = "whole" /\ entries' = plan[p]
    /\ UndoRevert(p)
    /\ UNCHANGED <<tree, dir, writer, saved, todo, plan>>

(***************************************************************************)
(* writeBase, and applyPiece for one file: the path is removed, and then   *)
(* written with its merge-base version if the base has it.                 *)
(***************************************************************************)
RemoveNew(p, f) ==
    /\ phase[p] = "revert"
    /\ cur[p] = None
    /\ f \in todo[p]
    /\ Put(f, "absent")
    /\ IF f \in Added
         THEN Visited(p, f) /\ UNCHANGED cur
         ELSE cur' = [cur EXCEPT ![p] = f] /\ UNCHANGED todo
    /\ UNCHANGED <<stashVars, phase, plan, undone>>

WriteOld(p) ==
    /\ phase[p] = "revert"
    /\ cur[p] # None
    /\ Put(cur[p], "old")
    /\ Visited(p, cur[p])
    /\ cur' = [cur EXCEPT ![p] = None]
    /\ UNCHANGED <<stashVars, phase, plan, undone>>

\* A variant of RevertFails: a path that cannot be reverted is passed over.
RevertSkips(p) ==
    /\ phase[p] = "revert"
    /\ "revert" \in Fails
    /\ cur[p] = None
    /\ \E f \in todo[p] : Visited(p, f)
    /\ UNCHANGED <<tree, stashVars, phase, cur, plan, undone>>

RevertFails(p) ==
    /\ phase[p] = "revert"
    /\ todo[p] # {}
    /\ "revert" \in Fails
    /\ \/ UNCHANGED tree
       \/ HalfWritten(p)
    /\ UndoRevert(p)
    /\ UNCHANGED <<stashVars, todo, plan>>

AllReverted(p) ==
    /\ phase[p] = "revert"
    /\ todo[p] = {}
    /\ Goto(p, "swapped")
    /\ UNCHANGED <<tree, stashVars, todo, cur, plan, undone>>

\* A variant of OldRunEnds: the caller goes on without Restore.
OldRunLeaves(p) ==
    /\ phase[p] = "swapped"
    /\ Goto(p, "idle")
    /\ UNCHANGED <<tree, stashVars, todo, cur, plan, undone>>

(***************************************************************************)
(* The test command has run on the old code; Restore follows.              *)
(***************************************************************************)
OldRunEnds(p) ==
    /\ phase[p] = "swapped"
    /\ Goto(p, "check")
    /\ UNCHANGED <<tree, stashVars, todo, cur, plan, undone>>

-----------------------------------------------------------------------------
(* Restore *)

CallRestore(p) ==
    /\ p \in Restorers
    /\ phase[p] = "idle"
    /\ Overlap \/ \A q \in Procs \ {p} : ~Active(q)
    /\ Goto(p, "check")
    /\ UNCHANGED <<tree, stashVars, todo, cur, plan, undone>>

(***************************************************************************)
(* Restore opens the repository and looks at the lock; it is not taken.    *)
(***************************************************************************)
PassCheck(p) ==
    /\ phase[p] = "check"
    /\ Goto(p, "read")
    /\ UNCHANGED <<tree, stashVars, todo, cur, plan, undone>>

RefuseRestore(p) ==
    /\ phase[p] = "check"
    /\ Goto(p, "failed")
    /\ UNCHANGED <<tree, stashVars, todo, cur, plan, undone>>

\* Variants of ReadManifest: a manifest that cannot be read is taken for a
\* missing one, and a missing one for an error.
ReadManifestLeniently(p) ==
    /\ phase[p] = "read"
    /\ \/ /\ manifest # "whole" \/ "restore" \in Fails
          /\ Goto(p, "clean")
          /\ UNCHANGED <<plan, todo>>
       \/ /\ manifest = "whole"
          /\ Goto(p, "putback")
          /\ plan' = [plan EXCEPT ![p] = entries]
          /\ todo' = [todo EXCEPT ![p] = Listed(entries)]
    /\ UNCHANGED <<tree, stashVars, cur, undone>>
ReadManifestStrictly(p) ==
    /\ phase[p] = "read"
    /\ \/ /\ manifest = "whole"
          /\ Goto(p, "putback")
          /\ plan' = [plan EXCEPT ![p] = entries]
          /\ todo' = [todo EXCEPT ![p] = Listed(entries)]
       \/ /\ manifest # "whole"
          /\ Goto(p, "failed")
          /\ UNCHANGED <<plan, todo>>
    /\ UNCHANGED <<tree, stashVars, cur, undone>>

(***************************************************************************)
(* No manifest: nothing was touched, and the stash is removed.  A manifest *)
(* that does not parse is an error and stays.                              *)
(***************************************************************************)
ReadManifest(p) ==
    /\ phase[p] = "read"
    /\ \/ /\ manifest = "none"
          /\ Goto(p, "clean")
          /\ UNCHANGED <<plan, todo>>
       \/ /\ manifest = "whole"
          /\ Goto(p, "putback")
          /\ plan' = [plan EXCEPT ![p] = entries]
          /\ todo' = [todo EXCEPT ![p] = Listed(entries)]
       \/ /\ manifest = "torn" \/ "restore" \in Fails
          /\ Goto(p, "failed")
          /\ UNCHANGED <<plan, todo>>
    /\ UNCHANGED <<tree, stashVars, cur, undone>>

(***************************************************************************)
(* One turn of Restore's loop: os.RemoveAll(full) first, whatever is       *)
(* there, and then the symlink or the copy from the stash.                 *)
(***************************************************************************)
RemoveOld(p, f) ==
    /\ phase[p] = "putback"
    /\ cur[p] = None
    /\ f \in todo[p]
    /\ Put(f, "absent")
    /\ IF plan[p][f] = "missing"
         THEN Visited(p, f) /\ UNCHANGED cur
         ELSE cur' = [cur EXCEPT ![p] = f] /\ UNCHANGED todo
    /\ UNCHANGED <<stashVars, phase, plan, undone>>

\* A variant of WriteNew: the copy is renamed instead of read.
WriteNewByRename(p) ==
    /\ phase[p] = "putback"
    /\ cur[p] # None
    /\ Backing(plan[p][cur[p]], cur[p]) # "none"
    /\ Put(cur[p], Backing(plan[p][cur[p]], cur[p]))
    /\ saved' = [saved EXCEPT ![cur[p]] = "none"]
    /\ Visited(p, cur[p])
    /\ cur' = [cur EXCEPT ![p] = None]
    /\ UNCHANGED <<dir, manifest, writer, entries, phase, plan, undone>>

WriteNew(p) ==
    /\ phase[p] = "putback"
    /\ cur[p] # None
    /\ LET f == cur[p]
           v == Backing(plan[p][f], f)
       IN  /\ v # "none"
           /\ Put(f, v)
           /\ Visited(p, f)
    /\ cur' = [cur EXCEPT ![p] = None]
    /\ UNCHANGED <<stashVars, phase, plan, undone>>

\* A variant of PutBackFails: the loop goes on with the next path.
PutBackSkips(p) ==
    /\ phase[p] = "putback"
    /\ "restore" \in Fails
    /\ cur[p] # None
    /\ Visited(p, cur[p])
    /\ cur' = [cur EXCEPT ![p] = None]
    /\ UNCHANGED <<tree, stashVars, phase, plan, undone>>

(***************************************************************************)
(* The copy is not in the stash any more, or a system call fails: Restore  *)
(* returns and leaves the path removed or half written.                    *)
(***************************************************************************)
PutBackFails(p) ==
    /\ phase[p] = "putback"
    /\ todo[p] # {}
    /\ \/ /\ cur[p] # None
          /\ plan[p][cur[p]] = "file" /\ saved[cur[p]] = "none"
          /\ UNCHANGED tree
       \/ "restore" \in Fails /\ UNCHANGED tree
       \/ "restore" \in Fails /\ HalfWritten(p)
    /\ Goto(p, "failed")
    /\ cur' = [cur EXCEPT ![p] = None]
    /\ UNCHANGED <<stashVars, todo, plan, undone>>

AllBack(p) ==
    /\ phase[p] = "putback"
    /\ todo[p] = {}
    /\ Goto(p, "clean")
    /\ UNCHANGED <<tree, stashVars, todo, cur, plan, undone>>

(***************************************************************************)
(* os.RemoveAll(stash) unlinks the files of the directory one by one, in   *)
(* the order the file system lists them, and then the directory.           *)
(***************************************************************************)
CleanSaved(p, f) ==
    /\ phase[p] = "clean"
    /\ saved[f] # "none"
    /\ saved' = [saved EXCEPT ![f] = "none"]
    /\ UNCHANGED <<tree, dir, manifest, writer, entries, procVars>>

CleanManifest(p) ==
    /\ phase[p] = "clean"
    /\ manifest # "none"
    /\ manifest' = "none"
    /\ writer' = None
    /\ entries' = Unlisted
    /\ UNCHANGED <<tree, dir, saved, procVars>>

CleanFails(p) ==
    /\ phase[p] = "clean"
    /\ "clean" \in Fails
    /\ dir
    /\ Goto(p, "failed")
    /\ UNCHANGED <<tree, stashVars, todo, cur, plan, undone>>

(***************************************************************************)
(* The directory goes last, and Restore returns nil: to main, to the error *)
(* return of a failed revert, or to the next swap.                         *)
(***************************************************************************)
CleanDir(p) ==
    /\ phase[p] = "clean"
    /\ manifest = "none" /\ \A f \in Paths : saved[f] = "none"
    /\ dir' = FALSE
    /\ Goto(p, IF p \in Restorers THEN "done"
               ELSE IF undone[p] THEN "failed" ELSE "idle")
    /\ UNCHANGED <<tree, manifest, writer, entries, saved,
                   todo, cur, plan, undone>>

-----------------------------------------------------------------------------

(***************************************************************************)
(* The process is killed.  A file it was writing may be left half written. *)
(***************************************************************************)
CheckoutCrash(p) ==
    /\ phase[p] \in CrashIn
    /\ \/ UNCHANGED tree
       \/ HalfWritten(p)
    /\ Goto(p, "dead")
    /\ cur' = [cur EXCEPT ![p] = None]
    /\ UNCHANGED <<stashVars, todo, plan, undone>>

AtRest == (\A p \in Procs : ~Active(p)) /\ UNCHANGED checkoutVars

SwapStep(p) ==
    \/ \E f \in Paths : Save(p, f) \/ SaveFails(p, f) \/ RemoveNew(p, f)
    \/ AllSaved(p) \/ CreateManifest(p) \/ SyncManifest(p) \/ SyncFails(p)
    \/ WriteOld(p) \/ RevertFails(p) \/ AllReverted(p) \/ OldRunEnds(p)

PutBackStep(p) ==
    \/ \E f \in Paths : RemoveOld(p, f) \/ CleanSaved(p, f)
    \/ ReadManifest(p) \/ WriteNew(p) \/ PutBackFails(p) \/ AllBack(p)
    \/ CleanManifest(p) \/ CleanFails(p) \/ CleanDir(p)

CheckoutNext ==
    \/ \E p \in Procs :
         \/ \E S \in Slices : BeginSwap(p, S)
         \/ SwapStep(p)
         \/ CallRestore(p) \/ PassCheck(p) \/ RefuseRestore(p)
         \/ PutBackStep(p)
         \/ CheckoutCrash(p)
    \/ AtRest

CheckoutSpec == CheckoutInit /\ [][CheckoutNext]_checkoutVars

-----------------------------------------------------------------------------

(***************************************************************************)
(* No work is lost: at any moment, and so after a kill at any moment, each *)
(* reverted file is in the tree as the change has it, or the manifest on   *)
(* disk is readable and leads Restore to that version.                     *)
(***************************************************************************)
WorkSafe ==
    \A f \in Paths :
        tree[f] = New(f) \/ (manifest = "whole" /\ Backed(f) = New(f))

(***************************************************************************)
(* The stash has one live user: nobody else is between its Mkdir and the   *)
(* end of its Restore.                                                     *)
(***************************************************************************)
OneUser == \A p, q \in Procs : Active(p) /\ Active(q) => p = q

(***************************************************************************)
(* The old run sees the reverted files of its slice as the merge base has  *)
(* them and every other file as the change has it.                         *)
(***************************************************************************)
OldRunOnBase ==
    \A p \in Procs : phase[p] = "swapped" =>
        \A f \in Paths :
            tree[f] = IF f \in Listed(plan[p]) THEN Old(f) ELSE New(f)

(***************************************************************************)
(* A Restore that returns nil has brought the whole change back: the stash *)
(* disappears only when every file is as the change has it.                *)
(***************************************************************************)
RestoreComplete ==
    [][dir /\ ~dir' => \A f \in Paths : tree[f] = New(f)]_checkoutVars

-----------------------------------------------------------------------------

(***************************************************************************)
(* The stash is an undo log: it exists from the sync of the manifest to    *)
(* the removal of the first file it needs.  The system calls between the   *)
(* two ends, failed or not, are steps of the log or leave it alone.        *)
(***************************************************************************)
NoLog == [f \in {} |-> None]
StashAsLog ==
    IF manifest = "whole" /\ \A f \in Paths : Backed(f) # "none"
      THEN [f \in Listed(entries) |-> Backed(f)]
      ELSE NoLog

Undo == INSTANCE UndoLog WITH
          Change <- [f \in Paths |-> New(f)], log <- StashAsLog

StashIsUndoLog == Undo!UndoSpec
=============================================================================
