----------------------------- MODULE ProveLock -----------------------------
(***************************************************************************)
(* The per-worktree lock of `test-check prove`: acquire, lockHolder and    *)
(* the release closure of internal/prove/prove.go, taken by processes that *)
(* start, are killed and end in any order.                                 *)
(*                                                                         *)
(* The lock is a file under the git dir.  Its content is the pid of its    *)
(* creator, written after the exclusive create, so that between the two    *)
(* calls the file exists and names nobody.  The file at the path is told   *)
(* apart by its creator: a process creates at most one lock file.          *)
(***************************************************************************)
EXTENDS Naturals, FiniteSets

CONSTANTS
    Procs,          \* `test-check prove` runs; one process each
    NoFile,         \* no file at the lock's path
    Pid,            \* the process id the system gives to each of them
    Overlap,        \* may a process enter acquire while another is inside it
    Fails           \* the system calls that may fail: "create" is an error of
                    \* os.OpenFile other than EEXIST, "write" that of the pid
                    \* and "remove" that of os.Remove; acquire ignores the
                    \* last two

ASSUME LockAssumption ==
    /\ NoFile \notin Procs
    /\ DOMAIN Pid = Procs
    /\ Overlap \in BOOLEAN
    /\ Fails \subseteq {"create", "write", "remove"}

VARIABLES
    lock,           \* the creator of the file at the path, or NoFile
    named,          \* the processes whose lock file holds their pid
    lpc,            \* where each process is in acquire
    tries           \* attempts of acquire's loop that ended in a removal

lockVars == <<lock, named, lpc, tries>>

Acquiring == {"try", "name", "inspect", "steal"}
Ended == {"refused", "done", "dead"}

\* The process is inside Run: it may hold the lock or yet take it.
Inside(p) == lpc[p] \in Acquiring \cup {"held"}

(***************************************************************************)
(* The process exists: inside Run, or after it, while the receipt is saved *)
(* and the report printed.  A refused process prints its error and ends;   *)
(* its pid is in no lock file, so that its end is not a step of its own.   *)
(***************************************************************************)
Live(p) == Inside(p) \/ lpc[p] = "released"

LockTypeOK ==
    /\ lock \in Procs \cup {NoFile}
    /\ named \subseteq Procs
    /\ lpc \in [Procs -> {"out", "held", "released"} \cup Acquiring \cup Ended]
    /\ tries \in [Procs -> 0..2]

LockInit ==
    /\ lock = NoFile
    /\ named = {}
    /\ lpc = [p \in Procs |-> "out"]
    /\ tries = [p \in Procs |-> 0]

Goto(p, to) == lpc' = [lpc EXCEPT ![p] = to]

(***************************************************************************)
(* processAlive(pid): some process with that pid exists.                   *)
(***************************************************************************)
Alive(pid) == \E q \in Procs : Live(q) /\ Pid[q] = pid

\* Variants of HeldByLive: any lock file, or any pid in it, counts as held.
HeldByFile == lock # NoFile
HeldByPid == lock # NoFile /\ lock \in named

(***************************************************************************)
(* lockHolder(path) > 0 and processAlive: the file is there, its creator's *)
(* pid was written into it, and a process with that pid exists.            *)
(***************************************************************************)
HeldByLive == lock # NoFile /\ lock \in named /\ Alive(Pid[lock])

(***************************************************************************)
(* A process starts.  Two processes that exist together have two pids.     *)
(* Without Overlap it starts only when nobody else is inside acquire.      *)
(***************************************************************************)
Start(p) ==
    /\ lpc[p] = "out"
    /\ ~Alive(Pid[p])
    /\ Overlap \/ \A q \in Procs : lpc[q] \notin Acquiring
    /\ Goto(p, "try")
    /\ UNCHANGED <<lock, named, tries>>

(***************************************************************************)
(* os.OpenFile(path, O_CREATE|O_EXCL|O_WRONLY), at the head of the loop.   *)
(* The loop is left after two attempts.                                    *)
(***************************************************************************)
Create(p) ==
    /\ lpc[p] = "try"
    /\ tries[p] < 2
    /\ \/ lock = NoFile /\ lock' = p /\ Goto(p, "name")
       \/ lock # NoFile /\ Goto(p, "inspect") /\ UNCHANGED lock
       \/ "create" \in Fails /\ Goto(p, "refused") /\ UNCHANGED lock
    /\ UNCHANGED <<named, tries>>

GiveUp(p) ==
    /\ lpc[p] = "try"
    /\ tries[p] = 2
    /\ Goto(p, "refused")
    /\ UNCHANGED <<lock, named, tries>>

\* A variant of WritePid: the lock file stays empty.
WriteNoPid(p) ==
    /\ lpc[p] = "name"
    /\ Goto(p, "held")
    /\ UNCHANGED <<lock, named, tries>>

(***************************************************************************)
(* file.WriteString(pid) and file.Close, errors ignored.  The write goes   *)
(* to the file this process created, at the path or already unlinked.      *)
(***************************************************************************)
WritePid(p) ==
    /\ lpc[p] = "name"
    /\ \/ named' = named \cup {p}
       \/ "write" \in Fails /\ UNCHANGED named
    /\ Goto(p, "held")
    /\ UNCHANGED <<lock, tries>>

\* A variant of Inspect: every lock is taken for a stale one.
InspectNothing(p) ==
    /\ lpc[p] = "inspect"
    /\ Goto(p, "steal")
    /\ UNCHANGED <<lock, named, tries>>

(***************************************************************************)
(* lockHolder and processAlive.  The read of the file and the probe of the *)
(* pid are one step: the pid read is the only input of the probe, and a    *)
(* process dying between them is the same as it dying before both.         *)
(***************************************************************************)
Inspect(p) ==
    /\ lpc[p] = "inspect"
    /\ Goto(p, IF HeldByLive THEN "refused" ELSE "steal")
    /\ UNCHANGED <<lock, named, tries>>

(***************************************************************************)
(* os.Remove(path): whatever file is there now, not the one inspected or   *)
(* created by the caller.                                                  *)
(***************************************************************************)
RemoveLock ==
    \/ lock' = NoFile
    \/ "remove" \in Fails /\ UNCHANGED lock

\* A variant of Steal: the attempt is not counted.
StealUncounted(p) ==
    /\ lpc[p] = "steal"
    /\ RemoveLock
    /\ Goto(p, "try")
    /\ UNCHANGED <<named, tries>>

(***************************************************************************)
(* The end of one attempt: the file inspected named no live process.       *)
(***************************************************************************)
Steal(p) ==
    /\ lpc[p] = "steal"
    /\ RemoveLock
    /\ tries' = [tries EXCEPT ![p] = @ + 1]
    /\ Goto(p, "try")
    /\ UNCHANGED named

(***************************************************************************)
(* The closure acquire returns, which Run defers.  The process lives on:   *)
(* when the removal failed, the file goes on naming a live process.        *)
(***************************************************************************)
Release(p) ==
    /\ lpc[p] = "held"
    /\ RemoveLock
    /\ Goto(p, "released")
    /\ UNCHANGED <<named, tries>>

(***************************************************************************)
(* The command has saved its receipt and printed its report, and returns.  *)
(***************************************************************************)
Exit(p) ==
    /\ lpc[p] = "released"
    /\ Goto(p, "done")
    /\ UNCHANGED <<lock, named, tries>>

(***************************************************************************)
(* The process is killed: nothing deferred runs, the file stays.           *)
(***************************************************************************)
Crash(p) ==
    /\ Live(p)
    /\ Goto(p, "dead")
    /\ UNCHANGED <<lock, named, tries>>

AllEnded == (\A p \in Procs : lpc[p] \in Ended) /\ UNCHANGED lockVars

AcquireStep(p) ==
    \/ Create(p) \/ GiveUp(p) \/ WritePid(p) \/ Inspect(p) \/ Steal(p)

LockNext ==
    \/ \E p \in Procs :
         Start(p) \/ AcquireStep(p) \/ Release(p) \/ Exit(p) \/ Crash(p)
    \/ AllEnded

(***************************************************************************)
(* acquire has no blocking call: a live process inside it keeps going, and *)
(* Run returns and releases, and the command exits.                        *)
(***************************************************************************)
LockFairness ==
    \A p \in Procs :
        WF_lockVars(AcquireStep(p)) /\ WF_lockVars(Release(p) \/ Exit(p))

LockSpec == LockInit /\ [][LockNext]_lockVars /\ LockFairness

-----------------------------------------------------------------------------

(***************************************************************************)
(* At most one process is past acquire and not yet released: "two runs     *)
(* never share the stash" (comment of acquire).                            *)
(***************************************************************************)
Mutex == \A p, q \in Procs : lpc[p] = "held" /\ lpc[q] = "held" => p = q

(***************************************************************************)
(* The process past acquire is the one the file names, so that every other *)
(* process, --restore among them, can see whom to wait for.                *)
(***************************************************************************)
HolderIsNamed == \A p \in Procs : lpc[p] = "held" => lock = p /\ p \in named

(***************************************************************************)
(* When acquire answers "another prove run (pid %d) is using this          *)
(* checkout", the file is that of another process that lives and is past   *)
(* acquire: it is still inside Run, or its own removal of the file failed  *)
(* and it has not exited yet.  A lock file is never mistaken for that of a *)
(* process that only tries, or that is gone.                               *)
(***************************************************************************)
RefusedByHolder ==
    [][\A p \in Procs :
         lpc[p] = "inspect" /\ lpc'[p] = "refused"
           => \E q \in Procs \ {p} :
                /\ lock = q
                /\ \/ lpc[q] = "held"
                   \/ lpc[q] = "released" /\ "remove" \in Fails]_lockVars

(***************************************************************************)
(* "A lock whose process is gone is taken over": a process that enters     *)
(* acquire when no other process lives gets past it, unless it is killed.  *)
(***************************************************************************)
Takeover ==
    \A p \in Procs :
        lpc[p] = "try" /\ tries[p] = 0 /\ (\A q \in Procs \ {p} : ~Live(q))
          ~> lpc[p] \in {"held", "done", "dead"}

(***************************************************************************)
(* A process that entered acquire leaves it.                               *)
(***************************************************************************)
AcquireEnds == \A p \in Procs : lpc[p] \in Acquiring ~> lpc[p] \notin Acquiring
=============================================================================
