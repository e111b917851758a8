# test-check: TLA+ models and proofs

`test-check` looks at a change in a git checkout. Without a subcommand it asks a
judging service whether the change needs tests. `test-check prove` shows that
the change's tests notice it: the tests run on the change, the files that are
not tests go back to the merge base, the tests run again and must be red, and
the files come back. The second command moves the user's uncommitted work out of
the way and must bring it back, whatever is killed, fails or runs beside it.
That is where this project starts.

Paths below are relative to the repository (`src/` here); `prove.go` is
`src/internal/prove/prove.go` unless it says `cmd`.

## The system

| Component | Code | State it keeps | Operations | What makes it correct |
|---|---|---|---|---|
| Prove lock | `prove.go` `acquire`, `lockHolder`; `procgroup_unix.go` | a lock file under the git dir, its pid | take, refuse, take over, release | one holder; it is named; a dead one is replaced; `acquire` ends |
| Stash and working tree | `prove.go` `stashPaths`, `swapToBase`, `writeBase`, `Restore`; `pieces.go` `applyPiece` | the stash directory: copies, manifest; the working tree | save, revert, put back, clean up | no work is lost at any point; the old run sees the base; `Restore` can start over |
| Prove processes | `prove.go` `Run`, `onBase`; `pieces.go` `runPieces`; `Restore` from the command line | where each process is | a run, a restore | one process uses the checkout; a result leaves no trace; a killed run is recovered |
| Verdict | `runWhole`, `runEach`, `runPieces`, `oldFailure`; `cmd/test-check/prove.go` | the report, its rows, the exit code | judge each test or piece, choose the worst | `proven` exactly on evidence; an interruption is never proof |
| Test command runner | `runTest`; `procgroup_*.go` | a process group, a timer | run, kill at the timeout, give up the output | the result is what happened; an interruption leaves nothing of the group alive; it returns |
| Piece splitting | `pieces.go` `codePieces`, `fileHunks` | none | split a diff into hunks, undo one | one hunk undone, all else kept; no line of code in no piece |
| Changed test names | `ChangedTestNames` | none | names from a diff | no deleted or untouched test; every edited one |
| Changed-input snapshot | `snapshot.go` | none | hash the change | two changes, two digests |
| Receipts | `internal/receipt`, `cmd/test-check/receipt.go` | one directory per command | publish diagnostics, then the receipt | a receipt is whole, and never without its diagnostics |
| JEV client | `internal/jev` | time of the last request | call, retry, pace | bounded attempts; the interval between calls |
| Advice | `internal/check`, `cmd/test-check/main.go` | none | prompt within a budget, next step | budget kept; the step follows from the answers |
| Sources of a change | `internal/source` | none | read a pull request or a local diff | complete, or marked incomplete |
| Command line and output | `cmd/test-check` | none | flags, printing | exit codes |

How they interact. A prove process takes the lock, looks for a stash left
behind, runs the test command on the change, hands the reverted files to the
stash, runs the test command again, calls `Restore`, judges, and releases the
lock. `--restore` is another process that looks at the lock, does not take it,
and calls the same `Restore`. They share three things in the file system: the
lock file, the stash directory and the working tree. There are no threads in
this part of the code; every hazard comes from several processes, from kills
between two system calls, from calls that fail, and from cancellation.

Both commands end with `receipt.Save`, after the files are restored: a directory
of its own for each command, in one that all commands of a user share. The
advice command asks its questions through `jev.Client`, whose calls share a
mutex and the time of the last request.

What is hard:

- the lock file exists before its pid is written, and `os.Remove` takes
  whatever file is at the path by then;
- `Restore` and `Run` look at the lock and at the stash once, and act later;
- a kill between any two system calls of the save, the manifest, the revert,
  the put-back or the removal of the stash;
- an error in the middle of each of them, and the error path that then calls
  `Restore`;
- a timeout or a cancellation that races with the answer of the test command;
- piece mode, which does the whole cycle many times under one lock;
- commands that publish receipts beside each other, fail half way and remove
  what they made;
- the pause before a retry, which three rules decide and which may overflow;
- a test command whose shell ends, whose children live on and hold its output,
  while a deadline or a cancellation comes;
- line arithmetic over hunks without context, and the guess which test a changed
  line is in, from a header that git takes from the old file;
- a change that is read in several calls while its author goes on working.

`PROJECT.json` lists each hazard at its line, with the properties that cover it
or the reason why none does.

## Modules

| Module | Models | Composition |
|---|---|---|
| `ProveLock` | `acquire`, `lockHolder`, `processAlive`, the release | alone |
| `UndoLog` | what the stash promises: a set of paths is logged in one step, only logged paths are touched, the log is given up when all are back | abstract |
| `Checkout` | stash and working tree, one action per system call or group of calls | implements `UndoLog` (`StashIsUndoLog`) |
| `ProveRun` | whole processes of `prove --test` and `prove --restore` | instances of `ProveLock` and `Checkout` |
| `ProveOutcome` | the verdict of one run in its three modes | alone |
| `ReceiptLog` | what the receipts promise: a log that each command enters at most once, for good | abstract |
| `ReceiptStore` | `Save`, `privateDir`, `publish`, and the command around them | implements `ReceiptLog` (`StoreIsReceiptLog`) |
| `JevClient` | `Evaluate` with its attempts, `pace`, `backoff`, `retryAfter`, `sleep` | alone |
| `RunTest` | `runTest`, its process group, timers and output pipe | alone |
| `EditScript` | external: one file's change and what `git diff` prints of it | base of the next two |
| `CodePieces` | `codePieces`, `fileHunks`, `commentOnly` | extends `EditScript` |
| `ChangedTests` | `ChangedTestNames` | extends `EditScript` |
| `ChangeSource` | `PullRequest`, `Compare`, `Local` | base of `Advice` |
| `Advice` | `main.run` without a subcommand, `BuildState`, `fitBudget`, `Evaluate`, `nextStep` | extends `ChangeSource` |
| `ProveLockProofs`, `CheckoutProofs`, `ReceiptProofs`, `RunTestProofs`, `ProveOutcomeProofs`, `JevProofs` | theorems | extend the module they are about |
| `ProveRunProofs` | theorems on whole processes | extends `ProveRun`, instantiates `ProveLockProofs` and `CheckoutProofs` |
| `ChangeProofs` | theorems on the readers of a change: its sources, the advice, pieces and test names | extends `Advice`, `CodePieces`, `ChangedTests` |
| `MC...` | small instances for TLC | extend the module they instantiate |

Operators introduced as "a variant of ..." are the plausible bugs that the
properties are tested against (`mutants` in `PROJECT.json`); no specification
uses them.

### ProveLock

`lock` is the creator of the file at the lock's path; `named` has the creators
whose pid is in their file; `lpc` and `tries` are the place of each process in
`acquire` and the turns of its loop. `Create` is `os.OpenFile` with `O_EXCL`,
`WritePid` the write that follows, `Inspect` the read of the pid and the probe,
`Steal` the `os.Remove` of a stale lock, `GiveUp` the end of the loop, `Release`
the deferred closure and `Crash` a kill. A process that has released the lock
lives on (`"released"`) while the command saves its receipt and prints, until
`Exit`: if its own removal of the file failed, the file names a live process all
that while, and a second run is refused for it. A write goes to the file the process
created, even if it was unlinked in between. `Pid` maps processes to pids, so
that an instance can reuse one; two processes that exist together never share
one. Reading the pid and probing it are one step, because the probe depends on
nothing else that another process can change except its own death.

### Checkout

A path is `new` (as in the change), `old` (as in the base), `absent`, or `torn`
(half written). `dir`, `manifest`, `entries` and `saved` are the stash on disk;
`phase`, `todo`, `cur`, `plan` and `undone` are the local variables of each
process. `CreateManifest` and `SyncManifest` are apart, as the exclusive create
and the write are; a revert is `RemoveNew`, then `WriteOld`; a put-back is
`RemoveOld`, then `WriteNew`; the removal of the stash is one step per file
(`CleanSaved`, `CleanManifest`), in any order, and then `CleanDir`. Each of
these parts has its failing step, and `CheckoutCrash` may come between any two.
A failed revert goes to `Restore` (`UndoRevert`), as `onBase` and `runPieces` do
— except for a stash that is already there, which belongs to another run.

Abstractions: a copy is named by its path (the code uses the index in the
list); the loops visit paths in any order (the code uses the list's); a
directory in the way of a file goes with `os.RemoveAll` and is not told apart;
file modes follow the content; in piece mode a slice is one file, and its
undone form is `old` whichever hunk it is. The lock is not in this module:
whether `Restore` passes its look at the lock is a choice. `Slices` are the
sets of paths a swap may revert.

### ProveRun

`at` is the place of a run in `Run`; `agenda` the slices it has still to
revert. `Acquire`, `SwapToBase`, `PutBack` and the rest are the actions of the
two instances under the run's control flow; `LookAtLock` decides what
`Checkout` left open; `ExitRun` is the end of a process whose run is over. `Overlap = FALSE` is a calm start: a process starts only
when no other is inside `acquire` and no `--restore` is going. `open` and the
git commands inside `Restore` do not fail here.

### ProveOutcome

One run of the command with `n` tests or pieces. A test command answers a record:
its exit, whether the output has the test's name, and whether it shows a build
failure and no failed assertion (the two regular expressions of `oldFailure`).
It may also hang until its timeout, or be cut by the caller. `Cancel` may come
at any time before the result is handed to `main`. The history variables `new`
and `old` keep the answers, so that properties can hold the verdict against the
evidence. The phases follow the code: early outcomes, new runs, swap, old runs,
restore, worst row, exit code. `IOErrors` lets the revert, the restore and the
steps before any test fail. The empty string of an open row, of no outcome yet
and of no error is "none".

### ReceiptStore

`place` is each of the two directories above the receipts: absent, private, or
unsafe (open to others, a symlink). A directory of receipts is a name with an
`owner`; `tmp` and `final` are its files, each with its writer and whether it is
whole. `spc` is the place of a command: it has a result (`ProofEnds`,
`AdviceEnds`), looks at the storage (`CheckStorage`, `PrivateDir` twice), makes
and opens its directory, and publishes two artifacts by `CreateTmp`, `WriteTmp`
and `Rename`; after an error it removes its directory, file by file
(`RemoveFile`, `RemoveDir`); `Report` is the command's output and exit code.
`Fails` are the calls that may fail, and `Kill` may come anywhere. Names are few,
so that commands draw the same one, which 128 random bits make rare but not
another case in the code. A file is torn from its creation until it is written
and synced. `StoreIsReceiptLog` maps the store to the commands whose
`receipt.json` can be read.

Left out: what a receipt says, the path of the storage and the rule that it lies
outside the checkout (an error before anything is made, so one choice in
`CheckStorage`), and anybody but test-check who changes the directories.

### JevClient

`now` is a clock; a sleep ends when it is over or later, and a request takes any
time. `jpc` is the place of each call: `pace` and `slot` (waiting for the mutex,
and holding it), `pacing`, `send`, `call`, `backoff`. `Lock` and `Pace` are the
two halves of `pace`, so that calls queue for the mutex and sleep outside it.
An answer is a status, what became of the body (whole, cut off, of no use), and a
number in `Retry-After`, which any answer that is not 200 may have, whatever becomes
of its body (`Responses`); `Asked` and `RetryWait` are what the client makes of it.
`Succeed`, `GiveUp` and `Retry` are what `Evaluate` makes of it. Durations are
integers of `Width` bits that wrap, in `Backoff` (the shift) and in `RetryAfter`
(the product with a second). `Cancel` cancels a caller's context: a sleep may
notice, a request under way fails or ends as it would. `heard`, `last`, `sent`,
`earliest` and `pauseEnds` are history: the answers a call went on after, the one it
returned with, the number of requests, until when the `Retry-After` of a readable
429, 529 or 5xx asks the call to wait (`LeaveAlone`; the client drops the header of
a 403 and of an unreadable answer), and until when it pauses after a first 403.

Left out: encoding, the endpoint, redirects (not followed: one more refusal),
the redaction of the key. The program as it is makes one call per process and
leaves `MinInterval` at 0 (`cmd/test-check/main.go:30-38`); the run sets it, since
the package promises it for any client.

### RunTest

`sh` is the shell; `kids` the kinds of other processes that live, told apart by
what can reach them: in the command's group or not, on its output pipe or not
(a second process of one kind behaves as the first). A process may leave the
group and close the pipe, and never comes back to either. `cancelled` and
`deadline` are the two contexts, `delay` the timer of `WaitDelay`. Go's
`os/exec` is modelled from its setup in `runTest`: `CancelGroup` is `cmd.Cancel`,
called only before `Wait` has the shell (`Reap`); after that the output is
waited for (`Drained`) or given up (`GiveUpOutput`). `Return` reads the two
contexts, as the last lines of `runTest` do.

### EditScript, CodePieces, ChangedTests

`script` is a file's change, line by line: what stays, goes and comes. A line is
the class of its text. `Hunks(c)` are the hunks of `git diff -U<c>`, a set, since
each is read alone; `NewStart` and `NewCount` are the numbers of a header, `Label`
the function it shows. Git is external and modelled by what these readers see of
it. `ScriptSpec` writes a script line by line.

`CodePieces` parses the hunks without context: `OldLines` with the "no newline"
marker, `Behavioral` (a hunk of comments is no piece), `SpliceAt` and `Revert` the
line arithmetic. `Undone` is the reference: the script with one hunk taken back.

`ChangedTests` reads a plain diff with `ReadLine` and `ReadHunk` and keeps the names
the new file declares. `Owner` is the reference: the nearest declaration above a
line, on either side. `Methods` are tests that a class declares, which no
header shows.

Left out: the snippet of a piece; tests in other languages than the two regular
expressions; several test files (the reader starts afresh with each).

### ChangeSource and Advice

`states` are the states of the change over time, each the number of files it
changes; a file that was read is a pair of its number and the state it was read
in. `ChangeMoves` is a push, an edit or a `git add` between two calls; `ReadHead`,
`ReadPage`, `ReadCompare`, `ReadTree`, `ReadDiff` and `ReadOthers` are the calls, and
`CallFails` may take the place of any. `mode` tells a checkout that is read from its
root ("local") from one that is read from a subdirectory ("below", with `BelowDir`
the files below it): there `git ls-files --others` lists only those, under names
that the code then looks for at the root (`Others`). Git lists the files of a checkout in an order
of its own (`InTree`). `Advice` goes on: `RecordInput`, `NoKey`,
`Render` (`BuildState` with `FitBudget`), `Ask` (any answer or an error, which is all
that `JevClient` leaves to it), `Advise`. `ended` has the exit code, the receipt's
outcome, and what the user is told; an empty outcome is "unsaved", an answer that
is not there "missing". In `fitBudget` a text has its turn by how many come before
it in the sort (`BudgetOrder`); `Cut` and `FitText` are one turn of its loop. `lost` is what each text would lose
to `strings.ToValidUTF8` if it were cut: the bytes of the character that the cut
splits, and every stray byte before it, any number from `Losses`. After `RecordInput` only the number of files
is kept, and after `Ask` not even that: a reduction, since nothing reads them.

Left out: the nearby tests (`NearbyTestPaths` ranks paths, `TestNames` matches
text; their contents share a budget by the same `fitBudget`, and no verdict
depends on it), the wording of the questions, the default base.

## Runs

Passing runs:

| Run | Shows |
|---|---|
| `lock_serial` | Three processes whose calls of `acquire` do not overlap, killed anywhere, with failing creates and removes: one holder; `acquire` ends within two attempts, and refuses only for a process that is past it, or whose own removal of the file failed and which has not exited |
| `checkout_runs` | Two runs that ignore the lock, errors and kills anywhere, whole and single-file slices: the stash alone loses nothing, gives the old run the right tree, and implements the undo log |
| `checkout_recovery` | One run and two `--restore` after one another, each killed or failing anywhere but in the removal of the stash: however often `Restore` starts over, the stash goes only when all is back |
| `run_calm` | Two runs, one whole and one whole or in pieces, and a `--restore` that start at calm moments, killed or failing: both runs of a verdict see the right tree, one process uses the checkout, nothing is lost, a result leaves no trace, a dead run's lock is taken over, and `--restore` brings the change back unless the manifest is torn |
| `outcome` | The verdict, its rows and exit code follow from the evidence; a command that was cut is an error, never a verdict; the files come back; the command ends |
| `receipts` | Two commands, two names, every call failing, kills anywhere: a receipt that can be read is whole and there for good, each command enters once, "saved" is said exactly when it is so, the exit code is that of the result, and an unsafe directory stays empty |
| `jev` | Two calls on one client, up to three attempts each, one that may be cancelled: requests keep the rate, retries and failures have their reasons, the `Retry-After` of a readable 429, 529 or 5xx is kept up to `MaxBackoff` and so is the pause after a first 403, every pause is between 1 and `MaxBackoff` although durations wrap at 4, and every call returns, so that the mutex is always given back |
| `test_command` | One command, its children, a deadline, a cancellation and a kill of test-check, in any order: `ok` is an exit of 0, red is never a command that test-check killed, an interruption leaves nothing of the group alive unless the shell had ended, and `runTest` returns |
| `change` | Every edit script of up to four lines as a code file and as a test file, with no context or one line of it: a piece undoes one hunk exactly, no line of code is in no piece, a listed test is touched and declared, an edited test is listed. And every run of the advice on up to five files that move once while they are read: an input that is not marked is whole but for four named holes, the budget is shared fairly and used up, exit 0 needs three whole answers |

Runs that end in a counterexample, each against a sentence of the repository
(quoted in `findings`):

| Run | What the code does |
|---|---|
| `lock_race` | A run that starts between another's create and its write reads an empty lock, takes it for stale and removes it: both are past `acquire`. So do two runs that take over the same stale lock |
| `clean_crash` | `os.RemoveAll(stash)` may be killed after a copy and before the manifest; the next `Restore` removes the user's file and has nothing to write |
| `restore_race` | `--restore` does not take the lock: a run that starts after the look loses its stash while it reverts |

What the passing runs assume away is what these counterexamples need, and each
assumption is a constant or a condition with a name: `Overlap = FALSE`, no kill
in `clean`, `manifest # "torn"`.

More disagreements of code and documentation are visible in the models, without
a run of their own. A property that holds names the case it leaves out:

- `RecoversUntorn`: `writeSynced` writes the manifest in place (`prove.go:503`). A run
  killed between its creation and its sync leaves one that does not parse, on
  which every `Restore` fails and every run refuses to start, although no file
  was touched. `README.md:60`: "An interrupted or crashed run is recovered with
  `test-check prove --restore`".
- `InterruptedIsStopped`: when the deadline or the cancellation comes while
  `runTest` waits for the output of a shell that has ended, `os/exec` does not call
  `Cancel`: the result is an interruption, and children in the group live on.
  `prove.go:613`: "a timeout or cancel stops everything it started".
- `ResultIsTrue`: a command that exits with 0 and leaves a process on its output
  comes back as `exec.ErrWaitDelay`, which counts as red: `fails_on_new`, or proof
  on the old code. So does a command that cannot be started there.
- `EditedTestsAreListed`: a method of a Python class that is edited further from
  its `def` than the context is attributed to nobody, since git's header shows the
  class (`prove.go:362`). So is a line that comes under a removed declaration
  (`prove.go:376`), although it belongs to the test above. `prove.go:319`: "lists
  the Go and Python test functions the change adds or edits".
- `CommentOnly`: a line that starts with `*`, `#` or `--` is a comment in any language
  (`pieces.go:66`): `*p = 1` in Go, `#define` in C, `--i;`. A hunk of such lines is
  no piece, so `PiecesCoverTheCode` speaks of what `commentOnly` calls code.
- `InputIsWhole`: a pull request with more than 3000 files is not marked incomplete
  (`github.go:45-57`), as a comparison at its limit is; a tracked file whose name
  git quotes is dropped in a local change (`diff.go:20-23`); a push or an edit
  between two calls mixes two states (`github.go:40-48`, `local.go:31-36`); and
  untracked files are missing when `--dir` is a subdirectory (`local.go:36`), although
  `local.go:14` says "everything since the merge base with base, including
  uncommitted and untracked files". In each case `diffComplete` says that nothing
  is missing. Every
  input that moved is exempt, except a comparison, which one call reads: nothing in
  the code notices a move, so that there is nothing to check.
- `NamesAreTouched`: a line belongs to the nearest declaration above it, so that a
  comment that is added above a test touches the test before it, and that one is
  listed (`prove.go:322`).
- `Pid`: `acquire` (`prove.go:685`) does not leave out its own pid as `Restore`
  does (`prove.go:549`), so a process that is given the pid of the dead owner of
  the lock refuses, again and again (a container gives its processes the same
  pids each time). `lock_serial` and `run_calm` give each process a pid of its own,
  so that neither `RefusedByHolder` nor `Takeover` says anything of a reused one; the
  theorem `LockExcludes` does not need that, `LockRefusesRightly` does.
- `RestoreAll`: a hang on the old code is an error, exit 1. `README.md:62` says that
  it "counts as red"; `README.md:72` says what the code does.
- `Start`: piece mode reports `no_code_in_change` also for a change with files to
  revert and no behavioural hunk (`pieces.go:234`); `README.md:71` says "Only tests
  changed".
- `Retryable` in `JevClient`: a 403 whose body cannot be read is retried even after
  an earlier 403, since the read error is retryable whatever the status;
  `client.go:96` says "a second 403 is final". `RetriesAreWarranted` names this
  case ("forbidden, cut"). Every other status is treated so too, a 401 included.
- `ServerIsLeftAlone`: the pause after a first 403 overwrites the `Retry-After` that
  came with it (`client.go:103`), and a 429 or 5xx whose body cannot be read loses
  its own (`client.go:148`); the next request leaves after the fixed pause or the
  plain backoff, which may be too early. `client.go:45`: "Retry-After is honoured but
  never beyond MaxBackoff". `LeaveAlone` names the two.
- `RestorePiece`: `runPieces` does not look at its context after its last `Restore`
  (`pieces.go:288`), as `onBase` does (`prove.go:311`). A cancellation between the end
  of the last old run and the end of that `Restore` leaves the verdict as it is, `proven`
  and exit 0 among them. `README.md:72`: "Caller cancellation or test-check's own
  command deadline: exit 1 after restoration, never proof". `InterruptionIsError` speaks
  of commands that were cut.
- `RateBound` counts all requests since the first: a call that is late for its slot may
  send right before the next one, so that two requests can be closer than
  `MinInterval`, which `client.go:43` says "spaces requests from one client".

Bounds. Three processes for the lock: a stale lock needs one dead owner and two
takers. Calls of `acquire` that overlap, and a failing write of the pid, are not
in a passing run, since `Mutex` fails with either; `LockTyped` and
`LockRefusesRightly` are proved with both. Two runs and one or two `--restore`:
every race found is one of two live processes and at most one dead one. Four
kinds of paths (edited, added, deleted, a symlink) in `checkout_runs`, three in
`checkout_recovery`, two in `ProveRun`, where loops over more paths only repeat
steps, and in piece mode one of the two
runs repeats the swap; the theorems have no such bound. Up to three tests or pieces and
`MaxPieces = 2` in `ProveOutcome`: the worst-row rule compares pairs of rows, and
a third row is what a pair could hide; its theorems have no such bound either. In `ProveLock` a process enters `acquire`
once; a second time is another process. Two commands and two names for the
receipts: a command meets a free name, one of a live command, one of a dead one,
or none free; the theorems have no such bound. In `JevClient` three bits make a
Duration that a shift by two overflows; the headers stand for none, a negative
number, one above `MaxBackoff`, and two whose product wraps, to a negative and to
a small positive Duration. The clock runs on only while somebody sleeps
(`Horizon`), which bounds it by the pauses. `RunTest` is finite as it is. Four lines
of a script, which the theorems do not bound: two hunks with a line between them, or a
declaration above the context of a hunk, and a change on either side of each; no context is a setting
of git (`diff.context`) and one line stands for the usual three. Pages of two, two
pages and a limit of three, with up to five files: a short page, a full last page,
an empty one, files past the last. Two files below the subdirectory, so that untracked
ones are on either side of it. A budget of seven with a marker of two is shared by
up to five texts: whole, cut and dropped ones; a cut one loses nothing, one byte, or
more than it keeps. One move of the change while it
is read: two would only mix a third state in.

Fairness. `acquire`, `Run` and `Restore` have no blocking call but the test
command, and that is killed at its timeout. So each process has weak fairness on
its next step as a whole, and none on starts, kills, errors or cancellation. No
step is assumed to succeed. `Checkout` and `ReceiptStore` have no fairness: they
state only safety. `JevClient` has weak fairness on each call, since a request
ends at `Client.Timeout` and the mutex is held for a few assignments, and on the
clock. `RunTest` has weak fairness on the steps of `runTest` and on its two timers, and
none on the command: it may run for ever, and so may its children. The readers of
a change state only safety.

## What is proved

`tlapm` checks every theorem, for any number of processes, paths, slices,
tests and pieces.

`ProveLockProofs`:

- `LockTyped`: types, and the bound on `acquire`'s loop. The invariant
  `LockBounded` adds to the types that a process in the loop has attempts left,
  and that a file that has a pid was created by a process past the write.
- `LockExcludes`: `Mutex` and `HolderIsNamed`, if calls of `acquire` do not
  overlap and the pid is written. `Mutex` is not inductive: a process about to
  remove a stale lock would remove the holder's. `LockInv` adds that one process
  acquires, that the creator owns the file until it ends, and that nobody holds
  the lock while another is about to remove it. Kills and reused pids are in.
- `LockRefusesRightly`: `acquire` refuses only for another process that lives and is
  past it, with any overlap and failing calls, if pids are not reused: one that is
  inside `Run`, or one that has left it and whose own removal of the file failed.
  A file that is there after its owner's release is there for that reason only.

`CheckoutProofs`:

- `CheckoutTypes`: types under any overlap, kill and error. It needs that `cur`
  is a path of `todo`, and `todo` is listed in `plan`.
- `CheckoutSafe`: `WorkSafe`, `OneUser` and `OldRunOnBase`, under `Regime`: either
  there is no `--restore`, or it does not run beside another process and the
  removal of the stash neither fails nor is killed; and `os.Mkdir` fails only
  for an existing stash. `WorkSafe` is not inductive. `CheckoutInv` adds what
  the disk has (without a whole manifest the tree is untouched; with one, its
  entries lead back or the tree is already back) and what each process knows in
  each phase (what it has planned is backed, what it has visited is in its
  place).
- `OldRunsSeeBase`: the last of these by itself, from `CheckoutSafe`.
- `RestoreIsComplete`: under `Regime`, the stash disappears only when every file
  is as the change has it.
- `StashImplementsLog`: the refinement, under `Regime`. The log is there from the sync
  of the manifest to the removal of the first file it needs. Three kinds of steps
  could break it: the sync must log what the tree has, which is the whole change
  (`DiskInv`); a step, a failure or a kill that touches a path needs that the path is
  listed and backed (`Knows`, `Intact`); and the clean-up gives the log up with a file
  that is in the tree again. Every other step is a stutter.

`CheckoutInv` is `CheckoutCore`, which any caller keeps that lets one process at a time
use the stash, with two parts that this module's own schedule adds. The next
module cites the core.

`ProveRunProofs`, for any number of runs and `--restore`, any paths and agendas, under
`RunRegime`: processes start at calm moments (`~Overlap`), and the removal of a stash
neither fails nor is killed if anybody restores. `run_calm` is an instance; outside
of it `lock_race`, `clean_crash` and `restore_race` show what goes wrong.

- `RunsLoseNoWork`, `RunsSeeTheirTree`, `CheckoutHasOneUser` and the action property
  `RunsLeaveNoTrace`, all from `RunInv`. None of the two parts is safe alone: `Checkout`
  needs that its users do not meet, which is what the lock is for, and the lock
  says nothing of the stash. `RunInv` joins the invariants of the two (`LockInv`,
  `CheckoutCore`) by what each place in `Run` knows (`Stage`: a run is in the stash only
  while it holds the lock, and starts to swap only without a stash) and by what a
  `Restore` that is past its look at the lock has beside it (`Alone`). A step of one
  instance is shown to be a step of the proved module, then to keep the parts of
  the other.
- `RunsImplementLog`: the stash that whole processes drive implements the undo log,
  although here it is the lock, and no assumption on `Checkout`, that keeps the
  users apart.

`ReceiptProofs`, for any number of commands, names and failing calls:

- `ReceiptTyped`, `ReceiptsAreComplete` and `ReportsAreTrue` from one invariant,
  `ReceiptInv`. `ReceiptIsComplete` is not inductive: the step that could break it
  is a rename into a directory that is another's, without diagnostics, or of a
  torn file. So the invariant has that a command that publishes owns its
  directory (`OwnDir`), that a name nobody owns is empty (`FreeNamesAreEmpty`), that
  a command has no receipt before it reports (`NotYet`), that its diagnostics are
  whole before it turns to the receipt (`DetailFirst`), that its temporary file is
  its own and whole when it is renamed (`TmpIsOwn`), and that what it reports is so
  (`Told`, `ExitIsRight`). The steps that touch none of this are one lemma
  (`QuietStep`); the others have one each.
- `UnsafeStaysEmpty`: nothing is made below an unsafe directory. `PrivateAbove` adds
  that a command that makes a directory, and every directory that is there, has
  two private directories above it.
- `StoreImplementsLog`: the refinement. Only the rename of a receipt changes
  what can be read, and by `NotYet` it enters a new command.

`RunTestProofs`, for every command:

- `ResultsAreTrue` and `InterruptionsStop`. Neither is inductive: `ShellKnown` adds
  what each place in `runTest` knows of the shell, that a shell that was killed
  had a reason to be, and that it took its group with it (a process that is
  left is out of the group, and so is whatever it starts).

`ProveOutcomeProofs`, for any number of tests or pieces, any answers and any
`MaxPieces`: `ProvenNeedsProof`, `EvidenceDecides`, `CutsAreErrors`, `RowsAreTrue`
and `ChangeIsRestored`, all from `OutcomeInv`. The
properties speak of the end, so none is inductive. The invariant says where the
loops are (`Placed`), that the change is in the tree but from a swap to a restore
(`TreeIsNew`), which commands have answered at each place (`Answered`), that one that
was cut is on its way to an error (`CutsKnown`), that a row claims no more than its
evidence (`RowsTrue`) and is open until its command answered (`RowsOpen`), that in
per-test mode each test has its row or is still to be run on the old code
(`RowsSettled`), that a verdict of proven so far is earned so far
(`OutcomeEarned`), and conversely that no row and no verdict hides a proof or a
failure (`OutcomeOwed`). `StepInv` has one case per action, and under it a step for
each group of these parts.

`JevProofs`, for any number of calls on one client, any settings and headers, and any
`Width` of a Duration:

- `JevTypes`: `Backoff` and `RetryAfter` are integers although shift and product wrap.
- `WarrantedRetries`, `ServerLeftAlone`, and the action properties `WarrantedEnds` and
  `SanePauses`, from an invariant for each call, `CallInv`: what it counted is what it
  heard (`Counted`), what it heard allowed it to go on and its first 403 is
  remembered (`Warranted`), and until it may send its sleep ends no earlier than
  `earliest` and than the pause after the first 403 (`Patient`). The first rests on
  `WaitLeavesAlone`: a header that fits a Duration is the pause, up to `MaxBackoff`.
  `SanePauses` rests on a lemma on each of the two
  conversions: a number that wrapped is either taken for none or within `MaxBackoff`.
- `RateIsBounded`: `RateBound` counts the requests of all calls, so that it is not
  inductive, nor is it for one call: a call that has its slot may be late, cancelled,
  or overtaken. `Paced` counts the calls that hold a slot as requests to come: all of
  them would be within the rate by the last slot given, and those that are due by
  a time would be by that time. A slot is `MinInterval` after the one before it,
  and no request is sent before its slot, which gives the induction.

`ChangeProofs`, first for changes of any size that move any number of times, any limits
of the pages, and texts of any length:

- `InputsAreWhole`, from `SourceInv`, which says for each call what was read before it:
  the pages so far are the first files of the head (`PagesRead`), the diff has what
  git tracks (`DiffRead`), and at the end all is there (`AllRead`), each unless one of
  the four holes was met.
- `AdviceEarned`, from `AdviceInv`: the answers that are kept are those of a run that
  had a key, and no other way leads to exit 0.
- `BudgetShared`: `fitBudget` is a fold, and its result is reached by induction over the
  turns. `FoldExists` and `FoldPrefix` unfold a fold into the values after each
  position, and `NumberInduction`, which follows from the well-foundedness of the
  numbers, is the induction; so sums are sums (`SumPut`). `OrderTurns` shows that the
  sort gives each text one turn, short ones first. `Fitted` is the invariant of the
  loop: the lengths so far and what remains are the budget, what remains is a fair
  share for each text that is left (`Balanced`), each text that had its turn is whole,
  dropped for a reason, or cut to a fair share less what it lost (`Fair`), and, unless
  one was dropped, there is a cut text such that what remains is no more than it lost
  and the texts that are left can have at its length (`Spent`). So at the end no more is
  wasted than that one text lost. The last needs that the short ones come first: it is
  what the variant `GivenOrder` breaks. What a cut loses is any number (`Losses`).

Then for edit scripts of any length, any tests and methods, and hunks with any context,
under `ScriptSpec`:

- `PiecesUndo`. A script is cut at a hunk into three parts, and a side of the whole is
  the sides of the parts joined (`ThreeSides`). `HunkIsSolid`: without context a hunk
  has nothing but changed lines, so that its old side is what taking it back leaves
  of it (`BackSide`). `OldPrinted` follows the printed lines, "no newline" markers
  included, back to that old side, by induction over the hunk. With the numbers of
  the header and `SpliceAt`, what `Revert` joins is then `Undone` (`RevertUndoes`); it
  never ends in the error of a hunk outside the file.
- `PiecesCover`: each changed line is in a hunk (`HunksCover`), and it is printed in it
  (`PrintedHas`).
- `NamesTouched` and `EditedListed`. `ReadHunk` is a fold, and `HunkGives` says what it
  computes: each line adds to the names what it adds in the test that the nearest
  declaration of the hunk above it, or the header, leaves (`HeldIn`). What the
  header shows and whose line a line is are then both the nearest of some lines
  above a place. Neither property follows from that alone: a header that shows a
  test must not hide a method of a class between the two, and a test must not be
  declared twice on a side. Both are in `ScriptInv` (`InClass`, `DeclaredOnce`), which
  says what a script can be and is inductive.

A sequence is taken apart by `SeqInduction`, and `FlattenAppend` unfolds the operator
that the sides, the printed lines and the old lines are made with.

The assumptions of the modules (`LockAssumption`, `CheckoutAssumption`, `RunAssumption`,
`ReceiptAssumption`, `OutcomeAssumption`, `JevAssumption`, `ScriptAssumption`,
`SourceAssumption`, `AdviceAssumption`) say that the constants have their types and that limits and
settings are positive where the code has them so, that a line that declares a test is of
no other class, and TLC evaluates them in every
run of these modules. `Regime` and `RunRegime` are hypotheses of the theorems that
need them, with instances among the passing runs.

Only model-checked is liveness (`Takeover`, `AcquireEnds`, `RecoversUntorn`, `CommandEnds`,
`EvaluateEnds`, `TestReturns`), since the prover does not reason about fairness and
ENABLED. Every invariant and every action property of the passing runs is a theorem.

## What is not modelled

- A build without `unix`: `processAlive` is constantly true there, so that a lock
  of a dead process stays for ever, and a cancelled command leaves its children.
- The snapshot of the changed input (`snapshot.go`): one sequential pass that feeds
  a hash. What could be wrong in it is which bytes are hashed, and a model that
  abstracts them has nothing to say.
- `NearbyTestPaths` and `TestNames`: a ranking of paths and a match of text, whose
  result is only shown.
- A test command that outlives a killed test-check: `RunTest` shows it alive
  (`TestCheckKilled`); `Checkout` has no third writer.
- Power loss: only the manifest is synced; the copies are not. A kill of the
  process is modelled, a loss of the page cache is not.
- A third version of a file: the user's edits during the old run, and a test
  command that rewrites source files. `Restore` overwrites both.
- A failure of git or of `open` inside `Restore` in `ProveRun` (in `Checkout` it is
  the refusal, which is always possible).
- A run that finds its own pid written by a failed write: an unnamed lock is
  stale to everybody.
- Flags and printing, beyond the exit code.

## Plan

What can lose work or give a false proof came first, then the parts whose
hazards are concurrency and time, then the algorithms on text. All of these are
modelled, and every safety property that a passing run checks is a theorem. What could
come next: the second file of a diff in `ChangedTests` (the reader starts afresh, so
that the theorems speak of one file), and a third version of a file in `Checkout`,
for edits during the old run.
