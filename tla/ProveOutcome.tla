---------------------------- MODULE ProveOutcome ----------------------------
(***************************************************************************)
(* The verdict of one `test-check prove` run: Run, runWhole, runEach,      *)
(* runPieces, onBase, runTest and oldFailure of internal/prove, and the    *)
(* exit code of cmd/test-check/prove.go.                                   *)
(*                                                                         *)
(* A test command answers anything, may hang until its timeout, and the    *)
(* caller may cancel at any moment.  The history variables new and old     *)
(* keep what the commands answered, so that the verdict can be held        *)
(* against the evidence.                                                   *)
(***************************************************************************)
EXTENDS Naturals, FiniteSets

CONSTANTS
    MaxItems,       \* bound on the tests or pieces of one change
    MaxPieces,      \* Options.MaxPieces
    Modes,          \* {"whole", "each", "pieces"} or a part of it
    IOErrors        \* may reverting or restoring the files fail

ASSUME OutcomeAssumption ==
    /\ MaxItems \in Nat \ {0} /\ MaxPieces \in Nat
    /\ Modes \subseteq {"whole", "each", "pieces"}
    /\ IOErrors \in BOOLEAN

VARIABLES
    mode,
    code,           \* the change has files to revert
    n,              \* how many tests or pieces it has
    pc, i,          \* where the run is, and at which test or piece
    cancelled,      \* the caller's context is cancelled
    files,          \* the working tree: "new" or "old"
    new, old,       \* what each test answered on the new and on the old code
    rows,           \* the outcome of each row of the report
    outcome,        \* report.Outcome
    err,            \* the error Run returns
    exit            \* the exit code, once the command ended

vars == <<mode, code, n, pc, i, cancelled, files, new, old, rows, outcome,
          err, exit>>

Items == 1..n
AllItems == 1..MaxItems

(***************************************************************************)
(* What a command may answer: its exit, whether the output has the name of *)
(* the test, and whether it shows a build failure and no failed assertion. *)
(* "cut" is a command stopped by the cancelled context.                    *)
(***************************************************************************)
Verdicts == [status : {"pass", "fail"}, named : BOOLEAN, built : BOOLEAN]
Hang == [status |-> "hang", named |-> FALSE, built |-> FALSE]
Cut == [status |-> "cut", named |-> FALSE, built |-> FALSE]
NotRun == [status |-> "none", named |-> FALSE, built |-> FALSE]
Answers == Verdicts \cup {Hang, Cut, NotRun}

RowOutcomes == {"none", "proven", "not_red_on_old", "inconclusive", "test_not_run",
                "fails_on_new", "guarded", "not_tested"}
Outcomes == {"none", "proven", "not_red_on_old", "inconclusive", "test_not_run",
             "fails_on_new", "no_test_in_change", "no_code_in_change",
             "piece_not_tested", "too_many_pieces", "error"}

OutcomeTypeOK ==
    /\ mode \in Modes
    /\ code \in BOOLEAN
    /\ n \in 0..MaxItems
    /\ pc \in {"start", "new", "swap", "old", "restore", "judge", "main", "end"}
    /\ i \in 1..(MaxItems + 1)
    /\ cancelled \in BOOLEAN
    /\ files \in {"new", "old"}
    /\ new \in [AllItems -> Answers] /\ old \in [AllItems -> Answers]
    /\ rows \in [AllItems -> RowOutcomes]
    /\ outcome \in Outcomes
    /\ err \in {"none", "setup", "revert", "restore", "timeout", "cancelled"}
    /\ exit \in {0, 1, 4, 99}

OutcomeInit ==
    /\ mode \in Modes
    /\ code \in BOOLEAN
    /\ n \in (IF mode = "whole" THEN {1} ELSE 0..MaxItems)
    /\ pc = "start" /\ i = 1
    /\ cancelled = FALSE
    /\ files = "new"
    /\ new = [k \in AllItems |-> NotRun] /\ old = [k \in AllItems |-> NotRun]
    /\ rows = [k \in AllItems |-> "none"]
    /\ outcome = "none" /\ err = "none" /\ exit = 99

Interrupted(a) == a.status \in {"hang", "cut"}

(***************************************************************************)
(* The answer of runTest: anything, or, once the context is cancelled, the *)
(* context's error whatever the command did.                               *)
(***************************************************************************)
RunTest == IF cancelled THEN {Cut} ELSE Verdicts \cup {Hang}

ErrorOf(a) == IF a.status = "hang" THEN "timeout" ELSE "cancelled"

Row(k, o) == rows' = [rows EXCEPT ![k] = o]

Finish(o) == outcome' = o /\ pc' = "main" /\ UNCHANGED err
Fail(e) == err' = e /\ pc' = "main" /\ UNCHANGED outcome

(***************************************************************************)
(* oldFailure: a failure on the old code is proof unless the output only   *)
(* shows a build failure or, in per-test mode, never names the test.       *)
(***************************************************************************)
OldFailure(a) ==
    IF a.built \/ (mode = "each" /\ ~a.named) THEN "inconclusive"
                                              ELSE "proven"

\* A variant of Candidates: red tests are run on the old code too.
CandidatesSeen == {k \in Items : new[k].named}

(***************************************************************************)
(* The tests that were green and seen on the new code.                     *)
(***************************************************************************)
Candidates == {k \in Items : new[k].status = "pass" /\ new[k].named}
CandidatesLeft == {k \in Candidates : k >= i}

-----------------------------------------------------------------------------

Cancel ==
    /\ pc \notin {"main", "end"}
    /\ ~cancelled
    /\ cancelled' = TRUE
    /\ UNCHANGED <<mode, code, n, pc, i, files, new, old, rows, outcome, err,
                   exit>>

(***************************************************************************)
(* Run before any test: the early outcomes, an empty list of names, the    *)
(* count of pieces, and the errors of git and of acquire.                  *)
(***************************************************************************)
Start ==
    /\ pc = "start"
    /\ \/ Finish("no_test_in_change")
       \/ ~code /\ Finish("no_code_in_change")
       \/ /\ code /\ mode = "each" /\ n = 0
          /\ Fail("setup")
       \/ IOErrors /\ Fail("setup")
       \/ /\ code /\ mode = "pieces" /\ n > MaxPieces
          /\ Finish("too_many_pieces")
       \/ /\ code /\ mode = "pieces" /\ n = 0
          /\ Finish("no_code_in_change")
       \/ /\ code /\ n > 0 /\ (mode = "pieces" => n <= MaxPieces)
          /\ pc' = "new" /\ UNCHANGED <<outcome, err>>
    /\ UNCHANGED <<mode, code, n, i, cancelled, files, new, old, rows, exit>>

(***************************************************************************)
(* The one new run of runWhole and runPieces.  Its answer is kept for      *)
(* every row.                                                              *)
(***************************************************************************)
NewRun ==
    /\ pc = "new"
    /\ mode # "each"
    /\ \E a \in RunTest :
         /\ new' = [k \in AllItems |-> IF k \in Items THEN a ELSE NotRun]
         /\ \/ Interrupted(a) /\ Fail(ErrorOf(a))
            \/ a.status = "fail" /\ Finish("fails_on_new")
            \/ /\ a.status = "pass"
               /\ pc' = "swap"
               /\ outcome' = IF mode = "pieces" THEN "proven" ELSE "none"
               /\ UNCHANGED err
    /\ UNCHANGED <<mode, code, n, i, cancelled, files, old, rows, exit>>

(***************************************************************************)
(* One turn of the first loop of runEach.                                  *)
(***************************************************************************)
NewRunOfOne ==
    /\ pc = "new"
    /\ mode = "each"
    /\ i \in Items
    /\ \E a \in RunTest :
         /\ new' = [new EXCEPT ![i] = a]
         /\ \/ /\ Interrupted(a)
               /\ Row(i, "inconclusive") /\ Fail(ErrorOf(a))
            \/ /\ ~Interrupted(a)
               /\ Row(i, IF a.status = "fail" THEN "fails_on_new"
                         ELSE IF ~a.named THEN "test_not_run" ELSE "none")
               /\ UNCHANGED <<pc, outcome, err>>
    /\ i' = i + 1
    /\ UNCHANGED <<mode, code, n, cancelled, files, old, exit>>

NewRunsEnd ==
    /\ pc = "new"
    /\ mode = "each"
    /\ i > n
    /\ i' = 1
    /\ pc' = IF Candidates = {} THEN "judge" ELSE "swap"
    /\ UNCHANGED <<mode, code, n, cancelled, files, new, old, rows, outcome,
                   err, exit>>

(***************************************************************************)
(* swapToBase or applyPiece.  A failed revert is undone, or not.           *)
(***************************************************************************)
Swap ==
    /\ pc = "swap"
    /\ \/ /\ files' = "old" /\ pc' = "old"
          /\ UNCHANGED <<err, outcome>>
       \/ /\ IOErrors
          /\ files' \in {"new", "old"}
          /\ Fail("revert")
    /\ UNCHANGED <<mode, code, n, i, cancelled, new, old, rows, exit>>

\* A variant of OldRun: an interrupted command returns before Restore.
OldRunReturns ==
    /\ pc = "old"
    /\ mode # "each"
    /\ \E a \in RunTest :
         /\ old' = [old EXCEPT ![i] = a]
         /\ IF Interrupted(a) THEN Fail(ErrorOf(a))
                              ELSE pc' = "restore" /\ UNCHANGED <<err, outcome>>
    /\ UNCHANGED <<mode, code, n, i, cancelled, files, new, rows, exit>>

(***************************************************************************)
(* The old run of runWhole and of one piece; Restore follows whatever it   *)
(* answered.                                                               *)
(***************************************************************************)
OldRun ==
    /\ pc = "old"
    /\ mode # "each"
    /\ \E a \in RunTest :
         /\ old' = [old EXCEPT ![i] = a]
         /\ IF mode = "pieces" /\ Interrupted(a)
              THEN Row(i, "inconclusive") ELSE UNCHANGED rows
    /\ pc' = "restore"
    /\ UNCHANGED <<mode, code, n, i, cancelled, files, new, outcome, err, exit>>

\* A variant of OldRunOfOne: a test that stays green is run again.
OldRunAgain ==
    /\ pc = "old"
    /\ mode = "each"
    /\ i \in Candidates
    /\ \E a \in RunTest :
         /\ old' = [old EXCEPT ![i] = a]
         /\ IF a.status = "pass" THEN UNCHANGED <<i, rows>>
                                 ELSE i' = i + 1 /\ Row(i, OldFailure(a))
    /\ UNCHANGED <<mode, code, n, pc, cancelled, files, new, outcome, err, exit>>

(***************************************************************************)
(* One turn of the loop runEach hands to onBase, over the candidates.      *)
(***************************************************************************)
OldRunOfOne ==
    /\ pc = "old"
    /\ mode = "each"
    /\ i \in Candidates
    /\ \E a \in RunTest :
         /\ old' = [old EXCEPT ![i] = a]
         /\ Row(i, IF Interrupted(a) THEN "inconclusive"
                   ELSE IF a.status = "pass" THEN "not_red_on_old"
                   ELSE OldFailure(a))
         /\ IF Interrupted(a) THEN pc' = "restore" /\ UNCHANGED i
                              ELSE i' = i + 1 /\ UNCHANGED pc
    /\ UNCHANGED <<mode, code, n, cancelled, files, new, outcome, err, exit>>

SkipOne ==
    /\ pc = "old"
    /\ mode = "each"
    /\ i \in Items \ Candidates
    /\ i' = i + 1
    /\ UNCHANGED <<mode, code, n, pc, cancelled, files, new, old, rows,
                   outcome, err, exit>>

(***************************************************************************)
(* The loop is over, or its head found the context cancelled.              *)
(***************************************************************************)
OldRunsEnd ==
    /\ pc = "old"
    /\ mode = "each"
    /\ CandidatesLeft = {} \/ cancelled
    /\ pc' = "restore"
    /\ UNCHANGED <<mode, code, n, i, cancelled, files, new, old, rows,
                   outcome, err, exit>>

RestoreFails ==
    /\ pc = "restore"
    /\ IOErrors
    /\ Fail("restore")
    /\ UNCHANGED <<mode, code, n, i, cancelled, files, new, old, rows, exit>>

\* A variant of RestoreAll: the interrupted old run is not looked at.
RestoreAllTimedOut ==
    /\ pc = "restore"
    /\ mode # "pieces"
    /\ files' = "new"
    /\ \/ cancelled /\ Fail("cancelled")
       \/ ~cancelled /\ pc' = "judge" /\ UNCHANGED <<outcome, err>>
    /\ UNCHANGED <<mode, code, n, i, cancelled, new, old, rows, exit>>

(***************************************************************************)
(* onBase restores and returns ctx.Err(); runWhole and runEach then look   *)
(* at the old runs.                                                        *)
(***************************************************************************)
RestoreAll ==
    /\ pc = "restore"
    /\ mode # "pieces"
    /\ files' = "new"
    /\ \/ cancelled /\ Fail("cancelled")
       \/ /\ ~cancelled
          /\ \E k \in Items : Interrupted(old[k])
          /\ Fail("timeout")
       \/ /\ ~cancelled
          /\ \A k \in Items : ~Interrupted(old[k])
          /\ pc' = "judge" /\ UNCHANGED <<outcome, err>>
    /\ UNCHANGED <<mode, code, n, i, cancelled, new, old, rows, exit>>

(***************************************************************************)
(* The rest of runPieces' loop body: Restore, and the verdict on a piece.  *)
(* An inconclusive piece decides the report over an untested one.          *)
(***************************************************************************)
RestorePiece ==
    /\ pc = "restore"
    /\ mode = "pieces"
    /\ files' = "new"
    /\ LET a == old[i]
       IN  \/ Interrupted(a) /\ Fail(ErrorOf(a)) /\ UNCHANGED <<rows, i>>
           \/ /\ ~Interrupted(a)
              /\ Row(i, IF a.status = "pass" THEN "not_tested"
                        ELSE IF OldFailure(a) = "proven" THEN "guarded"
                        ELSE "inconclusive")
              /\ outcome' =
                   IF a.status = "pass"
                     THEN IF outcome = "inconclusive" THEN outcome
                                                      ELSE "piece_not_tested"
                     ELSE IF OldFailure(a) = "proven" THEN outcome
                                                      ELSE "inconclusive"
              /\ i' = i + 1
              /\ pc' = IF i = n THEN "main" ELSE "swap"
              /\ UNCHANGED err
    /\ UNCHANGED <<mode, code, n, cancelled, new, old, exit>>

\* Variants of WorstRow: a test that did not run is forgotten, and an
\* inconclusive one comes before one that fails on the new code.
WorstRowThatRan ==
    LET Has(o) == \E k \in Items : rows[k] = o
    IN  IF Has("fails_on_new") THEN "fails_on_new"
        ELSE IF Has("inconclusive") THEN "inconclusive"
        ELSE IF Has("not_red_on_old") THEN "not_red_on_old" ELSE "proven"
WorstRowSwapped ==
    LET Has(o) == \E k \in Items : rows[k] = o
    IN  IF Has("inconclusive") THEN "inconclusive"
        ELSE IF Has("test_not_run") THEN "test_not_run"
        ELSE IF Has("fails_on_new") THEN "fails_on_new"
        ELSE IF Has("not_red_on_old") THEN "not_red_on_old" ELSE "proven"

(***************************************************************************)
(* The end of runWhole, and the worst row of runEach.                      *)
(***************************************************************************)
WorstRow ==
    LET Has(o) == \E k \in Items : rows[k] = o
    IN  IF Has("fails_on_new") THEN "fails_on_new"
        ELSE IF Has("test_not_run") THEN "test_not_run"
        ELSE IF Has("inconclusive") THEN "inconclusive"
        ELSE IF Has("not_red_on_old") THEN "not_red_on_old" ELSE "proven"

Judge ==
    /\ pc = "judge"
    /\ Finish(IF mode = "each" THEN WorstRow
              ELSE IF old[1].status = "pass" THEN "not_red_on_old"
              ELSE OldFailure(old[1]))
    /\ UNCHANGED <<mode, code, n, i, cancelled, files, new, old, rows, exit>>

(***************************************************************************)
(* runProve: an error is exit 1 and the outcome "error".                   *)
(***************************************************************************)
Main ==
    /\ pc = "main"
    /\ pc' = "end"
    /\ outcome' = IF err # "none" THEN "error" ELSE outcome
    /\ exit' = IF err # "none" THEN 1
               ELSE IF outcome \in {"proven", "no_code_in_change"} THEN 0
               ELSE 4
    /\ UNCHANGED <<mode, code, n, i, cancelled, files, new, old, rows, err>>

Over == pc = "end" /\ UNCHANGED vars

Step ==
    \/ Start \/ NewRun \/ NewRunOfOne \/ NewRunsEnd \/ Swap \/ OldRun
    \/ OldRunOfOne \/ SkipOne \/ OldRunsEnd \/ RestoreFails \/ RestoreAll
    \/ RestorePiece \/ Judge \/ Main

OutcomeNext == Step \/ Cancel \/ Over

(***************************************************************************)
(* The run waits for nothing but the test command, which its timeout ends. *)
(***************************************************************************)
OutcomeSpec == OutcomeInit /\ [][OutcomeNext]_vars /\ WF_vars(Step)

-----------------------------------------------------------------------------

(***************************************************************************)
(* What the commands must have answered for a change to be proven: green   *)
(* on the new code and red by an assertion on the old, for every test or   *)
(* piece, and in per-test mode with the test's name both times.            *)
(***************************************************************************)
Proof(k) ==
    /\ new[k].status = "pass"
    /\ old[k].status = "fail" /\ ~old[k].built
    /\ mode = "each" => new[k].named /\ old[k].named

(***************************************************************************)
(* The command says proven only on that evidence: every test or piece has  *)
(* it, whatever rows were skipped, cut or judged on the way.               *)
(***************************************************************************)
ProvenIsEarned ==
    pc = "end" /\ outcome = "proven" => n > 0 /\ \A k \in Items : Proof(k)

(***************************************************************************)
(* A run without an error says what its evidence is.  "new-code failures   *)
(* still report fails_on_new": a test that fails on the new code decides   *)
(* over whatever the others do; where every test has its proof the change  *)
(* is proven; and where one stayed green on the old code it is not.        *)
(***************************************************************************)
VerdictFollowsEvidence ==
    pc = "end" /\ err = "none" /\ n > 0 =>
      /\ (\E k \in Items : new[k].status = "fail")
           => outcome = "fails_on_new" /\ exit = 4
      /\ (\A k \in Items : Proof(k)) => outcome = "proven" /\ exit = 0
      /\ (\E k \in Items : old[k].status = "pass") => exit = 4

(***************************************************************************)
(* A command cut by the caller or by its timeout makes the whole run an    *)
(* error, even if every other test gave its proof, and its row stays       *)
(* inconclusive.                                                           *)
(***************************************************************************)
InterruptionIsError ==
    \A k \in Items :
        pc = "end" /\ (Interrupted(new[k]) \/ Interrupted(old[k]))
          => /\ exit = 1
             /\ mode = "each" \/ (mode = "pieces" /\ Interrupted(old[k]))
                  => rows[k] = "inconclusive"

(***************************************************************************)
(* The report's rows never claim more than the evidence, on an error or    *)
(* not, and no row is left open in a report without one.                   *)
(***************************************************************************)
RowsMatchEvidence ==
    pc = "end" /\ mode # "whole" =>
      \A k \in Items :
        /\ rows[k] \in {"proven", "guarded"} => Proof(k)
        /\ rows[k] \in {"not_red_on_old", "not_tested"}
             => new[k].status = "pass" /\ old[k].status = "pass"
        /\ mode = "each" /\ err = "none" /\ new[k] # NotRun => rows[k] # "none"

(***************************************************************************)
(* Whatever was cancelled or failed, the command ends with the change in   *)
(* the tree, unless it says that it could not restore it.                  *)
(***************************************************************************)
FilesComeBack ==
    pc = "end" /\ err \notin {"revert", "restore"} => files = "new"

(***************************************************************************)
(* The command ends.                                                       *)
(***************************************************************************)
CommandEnds == <>(pc = "end")
=============================================================================
