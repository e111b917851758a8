------------------------- MODULE ProveOutcomeProofs -------------------------
(***************************************************************************)
(* The verdict of one run, proved for any number of tests or pieces: what  *)
(* `proven` is earned by, what an interruption comes to, what the rows     *)
(* claim, and that the files come back.                                    *)
(***************************************************************************)
EXTENDS ProveOutcome, TLAPS

Ran(a) == a \in Verdicts \cup {Hang, Cut}
Done == pc \in {"main", "end"}

(***************************************************************************)
(* Where the loops are, and that an error ends them.                       *)
(***************************************************************************)
Placed ==
    /\ ~Done => err = "none" /\ (pc # "start" => n > 0)
    /\ pc = "start" => i = 1
    /\ mode = "whole" => n = 1 /\ i = 1
    /\ mode = "each" => i <= n + 1
    /\ mode = "pieces" => /\ pc \in {"start", "new"} => i = 1
                          /\ pc \in {"swap", "old", "restore"} => i <= n
                          /\ pc # "judge"

(***************************************************************************)
(* The change is in the tree but from a swap to a restore.                 *)
(***************************************************************************)
TreeIsNew ==
    /\ pc \in {"start", "new", "swap", "judge"} => files = "new"
    /\ Done /\ err \notin {"revert", "restore"} => files = "new"

(***************************************************************************)
(* Which commands have answered, and how, at each place.                   *)
(***************************************************************************)
Answered ==
    /\ pc \in {"start", "new"} => \A k \in Items : old[k] = NotRun
    /\ pc = "start" => \A k \in Items : new[k] = NotRun
    /\ pc = "new" => \A k \in Items : (mode # "each" \/ k >= i) => new[k] = NotRun
    /\ mode # "each" /\ pc \in {"swap", "old", "restore", "judge"} =>
         \A k \in Items : new[k].status = "pass"
    /\ mode # "each" /\ pc \in {"restore", "judge"} => Ran(old[i])

(***************************************************************************)
(* A command that was cut is on its way to an error, and its row says so.  *)
(***************************************************************************)
CutsKnown ==
    \A k \in Items :
      /\ Interrupted(new[k]) => /\ Done /\ err # "none"
                                /\ mode = "each" => rows[k] = "inconclusive"
      /\ Interrupted(old[k]) => /\ \/ pc = "restore" /\ (mode = "pieces" => k = i)
                                   \/ Done /\ err # "none"
                                /\ mode # "whole" => rows[k] = "inconclusive"

(***************************************************************************)
(* A row claims no more than the evidence, and is open as long as its      *)
(* command has not answered.                                               *)
(***************************************************************************)
RowsTrue ==
    mode # "whole" =>
      \A k \in Items :
        /\ rows[k] \in {"proven", "guarded"} => Proof(k)
        /\ rows[k] \in {"not_red_on_old", "not_tested"}
             => new[k].status = "pass" /\ old[k].status = "pass"

RowsOpen ==
    /\ pc = "start" => \A k \in Items : rows[k] = "none"
    /\ mode = "pieces" /\ ~Done => \A k \in Items : k > i => rows[k] = "none"
    /\ mode = "pieces" /\ pc \in {"new", "swap", "old"} /\ i <= n => rows[i] = "none"
    /\ mode = "each" /\ pc = "new" => \A k \in Items : k >= i => rows[k] = "none"

(***************************************************************************)
(* Per-test mode: a test has its row from the new run, or is a candidate   *)
(* for the old one and has it from there once the loop is past it.         *)
(***************************************************************************)
Settled(k) == rows[k] \in {"fails_on_new", "test_not_run"} \/ k \in Candidates
Seen(k) == rows[k] \in {"inconclusive", "not_red_on_old", "proven"}

RowsSettled ==
    mode = "each" =>
      /\ pc = "new" => \A k \in Items : k < i => Settled(k)
      /\ pc \in {"swap", "old", "restore", "judge"} =>
           \A k \in Items : Settled(k) /\ (k \in Candidates /\ k < i => Seen(k))
      /\ pc = "restore" => \/ cancelled
                           \/ \E k \in Items : Interrupted(old[k])
                           \/ \A k \in Candidates : k < i
      /\ pc = "judge" => \A k \in Candidates : k < i
      /\ Done /\ err = "none" => \A k \in Items : new[k] = NotRun \/ rows[k] # "none"

(***************************************************************************)
(* The outcome so far, and the one reported.                               *)
(***************************************************************************)
OutcomeEarned ==
    /\ ~Done /\ mode # "pieces" => outcome = "none"
    /\ pc \in {"start", "new"} => outcome = "none"
    /\ mode = "pieces" /\ pc \in {"swap", "old", "restore"} /\ outcome = "proven" =>
         \A k \in Items : k < i => Proof(k)
    /\ Done /\ err = "none" /\ outcome = "proven" => n > 0 /\ \A k \in Items : Proof(k)
    /\ pc = "end" /\ err # "none" => outcome = "error" /\ exit = 1

(***************************************************************************)
(* What the evidence obliges the run to say: no row hides a proof, a       *)
(* failure on the new code has its row, and the verdict follows.           *)
(***************************************************************************)
OutcomeOwed ==
    /\ mode # "whole" => \A k \in Items :
         rows[k] \notin {"none", "proven", "guarded"} => ~Proof(k)
    /\ mode = "each" => \A k \in Items :
         new[k].status = "fail" => rows[k] = "fails_on_new"
    /\ mode = "pieces" /\ pc \in {"swap", "old", "restore"} /\ outcome # "proven" =>
         /\ outcome \in {"inconclusive", "piece_not_tested"}
         /\ \E k \in Items : k < i /\ ~Proof(k)
    /\ Done /\ err = "none" /\ n > 0 =>
         /\ (\E k \in Items : new[k].status = "fail") => outcome = "fails_on_new"
         /\ (\A k \in Items : Proof(k)) => outcome = "proven"
         /\ (\E k \in Items : old[k].status = "pass") => outcome # "no_code_in_change"
    /\ pc = "end" /\ err = "none" =>
         exit = IF outcome \in {"proven", "no_code_in_change"} THEN 0 ELSE 4

OutcomeInv ==
    /\ OutcomeTypeOK
    /\ Placed /\ TreeIsNew /\ Answered /\ CutsKnown
    /\ RowsTrue /\ RowsOpen /\ RowsSettled /\ OutcomeEarned /\ OutcomeOwed

-----------------------------------------------------------------------------

(***************************************************************************)
(* What runTest returns is an answer: the command was interrupted, or it   *)
(* passed or failed.                                                       *)
(***************************************************************************)
LEMMA AnswerFacts ==
  /\ NotRun \in Answers /\ NotRun.status = "none" /\ ~Interrupted(NotRun)
  /\ \A a \in RunTest : Ran(a)
  /\ \A a : Ran(a) => /\ a \in Answers /\ a # NotRun
                      /\ Interrupted(a) \/ a.status \in {"pass", "fail"}
<1>1. NotRun \in Answers /\ NotRun.status = "none" /\ ~Interrupted(NotRun)
  BY DEF Answers, NotRun, Interrupted
<1>2. \A a \in RunTest : Ran(a)
  BY DEF RunTest, Ran
<1>3. ASSUME NEW a, Ran(a)
      PROVE  a \in Answers /\ (Interrupted(a) \/ a.status \in {"pass", "fail"})
  <2>1. CASE a \in Verdicts
    BY <2>1 DEF Verdicts, Answers
  <2>2. CASE a \in {Hang, Cut}
    <3>1. a \in Answers
      BY <2>2 DEF Answers
    <3>2. Hang.status = "hang" /\ Cut.status = "cut"
      BY DEF Hang, Cut
    <3> QED
      BY <2>2, <3>1, <3>2 DEF Interrupted
  <2> QED
    BY <1>3, <2>1, <2>2 DEF Ran
<1>4. \A a : Ran(a) => a # NotRun
  BY <1>1, <1>3 DEF Interrupted
<1> QED
  BY <1>1, <1>2, <1>3, <1>4

(***************************************************************************)
(* The invariant holds before any command ran.                             *)
(***************************************************************************)
LEMMA InitInv == OutcomeInit => OutcomeInv
<1> SUFFICES ASSUME OutcomeInit PROVE OutcomeInv
  OBVIOUS
<1>0. /\ n \in 0..MaxItems /\ (mode = "whole" => n = 1) /\ pc = "start" /\ i = 1
      /\ files = "new" /\ outcome = "none" /\ err = "none" /\ exit = 99
      /\ \A k \in AllItems : new[k] = NotRun /\ old[k] = NotRun /\ rows[k] = "none"
  BY OutcomeAssumption DEF OutcomeInit
<1>1. OutcomeTypeOK
  <2>1. new \in [AllItems -> Answers] /\ old \in [AllItems -> Answers]
    BY AnswerFacts DEF OutcomeInit
  <2>2. rows \in [AllItems -> RowOutcomes]
    BY DEF OutcomeInit, RowOutcomes
  <2>3. n \in 0..MaxItems /\ i \in 1..(MaxItems + 1)
    BY <1>0, OutcomeAssumption
  <2> QED
    BY <1>0, <2>1, <2>2, <2>3 DEF OutcomeInit, OutcomeTypeOK, Outcomes
<1>2. Items \subseteq AllItems
  BY <1>0, OutcomeAssumption DEF Items, AllItems
<1>3. Placed /\ TreeIsNew
  BY <1>0 DEF Placed, TreeIsNew, Done
<1>4. Answered /\ RowsOpen
  BY <1>0, <1>2 DEF Answered, RowsOpen
<1>5. CutsKnown
  BY <1>0, <1>2, AnswerFacts DEF CutsKnown
<1>6. RowsTrue
  BY <1>0, <1>2 DEF RowsTrue
<1>7. RowsSettled /\ OutcomeEarned
  BY <1>0 DEF RowsSettled, OutcomeEarned, Done
<1>8. OutcomeOwed
  BY <1>0, <1>2, AnswerFacts DEF OutcomeOwed, Done
<1> QED
  BY <1>1, <1>3, <1>4, <1>5, <1>6, <1>7, <1>8 DEF OutcomeInv

(***************************************************************************)
(* The items and the loop counter stay within the bounds.                  *)
(***************************************************************************)
LEMMA Bounds ==
  ASSUME OutcomeTypeOK
  PROVE  /\ n \in Nat /\ n <= MaxItems /\ Items \subseteq AllItems
         /\ i \in Nat /\ i >= 1 /\ i <= MaxItems + 1
BY OutcomeAssumption DEF OutcomeTypeOK, Items, AllItems

(***************************************************************************)
(* OldRun, OldRunOfOne and RestorePiece change the evidence or the row of  *)
(* one item only: what they write hides no proof, the rest is as before.   *)
(***************************************************************************)
LEMMA OldRunOwed == ASSUME OutcomeInv, OldRun PROVE OutcomeOwed'
<1> USE AnswerFacts, Bounds DEF OutcomeInv, OutcomeOwed, Done
<1>1. i \in Items
  BY OutcomeAssumption DEF Items, OutcomeTypeOK, Placed, OldRun
<1>2. \A k \in Items : k # i => /\ Proof(k)' = Proof(k)
                                  /\ rows'[k] = rows[k] /\ old'[k] = old[k]
  BY <1>1 DEF OldRun, Row, OutcomeTypeOK, Proof
<1>3. \A k \in Items : k = i /\ mode # "whole" /\ rows'[k] # "none" => ~Proof(k)'
  <2>1. PICK a \in RunTest :
          /\ old' = [old EXCEPT ![i] = a]
          /\ IF mode = "pieces" /\ Interrupted(a)
               THEN Row(i, "inconclusive") ELSE UNCHANGED rows
    BY DEF OldRun
  <2>2. old'[i] = a /\ (mode = "pieces" => rows[i] = "none") /\ mode # "each"
    BY <1>1, <2>1 DEF OutcomeTypeOK, RowsOpen, OldRun, Items
  <2>3. mode = "pieces" /\ rows'[i] # "none" => Interrupted(a)
    BY <1>1, <2>1, <2>2
  <2>4. mode \in {"whole", "each", "pieces"}
    BY OutcomeAssumption DEF OutcomeTypeOK
  <2> QED
    BY <2>2, <2>3, <2>4 DEF Interrupted, Proof
<1>4. /\ Items' = Items /\ UNCHANGED <<mode, new, n, i, outcome, err>>
      /\ pc = "old" /\ pc' = "restore" /\ mode # "each"
  BY DEF OldRun, Items
<1> QED
  BY <1>1, <1>2, <1>3, <1>4

LEMMA OldRunOfOneOwed == ASSUME OutcomeInv, OldRunOfOne PROVE OutcomeOwed'
<1> USE AnswerFacts, Bounds DEF OutcomeInv, OutcomeOwed, Done
<1>1. i \in Items /\ new[i].status = "pass" /\ mode = "each"
  BY DEF Candidates, OldRunOfOne
<1>2. \A k \in Items : k # i => /\ Proof(k)' = Proof(k)
                                  /\ rows'[k] = rows[k] /\ old'[k] = old[k]
  BY <1>1 DEF OldRunOfOne, Row, OutcomeTypeOK, Proof
<1>3. \A k \in Items : k = i /\ rows'[k] # "proven" => ~Proof(k)'
  <2>1. PICK a \in RunTest :
         /\ old' = [old EXCEPT ![i] = a]
         /\ Row(i, IF Interrupted(a) THEN "inconclusive"
                   ELSE IF a.status = "pass" THEN "not_red_on_old"
                   ELSE OldFailure(a))
    BY DEF OldRunOfOne
  <2>2. old'[i] = a /\ mode' = "each"
    BY <1>1, <2>1 DEF OutcomeTypeOK, OldRunOfOne
  <2>3. rows'[i] # "proven" => a.status # "fail" \/ a.built \/ ~a.named
    BY <1>1, <2>1 DEF Row, OutcomeTypeOK, OldFailure, Interrupted
  <2> QED
    BY <2>2, <2>3 DEF Proof
<1>4. /\ Items' = Items /\ UNCHANGED <<mode, new, n, outcome, err>>
      /\ pc' \in {"old", "restore"} /\ mode = "each"
  BY DEF OldRunOfOne, Items
<1> QED
  BY <1>1, <1>2, <1>3, <1>4

LEMMA RestorePieceOwed == ASSUME OutcomeInv, RestorePiece PROVE OutcomeOwed'
<1> USE AnswerFacts, Bounds DEF OutcomeInv, OutcomeOwed, Done
<1>1. i \in Items /\ i \in Nat
  BY DEF Items, OutcomeTypeOK, Placed, RestorePiece
<1>2. \A k \in Items : Proof(k)' = Proof(k)
  BY DEF RestorePiece, Proof
<1>3. CASE Interrupted(old[i])
  BY <1>1, <1>2, <1>3 DEF RestorePiece, Fail, ErrorOf, OutcomeTypeOK, Items
<1>4. CASE ~Interrupted(old[i])
  <2>1. old[i].status \in {"pass", "fail"}
    BY <1>4 DEF Answered, RestorePiece
  <2>2. \A k \in Items : k # i => rows'[k] = rows[k]
    BY <1>1, <1>4 DEF RestorePiece, Row, OutcomeTypeOK, Fail
  <2>3. rows'[i] # "guarded" => ~Proof(i)
    BY <1>1, <1>4, <2>1 DEF RestorePiece, Row, OutcomeTypeOK, Fail, OldFailure, Proof
  <2>4. outcome' # "proven" => outcome # "proven" \/ ~Proof(i)
    BY <1>1, <1>4, <2>1 DEF RestorePiece, OldFailure, Proof
  <2>5. /\ Items' = Items /\ UNCHANGED <<mode, new, old, n, err>>
        /\ pc = "restore" /\ mode = "pieces" /\ i' = i + 1 /\ pc' \in {"main", "swap"}
        /\ outcome' \in {outcome, "piece_not_tested", "inconclusive"}
    BY <1>4 DEF RestorePiece, Fail, Items
  <2>6. outcome' # "proven" => \E k \in Items : k < i + 1 /\ ~Proof(k)
    BY <1>1, <2>4, <2>5
  <2>7. \A k \in Items : new[k].status = "pass"
    BY <2>5 DEF Answered
  <2> QED
    BY <1>1, <1>2, <2>2, <2>3, <2>5, <2>6, <2>7
<1> QED
  BY <1>3, <1>4

(***************************************************************************)
(* Every step keeps the invariant: one case per action, and under it one   *)
(* step per group of its parts.                                            *)
(***************************************************************************)
LEMMA StepInv == OutcomeInv /\ [OutcomeNext]_vars => OutcomeInv'
<1> SUFFICES ASSUME OutcomeInv, [OutcomeNext]_vars PROVE OutcomeInv'
  OBVIOUS
<1> USE DEF OutcomeInv, Items, Done
<1>1. CASE Start
  <2>1. OutcomeTypeOK'
    BY <1>1 DEF Start, Finish, Fail, OutcomeTypeOK, Outcomes
  <2>2. Placed' /\ TreeIsNew' /\ Answered'
    BY <1>1 DEF Start, Finish, Fail, Placed, TreeIsNew, Answered
  <2>3. CutsKnown'
    BY <1>1 DEF Start, CutsKnown
  <2>4. RowsTrue' /\ RowsOpen'
    BY <1>1 DEF Start, RowsTrue, RowsOpen, Placed
  <2>5. RowsSettled'
    BY <1>1 DEF Start, Finish, Fail, RowsSettled, Placed, Answered
  <2>6. OutcomeEarned'
    BY <1>1 DEF Start, Finish, Fail, OutcomeEarned
  <2>7. OutcomeOwed'
    BY <1>1, AnswerFacts DEF Start, Finish, Fail, OutcomeTypeOK,
       OutcomeOwed, Proof, Answered
  <2> QED
    BY <2>1, <2>2, <2>3, <2>4, <2>5, <2>6, <2>7
<1>2. CASE NewRun
  <2>1. OutcomeTypeOK'
    BY <1>2, AnswerFacts DEF NewRun, Finish, Fail, OutcomeTypeOK,
       Outcomes, ErrorOf
  <2>2. Placed' /\ TreeIsNew' /\ Answered'
    BY <1>2, Bounds DEF NewRun, Finish, Fail, Placed, TreeIsNew,
       Answered
  <2>3. CutsKnown'
    BY <1>2, Bounds DEF NewRun, Fail, CutsKnown, ErrorOf, Interrupted
  <2>4. RowsTrue' /\ RowsOpen'
    BY <1>2, OutcomeAssumption DEF NewRun, Finish, Fail,
       OutcomeTypeOK, RowsTrue, RowsOpen, Placed
  <2>5. RowsSettled'
    BY <1>2 DEF NewRun, RowsSettled
  <2>6. OutcomeEarned'
    BY <1>2 DEF NewRun, Finish, Fail, OutcomeEarned, Placed
  <2>7. OutcomeOwed'
    BY <1>2, Bounds, OutcomeAssumption DEF NewRun, Finish, Fail,
       OutcomeTypeOK, OutcomeOwed, Placed, Proof, RowsOpen, ErrorOf
  <2> QED
    BY <2>1, <2>2, <2>3, <2>4, <2>5, <2>6, <2>7
<1>3. CASE NewRunOfOne
  <2>1. OutcomeTypeOK'
    BY <1>3, AnswerFacts, OutcomeAssumption DEF NewRunOfOne, Row,
       Fail, OutcomeTypeOK, RowOutcomes, AllItems, ErrorOf, Placed
  <2>2. Placed' /\ TreeIsNew' /\ Answered'
    BY <1>3 DEF NewRunOfOne, Fail, OutcomeTypeOK, Placed, TreeIsNew,
       Answered
  <2>3. CutsKnown'
    BY <1>3 DEF NewRunOfOne, Row, Fail, OutcomeTypeOK, CutsKnown,
       ErrorOf
  <2>4. RowsTrue' /\ RowsOpen'
    BY <1>3, Bounds DEF NewRunOfOne, Row, Fail, OutcomeTypeOK,
       RowsTrue, Proof, RowsOpen
  <2>5. RowsSettled'
    BY <1>3, AnswerFacts, Bounds DEF NewRunOfOne, Row, Fail,
       OutcomeTypeOK, RowsSettled, Settled, Candidates, ErrorOf
  <2>6. OutcomeEarned'
    BY <1>3 DEF NewRunOfOne, Fail, OutcomeEarned
  <2>7. OutcomeOwed'
    BY <1>3, Bounds DEF NewRunOfOne, Row, Fail, OutcomeTypeOK,
       OutcomeOwed, Proof, Interrupted, ErrorOf
  <2> QED
    BY <2>1, <2>2, <2>3, <2>4, <2>5, <2>6, <2>7
<1>4. CASE NewRunsEnd
  <2>1. OutcomeTypeOK'
    BY <1>4, OutcomeAssumption DEF NewRunsEnd, OutcomeTypeOK
  <2>2. Placed' /\ TreeIsNew' /\ Answered'
    BY <1>4 DEF NewRunsEnd, OutcomeTypeOK, Placed, TreeIsNew, Answered
  <2>3. CutsKnown'
    BY <1>4 DEF NewRunsEnd, CutsKnown
  <2>4. RowsTrue' /\ RowsOpen'
    BY <1>4 DEF NewRunsEnd, RowsTrue, Proof, RowsOpen
  <2>5. RowsSettled'
    BY <1>4 DEF NewRunsEnd, OutcomeTypeOK, RowsSettled, Settled,
       Candidates
  <2>6. OutcomeEarned'
    BY <1>4 DEF NewRunsEnd, OutcomeEarned
  <2>7. OutcomeOwed'
    BY <1>4 DEF NewRunsEnd, OutcomeOwed, Proof
  <2> QED
    BY <2>1, <2>2, <2>3, <2>4, <2>5, <2>6, <2>7
<1>5. CASE Swap
  <2>1. OutcomeTypeOK'
    BY <1>5 DEF Swap, Fail, OutcomeTypeOK
  <2>2. Placed' /\ TreeIsNew' /\ Answered'
    BY <1>5 DEF Swap, Fail, Placed, TreeIsNew, Answered
  <2>3. CutsKnown'
    BY <1>5 DEF Swap, CutsKnown
  <2>4. RowsTrue' /\ RowsOpen'
    BY <1>5 DEF Swap, Fail, RowsTrue, Proof, RowsOpen
  <2>5. RowsSettled'
    BY <1>5 DEF Swap, Fail, RowsSettled, Settled, Seen, Candidates
  <2>6. OutcomeEarned'
    BY <1>5 DEF Swap, Fail, OutcomeEarned, Proof
  <2>7. OutcomeOwed'
    BY <1>5 DEF Swap, Fail, OutcomeOwed, Proof
  <2> QED
    BY <2>1, <2>2, <2>3, <2>4, <2>5, <2>6, <2>7
<1>6. CASE OldRun
  <2>1. OutcomeTypeOK'
    BY <1>6, AnswerFacts, OutcomeAssumption DEF OldRun, Row,
       OutcomeTypeOK, RowOutcomes, AllItems, Placed
  <2>2. Placed' /\ TreeIsNew' /\ Answered'
    BY <1>6, AnswerFacts, Bounds, OutcomeAssumption DEF OldRun,
       OutcomeTypeOK, Placed, TreeIsNew, Answered
  <2>3. CutsKnown'
    BY <1>6, OutcomeAssumption DEF OldRun, Row, OutcomeTypeOK,
       CutsKnown
  <2>4. RowsTrue' /\ RowsOpen'
    BY <1>6, Bounds, OutcomeAssumption DEF OldRun, Row, OutcomeTypeOK,
       RowsTrue, Proof, RowsOpen
  <2>5. RowsSettled'
    BY <1>6 DEF OldRun, RowsSettled
  <2>6. OutcomeEarned'
    BY <1>6 DEF OldRun, OutcomeEarned, Proof
  <2>7. OutcomeOwed'
    BY <1>6, OldRunOwed
  <2> QED
    BY <2>1, <2>2, <2>3, <2>4, <2>5, <2>6, <2>7
<1>7. CASE OldRunOfOne
  <2>1. OutcomeTypeOK'
    BY <1>7, AnswerFacts, OutcomeAssumption DEF OldRunOfOne, Row,
       OutcomeTypeOK, RowOutcomes, AllItems, OldFailure, Candidates
  <2>2. Placed' /\ TreeIsNew' /\ Answered'
    BY <1>7 DEF OldRunOfOne, OutcomeTypeOK, Placed, Candidates,
       TreeIsNew, Answered
  <2>3. CutsKnown'
    BY <1>7 DEF OldRunOfOne, Row, OutcomeTypeOK, CutsKnown
  <2>4. RowsTrue' /\ RowsOpen'
    BY <1>7, AnswerFacts DEF OldRunOfOne, Row, OutcomeTypeOK,
       RowsTrue, Proof, Candidates, RowsOpen, OldFailure
  <2>5. RowsSettled'
    BY <1>7, Bounds DEF OldRunOfOne, Row, OutcomeTypeOK, RowsSettled,
       Settled, Seen, Candidates, OldFailure
  <2>6. OutcomeEarned'
    BY <1>7 DEF OldRunOfOne, OutcomeEarned
  <2>7. OutcomeOwed'
    BY <1>7, OldRunOfOneOwed
  <2> QED
    BY <2>1, <2>2, <2>3, <2>4, <2>5, <2>6, <2>7
<1>8. CASE SkipOne
  <2>1. OutcomeTypeOK'
    BY <1>8, OutcomeAssumption DEF SkipOne, OutcomeTypeOK, Candidates
  <2>2. Placed' /\ TreeIsNew' /\ Answered'
    BY <1>8 DEF SkipOne, OutcomeTypeOK, Placed, TreeIsNew, Answered
  <2>3. CutsKnown'
    BY <1>8 DEF SkipOne, CutsKnown
  <2>4. RowsTrue' /\ RowsOpen'
    BY <1>8 DEF SkipOne, RowsTrue, Proof, RowsOpen
  <2>5. RowsSettled'
    BY <1>8 DEF SkipOne, RowsSettled, Settled, Seen, Candidates
  <2>6. OutcomeEarned'
    BY <1>8 DEF SkipOne, OutcomeEarned
  <2>7. OutcomeOwed'
    BY <1>8 DEF SkipOne, OutcomeOwed, Proof
  <2> QED
    BY <2>1, <2>2, <2>3, <2>4, <2>5, <2>6, <2>7
<1>9. CASE OldRunsEnd
  <2>1. OutcomeTypeOK'
    BY <1>9 DEF OldRunsEnd, OutcomeTypeOK
  <2>2. Placed' /\ TreeIsNew' /\ Answered'
    BY <1>9 DEF OldRunsEnd, Placed, TreeIsNew, Answered
  <2>3. CutsKnown'
    BY <1>9 DEF OldRunsEnd, CutsKnown
  <2>4. RowsTrue' /\ RowsOpen'
    BY <1>9 DEF OldRunsEnd, RowsTrue, Proof, RowsOpen
  <2>5. RowsSettled'
    BY <1>9 DEF OldRunsEnd, OutcomeTypeOK, RowsSettled, Settled, Seen,
       Candidates, CandidatesLeft
  <2>6. OutcomeEarned'
    BY <1>9 DEF OldRunsEnd, OutcomeEarned
  <2>7. OutcomeOwed'
    BY <1>9 DEF OldRunsEnd, OutcomeOwed, Proof
  <2> QED
    BY <2>1, <2>2, <2>3, <2>4, <2>5, <2>6, <2>7
<1>10. CASE RestoreFails
  <2>1. OutcomeTypeOK'
    BY <1>10 DEF RestoreFails, Fail, OutcomeTypeOK
  <2>2. Placed' /\ TreeIsNew' /\ Answered'
    BY <1>10 DEF RestoreFails, Fail, Placed, TreeIsNew, Answered
  <2>3. CutsKnown'
    BY <1>10 DEF RestoreFails, Fail, CutsKnown
  <2>4. RowsTrue' /\ RowsOpen'
    BY <1>10 DEF RestoreFails, Fail, RowsTrue, Proof, RowsOpen
  <2>5. RowsSettled'
    BY <1>10 DEF RestoreFails, Fail, RowsSettled
  <2>6. OutcomeEarned'
    BY <1>10 DEF RestoreFails, Fail, OutcomeEarned
  <2>7. OutcomeOwed'
    BY <1>10 DEF RestoreFails, Fail, OutcomeOwed, Proof
  <2> QED
    BY <2>1, <2>2, <2>3, <2>4, <2>5, <2>6, <2>7
<1>11. CASE RestoreAll
  <2>1. OutcomeTypeOK'
    BY <1>11 DEF RestoreAll, Fail, OutcomeTypeOK
  <2>2. Placed' /\ TreeIsNew' /\ Answered'
    BY <1>11 DEF RestoreAll, Fail, Placed, TreeIsNew, Answered
  <2>3. CutsKnown'
    BY <1>11 DEF RestoreAll, Fail, CutsKnown
  <2>4. RowsTrue' /\ RowsOpen'
    BY <1>11 DEF RestoreAll, Fail, RowsTrue, Proof, RowsOpen
  <2>5. RowsSettled'
    BY <1>11 DEF RestoreAll, Fail, RowsSettled, Settled, Seen,
       Candidates
  <2>6. OutcomeEarned'
    BY <1>11 DEF RestoreAll, Fail, OutcomeEarned
  <2>7. OutcomeOwed'
    BY <1>11 DEF RestoreAll, Fail, OutcomeOwed, Proof
  <2> QED
    BY <2>1, <2>2, <2>3, <2>4, <2>5, <2>6, <2>7
<1>12. CASE RestorePiece
  <2>1. OutcomeTypeOK'
    BY <1>12, OutcomeAssumption DEF RestorePiece, Row, Fail,
       OutcomeTypeOK, RowOutcomes, Outcomes, ErrorOf, Placed
  <2>2. Placed' /\ TreeIsNew' /\ Answered'
    BY <1>12 DEF RestorePiece, Fail, OutcomeTypeOK, Placed, TreeIsNew,
       Answered
  <2>3. CutsKnown'
    BY <1>12 DEF RestorePiece, Fail, CutsKnown, ErrorOf
  <2>4. RowsTrue' /\ RowsOpen'
    BY <1>12, AnswerFacts, Bounds DEF RestorePiece, Row, Fail,
       OutcomeTypeOK, RowsTrue, Proof, RowsOpen, OldFailure, Answered
  <2>5. RowsSettled'
    BY <1>12 DEF RestorePiece, RowsSettled
  <2>6. OutcomeEarned'
    BY <1>12, AnswerFacts DEF RestorePiece, Fail, OutcomeTypeOK,
       OutcomeEarned, Proof, OldFailure, Answered, ErrorOf
  <2>7. OutcomeOwed'
    BY <1>12, RestorePieceOwed
  <2> QED
    BY <2>1, <2>2, <2>3, <2>4, <2>5, <2>6, <2>7
<1>13. CASE Judge
  <2>1. OutcomeTypeOK'
    BY <1>13 DEF Judge, Finish, OutcomeTypeOK, Outcomes, WorstRow,
       OldFailure
  <2>2. Placed' /\ TreeIsNew' /\ Answered'
    BY <1>13 DEF Judge, Finish, Placed, TreeIsNew, Answered
  <2>3. CutsKnown'
    BY <1>13 DEF Judge, CutsKnown
  <2>4. RowsTrue' /\ RowsOpen'
    BY <1>13 DEF Judge, Finish, RowsTrue, Proof, RowsOpen
  <2>5. RowsSettled'
    BY <1>13 DEF Judge, RowsSettled, Settled, Seen, Candidates
  <2>6. OutcomeEarned'
    BY <1>13, AnswerFacts, OutcomeAssumption DEF Judge, Finish,
       OutcomeTypeOK, OutcomeEarned, Placed, Proof, RowsTrue,
       OldFailure, Answered, WorstRow, RowsSettled, Settled, Seen,
       CutsKnown
  <2>7. OutcomeOwed'
    BY <1>13 DEF Judge, Finish, OutcomeTypeOK, OutcomeOwed, Proof,
       Answered, OldFailure, WorstRow
  <2> QED
    BY <2>1, <2>2, <2>3, <2>4, <2>5, <2>6, <2>7
<1>14. CASE Main
  <2>1. OutcomeTypeOK'
    BY <1>14 DEF Main, OutcomeTypeOK, Outcomes
  <2>2. Placed' /\ TreeIsNew' /\ Answered'
    BY <1>14 DEF Main, Placed, TreeIsNew, Answered
  <2>3. CutsKnown'
    BY <1>14 DEF Main, CutsKnown
  <2>4. RowsTrue' /\ RowsOpen'
    BY <1>14 DEF Main, RowsTrue, Proof, RowsOpen
  <2>5. RowsSettled'
    BY <1>14 DEF Main, RowsSettled
  <2>6. OutcomeEarned'
    BY <1>14 DEF Main, OutcomeEarned, Proof
  <2>7. OutcomeOwed'
    BY <1>14 DEF Main, OutcomeOwed, Proof
  <2> QED
    BY <2>1, <2>2, <2>3, <2>4, <2>5, <2>6, <2>7
<1>15. CASE Cancel
  <2>1. OutcomeTypeOK'
    BY <1>15 DEF Cancel, OutcomeTypeOK
  <2>2. Placed' /\ TreeIsNew' /\ Answered'
    BY <1>15 DEF Cancel, Placed, TreeIsNew, Answered
  <2>3. CutsKnown'
    BY <1>15 DEF Cancel, CutsKnown
  <2>4. RowsTrue' /\ RowsOpen'
    BY <1>15 DEF Cancel, RowsTrue, Proof, RowsOpen
  <2>5. RowsSettled'
    BY <1>15 DEF Cancel, RowsSettled, Settled, Seen, Candidates
  <2>6. OutcomeEarned'
    BY <1>15 DEF Cancel, OutcomeEarned, Proof
  <2>7. OutcomeOwed'
    BY <1>15 DEF Cancel, OutcomeOwed, Proof
  <2> QED
    BY <2>1, <2>2, <2>3, <2>4, <2>5, <2>6, <2>7
<1>16. CASE UNCHANGED vars
  <2>1. OutcomeTypeOK' /\ Placed' /\ TreeIsNew' /\ Answered'
    BY <1>16 DEF vars, OutcomeTypeOK, Placed, TreeIsNew, Answered
  <2>2. CutsKnown' /\ RowsOpen' /\ RowsTrue'
    BY <1>16 DEF vars, CutsKnown, RowsOpen, RowsTrue, Proof
  <2>3. RowsSettled'
    BY <1>16 DEF vars, RowsSettled, Settled, Seen, Candidates
  <2>4. OutcomeEarned' /\ OutcomeOwed'
    BY <1>16 DEF vars, OutcomeEarned, OutcomeOwed, Proof
  <2> QED
    BY <2>1, <2>2, <2>3, <2>4
<1> QED
  BY <1>1, <1>2, <1>3, <1>4, <1>5, <1>6, <1>7, <1>8, <1>9, <1>10,
     <1>11, <1>12, <1>13, <1>14, <1>15, <1>16 DEF OutcomeNext, Step,
     Over

(***************************************************************************)
(* The invariant, OutcomeTypeOK with it, holds of every run of the command *)
(* for any number of tests or pieces.                                      *)
(***************************************************************************)
THEOREM OutcomeInvariant == OutcomeSpec => []OutcomeInv
BY InitInv, StepInv, PTL DEF OutcomeSpec

(***************************************************************************)
(* `proven` is said only of a change each of whose tests or pieces was     *)
(* green on the new code and red by an assertion on the old, however many  *)
(* there are and wherever the run was cut (runWhole, runEach, runPieces).  *)
(***************************************************************************)
THEOREM ProvenNeedsProof == OutcomeSpec => []ProvenIsEarned
<1>1. OutcomeInv => ProvenIsEarned
  BY DEF OutcomeInv, OutcomeEarned, ProvenIsEarned, Done
<1> QED
  BY <1>1, OutcomeInvariant, PTL

(***************************************************************************)
(* And the evidence decides: a test that fails on the new code makes it    *)
(* fails_on_new, a proof of every test or piece makes it proven, and one   *)
(* that stayed green on the old code never exits 0.                        *)
(***************************************************************************)
THEOREM EvidenceDecides == OutcomeSpec => []VerdictFollowsEvidence
<1>1. OutcomeInv => VerdictFollowsEvidence
  <2> SUFFICES ASSUME OutcomeInv, pc = "end", err = "none", n > 0
               PROVE  /\ (\E k \in Items : new[k].status = "fail")
                           => outcome = "fails_on_new" /\ exit = 4
                      /\ (\A k \in Items : Proof(k)) => outcome = "proven" /\ exit = 0
                      /\ (\E k \in Items : old[k].status = "pass") => exit = 4
    BY DEF VerdictFollowsEvidence
  <2>1. exit = IF outcome \in {"proven", "no_code_in_change"} THEN 0 ELSE 4
    BY DEF OutcomeInv, OutcomeOwed
  <2>2. outcome = "proven" => \A k \in Items : old[k].status # "pass"
    BY DEF OutcomeInv, OutcomeEarned, Done, Proof
  <2> QED
    BY <2>1, <2>2 DEF OutcomeInv, OutcomeOwed, Done
<1> QED
  BY <1>1, OutcomeInvariant, PTL

(***************************************************************************)
(* A command cut by the caller or by its timeout ends the run with exit 1, *)
(* whatever the other tests or pieces gave.                                *)
(***************************************************************************)
THEOREM CutsAreErrors == OutcomeSpec => []InterruptionIsError
<1>1. OutcomeInv => InterruptionIsError
  BY DEF OutcomeInv, CutsKnown, OutcomeEarned, InterruptionIsError
<1> QED
  BY <1>1, OutcomeInvariant, PTL

(***************************************************************************)
(* The rows of the report, also of one that ends in an error, claim        *)
(* nothing their two commands did not show, and none is left open.         *)
(***************************************************************************)
THEOREM RowsAreTrue == OutcomeSpec => []RowsMatchEvidence
<1>1. OutcomeInv => RowsMatchEvidence
  BY DEF OutcomeInv, RowsTrue, RowsSettled, RowsMatchEvidence, Done
<1> QED
  BY <1>1, OutcomeInvariant, PTL

(***************************************************************************)
(* The change is back in the tree when the command ends, unless the error  *)
(* says that reverting or restoring the files failed.                      *)
(***************************************************************************)
THEOREM ChangeIsRestored == OutcomeSpec => []FilesComeBack
<1>1. OutcomeInv => FilesComeBack
  BY DEF OutcomeInv, TreeIsNew, FilesComeBack, Done
<1> QED
  BY <1>1, OutcomeInvariant, PTL
=============================================================================
