------------------------------- MODULE Advice -------------------------------
(***************************************************************************)
(* test-check without a subcommand: cmd/test-check/main.go collects the    *)
(* change (ChangeSource), and internal/check renders it within a budget,   *)
(* asks JEV and turns the answers into one advice or into a failure.       *)
(*                                                                         *)
(* A text is its length.  What JevClient.tla says of the request and its   *)
(* retries is one step here: an answer of some shape or an error.          *)
(***************************************************************************)
EXTENDS ChangeSource

CONSTANTS
    TextLengths,    \* lengths of a file's diff text; NoPatch is the shortest
    NoPatch,        \* the length of a text that is its header alone
    Budget, MarkerLength, \* DiffBudgetBytes and the length of truncatedMarker
    Losses          \* how many bytes a cut text may have that are not UTF-8

ASSUME AdviceAssumption ==
    /\ TextLengths \subseteq Nat /\ Losses \subseteq Nat
    /\ Budget \in Nat /\ MarkerLength \in Nat

VARIABLES
    key,            \* an OPENROUTER_API_KEY is found
    texts,          \* the diff texts as rendered, <<>> before and after
    sent,           \* the texts as they fit the budget
    lost,           \* what each would lose to ToValidUTF8 if it were cut
    complete,       \* diffComplete of the request
    answers,        \* JEV's answers
    ended           \* exit code, receipt outcome, and what was told

adviceVars == <<key, texts, sent, lost, complete, answers, ended>>

Options == {"new_test", "extend_test", "one_off", "no_test", "need_context"}
\* A probability: "high" is above the threshold, "bad" no number in [0,1].
Probabilities == {"high", "low"}
None == [advice |-> "missing", covered |-> "missing", lowValue |-> "missing"]
Running == [exit |-> -1, receipt |-> "unsaved", warned |-> FALSE,
            testWork |-> FALSE, next |-> {}]

AdviceInit ==
    /\ key \in BOOLEAN
    /\ texts = <<>> /\ sent = <<>> /\ lost = <<>> /\ complete = FALSE
    /\ answers = None /\ ended = Running

-----------------------------------------------------------------------------
(* check.fitBudget *)

SumOf(lens) == FoldLeft(+, 0, lens)

\* A variant of BudgetOrder: the texts as they come.
GivenOrder(lens) == [i \in DOMAIN lens |-> i]

\* Smallest first, equal ones as they come: a text has its turn when all that
\* go before it have had theirs.
Before(lens, i, j) == lens[i] < lens[j] \/ (lens[i] = lens[j] /\ i < j)
BudgetOrder(lens) ==
    [n \in DOMAIN lens |->
       CHOOSE i \in DOMAIN lens :
         Cardinality({j \in DOMAIN lens : Before(lens, j, i)}) = n - 1]

(***************************************************************************)
(* The length of a text that gets this share.  One that is cut loses, of   *)
(* what it keeps, what is no valid UTF-8: the bytes of the character that  *)
(* the cut splits, and every stray byte before them.                       *)
(***************************************************************************)
Cut(length, share, invalid) ==
    IF length <= share THEN length
    ELSE IF share < MarkerLength THEN 0
    ELSE LET kept == share - MarkerLength
         IN MarkerLength + IF kept < invalid THEN 0 ELSE kept - invalid

(***************************************************************************)
(* One turn: a text gets an equal share of what remains.                   *)
(***************************************************************************)
FitText(lens, invalid, r, n) ==
    LET i == BudgetOrder(lens)[n]
        length == Cut(lens[i], r.remaining \div (Len(lens) - n + 1), invalid[i])
    IN [remaining |-> r.remaining - length, fitted |-> [r.fitted EXCEPT ![i] = length]]

FitBudget(lens, invalid) ==
    IF SumOf(lens) <= Budget THEN lens
    ELSE FoldLeftDomain(LAMBDA r, n : FitText(lens, invalid, r, n),
                        [remaining |-> Budget, fitted |-> lens], lens).fitted

-----------------------------------------------------------------------------
(* check.Evaluate *)

NeedsTestWork(a) ==
    \/ a.advice \in {"new_test", "extend_test"} /\ a.covered # "high"
    \/ a.lowValue = "high"

(***************************************************************************)
(* What the next step tells the user to do, told apart as nextStep does.   *)
(***************************************************************************)
NextStep(a) ==
    (IF a.advice \in {"new_test", "extend_test"}
     THEN IF a.covered = "high" THEN {"prove"} ELSE {"write a test"}
     ELSE {a.advice})
    \cup (IF a.lowValue = "high" THEN {"warning"} ELSE {})

\* A variant of Whole: a missing probability is taken for 0.
WholeAdvice(a) == a.advice \in Options

Whole(a) ==
    /\ a.advice \in Options
    /\ a.covered \in Probabilities /\ a.lowValue \in Probabilities

-----------------------------------------------------------------------------
(* main.run after the source *)

End(exit, receipt) ==
    /\ at' = "ended"
    /\ ended' = [Running EXCEPT !.exit = exit, !.receipt = receipt]

\* --compare without both commits: after startReceipt, and without a save.
BadCompare ==
    /\ at = "compare"
    /\ End(2, "unsaved")
    /\ UNCHANGED <<mode, states, untracked, input, key, texts, sent, lost,
                   complete, answers>>

SourceFailed ==
    /\ at = "failed"
    /\ End(1, "error")
    /\ UNCHANGED <<mode, states, untracked, input, key, texts, sent, lost,
                   complete, answers>>

(***************************************************************************)
(* rec.input.  Which files were read matters no more from here on; how     *)
(* many there are does, and the rest is forgotten to keep the states few.  *)
(***************************************************************************)
RecordInput ==
    /\ at = "read"
    /\ at' = "recorded"
    /\ input' = [input EXCEPT !.head = 1, !.files = [k \in DOMAIN @ |-> <<k, 1>>]]
    /\ states' = <<Len(input.files)>> /\ untracked' = {}
    /\ UNCHANGED <<mode, key, texts, sent, lost, complete, answers, ended>>

NoKey ==
    /\ at = "recorded" /\ ~key
    /\ End(3, "unavailable")
    /\ UNCHANGED <<mode, states, untracked, input, key, texts, sent, lost,
                   complete, answers>>

(***************************************************************************)
(* BuildState.                                                             *)
(***************************************************************************)
Render ==
    /\ at = "recorded" /\ key
    /\ texts' \in [DOMAIN input.files -> TextLengths]
    /\ lost' \in [DOMAIN input.files -> Losses]
    /\ sent' = FitBudget(texts', lost')
    /\ complete' = (/\ ~input.incomplete
                    /\ \A i \in DOMAIN texts' : texts'[i] # NoPatch
                    /\ SumOf(texts') <= Budget)
    /\ at' = "rendered"
    /\ UNCHANGED <<mode, states, untracked, input, key, answers, ended>>

(***************************************************************************)
(* judge.Evaluate, and what was sent with it is forgotten.                 *)
(***************************************************************************)
Ask ==
    /\ at = "rendered"
    /\ \/ End(3, "unavailable") /\ UNCHANGED answers
       \/ /\ at' = "answered"
          /\ answers' \in [advice : Options \cup {"missing", "other"},
                           covered : Probabilities \cup {"missing", "bad"},
                           lowValue : Probabilities \cup {"missing", "bad"}]
          /\ UNCHANGED ended
    /\ texts' = <<>> /\ sent' = <<>> /\ lost' = <<>>
    /\ states' = <<0>>
    /\ input' = [files |-> <<>>, head |-> 1, incomplete |-> FALSE]
    /\ UNCHANGED <<mode, untracked, key, complete>>

Advise ==
    /\ at = "answered"
    /\ IF Whole(answers)
       THEN /\ at' = "ended"
            /\ ended' = [exit |-> 0, receipt |-> answers.advice, warned |-> ~complete,
                         testWork |-> NeedsTestWork(answers), next |-> NextStep(answers)]
       ELSE End(3, "unavailable")
    /\ UNCHANGED <<mode, states, untracked, input, key, texts, sent, lost,
                   complete, answers>>

AdviceNext ==
    \/ SourceNext /\ UNCHANGED adviceVars
    \/ BadCompare \/ SourceFailed \/ RecordInput \/ NoKey \/ Render \/ Ask \/ Advise

AdviceSpec ==
    SourceInit /\ AdviceInit /\ [][AdviceNext]_<<sourceVars, adviceVars>>

-----------------------------------------------------------------------------

(***************************************************************************)
(* "Any failure to get a complete answer is an error: the caller must not  *)
(* present a partial answer as advice": test-check exits with 0 only on    *)
(* three whole answers, the receipt says the same as the exit code and     *)
(* warns of a cut diff, and test work is asked for in the next step        *)
(* exactly when needs_test_work says so.                                   *)
(***************************************************************************)
AdviceIsEarned ==
    at = "ended" =>
      /\ ended.exit \in 0 .. 3
      /\ ended.exit = 0 <=> ended.receipt \in Options
      /\ ended.exit = 0 =>
           /\ key
           /\ answers.advice = ended.receipt
           /\ {answers.covered, answers.lowValue} \subseteq Probabilities
           /\ ended.warned = ~complete
           /\ ended.testWork = (ended.next \cap {"write a test", "warning"} # {})
      /\ ended.exit = 1 <=> ended.receipt = "error"
      /\ ended.exit = 2 => ended.receipt = "unsaved"
      /\ ended.exit = 3 <=> ended.receipt = "unavailable"

(***************************************************************************)
(* "so one huge file cannot hide the others": what is sent fits the        *)
(* budget; every text keeps an equal share of it or all it has, less only  *)
(* the bytes of its own that are not UTF-8, and is dropped only if the     *)
(* marker does not fit a share; what short texts and invalid bytes leave   *)
(* goes to the others, so that at the end no more is wasted than what one  *)
(* text lost; and a diff that is called complete is sent as it is, patches *)
(* and all.                                                                *)
(***************************************************************************)
BudgetIsShared ==
    at = "rendered" =>
      LET fair == Budget \div Len(texts)
          dropped == {i \in DOMAIN sent : sent[i] = 0}
      IN /\ SumOf(sent) <= Budget
         /\ \A i \in DOMAIN texts :
              \/ sent[i] = texts[i]
              \/ i \in dropped /\ fair < MarkerLength
              \/ sent[i] < texts[i] /\ sent[i] >= MarkerLength /\ sent[i] + lost[i] >= fair
         /\ dropped = {} /\ sent # texts =>
              \E i \in DOMAIN sent : sent[i] < texts[i] /\ SumOf(sent) + lost[i] >= Budget
         /\ complete => sent = texts /\ NoPatch \notin {texts[i] : i \in DOMAIN texts}
=============================================================================
