---------------------------- MODULE ChangeSource ----------------------------
(***************************************************************************)
(* internal/source: how the change that is to be judged is collected, in   *)
(* several calls of gh or git, while its author goes on working on it.     *)
(*                                                                         *)
(* A state of the change (a pushed head, or the checkout at a moment) is   *)
(* the number of files it changes; file i of state v is <<i, v>>, so that  *)
(* what was read of two states can be told apart.                          *)
(***************************************************************************)
EXTENDS Integers, FiniteSets, SequencesExt

CONSTANTS
    PageSize, MaxPages,     \* of the pull request's list of files
    CompareLimit,           \* the most files the compare API lists
    Counts,                 \* how many files a state may change
    MaxStates,              \* bound: states of the change during one read
    QuotedFile,             \* the file whose name `git diff` prints quoted
    BelowDir                \* the files below --dir when that is not the root

ASSUME SourceAssumption ==
    /\ PageSize \in Nat \ {0} /\ MaxPages \in Nat \ {0}
    /\ CompareLimit \in Nat \ {0} /\ Counts \subseteq Nat

VARIABLES
    mode,           \* "pr", "compare", or a checkout whose root ("local") or
                    \* whose subdirectory ("below") --dir names
    at,             \* the call that is next, "read", "failed" or a later stage
    states,         \* how many files each state of the change has changed
    untracked,      \* the checkout's files that git does not track yet
    input           \* what check.Input holds so far

sourceVars == <<mode, at, states, untracked, input>>

InCheckout == mode \in {"local", "below"}

SourceInit ==
    /\ mode \in {"pr", "compare", "local", "below"}
    /\ at = CASE mode = "pr" -> "head" [] mode = "compare" -> "compare" [] OTHER -> "diff"
    /\ states \in {<<n>> : n \in Counts}
    /\ untracked \in IF InCheckout THEN SUBSET (1 .. states[1]) ELSE {{}}
    /\ input = [files |-> <<>>, head |-> 1, incomplete |-> FALSE]

Now == Len(states)
Reading == at \in {"head", "pages", "compare", "tree", "diff", "others"}

\* Files i .. j of the change as it is now.
Listed(i, j) == [k \in 1 .. j - i + 1 |-> <<i + k - 1, Now>>]
LowerOf(i, j) == IF i < j THEN i ELSE j

-----------------------------------------------------------------------------
(* The author *)

(***************************************************************************)
(* A push, or an edit of the checkout: what is read from here on is of     *)
(* another state.  In a checkout it may be a `git add` too.                *)
(***************************************************************************)
ChangeMoves ==
    /\ Reading /\ Now < MaxStates
    /\ \E n \in Counts :
         /\ states' = Append(states, n)
         /\ untracked' \in SUBSET (untracked \cap (1 .. n))
    /\ UNCHANGED <<mode, at, input>>

-----------------------------------------------------------------------------
(* The calls *)

(***************************************************************************)
(* A call of gh or git, or the read of an untracked file.                  *)
(***************************************************************************)
CallFails ==
    /\ Reading
    /\ at' = "failed"
    /\ UNCHANGED <<mode, states, untracked, input>>

\* PullRequest, the title and the head.
ReadHead ==
    /\ at = "head"
    /\ at' = "pages"
    /\ input' = [input EXCEPT !.head = Now]
    /\ UNCHANGED <<mode, states, untracked>>

LastPage(page, size) == page = MaxPages \/ size < PageSize

(***************************************************************************)
(* PullRequest, one page of files: of the pull request as it is then.      *)
(***************************************************************************)
ReadPage ==
    /\ at = "pages"
    /\ LET page == Len(input.files) \div PageSize + 1
           from == (page - 1) * PageSize + 1
           batch == Listed(from, LowerOf(page * PageSize, states[Now]))
       IN /\ input' = [input EXCEPT !.files = @ \o batch]
          /\ at' = IF LastPage(page, Len(batch)) THEN "tree" ELSE "pages"
    /\ UNCHANGED <<mode, states, untracked>>

\* A variant of AtLimit: a list of just the limit is taken for a whole one.
PastLimit(n) == n > CompareLimit

AtLimit(n) == n >= CompareLimit

ReadCompare ==
    /\ at = "compare"
    /\ LET files == Listed(1, LowerOf(CompareLimit, states[Now]))
       IN input' = [files |-> files, head |-> Now, incomplete |-> AtLimit(Len(files))]
    /\ at' = "tree"
    /\ UNCHANGED <<mode, states, untracked>>

(***************************************************************************)
(* fromGitHub: no files is an error, asked before the head's tree is.      *)
(***************************************************************************)
ReadTree ==
    /\ at = "tree"
    /\ at' = IF input.files = <<>> THEN "failed" ELSE "read"
    /\ UNCHANGED <<mode, states, untracked, input>>

(***************************************************************************)
(* Files of the checkout as git lists them, in an order of its own.        *)
(***************************************************************************)
InTree(files) == SetToSeq({<<i, Now>> : i \in files})

(***************************************************************************)
(* splitUnifiedDiff finds no path in the headers of a file whose name is   *)
(* quoted, and skips it.                                                   *)
(***************************************************************************)
SplitDiff(files) == files \ {QuotedFile}

(***************************************************************************)
(* Local, `git diff`.  The head noted here is the state that the diff is   *)
(* of; in.Head is asked for later and only shown.                          *)
(***************************************************************************)
ReadDiff ==
    /\ at = "diff"
    /\ at' = "others"
    /\ input' = [input EXCEPT
         !.head = Now,
         !.files = InTree(SplitDiff((1 .. states[Now]) \ untracked))]
    /\ UNCHANGED <<mode, states, untracked>>

(***************************************************************************)
(* Local, `git ls-files --others -z` in --dir, and the reads that follow.  *)
(* git lists only what is below --dir, and names it from there; the code   *)
(* reads those names from the root.  Below the root it fails at a name     *)
(* that the root has not (CallFails); a name that it has is of some other  *)
(* file, of which no more is said: 0.                                      *)
(***************************************************************************)
Others ==
    LET rest == (1 .. states[Now]) \cap untracked
    IN  IF mode = "below"
        THEN [k \in 1 .. Cardinality(rest \cap BelowDir) |-> <<0, Now>>]
        ELSE InTree(rest)

ReadOthers ==
    /\ at = "others"
    /\ LET files == input.files \o Others
       IN /\ input' = [input EXCEPT !.files = files]
          /\ at' = IF files = <<>> THEN "failed" ELSE "read"
    /\ UNCHANGED <<mode, states, untracked>>

SourceNext ==
    \/ ReadHead \/ ReadPage \/ ReadCompare \/ ReadTree \/ ReadDiff \/ ReadOthers
    \/ CallFails \/ ChangeMoves

-----------------------------------------------------------------------------
(* Where the code does not see that it has not everything *)

\* A comparison names a head and lists its files in one call.
Moved == mode # "compare" /\ Now > input.head
PastLastPage == mode = "pr" /\ states[Now] > PageSize * MaxPages
QuotedName == InCheckout /\ QuotedFile \in (1 .. states[Now]) \ untracked
FromBelow == mode = "below" /\ (1 .. states[Now]) \cap untracked # {}

(***************************************************************************)
(* "Incomplete: the source knows files are missing from Files": an input   *)
(* that is not marked has every file of the head it names, once, as it is  *)
(* in that head.  Four holes are named: a change that moved while several  *)
(* calls read it, the files past the last page of a pull request, a        *)
(* tracked file whose name git quotes, and the untracked files of a        *)
(* checkout that is read from a subdirectory.                              *)
(***************************************************************************)
InputIsWhole ==
    at = "read" /\ ~input.incomplete =>
      \/ Moved \/ PastLastPage \/ QuotedName \/ FromBelow
      \/ /\ Len(input.files) = states[input.head]
         /\ \A i \in 1 .. states[input.head] :
              \E k \in DOMAIN input.files : input.files[k] = <<i, input.head>>
=============================================================================
