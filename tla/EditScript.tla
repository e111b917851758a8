----------------------------- MODULE EditScript -----------------------------
(***************************************************************************)
(* One changed file as git tells it apart: a script of lines that stay     *)
(* (" "), go ("-") or come ("+"), written one line at a time, and what     *)
(* `git diff` prints of it.  All of it is git's, not the repository's: the *)
(* readers of pieces.go and prove.go are modelled in CodePieces and        *)
(* ChangedTests.                                                           *)
(*                                                                         *)
(* A line is the class of its text: a test's declaration, another top      *)
(* level line, an indented line, a blank one; in a code file, one that     *)
(* does something or a comment.                                            *)
(***************************************************************************)
EXTENDS Integers, SequencesExt

CONSTANTS
    Names,          \* test names; as a text, the line that declares the test
    Methods,        \* the tests among them that a (Python) class declares
    NoTest,         \* in place of a name: no test
    MaxTestLines,   \* bounds of a script
    MaxCodeLines,
    Contexts        \* values of diff.context that `git diff` may run with

ASSUME ScriptAssumption ==
    /\ Methods \subseteq Names /\ NoTest \notin Names
    /\ Names \cap {"top", "body", "blank"} = {}
    /\ Contexts \subseteq Nat

VARIABLES
    file,           \* what became of the file in the change
    context,        \* lines of context of a plain `git diff`
    script          \* the lines so far

scriptVars == <<file, context, script>>

CodeFiles == {"edited", "added", "deleted", "link"}
TestFiles == {"tracked", "untracked"}
CodeTexts == {"one", "two", "comment"}
TestTexts == Names \cup {"top", "body", "blank"}
TopLevel == (Names \ Methods) \cup {"top"}

(***************************************************************************)
(* The lines a reader of one side sees; a side's last line may lack its    *)
(* newline.                                                                *)
(***************************************************************************)
SideOf(s, gone) ==
    FlattenSeq([i \in DOMAIN s |-> IF s[i].sign = gone THEN <<>> ELSE <<s[i]>>])
Version(s) == [i \in DOMAIN s |-> [text |-> s[i].text, nl |-> s[i].nl]]
OldVersion == Version(SideOf(script, "+"))
NewVersion == Version(SideOf(script, "-"))

SameSide(sign, other) == sign = " " \/ other = " " \/ sign = other

SignsOf(f) == CASE f \in {"added", "untracked"} -> {"+"}
                [] f = "deleted" -> {"-"}
                [] OTHER -> {" ", "-", "+"}

(***************************************************************************)
(* The nearest of a set of lines above i, 0 if there is none.              *)
(***************************************************************************)
Nearest(i, lines) == Max({0} \cup {j \in lines : j < i})

(***************************************************************************)
(* git prints what goes before what comes.  A test is declared once on a   *)
(* side, a method under a top level line that declares no test.            *)
(***************************************************************************)
MayFollow(l) ==
    /\ script # <<>> => ~(l.sign = "-" /\ Last(script).sign = "+")
    /\ \A i \in DOMAIN script :
         SameSide(l.sign, script[i].sign) =>
           /\ script[i].nl
           /\ l.text \in Names => script[i].text # l.text
    /\ l.text \in Methods =>
         LET at == Nearest(Len(script) + 1,
                     {j \in DOMAIN script : script[j].text \in TopLevel})
         IN at > 0 /\ script[at].text = "top" /\ script[at].sign \in {" ", l.sign}

AddLine ==
    /\ \E sign \in SignsOf(file) :
         \E l \in IF file \in CodeFiles
                  THEN [sign : {sign}, text : CodeTexts, nl : BOOLEAN]
                  ELSE [sign : {sign}, text : TestTexts, nl : {TRUE}] :
           /\ MayFollow(l)
           /\ script' = Append(script, l)
    /\ Len(script) < IF file \in CodeFiles THEN MaxCodeLines ELSE MaxTestLines
    /\ UNCHANGED <<file, context>>

ScriptInit ==
    /\ file \in CodeFiles \cup TestFiles
    /\ context \in IF file = "tracked" THEN Contexts ELSE {0}
    /\ script = <<>>

ScriptSpec == ScriptInit /\ [][AddLine]_scriptVars

-----------------------------------------------------------------------------
(***************************************************************************)
(* The hunks of `git diff -U<c>`: changes that at most 2c unchanged lines  *)
(* part are in one hunk.  Each hunk is read alone.                         *)
(***************************************************************************)
Changes == {i \in DOMAIN script : script[i].sign # " "}

HunkStarts(c) == {i \in Changes : \A j \in Changes : j < i => i - j > 2 * c + 1}

HunkAt(c, i) ==
    LET end == Max({j \in Changes : \A k \in HunkStarts(c) : k > i => j < k})
    IN [from |-> Max({1, i - c}), to |-> Min({Len(script), end + c})]

Hunks(c) == {HunkAt(c, i) : i \in HunkStarts(c)}

HunkLines(h) == SubSeq(script, h.from, h.to)

(***************************************************************************)
(* +newStart,newCount of a header: a hunk with no new line names the line  *)
(* above it.                                                               *)
(***************************************************************************)
NewCount(h) == Len(SideOf(HunkLines(h), "-"))
NewStart(h) ==
    LET above == Len(SideOf(SubSeq(script, 1, h.from - 1), "-"))
    IN IF NewCount(h) = 0 THEN above ELSE above + 1

(***************************************************************************)
(* The function a header shows: the nearest top level line of the old file *)
(* above the hunk.                                                         *)
(***************************************************************************)
Label(h) ==
    LET at == Nearest(h.from, {j \in DOMAIN script :
                    script[j].sign # "+" /\ script[j].text \in TopLevel})
    IN IF at = 0 THEN NoTest ELSE script[at].text
=============================================================================
