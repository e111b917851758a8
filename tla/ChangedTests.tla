---------------------------- MODULE ChangedTests ----------------------------
(***************************************************************************)
(* ChangedTestNames of internal/prove/prove.go: the tests that a change to *)
(* one test file adds or edits, read from a plain `git diff`.              *)
(***************************************************************************)
EXTENDS EditScript

Decl(text) == IF text \in Names THEN text ELSE NoTest

\* A variant of ReadLine: a context declaration counts as changed.
ReadLineContext(r, l) ==
    CASE l.text \in Names /\ l.sign = "-" -> [r EXCEPT !.current = NoTest]
      [] l.text \in Names ->
           [current |-> l.text, names |-> r.names \cup {l.text}]
      [] l.text \notin Names /\ l.sign # " " /\ l.text # "blank" ->
           [r EXCEPT !.names = @ \cup {r.current}]
      [] OTHER -> r

(***************************************************************************)
(* One line of a hunk: a declaration that is new or stays takes what       *)
(* follows, a removed one gives it up, and a changed line with something   *)
(* on it adds the test it is in.                                           *)
(***************************************************************************)
ReadLine(r, l) ==
    CASE l.text \in Names /\ l.sign = "+" ->
           [current |-> l.text, names |-> r.names \cup {l.text}]
      [] l.text \in Names /\ l.sign = "-" -> [r EXCEPT !.current = NoTest]
      [] l.text \in Names /\ l.sign = " " -> [r EXCEPT !.current = l.text]
      [] l.text \notin Names /\ l.sign # " " /\ l.text # "blank" ->
           [r EXCEPT !.names = @ \cup {r.current}]
      [] OTHER -> r

\* A variant of ReadHunk: the header's function is not read.
ReadHunkBare(h) ==
    FoldLeft(ReadLine, [current |-> NoTest, names |-> {}], HunkLines(h)).names

ReadHunk(h) ==
    FoldLeft(ReadLine, [current |-> Decl(Label(h)), names |-> {}], HunkLines(h)).names

Declared(side) == {side[i].text : i \in DOMAIN side} \cap Names

(***************************************************************************)
(* A tracked file's names are those of its hunks that the new file still   *)
(* declares; an untracked file is in no diff and gives all of its tests.   *)
(***************************************************************************)
ChangedTestNames ==
    IF file = "untracked" THEN Declared(NewVersion)
    ELSE Declared(NewVersion) \cap UNION {ReadHunk(h) : h \in Hunks(context)}

-----------------------------------------------------------------------------

(***************************************************************************)
(* The line above i, on the side without `gone`, that i belongs to: its    *)
(* nearest test declaration or, with Ends, the top level line that ended   *)
(* the test before.                                                        *)
(***************************************************************************)
Owner(i, gone, Ends) ==
    LET at == Nearest(i + 1, {j \in DOMAIN script :
                    script[j].sign # gone /\ script[j].text \in Names \cup Ends})
    IN IF at = 0 THEN NoTest ELSE Decl(script[at].text)

Touched == {i \in Changes : script[i].text # "blank"}

(***************************************************************************)
(* "an unchanged test merely preceding new ones is not selected", "Keep    *)
(* only tests still declared": a test that is listed is in the new file,   *)
(* and a line that came or went has its declaration nearest above it, on   *)
(* one side or the other.                                                  *)
(***************************************************************************)
NamesAreTouched ==
    file \in TestFiles =>
      \A name \in ChangedTestNames :
        /\ name \in Declared(NewVersion)
        /\ \E i \in Touched : name \in {Owner(i, "-", {}), Owner(i, "+", {})}

(***************************************************************************)
(* "the Go and Python test functions the change adds or edits": every new  *)
(* declaration is listed, and a line that came or went, and that belongs   *)
(* to the same test before and after the change, gets that test listed,    *)
(* wherever the hunks are cut.  Not so for a method, which no header       *)
(* shows: it is listed if its declaration is in the hunk of the line.      *)
(***************************************************************************)
EditedTestsAreListed ==
    file \in TestFiles =>
      LET listed == ChangedTestNames
          shown(name, i) ==
            \/ name \notin Methods
            \/ \E h \in Hunks(context) :
                 i \in h.from .. h.to /\ \E j \in h.from .. i :
                   script[j].text = name /\ script[j].sign # "-"
      IN /\ Declared(NewVersion) \ Declared(OldVersion) \subseteq listed
         /\ \A i \in Touched :
              LET name == Owner(i, "-", {"top"})
              IN /\ name = Owner(i, "+", {"top"})
                 /\ name \in Names /\ shown(name, i)
                 => name \in listed
=============================================================================
