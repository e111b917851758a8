----------------------------- MODULE CodePieces -----------------------------
(***************************************************************************)
(* codePieces and fileHunks of internal/prove/pieces.go: the change to one *)
(* code file, cut into the pieces that `prove --pieces` undoes one by one. *)
(***************************************************************************)
EXTENDS EditScript

CONSTANTS
    Absent,         \* what undoing an added file leaves
    Outside         \* the error of a hunk that does not fit the file

(***************************************************************************)
(* What is printed of a hunk: a line without its newline is followed by    *)
(* the "\ No newline" marker.                                              *)
(***************************************************************************)
NoNewline == [sign |-> "\\", text |-> "comment", nl |-> TRUE]
Printed(lines) == FlattenSeq([i \in DOMAIN lines |->
    IF lines[i].nl THEN <<lines[i]>> ELSE <<lines[i], NoNewline>>])

CommentOnly(text) == text = "comment"

(***************************************************************************)
(* The removed lines; the marker after one takes its newline away.         *)
(***************************************************************************)
Marked(body, i) == i < Len(body) /\ body[i + 1].sign = "\\"
OldLines(body) ==
    FlattenSeq([i \in DOMAIN body |->
        IF body[i].sign # "-" THEN <<>>
        ELSE <<[text |-> body[i].text, nl |-> ~Marked(body, i)]>>])

\* A variant of Behavioral: only new lines can carry behaviour.
BehavioralNew(body) ==
    \E i \in DOMAIN body : body[i].sign = "+" /\ ~CommentOnly(body[i].text)

Behavioral(body) ==
    \E i \in DOMAIN body : body[i].sign # "\\" /\ ~CommentOnly(body[i].text)

\* A variant of SpliceAt: a hunk without new lines is not told apart.
SpliceAtStart(start, count) == start - 1

SpliceAt(start, count) == IF count = 0 THEN start ELSE start - 1

(***************************************************************************)
(* The current content with one hunk undone.                               *)
(***************************************************************************)
Revert(h) ==
    LET at == SpliceAt(NewStart(h), NewCount(h))
        end == at + NewCount(h)
    IN IF at < 0 \/ end > Len(NewVersion) THEN Outside
       ELSE SubSeq(NewVersion, 1, at) \o OldLines(Printed(HunkLines(h)))
              \o SubSeq(NewVersion, end + 1, Len(NewVersion))

FileHunks ==
    {[line |-> NewStart(h), lines |-> NewCount(h), revert |-> Revert(h)] :
       h \in {h \in Hunks(0) : Behavioral(Printed(HunkLines(h)))}}

(***************************************************************************)
(* A file that the change added or deleted is one piece, a symbolic link   *)
(* none.                                                                   *)
(***************************************************************************)
Pieces ==
    CASE file = "added" ->
           {[line |-> 0, revert |-> Absent,
             lines |-> Cardinality({i \in DOMAIN NewVersion : NewVersion[i].nl})]}
      [] file = "deleted" -> {[line |-> 0, lines |-> 0, revert |-> OldVersion]}
      [] file = "edited" -> FileHunks
      [] OTHER -> {}

-----------------------------------------------------------------------------

(***************************************************************************)
(* The script with the change of one hunk taken back, and its new side.    *)
(***************************************************************************)
Undone(h) ==
    Version(SideOf(
        [i \in DOMAIN script |->
           IF i \in h.from .. h.to
           THEN [script[i] EXCEPT !.sign = IF @ = "+" THEN "-" ELSE " "]
           ELSE script[i]],
        "-"))

(***************************************************************************)
(* "builds, for each behavioral hunk, the current content with only that   *)
(* hunk undone": what a piece writes is the new file with one hunk of the  *)
(* change taken back, its lines and newlines as they were in the base, and *)
(* every other line as it is; the lines it names are that hunk's.          *)
(***************************************************************************)
UndoesOnePiece ==
    /\ file = "edited" =>
         \A p \in Pieces : \E h \in Hunks(0) :
           /\ p.revert = Undone(h)
           /\ p.lines > 0 => SubSeq(NewVersion, p.line, p.line + p.lines - 1)
                               = Version(SideOf(HunkLines(h), "-"))
    /\ file \in {"added", "deleted"} =>
         {p.revert : p \in Pieces} = {IF file = "added" THEN Absent ELSE OldVersion}

(***************************************************************************)
(* "every piece must turn some test red": no line that does something is   *)
(* left out of the pieces, in whichever hunk and on whichever side it is.  *)
(***************************************************************************)
PiecesCoverTheCode ==
    file = "edited" =>
      \A i \in Changes : ~CommentOnly(script[i].text) =>
        \E p \in Pieces, h \in Hunks(0) :
          i \in h.from .. h.to /\ p.revert = Undone(h)
=============================================================================
