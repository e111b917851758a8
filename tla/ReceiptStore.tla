---------------------------- MODULE ReceiptStore ----------------------------
(***************************************************************************)
(* Receipts: Save, privateDir and publish of internal/receipt/receipt.go,  *)
(* and what cmd/test-check does with a command's result around them.       *)
(*                                                                         *)
(* Commands run beside each other and share one directory of receipts,     *)
(* under a directory of the tool's own.  Each makes a directory with a     *)
(* random name in it and publishes two artifacts there: the diagnostics    *)
(* ("detail"), then the receipt.  An artifact is written to a temporary    *)
(* file, synced, and renamed.  A command may be killed at any point.       *)
(***************************************************************************)
EXTENDS Naturals

CONSTANTS
    Commands,       \* one process each
    Nobody,
    Names,          \* the names a command may draw, taken ones included
    Fails           \* the calls that may fail: "dir" (os.MkdirAll, OpenRoot,
                    \* rand.Read), "mkdir", "open" (OpenRoot of the new
                    \* directory), "create", "write" (Encode, Sync or Close),
                    \* "rename", "remove"

ASSUME ReceiptAssumption ==
    /\ Nobody \notin Commands
    /\ Fails \subseteq {"dir", "mkdir", "open", "create", "write", "rename", "remove"}

Artifacts == {"detail", "receipt"}
Levels == {"parent", "receipts"}

(***************************************************************************)
(* How a command ends, and the exit code that goes with it.                *)
(***************************************************************************)
Results == {"error", "unavailable", "advice", "proven", "not_proven"}
ExitOf(result) ==
    CASE result = "error" -> 1
      [] result = "unavailable" -> 3
      [] result = "not_proven" -> 4
      [] OTHER -> 0

VARIABLES
    place,          \* the two directories: absent, private or unsafe (open to
                    \* others, or a symlink)
    owner,          \* the command that made each directory of receipts
    tmp,            \* the temporary files: who writes them, torn or whole
    final,          \* the published files, likewise
    spc,            \* where each command is
    art,            \* the artifact it publishes
    name,           \* the directory it made
    result,         \* how the command ended
    status,         \* the receipt_status it reports
    exit            \* its exit code

diskVars == <<place, owner, tmp, final>>
commandVars == <<spc, art, name, result, status, exit>>
receiptVars == <<diskVars, commandVars>>

NoFile == [by |-> Nobody, whole |-> FALSE]
Whole(c) == [by |-> c, whole |-> TRUE]
Files == [by : Commands, whole : BOOLEAN] \cup {NoFile}
Empty == [a \in Artifacts |-> NoFile]

Publishing == {"create", "write", "rename"}
Saving == {"save", "parent", "receipts", "mkdir", "open", "clean", "report"}
            \cup Publishing
Gone == {"exited", "dead"}

ReceiptTypeOK ==
    /\ place \in [Levels -> {"absent", "private", "unsafe"}]
    /\ owner \in [Names -> Commands \cup {Nobody}]
    /\ tmp \in [Names -> [Artifacts -> Files]]
    /\ final \in [Names -> [Artifacts -> Files]]
    /\ spc \in [Commands -> {"run"} \cup Saving \cup Gone]
    /\ art \in [Commands -> Artifacts]
    /\ name \in [Commands -> Names \cup {Nobody}]
    /\ result \in [Commands -> Results]
    /\ status \in [Commands -> {"failed", "saved"}]
    /\ exit \in [Commands -> 0..4]

(***************************************************************************)
(* The tool's directories are there from earlier commands, or not yet, or  *)
(* somebody else made them.                                                *)
(***************************************************************************)
ReceiptInit ==
    /\ place \in [Levels -> {"absent", "private", "unsafe"}]
    /\ place["parent"] = "absent" => place["receipts"] = "absent"
    /\ owner = [n \in Names |-> Nobody]
    /\ tmp = [n \in Names |-> Empty]
    /\ final = [n \in Names |-> Empty]
    /\ spc = [c \in Commands |-> "run"]
    /\ art = [c \in Commands |-> "detail"]
    /\ name = [c \in Commands |-> Nobody]
    /\ result = [c \in Commands |-> "error"]
    /\ status = [c \in Commands |-> "failed"]
    /\ exit = [c \in Commands |-> 0]

Goto(c, to) == spc' = [spc EXCEPT ![c] = to]

-----------------------------------------------------------------------------
(* The command, and the checks of Save *)

Result(c, outcomes) ==
    /\ spc[c] = "run"
    /\ \E outcome \in outcomes : result' = [result EXCEPT ![c] = outcome]
    /\ Goto(c, "save")
    /\ UNCHANGED <<diskVars, art, name, status, exit>>

(***************************************************************************)
(* `test-check prove`: Run has returned, so the files are restored.  An    *)
(* error of Run is the outcome whatever the report says.  The rows, labels *)
(* and warnings of the record are left out.                                *)
(***************************************************************************)
ProofEnds(c) == Result(c, {"error", "proven", "not_proven"})

(***************************************************************************)
(* `test-check`: the change could not be read; there is no key, or no      *)
(* complete answer; or there is advice.                                    *)
(***************************************************************************)
AdviceEnds(c) == Result(c, {"error", "unavailable", "advice"})

(***************************************************************************)
(* The head of Save: no home directory, a path that does not resolve, or a *)
(* storage inside the checkout is an error before anything is touched.     *)
(***************************************************************************)
CheckStorage(c) ==
    /\ spc[c] = "save"
    /\ \E to \in {"parent", "report"} : Goto(c, to)
    /\ UNCHANGED <<diskVars, art, name, result, status, exit>>

\* A variant of PrivateDir: only a directory just made is looked at.
PrivateDirTrusting(c, level) ==
    /\ spc[c] = level
    /\ place' = [place EXCEPT ![level] = IF @ = "absent" THEN "private" ELSE @]
    /\ Goto(c, IF level = "parent" THEN "receipts" ELSE "mkdir")
    /\ UNCHANGED <<owner, tmp, final, art, name, result, status, exit>>

(***************************************************************************)
(* privateDir: os.MkdirAll, which leaves an existing directory alone, and  *)
(* then the look at what is there.                                         *)
(***************************************************************************)
PrivateDir(c, level) ==
    /\ spc[c] = level
    /\ \/ /\ place' = [place EXCEPT ![level] = IF @ = "absent" THEN "private" ELSE @]
          /\ Goto(c, IF place'[level] = "unsafe" THEN "report"
                     ELSE IF level = "parent" THEN "receipts" ELSE "mkdir")
       \/ /\ "dir" \in Fails
          /\ Goto(c, "report")
          /\ UNCHANGED place
    /\ UNCHANGED <<owner, tmp, final, art, name, result, status, exit>>

-----------------------------------------------------------------------------
(* Publishing *)

\* A variant of MakeDir: the deferred removal is in place before the Mkdir.
MakeDirDeferred(c) ==
    /\ spc[c] = "mkdir"
    /\ \E n \in Names :
         /\ name' = [name EXCEPT ![c] = n]
         /\ IF owner[n] = Nobody
            THEN owner' = [owner EXCEPT ![n] = c] /\ Goto(c, "open")
            ELSE UNCHANGED owner /\ Goto(c, "clean")
    /\ UNCHANGED <<place, tmp, final, art, result, status, exit>>

(***************************************************************************)
(* storage.Mkdir(name): a taken name is an error like any other, and only  *)
(* a directory this command made is removed later.                         *)
(***************************************************************************)
MakeDir(c) ==
    /\ spc[c] = "mkdir"
    /\ \/ \E n \in Names :
            /\ owner[n] = Nobody
            /\ owner' = [owner EXCEPT ![n] = c]
            /\ name' = [name EXCEPT ![c] = n]
            /\ Goto(c, "open")
       \/ /\ (\E n \in Names : owner[n] # Nobody) \/ "mkdir" \in Fails
          /\ Goto(c, "report")
          /\ UNCHANGED <<owner, name>>
    /\ UNCHANGED <<place, tmp, final, art, result, status, exit>>

OpenDir(c) ==
    /\ spc[c] = "open"
    /\ \/ Goto(c, "create")
       \/ "open" \in Fails /\ Goto(c, "clean")
    /\ UNCHANGED <<diskVars, art, name, result, status, exit>>

Tmp(c) == tmp[name[c]][art[c]]

(***************************************************************************)
(* publish: the exclusive create of the temporary file.                    *)
(***************************************************************************)
CreateTmp(c) ==
    /\ spc[c] = "create"
    /\ \/ /\ Tmp(c) = NoFile
          /\ tmp' = [tmp EXCEPT ![name[c]][art[c]] = [by |-> c, whole |-> FALSE]]
          /\ Goto(c, "write")
       \/ /\ Tmp(c) # NoFile \/ "create" \in Fails
          /\ Goto(c, "clean")
          /\ UNCHANGED tmp
    /\ UNCHANGED <<place, owner, final, art, name, result, status, exit>>

\* A variant of WriteTmp: the errors of Encode and Sync are overwritten by
\* that of Close.
WriteTmpUnchecked(c) ==
    /\ spc[c] = "write"
    /\ \/ tmp' = [tmp EXCEPT ![name[c]][art[c]] = [by |-> @.by, whole |-> TRUE]]
       \/ UNCHANGED tmp
    /\ Goto(c, "rename")
    /\ UNCHANGED <<place, owner, final, art, name, result, status, exit>>

(***************************************************************************)
(* Encode, Sync and Close: any error ends the publication.                 *)
(***************************************************************************)
WriteTmp(c) ==
    /\ spc[c] = "write"
    /\ \/ /\ tmp' = [tmp EXCEPT ![name[c]][art[c]] = [by |-> @.by, whole |-> TRUE]]
          /\ Goto(c, "rename")
       \/ /\ "write" \in Fails
          /\ Goto(c, "clean")
          /\ UNCHANGED tmp
    /\ UNCHANGED <<place, owner, final, art, name, result, status, exit>>

\* A variant of Rename: an error of the rename is taken for success.
RenameUnchecked(c) ==
    /\ spc[c] = "rename"
    /\ \/ /\ final' = [final EXCEPT ![name[c]][art[c]] = Tmp(c)]
          /\ tmp' = [tmp EXCEPT ![name[c]][art[c]] = NoFile]
       \/ UNCHANGED <<final, tmp>>
    /\ art' = [art EXCEPT ![c] = "receipt"]
    /\ Goto(c, IF art[c] = "detail" THEN "create" ELSE "report")
    /\ status' = [status EXCEPT ![c] = IF art[c] = "detail" THEN @ ELSE "saved"]
    /\ UNCHANGED <<place, owner, name, result, exit>>

(***************************************************************************)
(* The rename that publishes, and what Save does next: the receipt after   *)
(* the diagnostics, success after the receipt, removal after an error.     *)
(***************************************************************************)
Rename(c) ==
    /\ spc[c] = "rename"
    /\ \/ /\ final' = [final EXCEPT ![name[c]][art[c]] = Tmp(c)]
          /\ tmp' = [tmp EXCEPT ![name[c]][art[c]] = NoFile]
          /\ art' = [art EXCEPT ![c] = "receipt"]
          /\ Goto(c, IF art[c] = "detail" THEN "create" ELSE "report")
          /\ status' = [status EXCEPT ![c] = IF art[c] = "detail" THEN @ ELSE "saved"]
       \/ /\ "rename" \in Fails
          /\ Goto(c, "clean")
          /\ UNCHANGED <<final, tmp, art, status>>
    /\ UNCHANGED <<place, owner, name, result, exit>>

-----------------------------------------------------------------------------
(* The deferred removal after an error *)

(***************************************************************************)
(* storage.RemoveAll(name): one file after another, in any order, then the *)
(* directory.  Its error is ignored.                                       *)
(***************************************************************************)
RemoveFile(c) ==
    /\ spc[c] = "clean"
    /\ \E a \in Artifacts :
         \/ /\ tmp[name[c]][a] # NoFile
            /\ tmp' = [tmp EXCEPT ![name[c]][a] = NoFile]
            /\ UNCHANGED final
         \/ /\ final[name[c]][a] # NoFile
            /\ final' = [final EXCEPT ![name[c]][a] = NoFile]
            /\ UNCHANGED tmp
    /\ UNCHANGED <<place, owner, commandVars>>

RemoveDir(c) ==
    /\ spc[c] = "clean"
    /\ \/ /\ tmp[name[c]] = Empty /\ final[name[c]] = Empty
          /\ owner' = [owner EXCEPT ![name[c]] = Nobody]
       \/ /\ "remove" \in Fails
          /\ UNCHANGED owner
    /\ Goto(c, "report")
    /\ UNCHANGED <<place, tmp, final, art, name, result, status, exit>>

(***************************************************************************)
(* The command prints receipt_status and exits with the code of its result *)
(* whatever Save returned.                                                 *)
(***************************************************************************)
Report(c) ==
    /\ spc[c] = "report"
    /\ exit' = [exit EXCEPT ![c] = ExitOf(result[c])]
    /\ Goto(c, "exited")
    /\ UNCHANGED <<diskVars, art, name, result, status>>

Kill(c) ==
    /\ spc[c] \notin Gone
    /\ Goto(c, "dead")
    /\ UNCHANGED <<diskVars, art, name, result, status, exit>>

SaveStep(c) ==
    \/ CheckStorage(c) \/ \E level \in Levels : PrivateDir(c, level)
    \/ MakeDir(c) \/ OpenDir(c) \/ CreateTmp(c) \/ WriteTmp(c) \/ Rename(c)
    \/ RemoveFile(c) \/ RemoveDir(c) \/ Report(c)

AllGone == (\A c \in Commands : spc[c] \in Gone) /\ UNCHANGED receiptVars

ReceiptNext ==
    \/ \E c \in Commands : ProofEnds(c) \/ AdviceEnds(c) \/ SaveStep(c) \/ Kill(c)
    \/ AllGone

ReceiptSpec == ReceiptInit /\ [][ReceiptNext]_receiptVars

-----------------------------------------------------------------------------

Published(n) == final[n]["receipt"] # NoFile

(***************************************************************************)
(* receipt.json is "the completion marker": at every moment, kills and     *)
(* errors included, a receipt that can be read is whole, and so are the    *)
(* diagnostics beside it, and both are of the command that made the        *)
(* directory.                                                              *)
(***************************************************************************)
ReceiptIsComplete ==
    \A n \in Names : Published(n) =>
        \A a \in Artifacts : final[n][a] = Whole(owner[n])

(***************************************************************************)
(* receipt_status and the exit code tell the truth: "saved" exactly when   *)
(* the command's receipt is there for good, and the code is that of the    *)
(* result, saved or not.                                                   *)
(***************************************************************************)
ReportIsTrue ==
    \A c \in Commands : spc[c] = "exited" =>
        /\ exit[c] = ExitOf(result[c])
        /\ status[c] = "saved" <=>
             \E n \in Names : final[n]["receipt"] = Whole(c)

(***************************************************************************)
(* "Existing unsafe directories are refused, never chmodded": below one,   *)
(* no command ever makes anything, and it stays as it is.                  *)
(***************************************************************************)
UnsafeIsRefused ==
    /\ (\E level \in Levels : place[level] = "unsafe") =>
         \A n \in Names : owner[n] = Nobody
    /\ place["parent"] = "unsafe" => \A c \in Commands : spc[c] # "receipts"

\* The commands whose receipt can be read.
Entered == {final[n]["receipt"].by : n \in {m \in Names : Published(m)}}
Log == INSTANCE ReceiptLog WITH log <- Entered

(***************************************************************************)
(* The receipts implement the log: a receipt appears in one step, once for *)
(* a command, and nothing removes or replaces it.                          *)
(***************************************************************************)
StoreIsReceiptLog == Log!LogSpec
=============================================================================
