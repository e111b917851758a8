--------------------------- MODULE ReceiptProofs ---------------------------
(***************************************************************************)
(* Theorems about ReceiptStore, for any number of commands and names and   *)
(* any failing calls.                                                      *)
(***************************************************************************)
EXTENDS ReceiptStore, TLAPS

Before == {"run", "save", "parent", "receipts", "mkdir"}
Inside == {"open", "clean"} \cup Publishing

(***************************************************************************)
(* The inductive invariant.  A name nobody owns has no files; a command    *)
(* that publishes owns its directory, has no receipt anywhere, and has     *)
(* published its diagnostics before it turns to the receipt; its temporary *)
(* file is its own, and whole when it is renamed; what a command will      *)
(* report is so.                                                           *)
(***************************************************************************)
FreeNamesAreEmpty ==
    \A n \in Names : owner[n] = Nobody => tmp[n] = Empty /\ final[n] = Empty

OwnDir ==
    \A c \in Commands : spc[c] \in Inside => name[c] \in Names /\ owner[name[c]] = c

NotYet ==
    \A c \in Commands : spc[c] \in Before \cup Inside =>
        status[c] = "failed" /\ \A n \in Names : Published(n) => owner[n] # c

DetailFirst ==
    \A c \in Commands :
        /\ spc[c] \in Before \cup {"open"} => art[c] = "detail"
        /\ spc[c] \in Publishing /\ art[c] = "receipt"
             => final[name[c]]["detail"] = Whole(c)

TmpIsOwn ==
    \A c \in Commands :
        /\ spc[c] = "write" => Tmp(c).by = c
        /\ spc[c] = "rename" => Tmp(c) = Whole(c)

Told ==
    \A c \in Commands : spc[c] \in {"report", "exited"} =>
        (status[c] = "saved" <=>
           \E n \in Names : final[n]["receipt"] = Whole(c))

ExitIsRight ==
    \A c \in Commands : spc[c] = "exited" => exit[c] = ExitOf(result[c])

ReceiptInv ==
    /\ ReceiptTypeOK
    /\ FreeNamesAreEmpty
    /\ ReceiptIsComplete
    /\ OwnDir
    /\ NotYet
    /\ DetailFirst
    /\ TmpIsOwn
    /\ Told
    /\ ExitIsRight

LEMMA InitInv == ReceiptInit => ReceiptInv
  BY ReceiptAssumption
  DEF ReceiptInit, ReceiptInv, ReceiptTypeOK, FreeNamesAreEmpty,
      ReceiptIsComplete, OwnDir, NotYet, DetailFirst, TmpIsOwn, Told,
      ExitIsRight, Published, Levels, Artifacts, Files, NoFile, Empty, Saving,
      Publishing, Gone, Results, Inside, Before, Whole

(***************************************************************************)
(* A readable receipt is that of the command that owns its directory.      *)
(***************************************************************************)
LEMMA OwnerOfReceipt ==
  ASSUME ReceiptIsComplete, NEW n \in Names, NEW c \in Commands,
         final[n]["receipt"] = Whole(c)
  PROVE  Published(n) /\ owner[n] = c
<1>1. Whole(c).whole # NoFile.whole
  BY DEF Whole, NoFile
<1>2. Published(n)
  BY <1>1 DEF Published
<1>3. final[n]["receipt"] = Whole(owner[n])
  BY <1>2 DEF ReceiptIsComplete, Artifacts, Whole
<1>4. Whole(c).by = c /\ Whole(owner[n]).by = owner[n]
  BY DEF Whole
<1> QED
  BY <1>2, <1>3, <1>4

LEMMA NoReceiptYet ==
  ASSUME ReceiptIsComplete, NotYet, NEW c \in Commands, spc[c] \in Before \cup Inside
  PROVE  status[c] = "failed" /\ \A n \in Names : final[n]["receipt"] # Whole(c)
BY OwnerOfReceipt DEF NotYet

LEMMA ExitCodes == \A outcome : ExitOf(outcome) \in 0..4
BY DEF ExitOf

(***************************************************************************)
(* The places a command moves between without touching a name, its files   *)
(* or its locals.                                                          *)
(***************************************************************************)
QuietMoves ==
    {<<"run", "save">>, <<"save", "parent">>, <<"save", "report">>,
     <<"parent", "receipts">>, <<"parent", "report">>,
     <<"receipts", "mkdir">>, <<"receipts", "report">>,
     <<"open", "create">>, <<"open", "clean">>, <<"report", "exited">>}

LEMMA QuietMove ==
  ASSUME ReceiptTypeOK, NEW c \in Commands,
         \/ ProofEnds(c) \/ AdviceEnds(c) \/ CheckStorage(c)
         \/ \E level \in Levels : PrivateDir(c, level)
         \/ OpenDir(c) \/ Report(c) \/ Kill(c)
  PROVE  /\ \E to : /\ spc' = [spc EXCEPT ![c] = to]
                    /\ <<spc[c], to>> \in QuietMoves \/ to = "dead"
                    /\ spc[c] = "report" /\ to = "exited" =>
                         exit' = [exit EXCEPT ![c] = ExitOf(result[c])]
                    /\ ~(spc[c] = "report" /\ to = "exited") => UNCHANGED exit
         /\ UNCHANGED <<owner, tmp, final, art, name, status>>
         /\ place' \in [Levels -> {"absent", "private", "unsafe"}]
         /\ result' \in [Commands -> Results]
         /\ spc[c] # "run" => UNCHANGED result
         /\ \A d \in Commands \ {c} : result'[d] = result[d]
<1> USE DEF QuietMoves, diskVars, ReceiptTypeOK
<1>1. CASE ProofEnds(c) \/ AdviceEnds(c)
  BY <1>1 DEF ProofEnds, AdviceEnds, Result, Results, Goto
<1>2. CASE CheckStorage(c)
  BY <1>2 DEF CheckStorage, Goto
<1>3. CASE \E level \in Levels : PrivateDir(c, level)
  <2>1. PICK level \in Levels : PrivateDir(c, level)
    BY <1>3
  <2>2. CASE "dir" \in Fails /\ Goto(c, "report") /\ UNCHANGED place
    BY <2>1, <2>2 DEF PrivateDir, Levels, Goto
  <2>3. CASE place' = [place EXCEPT ![level] = IF @ = "absent" THEN "private" ELSE @]
    BY <2>1, <2>3 DEF PrivateDir, Levels, Goto
  <2> QED
    BY <2>1, <2>2, <2>3 DEF PrivateDir
<1>4. CASE OpenDir(c) \/ Report(c) \/ Kill(c)
  BY <1>4 DEF OpenDir, Report, Kill, Goto
<1> QED
  BY <1>1, <1>2, <1>3, <1>4

(***************************************************************************)
(* The invariant does not depend on the directories above the names, so a  *)
(* step that leaves names, files and locals alone keeps it if the command  *)
(* moves to a place of which the invariant asks no more.                   *)
(***************************************************************************)
LEMMA QuietStep ==
  ASSUME ReceiptInv, NEW c \in Commands,
         \/ ProofEnds(c) \/ AdviceEnds(c) \/ CheckStorage(c)
         \/ \E level \in Levels : PrivateDir(c, level)
         \/ OpenDir(c) \/ Report(c) \/ Kill(c)
  PROVE  ReceiptInv'
<1>0. PICK to : /\ spc' = [spc EXCEPT ![c] = to]
                /\ <<spc[c], to>> \in QuietMoves \/ to = "dead"
                /\ spc[c] = "report" /\ to = "exited" =>
                     exit' = [exit EXCEPT ![c] = ExitOf(result[c])]
                /\ ~(spc[c] = "report" /\ to = "exited") => UNCHANGED exit
  BY QuietMove DEF ReceiptInv
<1> DEFINE Rest == /\ place' \in [Levels -> {"absent", "private", "unsafe"}]
                   /\ result' \in [Commands -> Results]
                   /\ spc[c] # "run" => UNCHANGED result
                   /\ \A d \in Commands \ {c} : result'[d] = result[d]
<1>a. UNCHANGED <<owner, tmp, final, art, name, status>> /\ Rest
  BY QuietMove DEF ReceiptInv
<1> USE DEF ReceiptInv, Saving, Publishing, Gone, Inside, Before, QuietMoves
<1>1. ReceiptTypeOK'
  <2>1. spc' \in [Commands -> {"run"} \cup Saving \cup Gone]
    BY <1>0 DEF ReceiptTypeOK
  <2>2. exit' \in [Commands -> 0..4]
    BY <1>0, ExitCodes DEF ReceiptTypeOK
  <2> QED
    BY <1>a, <2>1, <2>2 DEF ReceiptTypeOK
<1>3. FreeNamesAreEmpty' /\ ReceiptIsComplete'
  BY <1>a DEF FreeNamesAreEmpty, ReceiptIsComplete, Published
<1>4. OwnDir'
  BY <1>0, <1>a DEF ReceiptTypeOK, OwnDir
<1>5. NotYet'
  BY <1>0, <1>a DEF ReceiptTypeOK, NotYet, Published
<1>6. DetailFirst'
  BY <1>0, <1>a DEF ReceiptTypeOK, DetailFirst
<1>7. TmpIsOwn'
  BY <1>0, <1>a DEF ReceiptTypeOK, TmpIsOwn, Tmp
<1>8. Told'
  BY <1>0, <1>a, NoReceiptYet DEF ReceiptTypeOK, Told
<1>9. ExitIsRight'
  <2>1. ASSUME NEW d \in Commands, spc'[d] = "exited"
        PROVE  exit'[d] = ExitOf(result'[d])
    <3>1. CASE d = c
      <4>1. spc[c] = "report" /\ to = "exited"
        BY <1>0, <2>1, <3>1 DEF ReceiptTypeOK
      <4> QED
        BY <1>0, <1>a, <3>1, <4>1 DEF ReceiptTypeOK
    <3>2. CASE d # c
      <4>1. spc[d] = "exited" /\ exit'[d] = exit[d]
        BY <1>0, <2>1, <3>2 DEF ReceiptTypeOK
      <4> QED
        BY <1>a, <3>2, <4>1 DEF ExitIsRight
    <3> QED
      BY <3>1, <3>2
  <2> QED
    BY <2>1 DEF ExitIsRight
<1> QED
  BY <1>1, <1>3, <1>4, <1>5, <1>6, <1>7, <1>8, <1>9

LEMMA MakeDirStep ==
  ASSUME ReceiptInv, NEW c \in Commands, MakeDir(c)
  PROVE  ReceiptInv'
<1> USE DEF ReceiptInv, Goto, Saving, Publishing, Gone, Inside, Before
<1>1. CASE spc' = [spc EXCEPT ![c] = "report"] /\ UNCHANGED <<owner, name>>
  <2>1. UNCHANGED <<place, owner, tmp, final, art, name, result, status, exit>>
    BY <1>1 DEF MakeDir
  <2>2. spc[c] = "mkdir"
    BY DEF MakeDir
  <2>3. ReceiptTypeOK' /\ FreeNamesAreEmpty' /\ ReceiptIsComplete'
    BY <1>1, <2>1 DEF ReceiptTypeOK, FreeNamesAreEmpty, ReceiptIsComplete, Published
  <2>4. OwnDir' /\ NotYet' /\ DetailFirst' /\ TmpIsOwn' /\ ExitIsRight'
    BY <1>1, <2>1, <2>2
    DEF ReceiptTypeOK, OwnDir, NotYet, DetailFirst, TmpIsOwn, Tmp, ExitIsRight,
        Published
  <2>5. Told'
    BY <1>1, <2>1, <2>2, NoReceiptYet DEF ReceiptTypeOK, Told
  <2> QED
    BY <2>3, <2>4, <2>5
<1>2. ASSUME NEW n \in Names, owner[n] = Nobody,
             owner' = [owner EXCEPT ![n] = c],
             name' = [name EXCEPT ![c] = n],
             spc' = [spc EXCEPT ![c] = "open"]
      PROVE  ReceiptInv'
  <2>1. UNCHANGED <<place, tmp, final, art, result, status, exit>>
    BY DEF MakeDir
  <2>2. spc[c] = "mkdir"
    BY DEF MakeDir
  <2>3. tmp[n] = Empty /\ final[n] = Empty /\ ~Published(n)
    BY <1>2 DEF FreeNamesAreEmpty, Published, Empty, Artifacts
  <2>4. ReceiptTypeOK'
    BY <1>2, <2>1 DEF ReceiptTypeOK
  <2>5. FreeNamesAreEmpty'
    BY <1>2, <2>1, ReceiptAssumption DEF ReceiptTypeOK, FreeNamesAreEmpty
  <2>6. ReceiptIsComplete'
    BY <1>2, <2>1, <2>3 DEF ReceiptTypeOK, ReceiptIsComplete, Published
  <2>7. OwnDir'
    BY <1>2, <2>1, ReceiptAssumption DEF ReceiptTypeOK, OwnDir
  <2>8. NotYet'
    BY <1>2, <2>1, <2>2, <2>3 DEF ReceiptTypeOK, NotYet, Published
  <2>9. DetailFirst' /\ TmpIsOwn'
    BY <1>2, <2>1, <2>2 DEF ReceiptTypeOK, DetailFirst, TmpIsOwn, Tmp
  <2>10. Told' /\ ExitIsRight'
    BY <1>2, <2>1, <2>2 DEF ReceiptTypeOK, Told, ExitIsRight
  <2> QED
    BY <2>4, <2>5, <2>6, <2>7, <2>8, <2>9, <2>10
<1> QED
  BY <1>1, <1>2 DEF MakeDir

(***************************************************************************)
(* The files of a directory are touched only by its owner, who has no      *)
(* receipt in it yet.                                                      *)
(***************************************************************************)
LEMMA InsideFacts ==
  ASSUME ReceiptInv, NEW c \in Commands, spc[c] \in Inside
  PROVE  /\ name[c] \in Names
         /\ owner[name[c]] = c
         /\ c # Nobody
         /\ ~Published(name[c])
         /\ final[name[c]]["receipt"] = NoFile
         /\ \A d \in Commands \ {c} : spc[d] \in Inside => name[d] # name[c]
         /\ \A d \in Commands : final[name[c]]["receipt"] # Whole(d)
<1>1. name[c] \in Names /\ owner[name[c]] = c
  BY DEF ReceiptInv, OwnDir
<1>2. ~Published(name[c])
  BY <1>1 DEF ReceiptInv, NotYet
<1>3. final[name[c]]["receipt"] = NoFile
  BY <1>2 DEF Published
<1>4. \A d \in Commands : Whole(d).whole # NoFile.whole
  BY DEF Whole, NoFile
<1> QED
  BY <1>1, <1>2, <1>3, <1>4, ReceiptAssumption DEF ReceiptInv, OwnDir

LEMMA FileChange ==
  ASSUME NEW files \in [Names -> [Artifacts -> Files]], NEW n \in Names,
         NEW a \in Artifacts, NEW f \in Files
  PROVE  [files EXCEPT ![n][a] = f] \in [Names -> [Artifacts -> Files]]
OBVIOUS

LEMMA TmpStep ==
  ASSUME ReceiptInv, NEW c \in Commands, CreateTmp(c) \/ WriteTmp(c)
  PROVE  ReceiptInv'
<1> USE DEF ReceiptInv, Goto, Saving, Publishing, Gone, Inside, Before
<1>1. PICK to \in {"write", "rename", "clean"} : spc' = [spc EXCEPT ![c] = to]
  BY DEF CreateTmp, WriteTmp
<1>2. UNCHANGED <<place, owner, final, art, name, result, status, exit>>
  BY DEF CreateTmp, WriteTmp
<1>3. spc[c] \in {"create", "write"}
  BY DEF CreateTmp, WriteTmp
<1>4. /\ name[c] \in Names
      /\ owner[name[c]] = c
      /\ c # Nobody
      /\ \A d \in Commands \ {c} : spc[d] \in Inside => name[d] # name[c]
  BY <1>3, InsideFacts
<1>5. PICK f \in Files :
         /\ tmp' = [tmp EXCEPT ![name[c]][art[c]] = f] \/ (to = "clean" /\ tmp' = tmp)
         /\ to = "write" => f.by = c
         /\ to = "rename" => f = Whole(c)
  <2>1. Tmp(c) \in Files
    BY <1>4 DEF ReceiptTypeOK, Tmp
  <2>2. CASE UNCHANGED tmp /\ to = "clean"
    BY <1>4, <2>1, <2>2 DEF ReceiptTypeOK, Tmp
  <2>3. CASE CreateTmp(c) /\ to = "write"
    <3> DEFINE torn == [by |-> c, whole |-> FALSE]
    <3>1. tmp' = [tmp EXCEPT ![name[c]][art[c]] = torn]
      BY <1>1, <2>3 DEF CreateTmp, ReceiptTypeOK
    <3>2. torn \in Files /\ torn.by = c
      BY DEF Files
    <3>3. to # "rename"
      BY <2>3
    <3> QED
      BY <3>1, <3>2, <3>3
  <2>4. CASE WriteTmp(c) /\ to = "rename"
    <3>1. Tmp(c).by = c
      BY <2>4 DEF WriteTmp, TmpIsOwn
    <3>2. tmp' = [tmp EXCEPT ![name[c]][art[c]] = [by |-> Tmp(c).by, whole |-> TRUE]]
      BY <1>1, <2>4 DEF WriteTmp, ReceiptTypeOK, Tmp
    <3>3. tmp' = [tmp EXCEPT ![name[c]][art[c]] = Whole(c)]
      BY <3>1, <3>2 DEF Whole
    <3>4. Whole(c) \in Files
      BY DEF Whole, Files
    <3>5. to # "write" /\ to # "clean"
      BY <2>4
    <3> QED
      BY <3>3, <3>4, <3>5
  <2> QED
    BY <1>1, <2>2, <2>3, <2>4 DEF CreateTmp, WriteTmp, ReceiptTypeOK
<1>6. ReceiptTypeOK'
  <2>1. tmp' \in [Names -> [Artifacts -> Files]]
    <3>1. tmp \in [Names -> [Artifacts -> Files]] /\ art[c] \in Artifacts
      BY DEF ReceiptTypeOK
    <3>2. [tmp EXCEPT ![name[c]][art[c]] = f] \in [Names -> [Artifacts -> Files]]
      BY <1>4, <3>1, FileChange
    <3> QED
      BY <1>5, <3>1, <3>2
  <2>2. spc' \in [Commands -> {"run"} \cup Saving \cup Gone]
    BY <1>1 DEF ReceiptTypeOK
  <2> QED
    BY <1>2, <2>1, <2>2 DEF ReceiptTypeOK
<1>7. FreeNamesAreEmpty' /\ ReceiptIsComplete'
  BY <1>2, <1>4, <1>5 DEF ReceiptTypeOK, FreeNamesAreEmpty, ReceiptIsComplete,
                          Published
<1>8. OwnDir' /\ NotYet' /\ DetailFirst' /\ Told' /\ ExitIsRight'
  BY <1>1, <1>2, <1>3 DEF ReceiptTypeOK, OwnDir, NotYet, DetailFirst, Told,
                          ExitIsRight, Published
<1>9. TmpIsOwn'
  <2>1. ASSUME NEW d \in Commands \ {c}, spc'[d] \in {"write", "rename"}
        PROVE  spc[d] = spc'[d] /\ Tmp(d)' = Tmp(d)
    <3>1. spc[d] = spc'[d] /\ name[d] # name[c] /\ name[d] \in Names
      BY <1>1, <1>4, <2>1 DEF ReceiptTypeOK, OwnDir
    <3> QED
      BY <1>2, <1>4, <1>5, <3>1 DEF ReceiptTypeOK, Tmp
  <2>2. /\ spc'[c] = "write" => Tmp(c)'.by = c
        /\ spc'[c] = "rename" => Tmp(c)' = Whole(c)
    BY <1>1, <1>2, <1>4, <1>5 DEF ReceiptTypeOK, Tmp
  <2> QED
    BY <2>1, <2>2 DEF TmpIsOwn
<1> QED
  BY <1>6, <1>7, <1>8, <1>9

(***************************************************************************)
(* The rename: the diagnostics enter a directory without a receipt; the    *)
(* receipt enters one whose diagnostics are whole.                         *)
(***************************************************************************)
LEMMA RenameStep ==
  ASSUME ReceiptInv, NEW c \in Commands, Rename(c)
  PROVE  ReceiptInv'
<1> USE DEF ReceiptInv, Goto, Saving, Publishing, Gone, Inside, Before
<1>1. spc[c] = "rename" /\ UNCHANGED <<place, owner, name, result, exit>>
  BY DEF Rename
<1> DEFINE n == name[c]
<1>2. /\ n \in Names
      /\ owner[n] = c
      /\ c # Nobody
      /\ ~Published(n)
      /\ final[n]["receipt"] = NoFile
      /\ \A d \in Commands \ {c} : spc[d] \in Inside => name[d] # n
  BY <1>1, InsideFacts
<1>3. Tmp(c) = Whole(c) /\ Whole(c) \in Files /\ NoFile \in Files
  BY <1>1 DEF TmpIsOwn, Whole, Files
<1>4. art[c] \in Artifacts
  BY DEF ReceiptTypeOK
<1>5. CASE spc' = [spc EXCEPT ![c] = "clean"] /\ UNCHANGED <<final, tmp, art, status>>
  <2>1. ReceiptTypeOK' /\ FreeNamesAreEmpty' /\ ReceiptIsComplete'
    BY <1>1, <1>5 DEF ReceiptTypeOK, FreeNamesAreEmpty, ReceiptIsComplete, Published
  <2>2. OwnDir' /\ NotYet' /\ DetailFirst' /\ TmpIsOwn' /\ Told' /\ ExitIsRight'
    BY <1>1, <1>5
    DEF ReceiptTypeOK, OwnDir, NotYet, DetailFirst, TmpIsOwn, Tmp, Told,
        ExitIsRight, Published
  <2> QED
    BY <2>1, <2>2
<1>6. ASSUME final' = [final EXCEPT ![n][art[c]] = Tmp(c)],
             tmp' = [tmp EXCEPT ![n][art[c]] = NoFile],
             art' = [art EXCEPT ![c] = "receipt"],
             spc' = [spc EXCEPT ![c] = IF art[c] = "detail" THEN "create" ELSE "report"],
             status' = [status EXCEPT ![c] = IF art[c] = "detail" THEN @ ELSE "saved"]
      PROVE  ReceiptInv'
  <2>1. /\ final' \in [Names -> [Artifacts -> Files]]
        /\ tmp' \in [Names -> [Artifacts -> Files]]
    BY <1>2, <1>3, <1>4, <1>6, FileChange DEF ReceiptTypeOK
  <2>2. /\ \A m \in Names \ {n} : final'[m] = final[m] /\ tmp'[m] = tmp[m]
        /\ final'[n][art[c]] = Whole(c)
        /\ \A a \in Artifacts \ {art[c]} : final'[n][a] = final[n][a]
    BY <1>2, <1>3, <1>4, <1>6 DEF ReceiptTypeOK
  <2>3. \A m \in Names \ {n} : Published(m)' <=> Published(m)
    BY <2>2 DEF Published
  <2>4. ReceiptTypeOK'
    BY <1>1, <1>6, <2>1 DEF ReceiptTypeOK, Artifacts
  <2>5. FreeNamesAreEmpty'
    BY <1>1, <1>2, <2>2 DEF FreeNamesAreEmpty
  <2>6. OwnDir' /\ ExitIsRight'
    BY <1>1, <1>6 DEF ReceiptTypeOK, OwnDir, ExitIsRight
  <2>7. ASSUME NEW d \in Commands \ {c}
        PROVE  /\ spc'[d] = spc[d] /\ art'[d] = art[d] /\ name'[d] = name[d]
               /\ status'[d] = status[d]
               /\ \A m \in Names : final'[m]["receipt"] = Whole(d)
                                   <=> final[m]["receipt"] = Whole(d)
               /\ spc[d] \in Inside => final'[name[d]] = final[name[d]]
                                       /\ tmp'[name[d]] = tmp[name[d]]
               /\ \A m \in Names : Published(m)' /\ owner[m] = d => Published(m)
    <3>1. spc'[d] = spc[d] /\ art'[d] = art[d] /\ name'[d] = name[d]
          /\ status'[d] = status[d]
      BY <1>1, <1>6 DEF ReceiptTypeOK
    <3>2. Whole(d) # Whole(c) /\ Whole(d) # NoFile
      <4>1. /\ Whole(d).by = d /\ Whole(c).by = c
            /\ Whole(d).whole # NoFile.whole
        BY DEF Whole, NoFile
      <4> QED
        BY <4>1
    <3>3. final'[n]["receipt"] \in {Whole(c), NoFile} /\ final[n]["receipt"] = NoFile
      BY <1>2, <1>4, <2>2 DEF Artifacts
    <3>4. spc[d] \in Inside => name[d] \in Names \ {n}
      BY <1>2 DEF OwnDir
    <3> QED
      BY <1>2, <2>2, <2>3, <3>1, <3>2, <3>3, <3>4
  <2>8. CASE art[c] = "detail"
    <3>1. spc'[c] = "create" /\ status'[c] = status[c] /\ art'[c] = "receipt"
      BY <1>6, <2>8 DEF ReceiptTypeOK
    <3>2. /\ final'[n]["detail"] = Whole(c)
          /\ final'[n]["receipt"] = NoFile
          /\ ~Published(n)'
      BY <1>1, <1>2, <2>2, <2>8 DEF Artifacts, Published
    <3>3. ReceiptIsComplete'
      BY <1>1, <2>2, <2>3, <3>2 DEF ReceiptIsComplete
    <3>4. NotYet'
      BY <1>1, <2>3, <2>7, <3>1, <3>2 DEF NotYet
    <3>5. DetailFirst'
      BY <1>1, <2>7, <3>1, <3>2 DEF DetailFirst
    <3>6. TmpIsOwn'
      BY <1>1, <2>7, <3>1 DEF TmpIsOwn, Tmp
    <3>7. Told'
      BY <2>7, <3>1 DEF Told
    <3> QED
      BY <2>4, <2>5, <2>6, <3>3, <3>4, <3>5, <3>6, <3>7
  <2>9. CASE art[c] = "receipt"
    <3>1. spc'[c] = "report" /\ status'[c] = "saved" /\ art'[c] = "receipt"
      BY <1>6, <2>9 DEF ReceiptTypeOK
    <3>2. final[n]["detail"] = Whole(c)
      BY <1>1, <2>9 DEF DetailFirst
    <3>3. \A a \in Artifacts : final'[n][a] = Whole(c)
      BY <2>2, <2>9, <3>2 DEF Artifacts
    <3>4. ReceiptIsComplete'
      <4>1. ASSUME NEW m \in Names, Published(m)', NEW a \in Artifacts
            PROVE  final'[m][a] = Whole(owner'[m])
        <5>1. CASE m = n
          BY <1>1, <1>2, <3>3, <5>1
        <5>2. CASE m # n
          BY <1>1, <2>2, <2>3, <4>1, <5>2 DEF ReceiptIsComplete, Whole
        <5> QED
          BY <5>1, <5>2
      <4> QED
        BY <4>1 DEF ReceiptIsComplete, Whole
    <3>5. NotYet'
      BY <1>1, <2>3, <2>7, <3>1 DEF NotYet
    <3>6. DetailFirst' /\ TmpIsOwn'
      BY <1>1, <2>7, <3>1 DEF DetailFirst, TmpIsOwn, Tmp
    <3>7. Told'
      BY <1>2, <2>7, <3>1, <3>3 DEF Told, Artifacts
    <3> QED
      BY <2>4, <2>5, <2>6, <3>4, <3>5, <3>6, <3>7
  <2> QED
    BY <1>4, <2>8, <2>9 DEF Artifacts
<1> QED
  BY <1>5, <1>6 DEF Rename

(***************************************************************************)
(* The removal after an error: a directory without a receipt loses its     *)
(* files and then its owner.                                               *)
(***************************************************************************)
LEMMA RemoveFileStep ==
  ASSUME ReceiptInv, NEW c \in Commands, RemoveFile(c)
  PROVE  ReceiptInv'
<1> USE DEF ReceiptInv, Saving, Publishing, Gone, Inside, Before
<1>1. spc[c] = "clean" /\ UNCHANGED <<place, owner, spc, art, name, result, status, exit>>
  BY DEF RemoveFile, commandVars
<1> DEFINE n == name[c]
<1>2. /\ n \in Names
      /\ owner[n] = c
      /\ c # Nobody
      /\ final[n]["receipt"] = NoFile
      /\ \A d \in Commands \ {c} : spc[d] \in Inside => name[d] # n
  BY <1>1, InsideFacts
<1>3. /\ tmp \in [Names -> [Artifacts -> Files]]
      /\ final \in [Names -> [Artifacts -> Files]]
      /\ NoFile \in Files
  BY DEF ReceiptTypeOK, Files
<1>4. PICK a \in Artifacts :
         \/ tmp' = [tmp EXCEPT ![n][a] = NoFile] /\ UNCHANGED final
         \/ final' = [final EXCEPT ![n][a] = NoFile] /\ UNCHANGED tmp
  BY DEF RemoveFile
<1>5. /\ tmp' \in [Names -> [Artifacts -> Files]]
      /\ final' \in [Names -> [Artifacts -> Files]]
  <2>1. /\ [tmp EXCEPT ![n][a] = NoFile] \in [Names -> [Artifacts -> Files]]
        /\ [final EXCEPT ![n][a] = NoFile] \in [Names -> [Artifacts -> Files]]
    BY <1>2, <1>3, FileChange
  <2> QED
    BY <1>3, <1>4, <2>1
<1>6. /\ \A m \in Names \ {n} : tmp'[m] = tmp[m] /\ final'[m] = final[m]
      /\ final'[n]["receipt"] = NoFile
  BY <1>2, <1>3, <1>4 DEF Artifacts
<1>7. \A m \in Names : final'[m]["receipt"] = final[m]["receipt"]
  BY <1>2, <1>6
<1>8. ReceiptTypeOK'
  BY <1>1, <1>5 DEF ReceiptTypeOK
<1>9. FreeNamesAreEmpty'
  BY <1>1, <1>2, <1>6 DEF FreeNamesAreEmpty
<1>10. ReceiptIsComplete'
  <2>1. ASSUME NEW m \in Names, Published(m)'
        PROVE  final'[m] = final[m] /\ owner'[m] = owner[m] /\ Published(m)
    BY <1>1, <1>6, <1>7, <2>1 DEF Published
  <2> QED
    BY <2>1 DEF ReceiptIsComplete
<1>11. OwnDir' /\ ExitIsRight'
  BY <1>1 DEF OwnDir, ExitIsRight
<1>12. NotYet'
  BY <1>1, <1>7 DEF NotYet, Published
<1>13. ASSUME NEW d \in Commands, spc[d] \in Publishing
       PROVE  final'[name[d]] = final[name[d]] /\ tmp'[name[d]] = tmp[name[d]]
  BY <1>1, <1>2, <1>6, <1>13 DEF OwnDir
<1>14. DetailFirst' /\ TmpIsOwn'
  BY <1>1, <1>13 DEF DetailFirst, TmpIsOwn, Tmp
<1>15. Told'
  BY <1>1, <1>7 DEF Told
<1> QED
  BY <1>8, <1>9, <1>10, <1>11, <1>12, <1>14, <1>15

LEMMA RemoveDirStep ==
  ASSUME ReceiptInv, NEW c \in Commands, RemoveDir(c)
  PROVE  ReceiptInv'
<1> USE DEF ReceiptInv, Goto, Saving, Publishing, Gone, Inside, Before
<1>1. /\ spc[c] = "clean"
      /\ spc' = [spc EXCEPT ![c] = "report"]
      /\ UNCHANGED <<place, tmp, final, art, name, result, status, exit>>
  BY DEF RemoveDir
<1> DEFINE n == name[c]
<1>2. /\ n \in Names
      /\ ~Published(n)
      /\ \A d \in Commands \ {c} : spc[d] \in Inside => name[d] # n
  BY <1>1, InsideFacts
<1>3. \/ owner' = owner
      \/ /\ owner' = [owner EXCEPT ![n] = Nobody]
         /\ tmp[n] = Empty /\ final[n] = Empty
  BY DEF RemoveDir
<1>4. \A m \in Names \ {n} : owner'[m] = owner[m]
  BY <1>2, <1>3 DEF ReceiptTypeOK
<1>5. ReceiptTypeOK'
  BY <1>1, <1>3 DEF ReceiptTypeOK
<1>6. FreeNamesAreEmpty'
  BY <1>1, <1>3, <1>4 DEF FreeNamesAreEmpty
<1>7. ReceiptIsComplete' /\ NotYet'
  BY <1>1, <1>2, <1>4 DEF ReceiptTypeOK, ReceiptIsComplete, NotYet, Published
<1>8. OwnDir'
  BY <1>1, <1>2, <1>4 DEF ReceiptTypeOK, OwnDir
<1>9. DetailFirst' /\ TmpIsOwn' /\ ExitIsRight'
  BY <1>1 DEF ReceiptTypeOK, DetailFirst, TmpIsOwn, Tmp, ExitIsRight
<1>10. Told'
  BY <1>1, NoReceiptYet DEF ReceiptTypeOK, Told
<1> QED
  BY <1>5, <1>6, <1>7, <1>8, <1>9, <1>10

LEMMA StepInv == ReceiptInv /\ [ReceiptNext]_receiptVars => ReceiptInv'
<1> SUFFICES ASSUME ReceiptInv, [ReceiptNext]_receiptVars
             PROVE  ReceiptInv'
  OBVIOUS
<1>1. ASSUME NEW c \in Commands,
             ProofEnds(c) \/ AdviceEnds(c) \/ SaveStep(c) \/ Kill(c)
      PROVE  ReceiptInv'
  BY <1>1, QuietStep, MakeDirStep, TmpStep, RenameStep, RemoveFileStep, RemoveDirStep
     DEF SaveStep
<1>2. CASE UNCHANGED receiptVars
  BY <1>2
  DEF receiptVars, diskVars, commandVars, ReceiptInv, ReceiptTypeOK,
      FreeNamesAreEmpty, ReceiptIsComplete, OwnDir, NotYet, DetailFirst,
      TmpIsOwn, Tmp, Told, ExitIsRight, Published
<1> QED
  BY <1>1, <1>2 DEF ReceiptNext, AllGone

LEMMA Inductive == ReceiptSpec => []ReceiptInv
BY InitInv, StepInv, PTL DEF ReceiptSpec

(***************************************************************************)
(* Every variable keeps its type.                                          *)
(***************************************************************************)
THEOREM ReceiptTyped == ReceiptSpec => []ReceiptTypeOK
<1>1. ReceiptInv => ReceiptTypeOK
  BY DEF ReceiptInv
<1> QED
  BY <1>1, Inductive, PTL

(***************************************************************************)
(* "receipt.json ... the completion marker" (publish, internal/receipt): a *)
(* receipt that can be read is whole and has whole diagnostics beside it,  *)
(* whatever fails or is killed, and whoever runs beside.                   *)
(***************************************************************************)
THEOREM ReceiptsAreComplete == ReceiptSpec => []ReceiptIsComplete
<1>1. ReceiptInv => ReceiptIsComplete
  BY DEF ReceiptInv
<1> QED
  BY <1>1, Inductive, PTL

(***************************************************************************)
(* receipt_status says "saved" exactly when the receipt is there, and the  *)
(* exit code is that of the result, saved or not (cmd/test-check).         *)
(***************************************************************************)
THEOREM ReportsAreTrue == ReceiptSpec => []ReportIsTrue
<1>1. ReceiptInv => ReportIsTrue
  <2> SUFFICES ASSUME ReceiptInv, NEW c \in Commands, spc[c] = "exited"
               PROVE  /\ exit[c] = ExitOf(result[c])
                      /\ status[c] = "saved" <=> \E n \in Names :
                           final[n]["receipt"] = Whole(c)
    BY DEF ReportIsTrue
  <2>1. exit[c] = ExitOf(result[c])
    BY DEF ReceiptInv, ExitIsRight
  <2>2. status[c] = "saved" <=> \E n \in Names : final[n]["receipt"] = Whole(c)
    BY DEF ReceiptInv, Told
  <2> QED
    BY <2>1, <2>2
<1> QED
  BY <1>1, Inductive, PTL

-----------------------------------------------------------------------------

(***************************************************************************)
(* A command reaches a directory level only through private ones above it, *)
(* and a name is made only below two private directories, which stay so.   *)
(***************************************************************************)
PrivateAbove ==
    /\ \A c \in Commands : spc[c] = "receipts" => place["parent"] = "private"
    /\ \A c \in Commands : spc[c] = "mkdir" =>
         \A level \in Levels : place[level] = "private"
    /\ \A n \in Names : owner[n] # Nobody =>
         \A level \in Levels : place[level] = "private"

LEMMA PrivateAboveStep ==
    ReceiptTypeOK /\ PrivateAbove /\ [ReceiptNext]_receiptVars => PrivateAbove'
<1> SUFFICES ASSUME ReceiptTypeOK, PrivateAbove, [ReceiptNext]_receiptVars
             PROVE  PrivateAbove'
  OBVIOUS
<1> USE DEF ReceiptTypeOK, PrivateAbove, Levels
<1>1. ASSUME NEW c \in Commands, NEW level \in Levels, PrivateDir(c, level)
      PROVE  PrivateAbove'
  <2>1. \A l \in Levels : place[l] = "private" => place'[l] = "private"
    BY <1>1 DEF PrivateDir
  <2>2. /\ UNCHANGED owner /\ \A d \in Commands \ {c} : spc'[d] = spc[d]
        /\ spc'[c] \in {"receipts", "mkdir"} => place'[level] = "private"
        /\ spc'[c] = "receipts" => level = "parent"
        /\ spc'[c] = "mkdir" => level = "receipts" /\ spc[c] = "receipts"
    BY <1>1 DEF PrivateDir, Goto
  <2> QED
    BY <2>1, <2>2
<1>2. ASSUME NEW c \in Commands, MakeDir(c) PROVE PrivateAbove'
  BY <1>2 DEF MakeDir, Goto
<1>3. ASSUME NEW c \in Commands,
             \/ ProofEnds(c) \/ AdviceEnds(c) \/ CheckStorage(c) \/ OpenDir(c)
             \/ CreateTmp(c) \/ WriteTmp(c) \/ Rename(c) \/ RemoveFile(c)
             \/ RemoveDir(c) \/ Report(c) \/ Kill(c)
      PROVE  PrivateAbove'
  <2>1. /\ UNCHANGED place
        /\ \A d \in Commands : spc'[d] \in {"receipts", "mkdir"} => spc'[d] = spc[d]
    BY <1>3 DEF ProofEnds, AdviceEnds, Result, CheckStorage, OpenDir,
                CreateTmp, WriteTmp, Rename, RemoveFile, RemoveDir, Report,
                Kill, Goto, diskVars, commandVars
  <2>2. \A n \in Names : owner'[n] # Nobody => owner[n] # Nobody
    BY <1>3 DEF ProofEnds, AdviceEnds, Result, CheckStorage, OpenDir,
                CreateTmp, WriteTmp, Rename, RemoveFile, RemoveDir, Report,
                Kill, diskVars
  <2> QED
    BY <2>1, <2>2
<1>4. CASE AllGone \/ UNCHANGED receiptVars
  BY <1>4 DEF AllGone, receiptVars, diskVars, commandVars
<1> QED
  BY <1>1, <1>2, <1>3, <1>4 DEF ReceiptNext, SaveStep

(***************************************************************************)
(* "Existing unsafe directories are refused, never chmodded": no command,  *)
(* beside whatever others, makes a name below a directory that others can  *)
(* write to, or goes on below an unsafe parent.                            *)
(***************************************************************************)
THEOREM UnsafeStaysEmpty == ReceiptSpec => []UnsafeIsRefused
<1>1. ReceiptInit => PrivateAbove
  BY DEF ReceiptInit, PrivateAbove
<1>2. PrivateAbove => UnsafeIsRefused
  BY DEF PrivateAbove, UnsafeIsRefused, Levels
<1> QED
  BY <1>1, <1>2, PrivateAboveStep, ReceiptTyped, PTL DEF ReceiptSpec

-----------------------------------------------------------------------------
(* The receipts implement the log *)

LEMMA SameReceipts ==
  ASSUME \A n \in Names : final'[n]["receipt"] = final[n]["receipt"]
  PROVE  Entered' = Entered
BY DEF Entered, Published

(***************************************************************************)
(* Only the rename of a receipt changes what can be read.                  *)
(***************************************************************************)
LEMMA LogStep ==
  ASSUME ReceiptInv, [ReceiptNext]_receiptVars
  PROVE  [Log!LogNext]_Entered
<1> USE DEF Saving, Publishing, Gone, Inside, Before
<1>0. /\ final \in [Names -> [Artifacts -> Files]]
      /\ art \in [Commands -> Artifacts]
      /\ "receipt" \in Artifacts
  BY DEF ReceiptInv, ReceiptTypeOK, Artifacts
<1>1. CASE UNCHANGED final
  BY <1>1, SameReceipts
<1>2. ASSUME NEW c \in Commands, Rename(c), ~UNCHANGED final
      PROVE  [Log!LogNext]_Entered
  <2> DEFINE n == name[c]
  <2>1. spc[c] = "rename" /\ final' = [final EXCEPT ![n][art[c]] = Tmp(c)]
    BY <1>2 DEF Rename
  <2>2. /\ n \in Names
        /\ owner[n] = c
        /\ ~Published(n)
        /\ Tmp(c) = Whole(c)
    BY <2>1, InsideFacts DEF ReceiptInv, TmpIsOwn
  <2>3. \A m \in Names \ {n} : final'[m] = final[m]
    BY <1>0, <2>1, <2>2
  <2>4. CASE art[c] = "detail"
    <3>1. final'[n]["receipt"] = final[n]["receipt"]
      BY <1>0, <2>1, <2>2, <2>4
    <3> QED
      BY <2>3, <3>1, SameReceipts
  <2>5. CASE art[c] = "receipt"
    <3>1. final'[n]["receipt"] = Whole(c)
      BY <1>0, <2>1, <2>2, <2>5
    <3>2. Whole(c).by = c /\ Whole(c) # NoFile
      <4>1. Whole(c).by = c /\ Whole(c).whole # NoFile.whole
        BY DEF Whole, NoFile
      <4> QED
        BY <4>1
    <3>3. Entered' = Entered \cup {c}
      BY <2>2, <2>3, <3>1, <3>2 DEF Entered, Published
    <3>4. c \notin Entered
      <4>1. ASSUME NEW m \in Names, Published(m)
            PROVE  final[m]["receipt"].by # c
        <5>1. owner[m] # c
          BY <2>1, <4>1 DEF ReceiptInv, NotYet
        <5>2. final[m]["receipt"] = Whole(owner[m])
          BY <1>0, <4>1 DEF ReceiptInv, ReceiptIsComplete
        <5>3. Whole(owner[m]).by = owner[m]
          BY DEF Whole
        <5> QED
          BY <5>1, <5>2, <5>3
      <4> QED
        BY <4>1 DEF Entered
    <3> QED
      BY <3>3, <3>4 DEF Log!LogNext, Log!Enter
  <2> QED
    BY <1>0, <2>4, <2>5 DEF Artifacts
<1>3. ASSUME NEW c \in Commands, RemoveFile(c)
      PROVE  [Log!LogNext]_Entered
  <2> DEFINE n == name[c]
  <2>1. n \in Names /\ final[n]["receipt"] = NoFile
    BY <1>3, InsideFacts DEF RemoveFile
  <2>2. PICK a \in Artifacts :
           UNCHANGED final \/ final' = [final EXCEPT ![n][a] = NoFile]
    BY <1>3 DEF RemoveFile
  <2>3. \A m \in Names : final'[m]["receipt"] = final[m]["receipt"]
    BY <1>0, <2>1, <2>2
  <2> QED
    BY <2>3, SameReceipts
<1>4. ASSUME NEW c \in Commands,
             ProofEnds(c) \/ AdviceEnds(c) \/ SaveStep(c) \/ Kill(c),
             ~Rename(c), ~RemoveFile(c)
      PROVE  UNCHANGED final
  BY <1>4
  DEF ProofEnds, AdviceEnds, Result, SaveStep, CheckStorage, PrivateDir, MakeDir,
      OpenDir, CreateTmp, WriteTmp, RemoveDir, Report, Kill, diskVars
<1>5. CASE UNCHANGED receiptVars
  BY <1>1, <1>5 DEF receiptVars, diskVars
<1> QED
  BY <1>1, <1>2, <1>3, <1>4, <1>5 DEF ReceiptNext, AllGone

(***************************************************************************)
(* The directory of receipts is a log: a command's receipt appears in one  *)
(* step, at most once, and is never removed or replaced, by a later error  *)
(* of its command or by any other command.                                 *)
(***************************************************************************)
THEOREM StoreImplementsLog == ReceiptSpec => StoreIsReceiptLog
<1>1. ReceiptInit => Log!LogInit
  BY DEF ReceiptInit, Log!LogInit, Entered, Published, Empty, Artifacts
<1>2. ReceiptInv /\ [ReceiptNext]_receiptVars => [Log!LogNext]_Entered
  BY LogStep
<1> QED
  BY <1>1, <1>2, Inductive, PTL DEF ReceiptSpec, StoreIsReceiptLog, Log!LogSpec
=============================================================================
