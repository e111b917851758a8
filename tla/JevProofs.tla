----------------------------- MODULE JevProofs -----------------------------
(***************************************************************************)
(* Proofs about JevClient: for any number of calls that share one client,  *)
(* any settings and headers, and any width of a Duration.                  *)
(***************************************************************************)
EXTENDS JevClient, FiniteSetTheorems, TLAPS

KindsOfAnswers == {"ok", "forbidden", "forbidden, cut", "transient", "final"}

-----------------------------------------------------------------------------
(* Durations *)

LEMMA HalfPositive == Half \in Nat \ {0}
<1> DEFINE n == Width - 1
<1>1. n \in Nat
  BY JevAssumption
<1>2. IsFiniteSet(1..n) /\ Cardinality(1..n) = n
  BY <1>1, FS_Interval
<1>3. IsFiniteSet(SUBSET (1..n)) /\ Cardinality(SUBSET (1..n)) = 2^n
  BY <1>2, FS_SUBSET
<1>4. SUBSET (1..n) # {}
  OBVIOUS
<1>5. 2^n \in Nat /\ 2^n # 0
  BY <1>3, <1>4, FS_CardinalityType, FS_EmptySet
<1> QED
  BY <1>5 DEF Half

LEMMA WrapType == ASSUME NEW x \in Int PROVE Wrap(x) \in Int
BY HalfPositive DEF Wrap

(***************************************************************************)
(* A duration that fits is left as it is.                                  *)
(***************************************************************************)
LEMMA WrapFits == ASSUME NEW x \in Nat, x < Half PROVE Wrap(x) = x
<1> DEFINE H == Half
<1>1. H \in Nat \ {0}
  BY HalfPositive
<1> HIDE DEF H
<1>2. x < H => ((x + H) % (2 * H)) - H = x
  BY <1>1
<1> QED
  BY <1>2 DEF Wrap, H

(***************************************************************************)
(* The backoff is a pause of at most MaxBackoff, however far the shift     *)
(* overflows.                                                              *)
(***************************************************************************)
LEMMA BackoffRange == ASSUME NEW n \in Nat PROVE Backoff(n) \in 1..MaxBackoff
<1>1. BackoffBase * 2^n \in Int
  BY JevAssumption
<1>2. Wrap(BackoffBase * 2^n) \in Int
  BY <1>1, WrapType
<1> QED
  BY <1>2, JevAssumption DEF Backoff

LEMMA AnswerFields ==
    ASSUME NEW a \in Answers
    PROVE  /\ a.status \in {"ok", "forbidden", "busy", "refused", "none"}
           /\ a.body \in {"whole", "cut", "unusable"}
           /\ a.status = "none" => a.body = "cut"
           /\ a.after \in Int
           /\ a.after # 0 => a.status \in {"forbidden", "busy", "refused"}
<1>1. CASE a = NoResponse
  BY <1>1 DEF NoResponse
<1>2. CASE a \in [status : {"ok"}, body : Bodies, after : {0}]
  BY <1>2 DEF Bodies
<1>3. CASE a \in [status : {"forbidden", "busy", "refused"}, body : Bodies,
                  after : RetryAfters]
  BY <1>3, JevAssumption DEF Bodies
<1> QED
  BY <1>1, <1>2, <1>3 DEF Answers, Responses

LEMMA AskedType ==
    ASSUME NEW a \in Answers
    PROVE  Asked(a) \in Int
<1>1. a.after * Second \in Int
  BY AnswerFields, JevAssumption
<1> QED
  BY <1>1, WrapType DEF Asked, RetryAfter

LEMMA RetryWaitRange ==
    ASSUME NEW c \in Callers, NEW a \in Answers, attempts[c] \in Nat \ {0}
    PROVE  RetryWait(a, c) \in 1..MaxBackoff
<1> DEFINE asked == IF RetryForbidden(a, c) THEN ForbiddenWait ELSE Asked(a)
           wait == IF asked <= 0 THEN Backoff(attempts[c] - 1) ELSE asked
<1>1. asked \in Int
  BY AskedType, JevAssumption
<1>2. Backoff(attempts[c] - 1) \in 1..MaxBackoff
  BY BackoffRange
<1>3. wait \in Nat \ {0}
  BY <1>1, <1>2
<1>4. RetryWait(a, c) = Min(MaxBackoff, wait)
  BY DEF RetryWait
<1> HIDE DEF wait
<1> QED
  BY <1>3, <1>4, JevAssumption DEF Min

(***************************************************************************)
(* What the record calls an answer.                                        *)
(***************************************************************************)
LEMMA KindOf ==
    ASSUME NEW a \in Answers
    PROVE  /\ Kind(a) \in KindsOfAnswers
           /\ Good(a) <=> Kind(a) = "ok"
           /\ Kind(a) = "forbidden, cut" <=> a.status = "forbidden" /\ a.body = "cut"
           /\ Kind(a) = "forbidden" <=> a.status = "forbidden" /\ a.body # "cut"
           /\ Kind(a) = "transient" <=>
                \/ a.status = "busy" /\ a.body = "whole"
                \/ a.status # "forbidden" /\ a.body = "cut"
<1>1. CASE Good(a)
  <2>1. a.status = "ok" /\ a.body = "whole"
    BY <1>1 DEF Good
  <2>2. Kind(a) = "ok"
    BY <1>1, <2>1 DEF Kind
  <2> QED
    BY <1>1, <2>1, <2>2 DEF KindsOfAnswers
<1>2. CASE a.status = "forbidden" /\ a.body = "cut"
  <2>1. ~Good(a)
    BY <1>2 DEF Good
  <2>2. Kind(a) = "forbidden, cut"
    BY <1>2, <2>1 DEF Kind
  <2> QED
    BY <1>2, <2>1, <2>2 DEF KindsOfAnswers
<1>3. CASE a.status = "forbidden" /\ a.body # "cut"
  <2>1. ~Good(a)
    BY <1>3 DEF Good
  <2>2. Kind(a) = "forbidden"
    BY <1>3, <2>1 DEF Kind
  <2> QED
    BY <1>3, <2>1, <2>2 DEF KindsOfAnswers
<1>4. CASE \/ a.status = "busy" /\ a.body = "whole"
           \/ a.status # "forbidden" /\ a.body = "cut"
  <2>1. ~Good(a) /\ a.status # "forbidden"
    BY <1>4 DEF Good
  <2>2. Kind(a) = "transient"
    BY <1>4, <2>1 DEF Kind
  <2> QED
    BY <1>4, <2>1, <2>2 DEF KindsOfAnswers
<1>5. CASE /\ ~Good(a) /\ a.status # "forbidden"
           /\ ~(a.status = "busy" /\ a.body = "whole")
           /\ a.body # "cut"
  <2>1. Kind(a) = "final"
    BY <1>5 DEF Kind
  <2> QED
    BY <1>5, <2>1 DEF KindsOfAnswers
<1> QED
  BY <1>1, <1>2, <1>3, <1>4, <1>5

(***************************************************************************)
(* The pause is as long as the header of a readable answer asks for, and   *)
(* as that after a first 403.                                              *)
(***************************************************************************)
LEMMA WishType ==
    ASSUME NEW c \in Callers, NEW a \in Answers, now \in Nat
    PROVE  LeaveAlone(a) \in Nat /\ PauseOver(a, c) \in Nat
<1>1. a.after > 0 => a.after * Second \in Nat
  BY AnswerFields, JevAssumption
<1> QED
  BY <1>1, JevAssumption DEF LeaveAlone, PauseOver, Min

LEMMA WaitLeavesAlone ==
    ASSUME NEW c \in Callers, NEW a \in Answers, attempts[c] \in Nat \ {0},
           now \in Nat, forbiddenRetried[c] <=> Heard403(c)
    PROVE  /\ LeaveAlone(a) <= now + RetryWait(a, c)
           /\ PauseOver(a, c) <= now + RetryWait(a, c)
<1>0. RetryWait(a, c) \in 1..MaxBackoff
  BY RetryWaitRange
<1>1. PauseOver(a, c) <= now + RetryWait(a, c)
  <2>1. CASE Forbidden(Kind(a)) /\ ~Heard403(c)
    <3>1. RetryForbidden(a, c)
      BY <2>1, KindOf DEF Forbidden, RetryForbidden
    <3>2. RetryWait(a, c) = Min(MaxBackoff, ForbiddenWait)
      BY <3>1, JevAssumption DEF RetryWait
    <3> QED
      BY <2>1, <3>2, JevAssumption DEF PauseOver, Min
  <2>2. CASE ~(Forbidden(Kind(a)) /\ ~Heard403(c))
    BY <1>0, <2>2 DEF PauseOver
  <2> QED
    BY <2>1, <2>2
<1>2. CASE /\ a.status = "busy" /\ a.body = "whole"
           /\ a.after > 0 /\ a.after * Second < Half
  <2>1. LeaveAlone(a) = now + Min(a.after * Second, MaxBackoff)
    BY <1>2 DEF LeaveAlone
  <2>2. a.after \in Nat \ {0} /\ a.after * Second \in Nat \ {0}
    BY <1>2, AnswerFields, JevAssumption
  <2>3. Asked(a) = a.after * Second
    BY <1>2, <2>2, WrapFits DEF Asked, RetryAfter
  <2>4. ~RetryForbidden(a, c)
    BY <1>2 DEF RetryForbidden
  <2>5. RetryWait(a, c) = Min(MaxBackoff, a.after * Second)
    BY <2>2, <2>3, <2>4 DEF RetryWait
  <2>6. LeaveAlone(a) <= now + RetryWait(a, c)
    BY <2>1, <2>2, <2>5, JevAssumption DEF Min
  <2> QED
    BY <2>6, <1>1
<1>3. CASE ~(/\ a.status = "busy" /\ a.body = "whole"
             /\ a.after > 0 /\ a.after * Second < Half)
  <2>1. LeaveAlone(a) = 0
    BY <1>3 DEF LeaveAlone
  <2> QED
    BY <1>0, <1>1, <2>1
<1> QED
  BY <1>1, <1>2, <1>3

-----------------------------------------------------------------------------
(* The types *)

(***************************************************************************)
(* A call that may still send has an attempt left, and one under way has   *)
(* counted it; who does not sleep has nothing to wake for.                 *)
(***************************************************************************)
Stages ==
    \A c \in Callers :
        /\ jpc[c] \notin Over \cup {"call"} => attempts[c] < Attempts
        /\ jpc[c] = "call" => attempts[c] # 0
        /\ jpc[c] \notin Sleeping => wake[c] = 0

HistoryTyped ==
    /\ heard \in [Callers -> Seq(KindsOfAnswers)]
    /\ last \in [Callers -> KindsOfAnswers \cup {"nothing"}]
    /\ earliest \in [Callers -> Nat]
    /\ pauseEnds \in [Callers -> Nat]

JevTyped == JevTypeOK /\ HistoryTyped /\ Stages

LEMMA AttemptsType == Attempts \in Nat \ {0}
BY JevAssumption DEF Attempts, Max

LEMMA SlotType ==
    ASSUME now \in Nat \ {0}, lastRequest \in Nat
    PROVE  /\ Slot \in Nat /\ Slot >= now
           /\ lastRequest # 0 => Slot >= lastRequest + MinInterval
BY JevAssumption DEF Slot, Max

LEMMA JevTypedInit == JevInit => JevTyped
BY AttemptsType, JevAssumption
DEF JevInit, JevTyped, JevTypeOK, HistoryTyped, Stages, Sleeping, Over

LEMMA FinishTyped ==
    ASSUME JevTyped, NEW c \in Callers, NEW result \in Over, Finish(c, result),
           sent' \in Nat, last' \in [Callers -> KindsOfAnswers \cup {"nothing"}]
    PROVE  JevTyped'
<1> USE DEF JevTyped, JevTypeOK, HistoryTyped, Finish, Goto
<1>1. /\ UNCHANGED <<now, mu, lastRequest>>
      /\ jpc' = [jpc EXCEPT ![c] = result]
      /\ attempts' = [attempts EXCEPT ![c] = 0]
      /\ wake' = [wake EXCEPT ![c] = 0]
  OBVIOUS
<1>2. jpc' \in [Callers -> {"out", "pace", "slot", "send", "call"} \cup Sleeping \cup Over]
  BY <1>1
<1>3. wake' \in [Callers -> Nat] /\ attempts' \in [Callers -> 0..Attempts]
  BY <1>1, AttemptsType
<1>4. /\ forbiddenRetried' \in [Callers -> BOOLEAN]
      /\ cancelled' \in [Callers -> BOOLEAN]
  OBVIOUS
<1>5. JevTypeOK'
  BY <1>1, <1>2, <1>3, <1>4
<1>6. HistoryTyped'
  <2>1. heard' \in [Callers -> Seq(KindsOfAnswers)]
    OBVIOUS
  <2>2. earliest' \in [Callers -> Nat] /\ pauseEnds' \in [Callers -> Nat]
    OBVIOUS
  <2> QED
    BY <2>1, <2>2
<1>7. Stages'
  BY <1>1 DEF Stages, Over, Sleeping
<1> QED
  BY <1>5, <1>6, <1>7

LEMMA RetryEffect ==
    ASSUME JevTyped, NEW c \in Callers, Retry(c)
    PROVE  \E a \in Answers :
             /\ ~Good(a) /\ (Retryable(a, c) \/ RetryForbidden(a, c))
             /\ jpc[c] = "call" /\ attempts[c] \in Nat \ {0} /\ attempts[c] < Attempts
             /\ UNCHANGED <<now, mu, lastRequest, attempts, cancelled, sent, last>>
             /\ jpc' = [jpc EXCEPT ![c] = "backoff"]
             /\ wake' = [wake EXCEPT ![c] = now + RetryWait(a, c)]
             /\ forbiddenRetried' =
                  [forbiddenRetried EXCEPT ![c] = @ \/ RetryForbidden(a, c)]
             /\ earliest' = [earliest EXCEPT ![c] = LeaveAlone(a)]
             /\ pauseEnds' = [pauseEnds EXCEPT ![c] = PauseOver(a, c)]
             /\ heard' = [heard EXCEPT ![c] = Append(@, Kind(a))]
<1>1. attempts[c] \in Nat \ {0}
  BY AttemptsType DEF Retry, JevTyped, JevTypeOK, Stages
<1> QED
  BY <1>1 DEF Retry, Again, Goto

LEMMA JevTypedStep == JevTyped /\ [JevNext]_jevVars => JevTyped'
<1> SUFFICES ASSUME JevTyped, [JevNext]_jevVars PROVE JevTyped'
  OBVIOUS
<1> USE AttemptsType DEF JevTyped, JevTypeOK, HistoryTyped, Stages, Sleeping, Over
<1>1. ASSUME NEW c \in Callers, Evaluate(c) PROVE JevTyped'
  BY <1>1 DEF Evaluate, Goto, history
<1>2. ASSUME NEW c \in Callers, Lock(c) PROVE JevTyped'
  BY <1>2 DEF Lock, Goto, history
<1>3. ASSUME NEW c \in Callers, Pace(c) PROVE JevTyped'
  BY <1>3, SlotType DEF Pace, Goto, history
<1>4. ASSUME NEW c \in Callers, Wake(c) PROVE JevTyped'
  BY <1>4 DEF Wake, Goto, history
<1>5. ASSUME NEW c \in Callers, Interrupted(c) PROVE JevTyped'
  BY <1>5, FinishTyped DEF Interrupted
<1>6. ASSUME NEW c \in Callers, Send(c) PROVE JevTyped'
  <2>1. CASE cancelled[c]
    <3>1. Finish(c, "stopped") /\ UNCHANGED <<sent, last>>
      BY <1>6, <2>1 DEF Send
    <3> QED
      BY <3>1, FinishTyped
  <2>2. CASE ~cancelled[c]
    <3>1. /\ jpc[c] = "send" /\ jpc' = [jpc EXCEPT ![c] = "call"]
          /\ attempts' = [attempts EXCEPT ![c] = @ + 1]
          /\ sent' = sent + 1
          /\ earliest' = [earliest EXCEPT ![c] = 0]
          /\ pauseEnds' = [pauseEnds EXCEPT ![c] = 0]
          /\ UNCHANGED <<now, mu, lastRequest, wake, forbiddenRetried, cancelled,
                         heard, last>>
      BY <1>6, <2>2 DEF Send, Goto
    <3>2. attempts[c] \in 0..Attempts /\ attempts[c] < Attempts
      BY <3>1
    <3>3. attempts' \in [Callers -> 0..Attempts]
      BY <3>1, <3>2
    <3>4. JevTypeOK'
      BY <3>1, <3>3
    <3>5. HistoryTyped'
      BY <3>1
    <3>6. Stages'
      BY <3>1, <3>2
    <3> QED
      BY <3>4, <3>5, <3>6
  <2> QED
    BY <2>1, <2>2
<1>7. ASSUME NEW c \in Callers, Succeed(c) \/ GiveUp(c) PROVE JevTyped'
  <2>1. PICK a \in Answers, result \in Over : Ends(c, a, result)
    BY <1>7 DEF Succeed, GiveUp
  <2> QED
    BY <2>1, FinishTyped, KindOf DEF Ends
<1>8. ASSUME NEW c \in Callers, Retry(c) PROVE JevTyped'
  <2>1. PICK a \in Answers :
          /\ jpc[c] = "call" /\ attempts[c] \in Nat \ {0} /\ attempts[c] < Attempts
          /\ UNCHANGED <<now, mu, lastRequest, attempts, cancelled, sent, last>>
          /\ jpc' = [jpc EXCEPT ![c] = "backoff"]
          /\ wake' = [wake EXCEPT ![c] = now + RetryWait(a, c)]
          /\ forbiddenRetried' =
               [forbiddenRetried EXCEPT ![c] = @ \/ RetryForbidden(a, c)]
          /\ earliest' = [earliest EXCEPT ![c] = LeaveAlone(a)]
          /\ pauseEnds' = [pauseEnds EXCEPT ![c] = PauseOver(a, c)]
          /\ heard' = [heard EXCEPT ![c] = Append(@, Kind(a))]
    BY <1>8, RetryEffect
  <2>2. RetryWait(a, c) \in Nat /\ LeaveAlone(a) \in Nat /\ PauseOver(a, c) \in Nat
    <3>1. RetryWait(a, c) \in Nat
      <4> HIDE DEF JevTyped
      <4> QED
        BY <2>1, RetryWaitRange, JevAssumption
    <3>2. now \in Nat
      OBVIOUS
    <3> HIDE DEF JevTyped
    <3>3. LeaveAlone(a) \in Nat /\ PauseOver(a, c) \in Nat
      BY <3>2, WishType
    <3> QED
      BY <3>1, <3>3
  <2>3. heard' \in [Callers -> Seq(KindsOfAnswers)]
    <3>1. Kind(a) \in KindsOfAnswers
      BY KindOf
    <3> HIDE DEF JevTyped
    <3>2. heard[c] \in Seq(KindsOfAnswers)
      BY DEF JevTyped
    <3>3. Append(heard[c], Kind(a)) \in Seq(KindsOfAnswers)
      BY <3>1, <3>2
    <3> QED
      BY <2>1, <3>3 DEF JevTyped
  <2>4. forbiddenRetried' \in [Callers -> BOOLEAN]
    BY <2>1 DEF RetryForbidden
  <2>5. /\ wake' \in [Callers -> Nat] /\ earliest' \in [Callers -> Nat]
        /\ pauseEnds' \in [Callers -> Nat]
    <3> DEFINE rest == now + RetryWait(a, c)
               wish == LeaveAlone(a)
               pause == PauseOver(a, c)
    <3>1. /\ rest \in Nat /\ wish \in Nat /\ pause \in Nat
          /\ wake' = [wake EXCEPT ![c] = rest]
          /\ earliest' = [earliest EXCEPT ![c] = wish]
          /\ pauseEnds' = [pauseEnds EXCEPT ![c] = pause]
      BY <2>1, <2>2
    <3> HIDE DEF rest, wish, pause
    <3> QED
      BY <3>1
  <2>6. JevTypeOK'
    BY <2>1, <2>4, <2>5
  <2>7. HistoryTyped'
    BY <2>1, <2>3, <2>5
  <2>8. Stages'
    BY <2>1
  <2> QED
    BY <2>6, <2>7, <2>8
<1>9. ASSUME NEW c \in Callers, Cancel(c) PROVE JevTyped'
  BY <1>9 DEF Cancel, history
<1>10. CASE Tick
  BY <1>10 DEF Tick, history
<1>11. CASE Rest \/ UNCHANGED jevVars
  BY <1>11 DEF Rest, jevVars, history
<1> QED
  BY <1>1, <1>2, <1>3, <1>4, <1>5, <1>6, <1>7, <1>8, <1>9, <1>10, <1>11
  DEF JevNext, CallStep

(***************************************************************************)
(* Every variable of the client keeps its type: in particular no call ever *)
(* makes more attempts than it may, and no sleep is negative, however a    *)
(* header or a shift overflows.                                            *)
(***************************************************************************)
THEOREM JevTypes == JevSpec => []JevTypeOK
<1>1. JevTyped => JevTypeOK
  BY DEF JevTyped
<1> QED
  BY <1>1, JevTypedInit, JevTypedStep, PTL DEF JevSpec

-----------------------------------------------------------------------------
(* One call: its attempts, its retries and its pauses *)

(***************************************************************************)
(* It has heard one answer for every attempt it made.                      *)
(***************************************************************************)
Counted(c) ==
    Len(heard[c]) = IF jpc[c] = "call" THEN attempts[c] - 1 ELSE attempts[c]

(***************************************************************************)
(* It went on for a reason, and remembers a 403 exactly when it went on    *)
(* after one.                                                              *)
(***************************************************************************)
Warranted(c) ==
    /\ \A i \in 1..Len(heard[c]) :
         \/ heard[c][i] \in {"transient", "forbidden, cut"}
         \/ /\ heard[c][i] = "forbidden"
            /\ \A j \in 1..i - 1 : ~Forbidden(heard[c][j])
    /\ forbiddenRetried[c] <=> Heard403(c)

(***************************************************************************)
(* It sleeps for as long as the answer asked whose header counts, and for  *)
(* the pause after a first 403, and is past both otherwise.                *)
(***************************************************************************)
Ready(c) == IF jpc[c] = "backoff" THEN wake[c] ELSE now

Patient(c) == earliest[c] <= Ready(c) /\ pauseEnds[c] <= Ready(c)

CallInv(c) == Counted(c) /\ Warranted(c) /\ Patient(c)

Same(d) ==
    UNCHANGED <<jpc[d], wake[d], attempts[d], forbiddenRetried[d], heard[d],
                earliest[d], pauseEnds[d]>>

LEMMA CallInvInit == JevInit => \A c \in Callers : CallInv(c)
<1> SUFFICES ASSUME JevInit, NEW c \in Callers PROVE CallInv(c)
  OBVIOUS
<1>1. /\ now = 1 /\ jpc[c] = "out" /\ attempts[c] = 0 /\ ~forbiddenRetried[c]
      /\ heard[c] = <<>> /\ earliest[c] = 0 /\ pauseEnds[c] = 0
  BY DEF JevInit
<1>2. Warranted(c)
  BY <1>1 DEF Warranted, Heard403
<1> QED
  BY <1>1, <1>2 DEF CallInv, Counted, Patient, Ready

(***************************************************************************)
(* A call touches nothing of another one but the mutex and the slot.       *)
(***************************************************************************)
LEMMA OthersKept ==
    ASSUME JevTyped, NEW c \in Callers, Evaluate(c) \/ CallStep(c) \/ Cancel(c)
    PROVE  now' = now /\ \A d \in Callers \ {c} : Same(d)
<1> USE DEF JevTyped, JevTypeOK, HistoryTyped, Same, Goto, history
<1>1. ASSUME NEW result \in Over, Finish(c, result)
      PROVE  now' = now /\ \A d \in Callers \ {c} : Same(d)
  BY <1>1 DEF Finish
<1>2. CASE Evaluate(c)
  BY <1>2 DEF Evaluate
<1>3. CASE Lock(c) \/ Pace(c) \/ Wake(c) \/ Cancel(c)
  BY <1>3 DEF Lock, Pace, Wake, Cancel
<1>4. CASE Interrupted(c)
  BY <1>1, <1>4 DEF Interrupted, Over
<1>5. CASE Send(c)
  BY <1>1, <1>5 DEF Send, Over
<1>6. CASE Succeed(c) \/ GiveUp(c)
  BY <1>1, <1>6 DEF Succeed, GiveUp, Ends, Over
<1>7. CASE Retry(c)
  BY <1>7 DEF Retry, Again
<1> QED
  BY <1>2, <1>3, <1>4, <1>5, <1>6, <1>7 DEF CallStep

LEMMA WarrantedKept ==
    ASSUME NEW d \in Callers, Warranted(d),
           UNCHANGED <<heard[d], forbiddenRetried[d]>>
    PROVE  Warranted(d)'
BY DEF Warranted, Heard403

LEMMA CallInvKept ==
    ASSUME NEW d \in Callers, CallInv(d), Same(d), now' = now
    PROVE  CallInv(d)'
<1>1. Warranted(d)'
  BY WarrantedKept DEF CallInv, Same
<1>2. Patient(d)'
  BY DEF CallInv, Patient, Ready, Same
<1> QED
  BY <1>1, <1>2 DEF CallInv, Counted, Same

(***************************************************************************)
(* A step that is neither a request nor an answer, of the call itself.     *)
(***************************************************************************)
LEMMA QuietStep ==
    ASSUME NEW c \in Callers, CallInv(c), now' = now,
           jpc[c] # "call", jpc'[c] \notin {"call", "backoff"},
           jpc[c] = "backoff" => wake[c] <= now,
           UNCHANGED <<attempts[c], forbiddenRetried[c], heard[c], earliest[c],
                       pauseEnds[c]>>,
           now \in Nat, wake[c] \in Nat, earliest[c] \in Nat, pauseEnds[c] \in Nat
    PROVE  CallInv(c)'
<1>1. Warranted(c)'
  BY WarrantedKept DEF CallInv
<1>2. Counted(c)'
  BY DEF CallInv, Counted
<1>3. Patient(c)'
  BY DEF CallInv, Patient, Ready
<1> QED
  BY <1>1, <1>2, <1>3 DEF CallInv

LEMMA FinishInv ==
    ASSUME JevTyped, NEW c \in Callers, NEW result \in Over, Finish(c, result)
    PROVE  CallInv(c)'
<1>1. /\ jpc'[c] \in Over /\ attempts'[c] = 0 /\ ~forbiddenRetried'[c]
      /\ heard'[c] = <<>> /\ earliest'[c] = 0 /\ pauseEnds'[c] = 0
      /\ now' = now /\ now \in Nat
  BY DEF Finish, Goto, JevTyped, JevTypeOK, HistoryTyped
<1> QED
  BY <1>1 DEF CallInv, Counted, Warranted, Heard403, Patient, Ready, Over

(***************************************************************************)
(* Another answer, after which the call goes on.                           *)
(***************************************************************************)
LEMMA RetryWarranted ==
    ASSUME NEW c \in Callers, NEW a \in Answers, Warranted(c),
           heard[c] \in Seq(KindsOfAnswers), forbiddenRetried[c] \in BOOLEAN,
           ~Good(a), Retryable(a, c) \/ RetryForbidden(a, c),
           heard'[c] = Append(heard[c], Kind(a)),
           forbiddenRetried'[c] = (forbiddenRetried[c] \/ RetryForbidden(a, c))
    PROVE  Warranted(c)'
<1> DEFINE n == Len(heard[c])
<1>0. Kind(a) \in KindsOfAnswers
  BY KindOf
<1>1. /\ n \in Nat /\ Len(heard'[c]) = n + 1
      /\ \A i \in 1..n : heard'[c][i] = heard[c][i]
      /\ heard'[c][n + 1] = Kind(a)
  BY <1>0
<1>2. Forbidden(Kind(a)) <=> a.status = "forbidden"
  BY KindOf DEF Forbidden
<1>3. \/ Kind(a) \in {"transient", "forbidden, cut"}
      \/ Kind(a) = "forbidden" /\ ~forbiddenRetried[c]
  BY KindOf, AnswerFields DEF Retryable, RetryForbidden
<1>4. forbiddenRetried'[c] <=> \E j \in 1..n + 1 : Forbidden(heard'[c][j])
  <2>1. forbiddenRetried'[c] <=> forbiddenRetried[c] \/ Forbidden(Kind(a))
    BY <1>2 DEF RetryForbidden
  <2>2. (\E j \in 1..n + 1 : Forbidden(heard'[c][j]))
          <=> (\E j \in 1..n : Forbidden(heard[c][j])) \/ Forbidden(Kind(a))
    BY <1>1
  <2> QED
    BY <2>1, <2>2 DEF Warranted, Heard403
<1>5. ASSUME NEW i \in 1..n + 1
      PROVE  \/ heard'[c][i] \in {"transient", "forbidden, cut"}
             \/ /\ heard'[c][i] = "forbidden"
                /\ \A j \in 1..i - 1 : ~Forbidden(heard'[c][j])
  <2>1. CASE i \in 1..n
    <3>1. heard'[c][i] = heard[c][i]
      BY <1>1, <2>1
    <3>2. \A j \in 1..i - 1 : heard'[c][j] = heard[c][j]
      BY <1>1, <2>1
    <3>3. \/ heard[c][i] \in {"transient", "forbidden, cut"}
          \/ /\ heard[c][i] = "forbidden"
             /\ \A j \in 1..i - 1 : ~Forbidden(heard[c][j])
      BY <2>1 DEF Warranted
    <3> QED
      BY <3>1, <3>2, <3>3
  <2>2. CASE i = n + 1
    <3>1. CASE Kind(a) \in {"transient", "forbidden, cut"}
      BY <1>1, <2>2, <3>1
    <3>2. CASE Kind(a) = "forbidden" /\ ~forbiddenRetried[c]
      <4>1. \A j \in 1..n : ~Forbidden(heard[c][j])
        BY <3>2 DEF Warranted, Heard403
      <4>2. \A j \in 1..i - 1 : ~Forbidden(heard'[c][j])
        BY <1>1, <2>2, <4>1
      <4> QED
        BY <1>1, <2>2, <3>2, <4>2
    <3> QED
      BY <1>3, <3>1, <3>2
  <2>3. i \in 1..n \/ i = n + 1
    BY <1>1
  <2> QED
    BY <2>1, <2>2, <2>3
<1> QED
  BY <1>1, <1>4, <1>5 DEF Warranted, Heard403

LEMMA OwnStep ==
    ASSUME JevTyped, NEW c \in Callers, CallInv(c),
           Evaluate(c) \/ CallStep(c) \/ Cancel(c)
    PROVE  CallInv(c)'
<1>0. /\ now \in Nat /\ wake[c] \in Nat /\ earliest[c] \in Nat /\ pauseEnds[c] \in Nat
      /\ attempts[c] \in Nat /\ heard[c] \in Seq(KindsOfAnswers)
      /\ forbiddenRetried[c] \in BOOLEAN
  BY AttemptsType DEF JevTyped, JevTypeOK, HistoryTyped
<1>1. CASE Evaluate(c) \/ Lock(c) \/ Pace(c) \/ Wake(c)
  <2>1. /\ now' = now /\ jpc[c] # "call" /\ jpc'[c] \notin {"call", "backoff"}
        /\ jpc[c] = "backoff" => wake[c] <= now
        /\ UNCHANGED <<attempts[c], forbiddenRetried[c], heard[c], earliest[c],
                       pauseEnds[c]>>
    BY <1>1 DEF Evaluate, Lock, Pace, Wake, Goto, history, JevTyped, JevTypeOK,
                Sleeping
  <2> QED
    BY <1>0, <2>1, QuietStep
<1>2. CASE Cancel(c)
  <2>1. Same(c) /\ now' = now
    BY <1>2 DEF Cancel, Same, history
  <2> QED
    BY <2>1, CallInvKept
<1>3. CASE Interrupted(c) \/ Succeed(c) \/ GiveUp(c) \/ (Send(c) /\ cancelled[c])
  <2>1. PICK result \in Over : Finish(c, result)
    BY <1>3 DEF Interrupted, Succeed, GiveUp, Send, Ends, Over
  <2> QED
    BY <2>1, FinishInv
<1>4. CASE Send(c) /\ ~cancelled[c]
  <2>1. /\ jpc[c] = "send" /\ jpc'[c] = "call" /\ attempts'[c] = attempts[c] + 1
        /\ earliest'[c] = 0 /\ pauseEnds'[c] = 0 /\ now' = now
        /\ UNCHANGED <<heard[c], forbiddenRetried[c]>>
    BY <1>4 DEF Send, Goto, JevTyped, JevTypeOK, HistoryTyped
  <2>2. Counted(c)'
    BY <1>0, <2>1 DEF CallInv, Counted
  <2>3. Warranted(c)'
    BY <2>1, WarrantedKept DEF CallInv
  <2>4. Patient(c)'
    BY <1>0, <2>1 DEF Patient, Ready
  <2> QED
    BY <2>2, <2>3, <2>4 DEF CallInv
<1>5. CASE Retry(c)
  <2>1. PICK a \in Answers :
          /\ ~Good(a) /\ (Retryable(a, c) \/ RetryForbidden(a, c))
          /\ jpc[c] = "call" /\ attempts[c] \in Nat \ {0}
          /\ UNCHANGED <<now, attempts>>
          /\ jpc' = [jpc EXCEPT ![c] = "backoff"]
          /\ wake' = [wake EXCEPT ![c] = now + RetryWait(a, c)]
          /\ forbiddenRetried' =
               [forbiddenRetried EXCEPT ![c] = @ \/ RetryForbidden(a, c)]
          /\ earliest' = [earliest EXCEPT ![c] = LeaveAlone(a)]
          /\ pauseEnds' = [pauseEnds EXCEPT ![c] = PauseOver(a, c)]
          /\ heard' = [heard EXCEPT ![c] = Append(@, Kind(a))]
    BY <1>5, RetryEffect
  <2>2. /\ jpc'[c] = "backoff" /\ wake'[c] = now + RetryWait(a, c)
        /\ forbiddenRetried'[c] = (forbiddenRetried[c] \/ RetryForbidden(a, c))
        /\ earliest'[c] = LeaveAlone(a) /\ pauseEnds'[c] = PauseOver(a, c)
        /\ heard'[c] = Append(heard[c], Kind(a))
    BY <2>1 DEF JevTyped, JevTypeOK, HistoryTyped
  <2>3. Counted(c)'
    <3>0. Kind(a) \in KindsOfAnswers
      BY KindOf
    <3>1. Len(heard'[c]) = Len(heard[c]) + 1 /\ Len(heard[c]) \in Nat
      BY <1>0, <2>2, <3>0
    <3> QED
      BY <1>0, <2>1, <2>2, <3>1 DEF CallInv, Counted
  <2>4. Warranted(c)'
    BY <1>0, <2>1, <2>2, RetryWarranted DEF CallInv
  <2>5. Patient(c)'
    <3>1. /\ LeaveAlone(a) <= now + RetryWait(a, c)
          /\ PauseOver(a, c) <= now + RetryWait(a, c)
      BY <1>0, <2>1, WaitLeavesAlone DEF CallInv, Warranted
    <3> QED
      BY <2>2, <3>1 DEF Patient, Ready
  <2> QED
    BY <2>3, <2>4, <2>5 DEF CallInv
<1> QED
  BY <1>1, <1>2, <1>3, <1>4, <1>5 DEF CallStep

LEMMA CallInvStep ==
    ASSUME JevTyped, \A c \in Callers : CallInv(c), [JevNext]_jevVars
    PROVE  \A c \in Callers : CallInv(c)'
<1>1. ASSUME NEW c \in Callers, Evaluate(c) \/ CallStep(c) \/ Cancel(c),
             NEW d \in Callers
      PROVE  CallInv(d)'
  <2>1. CASE d = c
    BY <1>1, <2>1, OwnStep
  <2>2. CASE d # c
    BY <1>1, <2>2, OthersKept, CallInvKept
  <2> QED
    BY <2>1, <2>2
<1>2. CASE Tick
  <2> SUFFICES ASSUME NEW c \in Callers PROVE CallInv(c)'
    OBVIOUS
  <2>1. /\ now' = now + 1 /\ now \in Nat /\ wake[c] \in Nat /\ earliest[c] \in Nat /\ pauseEnds[c] \in Nat
        /\ Same(c)
    BY <1>2 DEF Tick, Same, history, JevTyped, JevTypeOK, HistoryTyped
  <2>2. Counted(c)' /\ Warranted(c)'
    BY <2>1, WarrantedKept DEF CallInv, Counted, Same
  <2>3. Patient(c)'
    BY <2>1 DEF CallInv, Patient, Ready, Same
  <2> QED
    BY <2>2, <2>3 DEF CallInv
<1>3. CASE Rest \/ UNCHANGED jevVars
  <2>1. now' = now /\ \A c \in Callers : Same(c)
    BY <1>3 DEF Rest, jevVars, Same
  <2> QED
    BY <2>1, CallInvKept
<1> QED
  BY <1>1, <1>2, <1>3 DEF JevNext

LEMMA CallsInvariant == JevSpec => [](JevTyped /\ \A c \in Callers : CallInv(c))
<1>1. (JevTyped /\ \A c \in Callers : CallInv(c)) /\ [JevNext]_jevVars
        => (JevTyped /\ \A c \in Callers : CallInv(c))'
  BY JevTypedStep, CallInvStep
<1> QED
  BY <1>1, JevTypedInit, CallInvInit, PTL DEF JevSpec

(***************************************************************************)
(* No call goes on after an error that another attempt cannot help, nor    *)
(* after a second 403.                                                     *)
(***************************************************************************)
THEOREM WarrantedRetries == JevSpec => []RetriesAreWarranted
<1>1. (JevTyped /\ \A c \in Callers : CallInv(c)) => RetriesAreWarranted
  BY DEF CallInv, Warranted, RetriesAreWarranted
<1> QED
  BY <1>1, CallsInvariant, PTL

(***************************************************************************)
(* No request leaves before the Retry-After of a readable 429, 529 or 5xx  *)
(* is over, however many callers share the client, nor before the pause    *)
(* after the first 403 is.                                                 *)
(***************************************************************************)
THEOREM ServerLeftAlone == JevSpec => []ServerIsLeftAlone
<1>1. (JevTyped /\ \A c \in Callers : CallInv(c)) => ServerIsLeftAlone
  BY DEF CallInv, Patient, Ready, ServerIsLeftAlone, JevTyped, JevTypeOK, HistoryTyped
<1> QED
  BY <1>1, CallsInvariant, PTL

-----------------------------------------------------------------------------
(* How a call ends, and how long it pauses *)

EndsWell(c) ==
    /\ jpc[c] # "ok" /\ jpc'[c] = "ok" => jpc[c] = "call" /\ last'[c] = "ok"
    /\ jpc[c] = "call" /\ jpc'[c] = "failed" /\ ~cancelled[c] =>
         \/ Len(heard[c]) = Max(MaxRetries, 0)
         \/ last'[c] = "final"
         \/ /\ last'[c] = "forbidden"
            /\ Heard403(c)

PausesWell(c) ==
    jpc[c] = "call" /\ jpc'[c] \notin Over \cup {"call"}
      => jpc'[c] = "backoff" /\ wake'[c] \in now + 1..now + MaxBackoff

(***************************************************************************)
(* Where the steps of a call lead; its answers are left to the steps after *)
(* a request.                                                              *)
(***************************************************************************)
LEMMA WhereItGoes ==
    ASSUME JevTyped, NEW c \in Callers,
           \/ Evaluate(c) \/ Lock(c) \/ Pace(c) \/ Wake(c) \/ Cancel(c)
           \/ Interrupted(c) \/ Send(c)
    PROVE  /\ jpc'[c] \notin {"ok", "failed"} \/ jpc'[c] = jpc[c]
           /\ jpc[c] = "call" => jpc'[c] = "call"
<1> USE DEF JevTyped, JevTypeOK, Goto, Sleeping
<1>1. CASE Evaluate(c) \/ Lock(c) \/ Pace(c) \/ Wake(c) \/ Cancel(c)
  BY <1>1 DEF Evaluate, Lock, Pace, Wake, Cancel
<1>2. CASE Interrupted(c)
  BY <1>2 DEF Interrupted, Finish
<1>3. CASE Send(c)
  BY <1>3 DEF Send, Finish
<1> QED
  BY <1>1, <1>2, <1>3

(***************************************************************************)
(* An error with which a call returns although it has attempts left and    *)
(* nobody cancelled it.                                                    *)
(***************************************************************************)
LEMMA NotWorthIt ==
    ASSUME NEW c \in Callers, NEW a \in Answers, Warranted(c), ~Good(a),
           ~cancelled[c], ~(Retryable(a, c) \/ RetryForbidden(a, c))
    PROVE  \/ Kind(a) = "final"
           \/ /\ Kind(a) = "forbidden"
              /\ Heard403(c)
<1>1. Kind(a) \in KindsOfAnswers \ {"ok"}
  BY KindOf
<1>2. a.body # "cut" /\ ~(a.status = "busy" /\ a.body = "whole")
  BY AnswerFields DEF Retryable
<1>3. Kind(a) \notin {"transient", "forbidden, cut"}
  BY <1>2, KindOf, AnswerFields
<1>4. CASE Kind(a) = "forbidden"
  <2>1. a.status = "forbidden"
    BY <1>4, KindOf
  <2>2. forbiddenRetried[c]
    BY <2>1 DEF RetryForbidden
  <2> QED
    BY <1>4, <2>2 DEF Warranted
<1> QED
  BY <1>1, <1>3, <1>4 DEF KindsOfAnswers

LEMMA OwnEnd ==
    ASSUME JevTyped, NEW c \in Callers, CallInv(c),
           Evaluate(c) \/ CallStep(c) \/ Cancel(c)
    PROVE  EndsWell(c) /\ PausesWell(c)
<1>1. CASE \/ Evaluate(c) \/ Lock(c) \/ Pace(c) \/ Wake(c) \/ Cancel(c)
           \/ Interrupted(c) \/ Send(c)
  BY <1>1, WhereItGoes DEF EndsWell, PausesWell
<1>2. CASE Succeed(c)
  <2>1. PICK a \in Answers : Good(a) /\ Ends(c, a, "ok")
    BY <1>2 DEF Succeed
  <2>2. jpc[c] = "call" /\ jpc'[c] = "ok" /\ last'[c] = Kind(a)
    BY <1>2, <2>1 DEF Succeed, Ends, Finish, Goto, JevTyped, JevTypeOK, HistoryTyped
  <2>3. Kind(a) = "ok"
    BY <2>1, KindOf
  <2> QED
    BY <2>2, <2>3 DEF EndsWell, PausesWell, Over
<1>3. CASE GiveUp(c)
  <2>1. PICK a \in Answers :
          /\ ~Good(a)
          /\ attempts[c] = Attempts \/ ~(Retryable(a, c) \/ RetryForbidden(a, c))
          /\ Ends(c, a, "failed")
    BY <1>3 DEF GiveUp
  <2>2. jpc[c] = "call" /\ jpc'[c] = "failed" /\ last'[c] = Kind(a)
    BY <1>3, <2>1 DEF GiveUp, Ends, Finish, Goto, JevTyped, JevTypeOK, HistoryTyped
  <2>3. CASE attempts[c] = Attempts
    <3>1. Len(heard[c]) = Max(MaxRetries, 0)
      BY <2>2, <2>3, JevAssumption DEF CallInv, Counted, Attempts, Max
    <3> QED
      BY <2>2, <3>1 DEF EndsWell, PausesWell, Over
  <2>4. CASE ~(Retryable(a, c) \/ RetryForbidden(a, c)) /\ ~cancelled[c]
    <3>1. \/ Kind(a) = "final"
          \/ /\ Kind(a) = "forbidden"
             /\ Heard403(c)
      BY <2>1, <2>4, NotWorthIt DEF CallInv
    <3> QED
      BY <2>2, <3>1 DEF EndsWell, PausesWell, Over
  <2>5. CASE cancelled[c]
    BY <2>2, <2>5 DEF EndsWell, PausesWell, Over
  <2> QED
    BY <2>1, <2>3, <2>4, <2>5
<1>4. CASE Retry(c)
  <2>1. PICK a \in Answers :
          /\ attempts[c] \in Nat \ {0}
          /\ jpc' = [jpc EXCEPT ![c] = "backoff"]
          /\ wake' = [wake EXCEPT ![c] = now + RetryWait(a, c)]
    BY <1>4, RetryEffect
  <2>2. jpc'[c] = "backoff" /\ wake'[c] = now + RetryWait(a, c) /\ now \in Nat
    BY <2>1 DEF JevTyped, JevTypeOK
  <2>3. RetryWait(a, c) \in 1..MaxBackoff
    BY <2>1, RetryWaitRange
  <2>4. wake'[c] \in now + 1..now + MaxBackoff
    BY <2>2, <2>3, JevAssumption
  <2> QED
    BY <2>2, <2>4 DEF EndsWell, PausesWell
<1> QED
  BY <1>1, <1>2, <1>3, <1>4 DEF CallStep

LEMMA EveryEnd ==
    ASSUME JevTyped, \A c \in Callers : CallInv(c), JevNext,
           NEW d \in Callers
    PROVE  EndsWell(d) /\ PausesWell(d)
<1>1. ASSUME UNCHANGED jpc[d] PROVE EndsWell(d) /\ PausesWell(d)
  BY <1>1 DEF EndsWell, PausesWell
<1>2. ASSUME NEW c \in Callers, Evaluate(c) \/ CallStep(c) \/ Cancel(c)
      PROVE  EndsWell(d) /\ PausesWell(d)
  <2>1. CASE d = c
    BY <1>2, <2>1, OwnEnd
  <2>2. CASE d # c
    BY <1>1, <1>2, <2>2, OthersKept DEF Same
  <2> QED
    BY <2>1, <2>2
<1>3. CASE Tick \/ Rest
  BY <1>1, <1>3 DEF Tick, Rest, jevVars
<1> QED
  BY <1>2, <1>3 DEF JevNext

(***************************************************************************)
(* A call that nobody cancelled fails only for a final error, a second 403 *)
(* or after all its attempts, and succeeds only on a good answer.          *)
(***************************************************************************)
THEOREM WarrantedEnds == JevSpec => EndsAreWarranted
<1>1. (JevTyped /\ \A c \in Callers : CallInv(c)) /\ [JevNext]_jevVars
        => [\A c \in Callers : EndsWell(c)]_jevVars
  BY EveryEnd
<1>2. (JevSpec => [][\A c \in Callers : EndsWell(c)]_jevVars)
  BY <1>1, CallsInvariant, PTL DEF JevSpec
<1> QED
  BY <1>2 DEF EndsWell, EndsAreWarranted

(***************************************************************************)
(* Every retry is preceded by a pause, however large the header or the     *)
(* shift, and by none longer than MaxBackoff.                              *)
(***************************************************************************)
THEOREM SanePauses == JevSpec => PausesAreSane
<1>1. (JevTyped /\ \A c \in Callers : CallInv(c)) /\ [JevNext]_jevVars
        => [\A c \in Callers : PausesWell(c)]_jevVars
  BY EveryEnd
<1>2. (JevSpec => [][\A c \in Callers : PausesWell(c)]_jevVars)
  BY <1>1, CallsInvariant, PTL DEF JevSpec
<1> QED
  BY <1>2 DEF PausesWell, PausesAreSane

-----------------------------------------------------------------------------
(* The rate of all calls together *)

(***************************************************************************)
(* The calls that have a slot and have not used it, and those of them      *)
(* whose slot has come by t.                                               *)
(***************************************************************************)
Holders == {c \in Callers : jpc[c] \in {"pacing", "send"}}
Due(t) == {c \in Holders : wake[c] <= t}

(***************************************************************************)
(* n requests by t are not too many.                                       *)
(***************************************************************************)
Within(n, t) == n > 0 => (n - 1) * MinInterval <= t - 1

(***************************************************************************)
(* There would not be too many by the last slot given if every call used   *)
(* its own, and not by any time from now on if those did that may by then. *)
(***************************************************************************)
Paced ==
    /\ IsFiniteSet(Holders)
    /\ Within(sent + Cardinality(Holders), lastRequest)
    /\ \A t \in Nat : t >= now => Within(sent + Cardinality(Due(t)), t)

LEMMA WithinMono ==
    ASSUME NEW n \in Nat, NEW m \in Nat, m <= n, NEW t \in Nat, NEW u \in Nat,
           t <= u, Within(n, t)
    PROVE  Within(m, u)
<1>1. CASE m = 0
  BY <1>1 DEF Within
<1>2. CASE m # 0
  <2> DEFINE a == m - 1
             b == n - 1
             k == n - m
  <2>1. a \in Nat /\ k \in Nat /\ b = a + k /\ MinInterval \in Nat
    BY <1>2, JevAssumption
  <2>2. b * MinInterval <= t - 1
    BY <1>2 DEF Within
  <2> HIDE DEF a, b, k
  <2>3. (a + k) * MinInterval = a * MinInterval + k * MinInterval
    BY <2>1
  <2>4. k * MinInterval \in Nat /\ a * MinInterval \in Nat
    BY <2>1
  <2>5. a * MinInterval <= t - 1
    BY <2>1, <2>2, <2>3, <2>4
  <2>6. a * MinInterval <= u - 1
    BY <2>4, <2>5
  <2> QED
    BY <2>6 DEF Within, a
<1> QED
  BY <1>1, <1>2

(***************************************************************************)
(* One more, an interval after the last slot.                              *)
(***************************************************************************)
LEMMA WithinNext ==
    ASSUME NEW n \in Nat, NEW l \in Nat, NEW s \in Nat \ {0},
           l # 0 => s >= l + MinInterval, Within(n, l)
    PROVE  Within(n + 1, s)
<1>0. MinInterval \in Nat
  BY JevAssumption
<1>1. CASE n = 0
  <2>1. (n + 1) - 1 = 0 /\ 0 * MinInterval = 0
    BY <1>0, <1>1
  <2> QED
    BY <2>1 DEF Within
<1>2. CASE n # 0
  <2> DEFINE a == n - 1
  <2>1. a \in Nat /\ a * MinInterval <= l - 1
    BY <1>2 DEF Within
  <2> HIDE DEF a
  <2>2. a * MinInterval \in Nat
    BY <1>0, <2>1
  <2>3. l # 0 /\ s >= l + MinInterval
    BY <2>1, <2>2
  <2>4. (a + 1) * MinInterval = a * MinInterval + MinInterval
    BY <1>0, <2>1
  <2>5. (a + 1) * MinInterval <= s - 1
    BY <1>0, <2>1, <2>2, <2>3, <2>4
  <2>6. (n + 1) - 1 = a + 1
    BY DEF a
  <2> QED
    BY <2>5, <2>6 DEF Within
<1> QED
  BY <1>1, <1>2

LEMMA DueFinite ==
    ASSUME IsFiniteSet(Holders), NEW t
    PROVE  /\ IsFiniteSet(Due(t)) /\ Cardinality(Due(t)) \in Nat
           /\ Cardinality(Holders) \in Nat
           /\ Cardinality(Due(t)) <= Cardinality(Holders)
<1>1. Due(t) \subseteq Holders
  BY DEF Due
<1> QED
  BY <1>1, FS_Subset, FS_CardinalityType

LEMMA PacedInit == JevInit => Paced
<1> SUFFICES ASSUME JevInit PROVE Paced
  OBVIOUS
<1>1. Holders = {} /\ \A t \in Nat : Due(t) = {}
  BY DEF JevInit, Holders, Due
<1>2. IsFiniteSet({}) /\ Cardinality({}) = 0
  BY FS_EmptySet
<1>3. sent = 0
  BY DEF JevInit
<1>4. /\ sent + Cardinality(Holders) = 0
      /\ \A t \in Nat : sent + Cardinality(Due(t)) = 0
  BY <1>1, <1>2, <1>3
<1> QED
  BY <1>1, <1>2, <1>4 DEF Paced, Within

(***************************************************************************)
(* No slot is given and no request leaves; slots may be abandoned.         *)
(***************************************************************************)
LEMMA SlotsKept ==
    ASSUME JevTyped, Paced, Holders' \subseteq Holders,
           \A t \in Nat : t >= now' => Due(t)' \subseteq Due(t),
           now' \in Nat, now' >= now, UNCHANGED <<sent, lastRequest>>
    PROVE  Paced'
<1>0. now \in Nat /\ sent \in Nat /\ lastRequest \in Nat
  BY DEF JevTyped, JevTypeOK
<1>1. /\ IsFiniteSet(Holders') /\ Cardinality(Holders') \in Nat
      /\ Cardinality(Holders) \in Nat /\ Cardinality(Holders') <= Cardinality(Holders)
  BY FS_Subset, FS_CardinalityType DEF Paced
<1>2. Within(sent + Cardinality(Holders'), lastRequest)
  <2>1. Within(sent + Cardinality(Holders), lastRequest)
    BY DEF Paced
  <2> QED
    BY <1>0, <1>1, <2>1, WithinMono
<1>3. ASSUME NEW t \in Nat, t >= now'
      PROVE  Within(sent + Cardinality(Due(t)'), t)
  <2>1. /\ IsFiniteSet(Due(t)) /\ Cardinality(Due(t)) \in Nat
    BY DueFinite DEF Paced
  <2>2. /\ Cardinality(Due(t)') \in Nat
        /\ Cardinality(Due(t)') <= Cardinality(Due(t))
    BY <1>3, <2>1, FS_Subset, FS_CardinalityType
  <2>3. Within(sent + Cardinality(Due(t)), t)
    BY <1>0, <1>3 DEF Paced
  <2> QED
    BY <1>0, <2>1, <2>2, <2>3, WithinMono
<1> QED
  BY <1>1, <1>2, <1>3 DEF Paced, Within

LEMMA PacePaced ==
    ASSUME JevTyped, Paced, NEW c \in Callers, Pace(c)
    PROVE  Paced'
<1>0. /\ now \in Nat \ {0} /\ sent \in Nat /\ lastRequest \in Nat
      /\ Slot \in Nat \ {0} /\ Slot >= now
      /\ lastRequest # 0 => Slot >= lastRequest + MinInterval
  BY SlotType DEF JevTyped, JevTypeOK
<1>1. /\ jpc[c] = "slot" /\ wake[c] = 0 /\ lastRequest' = Slot
      /\ UNCHANGED <<now, sent>>
      /\ Slot > now => jpc' = [jpc EXCEPT ![c] = "pacing"] /\ wake' = [wake EXCEPT ![c] = Slot]
      /\ ~(Slot > now) => jpc' = [jpc EXCEPT ![c] = "send"] /\ wake' = wake
  BY DEF Pace, Goto, history, JevTyped, Stages, Sleeping
<1>2. /\ jpc'[c] \in {"pacing", "send"}
      /\ Slot > now => wake'[c] = Slot
      /\ \A d \in Callers \ {c} : jpc'[d] = jpc[d] /\ wake'[d] = wake[d]
  BY <1>1 DEF JevTyped, JevTypeOK
<1>3. c \notin Holders /\ Holders' = Holders \cup {c}
  BY <1>1, <1>2 DEF Holders
<1>4. /\ Cardinality(Holders) \in Nat /\ IsFiniteSet(Holders')
      /\ Cardinality(Holders') = Cardinality(Holders) + 1
  BY <1>3, FS_AddElement, FS_CardinalityType DEF Paced
<1>5. Within(sent + Cardinality(Holders'), Slot)
  <2>1. Within(sent + Cardinality(Holders), lastRequest)
    BY DEF Paced
  <2>2. Within((sent + Cardinality(Holders)) + 1, Slot)
    BY <1>0, <1>4, <2>1, WithinNext
  <2>3. (sent + Cardinality(Holders)) + 1 = sent + Cardinality(Holders')
    BY <1>0, <1>4
  <2> QED
    BY <2>2, <2>3
<1>6. ASSUME NEW t \in Nat, t >= now
      PROVE  Within(sent + Cardinality(Due(t)'), t)
  <2>1. CASE t >= Slot
    <3>1. Due(t)' \subseteq Holders'
      BY DEF Due
    <3>2. /\ Cardinality(Due(t)') \in Nat /\ Cardinality(Holders') \in Nat
          /\ Cardinality(Due(t)') <= Cardinality(Holders')
      BY <1>4, <3>1, FS_Subset, FS_CardinalityType
    <3> QED
      BY <1>0, <1>5, <2>1, <3>2, WithinMono
  <2>2. CASE t < Slot
    <3>1. wake'[c] > t
      BY <1>0, <1>2, <1>6, <2>2
    <3>2. \A d \in Holders' : wake'[d] <= t => d \in Holders /\ wake[d] <= t
      <4>1. ASSUME NEW d \in Holders', wake'[d] <= t
            PROVE  d \in Holders /\ wake[d] <= t
        <5>1. d # c
          BY <1>0, <1>2, <1>6, <2>2, <4>1
        <5>2. d \in Holders /\ d \in Callers
          BY <1>3, <5>1 DEF Holders
        <5> QED
          BY <1>2, <4>1, <5>1, <5>2
      <4> QED
        BY <4>1
    <3>3. \A d \in Holders : d \in Holders' /\ wake'[d] = wake[d]
      BY <1>2, <1>3 DEF Holders
    <3>4. Due(t)' = Due(t)
      BY <3>2, <3>3 DEF Due
    <3> QED
      BY <1>0, <1>6, <3>4 DEF Paced
  <2> QED
    BY <1>0, <2>1, <2>2
<1> QED
  BY <1>1, <1>4, <1>5, <1>6 DEF Paced, Within

LEMMA SendPaced ==
    ASSUME JevTyped, Paced, NEW c \in Callers, Send(c), ~cancelled[c]
    PROVE  Paced'
<1>0. now \in Nat \ {0} /\ sent \in Nat /\ lastRequest \in Nat
  BY DEF JevTyped, JevTypeOK
<1>1. /\ jpc[c] = "send" /\ wake[c] = 0 /\ sent' = sent + 1
      /\ jpc' = [jpc EXCEPT ![c] = "call"]
      /\ UNCHANGED <<now, lastRequest, wake>>
  BY DEF Send, Goto, JevTyped, Stages, Sleeping
<1>2. c \in Holders /\ Holders' = Holders \ {c}
  BY <1>1 DEF Holders, JevTyped, JevTypeOK
<1>3. /\ IsFiniteSet(Holders') /\ Cardinality(Holders) \in Nat
      /\ Cardinality(Holders') = Cardinality(Holders) - 1
  BY <1>2, FS_RemoveElement, FS_CardinalityType DEF Paced
<1>4. sent' + Cardinality(Holders') = sent + Cardinality(Holders)
  BY <1>0, <1>1, <1>3
<1>5. ASSUME NEW t \in Nat, t >= now
      PROVE  Within(sent' + Cardinality(Due(t)'), t)
  <2>1. c \in Due(t) /\ Due(t)' = Due(t) \ {c}
    BY <1>1, <1>2 DEF Due
  <2>2. /\ Cardinality(Due(t)) \in Nat /\ IsFiniteSet(Due(t))
    BY DueFinite DEF Paced
  <2>3. Cardinality(Due(t)') = Cardinality(Due(t)) - 1
    BY <2>1, <2>2, FS_RemoveElement
  <2>4. sent' + Cardinality(Due(t)') = sent + Cardinality(Due(t))
    BY <1>0, <1>1, <2>2, <2>3
  <2> QED
    BY <1>0, <1>5, <2>4 DEF Paced
<1>6. Within(sent' + Cardinality(Holders'), lastRequest')
  BY <1>1, <1>4 DEF Paced
<1> QED
  BY <1>1, <1>3, <1>5, <1>6 DEF Paced, Within

LEMMA PacedStep ==
    ASSUME JevTyped, Paced, [JevNext]_jevVars
    PROVE  Paced'
<1>0. now \in Nat /\ \A c \in Callers : wake[c] \in Nat
  BY DEF JevTyped, JevTypeOK
<1>1. ASSUME NEW c \in Callers, now' = now, UNCHANGED <<sent, lastRequest>>,
             jpc'[c] \in {"pacing", "send"} =>
               /\ jpc[c] \in {"pacing", "send"}
               /\ wake[c] <= now,
             \A d \in Callers \ {c} : UNCHANGED <<jpc[d], wake[d]>>
      PROVE  Paced'
  <2>1. Holders' \subseteq Holders
    BY <1>1 DEF Holders
  <2>2. ASSUME NEW t \in Nat, t >= now' PROVE Due(t)' \subseteq Due(t)
    <3> SUFFICES ASSUME NEW d \in Due(t)' PROVE d \in Due(t)
      OBVIOUS
    <3>1. d \in Holders' /\ wake'[d] <= t /\ d \in Callers
      BY DEF Due, Holders
    <3>2. d \in Holders
      BY <2>1, <3>1
    <3>3. wake[d] <= t
      <4>1. CASE d = c
        <5>1. wake[c] <= now
          BY <1>1, <3>1, <4>1 DEF Holders
        <5> QED
          BY <1>0, <1>1, <2>2, <4>1, <5>1
      <4>2. CASE d # c
        BY <1>1, <3>1, <4>2
      <4> QED
        BY <4>1, <4>2
    <3> QED
      BY <3>2, <3>3 DEF Due
  <2> QED
    BY <1>0, <1>1, <2>1, <2>2, SlotsKept
<1>2. ASSUME NEW c \in Callers, Evaluate(c) \/ CallStep(c) \/ Cancel(c)
      PROVE  Paced'
  <2>1. now' = now /\ \A d \in Callers \ {c} : UNCHANGED <<jpc[d], wake[d]>>
    BY <1>2, OthersKept DEF Same
  <2>2. CASE Pace(c)
    BY <2>2, PacePaced
  <2>3. CASE Send(c) /\ ~cancelled[c]
    BY <2>3, SendPaced
  <2>4. CASE Wake(c)
    <3>1. /\ UNCHANGED <<sent, lastRequest>> /\ wake[c] <= now
          /\ jpc'[c] \in {"pacing", "send"} => jpc[c] \in {"pacing", "send"}
      BY <2>4 DEF Wake, Goto, Sleeping, history, JevTyped, JevTypeOK
    <3> QED
      BY <1>1, <2>1, <3>1
  <2>5. CASE Cancel(c)
    <3>1. UNCHANGED <<sent, lastRequest, jpc, wake>>
      BY <2>5 DEF Cancel, history
    <3>2. Holders' = Holders /\ \A t \in Nat : Due(t)' = Due(t)
      BY <3>1 DEF Holders, Due
    <3> QED
      BY <1>0, <2>1, <3>1, <3>2, SlotsKept
  <2>6. CASE \/ Evaluate(c) \/ Lock(c) \/ Interrupted(c) \/ Succeed(c)
             \/ GiveUp(c) \/ Retry(c) \/ (Send(c) /\ cancelled[c])
    <3>1. UNCHANGED <<sent, lastRequest>> /\ jpc'[c] \notin {"pacing", "send"}
      BY <2>6 DEF Evaluate, Lock, Interrupted, Succeed, GiveUp, Retry, Send, Ends,
                  Again, Finish, Goto, history, JevTyped, JevTypeOK
    <3> QED
      BY <1>1, <2>1, <3>1
  <2> QED
    BY <1>2, <2>2, <2>3, <2>4, <2>5, <2>6 DEF CallStep
<1>3. CASE Tick \/ Rest \/ UNCHANGED jevVars
  <2>1. /\ UNCHANGED <<sent, lastRequest, jpc, wake>>
        /\ now' \in Nat /\ now' >= now
    BY <1>0, <1>3 DEF Tick, Rest, jevVars, history
  <2>2. Holders' = Holders /\ \A t \in Nat : Due(t)' = Due(t)
    BY <2>1 DEF Holders, Due
  <2> QED
    BY <2>1, <2>2, SlotsKept
<1> QED
  BY <1>2, <1>3 DEF JevNext

(***************************************************************************)
(* "MinInterval spaces requests from one client": whatever calls share it, *)
(* are late, or are cancelled while they wait for their slot, the server   *)
(* sees no more requests than there were intervals.                        *)
(***************************************************************************)
THEOREM RateIsBounded == JevSpec => []RateBound
<1>1. JevTyped /\ Paced => RateBound
  <2> SUFFICES ASSUME JevTyped, Paced PROVE RateBound
    OBVIOUS
  <2>1. now \in Nat /\ sent \in Nat
    BY DEF JevTyped, JevTypeOK
  <2>2. Cardinality(Due(now)) \in Nat
    BY DueFinite DEF Paced
  <2>3. Within(sent + Cardinality(Due(now)), now)
    BY <2>1 DEF Paced
  <2>4. Within(sent, now)
    BY <2>1, <2>2, <2>3, WithinMono
  <2> QED
    BY <2>4 DEF Within, RateBound
<1>2. (JevTyped /\ Paced) /\ [JevNext]_jevVars => (JevTyped /\ Paced)'
  BY JevTypedStep, PacedStep
<1> QED
  BY <1>1, <1>2, JevTypedInit, PacedInit, PTL DEF JevSpec
=============================================================================
