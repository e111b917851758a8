----------------------------- MODULE JevClient -----------------------------
(***************************************************************************)
(* The client of the judging service, internal/jev/client.go: Evaluate     *)
(* with its attempts, the pacing that all calls of one client share, and   *)
(* the pauses between attempts.                                            *)
(*                                                                         *)
(* Time is discrete.  A sleep ends at the earliest when it is over; how    *)
(* much later the caller goes on, and how long a request is under way, is  *)
(* open.  Durations wrap as Go's signed integers do.                       *)
(***************************************************************************)
EXTENDS Integers, Sequences

CONSTANTS
    Callers,        \* calls of Evaluate on one client; one each
    Free,           \* the mutex is not held
    MaxRetries,     \* Client.MaxRetries, possibly negative
    MinInterval,    \* Client.MinInterval
    BackoffBase,    \* Client.BackoffBase and MaxBackoff, or their defaults
    MaxBackoff,
    ForbiddenWait,  \* forbiddenRetryWait
    Second,         \* time.Second
    Width,          \* the width of a Duration in bits
    Cancellable,    \* the calls whose context may be cancelled
    RetryAfters,    \* the numbers a Retry-After header may hold; 0: no header
    Horizon         \* time passes up to here although nobody sleeps

ASSUME JevAssumption ==
    /\ Free \notin Callers
    /\ MaxRetries \in Int
    /\ Cancellable \subseteq Callers
    /\ {MinInterval, Horizon} \subseteq Nat
    /\ {BackoffBase, MaxBackoff, ForbiddenWait, Second, Width} \subseteq Nat \ {0}
    /\ RetryAfters \subseteq Int /\ 0 \in RetryAfters

VARIABLES
    now,
    mu,             \* who holds Client.mu
    lastRequest,    \* Client.lastRequest: the latest slot given; 0: none
    jpc,            \* where each call is
    wake,           \* when its sleep is over; 0: it does not sleep
    attempts,       \* Exchange.Attempts
    forbiddenRetried,
    cancelled,      \* is its context cancelled
    sent,           \* requests that left, of all calls
    heard,          \* the answers each call went on after, in order
    last,           \* the answer it returned with
    earliest,       \* when the Retry-After of the readable answer it went on
                    \* after lets each call come back; 0: no wish
    pauseEnds       \* when the pause after its first 403 is over; 0: none

jevVars == <<now, mu, lastRequest, jpc, wake, attempts, forbiddenRetried,
             cancelled, sent, heard, last, earliest, pauseEnds>>
history == <<sent, heard, last, earliest, pauseEnds>>

Sleeping == {"pacing", "backoff"}
Over == {"ok", "failed", "stopped"}
Max(a, b) == IF a > b THEN a ELSE b
Min(a, b) == IF a < b THEN a ELSE b

(***************************************************************************)
(* The values of a signed integer of Width bits.                           *)
(***************************************************************************)
Half == 2^(Width - 1)
Wrap(x) == ((x + Half) % (2 * Half)) - Half

(***************************************************************************)
(* A negative MaxRetries still makes one attempt.                          *)
(***************************************************************************)
Attempts == Max(MaxRetries, 0) + 1

-----------------------------------------------------------------------------
(* What a request can meet *)

(***************************************************************************)
(* The answer of one request: its status, whether the body was read whole, *)
(* was cut off, or is of no use (too large, not JSON, no answers), and the *)
(* Retry-After header.  "none": no response (refused connection, timeout). *)
(* "busy" is 429, 529 and 5xx; "refused" any other status that is not 200  *)
(* or 403, redirects included, which the client does not follow.  Any      *)
(* answer that is not 200 may have the header, whatever becomes of its     *)
(* body.                                                                   *)
(***************************************************************************)
NoResponse == [status |-> "none", body |-> "cut", after |-> 0]
Bodies == {"whole", "cut", "unusable"}
Responses ==
    [status : {"ok"}, body : Bodies, after : {0}]
      \cup [status : {"forbidden", "busy", "refused"}, body : Bodies, after : RetryAfters]
Answers == Responses \cup {NoResponse}

Good(a) == a.status = "ok" /\ a.body = "whole"

\* A variant of Retryable: a read error is final.
RetryableStatusOnly(a, c) ==
    \/ a.status = "none" /\ ~cancelled[c]
    \/ a.status = "busy" /\ a.body = "whole"

(***************************************************************************)
(* APIError.Retryable, and retryableStatus in it.  A read error is worth   *)
(* another try whatever the status, a failed request unless the caller's   *)
(* context is the reason.                                                  *)
(***************************************************************************)
Retryable(a, c) ==
    \/ a.status = "none" /\ ~cancelled[c]
    \/ a.status # "none" /\ a.body = "cut"
    \/ a.status = "busy" /\ a.body = "whole"

(***************************************************************************)
(* retryAfter: the header times time.Second, as a Duration.                *)
(***************************************************************************)
RetryAfter(header) == IF header < 0 THEN 0 ELSE Wrap(header * Second)

(***************************************************************************)
(* The wait that once returns with the error: the header counts only when  *)
(* the body was read.                                                      *)
(***************************************************************************)
Asked(a) ==
    IF a.body = "whole" /\ a.status \notin {"none", "ok"}
    THEN RetryAfter(a.after) ELSE 0

\* A variant of Backoff: the shift is not checked for overflow.
BackoffUnchecked(n) == Min(Wrap(BackoffBase * 2^n), MaxBackoff)

Backoff(n) ==
    LET wait == Wrap(BackoffBase * 2^n)
    IN  IF wait <= 0 \/ wait > MaxBackoff THEN MaxBackoff ELSE wait

RetryForbidden(a, c) == a.status = "forbidden" /\ ~forbiddenRetried[c]

\* A variant of RetryWait: the shorter of backoff and Retry-After.
RetryWaitShorter(a, c) ==
    LET want == IF RetryForbidden(a, c) THEN ForbiddenWait ELSE Asked(a)
        wait == Backoff(attempts[c] - 1)
    IN  IF want <= 0 THEN wait ELSE Min(want, wait - 1)

(***************************************************************************)
(* The pause before the next attempt.  That of a first 403 takes the place *)
(* of whatever its header asked for.                                       *)
(***************************************************************************)
RetryWait(a, c) ==
    LET want == IF RetryForbidden(a, c) THEN ForbiddenWait ELSE Asked(a)
    IN  Min(MaxBackoff, IF want <= 0 THEN Backoff(attempts[c] - 1) ELSE want)

-----------------------------------------------------------------------------

JevInit ==
    /\ now = 1
    /\ mu = Free
    /\ lastRequest = 0
    /\ jpc = [c \in Callers |-> "out"]
    /\ wake = [c \in Callers |-> 0]
    /\ attempts = [c \in Callers |-> 0]
    /\ forbiddenRetried = [c \in Callers |-> FALSE]
    /\ cancelled = [c \in Callers |-> FALSE]
    /\ sent = 0
    /\ heard = [c \in Callers |-> <<>>]
    /\ last = [c \in Callers |-> "nothing"]
    /\ earliest = [c \in Callers |-> 0]
    /\ pauseEnds = [c \in Callers |-> 0]

Goto(c, to) == jpc' = [jpc EXCEPT ![c] = to]

(***************************************************************************)
(* Evaluate returns: its locals are gone.                                  *)
(***************************************************************************)
Finish(c, result) ==
    /\ Goto(c, result)
    /\ wake' = [wake EXCEPT ![c] = 0]
    /\ attempts' = [attempts EXCEPT ![c] = 0]
    /\ forbiddenRetried' = [forbiddenRetried EXCEPT ![c] = FALSE]
    /\ cancelled' = [cancelled EXCEPT ![c] = FALSE]
    /\ heard' = [heard EXCEPT ![c] = <<>>]
    /\ earliest' = [earliest EXCEPT ![c] = 0]
    /\ pauseEnds' = [pauseEnds EXCEPT ![c] = 0]
    /\ UNCHANGED <<now, mu, lastRequest>>

Evaluate(c) ==
    /\ jpc[c] = "out"
    /\ Goto(c, "pace")
    /\ UNCHANGED <<now, mu, lastRequest, wake, attempts, forbiddenRetried,
                   cancelled, history>>

\* A variant of Slot: the interval counts from the present, not from the
\* last slot given.
SlotFromNow == IF lastRequest >= now THEN now + MinInterval ELSE now

(***************************************************************************)
(* pace, under the client's mutex: the slot is the later of now and one    *)
(* interval after the last slot, and is given away before the sleep.       *)
(***************************************************************************)
Slot ==
    IF lastRequest # 0 THEN Max(now, lastRequest + MinInterval) ELSE now

Lock(c) ==
    /\ jpc[c] = "pace"
    /\ mu = Free
    /\ mu' = c
    /\ Goto(c, "slot")
    /\ UNCHANGED <<now, lastRequest, wake, attempts, forbiddenRetried,
                   cancelled, history>>

\* A variant of Pace: it returns without Unlock when there is no wait.
PaceLocked(c) ==
    /\ jpc[c] = "slot"
    /\ lastRequest' = Slot
    /\ IF Slot > now
       THEN wake' = [wake EXCEPT ![c] = Slot] /\ Goto(c, "pacing") /\ mu' = Free
       ELSE UNCHANGED <<wake, mu>> /\ Goto(c, "send")
    /\ UNCHANGED <<now, attempts, forbiddenRetried, cancelled, history>>

Pace(c) ==
    /\ jpc[c] = "slot"
    /\ mu' = Free
    /\ lastRequest' = Slot
    /\ IF Slot > now
       THEN wake' = [wake EXCEPT ![c] = Slot] /\ Goto(c, "pacing")
       ELSE UNCHANGED wake /\ Goto(c, "send")
    /\ UNCHANGED <<now, attempts, forbiddenRetried, cancelled, history>>

(***************************************************************************)
(* sleep, in pace and before a retry: the select takes the timer or the    *)
(* cancelled context, either of them when both are ready.                  *)
(***************************************************************************)
Wake(c) ==
    /\ jpc[c] \in Sleeping
    /\ wake[c] <= now
    /\ wake' = [wake EXCEPT ![c] = 0]
    /\ Goto(c, IF jpc[c] = "pacing" THEN "send" ELSE "pace")
    /\ UNCHANGED <<now, mu, lastRequest, attempts, forbiddenRetried, cancelled,
                   history>>

Interrupted(c) ==
    /\ jpc[c] \in Sleeping
    /\ cancelled[c]
    /\ Finish(c, "stopped")
    /\ UNCHANGED <<sent, last>>

(***************************************************************************)
(* The head of once.  A request whose context is already cancelled fails   *)
(* before it leaves, and is not retryable.                                 *)
(***************************************************************************)
Send(c) ==
    /\ jpc[c] = "send"
    /\ UNCHANGED last
    /\ \/ /\ ~cancelled[c]
          /\ Goto(c, "call")
          /\ attempts' = [attempts EXCEPT ![c] = @ + 1]
          /\ sent' = sent + 1
          /\ earliest' = [earliest EXCEPT ![c] = 0]
          /\ pauseEnds' = [pauseEnds EXCEPT ![c] = 0]
          /\ UNCHANGED <<now, mu, lastRequest, wake, forbiddenRetried, cancelled,
                         heard>>
       \/ /\ cancelled[c]
          /\ Finish(c, "stopped")
          /\ UNCHANGED sent

(***************************************************************************)
(* What the answer was, for the record.                                    *)
(***************************************************************************)
Kind(a) ==
    CASE Good(a) -> "ok"
      [] a.status = "forbidden" /\ a.body = "cut" -> "forbidden, cut"
      [] a.status = "forbidden" /\ a.body # "cut" -> "forbidden"
      [] a.status = "busy" /\ a.body = "whole" -> "transient"
      [] a.status # "forbidden" /\ a.body = "cut" -> "transient"
      [] OTHER -> "final"

Ends(c, a, result) ==
    /\ last' = [last EXCEPT ![c] = Kind(a)]
    /\ Finish(c, result)
    /\ UNCHANGED sent

Succeed(c) ==
    /\ jpc[c] = "call"
    /\ \E a \in Answers : Good(a) /\ Ends(c, a, "ok")

(***************************************************************************)
(* The last attempt, or an error that another attempt cannot help.         *)
(***************************************************************************)
GiveUp(c) ==
    /\ jpc[c] = "call"
    /\ \E a \in Answers :
         /\ ~Good(a)
         /\ attempts[c] = Attempts \/ ~(Retryable(a, c) \/ RetryForbidden(a, c))
         /\ Ends(c, a, "failed")

(***************************************************************************)
(* Until when the server wants to be left alone, as far as the client is   *)
(* held to it: as long as the header of a readable 429, 529 or 5xx says,   *)
(* but no longer than MaxBackoff.  The header of a 403, and that of an     *)
(* answer whose body could not be read, are not kept: the client drops     *)
(* them.  One that overflows a Duration is no wish it could know.          *)
(***************************************************************************)
LeaveAlone(a) ==
    IF a.status = "busy" /\ a.body = "whole" /\ a.after > 0 /\ a.after * Second < Half
    THEN now + Min(a.after * Second, MaxBackoff) ELSE 0

Forbidden(k) == k \in {"forbidden", "forbidden, cut"}
Heard403(c) == \E j \in 1..Len(heard[c]) : Forbidden(heard[c][j])

(***************************************************************************)
(* Until when the client pauses after its first 403.                       *)
(***************************************************************************)
PauseOver(a, c) ==
    IF Forbidden(Kind(a)) /\ ~Heard403(c)
    THEN now + Min(ForbiddenWait, MaxBackoff) ELSE 0

Again(c, a) ==
    /\ ~Good(a)
    /\ Retryable(a, c) \/ RetryForbidden(a, c)
    /\ heard' = [heard EXCEPT ![c] = Append(@, Kind(a))]
    /\ earliest' = [earliest EXCEPT ![c] = LeaveAlone(a)]
    /\ pauseEnds' = [pauseEnds EXCEPT ![c] = PauseOver(a, c)]
    /\ UNCHANGED <<now, mu, lastRequest, attempts, cancelled, sent, last>>

\* A variant of Retry: the retry of a 403 is not remembered.
RetryForgetful(c) ==
    /\ jpc[c] = "call"
    /\ attempts[c] < Attempts
    /\ \E a \in Answers :
         /\ Again(c, a)
         /\ wake' = [wake EXCEPT ![c] = now + RetryWait(a, c)]
    /\ Goto(c, "backoff")
    /\ UNCHANGED forbiddenRetried

Retry(c) ==
    /\ jpc[c] = "call"
    /\ attempts[c] < Attempts
    /\ \E a \in Answers :
         /\ Again(c, a)
         /\ wake' = [wake EXCEPT ![c] = now + RetryWait(a, c)]
         /\ forbiddenRetried' =
              [forbiddenRetried EXCEPT ![c] = @ \/ RetryForbidden(a, c)]
    /\ Goto(c, "backoff")

-----------------------------------------------------------------------------

(***************************************************************************)
(* The caller gives up: its context is cancelled.                          *)
(***************************************************************************)
Cancel(c) ==
    /\ c \in Cancellable
    /\ jpc[c] \notin Over \cup {"out"}
    /\ ~cancelled[c]
    /\ cancelled' = [cancelled EXCEPT ![c] = TRUE]
    /\ UNCHANGED <<now, mu, lastRequest, jpc, wake, attempts, forbiddenRetried,
                   history>>

TimeMatters ==
    now < Horizon \/ \E c \in Callers : jpc[c] \in Sleeping /\ wake[c] > now

Tick ==
    /\ TimeMatters
    /\ now' = now + 1
    /\ UNCHANGED <<mu, lastRequest, jpc, wake, attempts, forbiddenRetried,
                   cancelled, history>>

CallStep(c) ==
    \/ Lock(c) \/ Pace(c) \/ Wake(c) \/ Interrupted(c) \/ Send(c)
    \/ Succeed(c) \/ GiveUp(c) \/ Retry(c)

(***************************************************************************)
(* Time that nobody waits for is not counted: it only passes.              *)
(***************************************************************************)
Rest == ~TimeMatters /\ UNCHANGED jevVars

JevNext ==
    \/ \E c \in Callers : Evaluate(c) \/ CallStep(c) \/ Cancel(c)
    \/ Tick
    \/ Rest

(***************************************************************************)
(* A request ends at Client.Timeout at the latest, a mutex is held for a   *)
(* few assignments, and time passes.                                       *)
(***************************************************************************)
JevFairness == WF_jevVars(Tick) /\ \A c \in Callers : WF_jevVars(CallStep(c))

JevSpec == JevInit /\ [][JevNext]_jevVars /\ JevFairness

-----------------------------------------------------------------------------

JevTypeOK ==
    /\ now \in Nat \ {0}
    /\ mu \in Callers \cup {Free}
    /\ lastRequest \in Nat
    /\ jpc \in [Callers -> {"out", "pace", "slot", "send", "call"} \cup Sleeping \cup Over]
    /\ wake \in [Callers -> Nat]
    /\ attempts \in [Callers -> 0..Attempts]
    /\ forbiddenRetried \in [Callers -> BOOLEAN]
    /\ cancelled \in [Callers -> BOOLEAN]
    /\ sent \in Nat

(***************************************************************************)
(* "MinInterval spaces requests from one client": whatever calls share it, *)
(* are late, or are cancelled while they wait for their slot, the server   *)
(* sees no more requests than there were intervals.                        *)
(***************************************************************************)
RateBound == sent > 0 => (sent - 1) * MinInterval <= now - 1

(***************************************************************************)
(* A call that went on after an answer had a reason to: the error was one  *)
(* that may pass, the answer could not be read, or it was the first 403.   *)
(* So an authentication failure that was read is never retried, and a 403  *)
(* that was read once.                                                     *)
(***************************************************************************)
RetriesAreWarranted ==
    \A c \in Callers : \A i \in 1..Len(heard[c]) :
        \/ heard[c][i] \in {"transient", "forbidden, cut"}
        \/ /\ heard[c][i] = "forbidden"
           /\ \A j \in 1..i - 1 : ~Forbidden(heard[c][j])

(***************************************************************************)
(* A call that nobody cancelled fails only for a final error, a second 403 *)
(* or after all its attempts, and succeeds only on a good answer.          *)
(***************************************************************************)
EndsAreWarranted ==
    [][\A c \in Callers :
         /\ jpc[c] # "ok" /\ jpc'[c] = "ok" => jpc[c] = "call" /\ last'[c] = "ok"
         /\ jpc[c] = "call" /\ jpc'[c] = "failed" /\ ~cancelled[c] =>
              \/ Len(heard[c]) = Max(MaxRetries, 0)
              \/ last'[c] = "final"
              \/ /\ last'[c] = "forbidden"
                 /\ Heard403(c)]_jevVars

(***************************************************************************)
(* No request leaves too early, however many callers share the client and  *)
(* however long they wait for their slots: not before the Retry-After of a *)
(* readable 429, 529 or 5xx is over, up to MaxBackoff, and not before the  *)
(* pause after the first 403 is.  The client promises more ("Retry-After   *)
(* is honoured") and drops the header of a 403, for that pause, and that   *)
(* of an answer whose body could not be read, for the backoff: these two   *)
(* are exempt.                                                             *)
(***************************************************************************)
ServerIsLeftAlone ==
    \A c \in Callers : jpc[c] = "send" =>
        now >= earliest[c] /\ now >= pauseEnds[c]

(***************************************************************************)
(* Every retry is preceded by a pause, however large the header or the     *)
(* shift, and by none longer than MaxBackoff.                              *)
(***************************************************************************)
PausesAreSane ==
    [][\A c \in Callers :
         jpc[c] = "call" /\ jpc'[c] \notin Over \cup {"call"}
           => jpc'[c] = "backoff" /\ wake'[c] \in now + 1..now + MaxBackoff]_jevVars

(***************************************************************************)
(* Every call of Evaluate returns, whatever the server answers.            *)
(***************************************************************************)
EvaluateEnds == \A c \in Callers : jpc[c] # "out" ~> jpc[c] \in Over
=============================================================================
