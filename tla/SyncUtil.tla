------------------------------ MODULE SyncUtil ------------------------------
(***************************************************************************)
(* ovirtlib.syncutil.sync: retry an operation until the caller accepts its  *)
(* outcome, an error is terminal, or the deadline passes.                   *)
(*                                                                         *)
(* One process makes one call.  The operation is opaque: every attempt ends *)
(* with any outcome in SyncOutcomes, and takes any time.  The clock is      *)
(* _monothonic_time() counted from the start of the call.                   *)
(***************************************************************************)
EXTENDS SyncDecision, Naturals

CONSTANTS
    Results,      \* what exec_func can return
    Errors,       \* the exceptions exec_func can raise
    MaxTimeout,   \* the largest timeout a caller passes
    MaxDelay      \* bound: the longest an attempt or an oversleep takes

Sleep == 3        \* time.sleep(3) between two attempts

SyncOutcomes == Results \cup Errors

ASSUME SyncAssumption ==
    /\ Results \cap Errors = {}
    /\ MaxTimeout \in Nat
    /\ MaxDelay \in Nat
    /\ "none" \notin Results \cup Errors

VARIABLES
    phase,      \* "call", "first", "test", "sleep", "retry", "done"
    accepts,    \* the outcomes on which success_criteria returns True
    breaks,     \* those on which it raises, as that of Host.wait_for_up_status does
    terminal,   \* the errors on which error_criteria returns True
    now,        \* the clock
    endTime,    \* end_time
    attempts,   \* how often exec_func was entered
    result,     \* the outcome of the last attempt
    timeout,    \* the timeout of the call
    ended       \* "pending", "returned", "raised", "timeout", or "broken" by success_criteria

params == <<accepts, breaks, terminal, timeout, endTime>>
syncVars == <<phase, params, now, attempts, result, ended>>

NoOutcome == "none"

SyncInit ==
    /\ phase = "call"
    /\ accepts = {} /\ breaks = {}
    /\ terminal = {}
    /\ now = 0
    /\ endTime = 0
    /\ attempts = 0
    /\ result = NoOutcome
    /\ ended = "pending"
    /\ timeout = 0

\* The caller: its criteria are any sets, the defaults accept everything.
Call(a, b, t, limit) ==
    /\ phase = "call"
    /\ accepts' = a /\ breaks' = b
    /\ terminal' = t
    /\ timeout' = limit
    /\ endTime' = now + limit
    /\ phase' = "first"
    /\ UNCHANGED <<now, attempts, result, ended>>

\* success_criteria is asked about an error on a retry only, and what it raises nobody catches.
Breaks(o, first) == o \in breaks /\ ~(first /\ o \in Errors)

\* One attempt ends with outcome o, having taken d units of time.
Attempt(o, d, first) ==
    LET verdict == AttemptVerdict(first, o \in Errors, o \in accepts, o \in terminal)
    IN  /\ now' = now + d
        /\ attempts' = attempts + 1
        /\ result' = o
        /\ IF Breaks(o, first)
              THEN phase' = "done" /\ ended' = "broken"
              ELSE \/ verdict = "return" /\ phase' = "done" /\ ended' = "returned"
                   \/ verdict = "raise" /\ phase' = "done" /\ ended' = "raised"
                   \/ verdict = "retry" /\ phase' = "test" /\ UNCHANGED ended
        /\ UNCHANGED params

FirstAttempt(o, d) == phase = "first" /\ Attempt(o, d, TRUE)

Retry(o, d) == phase = "retry" /\ Attempt(o, d, FALSE)

\* Mutant: <= for <, one attempt too many.
TestDeadlineLate ==
    /\ phase = "test"
    /\ \/ now <= endTime /\ phase' = "sleep" /\ UNCHANGED ended
       \/ now > endTime /\ phase' = "done" /\ ended' = "timeout"
    /\ UNCHANGED <<params, now, attempts, result>>

\* while _monothonic_time() < end_time, and raise Timeout(result) after it.
TestDeadline ==
    /\ phase = "test"
    /\ \/ now < endTime /\ phase' = "sleep" /\ UNCHANGED ended
       \/ now >= endTime /\ phase' = "done" /\ ended' = "timeout"
    /\ UNCHANGED <<params, now, attempts, result>>

\* time.sleep(3) never returns early and may return late.
SleepBetween(d) ==
    /\ phase = "sleep"
    /\ now' = now + Sleep + d
    /\ phase' = "retry"
    /\ UNCHANGED <<params, attempts, result, ended>>

Done == phase = "done" /\ UNCHANGED syncVars

Delay == 0 .. MaxDelay

\* The steps of sync itself, once it has been called.
Step ==
    \/ \E o \in SyncOutcomes, d \in Delay : FirstAttempt(o, d) \/ Retry(o, d)
    \/ TestDeadline
    \/ \E d \in Delay : SleepBetween(d)

SyncNext ==
    \/ \E a, b \in SUBSET SyncOutcomes, t \in SUBSET Errors, limit \in 0 .. MaxTimeout :
           a \cap b = {} /\ Call(a, b, t, limit)
    \/ Step
    \/ Done

\* The operation returns or raises in the end, and time goes on.
SyncSpec == SyncInit /\ [][SyncNext]_syncVars /\ WF_syncVars(Step)
-----------------------------------------------------------------------------
SyncTypeOK ==
    /\ phase \in {"call", "first", "test", "sleep", "retry", "done"}
    /\ accepts \subseteq SyncOutcomes /\ breaks \subseteq SyncOutcomes
    /\ terminal \subseteq Errors
    /\ now \in Nat /\ endTime \in Nat /\ timeout \in Nat /\ attempts \in Nat
    /\ result \in SyncOutcomes \cup {NoOutcome}
    /\ phase \notin {"call", "first"} => result \in SyncOutcomes
    /\ ended \in {"pending", "returned", "raised", "timeout", "broken"}

\* The operation has side effects on the engine, so how often it can run
\* matters: once, and then once for every 3 seconds of the timeout begun.
\* (A timeout of 0 still gives one attempt, one of 1..3 at most two.)
AttemptsBounded == attempts >= 2 => Sleep * (attempts - 2) < timeout

\* A Timeout is raised only after the deadline, and never hides an answer:
\* its last_result is neither a result the caller accepts, however late it
\* came, nor an error the caller wanted raised.
TimeoutIsHonest ==
    ended = "timeout" =>
        /\ now >= endTime
        /\ result \in SyncOutcomes
        /\ result \notin (accepts \cup breaks) \cap Results
        /\ result \notin terminal

Contract == INSTANCE SyncContract WITH
    status <- IF phase = "call" THEN "idle" ELSE ended,
    outcome <- result

\* The docstring, 45-60: whatever the criteria, an error that error_criteria calls terminal
\* is raised back to the caller, on a retry as on the first attempt.
KeepsDocstring == Contract!Spec

\* On a retry success_criteria is asked about an error first, and may accept it.
ReturnsTerminalError ==
    phase = "retry" /\ result' \in accepts \cap terminal /\ ended' = "returned"

\* sync implements its contract, for any criteria, but for this one step: a terminal error
\* is returned only if it came on a retry and success_criteria (by default, everything)
\* accepts it.
RefinesContract ==
    Contract!Init /\ [][Contract!Next \/ ReturnsTerminalError]_(Contract!vars)
=============================================================================
