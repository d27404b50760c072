---------------------------- MODULE LibraryProofs ----------------------------
(* What the components every suite is built from guarantee: SyncUtil for any *)
(* outcomes and timeouts, VectorThread for any number of targets, and Facts   *)
(* for any threads that share the facts of a VM.                             *)
EXTENDS SyncUtil, ThreadedFacts, TLAPS
-----------------------------------------------------------------------------
(* SyncUtil. *)

\* The clock has moved on by one sleep for every attempt after the first, and
\* a sleep is begun only before the deadline.
ClockInv ==
    /\ phase = "call" => now = 0 /\ attempts = 0
    /\ phase = "first" => attempts = 0
    /\ phase # "call" => endTime = timeout
    /\ phase \in {"test", "sleep", "done"} => attempts >= 1 /\ now >= Sleep * (attempts - 1)
    /\ phase = "sleep" => Sleep * (attempts - 1) < timeout
    /\ phase = "retry" => /\ attempts >= 1
                       /\ now >= Sleep * attempts
                       /\ Sleep * (attempts - 1) < timeout
    /\ AttemptsBounded

\* While the call is undecided its last outcome settled nothing.
VerdictInv ==
    /\ ended = "pending" <=> phase # "done"
    /\ phase \in {"test", "sleep", "retry"} =>
           result \notin (accepts \cup breaks) \cap Results /\ result \notin terminal
    /\ TimeoutIsHonest

SyncInv == SyncTypeOK /\ ClockInv /\ VerdictInv

\* The initial state satisfies the inductive invariant.
LEMMA SyncInitInv == SyncInit => SyncInv
BY SyncAssumption DEF SyncInit, SyncInv, SyncTypeOK, ClockInv, VerdictInv, AttemptsBounded,
   TimeoutIsHonest, NoOutcome, SyncOutcomes

\* What one attempt does, whichever try statement runs it: a verdict other
\* than "retry" is justified by the caller's criteria.
LEMMA AttemptEffect ==
    ASSUME NEW o, NEW d, NEW first \in BOOLEAN, Attempt(o, d, first)
    PROVE  /\ now' = now + d /\ attempts' = attempts + 1 /\ result' = o
           /\ UNCHANGED params
           /\ \/ /\ o \in accepts /\ phase' = "done" /\ ended' = "returned"
                 /\ o \in Errors => ~first
              \/ o \in Errors /\ o \in terminal /\ phase' = "done" /\ ended' = "raised"
              \/ o \in breaks /\ phase' = "done" /\ ended' = "broken"
              \/ /\ ~(o \in accepts \cup breaks /\ o \notin Errors)
                 /\ ~(o \in Errors /\ o \in terminal)
                 /\ phase' = "test" /\ ended' = ended
<1>1. /\ now' = now + d /\ attempts' = attempts + 1 /\ result' = o
      /\ UNCHANGED params
  BY DEF Attempt
<1>2. CASE first
  BY <1>2 DEF Attempt, AttemptVerdict, FirstVerdict, Breaks
<1>3. CASE ~first
  BY <1>3 DEF Attempt, AttemptVerdict, RetryVerdict, Breaks
<1> QED  BY <1>1, <1>2, <1>3

\* One attempt, first or not, from a state in which attempts may run.
LEMMA AttemptInv ==
    ASSUME SyncInv, NEW o \in SyncOutcomes, NEW d \in Delay, NEW first \in BOOLEAN,
           Attempt(o, d, first), phase = IF first THEN "first" ELSE "retry"
    PROVE  SyncInv'
<1>1. d \in Nat
  BY SyncAssumption DEF Delay
<1>2. SyncTypeOK'
  BY <1>1, AttemptEffect DEF SyncInv, SyncTypeOK, params
<1>3. ClockInv'
  BY <1>1, AttemptEffect DEF SyncInv, SyncTypeOK, ClockInv, AttemptsBounded, Sleep, params
<1>4. VerdictInv'
  BY AttemptEffect, SyncAssumption
     DEF SyncInv, SyncTypeOK, VerdictInv, TimeoutIsHonest, params, SyncOutcomes
<1> QED  BY <1>2, <1>3, <1>4 DEF SyncInv

\* Every step preserves the inductive invariant.
LEMMA SyncNextInv == SyncInv /\ [SyncNext]_syncVars => SyncInv'
<1> SUFFICES ASSUME SyncInv, [SyncNext]_syncVars PROVE SyncInv'
  OBVIOUS
<1>1. ASSUME NEW a \in SUBSET SyncOutcomes, NEW b \in SUBSET SyncOutcomes,
             NEW t \in SUBSET Errors, NEW limit \in 0 .. MaxTimeout, Call(a, b, t, limit)
      PROVE  SyncInv'
  BY <1>1, SyncAssumption
     DEF Call, SyncInv, SyncTypeOK, ClockInv, VerdictInv, AttemptsBounded, TimeoutIsHonest, Sleep
<1>2. ASSUME NEW o \in SyncOutcomes, NEW d \in Delay, FirstAttempt(o, d)
      PROVE  SyncInv'
  BY <1>2, AttemptInv DEF FirstAttempt
<1>3. ASSUME NEW o \in SyncOutcomes, NEW d \in Delay, Retry(o, d)
      PROVE  SyncInv'
  BY <1>3, AttemptInv DEF Retry
<1>4. CASE TestDeadline
  BY <1>4 DEF TestDeadline, SyncInv, SyncTypeOK, ClockInv, VerdictInv, AttemptsBounded,
     TimeoutIsHonest, Sleep, params
<1>5. ASSUME NEW d \in Delay, SleepBetween(d)
      PROVE  SyncInv'
  <2>1. d \in Nat
    BY SyncAssumption DEF Delay
  <2> QED
    BY <1>5, <2>1 DEF SleepBetween, SyncInv, SyncTypeOK, ClockInv, VerdictInv, AttemptsBounded,
       TimeoutIsHonest, Sleep, params
<1>6. CASE UNCHANGED syncVars
  BY <1>6 DEF syncVars, params, SyncInv, SyncTypeOK, ClockInv, VerdictInv, AttemptsBounded, TimeoutIsHonest
<1> QED
  BY <1>1, <1>2, <1>3, <1>4, <1>5, <1>6 DEF SyncNext, Step, Done

\* The inductive invariant holds throughout.
LEMMA SyncInvariance == SyncSpec => []SyncInv
BY SyncInitInv, SyncNextInv, PTL DEF SyncSpec

\* Type correctness, and result is bound wherever sync reads it.
THEOREM SyncTypeCorrect == SyncSpec => []SyncTypeOK
BY SyncInvariance, PTL DEF SyncInv

\* sync runs the operation at most once plus once per started sleep.
THEOREM BoundedAttempts == SyncSpec => []AttemptsBounded
BY SyncInvariance, PTL DEF SyncInv, ClockInv

\* A Timeout is late and hides neither an answer nor a terminal error.
THEOREM HonestTimeout == SyncSpec => []TimeoutIsHonest
BY SyncInvariance, PTL DEF SyncInv, VerdictInv

\* Every step of an attempt is a step of the contract, or returns a terminal error of a retry.
LEMMA AttemptStep ==
    ASSUME SyncInv, NEW o \in SyncOutcomes, NEW d \in Delay, NEW first \in BOOLEAN,
           Attempt(o, d, first), phase = IF first THEN "first" ELSE "retry"
    PROVE  Contract!Next \/ ReturnsTerminalError
<1>1. phase # "call" /\ phase' # "call" /\ ended = "pending"
  BY AttemptEffect DEF SyncInv, VerdictInv
<1>2. CASE o \in accepts /\ ended' = "returned" /\ (o \in Errors => ~first)
  <2>1. CASE o \in terminal
    BY <1>2, <2>1, AttemptEffect DEF ReturnsTerminalError, SyncInv, SyncTypeOK
  <2>2. CASE o \notin terminal
    BY <1>1, <1>2, <2>2, AttemptEffect
       DEF Contract!Next, Contract!Return, Contract!Outcomes, Contract!criteria, SyncOutcomes, params
  <2> QED  BY <2>1, <2>2
<1>3. CASE o \in terminal /\ ended' = "raised"
  BY <1>1, <1>3, AttemptEffect
     DEF Contract!Next, Contract!Raise, Contract!Outcomes, Contract!criteria, SyncOutcomes, params
<1>4. CASE o \in breaks /\ ended' = "broken"
  BY <1>1, <1>4, AttemptEffect
     DEF Contract!Next, Contract!Break, Contract!Outcomes, Contract!criteria, SyncOutcomes, params
<1>5. CASE /\ ~(o \in accepts \cup breaks /\ o \notin Errors)
           /\ ~(o \in Errors /\ o \in terminal)
           /\ ended' = ended
  <2>1. Contract!KeepTrying(o)
    BY <1>1, <1>5, AttemptEffect, SyncAssumption
       DEF Contract!KeepTrying, Contract!Unsettled, Contract!Outcomes, Contract!criteria,
           SyncOutcomes, params, SyncInv, SyncTypeOK
  <2> QED  BY <2>1 DEF Contract!Next, Contract!Outcomes, SyncOutcomes
<1> QED  BY <1>2, <1>3, <1>4, <1>5, AttemptEffect

\* sync implements what its docstring promises, but for a terminal error of a retry that
\* success_criteria accepts.
THEOREM ContractHolds == SyncSpec => RefinesContract
<1>1. SyncInit => Contract!Init
  BY DEF SyncInit, Contract!Init, NoOutcome, Contract!NoOutcome
<1>2. SyncInv /\ [SyncNext]_syncVars => [Contract!Next \/ ReturnsTerminalError]_(Contract!vars)
  <2> SUFFICES ASSUME SyncInv, [SyncNext]_syncVars
               PROVE  [Contract!Next \/ ReturnsTerminalError]_(Contract!vars)
    OBVIOUS
  <2>1. ASSUME NEW a \in SUBSET SyncOutcomes, NEW b \in SUBSET SyncOutcomes,
               NEW t \in SUBSET Errors, NEW limit \in 0 .. MaxTimeout, Call(a, b, t, limit)
        PROVE  Contract!Request
    BY <2>1 DEF Call, Contract!Request, Contract!Outcomes, SyncOutcomes, SyncInv, VerdictInv
  <2>2. ASSUME NEW o \in SyncOutcomes, NEW d \in Delay, FirstAttempt(o, d) \/ Retry(o, d)
        PROVE  Contract!Next \/ ReturnsTerminalError
    BY <2>2, AttemptStep DEF FirstAttempt, Retry
  <2>3. CASE TestDeadline
    <3>1. CASE now < endTime
      BY <2>3, <3>1 DEF TestDeadline, params, Contract!criteria, Contract!vars, SyncInv, SyncTypeOK
    <3>2. CASE now >= endTime
      <4>1. Contract!GiveUp
        BY <2>3, <3>2 DEF TestDeadline, params, Contract!criteria, Contract!GiveUp, Contract!Unsettled,
           Contract!Outcomes, SyncOutcomes, SyncInv, SyncTypeOK, VerdictInv
      <4> QED  BY <4>1 DEF Contract!Next
    <3> QED  BY <2>3, <3>1, <3>2 DEF TestDeadline
  <2>4. ASSUME NEW d \in Delay, SleepBetween(d)
        PROVE  UNCHANGED Contract!vars
    BY <2>4 DEF SleepBetween, params, Contract!criteria, Contract!vars
  <2>5. CASE UNCHANGED syncVars
    BY <2>5 DEF syncVars, params, Contract!criteria, Contract!vars
  <2> QED
    BY <2>1, <2>2, <2>3, <2>4, <2>5 DEF SyncNext, Step, Done, Contract!Next
<1> QED
  BY <1>1, <1>2, SyncInvariance, PTL DEF SyncSpec, RefinesContract
-----------------------------------------------------------------------------
(* VectorThread. *)

Outcome(k, t) == [kind |-> k, of |-> t]
Slots == {<<>>} \cup {<<Outcome(k, t)>> : k \in Outcomes, t \in Targets}

\* The variables that TypeOK bounds, and the queues in full.
Typing ==
    /\ n \in 0 .. MaxTargets
    /\ thread \in [Targets -> {"new", "running", "ended", "died"}]
    /\ queue \in [Targets -> Slots]
    /\ pc \in {"start", "call", "join", "get", "scan"}
    /\ i \in 1 .. MaxTargets + 1
    /\ raising \in BOOLEAN
    /\ joins \in 0 .. 2
    /\ outcome \in [kind : {"pending", "stored", "returned", "raised"}, at : Nat]

\* A queue holds nothing, or the outcome of its own thread, which has ended.
QueueInv ==
    \A t \in Targets :
        queue[t] # <<>> =>
            thread[t] = "ended" /\ \E k \in Outcomes : queue[t] = <<Outcome(k, t)>>

\* How far the loops of start_all and of join_all have come.
LoopInv ==
    /\ pc = "start" => \A t \in Targets : t < i <=> thread[t] # "new"
    /\ pc # "start" => \A t \in 1 .. n : thread[t] # "new"
    /\ pc = "join" => i <= n + 1 /\ \A t \in 1 .. n : t < i => ~IsAlive(t)
    /\ pc \in {"get", "scan"} \/ (pc = "call" /\ joins > 0) =>
           \A t \in 1 .. n : ~IsAlive(t)

IsResults == DOMAIN results = 1 .. n
             /\ \A t \in 1 .. n : \E k \in Outcomes : results[t] = Outcome(k, t)

\* Results are stored once, by the join_all that gets them.
ResultInv ==
    /\ results = NoResults \/ IsResults
    /\ pc \in {"start", "join", "get"} => results = NoResults
    /\ pc = "scan" => IsResults
    /\ pc = "start" => joins = 0
    /\ joins = 0 => results = NoResults /\ pc \in {"start", "call"}
    /\ pc # "call" \/ joins = 0 => outcome = Pending
    /\ outcome.kind \in {"returned", "raised"} => IsResults

IInv == Typing /\ QueueInv /\ LoopInv /\ ResultInv /\ NoLostFailure /\ FirstFailureReported

USE VectorThreadAssumption DEF Targets, IsAlive, Outcomes, NoResults

\* The initial state satisfies the inductive invariant.
LEMMA InitInv == Init => IInv
<1> SUFFICES ASSUME Init PROVE IInv
  OBVIOUS
<1>1. Typing
  BY DEF Init, Typing, Slots, Pending
<1>2. QueueInv /\ LoopInv
  BY DEF Init, QueueInv, LoopInv
<1>3. ResultInv /\ NoLostFailure /\ FirstFailureReported
  BY DEF Init, ResultInv, NoLostFailure, FirstFailureReported, Pending
<1> QED  BY <1>1, <1>2, <1>3 DEF IInv

\* start_all starts threads in the order of the targets.
LEMMA StartInv == IInv /\ Start => IInv'
<1> SUFFICES ASSUME IInv, Start PROVE IInv'
  OBVIOUS
<1>1. Typing'
  BY DEF IInv, Typing, Start
<1>2. QueueInv'
  BY DEF IInv, Typing, QueueInv, ResultInv, LoopInv, Start
<1>3. LoopInv'
  BY DEF IInv, Typing, LoopInv, ResultInv, Start
<1>4. ResultInv' /\ NoLostFailure' /\ FirstFailureReported'
  BY DEF IInv, ResultInv, IsResults, NoLostFailure, FirstFailureReported, Start, Raised, Pending
<1> QED  BY <1>1, <1>2, <1>3, <1>4 DEF IInv

\* A thread puts one outcome, its own, before it ends.
LEMMA FinishInv ==
    ASSUME IInv, NEW t \in Targets, NEW end \in Ends, Finish(t, end)
    PROVE  IInv'
<1>1. queue[t] = <<>>
  BY DEF IInv, QueueInv, Finish
<1>2. \/ end \in Outcomes /\ queue' = [queue EXCEPT ![t] = <<Outcome(end, t)>>]
      \/ queue' = queue
  BY <1>1 DEF Finish, Outcome, IInv, Typing
<1>3. Typing'
  <2>1. queue' \in [Targets -> Slots]
    BY <1>2 DEF IInv, Typing, Slots
  <2> QED  BY <2>1 DEF IInv, Typing, Finish
<1>4. QueueInv'
  <2> SUFFICES ASSUME NEW u \in Targets, queue'[u] # <<>>
               PROVE  thread'[u] = "ended" /\ \E k \in Outcomes : queue'[u] = <<Outcome(k, u)>>
    BY DEF QueueInv
  <2>1. CASE u = t
    BY <2>1, <1>1, <1>2 DEF IInv, Typing, Finish, Ends
  <2>2. CASE u # t
    BY <2>2, <1>2 DEF IInv, Typing, QueueInv, Finish
  <2> QED  BY <2>1, <2>2
<1>5. LoopInv'
  BY DEF IInv, Typing, LoopInv, Finish
<1>6. ResultInv' /\ NoLostFailure' /\ FirstFailureReported'
  BY DEF IInv, ResultInv, IsResults, NoLostFailure, FirstFailureReported, Finish, Raised
<1> QED  BY <1>3, <1>4, <1>5, <1>6 DEF IInv

\* join_all: a new call, or the results of the first one again.
LEMMA JoinAllInv ==
    ASSUME IInv, NEW r \in BOOLEAN, JoinAll(r)
    PROVE  IInv'
<1>1. Typing'
  BY DEF IInv, Typing, JoinAll, Pending
<1>2. QueueInv'
  BY DEF IInv, QueueInv, JoinAll
<1>3. joins' > 0 /\ (results # NoResults => joins > 0)
  BY DEF IInv, Typing, ResultInv, JoinAll
<1>4. LoopInv'
  BY <1>3 DEF IInv, Typing, LoopInv, ResultInv, JoinAll
<1>5. ResultInv' /\ NoLostFailure' /\ FirstFailureReported'
  BY <1>3 DEF IInv, ResultInv, IsResults, NoLostFailure, FirstFailureReported, JoinAll, Pending
<1> QED  BY <1>1, <1>2, <1>4, <1>5 DEF IInv

\* The loop of joins passes a thread only when it has ended.
LEMMA JoinInv == IInv /\ Join => IInv'
<1> SUFFICES ASSUME IInv, Join PROVE IInv'
  OBVIOUS
<1>1. Typing'
  BY DEF IInv, Typing, Join, LoopInv
<1>2. QueueInv'
  BY DEF IInv, QueueInv, Join
<1>3. LoopInv'
  BY DEF IInv, Typing, LoopInv, Join
<1>4. ResultInv' /\ NoLostFailure' /\ FirstFailureReported'
  BY DEF IInv, ResultInv, IsResults, NoLostFailure, FirstFailureReported, Join, Raised, Pending
<1> QED  BY <1>1, <1>2, <1>3, <1>4 DEF IInv

\* Every queue is asked for the outcome of its thread.
LEMMA GetInv == IInv /\ Get => IInv'
<1> SUFFICES ASSUME IInv, Get PROVE IInv'
  OBVIOUS
<1>1. \A t \in 1 .. n : t \in Targets
  BY DEF IInv, Typing
<1>2. IsResults'
  <2>1. DOMAIN results' = 1 .. n
    BY DEF Get
  <2>2. ASSUME NEW t \in 1 .. n PROVE \E k \in Outcomes : results'[t] = Outcome(k, t)
    <3>1. PICK k \in Outcomes : queue[t] = <<Outcome(k, t)>>
      BY <1>1 DEF IInv, QueueInv, Get
    <3>2. results'[t] = Outcome(k, t)
      BY <3>1 DEF Get
    <3> QED  BY <3>2
  <2>3. n' = n
    BY DEF Get
  <2> QED  BY <2>1, <2>2, <2>3 DEF IsResults
<1>3. Typing' /\ QueueInv'
  BY DEF IInv, Typing, QueueInv, Get, Slots
<1>4. LoopInv'
  BY DEF IInv, Typing, LoopInv, Get
<1>5. ResultInv' /\ NoLostFailure' /\ FirstFailureReported'
  BY <1>2 DEF IInv, ResultInv, NoLostFailure, FirstFailureReported, Get, Pending
<1> QED  BY <1>3, <1>4, <1>5 DEF IInv

\* The results are scanned for the first exception.
LEMMA ScanInv == IInv /\ Scan => IInv'
<1> SUFFICES ASSUME IInv, Scan PROVE IInv'
  OBVIOUS
<1>1. IsResults /\ Raised \subseteq 1 .. n
  BY DEF IInv, ResultInv, Scan, IsResults, Raised
<1>2. Typing'
  BY <1>1 DEF IInv, Typing, Scan
<1>3. QueueInv' /\ LoopInv'
  BY DEF IInv, QueueInv, LoopInv, Scan
<1>4. IsResults' /\ Raised' = Raised
  BY <1>1 DEF IsResults, Raised, Scan
<1>5. ResultInv'
  BY <1>4 DEF IInv, ResultInv, Scan
<1>6. NoLostFailure'
  BY <1>4 DEF NoLostFailure, IsResults, Scan
<1>7. FirstFailureReported'
  <2> SUFFICES ASSUME outcome'.kind = "raised"
               PROVE  /\ outcome'.at \in Raised'
                      /\ \A t \in 1 .. outcome'.at - 1 : results'[t].kind = "return"
    BY DEF FirstFailureReported
  <2>1. PICK t \in Raised : /\ \A u \in Raised : t <= u
                            /\ outcome' = [kind |-> "raised", at |-> t]
    BY DEF Scan
  <2>2. ASSUME NEW u \in 1 .. t - 1 PROVE results[u].kind = "return"
    <3>1. u \in 1 .. n /\ u \notin Raised
      BY <1>1, <2>1 DEF IInv, Typing
    <3>2. PICK k \in Outcomes : results[u] = Outcome(k, u)
      BY <3>1, <1>1 DEF IsResults
    <3>3. k # "exception"
      BY <3>1, <3>2, <1>1 DEF Raised, IsResults, Outcome
    <3> QED  BY <3>2, <3>3 DEF Outcome
  <2>3. results' = results
    BY DEF Scan
  <2> QED  BY <2>1, <2>2, <2>3, <1>4
<1> QED  BY <1>2, <1>3, <1>5, <1>6, <1>7 DEF IInv

\* Every step preserves the inductive invariant.
LEMMA NextInv == IInv /\ [Next]_vars => IInv'
<1> SUFFICES ASSUME IInv, [Next]_vars PROVE IInv'
  OBVIOUS
<1>1. CASE Start  BY <1>1, StartInv
<1>2. CASE \E r \in BOOLEAN : JoinAll(r)  BY <1>2, JoinAllInv
<1>3. CASE Join  BY <1>3, JoinInv
<1>4. CASE Get  BY <1>4, GetInv
<1>5. CASE Scan  BY <1>5, ScanInv
<1>6. CASE \E t \in Targets, end \in Ends : Finish(t, end)  BY <1>6, FinishInv
<1>7. CASE UNCHANGED vars
  BY <1>7 DEF vars, IInv, Typing, QueueInv, LoopInv, ResultInv, IsResults, NoLostFailure,
     FirstFailureReported, Raised
<1> QED  BY <1>1, <1>2, <1>3, <1>4, <1>5, <1>6, <1>7 DEF Next, Caller

\* The inductive invariant holds throughout.
LEMMA Invariance == Spec => []IInv
BY InitInv, NextInv, PTL DEF Spec

\* Types: among others, no queue ever holds a second outcome.
THEOREM TypeCorrect == Spec => []TypeOK
<1>1. IInv => TypeOK
  <2> SUFFICES ASSUME IInv PROVE TypeOK
    OBVIOUS
  <2>1. ASSUME NEW t \in Targets PROVE Len(queue[t]) <= 1
    <3>1. queue[t] = <<>> \/ \E k \in Outcomes : queue[t] = <<Outcome(k, t)>>
      BY DEF IInv, QueueInv
    <3>2. CASE queue[t] = <<>>
      BY <3>2
    <3>3. ASSUME NEW k \in Outcomes, queue[t] = <<Outcome(k, t)>> PROVE Len(queue[t]) <= 1
      BY <3>3
    <3> QED  BY <3>1, <3>2, <3>3
  <2> QED  BY <2>1 DEF IInv, Typing, TypeOK
<1> QED  BY <1>1, Invariance, PTL

\* However many threads there are and however they end, no caller goes on,
\* not even with an exception, while one of them is running.
THEOREM NoThreadIsLeft == Spec => []NoOrphans
<1>1. IInv => NoOrphans
  BY DEF IInv, LoopInv, NoOrphans
<1> QED  BY <1>1, Invariance, PTL

\* Results are in the order of the targets, for any order of the threads.
THEOREM ResultsAreInOrder == Spec => []ResultsInOrder
<1>1. IInv => ResultsInOrder
  <2>1. CASE results = <<>>
    BY <2>1 DEF ResultsInOrder
  <2>2. CASE IsResults
    BY <2>2 DEF IsResults, ResultsInOrder, Outcome
  <2> QED  BY <2>1, <2>2 DEF IInv, ResultInv
<1> QED  BY <1>1, Invariance, PTL

\* A join_all that returns hides no exception and no dead thread.
THEOREM FailuresAreKept == Spec => []NoLostFailure
BY Invariance, PTL DEF IInv

\* The exception that is raised is that of the first target that failed.
THEOREM FirstFailureIsReported == Spec => []FirstFailureReported
BY Invariance, PTL DEF IInv

\* What join_all lets its caller conclude is so.
THEOREM JoinsAreHonest == Spec => []JoinIsHonest
BY ResultsAreInOrder, FailuresAreKept, FirstFailureIsReported, PTL DEF JoinIsHonest

-----------------------------------------------------------------------------
(* Threads that share a Facts object.                                        *)

\* A thread that asks its own directory has gathered into it.
GatheredInv ==
    \A t \in Threads :
        gathered[t] \/ step[t] \in {"lookup", "index", "debug", "store"} => dir[t] # 0

\* A call that has not ended has no answer yet.
AnswerInv == \A t \in Threads : step[t] # "idle" => answer[t] = None

\* A thread that is alone finds nothing in the cache that is older than what it gathered, and
\* nothing at all where it is about to gather.
AloneInv ==
    \A t \in Threads : users = {t} =>
        /\ \A f \in Names : cache[f] # 0 => cache[f] >= dir[t] /\ step[t] # "gather"
        /\ step[t] = "store" \/ answer[t] = "value" => value[t] >= dir[t]

FactsInv == FactsTypeOK /\ GatheredInv /\ AnswerInv /\ NotFoundIsTrue /\ AloneInv

\* A new object: nobody has gathered, nothing is cached.
LEMMA FactsInitInv == FactsInit => FactsInv
<1> SUFFICES ASSUME FactsInit PROVE FactsInv
  OBVIOUS
<1>1. 0 \in 0 .. MaxGets /\ 1 \in Versions
  BY FactsAssumption DEF Versions
<1>2. FactsTypeOK
  BY <1>1 DEF FactsInit, FactsTypeOK, Answers, None
<1> QED  BY <1>2 DEF FactsInit, FactsInv, GatheredInv, AnswerInv, NotFoundIsTrue, AloneInv, None

\* A call begins: get goes straight to the cache only if its thread has gathered.
LEMMA CallKeeps ==
    ASSUME FactsInv, NEW t \in users, (\E f \in Names : GetFact(t, f)) \/ Refresh(t)
    PROVE  FactsInv'
<1> USE DEF FactsInv, vm, At, None
<1>1. t \in Threads /\ gets[t] + 1 \in 0 .. MaxGets
  BY FactsAssumption DEF FactsTypeOK, GetFact, Refresh
<1>2. FactsTypeOK'
  BY <1>1 DEF FactsTypeOK, GetFact, Refresh, Answers
<1>3. (GatheredInv /\ AnswerInv /\ NotFoundIsTrue)'
  BY <1>1 DEF FactsTypeOK, GetFact, Refresh, GatheredInv, AnswerInv, NotFoundIsTrue
<1>4. AloneInv'
  BY <1>1 DEF FactsTypeOK, GetFact, Refresh, AloneInv, GatheredInv
<1> QED  BY <1>2, <1>3, <1>4

\* The two steps of refresh.
LEMMA RefreshKeeps ==
    ASSUME FactsInv, NEW t \in users, Clear(t) \/ Gather(t)
    PROVE  FactsInv'
<1> USE DEF FactsInv, vm, locals, At, Return, None
<1>1. t \in Threads /\ version \in Nat \ {0}
  BY DEF FactsTypeOK, Versions
<1>2. FactsTypeOK'
  <2>1. CASE Clear(t)
    BY <1>1, <2>1 DEF FactsTypeOK, Clear
  <2>2. CASE Gather(t)
    <3>1. /\ dir' \in [Threads -> Versions \cup {0}] /\ gathered' \in [Threads -> BOOLEAN]
          /\ answer' \in [Threads -> Answers]
      BY <1>1, <2>2 DEF FactsTypeOK, Gather, Answers
    <3>2. \/ step' = [step EXCEPT ![t] = "idle"]
          \/ step' = [step EXCEPT ![t] = "lookup"] /\ want[t] \in Names
      BY <1>1, <2>2 DEF FactsTypeOK, Gather
    <3> QED  BY <1>1, <2>2, <3>1, <3>2 DEF FactsTypeOK, Gather
  <2> QED  BY <2>1, <2>2
<1>3. (GatheredInv /\ AnswerInv /\ NotFoundIsTrue)'
  BY <1>1 DEF FactsTypeOK, Clear, Gather, GatheredInv, AnswerInv, NotFoundIsTrue
<1>4. AloneInv'
  BY <1>1 DEF FactsTypeOK, Clear, Gather, AnswerInv, AloneInv
<1> QED  BY <1>2, <1>3, <1>4

\* get: from the cache, or from the directory of its thread.
LEMMA AnswerKeeps ==
    ASSUME FactsInv, NEW t \in users, Lookup(t) \/ Index(t) \/ Debug(t) \/ Store(t)
    PROVE  FactsInv'
<1> USE DEF FactsInv, vm, locals, At, Return, None
<1>1. t \in Threads /\ (step[t] \in {"lookup", "index", "debug", "store"} => want[t] \in Names)
      /\ \A u \in Threads : dir[u] \in Nat
  BY DEF FactsTypeOK, Versions
<1>2. FactsTypeOK'
  <2>1. CASE Lookup(t)
    BY <1>1, <2>1 DEF FactsTypeOK, Lookup
  <2>2. CASE Index(t)
    BY <1>1, <2>2 DEF FactsTypeOK, Index, Answers
  <2>3. CASE Debug(t)
    BY <1>1, <2>3 DEF FactsTypeOK, Debug, Found, Answers
  <2>4. CASE Store(t)
    BY <1>1, <2>4 DEF FactsTypeOK, Store, Answers
  <2> QED  BY <2>1, <2>2, <2>3, <2>4
<1>3. (GatheredInv /\ AnswerInv)'
  BY <1>1 DEF FactsTypeOK, Lookup, Index, Debug, Store, GatheredInv, AnswerInv
<1>4. NotFoundIsTrue'
  BY <1>1 DEF FactsTypeOK, Lookup, Index, Debug, Found, Store, GatheredInv, NotFoundIsTrue
<1>5. AloneInv'
  <2>1. CASE Lookup(t)
    BY <1>1, <2>1 DEF FactsTypeOK, Lookup, AloneInv
  <2>2. CASE Index(t)
    BY <1>1, <2>2 DEF FactsTypeOK, Index, AloneInv
  <2>3. CASE Debug(t)
    BY <1>1, <2>3 DEF FactsTypeOK, Debug, AnswerInv, AloneInv
  <2>4. CASE Store(t)
    BY <1>1, <2>4 DEF FactsTypeOK, Store, AloneInv
  <2> QED  BY <2>1, <2>2, <2>3, <2>4
<1> QED  BY <1>2, <1>3, <1>4, <1>5

\* Every step of a thread that uses the object, and a change of the VM.
LEMMA FactsNextInv == FactsInv /\ [FactsNext]_factsVars => FactsInv'
<1> SUFFICES ASSUME FactsInv, [FactsNext]_factsVars PROVE FactsInv'
  OBVIOUS
<1>1. CASE Change
  <2>1. version' \in Versions
    BY <1>1, FactsAssumption DEF FactsInv, FactsTypeOK, Change, Versions
  <2> QED  BY <1>1, <2>1 DEF Change, FactsInv, FactsTypeOK, GatheredInv, AnswerInv, NotFoundIsTrue, AloneInv, locals
<1>2. CASE UNCHANGED factsVars
  BY <1>2 DEF factsVars, vm, locals, FactsInv, FactsTypeOK, GatheredInv, AnswerInv, NotFoundIsTrue, AloneInv
<1> QED  BY <1>1, <1>2, CallKeeps, RefreshKeeps, AnswerKeeps DEF FactsNext, Inside

\* The inductive invariant of the facts.
LEMMA FactsInvariance == FactsSpec => []FactsInv
<1> QED  BY FactsInitInv, FactsNextInv, PTL DEF FactsSpec

\* Every variable of a Facts object and of its threads keeps its type, and a thread that is
\* past the gathering wants a fact, however many threads share the object.
THEOREM FactsTypeCorrect == FactsSpec => []FactsTypeOK
BY FactsInvariance, PTL DEF FactsInv

\* Whatever threads share the object, however their steps mix and the VM changes, FactNotFound
\* is raised only for a fact that was not there when the thread itself gathered last.
THEOREM MissingFactsAreMissing == FactsSpec => []NotFoundIsTrue
BY FactsInvariance, PTL DEF FactsInv

\* A thread that has the object for itself is never answered with something older than what it
\* gathered last: refresh empties the cache before it gathers.
THEOREM LoneUserIsFresh == FactsSpec => []Fresh
<1>1. FactsInv => Fresh
  BY DEF FactsInv, AloneInv, FactsTypeOK, Fresh
<1> QED  BY <1>1, FactsInvariance, PTL

-----------------------------------------------------------------------------
(* The threads of a VectorThread that share the facts.                        *)

\* Threads started by a VectorThread that use one Facts object with their caller keep to both
\* specifications: what is proved of each of the two holds when they run together.
THEOREM TogetherAsAlone ==
    ThreadedSpec => FactsSpec /\ Init /\ [][Next]_vars
<1>1. ThreadedInit => Init /\ FactsInit
  BY DEF ThreadedInit
<1>2. ASSUME FactsInv, [ThreadedNext]_<<vars, factsVars>>
      PROVE  [Next]_vars /\ [FactsNext]_factsVars
  <2>1. ASSUME NEW t, UseFacts(t) PROVE UNCHANGED vars /\ FactsNext
    BY <2>1 DEF UseFacts, FactsNext
  <2>2. ASSUME NEW t \in Targets, TargetTurn(t), UNCHANGED factsVars,
               NEW end \in EndOf(t), Finish(t, end)
        PROVE  Next
    <3>1. end \in Ends
      BY <2>2 DEF EndOf, Ends, Outcomes
    <3> QED  BY <2>2, <3>1 DEF Next
  <2>3. CASE CallerTurn
    BY <2>1, <2>3 DEF CallerTurn, Next
  <2>4. ASSUME NEW t \in Targets, TargetTurn(t) PROVE [Next]_vars /\ [FactsNext]_factsVars
    BY <2>1, <2>2, <2>4 DEF TargetTurn
  <2>5. CASE Change /\ UNCHANGED vars
    BY <2>5 DEF FactsNext
  <2> QED  BY <1>2, <2>3, <2>4, <2>5 DEF ThreadedNext
<1>3. FactsInv /\ [FactsNext]_factsVars => FactsInv'
  BY FactsNextInv
<1>4. ThreadedSpec => []FactsInv
  BY <1>1, <1>2, <1>3, FactsInitInv, PTL DEF ThreadedSpec
<1> QED  BY <1>1, <1>2, <1>4, PTL DEF ThreadedSpec, FactsSpec

\* So with any number of threads, targets and calls: no caller goes on while a target runs or is
\* misled by a join_all, and no thread is told that a fact is missing which it had gathered.
THEOREM SharedFactsAreSafe ==
    ThreadedSpec => [](NoOrphans /\ JoinIsHonest /\ NotFoundIsTrue /\ Fresh)
<1>1. IInv => NoOrphans /\ NoLostFailure /\ FirstFailureReported
  BY DEF IInv, LoopInv, NoOrphans
<1>2. IInv => ResultsInOrder
  <2>1. CASE results = <<>>
    BY <2>1 DEF ResultsInOrder
  <2>2. CASE IsResults
    BY <2>2 DEF IsResults, ResultsInOrder, Outcome
  <2> QED  BY <2>1, <2>2 DEF IInv, ResultInv
<1>3. ThreadedSpec => []IInv
  BY TogetherAsAlone, InitInv, NextInv, PTL
<1> QED  BY <1>1, <1>2, <1>3, TogetherAsAlone, MissingFactsAreMissing, LoneUserIsFresh, PTL
         DEF JoinIsHonest
=============================================================================
