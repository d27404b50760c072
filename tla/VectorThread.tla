---------------------------- MODULE VectorThread ----------------------------
(***************************************************************************)
(* ost_utils.utils.VectorThread: one thread for each target, a queue of its *)
(* own for the outcome of each thread, and a caller that starts all of      *)
(* them and joins all of them, possibly twice.                              *)
(*                                                                         *)
(* A target returns, raises an Exception, or dies of a BaseException that   *)
(* _ret_via_queue does not catch (SystemExit, pytest's outcome exceptions). *)
(***************************************************************************)
EXTENDS Naturals, Sequences

CONSTANT MaxTargets    \* bound: targets of one VectorThread

ASSUME VectorThreadAssumption == MaxTargets \in Nat

Targets == 1 .. MaxTargets

VARIABLES
    n,          \* len(self.targets)
    thread,     \* "new", "running", "ended", "died"
    queue,      \* the queue of each thread: at most one outcome is put
    pc,         \* of the caller: "start", "call", "join", "get", "scan", "done"
    i,          \* the thread its loop is at
    results,    \* self.results, NoResults before the first join_all stores it
    raising,    \* raise_exceptions of the join_all in progress
    joins,      \* join_all calls so far
    outcome     \* how the last join_all ended

vars == <<n, thread, queue, pc, i, results, raising, joins, outcome>>

Outcomes == {"return", "exception"}
Ends == Outcomes \cup {"died"}
NoResults == <<>>
Pending == [kind |-> "pending", at |-> 0]

Init ==
    /\ n \in 0 .. MaxTargets
    /\ thread = [t \in Targets |-> "new"]
    /\ queue = [t \in Targets |-> <<>>]
    /\ pc = "start"
    /\ i = 1
    /\ results = NoResults
    /\ raising = TRUE
    /\ joins = 0
    /\ outcome = Pending

\* start_all: create and start the next thread.
Start ==
    /\ pc = "start"
    /\ IF i <= n
          THEN /\ thread' = [thread EXCEPT ![i] = "running"]
               /\ i' = i + 1
               /\ UNCHANGED pc
          ELSE /\ pc' = "call"
               /\ UNCHANGED <<thread, i>>
    /\ UNCHANGED <<n, queue, results, raising, joins, outcome>>

\* Mutant: _ret_via_queue has no except clause.
FinishNoExcept(t, end) ==
    /\ thread[t] = "running"
    /\ thread' = [thread EXCEPT ![t] = IF end = "died" THEN "died" ELSE "ended"]
    /\ queue' = IF end = "return"
                   THEN [queue EXCEPT ![t] = Append(@, [kind |-> end, of |-> t])]
                   ELSE queue
    /\ UNCHANGED <<n, pc, i, results, raising, joins, outcome>>

\* _ret_via_queue: the target ends, and its outcome is put before the thread
\* does; nothing is put for a target that died.
Finish(t, end) ==
    /\ thread[t] = "running"
    /\ thread' = [thread EXCEPT ![t] = IF end = "died" THEN "died" ELSE "ended"]
    /\ queue' = IF end \in Outcomes
                   THEN [queue EXCEPT ![t] = Append(@, [kind |-> end, of |-> t])]
                   ELSE queue
    /\ UNCHANGED <<n, pc, i, results, raising, joins, outcome>>

IsAlive(t) == thread[t] = "running"

\* join_all is called; a second call returns what the first one stored.
JoinAll(r) ==
    /\ pc = "call" /\ joins < 2
    /\ joins' = joins + 1
    /\ raising' = r
    /\ i' = 1
    /\ IF results # NoResults
          THEN pc' = "call" /\ outcome' = [kind |-> "stored", at |-> 0]
          ELSE pc' = "join" /\ outcome' = Pending
    /\ UNCHANGED <<n, thread, queue, results>>

\* Mutant: an exception is raised while other threads are still running.
JoinEager ==
    /\ pc = "join"
    /\ IF i > n
          THEN pc' = "get" /\ i' = 1 /\ UNCHANGED outcome
          ELSE /\ ~IsAlive(i)
               /\ IF raising /\ queue[i] # <<>> /\ Head(queue[i]).kind = "exception"
                     THEN /\ pc' = "call"
                          /\ outcome' = [kind |-> "raised", at |-> i]
                          /\ UNCHANGED i
                     ELSE i' = i + 1 /\ UNCHANGED <<pc, outcome>>
    /\ UNCHANGED <<n, thread, queue, results, raising, joins>>

\* for t, q in self.thread_handles: t.join()
Join ==
    /\ pc = "join"
    /\ IF i > n
          THEN pc' = "get" /\ i' = 1
          ELSE ~IsAlive(i) /\ i' = i + 1 /\ UNCHANGED pc
    /\ UNCHANGED <<n, thread, queue, results, raising, joins, outcome>>

\* Mutant: only the threads that put something are asked for it.
GetNonempty ==
    /\ pc = "get"
    /\ pc' = "scan"
    /\ results' = [t \in {u \in 1 .. n : queue[u] # <<>>} |-> Head(queue[t])]
    /\ queue' = [t \in Targets |-> <<>>]
    /\ UNCHANGED <<n, thread, i, raising, joins, outcome>>

\* [q.get() for _, q in self.thread_handles]: waits for a queue that will
\* never be filled if its target died.
Get ==
    /\ pc = "get"
    /\ \A t \in 1 .. n : queue[t] # <<>>
    /\ pc' = "scan"
    /\ results' = [t \in 1 .. n |-> Head(queue[t])]
    /\ queue' = [t \in Targets |-> <<>>]
    /\ UNCHANGED <<n, thread, i, raising, joins, outcome>>

Raised == {t \in DOMAIN results : results[t].kind = "exception"}

\* The first exception in the order of the targets is raised.
Scan ==
    /\ pc = "scan"
    /\ IF raising /\ Raised # {}
          THEN \E t \in Raised :
                  /\ \A u \in Raised : t <= u
                  /\ outcome' = [kind |-> "raised", at |-> t]
          ELSE outcome' = [kind |-> "returned", at |-> 0]
    /\ pc' = "call"
    /\ UNCHANGED <<n, thread, queue, i, results, raising, joins>>

Caller == Start \/ (\E r \in BOOLEAN : JoinAll(r)) \/ Join \/ Get \/ Scan

Next == Caller \/ \E t \in Targets, end \in Ends : Finish(t, end)

\* Threads are scheduled and every target ends; nothing else is assumed.
Spec ==
    /\ Init /\ [][Next]_vars
    /\ WF_vars(Caller)
    /\ \A t \in Targets : WF_vars(\E end \in Ends : Finish(t, end))
-----------------------------------------------------------------------------
TypeOK ==
    /\ n \in 0 .. MaxTargets
    /\ thread \in [Targets -> {"new", "running", "ended", "died"}]
    /\ \A t \in Targets : Len(queue[t]) <= 1
    /\ pc \in {"start", "call", "join", "get", "scan"}
    /\ i \in 1 .. MaxTargets + 1
    /\ raising \in BOOLEAN
    /\ joins \in 0 .. 2
    /\ outcome.kind \in {"pending", "stored", "returned", "raised"}

\* Tests share the engine and the VMs with the threads they start: no test
\* goes on, not even with an exception, while one of its threads is running.
NoOrphans == pc = "call" /\ joins > 0 => \A t \in 1 .. n : ~IsAlive(t)

\* The results come in the order of the targets, however the threads ended:
\* test_005 and the zip of invoke_in_parallel pair them with their inputs.
ResultsInOrder == \A t \in DOMAIN results : results[t].of = t

\* A join_all that returned normally hides no failure from a caller that
\* asked for exceptions, and hides no thread that died without an outcome.
NoLostFailure ==
    outcome.kind = "returned" =>
        /\ DOMAIN results = 1 .. n
        /\ raising /\ joins = 1 => Raised = {}

\* Of several failures the same one is reported whatever the schedule: the
\* exception of the first target that raised one.
FirstFailureReported ==
    outcome.kind = "raised" =>
        /\ outcome.at \in Raised
        /\ \A t \in 1 .. outcome.at - 1 : results[t].kind = "return"

\* What a caller may conclude from a join_all: which result belongs to which target, that
\* nothing failed, or what failed first.
JoinIsHonest == ResultsInOrder /\ NoLostFailure /\ FirstFailureReported

\* join_all ends unless a target died of a BaseException.
JoinEnds == <>(pc = "call" /\ joins = 2) \/ <>(\E t \in 1 .. n : thread[t] = "died")
=============================================================================
