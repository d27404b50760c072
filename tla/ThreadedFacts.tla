--------------------------- MODULE ThreadedFacts ---------------------------
(***************************************************************************)
(* The threads of a VectorThread and the thread that joins them share one   *)
(* Facts object: facts.engine() and the others are cached for the process.  *)
(* Thread 0 is the caller of join_all, 1, 2... are the targets.             *)
(***************************************************************************)
EXTENDS VectorThread, Facts, FiniteSetsExt, Functions

CONSTANTS
    MaxUsers,    \* bound: threads that use the object
    MaxWork      \* bound: targets, and gets and refreshes of all users, together

ASSUME ThreadedFactsAssumption ==
    /\ Threads = 0 .. MaxTargets
    /\ MaxUsers \in Nat \ {0} /\ MaxWork \in Nat

ThreadedInit ==
    /\ Init /\ FactsInit
    /\ users \subseteq 0 .. n /\ Cardinality(users) <= MaxUsers

Calls == FoldFunction(+, 0, gets)

UseFacts(t) ==
    /\ t \in users
    /\ \/ /\ n + Calls < MaxWork
          /\ Refresh(t) \/ \E f \in Names : GetFact(t, f)
       \/ Inside(t)
    /\ UNCHANGED vars

\* The caller uses the facts before it starts the threads, or between two calls of join_all.
CallerTurn ==
    \/ pc \in {"start", "call"} /\ (pc = "start" => i = 1) /\ UseFacts(0)
    \/ step[0] = "idle" /\ Caller /\ UNCHANGED factsVars

\* What a target that uses the facts ends with: it lets an exception through.
EndOf(t) ==
    IF t \notin users THEN Ends
    ELSE {"died", IF answer[t] \in {None, "value", "refreshed"} THEN "return" ELSE "exception"}

\* A thread runs its target between start() and its end.
TargetTurn(t) ==
    /\ IsAlive(t)
    /\ \/ UseFacts(t)
       \/ /\ step[t] = "idle"
          /\ \E end \in EndOf(t) : Finish(t, end)
          /\ UNCHANGED factsVars

ThreadedNext ==
    \/ CallerTurn
    \/ \E t \in Targets : TargetTurn(t)
    \/ Change /\ UNCHANGED vars

\* Threads are scheduled, and every call of ansible and every target ends.
ThreadedSpec ==
    /\ ThreadedInit /\ [][ThreadedNext]_<<vars, factsVars>>
    /\ WF_<<vars, factsVars>>(CallerTurn)
    /\ \A t \in Targets : WF_<<vars, factsVars>>(TargetTurn(t))
=============================================================================
