----------------------------- MODULE HostCluster -----------------------------
(***************************************************************************)
(* Moving a host between clusters: Host.hand_over_spm, then                 *)
(* `with host.toggle_cluster(target): body`, over a running engine.         *)
(*                                                                         *)
(* Every operation is a call to the engine wrapped in syncutil.sync.  An    *)
(* attempt is two steps, the call and the success_criteria that reads the   *)
(* engine again, and the engine moves between them.  The clock is left out: *)
(* a sync may time out after any attempt and must after MaxTries of them    *)
(* (SyncUtil!AttemptsBounded says that there is such a number).             *)
(***************************************************************************)
EXTENDS SyncDecision, Naturals

CONSTANTS
    Home, Target,   \* the cluster of the host and the one it is moved to
    MaxTries,       \* bound: attempts of one sync
    MaxFaults       \* bound: calls the engine refuses for an unlisted reason

ASSUME HostClusterAssumption ==
    /\ Home # Target
    /\ MaxTries \in Nat \ {0}
    /\ MaxFaults \in Nat

\* The host that is moved and another one of the data center.
Hosts == {"host", "other"}

VARIABLES
    \* the engine
    status,     \* status of host; other stays up
    spm,        \* spm status of each host: "none", "contending", "spm"
    dc,         \* data center: "up", "non_responsive"
    cluster,    \* the cluster of host
    jobs,       \* a job of the last command on host is STARTED
    tasks,      \* the storage pool has asynchronous running tasks
    faults,     \* calls refused for an unlisted reason so far
    \* the client
    stage,      \* "handover", "out", "body", "back", "end"
    op,         \* the operation in progress
    pc,         \* "enter", "call", "judge", "again", "inner", "jobs"
    tries,      \* attempts of the sync around op
    inner,      \* attempts of the sync inside Host.update
    outcome,    \* how the last call ended
    spmBefore,  \* spm_before_deactivate
    raised,     \* the exception each stage left with, "no" if none
    unstable    \* history: the last deactivation took the SPM role from host
                \* and the data center has not been up since

engine == <<status, spm, dc, cluster, jobs, tasks, faults>>
client == <<stage, op, pc, tries, inner, outcome, spmBefore, raised>>
vars == <<engine, client, unstable>>

Stages == {"handover", "out", "body", "back", "end"}
Ops == {"force_select_spm", "deactivate", "update", "activate", "wait_for_up"}

\* How a call ends: accepted, refused with a message that the error_criteria
\* of some operation lists, or refused otherwise.
Busy == {"contending", "already_in_maintenance", "running_tasks",
         "related_operation", "host_is_up", "spm_busy"}
CallErrors == Busy \cup {"fatal"}

\* Mutant: deactivate does not list the SPM election.
ListedNoContending ==
    [o \in Ops |->
        CASE o = "force_select_spm" -> {"spm_busy"}
          [] o = "deactivate" -> {"running_tasks", "already_in_maintenance"}
          [] o = "update" -> {"related_operation"}
          [] o = "activate" -> {"related_operation", "host_is_up"}
          [] o = "wait_for_up" -> {}]

\* The messages each operation retries; any other error is terminal.
Listed ==
    [o \in Ops |->
        CASE o = "force_select_spm" -> {"spm_busy"}
          [] o = "deactivate" -> {"running_tasks", "contending", "already_in_maintenance"}
          [] o = "update" -> {"related_operation"}
          [] o = "activate" -> {"related_operation", "host_is_up"}
          [] o = "wait_for_up" -> {}]

Destination == IF stage = "back" THEN Home ELSE Target

Init ==
    /\ status = "up"
    /\ spm \in {s \in [Hosts -> {"none", "contending", "spm"}] :
                   s["host"] = "none" \/ s["other"] = "none"}
    /\ dc = IF \E h \in Hosts : spm[h] = "spm" THEN "up" ELSE "non_responsive"
    /\ cluster = Home
    /\ jobs \in BOOLEAN
    /\ tasks \in BOOLEAN
    /\ faults = 0
    /\ stage = "handover"
    /\ op = "force_select_spm"
    /\ pc = "enter"
    /\ tries = 1
    /\ inner = 1
    /\ outcome = "ok"
    /\ spmBefore = FALSE
    /\ raised = [s \in Stages |-> "no"]
    /\ unstable = FALSE
-----------------------------------------------------------------------------
\* The engine, as far as the client relies on it.

\* SPM election: some host that is up contends and wins or gives up.
Contend(h) ==
    /\ \A g \in Hosts : spm[g] = "none"
    /\ h = "host" => status = "up"
    /\ spm' = [spm EXCEPT ![h] = "contending"]
    /\ UNCHANGED <<status, dc, cluster, jobs, tasks, faults, client, unstable>>

WinSpm(h) ==
    /\ spm[h] = "contending"
    /\ spm' = [spm EXCEPT ![h] = "spm"]
    /\ dc' = "up"
    /\ unstable' = FALSE
    /\ UNCHANGED <<status, cluster, jobs, tasks, faults, client>>

GiveUpSpm(h) ==
    /\ spm[h] = "contending"
    /\ spm' = [spm EXCEPT ![h] = "none"]
    /\ UNCHANGED <<status, dc, cluster, jobs, tasks, faults, client, unstable>>

\* Entering maintenance takes the SPM role away.
ReachMaintenance ==
    /\ status = "preparing_for_maintenance"
    /\ status' = "maintenance"
    /\ spm' = [spm EXCEPT !["host"] = "none"]
    /\ IF spm["host"] = "spm" THEN dc' = "non_responsive" /\ unstable' = TRUE
                              ELSE UNCHANGED <<dc, unstable>>
    /\ UNCHANGED <<cluster, jobs, tasks, faults, client>>

ReachUp ==
    /\ status = "unassigned"
    /\ status' \in {"up", "non_operational"}
    /\ UNCHANGED <<spm, dc, cluster, jobs, tasks, faults, client, unstable>>

\* The job of a command ends some time after its effect is visible.
JobEnds ==
    /\ jobs
    /\ status \notin {"preparing_for_maintenance", "unassigned"}
    /\ jobs' = FALSE
    /\ UNCHANGED <<status, spm, dc, cluster, tasks, faults, client, unstable>>

TasksChange ==
    /\ tasks' = ~tasks
    /\ UNCHANGED <<status, spm, dc, cluster, jobs, faults, client, unstable>>

Engine ==
    \/ \E h \in Hosts : Contend(h) \/ WinSpm(h) \/ GiveUpSpm(h)
    \/ ReachMaintenance
    \/ ReachUp
    \/ JobEnds
    \/ TasksChange

\* The error the engine answers op with, "ok" when it accepts it; a poll of
\* the data center is answered with its status.
Refusal ==
    CASE op = "force_select_spm" /\ (tasks \/ dc # "up" \/ spm["other"] # "none") -> "spm_busy"
      [] op = "deactivate" /\ status = "maintenance" -> "already_in_maintenance"
      [] op = "deactivate" /\ status # "maintenance" /\ spm["host"] = "contending" -> "contending"
      [] op = "deactivate" /\ status # "maintenance" /\ spm["host"] = "spm" /\ tasks -> "running_tasks"
      [] op = "update" /\ status # "maintenance" -> "fatal"
      [] op = "update" /\ status = "maintenance" /\ jobs -> "related_operation"
      [] op = "activate" /\ status = "up" -> "host_is_up"
      [] op = "activate" /\ status # "up" /\ jobs -> "related_operation"
      [] op = "wait_for_up" /\ dc # "up" -> "not_up"
      [] OTHER -> "ok"

\* What an accepted call changes at once.
Accepted ==
    CASE op = "force_select_spm" ->
             /\ spm' = [h \in Hosts |-> IF h = "other" THEN "contending" ELSE "none"]
             /\ UNCHANGED <<status, cluster, jobs>>
      [] op = "deactivate" ->
             /\ status' = "preparing_for_maintenance"
             /\ jobs' = TRUE
             /\ UNCHANGED <<spm, cluster>>
      [] op = "update" ->
             /\ cluster' = Destination
             /\ jobs' = TRUE
             /\ UNCHANGED <<status, spm>>
      [] op = "activate" ->
             /\ status' = "unassigned"
             /\ jobs' = TRUE
             /\ UNCHANGED <<spm, cluster>>
      [] OTHER -> UNCHANGED <<status, spm, cluster, jobs>>
-----------------------------------------------------------------------------
\* The client.

\* Mutant: the way back is not in a finally clause.
LeaveNoFinally(f) ==
    /\ stage' = CASE f # "no" -> "end"
                  [] stage = "handover" -> "out"
                  [] stage = "out" -> "body"
                  [] stage = "body" -> "back"
                  [] stage = "back" -> "end"
    /\ raised' = [raised EXCEPT ![stage] = f]
    /\ pc' = "enter"
    /\ UNCHANGED <<op, tries, inner, outcome, spmBefore>>

\* Leave the current stage, normally or with exception f.
Leave(f) ==
    /\ stage' = CASE stage = "handover" -> IF f = "no" THEN "out" ELSE "end"
                  [] stage = "out" -> IF f = "no" THEN "body" ELSE "back"
                  [] stage = "body" -> "back"
                  [] stage = "back" -> "end"
    /\ raised' = [raised EXCEPT ![stage] = f]
    /\ pc' = "enter"
    /\ UNCHANGED <<op, tries, inner, outcome, spmBefore>>

\* Start the sync around operation o.
Begin(o) ==
    /\ op' = o
    /\ pc' = "call"
    /\ tries' = 1
    /\ inner' = 1
    /\ UNCHANGED <<stage, outcome, raised>>

\* Mutant: change_cluster does not wait for the data center.
ProceedNoDcWait ==
    CASE op = "deactivate" -> Begin("update") /\ UNCHANGED spmBefore
      [] op = "update" -> Begin("activate") /\ UNCHANGED spmBefore
      [] OTHER -> Leave("no")

\* The sync around op has returned.
Proceed ==
    CASE op = "deactivate" -> Begin("update") /\ UNCHANGED spmBefore
      [] op = "update" -> Begin("activate") /\ UNCHANGED spmBefore
      [] op = "activate" /\ spmBefore -> Begin("wait_for_up") /\ UNCHANGED spmBefore
      [] OTHER -> Leave("no")

\* hand_over_spm: if self.is_spm and candidate_spm.is_up.
HandOver ==
    /\ stage = "handover" /\ pc = "enter"
    /\ IF spm["host"] = "spm"
          THEN Begin("force_select_spm") /\ UNCHANGED spmBefore
          ELSE Leave("no")
    /\ UNCHANGED <<engine, unstable>>

\* change_cluster: the SPM status is read before the host is deactivated.
ChangeCluster ==
    /\ stage \in {"out", "back"} /\ pc = "enter"
    /\ spmBefore' = (spm["host"] = "spm")
    /\ Begin("deactivate")
    /\ UNCHANGED engine
    \* the history is about one change_cluster
    /\ unstable' = FALSE

Body ==
    /\ stage = "body" /\ pc = "enter"
    /\ \E f \in {"no", "body"} : Leave(f)
    /\ UNCHANGED <<engine, unstable>>

\* exec_func: one call to the engine, which may refuse it for any reason.
Call ==
    /\ pc = "call"
    /\ \/ /\ outcome' = Refusal
          /\ IF Refusal = "ok" THEN Accepted ELSE UNCHANGED <<status, spm, cluster, jobs>>
          /\ UNCHANGED faults
       \/ /\ faults < MaxFaults
          /\ faults' = faults + 1
          /\ outcome' = "fatal"
          /\ UNCHANGED <<status, spm, cluster, jobs>>
    /\ pc' = "judge"
    /\ UNCHANGED <<dc, tasks, stage, op, tries, inner, spmBefore, raised, unstable>>

IsError == outcome \in CallErrors
Terminal == outcome \notin Listed[op]

\* success_criteria: the three commands read the engine again, the wait for
\* the data center compares what its poll returned.
Success ==
    CASE op = "force_select_spm" -> spm["other"] = "spm"
      [] op = "deactivate" -> status = "maintenance"
      [] op = "activate" -> status = "up"
      [] op = "wait_for_up" -> outcome = "ok"

\* activate, deactivate and force_select_spm go on to AllJobs.wait_for_done.
Conclude(verdict) ==
    \/ /\ verdict = "return"
       /\ IF op \in {"activate", "deactivate", "force_select_spm"}
             THEN pc' = "jobs" /\ UNCHANGED <<stage, op, tries, inner, outcome, spmBefore, raised>>
             ELSE Proceed
    \/ /\ verdict = "raise"
       /\ Leave("fatal")
    \/ /\ verdict = "retry"
       /\ pc' = "again"
       /\ UNCHANGED <<stage, op, tries, inner, outcome, spmBefore, raised>>

Judge ==
    /\ pc = "judge" /\ op # "update"
    /\ Conclude(AttemptVerdict(tries = 1, IsError, Success, Terminal))
    /\ UNCHANGED <<engine, unstable>>

\* Mutant: change_cluster takes whatever Host.update returns for a success.
JudgeUpdateNoHasattr ==
    /\ pc = "judge" /\ op = "update"
    /\ LET verdict == AttemptVerdict(inner = 1, IsError, TRUE, Terminal)
       IN  IF verdict = "retry"
              THEN pc' = "inner" /\ UNCHANGED <<stage, op, tries, inner, outcome, spmBefore, raised>>
              ELSE Conclude(AttemptVerdict(tries = 1, verdict = "raise", TRUE, TRUE))
    /\ UNCHANGED <<engine, unstable>>

\* Host.update is a sync of its own with the default success_criteria: an
\* error of its second or a later attempt is returned, and the hasattr test
\* of change_cluster takes it for a failed attempt.
JudgeUpdate ==
    /\ pc = "judge" /\ op = "update"
    /\ LET verdict == AttemptVerdict(inner = 1, IsError, TRUE, Terminal)
       IN  IF verdict = "retry"
              THEN pc' = "inner" /\ UNCHANGED <<stage, op, tries, inner, outcome, spmBefore, raised>>
              ELSE Conclude(AttemptVerdict(tries = 1, verdict = "raise", ~IsError, TRUE))
    /\ UNCHANGED <<engine, unstable>>

\* The next attempt of a sync, or its Timeout.
Again ==
    /\ pc = "again"
    /\ \/ /\ tries < MaxTries
          /\ tries' = tries + 1
          /\ inner' = 1
          /\ pc' = "call"
          /\ UNCHANGED <<stage, op, outcome, spmBefore, raised>>
       \/ Leave("timeout")
    /\ UNCHANGED <<engine, unstable>>

\* The same inside Host.update; its Timeout is terminal for the outer sync.
InnerAgain ==
    /\ pc = "inner"
    /\ \/ /\ inner < MaxTries
          /\ inner' = inner + 1
          /\ pc' = "call"
          /\ UNCHANGED <<stage, op, tries, outcome, spmBefore, raised>>
       \/ Leave("timeout")
    /\ UNCHANGED <<engine, unstable>>

\* wait_for_done polls the method itself, not its value: it never waits.
WaitForDone ==
    /\ pc = "jobs"
    /\ Proceed
    /\ UNCHANGED <<engine, unstable>>

Ended == stage = "end" /\ UNCHANGED vars

Client ==
    \/ HandOver \/ ChangeCluster \/ Body \/ Call \/ Judge \/ JudgeUpdate
    \/ Again \/ InnerAgain \/ WaitForDone

Next == Engine \/ Client \/ Ended

\* Every call returns in the end; nothing is assumed of the engine.
Spec == Init /\ [][Next]_vars /\ WF_vars(Client)
-----------------------------------------------------------------------------
TypeOK ==
    /\ status \in {"up", "preparing_for_maintenance", "maintenance", "unassigned",
                   "non_operational"}
    /\ spm \in [Hosts -> {"none", "contending", "spm"}]
    /\ dc \in {"up", "non_responsive"}
    /\ cluster \in {Home, Target}
    /\ jobs \in BOOLEAN /\ tasks \in BOOLEAN
    /\ faults \in 0 .. MaxFaults
    /\ stage \in Stages
    /\ op \in Ops
    /\ pc \in {"enter", "call", "judge", "again", "inner", "jobs"}
    /\ tries \in 1 .. MaxTries /\ inner \in 1 .. MaxTries
    /\ outcome \in CallErrors \cup {"ok", "not_up"}
    /\ spmBefore \in BOOLEAN
    /\ raised \in [Stages -> {"no", "fatal", "timeout", "body"}]
    /\ unstable \in BOOLEAN

\* A change_cluster that returns without an exception.
ChangeReturns == stage \in {"out", "back"} /\ stage' # stage /\ raised'[stage] = "no"

\* A busy engine (running tasks, an SPM election, a job that wait_for_done did
\* not wait for) delays a move and may time it out; it never makes it fail.
BusyIsNeverFatal == (\E s \in Stages : raised[s] = "fatal") => faults > 0

\* The body runs in the target cluster on a host that is up, although
\* Host.update may have returned an error object instead of the host.
BodyInTarget == stage = "body" => cluster = Target /\ status = "up"

\* Whatever went wrong on the way out or in the body, a toggle whose way back
\* raised nothing leaves the host up in the cluster it came from.
Restored == stage = "end" /\ raised["back"] = "no" => cluster = Home /\ status = "up"

\* change_cluster of a host seen to be the SPM returns to a data center that
\* has been up since the host gave the role away.
StableIfSpmWasSeen ==
    [][ChangeReturns /\ spmBefore => ~unstable]_vars
=============================================================================
