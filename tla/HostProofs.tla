----------------------------- MODULE HostProofs -----------------------------
(* What HostCluster guarantees whatever the clusters, the attempts of a sync *)
(* and the calls the engine refuses.                                         *)
EXTENDS HostCluster, TLAPS

\* Which sync runs in which stage.
FlowInv ==
    /\ pc # "enter" =>
           IF op = "force_select_spm" THEN stage = "handover" ELSE stage \in {"out", "back"}
    /\ pc = "inner" => op = "update"
    /\ pc = "jobs" => op \in {"force_select_spm", "deactivate", "activate"}

\* Where the host is by the time an operation runs or has succeeded: a sync that returned has
\* read the state it waited for, and that state stays until the next operation.
HostInv ==
    /\ stage = "handover" => cluster = Home /\ status = "up"
    /\ pc = "jobs" /\ op = "deactivate" => status = "maintenance"
    /\ pc # "enter" /\ op = "update" => status = "maintenance"
    /\ pc = "judge" /\ op = "update" /\ outcome = "ok" => cluster = Destination
    /\ pc # "enter" /\ op \in {"activate", "wait_for_up"} => cluster = Destination
    /\ pc = "jobs" /\ op = "activate" => status = "up"
    /\ pc # "enter" /\ op = "wait_for_up" => status = "up"

\* An error that is terminal for its operation is one the engine was not expected to give.
FaultInv ==
    /\ pc = "judge" /\ IsError /\ Terminal => faults > 0
    /\ pc = "judge" /\ op = "update" => outcome # "not_up"

\* The data center is not up again before a host has taken the role.
RoleInv ==
    /\ unstable => dc = "non_responsive"
    /\ pc = "judge" /\ op = "wait_for_up" /\ outcome = "ok" => dc = "up"

IInv ==
    /\ TypeOK /\ FlowInv /\ HostInv /\ FaultInv /\ RoleInv
    /\ BodyInTarget /\ Restored /\ BusyIsNeverFatal
-----------------------------------------------------------------------------
(* Operators.                                                                *)

\* What the engine answers when it is busy is listed for the operation it answers; only an
\* update outside maintenance is refused for another reason.
LEMMA RefusalIsListed ==
    ASSUME op \in Ops, op = "update" => status = "maintenance"
    PROVE  /\ Refusal \in {"ok", "not_up"} \cup Listed[op]
           /\ Refusal \in CallErrors \cup {"ok", "not_up"}
           /\ op = "update" => Refusal # "not_up"
           /\ op = "wait_for_up" /\ Refusal = "ok" => dc = "up"
BY DEF Ops, Refusal, Listed, CallErrors, Busy

\* An accepted call; the cluster is changed by an update only.
LEMMA AcceptedEffect ==
    ASSUME TypeOK, Accepted
    PROVE  /\ status' = CASE op = "deactivate" -> "preparing_for_maintenance"
                          [] op = "activate" -> "unassigned"
                          [] OTHER -> status
           /\ cluster' = IF op = "update" THEN Destination ELSE cluster
           /\ spm' \in [Hosts -> {"none", "contending", "spm"}]
           /\ jobs' \in BOOLEAN
<1>1. CASE op = "force_select_spm"
  BY <1>1 DEF Accepted, TypeOK
<1>2. CASE op = "deactivate"
  BY <1>2 DEF Accepted, TypeOK
<1>3. CASE op = "update"
  BY <1>3 DEF Accepted, TypeOK
<1>4. CASE op = "activate"
  BY <1>4 DEF Accepted, TypeOK
<1>5. CASE op = "wait_for_up"
  BY <1>5 DEF Accepted, TypeOK
<1> QED  BY <1>1, <1>2, <1>3, <1>4, <1>5 DEF TypeOK, Ops

-----------------------------------------------------------------------------
(* Steps of the client.                                                      *)

\* A stage that ends well leaves the host up where the stage was to bring it; one that fails
\* for an unlisted reason has met a fault.
LEMMA LeaveKeeps ==
    ASSUME IInv, NEW f \in {"no", "fatal", "timeout", "body"}, Leave(f), stage # "end",
           UNCHANGED <<engine, unstable>>,
           f = "fatal" => faults > 0,
           f = "no" /\ stage \in {"out", "back"} => cluster = Destination /\ status = "up"
    PROVE  IInv'
<1> USE DEF IInv, engine
<1>1. stage' \in Stages
  BY DEF TypeOK, Stages, Leave
<1>2. TypeOK'
  BY <1>1 DEF TypeOK, Leave
<1>3. (FlowInv /\ HostInv /\ FaultInv /\ RoleInv)'
  BY DEF TypeOK, Leave, FlowInv, HostInv, FaultInv, RoleInv, Stages
<1>4. BodyInTarget'
  BY DEF TypeOK, Leave, BodyInTarget, Destination, Stages
<1>5. Restored'
  BY DEF TypeOK, Leave, HostInv, Restored, Destination, Stages
<1>6. BusyIsNeverFatal'
  BY DEF TypeOK, Leave, BusyIsNeverFatal
<1> QED  BY <1>2, <1>3, <1>4, <1>5, <1>6

\* An operation begins in the state it needs.
LEMMA BeginKeeps ==
    ASSUME IInv, NEW o \in Ops, Begin(o), spmBefore' \in BOOLEAN, UNCHANGED engine,
           unstable' \in BOOLEAN, unstable' => unstable,
           IF o = "force_select_spm" THEN stage = "handover" ELSE stage \in {"out", "back"},
           o = "update" => status = "maintenance",
           o \in {"activate", "wait_for_up"} => cluster = Destination,
           o = "wait_for_up" => status = "up"
    PROVE  IInv'
<1> USE DEF IInv, engine
<1>1. 1 \in 1 .. MaxTries
  BY HostClusterAssumption
<1>2. TypeOK'
  BY <1>1 DEF TypeOK, Begin
<1>3. (FlowInv /\ HostInv)'
  BY DEF TypeOK, Begin, FlowInv, HostInv, Destination, Ops
<1>4. (FaultInv /\ RoleInv)'
  BY DEF TypeOK, Begin, FaultInv, RoleInv
<1>5. (BodyInTarget /\ Restored /\ BusyIsNeverFatal)'
  BY DEF TypeOK, Begin, BodyInTarget, Restored, BusyIsNeverFatal
<1> QED  BY <1>2, <1>3, <1>4, <1>5

\* What follows a sync that has returned.
LEMMA ProceedKeeps ==
    ASSUME IInv, Proceed, UNCHANGED <<engine, unstable>>, stage \in {"handover", "out", "back"},
           IF op = "force_select_spm" THEN stage = "handover" ELSE stage \in {"out", "back"},
           op = "deactivate" => status = "maintenance",
           op \in {"update", "activate", "wait_for_up"} => cluster = Destination,
           op \in {"activate", "wait_for_up"} => status = "up"
    PROVE  IInv'
<1>1. op \in Ops /\ spmBefore \in BOOLEAN
  BY DEF IInv, TypeOK
<1>2. unstable' \in BOOLEAN /\ (unstable' => unstable)
  BY DEF IInv, TypeOK
<1>3. CASE op = "deactivate"
  <2>1. Begin("update") /\ spmBefore' \in BOOLEAN
    BY <1>1, <1>3, Zenon DEF Proceed
  <2> QED  BY <1>2, <1>3, <2>1, BeginKeeps DEF Ops
<1>4. CASE op = "update"
  <2>1. Begin("activate") /\ spmBefore' \in BOOLEAN
    BY <1>1, <1>4 DEF Proceed
  <2> QED  BY <1>2, <1>4, <2>1, BeginKeeps DEF Ops
<1>5. CASE op = "activate" /\ spmBefore
  <2>1. Begin("wait_for_up") /\ spmBefore' \in BOOLEAN
    BY <1>1, <1>5 DEF Proceed
  <2> QED  BY <1>2, <1>5, <2>1, BeginKeeps DEF Ops
<1>6. CASE op \in {"force_select_spm", "wait_for_up"} \/ (op = "activate" /\ ~spmBefore)
  BY <1>6, LeaveKeeps DEF Proceed
<1> QED  BY <1>1, <1>3, <1>4, <1>5, <1>6 DEF Ops

\* The verdict on a call that was answered is carried out.
LEMMA ConcludeKeeps ==
    ASSUME IInv, NEW verdict \in Verdicts, Conclude(verdict), pc = "judge",
           UNCHANGED <<engine, unstable>>,
           verdict = "raise" => faults > 0,
           verdict = "return" /\ op = "deactivate" => status = "maintenance",
           verdict = "return" /\ op = "activate" => status = "up",
           verdict = "return" /\ op = "update" => cluster = Destination
    PROVE  IInv'
<1>1. /\ stage \in {"handover", "out", "back"}
      /\ IF op = "force_select_spm" THEN stage = "handover" ELSE stage \in {"out", "back"}
      /\ op \in {"activate", "wait_for_up"} => cluster = Destination
      /\ op = "wait_for_up" => status = "up"
  BY DEF IInv, FlowInv, HostInv
<1>2. CASE verdict = "return" /\ op \in {"activate", "deactivate", "force_select_spm"}
  <2>1. pc' = "jobs" /\ UNCHANGED <<stage, op, tries, inner, outcome, spmBefore, raised>>
    BY <1>2 DEF Conclude
  <2>2. TypeOK'
    BY <2>1 DEF IInv, TypeOK, engine
  <2>3. (FlowInv /\ HostInv /\ FaultInv /\ RoleInv)'
    BY <1>1, <1>2, <2>1 DEF IInv, FlowInv, HostInv, FaultInv, RoleInv, engine, Destination
  <2>4. (BodyInTarget /\ Restored /\ BusyIsNeverFatal)'
    BY <2>1 DEF IInv, BodyInTarget, Restored, BusyIsNeverFatal, engine
  <2> QED  BY <2>2, <2>3, <2>4 DEF IInv
<1>3. CASE verdict = "return" /\ op \notin {"activate", "deactivate", "force_select_spm"}
  <2>1. Proceed
    BY <1>3 DEF Conclude
  <2> QED  BY <1>1, <1>3, <2>1, ProceedKeeps
<1>4. CASE verdict = "raise"
  BY <1>1, <1>4, LeaveKeeps DEF Conclude
<1>5. CASE verdict = "retry"
  <2>1. pc' = "again" /\ UNCHANGED <<stage, op, tries, inner, outcome, spmBefore, raised>>
    BY <1>5 DEF Conclude
  <2>2. TypeOK'
    BY <2>1 DEF IInv, TypeOK, engine
  <2>3. (FlowInv /\ HostInv /\ FaultInv /\ RoleInv)'
    BY <1>1, <2>1 DEF IInv, FlowInv, HostInv, FaultInv, RoleInv, engine, Destination
  <2>4. (BodyInTarget /\ Restored /\ BusyIsNeverFatal)'
    BY <2>1 DEF IInv, BodyInTarget, Restored, BusyIsNeverFatal, engine
  <2> QED  BY <2>2, <2>3, <2>4 DEF IInv
<1> QED  BY <1>2, <1>3, <1>4, <1>5 DEF Verdicts

\* A stage begins.
LEMMA EnterKeeps == IInv /\ (HandOver \/ ChangeCluster \/ Body) => IInv'
<1> SUFFICES ASSUME IInv, HandOver \/ ChangeCluster \/ Body PROVE IInv'
  OBVIOUS
<1>1. unstable \in BOOLEAN /\ spmBefore \in BOOLEAN
  BY DEF IInv, TypeOK
<1>2. CASE HandOver
  <2>1. CASE spm["host"] = "spm"
    BY <1>1, <1>2, <2>1, BeginKeeps DEF HandOver, Ops
  <2>2. CASE spm["host"] # "spm"
    BY <1>2, <2>2, LeaveKeeps DEF HandOver
  <2> QED  BY <2>1, <2>2
<1>3. CASE ChangeCluster
  <2>1. spmBefore' \in BOOLEAN /\ unstable' \in BOOLEAN /\ (unstable' => unstable)
    BY <1>3, Zenon DEF ChangeCluster
  <2> QED  BY <1>3, <2>1, BeginKeeps DEF ChangeCluster, Ops
<1>4. CASE Body
  BY <1>4, LeaveKeeps DEF Body
<1> QED  BY <1>2, <1>3, <1>4

\* A call is answered: busy, refused without a reason, or accepted and carried out at once.
LEMMA CallKeeps == IInv /\ Call => IInv'
<1> SUFFICES ASSUME IInv, Call PROVE IInv'
  OBVIOUS
<1> USE DEF IInv
<1>1. op \in Ops /\ (op = "update" => status = "maintenance")
  BY DEF Call, TypeOK, HostInv
<1>2. CASE /\ outcome' = Refusal /\ UNCHANGED faults
           /\ IF Refusal = "ok" THEN Accepted ELSE UNCHANGED <<status, spm, cluster, jobs>>
  <2>1. status' = status \/ (op = "deactivate" /\ status' = "preparing_for_maintenance")
                         \/ (op = "activate" /\ status' = "unassigned")
    BY <1>2, AcceptedEffect
  <2>2. cluster' = IF op = "update" /\ Refusal = "ok" THEN Destination ELSE cluster
    BY <1>2, AcceptedEffect
  <2>3. spm' \in [Hosts -> {"none", "contending", "spm"}] /\ jobs' \in BOOLEAN
    BY <1>2, AcceptedEffect DEF TypeOK
  <2>4. TypeOK'
    BY <1>1, <1>2, <2>1, <2>2, <2>3, RefusalIsListed DEF Call, TypeOK, Destination
  <2>5. (FlowInv /\ HostInv)'
    BY <1>1, <1>2, <2>1, <2>2 DEF Call, FlowInv, HostInv, Destination
  <2>6. FaultInv'
    BY <1>1, <1>2, RefusalIsListed DEF Call, FaultInv, IsError, Terminal, CallErrors, Busy
  <2>7. RoleInv'
    BY <1>1, <1>2, RefusalIsListed DEF Call, RoleInv
  <2>8. (BodyInTarget /\ Restored /\ BusyIsNeverFatal)'
    BY <1>2 DEF Call, FlowInv, BodyInTarget, Restored, BusyIsNeverFatal
  <2> QED  BY <2>4, <2>5, <2>6, <2>7, <2>8
<1>3. CASE /\ faults < MaxFaults /\ faults' = faults + 1 /\ outcome' = "fatal"
           /\ UNCHANGED <<status, spm, cluster, jobs>>
  <2>1. faults' \in 0 .. MaxFaults /\ faults' > 0
    BY <1>3, HostClusterAssumption DEF TypeOK
  <2>2. TypeOK'
    BY <1>3, <2>1 DEF Call, TypeOK, CallErrors
  <2>3. (FlowInv /\ HostInv)'
    BY <1>3 DEF Call, FlowInv, HostInv, Destination
  <2>4. (FaultInv /\ RoleInv)'
    BY <1>3, <2>1 DEF Call, FaultInv, RoleInv
  <2>5. (BodyInTarget /\ Restored /\ BusyIsNeverFatal)'
    BY <1>3, <2>1 DEF Call, FlowInv, BodyInTarget, Restored, BusyIsNeverFatal
  <2> QED  BY <2>2, <2>3, <2>4, <2>5
<1> QED  BY <1>2, <1>3 DEF Call

\* An attempt is judged by what the engine says by now.
LEMMA JudgeKeeps == IInv /\ Judge => IInv'
<1> SUFFICES ASSUME IInv, Judge PROVE IInv'
  OBVIOUS
<1> DEFINE verdict == AttemptVerdict(tries = 1, IsError, Success, Terminal)
<1>1. op # "update" /\ pc = "judge"
  BY DEF Judge
<1>2. /\ verdict \in Verdicts
      /\ verdict = "return" => Success
      /\ verdict = "raise" => IsError /\ Terminal
  BY DEF AttemptVerdict, FirstVerdict, RetryVerdict, Verdicts
<1>3. /\ verdict = "return" /\ op = "deactivate" => status = "maintenance"
      /\ verdict = "return" /\ op = "activate" => status = "up"
  BY <1>2 DEF Success
<1>4. verdict = "raise" => faults > 0
  BY <1>1, <1>2 DEF IInv, FaultInv
<1>5. verdict \in Verdicts /\ Conclude(verdict) /\ UNCHANGED <<engine, unstable>>
  BY <1>2 DEF Judge
<1> HIDE DEF verdict
<1> QED  BY <1>1, <1>3, <1>4, <1>5, ConcludeKeeps

\* The error object that Host.update may return is not taken for the host.
LEMMA JudgeUpdateKeeps == IInv /\ JudgeUpdate => IInv'
<1> SUFFICES ASSUME IInv, JudgeUpdate PROVE IInv'
  OBVIOUS
<1> DEFINE inside == AttemptVerdict(inner = 1, IsError, TRUE, Terminal)
           outside == AttemptVerdict(tries = 1, inside = "raise", ~IsError, TRUE)
<1>1. op = "update" /\ pc = "judge" /\ UNCHANGED <<engine, unstable>>
  BY DEF JudgeUpdate
<1>2. inside = "raise" => IsError /\ Terminal
  BY DEF AttemptVerdict, FirstVerdict, RetryVerdict
<1>3. \/ pc' = "inner" /\ UNCHANGED <<stage, op, tries, inner, outcome, spmBefore, raised>>
      \/ Conclude(outside)
  BY DEF JudgeUpdate
<1> HIDE DEF inside
<1>4. /\ outside \in Verdicts
      /\ outside = "return" => ~IsError
      /\ outside = "raise" => inside = "raise"
  BY DEF AttemptVerdict, FirstVerdict, RetryVerdict, Verdicts
<1> HIDE DEF outside
<1>5. outside = "return" => cluster = Destination
  BY <1>1, <1>4 DEF IInv, TypeOK, HostInv, FaultInv, IsError
<1>6. outside = "raise" => faults > 0
  BY <1>1, <1>2, <1>4 DEF IInv, FaultInv
<1>7. CASE pc' = "inner" /\ UNCHANGED <<stage, op, tries, inner, outcome, spmBefore, raised>>
  <2>1. TypeOK'
    BY <1>1, <1>7 DEF IInv, TypeOK, engine
  <2>2. (FlowInv /\ HostInv /\ FaultInv /\ RoleInv)'
    BY <1>1, <1>7 DEF IInv, FlowInv, HostInv, FaultInv, RoleInv, engine, Destination
  <2>3. (BodyInTarget /\ Restored /\ BusyIsNeverFatal)'
    BY <1>1, <1>7 DEF IInv, BodyInTarget, Restored, BusyIsNeverFatal, engine
  <2> QED  BY <2>1, <2>2, <2>3 DEF IInv
<1>8. CASE Conclude(outside)
  BY <1>1, <1>4, <1>5, <1>6, <1>8, ConcludeKeeps
<1> QED  BY <1>3, <1>7, <1>8

\* The next attempt, or the Timeout, of either sync.
LEMMA AgainKeeps == IInv /\ (Again \/ InnerAgain) => IInv'
<1> SUFFICES ASSUME IInv, Again \/ InnerAgain PROVE IInv'
  OBVIOUS
<1>1. pc \in {"again", "inner"} /\ stage # "end" /\ UNCHANGED <<engine, unstable>>
  BY DEF IInv, FlowInv, Again, InnerAgain
<1>2. CASE Leave("timeout")
  BY <1>1, <1>2, LeaveKeeps
<1>3. CASE /\ pc' = "call" /\ tries' \in 1 .. MaxTries /\ inner' \in 1 .. MaxTries
           /\ UNCHANGED <<stage, op, outcome, spmBefore, raised>>
  <2>1. TypeOK'
    BY <1>1, <1>3 DEF IInv, TypeOK, engine
  <2>2. (FlowInv /\ HostInv /\ FaultInv /\ RoleInv)'
    BY <1>1, <1>3 DEF IInv, FlowInv, HostInv, FaultInv, RoleInv, engine, Destination
  <2>3. (BodyInTarget /\ Restored /\ BusyIsNeverFatal)'
    BY <1>1, <1>3 DEF IInv, BodyInTarget, Restored, BusyIsNeverFatal, engine
  <2> QED  BY <2>1, <2>2, <2>3 DEF IInv
<1>4. \/ Leave("timeout")
      \/ /\ pc' = "call" /\ tries' \in 1 .. MaxTries /\ inner' \in 1 .. MaxTries
         /\ UNCHANGED <<stage, op, outcome, spmBefore, raised>>
  BY HostClusterAssumption DEF IInv, TypeOK, Again, InnerAgain
<1> QED  BY <1>2, <1>3, <1>4

LEMMA WaitForDoneKeeps == IInv /\ WaitForDone => IInv'
BY ProceedKeeps DEF IInv, FlowInv, HostInv, WaitForDone

\* The engine moves on its own: a host that is up, or in maintenance, stays so.
LEMMA EngineKeeps == IInv /\ Engine => IInv'
<1> SUFFICES ASSUME IInv, Engine PROVE IInv'
  OBVIOUS
<1> USE DEF IInv, client, Contend, WinSpm, GiveUpSpm, ReachMaintenance, ReachUp, JobEnds, TasksChange
<1>1. UNCHANGED <<cluster, faults, client>>
  BY DEF Engine
<1>2. status' = status \/ status \in {"preparing_for_maintenance", "unassigned"}
  BY DEF Engine
<1>3. TypeOK'
  <2>1. ASSUME NEW h \in Hosts, Contend(h) \/ WinSpm(h) \/ GiveUpSpm(h) PROVE TypeOK'
    <3>1. CASE Contend(h)
      BY <3>1 DEF TypeOK
    <3>2. CASE WinSpm(h)
      BY <3>2 DEF TypeOK
    <3>3. CASE GiveUpSpm(h)
      BY <3>3 DEF TypeOK
    <3> QED  BY <2>1, <3>1, <3>2, <3>3
  <2>2. CASE ReachMaintenance
    BY <2>2 DEF TypeOK
  <2>3. CASE ReachUp \/ JobEnds
    BY <2>3 DEF TypeOK
  <2>4. CASE TasksChange
    BY <2>4 DEF TypeOK
  <2> QED  BY <2>1, <2>2, <2>3, <2>4 DEF Engine
<1>4. (FlowInv /\ FaultInv)'
  BY <1>1 DEF FlowInv, FaultInv, IsError, Terminal
<1>5. HostInv'
  BY <1>1, <1>2 DEF HostInv, Destination
<1>6. RoleInv'
  BY DEF Engine, TypeOK, HostInv, RoleInv
<1>7. (BodyInTarget /\ Restored /\ BusyIsNeverFatal)'
  BY <1>1, <1>2 DEF BodyInTarget, Restored, BusyIsNeverFatal
<1> QED  BY <1>3, <1>4, <1>5, <1>6, <1>7

-----------------------------------------------------------------------------
LEMMA InitIInv == Init => IInv
<1> SUFFICES ASSUME Init PROVE IInv
  OBVIOUS
<1>1. 1 \in 1 .. MaxTries /\ 0 \in 0 .. MaxFaults
  BY HostClusterAssumption
<1>2. TypeOK
  BY <1>1 DEF Init, TypeOK, Stages, Ops, CallErrors
<1> QED  BY <1>2 DEF Init, IInv, FlowInv, HostInv, FaultInv, RoleInv, BodyInTarget, Restored,
            BusyIsNeverFatal

LEMMA NextKeeps == IInv /\ [Next]_vars => IInv'
<1> SUFFICES ASSUME IInv, [Next]_vars PROVE IInv'
  OBVIOUS
<1>1. CASE UNCHANGED vars
  BY <1>1 DEF vars, engine, client, IInv, TypeOK, FlowInv, HostInv, FaultInv, RoleInv, BodyInTarget,
         Restored, BusyIsNeverFatal, Destination, IsError, Terminal
<1> QED  BY <1>1, EngineKeeps, EnterKeeps, CallKeeps, JudgeKeeps, JudgeUpdateKeeps, AgainKeeps,
            WaitForDoneKeeps DEF Next, Client, Ended

LEMMA Invariance == Spec => []IInv
<1> QED  BY InitIInv, NextKeeps, PTL DEF Spec

-----------------------------------------------------------------------------
\* The state of the host, of the data center and of the syncs that move the host between clusters
\* keeps its type, for any limit of attempts and of refused calls.
THEOREM HostTypeCorrect == Spec => []TypeOK
BY Invariance, PTL DEF IInv

\* hostlib: the error_criteria of activate, deactivate, update and force_select_spm list
\* everything a busy engine answers: such an answer is never fatal, however the engine's jobs,
\* tasks and elections run between the attempts.
THEOREM BusyEngineIsNotFatal == Spec => []BusyIsNeverFatal
BY Invariance, PTL DEF IInv

\* hostlib.toggle_cluster: the body runs on a host that is up in the target cluster, although
\* Host.update may return an error object in place of the host.
THEOREM BodyRunsInTarget == Spec => []BodyInTarget
BY Invariance, PTL DEF IInv

\* hostlib.toggle_cluster: when the way back (its finally) raised nothing, the host is up in the
\* cluster it came from, whatever the way out and the body did.
THEOREM ToggleRestores == Spec => []Restored
BY Invariance, PTL DEF IInv

-----------------------------------------------------------------------------
(* The step in which change_cluster returns.                                 *)

\* An exception is recorded, so that a stage left with one has not returned.
LEMMA LeavingIsRecorded ==
    ASSUME TypeOK, NEW f, Leave(f), ChangeReturns
    PROVE  f = "no"
BY DEF TypeOK, Leave, ChangeReturns, Stages

\* Only the wait for the data center returns to a change_cluster that saw the SPM.
LEMMA OnlyTheWaitReturns ==
    ASSUME TypeOK, Proceed, ChangeReturns, spmBefore, op # "force_select_spm"
    PROVE  op = "wait_for_up"
BY DEF TypeOK, Ops, Proceed, Begin, ChangeReturns

\* A stage that returns while the host is known to have been the SPM does so behind a poll that
\* found the data center up, and nothing has taken the role away since that poll.
LEMMA ReturnIsStable ==
    ASSUME IInv, Next, ChangeReturns, spmBefore
    PROVE  ~unstable
<1>1. TypeOK /\ stage \in {"out", "back"} /\ stage' # stage
  BY DEF IInv, ChangeReturns
<1>2. ASSUME NEW verdict \in Verdicts, Conclude(verdict), pc = "judge"
      PROVE  verdict = "return" /\ op \in {"update", "wait_for_up"} /\ Proceed
  BY <1>1, <1>2, LeavingIsRecorded DEF Conclude, Verdicts, TypeOK, Ops
<1>3. CASE Judge
  <2>1. PICK verdict \in Verdicts : Conclude(verdict) /\ (verdict = "return" => Success)
    BY <1>3 DEF Judge, AttemptVerdict, FirstVerdict, RetryVerdict, Verdicts
  <2>2. op = "wait_for_up" /\ pc = "judge" /\ Success
    BY <1>2, <1>3, <2>1 DEF Judge
  <2>3. dc = "up"
    BY <2>2 DEF IInv, RoleInv, Success
  <2> QED  BY <2>3 DEF IInv, RoleInv
<1>4. CASE JudgeUpdate
  <2>1. PICK verdict \in Verdicts : Conclude(verdict)
    BY <1>1, <1>4 DEF JudgeUpdate, AttemptVerdict, FirstVerdict, RetryVerdict, Verdicts
  <2>2. Proceed /\ op = "update"
    BY <1>2, <1>4, <2>1 DEF JudgeUpdate
  <2> QED  BY <1>1, <2>2, OnlyTheWaitReturns
<1>5. CASE WaitForDone
  <2>1. Proceed /\ op \in {"deactivate", "activate"}
    BY <1>1, <1>5 DEF IInv, FlowInv, WaitForDone
  <2> QED  BY <1>1, <2>1, OnlyTheWaitReturns
<1>6. CASE Again \/ InnerAgain
  BY <1>1, <1>6, LeavingIsRecorded DEF Again, InnerAgain
<1>7. CASE HandOver \/ ChangeCluster \/ Body \/ Call \/ Ended
  BY <1>1, <1>7 DEF HandOver, ChangeCluster, Begin, Body, Call, Ended, vars, client
<1>8. CASE Engine
  BY <1>1, <1>8 DEF Engine, Contend, WinSpm, GiveUpSpm, ReachMaintenance, ReachUp, JobEnds, TasksChange,
     client
<1> QED  BY <1>3, <1>4, <1>5, <1>6, <1>7, <1>8 DEF Next, Client

\* hostlib.change_cluster of a host seen to be the SPM (spm_before_deactivate) returns to a data
\* center that has been up since the host gave the role away; a host not seen to be it may leave
\* an unstable one behind.
THEOREM SpmChangesReturnStable == Spec => StableIfSpmWasSeen
<1>1. IInv /\ [Next]_vars => [ChangeReturns /\ spmBefore => ~unstable]_vars
  BY ReturnIsStable
<1> QED  BY <1>1, Invariance, PTL DEF Spec, StableIfSpmWasSeen
=============================================================================
