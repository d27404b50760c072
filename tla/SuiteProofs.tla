---------------------------- MODULE SuiteProofs ----------------------------
(* What a run of a suite guarantees: SuiteSession for any number of VMs,    *)
(* scripts, custom repositories, tests and sessions, RunSuite for any       *)
(* number of jobs on one machine, and StorageDomain for any number of       *)
(* attempts, of refused calls and of sessions.                              *)
EXTENDS SuiteSession, RunSuite, StorageDomain, TLAPS
-----------------------------------------------------------------------------
(* SuiteSession. *)

ThreadStates == {"off", "idle", "running", "ok", "failed"}
HostStates == {"absent", "installing", "up", "install_failed"}
Finalizers == {"clean", "save", "collect"}
AfterDeploy == {"engine_facts", "ovirt_engine_setup", "ovirt_engine_service_up",
                "host_facts", "install_hosts", "test"}
EngineAnswers == {"host_facts", "install_hosts", "test"}

\* The types the arguments below need.
Typed ==
    /\ steps \in 0 .. Prepared
    /\ repos \in Nat /\ names \in Nat /\ inherited \in Nat
    /\ scripts \in [Vms -> Nat] /\ left \in [Vms -> Nat]
    /\ hosts \in [Vms -> HostStates]
    /\ thread \in [Threads -> ThreadStates]
    /\ active \in Seq(DOMAIN Finalizer)
    /\ marker \in BOOLEAN

\* What the threads are for says where the session is.
PhaseInv ==
    /\ phase \in {"none", "deploy", "test", "collect"}
    /\ phase = "deploy" => pc = "deploying" /\ steps = Prepared
    /\ phase = "test" => pc = "test" /\ ready = "up"
    /\ phase = "collect" => pc = "collect"
    /\ phase # "none" => thread[Main] # "running"
    /\ phase = "none" => \A v \in Vms : thread[v] = "off"
    /\ \A v \in Vms : thread[v] \in {"idle", "running"} => left[v] > 0
    /\ pc # "ended" => thread[Main] \in {"idle", "running"}
    /\ thread[Main] = "running" =>
           \/ pc = "deploying" /\ steps < Prepared /\ Step # "expand_jenkins_repos"
           \/ pc \in Facts
           \/ pc = "test" /\ ready = "up"

\* How far a deployment has come; what a worker did and has left add up.
DeployInv ==
    /\ pc = "deploying" => ~marker
    /\ pc = "deploying" /\ phase = "none" => \A v \in Vms : scripts[v] = 0
    /\ phase = "deploy" =>
           \A v \in Vms :
               /\ thread[v] \in {"idle", "running"} => scripts[v] + left[v] = Scripts
               /\ thread[v] = "ok" => scripts[v] = Scripts
    /\ marker => steps = Prepared /\ \A v \in Vms : scripts[v] = Scripts
    /\ pc \in AfterDeploy => marker

\* On VMs that knew no custom repository when the deployment began, all that are known and
\* that packages came from are its own; and behind the check of the packages there are none
\* to check, or it has seen some.
CheckInv ==
    /\ used \subseteq 1 .. names
    /\ pc = "deploying" /\ inherited = 0 =>
           /\ steps <= 4 => names = 0
           /\ names <= repos /\ own = used
           /\ custom = "check" /\ steps >= 8 => repos = 0 \/ used # {}

\* Behind the fixture that waits for the engine it answers; the hosts are waited for by the
\* tests, and those that are up stay up.
EngineInv ==
    /\ pc \notin Finalizers \cup {"ended", "test"} => ready = "asked"
    /\ pc \in EngineAnswers => engine = "up"
    /\ pc = "test" /\ ready = "up" => \A v \in Vms : hosts[v] = "up"

\* A thread that runs has a directory, and a directory has the name of its thread.
DirInv ==
    /\ thread \in [Threads -> ThreadStates]
    /\ dirOf = [t \in Threads |-> dirOf[t]]
    /\ \A t \in Threads : /\ dirOf[t] = NoDir \/ dirOf[t][2] = t
                          /\ thread[t] = "running" => dirOf[t] # NoDir

MInv == Typed /\ PhaseInv /\ DeployInv /\ CheckInv /\ EngineInv

-----------------------------------------------------------------------------
(* Operators.                                                               *)

\* TearDown ends the session or goes on with a finalizer.
LEMMA TearDownGoes ==
    ASSUME active \in Seq(DOMAIN Finalizer), TearDown
    PROVE  pc' \in Finalizers \cup {"ended"} /\ active' \in Seq(DOMAIN Finalizer)
<1>1. CASE active = <<>>
  BY <1>1 DEF TearDown
<1>2. CASE active # <<>>
  <2>1. Len(active) \in 1 .. Len(active)
    BY <1>2
  <2>2. active[Len(active)] \in DOMAIN Finalizer
    BY <2>1
  <2>3. pc' \in Finalizers
    BY <1>2, <2>2 DEF TearDown, Finalizer, Finalizers
  <2>4. active' \in Seq(DOMAIN Finalizer)
    BY <1>2, <2>1 DEF TearDown
  <2> QED  BY <2>3, <2>4
<1> QED  BY <1>1, <1>2

\* The order of the fixtures.
LEMMA SetUpOrder ==
    ASSUME NEW f \in {"ansible_clean_private_dirs", "ansible_collect_logs",
                      "collect_artifacts", "deploy", "engine_facts", "ovirt_engine_setup",
                      "ovirt_engine_service_up", "host_facts", "install_hosts"},
           SetUpAfter(f)
    PROVE  pc' = CASE f = "ansible_clean_private_dirs" -> "ansible_collect_logs"
                   [] f = "ansible_collect_logs" -> "collect_artifacts"
                   [] f = "collect_artifacts" -> "deploy"
                   [] f = "deploy" -> "engine_facts"
                   [] f = "engine_facts" -> "ovirt_engine_setup"
                   [] f = "ovirt_engine_setup" -> "ovirt_engine_service_up"
                   [] f = "ovirt_engine_service_up" -> "host_facts"
                   [] f = "host_facts" -> "install_hosts"
                   [] f = "install_hosts" -> "test"
<1> DEFINE k == CHOOSE n \in 1 .. Len(Setup) : Setup[n] = f
<1>1. Len(Setup) = 9
  BY DEF Setup
<1>2. \E n \in 1 .. 9 : Setup[n] = f
  BY DEF Setup
<1>3. k \in 1 .. 9 /\ Setup[k] = f
  BY <1>1, <1>2
<1>4. pc' = IF k = 9 THEN "test" ELSE Setup[k + 1]
  BY <1>1 DEF SetUpAfter
<1>5. k \in {1, 2, 3, 4, 5, 6, 7, 8, 9}
  BY <1>3
<1> HIDE DEF k
<1> QED  BY <1>3, <1>4, <1>5 DEF Setup

\* The next step of a deployment is one further, unless the options skip it; the check is
\* skipped only by those who did not ask for it.
LEMMA DoneGoes ==
    ASSUME steps \in 0 .. Prepared - 1, NEW n, Done(n)
    PROVE  /\ steps' \in steps + 1 .. Prepared
           /\ custom = "check" /\ steps' >= 8 => steps >= 7
<1> DEFINE S == {k \in (steps + 1) .. Prepared : k = Prepared \/ ~Skipped(Prepare[k + 1], n)}
<1>1. Prepared = 9
  BY DEF Prepared, Prepare
<1>2. 9 \in S
  BY <1>1
<1>3. \E x \in S : \A y \in S : x <= y
  <2>1. S \subseteq 1 .. 9
    BY <1>1
  <2>2. S \subseteq {1, 2, 3, 4, 5, 6, 7, 8, 9}
    BY <2>1
  <2> HIDE DEF S
  <2> QED  BY <1>2, <2>2
<1>4. steps' = Min(S)
  BY DEF Done
<1>5. steps' \in S /\ \A y \in S : steps' <= y
  BY <1>3, <1>4 DEF Min
<1>6. custom = "check" /\ steps < 7 => 7 \in S
  BY <1>1 DEF Skipped, Prepare
<1> QED  BY <1>1, <1>5, <1>6

-----------------------------------------------------------------------------
(* Directories.                                                             *)

\* A directory is made for the thread that asks for one.
LEMMA GetDirGives ==
    ASSUME DirInv, NEW u \in Threads, GetDir(u)
    PROVE  /\ dirOf' = [t \in Threads |-> dirOf'[t]]
           /\ \A t \in Threads : t # u => dirOf'[t] = dirOf[t]
           /\ dirOf'[u] # NoDir /\ dirOf'[u][2] = u
<1>1. CASE dirOf[u] # NoDir
  BY <1>1 DEF GetDir, DirInv
<1>2. CASE dirOf[u] = NoDir
  <2> DEFINE d == <<IF u = Main THEN "main" ELSE phase, u>>
  <2>1. dirOf' = [dirOf EXCEPT ![u] = d]
    BY <1>2 DEF GetDir
  <2>2. d # NoDir /\ d[2] = u
    BY DEF NoDir
  <2> HIDE DEF d
  <2> QED  BY <2>1, <2>2 DEF DirInv
<1> QED  BY <1>1, <1>2

LEMMA ForkDirs ==
    ASSUME DirInv, NEW for, NEW runs, Fork(for, runs), thread[Main] = "idle"
    PROVE  DirInv'
BY DEF DirInv, Fork, ThreadStates, Threads, NoDir

\* Threads begin to run only where they get their directory.
LEMMA DirStep == DirInv /\ [Next]_vars => DirInv'
<1> SUFFICES ASSUME DirInv, [Next]_vars PROVE DirInv'
  OBVIOUS
<1>1. CASE Begin
  BY <1>1 DEF Begin, DirInv, ThreadStates
<1>2. ASSUME NEW u \in Threads, RunBegins(u) PROVE DirInv'
  <2>1. thread' = [thread EXCEPT ![u] = "running"] /\ GetDir(u)
    BY <1>2 DEF RunBegins
  <2> QED  BY <2>1, GetDirGives DEF DirInv, ThreadStates
<1>3. CASE RunScripts \/ TestInThreads \/ CollectArtifacts
  BY <1>3, ForkDirs DEF RunScripts, TestInThreads, CollectArtifacts, MainFree
<1>4. CASE MarkAsDeployed \/ JoinTest \/ JoinCollect
  BY <1>4 DEF MarkAsDeployed, JoinTest, JoinCollect, Join, DirInv, ThreadStates, dirs
<1>5. CASE MainSucceeds \/ MainFails
  BY <1>5 DEF MainSucceeds, MainFails, DirInv, ThreadStates
<1>6. ASSUME NEW v \in Vms, WorkerSucceeds(v) \/ WorkerFails(v) PROVE DirInv'
  BY <1>6 DEF WorkerSucceeds, WorkerFails, DirInv, ThreadStates
<1>7. CASE Kill
  BY <1>7 DEF Kill, DirInv, ThreadStates, dirs
<1>8. CASE UNCHANGED <<thread, dirOf>>
  BY <1>8 DEF DirInv
<1>9. CASE \/ \E f \in DOMAIN Finalizer : SetUpCollector(f)
           \/ Deploy \/ ExpandRepos \/ OvirtEngineSetup \/ OvirtEngineServiceUp
           \/ InstallHosts \/ WaitForHosts \/ TestErrors \/ TestsEnd \/ SaveLogs \/ Cleanup
           \/ \E v \in Vms : HostInstalls(v)
  BY <1>8, <1>9
     DEF SetUpCollector, Deploy, ExpandRepos, OvirtEngineSetup, OvirtEngineServiceUp,
         InstallHosts, WaitForHosts, TestErrors, TestsEnd, SaveLogs, Cleanup, HostInstalls,
         workers, dirs
<1>10. CASE UNCHANGED vars
  BY <1>8, <1>10 DEF vars, workers, dirs
<1> QED  BY <1>1, <1>2, <1>3, <1>4, <1>5, <1>6, <1>7, <1>9, <1>10 DEF Next, Pytest

LEMMA DirInvariance == Spec => []DirInv
<1>1. Init => DirInv
  BY DEF Init, DirInv, ThreadStates, NoDir
<1> QED  BY <1>1, DirStep, PTL DEF Spec

\* No two threads, of one session or another part of it, ever run ansible in one directory
\* (private_dir.py:39-55).
THEOREM DirectoriesAreExclusive == Spec => []ExclusiveDir
<1>1. DirInv => ExclusiveDir
  BY DEF DirInv, ExclusiveDir
<1> QED  BY <1>1, DirInvariance, PTL

-----------------------------------------------------------------------------
(* The marker.                                                              *)

\* A state in which no thread works, and the session ends or goes on with a finalizer.
LEMMA InTearDown ==
    ASSUME MInv, Typed', pc' \in Finalizers \cup {"ended"},
           phase' = "none", thread'[Main] = "idle", \A v \in Vms : thread'[v] = "off",
           UNCHANGED <<marker, steps, scripts>>, used' \subseteq 1 .. names'
    PROVE  MInv'
BY DEF MInv, PhaseInv, DeployInv, CheckInv, EngineInv, Finalizers, AfterDeploy, EngineAnswers

LEMMA BeginInv == MInv /\ Begin => MInv'
BY SuiteSessionAssumption
   DEF MInv, Begin, Typed, PhaseInv, DeployInv, CheckInv, EngineInv, Finalizers, AfterDeploy,
       EngineAnswers, Setup, ThreadStates, Threads, vm, packages, Main, Finalizer

\* Outside the fixtures and tests that run ansible no thread does anything.
LEMMA Quiet ==
    ASSUME MInv, pc \notin {"deploying", "test", "collect", "ended"} \cup Facts
    PROVE  phase = "none" /\ thread[Main] = "idle" /\ \A v \in Vms : thread[v] = "off"
BY DEF MInv, PhaseInv

LEMMA AppendTyped ==
    ASSUME active \in Seq(DOMAIN Finalizer), NEW f \in DOMAIN Finalizer,
           active' = Append(active, f)
    PROVE  active' \in Seq(DOMAIN Finalizer)
OBVIOUS

LEMMA SetUpCollectorInv ==
    ASSUME MInv, NEW f \in DOMAIN Finalizer, SetUpCollector(f)
    PROVE  MInv'
<1>1. /\ pc = f /\ f \in {"ansible_clean_private_dirs", "ansible_collect_logs",
                           "collect_artifacts"}
      /\ UNCHANGED <<vm, workers, dirs, custom, ready>>
  BY DEF SetUpCollector, Finalizer, report
<1>2. phase = "none" /\ thread[Main] = "idle" /\ \A v \in Vms : thread[v] = "off"
  BY <1>1, Quiet DEF Facts
<1>3. CASE Fail
  <2>1. pc' \in Finalizers \cup {"ended"} /\ active' \in Seq(DOMAIN Finalizer)
    BY <1>3, TearDownGoes DEF Fail, MInv, Typed
  <2> QED  BY <1>1, <1>2, <2>1, InTearDown DEF MInv, Typed, CheckInv, vm, workers, packages
<1>4. CASE SetUpAfter(f) /\ active' = Append(active, f)
  <2>1. pc' \in {"ansible_collect_logs", "collect_artifacts", "deploy"}
    BY <1>1, <1>4, SetUpOrder
  <2>2. active' \in Seq(DOMAIN Finalizer)
    BY <1>4, AppendTyped DEF MInv, Typed
  <2> QED  BY <1>1, <1>2, <2>1, <2>2
           DEF MInv, Typed, PhaseInv, DeployInv, CheckInv, EngineInv, Finalizers, AfterDeploy,
               EngineAnswers, vm, workers, packages
<1> QED  BY <1>3, <1>4 DEF SetUpCollector

\* A fixture that runs neither ansible nor threads goes on, or fails.
LEMMA DeployBeginsInv == MInv /\ Deploy => MInv'
<1> SUFFICES ASSUME MInv, Deploy PROVE MInv'
  OBVIOUS
<1>1. phase = "none" /\ thread[Main] = "idle" /\ \A v \in Vms : thread[v] = "off"
  BY Quiet DEF Deploy, Facts
<1>2. CASE marker
  <2>1. pc' = "engine_facts"
    BY <1>2, SetUpOrder DEF Deploy
  <2> QED  BY <1>1, <1>2, <2>1
           DEF Deploy, MInv, Typed, PhaseInv, DeployInv, CheckInv, EngineInv, Finalizers,
               AfterDeploy, EngineAnswers, report, workers
<1>3. CASE ~marker
  <2>1. CheckInv'
    <3>1. /\ inherited' = names /\ own' = {} /\ steps' = 0 /\ repos' = 0
          /\ UNCHANGED <<names, used>>
      BY <1>3 DEF Deploy
    <3>2. used \subseteq 1 .. names /\ names \in Nat
      BY DEF MInv, CheckInv, Typed
    <3> QED  BY <3>1, <3>2 DEF CheckInv
  <2> QED  BY <1>1, <1>3, <2>1
     DEF Deploy, MInv, Typed, PhaseInv, DeployInv, EngineInv, Finalizers, AfterDeploy,
         EngineAnswers, report, workers, Prepared, Prepare
<1> QED  BY <1>2, <1>3

LEMMA ExpandReposInv == MInv /\ ExpandRepos => MInv'
<1> SUFFICES ASSUME MInv, ExpandRepos PROVE MInv'
  OBVIOUS
<1>1. /\ phase = "none" /\ thread[Main] = "idle" /\ \A v \in Vms : thread[v] = "off"
      /\ steps \in 0 .. Prepared - 1
  BY DEF ExpandRepos, MainFree, MInv, PhaseInv, Typed, Prepared, Prepare
<1>2. CASE Fail /\ UNCHANGED <<repos, steps>>
  <2>1. pc' \in Finalizers \cup {"ended"} /\ active' \in Seq(DOMAIN Finalizer)
    BY <1>2, TearDownGoes DEF Fail, MInv, Typed
  <2> QED  BY <1>1, <1>2, <2>1, InTearDown DEF ExpandRepos, MInv, Typed, CheckInv, workers
<1>3. ASSUME NEW n \in 0 .. MaxRepos, repos' = n, Done(n), UNCHANGED <<pc, active, errors>>
      PROVE  MInv'
  <2>1. steps = 4
    BY <1>1 DEF ExpandRepos, Step, Prepare, Prepared
  <2>2. steps' \in steps + 1 .. Prepared /\ ~(custom = "check" /\ steps' >= 8)
    BY <1>1, <1>3, <2>1, DoneGoes
  <2> QED  BY <1>1, <1>3, <2>1, <2>2, SuiteSessionAssumption
           DEF ExpandRepos, MInv, Typed, PhaseInv, DeployInv, CheckInv, EngineInv, Finalizers,
               AfterDeploy, EngineAnswers, workers, Prepared, Prepare
<1> QED  BY <1>2, <1>3 DEF ExpandRepos

LEMMA EngineFixturesInv ==
    MInv /\ (OvirtEngineSetup \/ OvirtEngineServiceUp \/ InstallHosts) => MInv'
<1> SUFFICES ASSUME MInv, OvirtEngineSetup \/ OvirtEngineServiceUp \/ InstallHosts PROVE MInv'
  OBVIOUS
<1>1. /\ phase = "none" /\ thread[Main] = "idle" /\ \A v \in Vms : thread[v] = "off"
      /\ UNCHANGED <<marker, steps, scripts, packages, custom, ready, workers, dirs>>
  BY Quiet DEF OvirtEngineSetup, OvirtEngineServiceUp, InstallHosts, Facts, vm, report
<1>2. CASE Fail /\ UNCHANGED hosts
  <2>1. pc' \in Finalizers \cup {"ended"} /\ active' \in Seq(DOMAIN Finalizer)
    BY <1>2, TearDownGoes DEF Fail, MInv, Typed
  <2> QED  BY <1>1, <1>2, <2>1, InTearDown DEF MInv, Typed, CheckInv, workers, packages
<1>3. CASE OvirtEngineSetup /\ SetUpAfter(pc) /\ UNCHANGED <<errors, active>>
  <2>1. pc' = "ovirt_engine_service_up" /\ marker
    BY <1>3, SetUpOrder DEF OvirtEngineSetup, MInv, DeployInv, AfterDeploy
  <2> QED  BY <1>1, <1>3, <2>1
           DEF OvirtEngineSetup, MInv, Typed, PhaseInv, DeployInv, CheckInv, EngineInv, Finalizers,
               AfterDeploy, EngineAnswers, workers, packages, report
<1>4. CASE OvirtEngineServiceUp /\ engine = "up" /\ SetUpAfter(pc) /\ UNCHANGED <<errors, active>>
  <2>1. pc' = "host_facts" /\ marker
    BY <1>4, SetUpOrder DEF OvirtEngineServiceUp, MInv, DeployInv, AfterDeploy
  <2> QED  BY <1>1, <1>4, <2>1
           DEF OvirtEngineServiceUp, MInv, Typed, PhaseInv, DeployInv, CheckInv, EngineInv,
               Finalizers, AfterDeploy, EngineAnswers, workers, packages, vm
<1>5. CASE /\ InstallHosts
           /\ hosts' = [v \in Vms |-> IF hosts[v] = "absent" THEN "installing" ELSE hosts[v]]
           /\ SetUpAfter(pc) /\ UNCHANGED <<errors, active>>
  <2>1. pc' = "test" /\ marker /\ engine = "up"
    BY <1>5, SetUpOrder
       DEF InstallHosts, MInv, DeployInv, EngineInv, Finalizers, AfterDeploy, EngineAnswers
  <2>2. hosts' \in [Vms -> HostStates]
    BY <1>5 DEF MInv, Typed, HostStates
  <2>3. ready' = "asked"
    BY <1>1, <1>5 DEF InstallHosts, MInv, EngineInv, Finalizers
  <2> QED  BY <1>1, <1>5, <2>1, <2>2, <2>3
           DEF InstallHosts, MInv, Typed, PhaseInv, DeployInv, CheckInv, EngineInv, Finalizers,
               AfterDeploy, EngineAnswers, workers, packages
<1> QED  BY <1>2, <1>3, <1>4, <1>5 DEF OvirtEngineSetup, OvirtEngineServiceUp, InstallHosts, vm

LEMMA MaxOfTwo ==
    ASSUME NEW a \in Nat, NEW b \in Nat
    PROVE  /\ Max({a, b}) \in Nat /\ a <= Max({a, b})
           /\ b >= a => Max({a, b}) = b
<1>1. \E x \in {a, b} : \A y \in {a, b} : x >= y
  OBVIOUS
<1> QED  BY <1>1 DEF Max

\* The steps of the preparation only add packages, and only from repositories that are known.
LEMMA PreparesAdds ==
    ASSUME MInv, NEW n \in Nat, Prepares(n)
    PROVE  /\ names' \in Nat /\ repos' = repos /\ inherited' = inherited
           /\ used \subseteq used' /\ used' \subseteq 1 .. names'
           /\ own = used /\ names <= repos => own' = used'
           /\ Step # "add_custom_repos" => names' = names
           /\ Step = "add_custom_repos" /\ names <= n => names' = n
<1>1. /\ repos \in Nat /\ names \in Nat /\ used \subseteq 1 .. names
      /\ repos' = repos /\ inherited' = inherited
      /\ names' = IF Step = "add_custom_repos" THEN Max({names, n}) ELSE names
  BY DEF Prepares, MInv, Typed, CheckInv
<1>2. names' \in Nat /\ names <= names'
  BY <1>1, MaxOfTwo
<1>3. Step = "add_custom_repos" /\ names <= n => names' = n
  BY <1>1, MaxOfTwo
<1>4. CASE Step = "upgrade"
  <2>1. PICK from \in SUBSET (1 .. names) :
            used' = used \cup from /\ own' = own \cup (from \cap (1 .. repos))
    BY <1>4 DEF Prepares
  <2>2. ASSUME names <= repos PROVE from \cap (1 .. repos) = from
    <3>1. ASSUME NEW x \in from PROVE x \in 1 .. repos
      <4>1. x \in 1 .. names
        BY Zenon
      <4> QED  BY <1>1, <2>2, <4>1
    <3> QED  BY <3>1, Zenon
  <2>3. used \subseteq used' /\ used' \subseteq 1 .. names'
    BY <1>1, <1>2, <2>1
  <2>4. own = used /\ names <= repos => own' = used'
    BY <2>1, <2>2
  <2>5. Step # "add_custom_repos" => names' = names
    BY <1>1
  <2> QED  BY <1>2, <1>3, <1>1, <2>3, <2>4, <2>5, Zenon
<1>5. CASE Step # "upgrade"
  <2>1. used' = used /\ own' = own
    BY <1>5 DEF Prepares
  <2> QED  BY <1>1, <1>2, <1>3, <2>1
<1> QED  BY <1>4, <1>5

LEMMA RunBeginsInv ==
    ASSUME MInv, NEW t \in Threads, RunBegins(t)
    PROVE  MInv'
<1>1. /\ thread[t] = "idle" /\ thread' = [thread EXCEPT ![t] = "running"]
      /\ t = Main => phase = "none" /\ MainRuns
      /\ UNCHANGED <<vm, report, pc, active, phase, left>>
  BY DEF RunBegins
<1>2. t = Main \/ t \in Vms
  BY DEF Threads
<1>3. Typed'
  BY <1>1 DEF MInv, Typed, vm, packages, ThreadStates
<1> QED  BY <1>1, <1>2, <1>3, SuiteSessionAssumption
         DEF MInv, Typed, PhaseInv, DeployInv, CheckInv, EngineInv, Finalizers, AfterDeploy,
             EngineAnswers, vm, packages, report, Threads, MainRuns, Step

LEMMA MainSucceedsInv == MInv /\ MainSucceeds => MInv'
<1> SUFFICES ASSUME MInv, MainSucceeds PROVE MInv'
  OBVIOUS
<1>1. /\ phase = "none" /\ \A v \in Vms : thread[v] = "off"
      /\ thread[Main] = "running" /\ thread' = [thread EXCEPT ![Main] = "idle"]
      /\ UNCHANGED <<marker, scripts, engine, hosts, custom, ready, active, phase, left>>
  BY DEF MainSucceeds, MInv, PhaseInv
<1>2. /\ thread' \in [Threads -> ThreadStates] /\ thread'[Main] = "idle"
      /\ \A v \in Vms : thread'[v] = "off"
  BY <1>1, SuiteSessionAssumption DEF MInv, Typed, ThreadStates, Threads
<1>3. CASE pc = "deploying"
  <2>1. /\ steps \in 0 .. Prepared - 1
        /\ Step = "check_installed_packages" => ChecksPackages
        /\ Done(repos) /\ Prepares(repos) /\ UNCHANGED pc
    BY <1>1, <1>3 DEF MainSucceeds, MInv, PhaseInv, Typed, Prepared, Prepare, Facts
  <2>2. /\ steps' \in steps + 1 .. Prepared
        /\ custom = "check" /\ steps' >= 8 => steps >= 7
        /\ names' \in Nat /\ repos' = repos /\ inherited' = inherited
        /\ used \subseteq used' /\ used' \subseteq 1 .. names'
        /\ own = used /\ names <= repos => own' = used'
    BY <2>1, DoneGoes, PreparesAdds DEF MInv, Typed
  <2>3. CheckInv'
    <3>1. ASSUME custom = "check", steps' >= 8, steps = 7 PROVE repos = 0 \/ used # {}
      <4>1. ChecksPackages
        BY <2>1, <3>1 DEF Step, Prepare
      <4> QED  BY <4>1 DEF ChecksPackages, Listed, InstalledFrom, MInv, Typed
    <3>2. /\ steps \in Nat /\ steps' \in Nat /\ repos \in Nat /\ names \in Nat
          /\ steps' > steps
      BY <2>1, <2>2 DEF MInv, Typed, Prepared, Prepare
    <3>3. steps <= 4 => names' = names /\ (steps < 4 \/ steps' > 4)
      <4>1. steps <= 4 => Step # "add_custom_repos"
        BY <2>1 DEF Step, Prepare, Prepared
      <4> QED  BY <2>1, <3>2, <4>1, PreparesAdds
    <3>4. names <= repos => names' <= repos
      BY <2>1, <3>2, PreparesAdds
    <3>5. ASSUME inherited = 0
          PROVE  /\ steps' <= 4 => names' = 0
                 /\ names' <= repos' /\ own' = used'
                 /\ custom = "check" /\ steps' >= 8 => repos' = 0 \/ used' # {}
      <4>1. /\ steps <= 4 => names = 0
            /\ names <= repos /\ own = used
            /\ custom = "check" /\ steps >= 8 => repos = 0 \/ used # {}
        BY <1>3, <3>5 DEF MInv, CheckInv
      <4>2. names' <= repos' /\ own' = used'
        BY <2>2, <3>4, <4>1
      <4>3. steps' <= 4 => names' = 0
        BY <3>2, <3>3, <4>1
      <4>4. custom = "check" /\ steps' >= 8 => repos' = 0 \/ used' # {}
        <5>1. custom = "check" /\ steps' >= 8 => steps = 7 \/ steps >= 8
          BY <2>2, <3>2
        <5>2. custom = "check" /\ steps' >= 8 => repos = 0 \/ used # {}
          BY <3>1, <4>1, <5>1
        <5>3. used # {} => used' # {}
          BY <2>2
        <5> QED  BY <2>2, <5>2, <5>3
      <4> QED  BY <4>2, <4>3, <4>4
    <3> QED  BY <1>1, <2>2, <3>5 DEF CheckInv
  <2> QED  BY <1>1, <1>2, <1>3, <2>1, <2>2, <2>3
           DEF MInv, Typed, PhaseInv, DeployInv, EngineInv, Finalizers, AfterDeploy,
               EngineAnswers, Prepared, Prepare
<1>4. CASE pc \in Facts
  <2>1. /\ pc' = IF pc = "engine_facts" THEN "ovirt_engine_setup" ELSE "install_hosts"
        /\ UNCHANGED <<steps, packages>>
    BY <1>4, SetUpOrder DEF MainSucceeds, Facts
  <2> QED  BY <1>1, <1>2, <1>4, <2>1
           DEF MInv, Typed, PhaseInv, DeployInv, CheckInv, EngineInv, Finalizers, AfterDeploy,
               EngineAnswers, packages, Facts
<1>5. CASE pc = "test"
  <2>1. pc' = "test" /\ UNCHANGED <<steps, packages>>
    BY <1>5 DEF MainSucceeds, Facts
  <2>2. CheckInv'
    BY <2>1 DEF MInv, CheckInv, packages
  <2> QED  BY <1>1, <1>2, <1>5, <2>1, <2>2
     DEF MInv, Typed, PhaseInv, DeployInv, EngineInv, Finalizers,
         AfterDeploy, EngineAnswers, packages, Facts
<1> QED  BY <1>1, <1>3, <1>4, <1>5 DEF MInv, PhaseInv

LEMMA MainFailsInv == MInv /\ MainFails => MInv'
<1> SUFFICES ASSUME MInv, MainFails PROVE MInv'
  OBVIOUS
<1>1. /\ phase = "none" /\ \A v \in Vms : thread[v] = "off"
      /\ thread[Main] = "running" /\ thread' = [thread EXCEPT ![Main] = "idle"]
      /\ UNCHANGED <<marker, steps, scripts, engine, hosts, custom, ready, phase, left>>
  BY DEF MainFails, MInv, PhaseInv
<1>2. /\ thread' \in [Threads -> ThreadStates] /\ thread'[Main] = "idle"
      /\ \A v \in Vms : thread'[v] = "off"
  BY <1>1, SuiteSessionAssumption DEF MInv, Typed, ThreadStates, Threads
<1>3. /\ names' \in Nat /\ repos' = repos /\ inherited' = inherited
      /\ used' \subseteq 1 .. names'
  <2>1. CASE pc = "deploying"
    <3>1. PICK n \in 0 .. repos : Prepares(n)
      BY <2>1 DEF MainFails
    <3> QED  BY <3>1, PreparesAdds DEF MInv, Typed
  <2>2. CASE pc # "deploying"
    BY <2>2 DEF MainFails, packages, MInv, Typed, CheckInv
  <2> QED  BY <2>1, <2>2
<1>4. CASE pc = "test"
  BY <1>1, <1>2, <1>3, <1>4
     DEF MainFails, MInv, Typed, PhaseInv, DeployInv, CheckInv, EngineInv, Finalizers,
         AfterDeploy, EngineAnswers, Facts
<1>5. CASE pc # "test"
  <2>1. pc' \in Finalizers \cup {"ended"} /\ active' \in Seq(DOMAIN Finalizer)
    BY <1>5, TearDownGoes DEF MainFails, Fail, MInv, Typed
  <2>2. Typed'
    BY <1>1, <1>2, <1>3, <2>1 DEF MInv, Typed
  <2> QED  BY <1>1, <1>2, <1>3, <2>1, <2>2, InTearDown
<1> QED  BY <1>4, <1>5

LEMMA WorkerInv ==
    ASSUME MInv, NEW v \in Vms, WorkerSucceeds(v) \/ WorkerFails(v)
    PROVE  MInv'
<1>1. phase # "none" /\ v # Main /\ left[v] > 0 /\ v \in Threads /\ thread[v] = "running"
  BY SuiteSessionAssumption DEF WorkerSucceeds, WorkerFails, MInv, PhaseInv, Threads
<1>2. CASE WorkerFails(v)
  BY <1>1, <1>2
     DEF WorkerFails, MInv, Typed, PhaseInv, DeployInv, CheckInv, EngineInv, Finalizers,
         AfterDeploy, EngineAnswers, vm, packages, report, ThreadStates, Threads, Step
<1>3. CASE WorkerSucceeds(v)
  <2>1. /\ left' = [left EXCEPT ![v] = @ - 1]
        /\ thread' = [thread EXCEPT ![v] = IF left[v] = 1 THEN "ok" ELSE "idle"]
        /\ scripts' = IF phase = "deploy" THEN [scripts EXCEPT ![v] = @ + 1] ELSE scripts
        /\ UNCHANGED <<marker, steps, engine, hosts, packages, custom, ready, pc, active, phase>>
    BY <1>3 DEF WorkerSucceeds
  <2>2. Typed'
    BY <1>1, <2>1 DEF MInv, Typed, packages, ThreadStates
  <2>3. PhaseInv'
    BY <1>1, <2>1 DEF MInv, Typed, PhaseInv, Step
  <2>4. DeployInv'
    <3>1. CASE phase = "deploy"
      <4>1. pc = "deploying" /\ ~marker /\ UNCHANGED <<pc, marker, phase>>
        BY <2>1, <3>1 DEF MInv, PhaseInv, DeployInv
      <4>2. ASSUME NEW w \in Vms
            PROVE  /\ thread'[w] \in {"idle", "running"} => scripts'[w] + left'[w] = Scripts
                   /\ thread'[w] = "ok" => scripts'[w] = Scripts
        <5>1. CASE w = v
          <6>1. left[v] \in Nat /\ scripts[v] \in Nat /\ scripts[v] + left[v] = Scripts
            BY <1>1, <3>1 DEF MInv, Typed, DeployInv
          <6>2. /\ left'[v] = left[v] - 1 /\ scripts'[v] = scripts[v] + 1
                /\ thread'[v] = "ok" => left[v] = 1
            BY <1>1, <2>1, <3>1 DEF MInv, Typed
          <6> QED  BY <5>1, <6>1, <6>2
        <5>2. CASE w # v
          BY <1>1, <2>1, <3>1, <5>2 DEF MInv, Typed, DeployInv
        <5> QED  BY <5>1, <5>2
      <4> QED  BY <3>1, <4>1, <4>2 DEF DeployInv, AfterDeploy
    <3>2. CASE phase # "deploy"
      BY <1>1, <2>1, <3>2 DEF MInv, Typed, PhaseInv, DeployInv, AfterDeploy
    <3> QED  BY <3>1, <3>2
  <2> QED  BY <2>1, <2>2, <2>3, <2>4 DEF MInv, CheckInv, EngineInv, packages
<1> QED  BY <1>2, <1>3

\* start_all: a worker for each VM, with `runs` runs to make.
LEMMA ForkTyped ==
    ASSUME MInv, NEW for, NEW runs \in Nat, Fork(for, runs)
    PROVE  /\ phase' = for
           /\ thread' \in [Threads -> ThreadStates] /\ thread'[Main] = "idle"
           /\ left' \in [Vms -> Nat]
           /\ \A v \in Vms : /\ left'[v] = runs
                             /\ thread'[v] = IF runs = 0 THEN "ok" ELSE "idle"
BY SuiteSessionAssumption DEF Fork, ThreadStates, Threads

LEMMA ForksInv ==
    MInv /\ (RunScripts \/ TestInThreads \/ CollectArtifacts) => MInv'
<1> SUFFICES ASSUME MInv, RunScripts \/ TestInThreads \/ CollectArtifacts PROVE MInv'
  OBVIOUS
<1> USE SuiteSessionAssumption
<1>1. UNCHANGED <<vm, report, pc, active>> /\ phase = "none"
  BY DEF RunScripts, TestInThreads, CollectArtifacts, MainFree
<1>2. CASE RunScripts
  <2>1. pc = "deploying" /\ steps = Prepared /\ Fork("deploy", Scripts)
    BY <1>2 DEF RunScripts
  <2>2. /\ phase' = "deploy"
        /\ thread' \in [Threads -> ThreadStates] /\ thread'[Main] = "idle"
        /\ left' \in [Vms -> Nat]
        /\ \A v \in Vms : /\ left'[v] = Scripts
                          /\ thread'[v] = IF Scripts = 0 THEN "ok" ELSE "idle"
    BY <2>1, ForkTyped
  <2>3. CheckInv'
    BY <1>1 DEF MInv, CheckInv, vm, packages, report
  <2> QED  BY <1>1, <2>1, <2>2, <2>3
           DEF MInv, Typed, PhaseInv, DeployInv, EngineInv, Finalizers,
               AfterDeploy, EngineAnswers, vm, packages, report
<1>3. CASE TestInThreads \/ CollectArtifacts
  <2>1. PICK runs \in {1, 2} :
            \/ pc = "test" /\ ready = "up" /\ Fork("test", runs)
            \/ pc = "collect" /\ Fork("collect", runs)
    BY <1>3 DEF TestInThreads, CollectArtifacts
  <2>2. /\ phase' = IF pc = "test" THEN "test" ELSE "collect"
        /\ thread' \in [Threads -> ThreadStates] /\ thread'[Main] = "idle"
        /\ left' \in [Vms -> Nat]
        /\ \A v \in Vms : left'[v] = runs
    BY <2>1, ForkTyped
  <2> QED  BY <1>1, <2>1, <2>2
           DEF MInv, Typed, PhaseInv, DeployInv, CheckInv, EngineInv, Finalizers,
               AfterDeploy, EngineAnswers, vm, packages, report
<1> QED  BY <1>2, <1>3

LEMMA JoinTyped ==
    ASSUME MInv, Join
    PROVE  /\ phase' = "none" /\ thread' \in [Threads -> ThreadStates]
           /\ thread'[Main] = "idle" /\ \A v \in Vms : thread'[v] = "off"
BY SuiteSessionAssumption DEF Join, ThreadStates, Threads

\* The marker is written when every worker has run all its scripts.
LEMMA MarkAsDeployedInv == MInv /\ MarkAsDeployed => MInv'
<1> SUFFICES ASSUME MInv, MarkAsDeployed PROVE MInv'
  OBVIOUS
<1>1. /\ phase' = "none" /\ thread' \in [Threads -> ThreadStates]
      /\ thread'[Main] = "idle" /\ \A v \in Vms : thread'[v] = "off"
  BY JoinTyped DEF MarkAsDeployed
<1>2. /\ phase = "deploy" /\ pc = "deploying" /\ steps = Prepared
      /\ UNCHANGED <<steps, scripts, engine, hosts, packages, custom, ready, left>>
  BY DEF MarkAsDeployed, MInv, PhaseInv
<1>3. CASE WorkersSucceeded
  <2>1. marker' = TRUE /\ pc' = "engine_facts" /\ UNCHANGED active
    BY <1>3, SetUpOrder DEF MarkAsDeployed
  <2>2. \A v \in Vms : scripts[v] = Scripts
    BY <1>2, <1>3 DEF WorkersSucceeded, MInv, DeployInv
  <2>3. ready = "asked"
    BY <1>2 DEF MInv, EngineInv, Finalizers
  <2> QED  BY <1>1, <1>2, <2>1, <2>2, <2>3
           DEF MInv, Typed, PhaseInv, DeployInv, CheckInv, EngineInv, Finalizers,
               AfterDeploy, EngineAnswers, packages, Facts
<1>4. CASE ~WorkersSucceeded
  <2>1. pc' \in Finalizers \cup {"ended"} /\ active' \in Seq(DOMAIN Finalizer)
    BY <1>4, TearDownGoes DEF MarkAsDeployed, Fail, MInv, Typed
  <2>2. UNCHANGED marker
    BY <1>4 DEF MarkAsDeployed
  <2>3. Typed'
    BY <1>1, <1>2, <2>1, <2>2 DEF MInv, Typed, packages
  <2> QED  BY <1>1, <1>2, <2>1, <2>2, <2>3, InTearDown DEF MInv, CheckInv, packages
<1> QED  BY <1>3, <1>4

LEMMA JoinsInv == MInv /\ (JoinTest \/ JoinCollect) => MInv'
<1> SUFFICES ASSUME MInv, JoinTest \/ JoinCollect PROVE MInv'
  OBVIOUS
<1>1. /\ phase' = "none" /\ thread' \in [Threads -> ThreadStates]
      /\ thread'[Main] = "idle" /\ \A v \in Vms : thread'[v] = "off"
  BY JoinTyped DEF JoinTest, JoinCollect
<1>2. UNCHANGED <<vm, custom, ready, left>>
  BY DEF JoinTest, JoinCollect
<1>3. CASE JoinTest
  BY <1>1, <1>2, <1>3
     DEF JoinTest, MInv, Typed, PhaseInv, DeployInv, CheckInv, EngineInv, Finalizers,
         AfterDeploy, EngineAnswers, vm, packages
<1>4. CASE JoinCollect
  <2>1. pc' \in Finalizers \cup {"ended"} /\ active' \in Seq(DOMAIN Finalizer)
    BY <1>4, TearDownGoes DEF JoinCollect, MInv, Typed
  <2>2. Typed'
    BY <1>1, <1>2, <2>1 DEF MInv, Typed, vm, packages
  <2> QED  BY <1>1, <1>2, <2>1, <2>2, InTearDown DEF MInv, CheckInv, vm, packages
<1> QED  BY <1>3, <1>4

LEMMA EndsInv == MInv /\ (TestsEnd \/ SaveLogs \/ Cleanup) => MInv'
<1> SUFFICES ASSUME MInv, TestsEnd \/ SaveLogs \/ Cleanup PROVE MInv'
  OBVIOUS
<1>1. /\ phase = "none" /\ thread[Main] = "idle" /\ \A v \in Vms : thread[v] = "off"
  BY DEF TestsEnd, SaveLogs, Cleanup, MainFree, MInv, PhaseInv, Facts
<1>2. UNCHANGED <<vm, custom, ready, workers>> /\ TearDown
  BY DEF TestsEnd, SaveLogs, Cleanup, report
<1>3. pc' \in Finalizers \cup {"ended"} /\ active' \in Seq(DOMAIN Finalizer)
  BY <1>2, TearDownGoes DEF MInv, Typed
<1>4. Typed'
  BY <1>2, <1>3 DEF MInv, Typed, vm, packages, workers
<1> QED  BY <1>1, <1>2, <1>3, <1>4, InTearDown DEF MInv, CheckInv, vm, packages, workers

LEMMA HostsInv ==
    MInv /\ (WaitForHosts \/ TestErrors \/ \E v \in Vms : HostInstalls(v)) => MInv'
<1>1. ASSUME MInv, WaitForHosts \/ TestErrors PROVE MInv'
  BY <1>1
     DEF WaitForHosts, TestErrors, MInv, Typed, PhaseInv, DeployInv, CheckInv, EngineInv,
         Finalizers, AfterDeploy, EngineAnswers, vm, packages, workers, Step
<1>2. ASSUME MInv, NEW v \in Vms, HostInstalls(v) PROVE MInv'
  <2>1. /\ hosts' \in [Vms -> HostStates]
        /\ \A w \in Vms : hosts[w] = "up" => hosts'[w] = "up"
    BY <1>2 DEF HostInstalls, MInv, Typed, HostStates
  <2> QED  BY <1>2, <2>1
           DEF HostInstalls, MInv, Typed, PhaseInv, DeployInv, CheckInv, EngineInv,
               Finalizers, AfterDeploy, EngineAnswers, packages, workers, report, Step
<1> QED  BY <1>1, <1>2

LEMMA KillInv == MInv /\ Kill => MInv'
BY SuiteSessionAssumption
   DEF Kill, MInv, Typed, PhaseInv, DeployInv, CheckInv, EngineInv, Finalizers, AfterDeploy,
       EngineAnswers, vm, packages, ThreadStates, Threads, Facts

LEMMA IdleInv == MInv /\ UNCHANGED vars => MInv'
BY DEF vars, MInv, Typed, PhaseInv, DeployInv, CheckInv, EngineInv, Finalizers, AfterDeploy,
       EngineAnswers, vm, packages, report, workers, Step

LEMMA MInvariance == Spec => []MInv
<1>1. Init => MInv
  <2> SUFFICES ASSUME Init PROVE MInv
    OBVIOUS
  <2>1. steps \in 0 .. Prepared /\ repos \in Nat /\ names \in Nat /\ inherited \in Nat
    BY DEF Init, Prepared, Prepare
  <2>2. marker \in BOOLEAN
    BY Zenon DEF Init
  <2>3. Typed
    BY <2>1, <2>2 DEF Init, Typed, ThreadStates, HostStates
  <2> QED  BY <2>3, SuiteSessionAssumption
           DEF Init, MInv, PhaseInv, DeployInv, CheckInv, EngineInv, Finalizers,
               AfterDeploy, EngineAnswers, Threads, Facts
<1>2. MInv /\ [Next]_vars => MInv'
  BY BeginInv, SetUpCollectorInv, DeployBeginsInv, ExpandReposInv, EngineFixturesInv,
     RunBeginsInv, MainSucceedsInv, MainFailsInv, WorkerInv, ForksInv, MarkAsDeployedInv,
     JoinsInv, EndsInv, HostsInv, KillInv, IdleInv
     DEF Next, Pytest
<1> QED  BY <1>1, <1>2, PTL DEF Spec

\* However many VMs, scripts, tests and sessions there are and whichever of them fail or are
\* killed: an environment that is marked went through all of its deployment, which installed from
\* its own custom repositories where it had to check that and the VMs knew none of an earlier one;
\* and tests run on one that is marked, with its engine and its hosts up (deployment.py:34-73).
THEOREM MarkedIsDeployed == Spec => []MarkerIsTrue
<1>1. MInv => MarkerIsTrue
  <2> SUFFICES ASSUME MInv PROVE MarkerIsTrue
    OBVIOUS
  <2>1. marker => steps = Prepared /\ \A v \in Vms : scripts[v] = Scripts
    BY DEF MInv, DeployInv
  <2>2. pc = "deploying" /\ steps = Prepared /\ custom = "check" =>
            repos = 0 \/ own # {} \/ inherited > 0
    BY DEF MInv, Typed, CheckInv, Prepared, Prepare
  <2>3. pc = "test" /\ ~MainFree => marker /\ engine = "up" /\ \A v \in Vms : hosts[v] = "up"
    BY DEF MInv, DeployInv, EngineInv, PhaseInv, MainFree, AfterDeploy, EngineAnswers, Facts
  <2> QED  BY <2>1, <2>2, <2>3 DEF MarkerIsTrue
<1> QED  BY <1>1, MInvariance, PTL

-----------------------------------------------------------------------------
(* The teardown.                                                             *)

\* Where a session is behind its three fixtures with a teardown.
Behind == {"deploy", "deploying"} \cup AfterDeploy

\* What is still to be torn down follows from where the session is.
StackInv ==
    /\ pc \in {"ansible_clean_private_dirs", "ansible_collect_logs", "collect_artifacts", "ended"}
               \cup Behind \cup Finalizers
    /\ pc \in {"ansible_clean_private_dirs", "clean"} => active = <<>>
    /\ pc \in {"ansible_collect_logs", "save"} => active = <<"ansible_clean_private_dirs">>
    /\ pc \in {"collect_artifacts", "collect"} =>
           active = <<"ansible_clean_private_dirs", "ansible_collect_logs">>
    /\ pc \in Behind =>
           active = <<"ansible_clean_private_dirs", "ansible_collect_logs", "collect_artifacts">>

\* Until the session ends all_dirs lists every directory that is on disk, that has events or
\* that a thread holds; between the two finalizers nothing is unsaved unless saving failed.
ListedInv ==
    /\ pc # "ended" => /\ live = allDirs /\ dirty \subseteq allDirs
                       /\ \A t \in Threads : dirOf[t] = NoDir \/ dirOf[t] \in allDirs
    /\ pc = "clean" /\ "save" \notin errors => dirty = {}

\* A session without an error that is torn down ran tests; behind the collecting it has the
\* artifacts of every VM, those of a worker that is ready while it collects.
OutcomeInv ==
    /\ collected \subseteq Vms
    /\ phase = "collect" => \A v \in Vms : thread[v] = "ok" => v \in collected
    /\ pc \in Finalizers /\ errors = {} => tests > 0
    /\ pc \in {"save", "clean"} /\ errors = {} => collected = Vms

EndInv == StackInv /\ ListedInv /\ OutcomeInv /\ TeardownIsComplete

\* The finalizers follow each other in the reverse order of the setup.
LEMMA TearDownUnwinds ==
    ASSUME StackInv, TearDown, pc # "ended"
    PROVE  /\ pc' = CASE pc \in Behind -> "collect"
                      [] pc \in {"collect_artifacts", "collect"} -> "save"
                      [] pc \in {"ansible_collect_logs", "save"} -> "clean"
                      [] OTHER -> "ended"
           /\ StackInv'
<1> USE DEF TearDown, Finalizer, Finalizers, Behind, AfterDeploy
<1>1. CASE pc \in Behind
  <2>1. active = <<"ansible_clean_private_dirs", "ansible_collect_logs", "collect_artifacts">>
    BY <1>1 DEF StackInv
  <2>2. active' = <<"ansible_clean_private_dirs", "ansible_collect_logs">> /\ pc' = "collect"
    BY <2>1
  <2> QED  BY <1>1, <2>2 DEF StackInv
<1>2. CASE pc \in {"collect_artifacts", "collect"}
  <2>1. active = <<"ansible_clean_private_dirs", "ansible_collect_logs">>
    BY <1>2 DEF StackInv
  <2>2. active' = <<"ansible_clean_private_dirs">> /\ pc' = "save"
    BY <2>1
  <2> QED  BY <1>2, <2>2 DEF StackInv
<1>3. CASE pc \in {"ansible_collect_logs", "save"}
  <2>1. active = <<"ansible_clean_private_dirs">>
    BY <1>3 DEF StackInv
  <2>2. active' = <<>> /\ pc' = "clean"
    BY <2>1
  <2> QED  BY <1>3, <2>2 DEF StackInv
<1>4. CASE pc \in {"ansible_clean_private_dirs", "clean"}
  <2>1. pc' = "ended"
    BY <1>4 DEF StackInv
  <2> QED  BY <1>4, <2>1 DEF StackInv
<1> QED  BY <1>1, <1>2, <1>3, <1>4 DEF StackInv

\* A fixture that raises behind the three leaves them all to be torn down, and an error.
LEMMA FailUnwinds ==
    ASSUME EndInv, Fail, pc \in Behind, phase' = "none", ListedInv',
           UNCHANGED <<session, collected>>
    PROVE  EndInv'
<1>1. pc' = "collect" /\ StackInv'
  BY TearDownUnwinds DEF EndInv, Fail, Behind, AfterDeploy
<1>2. errors' # {}
  BY DEF Fail
<1>3. OutcomeInv' /\ TeardownIsComplete'
  BY <1>1, <1>2 DEF EndInv, OutcomeInv, TeardownIsComplete
<1> QED  BY <1>1, <1>3 DEF EndInv

\* A step from one place behind the three fixtures to another.
LEMMA BehindGoesOn ==
    ASSUME EndInv, pc \in Behind, pc' \in Behind, phase' \in {"none", "deploy", "test"}, ListedInv',
           UNCHANGED <<active, collected>>
    PROVE  EndInv'
BY DEF EndInv, StackInv, OutcomeInv, TeardownIsComplete, Behind, AfterDeploy, Finalizers

\* The directories and what they hold stay as they are.
LEMMA ListedStays ==
    ASSUME EndInv, pc # "ended", pc' # "clean", UNCHANGED dirs
    PROVE  ListedInv'
BY DEF EndInv, ListedInv, dirs

LEMMA BeginEnd == MInv /\ EndInv /\ Begin => EndInv'
BY DEF Begin, EndInv, StackInv, ListedInv, OutcomeInv, TeardownIsComplete, Setup, Behind,
       AfterDeploy, Finalizers, Threads

\* What Append returns; it adds a second to one, and a third to two.
LEMMA AppendIs ==
    ASSUME NEW S, NEW s \in Seq(S), NEW e \in S
    PROVE  /\ Append(s, e) \in Seq(S) /\ Len(Append(s, e)) = Len(s) + 1
           /\ \A i \in 1 .. Len(s) : Append(s, e)[i] = s[i]
           /\ Append(s, e)[Len(s) + 1] = e
OBVIOUS

LEMMA AppendToOne ==
    ASSUME NEW a, NEW b
    PROVE  Append(<<a>>, b) = <<a, b>>
<1> DEFINE s == <<a>>
           r == Append(s, b)
           S == {a, b}
<1>1. s \in Seq(S) /\ Len(s) = 1 /\ s[1] = a /\ b \in S
  OBVIOUS
<1> HIDE DEF s, S
<1>2. /\ r \in Seq(S) /\ Len(r) = Len(s) + 1
      /\ \A i \in 1 .. Len(s) : r[i] = s[i]
      /\ r[Len(s) + 1] = b
  BY <1>1, AppendIs
<1> HIDE DEF r
<1>3. r \in Seq({a, b})
  BY <1>2 DEF S
<1>4. Len(r) = 2 /\ r[1] = a /\ r[2] = b
  BY <1>1, <1>2
<1>5. r = <<a, b>>
  BY <1>3, <1>4
<1> QED  BY <1>5 DEF r, s

LEMMA AppendToTwo ==
    ASSUME NEW a, NEW b, NEW c
    PROVE  Append(<<a, b>>, c) = <<a, b, c>>
<1> DEFINE s == <<a, b>>
           r == Append(s, c)
           S == {a, b, c}
<1>1. s \in Seq(S) /\ Len(s) = 2 /\ s[1] = a /\ s[2] = b /\ c \in S
  OBVIOUS
<1> HIDE DEF s, S
<1>2. /\ r \in Seq(S) /\ Len(r) = Len(s) + 1
      /\ \A i \in 1 .. Len(s) : r[i] = s[i]
      /\ r[Len(s) + 1] = c
  BY <1>1, AppendIs
<1> HIDE DEF r
<1>3. r \in Seq({a, b, c})
  BY <1>2 DEF S
<1>4. Len(r) = 3 /\ r[1] = a /\ r[2] = b /\ r[3] = c
  BY <1>1, <1>2
<1>5. r = <<a, b, c>>
  BY <1>3, <1>4
<1> QED  BY <1>5 DEF r, s

LEMMA SetUpCollectorEnd ==
    ASSUME MInv, EndInv, NEW f \in DOMAIN Finalizer, SetUpCollector(f)
    PROVE  EndInv'
<1>1. /\ pc = f /\ UNCHANGED <<vm, workers, dirs, session, collected>>
      /\ f \in {"ansible_clean_private_dirs", "ansible_collect_logs", "collect_artifacts"}
  BY DEF SetUpCollector, Finalizer, report
<1>2. phase = "none"
  BY <1>1, Quiet DEF Facts
<1>3. CASE Fail /\ f = "collect_artifacts"
  <2>1. pc' = "save" /\ StackInv'
    BY <1>1, <1>3, TearDownUnwinds DEF EndInv, Fail, Behind, AfterDeploy
  <2>2. ListedInv'
    BY <1>1, <1>3, <2>1, ListedStays
  <2>3. errors' # {}
    BY <1>3 DEF Fail
  <2>4. OutcomeInv' /\ TeardownIsComplete'
    BY <1>1, <1>2, <2>1, <2>3 DEF EndInv, OutcomeInv, TeardownIsComplete, workers
  <2> QED  BY <2>1, <2>2, <2>4 DEF EndInv
<1>4. CASE SetUpAfter(f) /\ active' = Append(active, f)
  <2>1. pc' = CASE f = "ansible_clean_private_dirs" -> "ansible_collect_logs"
                [] f = "ansible_collect_logs" -> "collect_artifacts"
                [] f = "collect_artifacts" -> "deploy"
    BY <1>1, <1>4, SetUpOrder
  <2>2. StackInv'
    <3>0. /\ Append(<<"ansible_clean_private_dirs">>, "ansible_collect_logs")
               = <<"ansible_clean_private_dirs", "ansible_collect_logs">>
          /\ Append(<<"ansible_clean_private_dirs", "ansible_collect_logs">>, "collect_artifacts")
               = <<"ansible_clean_private_dirs", "ansible_collect_logs", "collect_artifacts">>
      BY AppendToOne, AppendToTwo, Zenon
    <3> USE <1>1, <1>4, <2>1 DEF EndInv, StackInv, Behind, AfterDeploy, Finalizers
    <3>1. CASE f = "ansible_clean_private_dirs"
      <4>1. active' = <<"ansible_clean_private_dirs">>
        BY <3>1
      <4> QED  BY <3>1, <4>1
    <3>2. CASE f = "ansible_collect_logs"
      <4>1. active = <<"ansible_clean_private_dirs">>
        BY <3>2
      <4>2. active' = <<"ansible_clean_private_dirs", "ansible_collect_logs">>
        BY <3>0, <3>2, <4>1, Zenon
      <4> QED  BY <3>2, <4>2
    <3>3. CASE f = "collect_artifacts"
      <4>1. active = <<"ansible_clean_private_dirs", "ansible_collect_logs">>
        BY <3>3
      <4>2. active' = <<"ansible_clean_private_dirs", "ansible_collect_logs", "collect_artifacts">>
        BY <3>0, <3>3, <4>1, Zenon
      <4> QED  BY <3>3, <4>2
    <3> QED  BY <3>1, <3>2, <3>3
  <2>3. ListedInv'
    BY <1>1, <2>1, ListedStays
  <2>4. OutcomeInv' /\ TeardownIsComplete'
    BY <1>1, <1>2, <2>1 DEF EndInv, OutcomeInv, TeardownIsComplete, Finalizers, workers
  <2> QED  BY <2>2, <2>3, <2>4 DEF EndInv
<1> QED  BY <1>3, <1>4 DEF SetUpCollector

\* The directory a run gets is listed.
LEMMA RunBeginsEnd ==
    ASSUME MInv, DirInv, EndInv, NEW t \in Threads, RunBegins(t)
    PROVE  EndInv'
<1>1. thread' = [thread EXCEPT ![t] = "running"] /\ GetDir(t)
      /\ UNCHANGED <<report, pc, active, phase, dirty>>
  BY DEF RunBegins
<1>2. pc # "ended"
  <2>1. CASE t = Main
    BY <2>1 DEF RunBegins, MainRuns, Facts
  <2>2. CASE t # Main
    <3>1. t \in Vms /\ thread[t] = "idle"
      BY <2>2 DEF RunBegins, Threads
    <3> QED  BY <3>1 DEF MInv, PhaseInv
  <2> QED  BY <2>1, <2>2
<1>3. live' = allDirs' /\ allDirs \subseteq allDirs' /\ dirOf'[t] \in allDirs'
      /\ \A u \in Threads : u # t => dirOf'[u] = dirOf[u]
  <2>1. live = allDirs /\ (dirOf[t] = NoDir \/ dirOf[t] \in allDirs)
    BY <1>2 DEF EndInv, ListedInv
  <2>2. CASE dirOf[t] # NoDir
    BY <1>1, <2>1, <2>2 DEF GetDir
  <2>3. CASE dirOf[t] = NoDir
    <3> DEFINE d == <<IF t = Main THEN "main" ELSE phase, t>>
    <3>1. dirOf' = [dirOf EXCEPT ![t] = d] /\ allDirs' = allDirs \cup {d} /\ live' = live \cup {d}
      BY <1>1, <2>3 DEF GetDir
    <3>2. dirOf = [u \in Threads |-> dirOf[u]]
      BY DEF DirInv
    <3> HIDE DEF d
    <3>3. dirOf'[t] = d /\ \A u \in Threads : u # t => dirOf'[u] = dirOf[u]
      BY <3>1, <3>2
    <3> QED  BY <2>1, <3>1, <3>3
  <2> QED  BY <2>2, <2>3
<1>4. ListedInv'
  BY <1>1, <1>2, <1>3 DEF EndInv, ListedInv, report
<1>5. StackInv' /\ OutcomeInv' /\ TeardownIsComplete'
  BY <1>1, <1>2 DEF EndInv, StackInv, OutcomeInv, TeardownIsComplete, MInv, Typed, report
<1> QED  BY <1>4, <1>5 DEF EndInv

\* The events of a run are in a directory that is listed, and the session goes on or fails.
LEMMA EventsAreListed ==
    ASSUME DirInv, EndInv, NEW t \in Threads, thread[t] = "running", pc \notin {"ended", "clean"},
           dirty' = dirty \cup {dirOf[t]}, UNCHANGED <<dirOf, allDirs, live>>, pc' # "clean"
    PROVE  ListedInv'
<1>1. dirOf[t] \in allDirs
  BY DEF DirInv, EndInv, ListedInv
<1> QED  BY <1>1 DEF EndInv, ListedInv

LEMMA MainEnd == MInv /\ DirInv /\ EndInv /\ (MainSucceeds \/ MainFails) => EndInv'
<1> SUFFICES ASSUME MInv, DirInv, EndInv, MainSucceeds \/ MainFails PROVE EndInv'
  OBVIOUS
<1>1. thread[Main] = "running" /\ dirty' = dirty \cup {dirOf[Main]} /\ Main \in Threads
      /\ UNCHANGED <<phase, dirOf, allDirs, live, session, collected>>
  BY DEF MainSucceeds, MainFails, Threads
<1>2. pc \in Behind /\ phase \in {"none", "deploy", "test"} /\ phase = "none"
  BY <1>1 DEF MInv, PhaseInv, Behind, AfterDeploy, Facts
<1>3. CASE MainSucceeds
  <2>1. pc' \in Behind /\ active' = active
    <3>1. CASE pc \in Facts
      <4>1. pc' \in {"ovirt_engine_setup", "install_hosts"}
        BY <1>3, <3>1, SetUpOrder DEF MainSucceeds, Facts
      <4> QED  BY <1>3, <4>1 DEF MainSucceeds, Behind, AfterDeploy
    <3>2. CASE pc \notin Facts
      BY <1>2, <1>3, <3>2 DEF MainSucceeds
    <3> QED  BY <3>1, <3>2
  <2>2. ListedInv'
    BY <1>1, <1>2, <2>1, EventsAreListed DEF Behind, AfterDeploy
  <2> QED  BY <1>1, <1>2, <2>1, <2>2, BehindGoesOn
<1>4. CASE MainFails /\ pc = "test"
  <2>1. pc' = pc /\ active' = active
    BY <1>4 DEF MainFails
  <2>2. ListedInv'
    BY <1>1, <1>2, <2>1, EventsAreListed DEF Behind, AfterDeploy
  <2> QED  BY <1>1, <1>2, <2>1, <2>2, BehindGoesOn
<1>5. CASE MainFails /\ pc # "test"
  <2>1. Fail
    BY <1>5 DEF MainFails
  <2>2. pc' = "collect"
    BY <1>2, <2>1, TearDownUnwinds DEF EndInv, Fail, Behind, AfterDeploy
  <2>3. ListedInv'
    BY <1>1, <1>2, <2>2, EventsAreListed DEF Behind, AfterDeploy
  <2> QED  BY <1>1, <1>2, <2>1, <2>3, FailUnwinds
<1> QED  BY <1>3, <1>4, <1>5

\* A worker that collects is ready when it has what it fetches.
LEMMA WorkerEnd ==
    ASSUME MInv, DirInv, EndInv, NEW v \in Vms, WorkerSucceeds(v) \/ WorkerFails(v)
    PROVE  EndInv'
<1>1. thread[v] = "running" /\ dirty' = dirty \cup {dirOf[v]} /\ v \in Threads
      /\ UNCHANGED <<phase, dirOf, allDirs, live, session, errors, tests, pc, active>>
  BY DEF WorkerSucceeds, WorkerFails, Threads, report
<1>2. phase # "none" /\ pc \in {"deploying", "test", "collect"}
  BY <1>1 DEF MInv, PhaseInv
<1>3. ListedInv'
  BY <1>1, <1>2, EventsAreListed
<1>4. /\ collected' \subseteq Vms /\ collected \subseteq collected'
      /\ phase = "collect" => \A w \in Vms : thread'[w] = "ok" => w \in collected'
  <2>1. thread \in [Threads -> ThreadStates] /\ Vms \subseteq Threads
    BY DEF MInv, Typed, Threads
  <2>2. CASE WorkerSucceeds(v)
    BY <1>1, <2>1, <2>2 DEF WorkerSucceeds, EndInv, OutcomeInv
  <2>3. CASE WorkerFails(v)
    BY <1>1, <2>1, <2>3 DEF WorkerFails, EndInv, OutcomeInv, report
  <2> QED  BY <2>2, <2>3
<1>5. StackInv' /\ OutcomeInv' /\ TeardownIsComplete'
  BY <1>1, <1>2, <1>4 DEF EndInv, StackInv, OutcomeInv, TeardownIsComplete
<1> QED  BY <1>3, <1>5 DEF EndInv

LEMMA ForksEnd ==
    MInv /\ EndInv /\ (RunScripts \/ TestInThreads \/ CollectArtifacts) => EndInv'
<1> SUFFICES ASSUME MInv, EndInv, RunScripts \/ TestInThreads \/ CollectArtifacts PROVE EndInv'
  OBVIOUS
<1>1. /\ pc \in {"deploying", "test", "collect"} /\ UNCHANGED <<report, pc, active, allDirs, live, dirty>>
      /\ phase' = "collect" => \A v \in Vms : thread'[v] = "idle"
      /\ \A t \in Threads : dirOf'[t] = dirOf[t] \/ dirOf'[t] = NoDir
  BY SuiteSessionAssumption DEF RunScripts, TestInThreads, CollectArtifacts, Fork, Threads
<1>2. ListedInv'
  BY <1>1 DEF EndInv, ListedInv, report
<1>3. StackInv' /\ OutcomeInv' /\ TeardownIsComplete'
  BY <1>1 DEF EndInv, StackInv, OutcomeInv, TeardownIsComplete, report
<1> QED  BY <1>2, <1>3 DEF EndInv

LEMMA JoinsEnd ==
    MInv /\ EndInv /\ (MarkAsDeployed \/ JoinTest \/ JoinCollect) => EndInv'
<1> SUFFICES ASSUME MInv, EndInv, MarkAsDeployed \/ JoinTest \/ JoinCollect PROVE EndInv'
  OBVIOUS
<1>1. phase' = "none" /\ UNCHANGED <<dirs, session, collected>>
  BY DEF MarkAsDeployed, JoinTest, JoinCollect, Join
<1>2. CASE MarkAsDeployed
  <2>1. pc = "deploying"
    BY <1>2 DEF MarkAsDeployed, MInv, PhaseInv
  <2>2. CASE Fail
    <3>1. pc' = "collect"
      BY <2>1, <2>2, TearDownUnwinds DEF EndInv, Fail, Behind, AfterDeploy
    <3>2. ListedInv'
      BY <1>1, <2>1, <3>1, ListedStays
    <3> QED  BY <1>1, <2>1, <2>2, <3>2, FailUnwinds DEF Behind
  <2>3. CASE SetUpAfter("deploy") /\ active' = active
    <3>1. pc' = "engine_facts"
      BY <2>3, SetUpOrder
    <3>2. ListedInv'
      BY <1>1, <2>1, <3>1, ListedStays
    <3> QED  BY <1>1, <2>1, <2>3, <3>1, <3>2, BehindGoesOn DEF Behind, AfterDeploy
  <2> QED  BY <1>2, <2>2, <2>3 DEF MarkAsDeployed
<1>3. CASE JoinTest
  <2>1. pc = "test" /\ pc' = "test" /\ active' = active
    BY <1>3 DEF JoinTest, MInv, PhaseInv
  <2>2. ListedInv'
    BY <1>1, <2>1, ListedStays
  <2> QED  BY <1>1, <2>1, <2>2, BehindGoesOn DEF Behind, AfterDeploy
<1>4. CASE JoinCollect
  <2>1. pc = "collect" /\ phase = "collect" /\ tests' = tests
        /\ errors' = IF WorkersSucceeded THEN errors ELSE errors \cup {"collect"}
    BY <1>4 DEF JoinCollect, MInv, PhaseInv
  <2>2. pc' = "save" /\ StackInv'
    BY <1>4, <2>1, TearDownUnwinds DEF JoinCollect, EndInv, Behind, AfterDeploy
  <2>3. ListedInv'
    BY <1>1, <2>1, <2>2, ListedStays
  <2>4. errors' = {} => errors = {} /\ WorkersSucceeded
    BY <2>1
  <2>5. WorkersSucceeded => collected = Vms
    BY <2>1 DEF WorkersSucceeded, EndInv, OutcomeInv
  <2>6. OutcomeInv' /\ TeardownIsComplete'
    BY <1>1, <2>1, <2>2, <2>4, <2>5 DEF EndInv, OutcomeInv, TeardownIsComplete, Finalizers
  <2> QED  BY <2>2, <2>3, <2>6 DEF EndInv
<1> QED  BY <1>2, <1>3, <1>4

\* The fixtures that go on or raise, without a thread that works.
LEMMA FixturesEnd ==
    MInv /\ EndInv
    /\ (Deploy \/ ExpandRepos \/ OvirtEngineSetup \/ OvirtEngineServiceUp \/ InstallHosts) => EndInv'
<1> SUFFICES ASSUME MInv, EndInv,
                    Deploy \/ ExpandRepos \/ OvirtEngineSetup \/ OvirtEngineServiceUp \/ InstallHosts
             PROVE  EndInv'
  OBVIOUS
<1>1. /\ pc \in {"deploy", "deploying", "ovirt_engine_setup", "ovirt_engine_service_up", "install_hosts"}
      /\ UNCHANGED <<workers, dirs, session, collected>>
  BY DEF Deploy, ExpandRepos, OvirtEngineSetup, OvirtEngineServiceUp, InstallHosts, report
<1>2. phase = "none"
  <2>1. CASE pc = "deploying"
    BY <2>1 DEF Deploy, ExpandRepos, OvirtEngineSetup, OvirtEngineServiceUp, InstallHosts, MainFree
  <2>2. CASE pc # "deploying"
    BY <1>1, <2>2, Quiet DEF Facts
  <2> QED  BY <2>1, <2>2
<1>3. CASE Fail
  <2>1. pc' = "collect"
    BY <1>1, <1>3, TearDownUnwinds DEF EndInv, Fail, Behind, AfterDeploy
  <2>2. ListedInv'
    BY <1>1, <2>1, ListedStays
  <2> QED  BY <1>1, <1>2, <1>3, <2>2, FailUnwinds DEF Behind, AfterDeploy, workers
<1>4. CASE pc' \in Behind /\ active' = active
  <2>1. ListedInv'
    BY <1>1, <1>4, ListedStays DEF Behind, AfterDeploy
  <2> QED  BY <1>1, <1>2, <1>4, <2>1, BehindGoesOn DEF Behind, AfterDeploy, workers
<1>5. \/ Fail
      \/ active' = active /\ (SetUpAfter(pc) \/ pc' \in {pc, "deploying"})
  BY DEF Deploy, ExpandRepos, OvirtEngineSetup, OvirtEngineServiceUp, InstallHosts
<1>6. SetUpAfter(pc) /\ pc # "deploying" => pc' \in Behind
  BY <1>1, SetUpOrder DEF Behind, AfterDeploy
<1>7. pc = "deploying" => Fail \/ (pc' = pc /\ active' = active)
  BY Zenon DEF Deploy, ExpandRepos, OvirtEngineSetup, OvirtEngineServiceUp, InstallHosts
<1> QED  BY <1>1, <1>3, <1>4, <1>5, <1>6, <1>7 DEF Behind, AfterDeploy

LEMMA WaitsEnd ==
    MInv /\ EndInv /\ (WaitForHosts \/ TestErrors \/ \E v \in Vms : HostInstalls(v)) => EndInv'
<1> SUFFICES ASSUME MInv, EndInv, WaitForHosts \/ TestErrors \/ \E v \in Vms : HostInstalls(v)
             PROVE  EndInv'
  OBVIOUS
<1>1. /\ UNCHANGED <<pc, active, workers, dirs, session, collected>>
      /\ pc = "test" \/ UNCHANGED <<errors, tests>>
  BY DEF WaitForHosts, TestErrors, HostInstalls, report
<1>2. ListedInv'
  BY <1>1 DEF EndInv, ListedInv, dirs
<1>3. StackInv' /\ OutcomeInv' /\ TeardownIsComplete'
  BY <1>1 DEF EndInv, StackInv, OutcomeInv, TeardownIsComplete, workers, dirs, Finalizers
<1> QED  BY <1>2, <1>3 DEF EndInv

\* The finalizers that run in the main thread alone, and the end.
LEMMA FinalizersEnd == MInv /\ EndInv /\ (TestsEnd \/ SaveLogs \/ Cleanup) => EndInv'
<1> SUFFICES ASSUME MInv, EndInv, TestsEnd \/ SaveLogs \/ Cleanup PROVE EndInv'
  OBVIOUS
<1>1. TearDown /\ UNCHANGED <<workers, session, tests, collected>> /\ pc # "ended"
  BY DEF TestsEnd, SaveLogs, Cleanup, report
<1>2. StackInv'
  BY <1>1, TearDownUnwinds DEF EndInv
<1>3. phase = "none"
  <2>1. CASE TestsEnd
    BY <2>1 DEF TestsEnd, MainFree
  <2>2. CASE SaveLogs \/ Cleanup
    BY <2>2, Quiet DEF SaveLogs, Cleanup, Facts
  <2> QED  BY <2>1, <2>2
<1>4. CASE TestsEnd
  <2>1. pc = "test" /\ pc' = "collect" /\ tests > 0 /\ UNCHANGED dirs
    BY <1>1, <1>4, TearDownUnwinds DEF TestsEnd, EndInv, Behind, AfterDeploy
  <2>2. ListedInv'
    BY <2>1, ListedStays
  <2>3. OutcomeInv' /\ TeardownIsComplete'
    BY <1>1, <1>3, <2>1 DEF EndInv, OutcomeInv, TeardownIsComplete, workers
  <2> QED  BY <1>2, <2>2, <2>3 DEF EndInv
<1>5. CASE SaveLogs
  <2>1. pc = "save" /\ pc' = "clean"
    BY <1>1, <1>5, TearDownUnwinds DEF SaveLogs, EndInv, Behind, AfterDeploy
  <2>2. /\ UNCHANGED <<dirOf, allDirs, live>> /\ errors \subseteq errors'
        /\ dirty' = dirty \ allDirs \/ ("save" \in errors' /\ dirty' = dirty)
    BY <1>5 DEF SaveLogs
  <2>3. ListedInv'
    BY <2>1, <2>2 DEF EndInv, ListedInv
  <2>4. OutcomeInv' /\ TeardownIsComplete'
    BY <1>1, <1>3, <2>1, <2>2 DEF EndInv, OutcomeInv, TeardownIsComplete, workers, Finalizers
  <2> QED  BY <1>2, <2>3, <2>4 DEF EndInv
<1>6. CASE Cleanup
  <2>1. /\ pc = "clean" /\ pc' = "ended" /\ UNCHANGED dirty
        /\ (errors' = errors /\ live' = live \ allDirs) \/ errors' = errors \cup {"clean"}
    BY <1>1, <1>6, TearDownUnwinds DEF Cleanup, EndInv, Behind, AfterDeploy, report
  <2>2. ListedInv' /\ OutcomeInv'
    BY <1>1, <1>3, <2>1 DEF EndInv, ListedInv, OutcomeInv, workers, Finalizers
  <2>3. /\ "clean" \notin errors' => live' = {}
        /\ "save" \notin errors' => dirty = {}
        /\ errors' = {} => tests > 0 /\ collected = Vms
    BY <2>1 DEF EndInv, ListedInv, OutcomeInv, Finalizers
  <2>4. TeardownIsComplete'
    BY <1>1, <2>1, <2>3 DEF TeardownIsComplete
  <2> QED  BY <1>2, <2>2, <2>4 DEF EndInv
<1> QED  BY <1>4, <1>5, <1>6

LEMMA KillEnd == MInv /\ EndInv /\ Kill => EndInv'
BY DEF Kill, EndInv, StackInv, ListedInv, OutcomeInv, TeardownIsComplete, Behind, AfterDeploy, Finalizers

LEMMA IdleEnd == EndInv /\ UNCHANGED vars => EndInv'
BY DEF vars, report, workers, dirs, EndInv, StackInv, ListedInv, OutcomeInv, TeardownIsComplete

\* Whatever failed in a session that was not killed, wherever it failed and however many threads,
\* tests and sessions there were: no private directory is left unless removing one failed, no
\* events are missing from the logs unless saving them failed, and a session without errors ran
\* tests and has every artifact (the finalizers of ansible_clean_private_dirs,
\* ansible_collect_logs and collect_artifacts).
THEOREM TeardownsAreComplete == Spec => []TeardownIsComplete
<1>1. Init => EndInv
  BY DEF Init, EndInv, StackInv, ListedInv, OutcomeInv, TeardownIsComplete, Behind, AfterDeploy, Finalizers
<1>2. MInv /\ DirInv /\ EndInv /\ [Next]_vars => EndInv'
  BY BeginEnd, SetUpCollectorEnd, RunBeginsEnd, MainEnd, WorkerEnd, ForksEnd, JoinsEnd,
     FixturesEnd, WaitsEnd, FinalizersEnd, KillEnd, IdleEnd
     DEF Next, Pytest
<1>3. EndInv => TeardownIsComplete
  BY DEF EndInv
<1> QED  BY <1>1, <1>2, <1>3, MInvariance, DirInvariance, PTL DEF Spec

-----------------------------------------------------------------------------
(* RunSuite. *)

\* The numbers of jobs: nothing is known of a job that has not begun; and no job sets its trap
\* while the prefix of an earlier one is there.
JobInv ==
    /\ place # "ended" => job \in Jobs
    /\ place = "setup" => prefix = "none"
    /\ \A j \in images \cup excused : j <= job

\* Tests ran before the trap; a job that was not told of a failure has seen them pass, or was
\* sent a signal, as every job was whose cleanup runs as the handler of one.
StatusInv ==
    /\ place \in {"path", "setup"} \cup Running => pytest = "none"
    /\ place \in Cleaning \cup {"ended"} /\ job > 0 /\ status = 0 => pytest = "passed" \/ aborted
    /\ handler # "none" => aborted

\* A report is in the prefix until cleanup has moved it, and cleanup comes after the tests;
\* beyond the moving, it is there, or gone, only where find failed to move it.
ReportInv ==
    /\ pytest # "none" => junit # "none" \/ unmoved
    /\ place \in {"destroy", "libvirt", "remove"} \/ cleaned => junit # "prefix" \/ unmoved
    /\ cleaned => place \in Cleaning \cup {"ended"}

\* Only the job that runs may have images that nobody has to excuse: in the step between
\* making and linking them, or behind the link.
ImagesInv ==
    /\ images \subseteq excused \cup {job}
    /\ place \in {"path", "setup", "run", "mktemp"} => job \notin images
    /\ place = "link" => job \in images
    /\ job \in images /\ job \notin excused => place = "link" \/ linked = job
    /\ place = "ended" => images \subseteq excused

\* What cleanup has destroyed stays so.
JobVmInv == mock /\ (place = "remove" \/ cleaned) => vms[job] = "none"

JobIInv ==
    /\ JobTypeOK
    /\ JobInv /\ StatusInv /\ ReportInv /\ ImagesInv /\ JobVmInv
    /\ NeverRefused
-----------------------------------------------------------------------------
LEMMA JobInitIInv == JobInit => JobIInv
<1> SUFFICES ASSUME JobInit PROVE JobIInv
  OBVIOUS
<1>1. 0 \in 0 .. MaxJobs
  BY RunSuiteAssumption
<1>2. JobTypeOK
  BY <1>1 DEF JobInit, JobTypeOK
<1> QED  BY <1>2 DEF JobInit, JobIInv, JobInv, StatusInv, ReportInv, ImagesInv, JobVmInv, NeverRefused,
            Running, Cleaning

\* The steps of a job and what strikes it, each with the parts of the invariant it reads.
LEMMA JobNextKeeps == JobIInv /\ [JobNext]_jobVars => JobIInv'
<1> SUFFICES ASSUME JobIInv, [JobNext]_jobVars PROVE JobIInv'
  OBVIOUS
<1> USE DEF JobIInv, Goto, FailRun, machine, process, history, Running, Cleaning, StopCleanup, EndCleanup, Buried
<1>1. CASE Start
  <2>1. job' \in Jobs /\ job' \in 0 .. MaxJobs
    BY <1>1, RunSuiteAssumption DEF Start, JobTypeOK, Jobs
  <2>2. JobTypeOK'
    BY <1>1, <2>1 DEF Start, JobTypeOK
  <2>3. (JobInv /\ ImagesInv)'
    BY <1>1, <2>1 DEF Start, JobTypeOK, Jobs, JobInv, ImagesInv
  <2>4. (StatusInv /\ ReportInv /\ JobVmInv /\ NeverRefused)'
    BY <1>1, <2>1 DEF Start, JobTypeOK, StatusInv, ReportInv, JobVmInv, NeverRefused
  <2> QED  BY <2>2, <2>3, <2>4
<1>2. CASE GetRunPath
  <2>1. JobTypeOK'
    BY <1>2 DEF GetRunPath, JobTypeOK, JobInv, ImagesInv
  <2>2. (JobInv /\ ImagesInv)'
    BY <1>2 DEF GetRunPath, JobTypeOK, JobInv, ImagesInv
  <2>3. (StatusInv /\ ReportInv /\ JobVmInv /\ NeverRefused)'
    BY <1>2 DEF GetRunPath, JobTypeOK, JobInv, StatusInv, ReportInv, JobVmInv, NeverRefused
  <2> QED  BY <2>1, <2>2, <2>3
<1>3. CASE BeginRun
  <2>1. JobTypeOK'
    BY <1>3 DEF BeginRun, JobTypeOK, JobInv, ImagesInv
  <2>2. (JobInv /\ ImagesInv)'
    BY <1>3 DEF BeginRun, JobTypeOK, JobInv, ImagesInv
  <2>3. (StatusInv /\ ReportInv /\ JobVmInv /\ NeverRefused)'
    BY <1>3 DEF BeginRun, JobTypeOK, JobInv, StatusInv, ReportInv, JobVmInv, NeverRefused
  <2> QED  BY <2>1, <2>2, <2>3
<1>4. CASE MakeImages
  <2>1. JobTypeOK'
    BY <1>4 DEF MakeImages, JobTypeOK, JobInv, ImagesInv
  <2>2. (JobInv /\ ImagesInv)'
    BY <1>4 DEF MakeImages, JobTypeOK, JobInv, ImagesInv
  <2>3. (StatusInv /\ ReportInv /\ JobVmInv /\ NeverRefused)'
    BY <1>4 DEF MakeImages, JobTypeOK, JobInv, StatusInv, ReportInv, JobVmInv, NeverRefused
  <2> QED  BY <2>1, <2>2, <2>3
<1>5. CASE LinkImages
  <2>1. JobTypeOK'
    BY <1>5 DEF LinkImages, JobTypeOK, JobInv, ImagesInv
  <2>2. (JobInv /\ ImagesInv)'
    BY <1>5 DEF LinkImages, JobTypeOK, JobInv, ImagesInv
  <2>3. (StatusInv /\ ReportInv /\ JobVmInv /\ NeverRefused)'
    BY <1>5 DEF LinkImages, JobTypeOK, JobInv, StatusInv, ReportInv, JobVmInv, NeverRefused
  <2> QED  BY <2>1, <2>2, <2>3
<1>6. CASE LagoInit
  <2>1. JobTypeOK'
    BY <1>6 DEF LagoInit, JobTypeOK, JobInv, ImagesInv
  <2>2. (JobInv /\ ImagesInv)'
    BY <1>6 DEF LagoInit, JobTypeOK, JobInv, ImagesInv
  <2>3. (StatusInv /\ ReportInv /\ JobVmInv /\ NeverRefused)'
    BY <1>6 DEF LagoInit, JobTypeOK, JobInv, StatusInv, ReportInv, JobVmInv, NeverRefused
  <2> QED  BY <2>1, <2>2, <2>3
<1>7. CASE LagoStart
  <2>1. JobTypeOK'
    BY <1>7 DEF LagoStart, JobTypeOK, JobInv, ImagesInv
  <2>2. (JobInv /\ ImagesInv)'
    BY <1>7 DEF LagoStart, JobTypeOK, JobInv, ImagesInv
  <2>3. (StatusInv /\ ReportInv /\ JobVmInv /\ NeverRefused)'
    BY <1>7 DEF LagoStart, JobTypeOK, JobInv, StatusInv, ReportInv, JobVmInv, NeverRefused
  <2> QED  BY <2>1, <2>2, <2>3
<1>8. CASE RunTests
  <2>1. JobTypeOK'
    BY <1>8 DEF RunTests, JobTypeOK, JobInv, ImagesInv
  <2>2. (JobInv /\ ImagesInv)'
    BY <1>8 DEF RunTests, JobTypeOK, JobInv, ImagesInv
  <2>3. (StatusInv /\ ReportInv /\ JobVmInv /\ NeverRefused)'
    BY <1>8 DEF RunTests, JobTypeOK, JobInv, StatusInv, ReportInv, JobVmInv, NeverRefused
  <2> QED  BY <2>1, <2>2, <2>3
<1>9. CASE TimeOut
  <2>1. JobTypeOK'
    BY <1>9 DEF TimeOut, JobTypeOK, JobInv, ImagesInv
  <2>2. (JobInv /\ ImagesInv)'
    BY <1>9 DEF TimeOut, JobTypeOK, JobInv, ImagesInv
  <2>3. (StatusInv /\ ReportInv /\ JobVmInv /\ NeverRefused)'
    BY <1>9 DEF TimeOut, JobTypeOK, JobInv, StatusInv, ReportInv, JobVmInv, NeverRefused
  <2> QED  BY <2>1, <2>2, <2>3
<1>10. CASE Abort
  <2>1. JobTypeOK'
    BY <1>10 DEF Abort, JobTypeOK, JobInv, ImagesInv
  <2>2. (JobInv /\ ImagesInv)'
    BY <1>10 DEF Abort, JobTypeOK, JobInv, ImagesInv
  <2>3. (StatusInv /\ ReportInv /\ JobVmInv /\ NeverRefused)'
    BY <1>10 DEF Abort, JobTypeOK, JobInv, StatusInv, ReportInv, JobVmInv, NeverRefused
  <2> QED  BY <2>1, <2>2, <2>3
<1>11. CASE KillJob
  <2>1. JobTypeOK'
    BY <1>11 DEF KillJob, JobTypeOK, JobInv, ImagesInv
  <2>2. (JobInv /\ ImagesInv)'
    BY <1>11 DEF KillJob, JobTypeOK, JobInv, ImagesInv
  <2>3. (StatusInv /\ ReportInv /\ JobVmInv /\ NeverRefused)'
    BY <1>11 DEF KillJob, JobTypeOK, JobInv, StatusInv, ReportInv, JobVmInv, NeverRefused
  <2> QED  BY <2>1, <2>2, <2>3
<1>12. CASE Move
  <2>0. /\ place = "move" /\ UNCHANGED <<mock, prefix, vms, images, linked, job, pytest, aborted, cleaned>>
        /\ junit' = junit \/ (junit = "prefix" /\ junit' = "exported")
    BY <1>12 DEF Move
  <2>1. CASE /\ place' = "destroy" /\ UNCHANGED <<status, handler, excused>>
             /\ logs' = IF logs = "cwd" THEN "exported" ELSE logs
             /\ unmoved' = IF junit' = "prefix" THEN TRUE ELSE unmoved
    <3>0. /\ junit' \in {"none", "prefix", "exported"} /\ logs' \in {"none", "cwd", "exported"}
          /\ unmoved' \in BOOLEAN
      BY <2>0, <2>1 DEF JobTypeOK
    <3>a. place' = "destroy" /\ UNCHANGED <<status, handler, excused>>
      BY <2>1
    <3>1. JobTypeOK'
      BY <2>0, <3>0, <3>a DEF JobTypeOK
    <3>2. ReportInv'
      BY <2>0, <2>1 DEF ReportInv, JobTypeOK
    <3> QED  BY <2>0, <2>1, <3>1, <3>2 DEF JobInv, ImagesInv, StatusInv, JobVmInv, NeverRefused
  <2>2. CASE StopCleanup /\ UNCHANGED <<logs, unmoved>>
    <3>1. JobTypeOK'
      BY <2>0, <2>2 DEF JobTypeOK, JobInv
    <3>2. ReportInv'
      BY <2>0, <2>2 DEF ReportInv, JobTypeOK
    <3>3. (JobInv /\ ImagesInv)'
      BY <2>0, <2>2 DEF JobTypeOK, JobInv, ImagesInv
    <3> QED  BY <2>0, <2>2, <3>1, <3>2, <3>3 DEF StatusInv, JobVmInv, NeverRefused
  <2> QED  BY <1>12, <2>1, <2>2 DEF Move
<1>13. CASE Destroy
  <2>1. JobTypeOK'
    BY <1>13 DEF Destroy, JobTypeOK, JobInv, ImagesInv
  <2>2. (JobInv /\ ImagesInv)'
    BY <1>13 DEF Destroy, JobTypeOK, JobInv, ImagesInv
  <2>3. (StatusInv /\ ReportInv /\ JobVmInv /\ NeverRefused)'
    BY <1>13 DEF Destroy, JobTypeOK, JobInv, StatusInv, ReportInv, JobVmInv, NeverRefused
  <2> QED  BY <2>1, <2>2, <2>3
<1>14. CASE LibvirtCleanup
  <2>1. JobTypeOK'
    BY <1>14 DEF LibvirtCleanup, JobTypeOK, JobInv, ImagesInv
  <2>2. (JobInv /\ ImagesInv)'
    BY <1>14 DEF LibvirtCleanup, JobTypeOK, JobInv, ImagesInv
  <2>3. (StatusInv /\ ReportInv /\ JobVmInv /\ NeverRefused)'
    BY <1>14 DEF LibvirtCleanup, JobTypeOK, JobInv, StatusInv, ReportInv, JobVmInv, NeverRefused
  <2> QED  BY <2>1, <2>2, <2>3
<1>15. CASE Remove
  <2>1. JobTypeOK'
    <3>1. prefix' \in {"none", "made", "env"}
      BY <1>15 DEF Remove, JobTypeOK
    <3>4. junit' \in {"none", "prefix", "exported"}
      BY <1>15 DEF Remove, JobTypeOK
    <3>5. status' \in {0, 1, 124, 137, 143}
      BY <1>15 DEF Remove, JobTypeOK
    <3>6. cleaned' \in BOOLEAN
      BY <1>15 DEF Remove, JobTypeOK
    <3>2. images' \subseteq Jobs /\ linked' \in images' \cup {0}
      BY <1>15 DEF Remove, JobTypeOK
    <3>3. /\ place' \in {"move", "ended"} /\ handler' = "none" /\ excused' \subseteq Jobs
          /\ UNCHANGED <<mock, vms, logs, job, pytest, aborted, unmoved>>
      BY <1>15 DEF Remove, JobTypeOK, JobInv
    <3> QED  BY <3>1, <3>2, <3>3, <3>4, <3>5, <3>6 DEF JobTypeOK
  <2>2. (JobInv /\ ImagesInv)'
    BY <1>15 DEF Remove, JobTypeOK, JobInv, ImagesInv
  <2>3. (StatusInv /\ ReportInv /\ JobVmInv /\ NeverRefused)'
    BY <1>15 DEF Remove, JobTypeOK, JobInv, StatusInv, ReportInv, JobVmInv, NeverRefused
  <2> QED  BY <2>1, <2>2, <2>3
<1>16. CASE SetUp
  <2>1. JobTypeOK'
    BY <1>16 DEF SetUp, JobTypeOK
  <2>2. (JobInv /\ ImagesInv)'
    BY <1>16 DEF SetUp, JobTypeOK, JobInv, ImagesInv
  <2>3. (StatusInv /\ ReportInv /\ JobVmInv /\ NeverRefused)'
    BY <1>16 DEF SetUp, JobTypeOK, JobInv, StatusInv, ReportInv, JobVmInv, NeverRefused
  <2> QED  BY <2>1, <2>2, <2>3
<1>17. CASE UNCHANGED jobVars
  BY <1>17 DEF jobVars, JobTypeOK, JobInv, StatusInv, ReportInv, ImagesInv, JobVmInv, NeverRefused
<1> QED  BY <1>1, <1>2, <1>3, <1>4, <1>5, <1>6, <1>7, <1>8, <1>9, <1>10, <1>11, <1>12, <1>13, <1>14, <1>15, <1>16, <1>17
           DEF JobNext, Script

\* The inductive invariant holds in every state of the jobs; the theorems below follow from it.
LEMMA JobInvariance == JobSpec => []JobIInv
<1> QED  BY JobInitIInv, JobNextKeeps, PTL DEF JobSpec

-----------------------------------------------------------------------------
\* However many jobs run, fail, time out, are aborted or are killed one after another, every
\* variable of run_suite.sh and suite.sh keeps its type; the link leads to images that exist.
THEOREM RunSuiteTypeCorrect == JobSpec => []JobTypeOK
BY JobInvariance, PTL DEF JobIInv

\* The exit status of suite.sh is 0 only if pytest of this very job passed
\* (env_run_pytest_bulk's `|| failed=true`, set -e, timeout and the trap in between).
THEOREM GreenJobsPassed == JobSpec => []GreenIsHonest
<1>1. JobIInv => GreenIsHonest
  BY DEF JobIInv, StatusInv, GreenIsHonest
<1> QED  BY <1>1, JobInvariance, PTL

\* The trap of suite.sh saves the report before it removes the prefix, leaves no prefix the
\* next run_suite.sh would refuse, and in mock leaves images and machines behind only where a
\* job was killed or its own cleanup stopped.
THEOREM CleanupsAreComplete == JobSpec => []CleanupIsComplete
<1>1. JobIInv => CleanupIsComplete
  BY DEF JobIInv, JobTypeOK, ReportInv, ImagesInv, JobVmInv, NeverRefused, CleanupIsComplete, ReportSurvives,
         ImagesRemoved, MockCleanup
<1> QED  BY <1>1, JobInvariance, PTL

-----------------------------------------------------------------------------
(* StorageDomain. *)

\* Every script is in one of its own operations.
OpFits ==
    \/ /\ script = "contexts"
       /\ op \in {"create", "wait_unattached", "attach", "wait_active", "body",
                  "deactivate", "wait_maintenance", "destroy", "end"}
    \/ /\ script = "fixture"
       /\ op \in {"import", "create", "wait_unattached", "attach", "wait_active", "end"}
    \/ /\ script = "basic"
       /\ op \in {"last_event", "create", "wait_unattached", "event_created", "find_dc",
                  "attach", "wait_active", "event_active", "end"}

StorageInv == StorageTypeOK /\ OpFits /\ NoActiveLeak /\ FixtureGivesActive

\* The tables of control lead from an operation of a script to another one of it; destroy is
\* behind the wait for maintenance, and the end behind a wait for an active domain or destroy.
LEMMA ReturnTable ==
    ASSUME OpFits, op # "end"
    PROVE  LET next == OnReturn[script][op] IN
           /\ (op' = next /\ UNCHANGED script) => OpFits'
           /\ next = "destroy" => script = "contexts" /\ op = "wait_maintenance"
           /\ next = "end" => \/ script = "contexts" /\ op = "destroy"
                              \/ script = "fixture" /\ op = "wait_active"
                              \/ script = "basic" /\ op = "event_active"
<1>1. CASE script = "contexts"
  BY <1>1 DEF OpFits, OnReturn
<1>2. CASE script = "fixture"
  BY <1>2 DEF OpFits, OnReturn
<1>3. CASE script = "basic"
  BY <1>3 DEF OpFits, OnReturn, BasicOnReturn
<1> QED  BY <1>1, <1>2, <1>3 DEF OpFits

LEMMA RaiseTable ==
    ASSUME OpFits, op # "end"
    PROVE  LET next == OnRaise[script][op] IN
           /\ (op' = next /\ UNCHANGED script) => OpFits'
           /\ op = "import" => next = "create"
<1>1. CASE script = "contexts"
  BY <1>1 DEF OpFits, OnRaise
<1>2. CASE script = "fixture"
  BY <1>2 DEF OpFits, OnRaise
<1>3. CASE script = "basic"
  BY <1>3 DEF OpFits, OnRaise, BasicOnRaise
<1> QED  BY <1>1, <1>2, <1>3 DEF OpFits

LEMMA FitsIsTyped == OpFits => op \in Ops /\ script \in StorageScripts
BY DEF OpFits, Ops, StorageScripts

\* The initial states satisfy the inductive invariant.
LEMMA StorageInitInv == StorageInit => StorageInv
<1> SUFFICES ASSUME StorageInit PROVE StorageInv
  OBVIOUS
<1>1. OpFits /\ op \notin {"destroy", "end"}
  BY DEF StorageInit, OpFits, FirstOp, StorageScripts
<1>2. op \in Ops
  BY <1>1, FitsIsTyped
<1>3. StorageTypeOK
  <2>1. faults \in 0 .. MaxFaults /\ tries \in 1 .. MaxTries /\ sessions \in 1 .. MaxStorageSessions
    BY StorageDomainAssumption DEF StorageInit
  <2>2. sd \in Statuses /\ script \in StorageScripts /\ failed \in BOOLEAN /\ tasks \in BOOLEAN
    BY DEF StorageInit, Statuses
  <2> QED  BY <1>2, <2>1, <2>2 DEF StorageTypeOK
<1> QED  BY <1>1, <1>3 DEF StorageInv, NoActiveLeak, FixtureGivesActive

\* What an attempt that returns has seen: the waits and the events say what the engine's
\* status is, and a domain in maintenance stays there or is destroyed.
LEMMA ReturnIsSeen ==
    ASSUME StorageInv, op # "end", NEW answer \in {Refusal(op), "fatal"},
           Verdict(op, answer) = "return",
           sd' = IF answer = "ok" THEN AfterAccepted(op) ELSE sd
    PROVE  /\ op = "wait_maintenance" => sd' = "maintenance"
           /\ script # "contexts" /\ op \in {"wait_active", "event_active"} => sd' = "active"
           /\ op = "destroy" => sd' \in {"absent", sd}
<1>1. answer \in {"ok", "fatal", "busy"}
  BY DEF Refusal
<1>2. ASSUME op = "wait_maintenance" PROVE sd' = "maintenance"
  <2>1. script = "contexts"
    BY <1>2 DEF StorageInv, OpFits
  <2>2. Success(op, answer)
    BY <1>2, <2>1 DEF Verdict, Synced, AttemptVerdict, FirstVerdict, RetryVerdict
  <2> QED  BY <1>2, <2>2 DEF Success, Events, AfterAccepted
<1>3. ASSUME script # "contexts", op \in {"wait_active", "event_active"}
      PROVE  sd' = "active"
  <2>1. Success(op, answer) /\ (op = "event_active" => answer = "ok")
    BY <1>3 DEF StorageInv, OpFits, Verdict, AssertVerdict, Synced, AttemptVerdict,
                FirstVerdict, RetryVerdict
  <2> QED  BY <1>3, <2>1 DEF Success, Events, EventSeen, AfterAccepted
<1>4. ASSUME op = "destroy" PROVE sd' \in {"absent", sd}
  BY <1>4 DEF AfterAccepted
<1> QED  BY <1>2, <1>3, <1>4

\* The engine on its own takes no domain away from where the client waited for it.
LEMMA CompleteInv == StorageInv /\ Complete => StorageInv'
BY DEF StorageInv, Complete, StorageTypeOK, OpFits, NoActiveLeak, FixtureGivesActive, Statuses, Attached

LEMMA NewSessionInv == StorageInv /\ NewSession => StorageInv'
<1> SUFFICES ASSUME StorageInv, NewSession PROVE StorageInv'
  OBVIOUS
<1>1. OpFits' /\ op' \notin {"destroy", "end"}
  BY DEF StorageInv, NewSession, OpFits, FirstOp, StorageScripts, StorageTypeOK
<1>2. op' \in Ops
  BY <1>1 DEF OpFits, Ops
<1>3. StorageTypeOK'
  <2>1. /\ faults' \in 0 .. MaxFaults /\ tries' \in 1 .. MaxTries
        /\ sessions' \in 1 .. MaxStorageSessions
    BY StorageDomainAssumption DEF StorageInv, NewSession, StorageTypeOK, storageEngine
  <2>2. /\ sd' \in Statuses /\ script' \in StorageScripts
        /\ failed' \in BOOLEAN /\ tasks' \in BOOLEAN
    BY DEF StorageInv, NewSession, StorageTypeOK, storageEngine
  <2> QED  BY <1>2, <2>1, <2>2 DEF StorageTypeOK
<1> QED  BY <1>1, <1>3 DEF StorageInv, NoActiveLeak, FixtureGivesActive

LEMMA StatusTyped ==
    ASSUME StorageTypeOK, NEW answer, sd' = IF answer = "ok" THEN AfterAccepted(op) ELSE sd
    PROVE  sd' \in Statuses
BY DEF StorageTypeOK, AfterAccepted, Statuses

\* An operation that raises leaves an exception behind it, except import_by_name.
LEMMA RaisesInv ==
    ASSUME StorageInv, op # "end", Raises, sd' \in Statuses, faults' \in 0 .. MaxFaults,
           UNCHANGED <<tasks, script, sessions>>
    PROVE  StorageInv'
<1>1. OpFits' /\ (op = "import" => op' = "create")
  BY RaiseTable DEF StorageInv, Raises
<1>2. StorageTypeOK'
  <2>1. op' \in Ops
    BY <1>1 DEF OpFits, Ops
  <2>2. tries' \in 1 .. MaxTries /\ failed' \in BOOLEAN
    BY StorageDomainAssumption DEF Raises, StorageInv, StorageTypeOK
  <2> QED  BY <2>1, <2>2 DEF StorageInv, StorageTypeOK
<1>3. NoActiveLeak' /\ FixtureGivesActive'
  BY <1>1 DEF Raises, NoActiveLeak, FixtureGivesActive, StorageInv, StorageTypeOK
<1> QED  BY <1>1, <1>2, <1>3 DEF StorageInv

\* An operation that returns leads on, and what it saw carries the two properties.
LEMMA ReturnsInv ==
    ASSUME StorageInv, op # "end", Returns, sd' \in Statuses, faults' \in 0 .. MaxFaults,
           UNCHANGED <<tasks, script, sessions>>,
           op = "wait_maintenance" => sd' = "maintenance",
           script # "contexts" /\ op \in {"wait_active", "event_active"} => sd' = "active",
           op = "destroy" => sd' \in {"absent", sd}
    PROVE  StorageInv'
<1>1. CASE op \in Events /\ failed
  <2>1. op' = "end" /\ failed' /\ OpFits'
    BY <1>1 DEF Returns, Events, OpFits, StorageInv
  <2>2. StorageTypeOK'
    BY <2>1, StorageDomainAssumption DEF Returns, StorageInv, StorageTypeOK, Ops
  <2> QED  BY <2>1, <2>2 DEF StorageInv, NoActiveLeak, FixtureGivesActive
<1>2. CASE ~(op \in Events /\ failed)
  <2>1. op' = OnReturn[script][op] /\ OpFits'
    BY <1>2, ReturnTable DEF Returns, StorageInv
  <2>2. StorageTypeOK'
    <3>1. op' \in Ops
      BY <2>1 DEF OpFits, Ops
    <3> QED  BY <3>1, StorageDomainAssumption DEF Returns, StorageInv, StorageTypeOK
  <2>3. NoActiveLeak'
    <3>1. op' = "destroy" => sd' = "maintenance"
      BY <2>1, ReturnTable DEF StorageInv
    <3>2. op' = "end" /\ script = "contexts" /\ ~failed => sd' \notin Attached \ {"maintenance"}
      BY <2>1, ReturnTable DEF StorageInv, NoActiveLeak, Attached
    <3> QED  BY <3>1, <3>2 DEF NoActiveLeak, Returns
  <2>4. FixtureGivesActive'
    BY <2>1, ReturnTable DEF StorageInv, FixtureGivesActive, Returns
  <2> QED  BY <2>1, <2>2, <2>3, <2>4 DEF StorageInv
<1> QED  BY <1>1, <1>2

\* Another attempt of the same operation: nothing was settled, and an accepted destroy or an
\* operation that ended would not be tried again.
LEMMA AttemptInv == StorageInv /\ Attempt => StorageInv'
<1> SUFFICES ASSUME StorageInv, Attempt PROVE StorageInv'
  OBVIOUS
<1>1. PICK answer \in {Refusal(op), "fatal"} :
          /\ op \notin {"body", "end"}
          /\ faults' \in 0 .. MaxFaults
          /\ sd' = IF answer = "ok" THEN AfterAccepted(op) ELSE sd
          /\ CASE Verdict(op, answer) = "return" -> Returns
               [] Verdict(op, answer) = "raise" -> Raises
               [] Verdict(op, answer) = "retry" -> Retries
          /\ UNCHANGED <<tasks, script, sessions>>
  <2>1. PICK answer \in {Refusal(op), "fatal"} :
            /\ IF answer = Refusal(op)
                  THEN UNCHANGED faults
                  ELSE /\ op # "import"
                       /\ faults < MaxFaults
                       /\ faults' = faults + 1
            /\ sd' = IF answer = "ok" THEN AfterAccepted(op) ELSE sd
            /\ CASE Verdict(op, answer) = "return" -> Returns
                 [] Verdict(op, answer) = "raise" -> Raises
                 [] Verdict(op, answer) = "retry" -> Retries
    BY Zenon DEF Attempt
  <2>2. /\ op \notin {"body", "end"}
        /\ UNCHANGED <<tasks, script, sessions>>
    BY DEF Attempt
  <2>3. faults' \in 0 .. MaxFaults
    <3>1. faults' = faults \/ (faults < MaxFaults /\ faults' = faults + 1)
      BY <2>1
    <3> QED  BY <3>1, StorageDomainAssumption DEF StorageInv, StorageTypeOK
  <2> QED  BY <2>1, <2>2, <2>3, Zenon
<1>2. sd' \in Statuses
  BY <1>1, StatusTyped DEF StorageInv
<1>3. CASE Verdict(op, answer) = "return"
  BY <1>1, <1>2, <1>3, ReturnIsSeen, ReturnsInv
<1>4. CASE Verdict(op, answer) = "raise"
  BY <1>1, <1>2, <1>4, RaisesInv
<1>5. CASE Verdict(op, answer) = "retry"
  <2>1. CASE Raises
    BY <1>1, <1>2, <2>1, RaisesInv
  <2>2. CASE tries < MaxTries /\ tries' = tries + 1 /\ UNCHANGED <<op, failed>>
    <3>1. StorageTypeOK'
      BY <1>1, <1>2, <2>2, StorageDomainAssumption DEF StorageInv, StorageTypeOK
    <3>2. OpFits'
      BY <1>1, <2>2 DEF StorageInv, OpFits
    <3>3. op = "destroy" => answer # "ok"
      BY <1>5 DEF Verdict, Synced, Success, Events, AttemptVerdict, FirstVerdict,
                  RetryVerdict, StorageInv, OpFits
    <3> QED  BY <1>1, <2>2, <3>1, <3>2, <3>3 DEF StorageInv, NoActiveLeak, FixtureGivesActive
  <2> QED  BY <1>1, <1>5, <2>1, <2>2 DEF Retries
<1>6. Verdict(op, answer) \in {"return", "raise", "retry"}
  BY DEF Verdict, AssertVerdict, AttemptVerdict, FirstVerdict, RetryVerdict
<1> QED  BY <1>3, <1>4, <1>5, <1>6

LEMMA BodyInv == StorageInv /\ Body => StorageInv'
<1> SUFFICES ASSUME StorageInv, Body PROVE StorageInv'
  OBVIOUS
<1>1. /\ op = "body" /\ sd' \in Statuses /\ faults' \in 0 .. MaxFaults
      /\ UNCHANGED <<tasks, script, sessions>>
  BY DEF Body, storageEngine, StorageInv, StorageTypeOK
<1> QED  BY <1>1, ReturnsInv, RaisesInv DEF Body, StorageInv, OpFits

\* Every step preserves the inductive invariant.
LEMMA StorageNextInv == StorageInv /\ [StorageNext]_storageVars => StorageInv'
<1> SUFFICES ASSUME StorageInv, [StorageNext]_storageVars PROVE StorageInv'
  OBVIOUS
<1>1. CASE TasksChange
  BY <1>1 DEF TasksChange, StorageInv, StorageTypeOK, OpFits, NoActiveLeak, FixtureGivesActive
<1>2. CASE UNCHANGED storageVars
  BY <1>2 DEF storageVars, StorageInv, StorageTypeOK, OpFits, NoActiveLeak, FixtureGivesActive
<1>3. CASE Ended
  BY <1>2, <1>3 DEF Ended
<1> QED  BY <1>1, <1>2, <1>3, CompleteInv, AttemptInv, BodyInv, NewSessionInv
         DEF StorageNext, Client

LEMMA StorageInvariance == StorageSpec => []StorageInv
BY StorageInitInv, StorageNextInv, PTL DEF StorageSpec

\* Every variable of the storage scripts keeps its type.
THEOREM StorageTypeCorrect == StorageSpec => []StorageTypeOK
BY StorageInvariance, PTL DEF StorageInv

\* However many calls are refused and however many sessions are killed: no domain is destroyed,
\* or left behind by a test without an exception, while it is active (datacenterlib.py:123-133
\* around storagelib.py:268-280).
THEOREM NothingActiveIsLeft == StorageSpec => []NoActiveLeak
BY StorageInvariance, PTL DEF StorageInv

\* The default storage domain fixture and storage_utils.domain.add return active domains only.
THEOREM GivenDomainsAreActive == StorageSpec => []FixtureGivesActive
BY StorageInvariance, PTL DEF StorageInv
=============================================================================
