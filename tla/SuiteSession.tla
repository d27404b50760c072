---------------------------- MODULE SuiteSession ----------------------------
(***************************************************************************)
(* pytest sessions of the network suite, one after another on the same      *)
(* virtual machines: the session fixtures in the order pytest sets them up, *)
(* the deployment that is marked in the prefix, the ansible runs of the     *)
(* main thread and of the worker threads in their private directories, and  *)
(* the teardown that collects artifacts, saves the ansible events and       *)
(* removes the directories.                                                 *)
(*                                                                         *)
(* Any run may fail, and a session may be killed.                           *)
(***************************************************************************)
EXTENDS Naturals, Sequences, FiniteSetsExt

CONSTANTS
    Vms,
    Scripts,       \* deployment scripts of each VM
    MaxSessions,   \* bound: sessions one after another
    MaxTests,      \* bound: test functions of a session
    MaxRepos       \* bound: custom repositories of a deployment

Main == "main"

ASSUME SuiteSessionAssumption ==
    /\ Main \notin Vms
    /\ Scripts \in Nat
    /\ MaxSessions \in Nat
    /\ MaxTests \in Nat
    /\ MaxRepos \in Nat

VARIABLES
    \* what outlives a session
    marker,      \* the file "deployed" in the prefix
    steps,       \* steps of the last deployment the VMs went through
    scripts,     \* scripts of the last deployment each VM went through
    repos,       \* custom repositories the last deployment has: they are extra-src-1, ...
    names,       \* names of custom repositories the VMs know, since their creation
    used,        \* names of the repositories that packages on the VMs came from
    own,         \* those of them that the last deployment itself added and installed from
    inherited,   \* names that were known when the last deployment began
    engine,      \* "absent", "broken" (engine-setup failed), "up"
    hosts,       \* of the engine: "absent", "installing", "up", "install_failed"
    \* the session
    session,     \* its number
    custom,      \* --custom-repo: "none", "check", or "skip" with --skip-custom-repos-check
    pc,          \* the fixture being set up or its finalizer, or "test", "ended"
    active,      \* the fixtures that are set up and have a teardown, a stack
    errors,      \* where something failed: "setup", "test", "collect", "save",
                 \* "clean", "killed"
    ready,       \* fixtures host_0_up, host_1_up: "asked", "up", "failed", as cached
    tests,       \* test functions run
    collected,   \* VMs whose artifacts were fetched and unpacked
    \* its threads
    phase,       \* what workers are for: "none", "deploy", "test", "collect"
    thread,      \* main and the workers: "off", "idle", "running", "ok", "failed"
    left,        \* ansible runs a worker still has to make
    \* PrivateDir
    dirOf,       \* the directory in thread_local, NoDir before the first get
    allDirs,     \* all_dirs
    live,        \* the directories of this session that are on disk
    dirty        \* directories with events that are not in ansible_logs

packages == <<repos, names, used, own, inherited>>
vm == <<marker, steps, scripts, engine, hosts, packages>>
report == <<session, custom, errors, ready, tests, collected>>
workers == <<phase, thread, left>>
dirs == <<dirOf, allDirs, live, dirty>>
vars == <<vm, report, pc, active, workers, dirs>>

Threads == Vms \cup {Main}
NoDir == <<"none", Main>>
\* A directory is named after the thread it is made for: which fixture or
\* test started the thread, and which VM it works on.
Dirs == {"main", "deploy", "test", "collect"} \X Threads

\* Autouse fixtures of a session are set up in the order of their names,
\* after what they ask for (default_cluster asks for the engine).
Setup == <<"ansible_clean_private_dirs", "ansible_collect_logs", "collect_artifacts",
           "deploy", "engine_facts", "ovirt_engine_setup", "ovirt_engine_service_up",
           "host_facts", "install_hosts">>
Facts == {"engine_facts", "host_facts"}
Finalizer == [ansible_clean_private_dirs |-> "clean", ansible_collect_logs |-> "save",
              collect_artifacts |-> "collect"]

\* What deploy does before the scripts; the runs of a step are one run.
Prepare == <<"wait_for_connection", "set_hostname", "disable_all_repos", "add_dummy_repo",
             "expand_jenkins_repos", "add_custom_repos", "upgrade",
             "check_installed_packages", "report_ovirt_packages_versions">>
Prepared == Len(Prepare)

\* The options and the expanded list decide which steps there are.
Skipped(step, n) ==
    \/ custom = "none" /\ step \in {"expand_jenkins_repos", "add_custom_repos", "upgrade",
                                   "check_installed_packages"}
    \/ custom = "skip" /\ step = "check_installed_packages"
    \/ n = 0 /\ step = "add_custom_repos"

\* The step of the deployment that is next, when there is one.
Step == Prepare[steps + 1]
Done(n) ==
    steps' = Min({k \in (steps + 1) .. Prepared :
                    k = Prepared \/ ~Skipped(Prepare[k + 1], n)})

Init ==
    /\ marker = FALSE /\ steps = 0 /\ scripts = [v \in Vms |-> 0]
    /\ repos = 0 /\ names = 0 /\ used = {} /\ own = {} /\ inherited = 0
    /\ engine = "absent" /\ hosts = [v \in Vms |-> "absent"]
    /\ session = 0 /\ custom = "none" /\ pc = "ended" /\ active = <<>>
    /\ errors = {} /\ ready = "asked" /\ tests = 0 /\ collected = {}
    /\ phase = "none" /\ thread = [t \in Threads |-> "off"] /\ left = [v \in Vms |-> 0]
    /\ dirOf = [t \in Threads |-> NoDir] /\ allDirs = {} /\ live = {} /\ dirty = {}

Begin ==
    /\ pc = "ended" /\ session < MaxSessions
    /\ session' = session + 1
    /\ custom' \in {"none", "check", "skip"}
    /\ pc' = Setup[1] /\ active' = <<>>
    /\ errors' = {} /\ ready' = "asked" /\ tests' = 0 /\ collected' = {}
    /\ phase' = "none"
    /\ thread' = [t \in Threads |-> IF t = Main THEN "idle" ELSE "off"]
    /\ left' = [v \in Vms |-> 0]
    /\ dirOf' = [t \in Threads |-> NoDir] /\ allDirs' = {} /\ live' = {} /\ dirty' = {}
    /\ UNCHANGED vm

\* Finalizers run in the reverse order of the setup, whatever failed.
TearDown ==
    IF active = <<>> THEN pc' = "ended" /\ UNCHANGED active
                     ELSE /\ pc' = Finalizer[active[Len(active)]]
                          /\ active' = SubSeq(active, 1, Len(active) - 1)

\* A fixture raises while it is set up: there are no tests.
Fail == errors' = errors \cup {"setup"} /\ TearDown

\* The next fixture of the setup, or the first test.
SetUpAfter(f) ==
    LET k == CHOOSE n \in 1 .. Len(Setup) : Setup[n] = f
    IN  pc' = IF k = Len(Setup) THEN "test" ELSE Setup[k + 1]

\* A generator fixture runs up to its yield.  collect_artifacts asks for
\* artifacts, that is for the init file of lago, and this may fail.
SetUpCollector(f) ==
    /\ f \in DOMAIN Finalizer
    /\ pc = f
    /\ \/ SetUpAfter(f) /\ active' = Append(active, f) /\ UNCHANGED report
       \/ f = "collect_artifacts" /\ Fail /\ UNCHANGED <<session, custom, ready, tests,
                                                         collected>>
    /\ UNCHANGED <<vm, workers, dirs>>

-----------------------------------------------------------------------------
(* Ansible runs.                                                            *)

\* Mutant: the directory is an attribute of the class, not of the thread.
GetDirShared(t) ==
    LET d == <<"main", Main>>
    IN  /\ dirOf' = [dirOf EXCEPT ![t] = d]
        /\ allDirs' = allDirs \cup {d}
        /\ live' = live \cup {d}

\* Mutant: the directory of a worker is not entered into all_dirs.
GetDirUnlisted(t) ==
    LET d == <<IF t = Main THEN "main" ELSE phase, t>>
    IN  /\ dirOf' = [dirOf EXCEPT ![t] = d]
        /\ allDirs' = IF t = Main THEN allDirs \cup {d} ELSE allDirs
        /\ live' = live \cup {d}

\* PrivateDir.get
GetDir(t) ==
    IF dirOf[t] # NoDir
       THEN UNCHANGED <<dirOf, allDirs, live>>
       ELSE LET d == <<IF t = Main THEN "main" ELSE phase, t>>
            IN  /\ dirOf' = [dirOf EXCEPT ![t] = d]
                /\ allDirs' = allDirs \cup {d}
                /\ live' = live \cup {d}

\* The main thread is in code of its own, not in start_all or join_all.
MainFree == phase = "none" /\ thread[Main] = "idle"

MainRuns ==
    \/ pc = "deploying" /\ steps < Prepared /\ Step # "expand_jenkins_repos"
    \/ pc \in Facts
    \/ pc = "test" /\ ready = "up" /\ tests < MaxTests

\* _run_ansible_runner begins, in the main thread or in a worker.
RunBegins(t) ==
    /\ thread[t] = "idle"
    /\ IF t = Main THEN phase = "none" /\ MainRuns ELSE left[t] > 0
    /\ GetDir(t)
    /\ thread' = [thread EXCEPT ![t] = "running"]
    /\ UNCHANGED <<vm, report, pc, active, phase, left, dirty>>

\* What the runs of a step of the deployment do to the VMs when they make `added`
\* of its repositories known.  The upgrade takes what is newer in any of them,
\* those of an earlier deployment included: disabling them may have failed, which
\* nobody notices.  On some of the VMs it does so although it fails on others.
Prepares(added) ==
    /\ names' = IF Step = "add_custom_repos" THEN Max({names, added}) ELSE names
    /\ IF Step = "upgrade"
          THEN \E from \in SUBSET (1 .. names) :
                  used' = used \cup from /\ own' = own \cup (from \cap (1 .. repos))
          ELSE UNCHANGED <<used, own>>
    /\ UNCHANGED <<repos, inherited>>

\* expand_jenkins_repos: a page cannot be read, or there are n repositories in
\* all; a job without artifacts adds none.
ExpandRepos ==
    /\ pc = "deploying" /\ MainFree
    /\ steps < Prepared /\ Step = "expand_jenkins_repos"
    /\ \/ \E n \in 0 .. MaxRepos : repos' = n /\ Done(n) /\ UNCHANGED <<pc, active, errors>>
       \/ Fail /\ UNCHANGED <<repos, steps>>
    /\ UNCHANGED <<marker, scripts, names, used, own, inherited, engine, hosts, session, custom,
                   ready, tests, collected, workers, dirs>>

\* How many names dnf lists, in their order: those of this deployment, and
\* perhaps those of an earlier one, which are disabled.
Listed == repos .. names

InstalledFrom(listed) == used \cap (1 .. listed)

\* check_installed_packages does not raise.  It goes by the names of repositories, which are
\* the same in every deployment: what an earlier one installed satisfies it, too.
ChecksPackages == \E listed \in Listed : listed = 0 \/ InstalledFrom(listed) # {}

\* A run of the main thread succeeds: a step of the deployment, facts, a test.
MainSucceeds ==
    /\ thread[Main] = "running"
    /\ thread' = [thread EXCEPT ![Main] = "idle"]
    /\ dirty' = dirty \cup {dirOf[Main]}
    /\ IF pc = "deploying"
          THEN /\ Step = "check_installed_packages" => ChecksPackages
               /\ Done(repos) /\ Prepares(repos)
          ELSE UNCHANGED <<steps, packages>>
    /\ tests' = IF pc = "test" THEN tests + 1 ELSE tests
    /\ IF pc \in Facts THEN SetUpAfter(pc) ELSE UNCHANGED pc
    /\ UNCHANGED <<marker, scripts, engine, hosts, session, custom, errors, ready,
                   collected, active,
                   phase, left, dirOf, allDirs, live>>

\* AnsibleExecutionError: a test fails, or the fixture that is being set up.
MainFails ==
    /\ thread[Main] = "running"
    /\ thread' = [thread EXCEPT ![Main] = "idle"]
    /\ dirty' = dirty \cup {dirOf[Main]}
    /\ IF pc = "test"
          THEN errors' = errors \cup {"test"} /\ tests' = tests + 1 /\ UNCHANGED <<pc, active>>
          ELSE Fail /\ UNCHANGED tests
    /\ IF pc = "deploying" THEN \E n \in 0 .. repos : Prepares(n) ELSE UNCHANGED packages
    /\ UNCHANGED <<marker, steps, scripts, engine, hosts, session, custom, ready, collected,
                   phase, left, dirOf, allDirs, live>>

\* A worker ends after its last run: run_scripts, or collect, which unpacks.
WorkerSucceeds(v) ==
    /\ thread[v] = "running"
    /\ left' = [left EXCEPT ![v] = @ - 1]
    /\ thread' = [thread EXCEPT ![v] = IF left[v] = 1 THEN "ok" ELSE "idle"]
    /\ dirty' = dirty \cup {dirOf[v]}
    /\ scripts' = IF phase = "deploy" THEN [scripts EXCEPT ![v] = @ + 1] ELSE scripts
    /\ collected' = IF phase = "collect" /\ left[v] = 1 THEN collected \cup {v} ELSE collected
    /\ UNCHANGED <<marker, steps, engine, hosts, packages, session, custom, errors, ready,
                   tests, pc, active,
                   phase, dirOf, allDirs, live>>

\* The exception ends the worker and waits for join_all.
WorkerFails(v) ==
    /\ thread[v] = "running"
    /\ thread' = [thread EXCEPT ![v] = "failed"]
    /\ dirty' = dirty \cup {dirOf[v]}
    /\ UNCHANGED <<vm, report, pc, active, phase, left, dirOf, allDirs, live>>

\* VectorThread.start_all: a worker for each VM, with runs to make.
Fork(for, runs) ==
    /\ phase' = for
    /\ thread' = [t \in Threads |-> IF t # Main /\ runs = 0 THEN "ok" ELSE "idle"]
    /\ left' = [v \in Vms |-> runs]
    /\ dirOf' = [t \in Threads |-> IF t = Main THEN dirOf[Main] ELSE NoDir]

WorkersEnded == phase # "none" /\ \A v \in Vms : thread[v] \in {"ok", "failed"}
WorkersSucceeded == \A v \in Vms : thread[v] = "ok"
Join == phase' = "none" /\ thread' = [t \in Threads |-> IF t = Main THEN "idle" ELSE "off"]

-----------------------------------------------------------------------------
(* The deploy fixture.                                                      *)

\* Not marked: start over, on VMs where an earlier deployment may have been.
Deploy ==
    /\ pc = "deploy"
    /\ IF marker
          THEN SetUpAfter(pc) /\ UNCHANGED <<steps, scripts, repos, own, inherited>>
          ELSE /\ pc' = "deploying" /\ steps' = 0 /\ scripts' = [v \in Vms |-> 0]
               /\ repos' = 0 /\ own' = {} /\ inherited' = names
    /\ UNCHANGED <<marker, names, used, engine, hosts, report, active, workers, dirs>>

RunScripts ==
    /\ pc = "deploying" /\ MainFree /\ steps = Prepared
    /\ Fork("deploy", Scripts)
    /\ UNCHANGED <<vm, report, pc, active, allDirs, live, dirty>>

\* Mutant: the marker is written whatever the scripts ended with.
MarkWhateverEnded ==
    /\ phase = "deploy" /\ WorkersEnded
    /\ Join
    /\ marker' = TRUE
    /\ SetUpAfter("deploy")
    /\ UNCHANGED <<steps, scripts, engine, hosts, packages, report, active, left, dirs>>

\* join_all returns or raises; the marker is written only if it returns.
MarkAsDeployed ==
    /\ phase = "deploy" /\ WorkersEnded
    /\ Join
    /\ IF WorkersSucceeded
          THEN marker' = TRUE /\ SetUpAfter("deploy") /\ UNCHANGED <<errors, active>>
          ELSE Fail /\ UNCHANGED marker
    /\ UNCHANGED <<steps, scripts, engine, hosts, packages, session, custom, ready, tests,
                   collected, left, dirs>>

-----------------------------------------------------------------------------
(* The engine and the hosts.                                                *)

\* The result of engine-setup is not looked at; only the connection to the engine raises, while
\* the answer file is put there or the command runs.
OvirtEngineSetup ==
    /\ pc = "ovirt_engine_setup"
    /\ \/ engine' \in {"up", "broken"} /\ SetUpAfter(pc) /\ UNCHANGED <<errors, active>>
       \/ engine' \in {engine, "up", "broken"} /\ Fail
    /\ UNCHANGED <<marker, steps, scripts, hosts, packages, session, custom, ready, tests,
                   collected, workers, dirs>>

\* sync until there is a Connection, or a Timeout.
OvirtEngineServiceUp ==
    /\ pc = "ovirt_engine_service_up"
    /\ \/ engine = "up" /\ SetUpAfter(pc) /\ UNCHANGED <<errors, active>>
       \/ Fail
    /\ UNCHANGED <<vm, session, custom, ready, tests, collected, workers, dirs>>

\* _create_host of every host: imported if the engine knows it.
InstallHosts ==
    /\ pc = "install_hosts"
    /\ \/ /\ hosts' = [v \in Vms |-> IF hosts[v] = "absent" THEN "installing" ELSE hosts[v]]
          /\ SetUpAfter(pc)
          /\ UNCHANGED <<errors, active>>
       \/ Fail /\ UNCHANGED hosts
    /\ UNCHANGED <<marker, steps, scripts, engine, packages, session, custom, ready, tests,
                   collected, workers, dirs>>

HostInstalls(v) ==
    /\ hosts[v] = "installing"
    /\ hosts' \in {[hosts EXCEPT ![v] = s] : s \in {"up", "install_failed"}}
    /\ UNCHANGED <<marker, steps, scripts, engine, packages, report, pc, active, workers, dirs>>

-----------------------------------------------------------------------------
(* Tests, and the teardown.                                                 *)

\* The first test asks for host_0_up and host_1_up, which wait for the hosts;
\* later tests are given the same outcome.
WaitForHosts ==
    /\ pc = "test" /\ ready = "asked"
    /\ \/ ready' = "up" /\ \A v \in Vms : hosts[v] = "up"
       \/ ready' = "failed" /\ \E v \in Vms : hosts[v] # "up"
    /\ UNCHANGED <<vm, session, custom, errors, tests, collected, pc, active, workers, dirs>>

TestErrors ==
    /\ pc = "test" /\ ready = "failed" /\ tests < MaxTests
    /\ errors' = errors \cup {"test"} /\ tests' = tests + 1
    /\ UNCHANGED <<vm, session, custom, ready, collected, pc, active, workers, dirs>>

\* A test that starts threads of its own, with an ansible run in each.
TestInThreads ==
    /\ pc = "test" /\ MainFree /\ ready = "up" /\ tests < MaxTests
    /\ Fork("test", 1)
    /\ UNCHANGED <<vm, report, pc, active, allDirs, live, dirty>>

JoinTest ==
    /\ phase = "test" /\ WorkersEnded
    /\ Join
    /\ tests' = tests + 1
    /\ errors' = IF WorkersSucceeded THEN errors ELSE errors \cup {"test"}
    /\ UNCHANGED <<vm, session, custom, ready, collected, pc, active, left, dirs>>

TestsEnd ==
    /\ pc = "test" /\ MainFree /\ tests > 0
    /\ TearDown
    /\ UNCHANGED <<vm, report, workers, dirs>>

\* collect_artifacts: archive and fetch in a thread for each VM.
CollectArtifacts ==
    /\ pc = "collect" /\ MainFree
    /\ Fork("collect", 2)
    /\ UNCHANGED <<vm, report, pc, active, allDirs, live, dirty>>

JoinCollect ==
    /\ phase = "collect" /\ WorkersEnded
    /\ Join
    /\ TearDown
    /\ errors' = IF WorkersSucceeded THEN errors ELSE errors \cup {"collect"}
    /\ UNCHANGED <<vm, session, custom, ready, tests, collected, left, dirs>>

\* LogsCollector.save: the events of every directory that is listed.
SaveLogs ==
    /\ pc = "save"
    /\ \/ dirty' = dirty \ allDirs /\ UNCHANGED errors
       \/ errors' = errors \cup {"save"} /\ UNCHANGED dirty
    /\ TearDown
    /\ UNCHANGED <<vm, session, custom, ready, tests, collected, workers, dirOf, allDirs, live>>

\* PrivateDir.cleanup: a directory that cannot be removed keeps those behind it from being.
Cleanup ==
    /\ pc = "clean"
    /\ \/ live' = live \ allDirs /\ allDirs' = {} /\ UNCHANGED errors
       \/ /\ \E kept \in SUBSET allDirs \ {{}} : live' = (live \ allDirs) \cup kept
          /\ errors' = errors \cup {"clean"}
          /\ UNCHANGED allDirs
    /\ TearDown
    /\ UNCHANGED <<vm, session, custom, ready, tests, collected, workers, dirOf, dirty>>

Kill ==
    /\ pc # "ended"
    /\ pc' = "ended" /\ errors' = errors \cup {"killed"}
    /\ phase' = "none" /\ thread' = [t \in Threads |-> "off"]
    /\ UNCHANGED <<vm, session, custom, ready, tests, collected, active, left, dirs>>

Pytest ==
    \/ \E f \in DOMAIN Finalizer : SetUpCollector(f)
    \/ Deploy \/ ExpandRepos \/ RunScripts \/ MarkAsDeployed
    \/ OvirtEngineSetup \/ OvirtEngineServiceUp \/ InstallHosts
    \/ WaitForHosts \/ TestErrors \/ TestInThreads \/ JoinTest \/ TestsEnd
    \/ CollectArtifacts \/ JoinCollect \/ SaveLogs \/ Cleanup
    \/ \E t \in Threads : RunBegins(t)
    \/ MainSucceeds \/ MainFails
    \/ \E v \in Vms : WorkerSucceeds(v) \/ WorkerFails(v)

Next == Begin \/ Pytest \/ Kill \/ \E v \in Vms : HostInstalls(v)

\* pytest and its threads are scheduled, and every ansible run ends.
Spec == Init /\ [][Next]_vars /\ WF_vars(Pytest)
-----------------------------------------------------------------------------
TypeOK ==
    /\ marker \in BOOLEAN /\ steps \in 0 .. Prepared /\ scripts \in [Vms -> 0 .. Scripts]
    /\ repos \in 0 .. MaxRepos /\ names \in 0 .. MaxRepos /\ inherited \in 0 .. MaxRepos
    /\ own \subseteq used /\ used \subseteq 1 .. MaxRepos
    /\ engine \in {"absent", "broken", "up"}
    /\ hosts \in [Vms -> {"absent", "installing", "up", "install_failed"}]
    /\ session \in 0 .. MaxSessions /\ custom \in {"none", "check", "skip"}
    /\ errors \subseteq {"setup", "test", "collect", "save", "clean", "killed"}
    /\ ready \in {"asked", "up", "failed"}
    /\ tests \in 0 .. MaxTests /\ collected \subseteq Vms
    /\ phase \in {"none", "deploy", "test", "collect"}
    /\ thread \in [Threads -> {"off", "idle", "running", "ok", "failed"}]
    /\ left \in [Vms -> 0 .. Scripts + 2]
    /\ dirOf \in [Threads -> Dirs \cup {NoDir}]
    /\ allDirs \subseteq Dirs /\ live \subseteq Dirs /\ dirty \subseteq Dirs

\* An environment that is marked as deployed went through every step and, on every VM,
\* through every script, in this session or in an earlier one, however many deployments
\* failed or were killed before; one that was to check its custom repositories comes to the
\* scripts only if there are none or it installed packages from its own, except on VMs that
\* know the names of an earlier one; and the body of a test runs on an environment that is
\* marked, with an engine that answers and hosts that are up.
MarkerIsTrue ==
    /\ marker => steps = Prepared /\ \A v \in Vms : scripts[v] = Scripts
    /\ pc = "deploying" /\ steps = Prepared /\ custom = "check" =>
           repos = 0 \/ own # {} \/ inherited > 0
    /\ pc = "test" /\ ~MainFree => marker /\ engine = "up" /\ \A v \in Vms : hosts[v] = "up"

\* private_dir.py:39-42: ansible_runner fails when two runs use a directory
\* at once, so no two threads that run share one.
ExclusiveDir ==
    \A t, u \in Threads :
        t # u /\ thread[t] = "running" /\ thread[u] = "running" => dirOf[t] # dirOf[u]

\* Whatever failed, a session that was not killed leaves no directory unless removing one
\* failed, and none of its ansible runs, those of the teardown and of threads long gone
\* included, is missing from ansible_logs unless saving them failed; one that passed ran
\* tests and has the artifacts of every VM.
TeardownIsComplete ==
    pc = "ended" /\ session > 0 /\ "killed" \notin errors =>
        /\ "clean" \notin errors => live = {}
        /\ "save" \notin errors => dirty = {}
        /\ errors = {} => tests > 0 /\ collected = Vms
=============================================================================
