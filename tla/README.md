# Formal models of ovirt-system-tests

oVirt System Tests (OST) deploys an oVirt engine and its hosts on virtual
machines made by lago and runs pytest suites against them. Its own code is what
stands between a test and everything that moves underneath it: an engine that
answers "busy", threads that run ansible, sessions and jobs that are killed
and leave things behind. This directory holds TLA+ models of that code, TLC
configurations that check them, and proofs for TLAPS.

Source paths below are relative to the repository. `PROJECT.json` names, for
each definition that models code, the lines it models.

## 1. The system

    CI machine
      automation/suite.sh          a job: timeout, trap, artifacts
        run_suite.sh               prefix, images, lago init/start, suite, cleanup
          <suite>/control.sh       what the suite does before and after pytest
            pytest                 a session
              fixtures             deployment, facts, engine, hosts, storage, artifacts
              tests                use ovirtlib (network suite) or the SDK and ost_utils
                threads            VectorThread, each running ansible in its own directory
    virtual machines
      oVirt engine, hosts          answer calls, change by themselves

### Components: state, operations, what is hard, what makes them correct

| Component | State it keeps | Operations | What is hard | Correct when |
|---|---|---|---|---|
| `ovirtlib/syncutil.py` | none between calls; within one: deadline, last result | `sync` | a first attempt and retries that judge errors differently, a deadline that falls anywhere | attempts are bounded, a Timeout hides no answer, every call ends |
| `ovirtlib/error.py`, `joblib.py`, `eventlib.py` | none | criteria on errors, `wait_for_done`, status events | messages of the engine decide what is retried | every refusal that passes by itself is retried |
| `ovirtlib/hostlib.py` | the engine's: status, SPM role, cluster, attachments | `hand_over_spm`, `change_cluster`, `toggle_cluster`, `activate`, `deactivate`, `update`, `setup_networks`, ... | SPM elections, tasks and jobs between any two calls; failures half way out | edits happen in maintenance, the host comes back |
| `ovirtlib/datacenterlib.py`, `storagelib.py`, `fixtures/storage.py` | the engine's: data center and domain status | attach, deactivate, destroy, waits, contexts, the default domain | asynchronous statuses, finally clauses, sessions killed half way | nothing is destroyed or left while active, the fixture hands out an active domain |
| `ovirtlib/virtlib.py`, `templatelib.py` | the engine's: VMs, snapshots | run, stop, remove, snapshots, pools | removal retried, previews, one of several failing | a pool leaves no VM |
| `ovirtlib/netlib.py`, `netattachlib.py`, `clusterlib.py`, `providerlib.py` | the engine's: networks, profiles, vNICs, MAC pools | create, remove, contexts, hot replace | contexts that fail while they are left | what a context changed is changed back |
| `ovirtlib/sdkentity.py` | the service of the entity | create, import, update, remove | read-modify-write of an entity shared with the engine | no update is lost, no entity leaks |
| network suite `fixtures/`, `conftest.py` | session fixtures and their cached outcome | setup, finalizers | order of autouse fixtures, failures in either phase | tests run on a deployed system, teardown is complete |
| `ost_utils/utils.py` | threads, queues, results | `start_all`, `join_all` | order in which threads end, exceptions, dead threads | no thread is left, results stay in order, no failure is lost |
| `ost_utils/ansible/` | private directory of each thread, facts cache | `get`, `refresh`, module calls, log collection | shared cache and per-thread flag, one directory per running thread | facts are fresh, directories exclusive, logs complete |
| `ost_utils/pytest/fixtures/`, `deployment_utils/` | the deployment marker | deploy, collect artifacts | sessions that die inside a deployment, scripts in threads | the marker is true |
| `ost_utils/ssh.py`, `ovirtlib/sshlib.py` | a connection, what was read | remote commands | output and exit status arrive in any order, the connection may break | the result is what happened, connections are closed |
| `ost_utils/backend/`, `assertions.py`, `general_utils.py`, `shell.py`, ... | memoized reads | retries, waits | number of attempts, waits for something that passes | loops end with the right answer |
| `ost_utils/he_utils.py`, `he-basic-suite-master/` | HA state on the hosts | maintenance modes, restart of the engine VM | agents that react by themselves, status that is old when it is read | no agent acts behind a test, what passed is so |
| `ost_utils/selenium/` | containers, a browser | grid start and retries, navigation | partial start, retry around a yield, pages that change between finding and using an element | containers are removed, asserts are about the page that was opened |
| `run_suite.sh`, `automation/suite.sh`, `common/helpers/` | prefix, machines, images, artifacts | run, timeout, cleanup | `set -e`, traps run twice, killed jobs | green means passed, nothing is left, the next job starts |
| other suites, `lagofy.sh`, `common/`, `docs/` | none of their own | sequences of calls, configuration | - | - |

The components interact by calls (tests to library to engine), by the engine's
state (every command returns before it has its effect), by fixtures (one
outcome, cached for the session), by threads and their queues and directories,
and by what is left on disk (marker, prefix, images) for the next session or job.

The hazards this code is exposed to, each with its line and with the properties about it,
are under `hazards` in `PROJECT.json`. Smaller ones, met while reading and not listed there:
`error.py:76` (the event "after" and the result are lost when the operation raises or
returns something), `sdkentity.py:92` (an entity is added before the object refuses to hold
it), `clusterlib.py:169` and `virtlib.py:288` (statuses read before the command that depends
on them), `fixtures/providers.py:116` and `fixtures/virt.py:34` (a subnet, a locked template
left by a failed session), `memoized.py:40` (computed twice), `general_utils.py:78`
(`sleep_at_first_attempt` is dropped), `deployment.py:70` (scripts run again on half
deployed machines), `driver.py:189` (`return` in `finally`), `run_suite.sh:434` (`virsh
destroy` of a machine that is off ends the cleanup), `run_suite.sh:757` (dead under `set
-e`), `lagofy.sh:119` (status of the run lost in a pipe).

## 2. The modules

| Module | Models | Composed with |
|---|---|---|
| `SyncDecision` | what `sync` does with the outcome of one attempt (pure) | used by `SyncContract`, `SyncUtil`, `HostCluster`, `StorageDomain` |
| `SyncContract` | what the docstring of `sync` promises a caller, without clock | abstract specification |
| `SyncUtil` | `sync` with clock, deadline, sleep and retries | implements `SyncContract`, but for one step |
| `HostCluster` | `hand_over_spm` and `toggle_cluster` over an engine | `SyncDecision` |
| `HostProofs` | theorems about `HostCluster` | extends it |
| `StorageDomain` | the two storage contexts, the default domain fixture and `domain.add` over an engine | `SyncDecision` |
| `VectorThread` | threads, their queues, `start_all` and `join_all` | - |
| `Facts` | one `Facts` object used by several threads | - |
| `ThreadedFacts` | the threads of a `VectorThread` and their caller, on one `Facts` object | extends both: the state of both |
| `LibraryProofs` | theorems about `SyncUtil`, `VectorThread`, `Facts` and `ThreadedFacts` | extends all four |
| `SuiteSession` | pytest sessions: fixtures, deployment, ansible threads, teardown | the thread discipline of `VectorThread` |
| `RunSuite` | CI jobs one after another on a machine | - |
| `SuiteProofs` | theorems about `SuiteSession`, `RunSuite` and `StorageDomain` | extends all three |
| `EngineSession` | one network suite test: contexts, calls, the way out, an engine behind it | - |
| `EngineProofs` | theorems about `EngineSession` | extends it |
| `HostNetworks` | networks and bonds of two hosts, under tests that set up, copy, synchronise and clean them | - |
| `NetworkProofs` | theorems about `HostNetworks` | extends it |
| `RemoteCommand` | a command on a remote machine, by `ssh` and by `sshlib.Node` | - |
| `RemoteProofs` | theorems about `RemoteCommand` | extends it |
| `HeMaintenance` | maintenance and restart of a hosted engine under its HA agents | - |
| `HeProofs` | theorems about `HeMaintenance` | extends it |
| `SeleniumGrid` | the grid of browser containers, its retries and removal | extended by `UiSession` |
| `UiPages` | page objects and UI tests as scripts for the driver (pure) | extended by `UiSession` |
| `UiSession` | the driver, the web application and the browsers on the grid | `SeleniumGrid` and `UiPages`: the state of all three |
| `UiProofs` | theorems about `UiSession` | extends it |
| `MCUiSession` | selections of the UI tests for TLC | extends `UiSession` |

Every module can be run by itself: constants are given in its `.cfg`, and the
definitions marked `Mutant:` in front of an operator are plausible bugs of it;
each property is known to fail under one of them.

### SyncDecision, SyncContract, SyncUtil (`network-suite-master/ovirtlib/syncutil.py`)

`phase` walks through lines 82-106: the first attempt, the test of the deadline,
the sleep, the retry. `accepts` and `terminal` are the two criteria as sets of
outcomes, so that TLC tries all of them, the defaults included. An attempt takes
any time, a sleep at least its 3 seconds. `breaks` are the outcomes on which
`success_criteria` itself raises, as that of `Host.wait_for_up_status` does
(`hostlib.py:413-419`): what it raises nobody catches, and the call ends "broken".
`SyncContract` is the docstring, without clock and retries: a pending call keeps an outcome
that settled nothing, or ends by returning an accepted outcome that is no terminal error,
raising a terminal error, breaking, or giving up. The code keeps to it but for one step,
`ReturnsTerminalError`, which `RefinesContract` names and the run `sync_docstring` shows
(section 6). The names of the specification of `SyncUtil` begin with Sync, as `LibraryProofs`
extends other specifications besides it.

### HostCluster (`hostlib.py` 153-238, `joblib.py` 52-66)

The client's `stage` is the part of the script (hand over the SPM role, the way
out, the body, the way back in the finally clause), `op` the operation and `pc`
where its `sync` is. A call and the evaluation of `success_criteria` are two
steps, because the second reads the engine again. The engine is external: it
elects SPMs, completes maintenance and activation, ends jobs some time after
their effect, starts and ends tasks, and may refuse a call for any reason
(`faults`). Its refusals are those that the error criteria of the code name.
The clock is replaced by a number of attempts, which is what
`SyncUtil!AttemptsBounded` justifies. `Host.update` is itself a `sync` and may
return an error object; the outer `sync` sees that by `hasattr`.

### StorageDomain (`datacenterlib.py` 91-133, `storagelib.py` 153-280, `fixtures/storage.py`, `storage_utils/domain.py`, `engine_utils.py`)

Three scripts: the nested contexts around a test body, the session fixture, and
`storage_utils.domain.add` of the basic suites. The first two call through `sync`; the
third polls with `assert_true_within`, where an error is raised at once, inside
`wait_for_event`, whose wait for the event runs also when its block raised.
`OnReturn` and `OnRaise` are the control flow of the two context managers and
their finally clauses as tables. A session may be killed at any point; the
engine keeps the domain and the next session starts the script again.

### VectorThread (`ost_utils/utils.py` 32-86)

A thread puts its outcome into its own queue before it ends; one that dies of a
BaseException puts nothing. The caller starts all, joins all, gets from every
queue and scans for the first exception; `join_all` may be called twice.

### Facts (`ost_utils/ansible/facts.py`)

The steps are those at which another thread can come in: between the flag and
the refresh, the clearing and the gathering, the test for the key and its use,
the debug call and the store. `dir` is the version of the facts in the
thread's private directory, `cache` the shared dict. `defined` says which facts each
version of the VM has: they change, come and go, so that a thread may be told that a fact is
missing which the VM has gained since the thread gathered. A null value and a run that
matched no host end in the same exception. The names of its specification begin
with Facts, for the same reason as those of `SyncUtil`.

### ThreadedFacts (`utils.py` 32-75, `facts.py` 36-100)

The targets of a `VectorThread` and the thread that joins them use the memoized object of
`facts.engine()`. The caller uses it before it starts the threads and between two calls of
`join_all`; a target uses it between its start and its end, and lets an exception of it
through. `CallerTurn` and `TargetTurn` say whose step may come when; the state and the steps
are those of the two modules.

### SuiteSession (`ost_utils/pytest/fixtures/`, `network-suite-master/fixtures/`, `ost_utils/ansible/`)

`Setup` is the order in which pytest sets up the autouse fixtures (by name,
after what they ask for), `active` the stack of those with a finalizer. A
deployment takes the steps of `Prepare` in the main thread, of which the options of the
session (`custom`) skip some; the ansible runs of one step are one run. Then a thread for
each VM runs its scripts, and only then is the marker written. `repos` are the custom
repositories of this deployment; `names` those the VMs know under the names extra-src-1,
extra-src-2, ..., and `used` those packages came from, which outlive a deployment that
failed: `check_installed_packages` asks by name. Tests run ansible in the main thread
or in threads. Finalizers collect artifacts (in threads again), save the ansible
events and remove the directories; one that cannot be removed keeps those behind it.
`own` are the repositories of this deployment that packages came from, `inherited` how many
names the VMs knew when it began. Any step may fail, a session may be killed, and
marker, VMs and engine outlive it. The connection to the engine may fail in
`ovirt_engine_setup`; the exit status of engine-setup is not looked at.

### RunSuite (`automation/suite.sh`, `run_suite.sh`, `common/helpers/ost-images.sh`)

Job after job on one machine, in mock or not. Every command may fail, the timeout
may strike, a job may be sent a signal (trapped, from line 115 on, in the EXIT trap too) or be
killed (not trapped). `handler` says what runs `cleanup`: the EXIT trap, the handler of a signal,
which the EXIT trap follows, or the handler inside the EXIT trap, which nothing follows. The bare
`exit` at its end (`suite.sh:99`) leaves, in the EXIT trap, the status as it was; in a handler bash
takes the status of the last command before it, which is 0, and POSIX that of before the trap: the
model has both. The report is moved by `find -exec mv`, which tells nobody when `mv` fails
(`unmoved`); a failure of `mv` for the logs, of `rm` or of `virsh net-destroy` ends the cleanup.
`KillJob`, which a script cannot see, and jobs that stop between making an image directory
and linking it, or in the middle of their last cleanup, are recorded in `excused`.

### EngineSession (`clusterlib.py`, `netlib.py`, `virtlib.py`, `sdkentity.py`, `storagelib.py`, `providerlib.py`, `templatelib.py`, `fixtures/virt.py`)

A call of the library is the sequence of commands it sends to the engine
(`Vm.remove` is stop, wait for down, wait for the data center, remove, and so on). A
command that raises ends its sequence unless an `except` covers it, which is said
by the fields `ok`, `caught` and `to` of the command. A `with` statement is
`Before(ctx)`, a frame pushed where the `try` begins, and `Inside(ctx)`; its finally
clause is `Finally(ctx, was)`. Six tests are taken from the suite as scripts of
`With` and `Call`. The engine locks, moves and removes behind its answers, refuses
what is in use, and an answer may be lost after its command took effect (`Fault`).
`failed` records what every failed command was about, so that `LeftOnlyByOwnFailure`
can say whose fault a leftover is.

### HostNetworks (`hostlib.py` 65-79, 245-376, 421-528, `netattachlib.py`, `network_utils_v4.py`)

A call reads the host and composes one request (`Compose`), and sends it later
(`Accepted`, `Refused`, `Conflict`, `AnswerLost`). In between the engine attaches
networks by label and finishes what it was doing. On suites below 4.4 a busy host
answers "conflict" and `retry_below_version` makes the call once more (`Repeat`): `setup_networks`
and `clean_networks` read the host again, `remove_networks` and `remove_attachments` send what they
had composed. Whatever error this second attempt meets, another conflict, a refusal or a lost
answer, is what the call returns: `retry_below_version` passes no `success_criteria`, and the
default one takes everything (`Fails`, and `result` "error"). Later versions queue.
The tests set up contexts, copy the networks of a host, run a VM on them,
synchronise and clean; the roll back of `remove_networks` swallows its errors as the code does. The
MTU of a nic is changed through ssh, which may fail on either side of the change.

### RemoteCommand (`ost_utils/ssh.py`, `ovirtlib/sshlib.py`)

The remote program writes two streams and exits; the window limits what it may write
before the client reads; the channel may break at any point. The loop of
`drain_ssh_channel` is `Select`, `Recv`, `RecvStderr`, `Write`, `Check`, one step for each
call into the channel. `Node` waits for the status first, then reads. Output is
made of one-byte characters and of halves of two-byte ones, because a chunk may end
inside a character. With `show_output=False` (`quiet`) nothing is queued, so that the loop ends
with the channel. `Methods` says what every method of `Node` makes of the output. A lookup of
an address is repeated by `sync`, to which any result but the empty string is an address: an
exception of a later query is returned (`Raising`).

### HeMaintenance (`he_utils.py`, he-basic tests 008, 010, 012)

Each host has an agent which reads the shared flag once per cycle, acts on what it
read, and publishes what it sees. A test never sees an agent: it reads what each
last published, through ansible, and each wait may be nested in another
(`he_status` inside a wait for what it says; `polls` and `reads`). Agents may restart,
decide to migrate the engine VM, and restart an engine VM that is down. What an agent publishes
of the VM is up, down, or neither, when it got no answer about it. Commands that set a
maintenance mode may be ignored; only for global maintenance does a test read the mode back,
so a host may stay in local maintenance, or out of it, behind a command that succeeded
(`SetLocal`) and behind its status in the engine (`DoVerifiedDeactivation`, `DoVerifiedActivation`).

### SeleniumGrid, UiPages, UiSession (`ost_utils/selenium/`, `test_100_basic_ui_sanity.py`)

The nested context managers of a grid are one program counter that enters them and
unwinds, with the exception on its way out; for podman the whole is inside a loop
around a `yield`. Containers come up and die by themselves. A page object is a
sequence of looks; a look of the driver takes two commands, find and use, and the
web application renders its page piece by piece (content, breadcrumbs, dialog,
notification) between any two. `UiPages` has no state: it holds what each page
shows and what each test looks at, clicks and asserts, in order.

## 3. The runs

| Run | Bounds | Distinct states | Shows |
|---|---|---|---|
| `sync` | two results, two errors, timeout up to 7, delays up to 1 | 113,425 | `AttemptsBounded`: one attempt and one for each started 3 seconds; `TimeoutIsHonest`: a Timeout comes after the deadline and hides neither an accepted result nor a terminal error; `RefinesContract`: `sync` implements `SyncContract` but for `ReturnsTerminalError` |
| `sync_docstring` | the same | violation | `KeepsDocstring`: `sync` implements `SyncContract`. It does not: a terminal error of a retry is returned |
| `host_cluster` | 3 attempts per sync, 2 faults | 103,436 | `BusyIsNeverFatal`: tasks, elections and jobs never make a move fail; `BodyInTarget`: the body runs with an active host in the target cluster; `Restored`: a clean way back brings host and cluster back; `StableIfSpmWasSeen` |
| `storage_domain` | 3 attempts, 2 faults, 3 sessions | 2,550 | `NoActiveLeak`: no domain is destroyed, or left behind without an exception, while it is active; `FixtureGivesActive`: nor does `domain.add` return before it is active |
| `threaded_facts` | up to 3 targets, 2 joins, 2 of the threads using the facts, 2 versions of the VM, targets and calls at most 4 | 866,379 | `NoOrphans`, `JoinIsHonest` (order of results, no failure lost, the first one reported), `JoinEnds`; `NotFoundIsTrue`; `Fresh` for a single user |
| `suite_session` | 2 VMs, 2 scripts, 2 custom repositories, 2 tests, 2 sessions | 3,357,009 | `MarkerIsTrue`: what is marked was deployed, its own custom repositories were used where that was to be checked and the VMs knew no earlier ones, and tests run on it; `ExclusiveDir`; `TeardownIsComplete` |
| `run_suite` | 3 jobs | 62,932 | `GreenIsHonest`: 0 means passed, but for jobs that were sent a signal; `CleanupIsComplete`: reports that could be moved survive, no job is refused, copied images and, in mock, machines are removed |
| `engine_session` | 6 tests, 2 faults | 560,442 | `ExitRestores`: a finally clause that ends normally leaves what its context owns as it was; `LeftOnlyByOwnFailure`: what is left is what its own removal failed to remove; `NotFoundIsSuccess`: the retried removal of a VM is not fooled by its own success |
| `host_networks` | 2 hosts, 2 tests in a row, 2 faults, 1 attachment by label | 289,764 | `MgmtSpared`: no request drops the management network; `SetupIsDeclarative`, but for a second attempt below 4.4, which returns an error; `NothingLeftBehind` between two tests |
| `remote_command` | chunks of 2, window of 3, 2 tries, 2 lookups, outputs up to 4 bytes | 39,147 | `HonestResult`; `LosesOnlyWhatCameLate`; `ClosesConnection`; `CommandEnds` |
| `ui_session` | five selections of tests, 1 fault, 2 looks per wait, 3 attempts per action | 1,473,763 | `AssertsOnSettledPage`; `NoSilentPass`; `LeavesNothing`; `SessionEnds` |
| `he_maintenance` | 2 hosts, 3 looks per wait, 2 faults | 300,141 | `MaintenanceCoversRestart`: from the waits for global maintenance to the healthy engine no agent may act; `PassMeansDone`: what was waited for is so; `HeSessionEnds` |

The newer modules check their type invariant in the run as well, because
it relates variables (a window and the buffers that fill it, a bond and the networks
on it). Every module has one.

**Why the bounds are enough.** `sync`: the clock tests are about the deadline and the sleep
of 3, so 7 covers timeouts below, at, and above one and two sleeps; one result and one error
of each kind (accepted or not, terminal or not) fit in two. Attempts: `sync` treats the
first attempt apart and all later ones alike, so three attempts reach every case, and the
third is the first at which a later retry follows a retry. Two faults allow one failure on
the way in or out and one on the way back, which is what the nested finally clauses tell
apart. Sessions and jobs: what one leaves behind is met by the next; the third meets what a
second one left that itself began on leftovers (`suite_session` and `host_networks` have
two, for their size). Threads are symmetric in what they do, and the third is the one
between two others in `VectorThread`. In `ThreadedFacts` two users meet at every step of
`get` and `refresh`, and the others run beside them; facts of different names touch only
through `_cache = {}`, which drops them all alike, so one name is enough; `MaxWork` keeps
three targets to one call of the facts, one target to three. `RemoteCommand`: an output of 4
exceeds both a chunk and the window, one of 3 ends a chunk in the middle of a character; all
the code does with sizes is compare them. `HeMaintenance`: two hosts are those that the
suite has; a wait of three looks can miss twice and still succeed. `UiSession`: tests only
touch each other through the page the one before left, and each selection puts tests after
those that come before them in the file; one fault per session meets every command (the grid
alone is retried up to 3 times within it). Behaviours that need two, such as a click on
"Upload" missed in all its tries after the list was refreshed twice, are covered by the
proofs only, which are for any number.

**Fairness.** `WF_vars(Client)` in `RemoteCommand` and `UiSession` and `WF_vars(Test)` in
`HeMaintenance`: the client's thread runs and its calls return. A remote command that may
write or exit does (`WF_vars(RemoteGoesOn)`), which excludes commands that never end; the
connection need not break. Agents, containers and the web application owe nothing, since
every wait on them is bounded. `ThreadedFacts`: the operating system schedules the caller
and each thread, ansible runs end, and targets end in some way. The specifications of
`SyncUtil`, `HostCluster`, `StorageDomain`, `SuiteSession` and `RunSuite` state the
corresponding fairness, of the client only (and, in `StorageDomain`, that the engine
completes what it accepted); their runs check safety. `Facts` (alone), `EngineSession` and
`HostNetworks` have no liveness property and no fairness: their scripts are straight lines
whose waits have timeouts. Kills, faults, aborts and timeouts are never assumed to happen.

**Deadlock** is checked in the sync, host, storage, engine, network, remote command,
UI and hosted engine runs, which have an explicit final stutter. The others stop when
the bounds are reached, and a `VectorThread` with a dead target really waits for ever.

## 4. The proofs

`LibraryProofs`, of `SyncUtil`, for all sets of results and errors, timeouts and delays:

* `SyncTypeCorrect`: the type invariant.
* `BoundedAttempts`, `HonestTimeout`: the invariants of the `sync` run.
* `ContractHolds`: `RefinesContract`. Each step is a step of the contract, a stutter, or
  `ReturnsTerminalError`: a terminal error of a retry that `success_criteria` accepts.

The inductive invariant (`SyncInv`) adds to the properties what each control point knows: the
outcome kept at "test", "sleep" and "retry" settled nothing; the number
of attempts is bounded by the time that has passed, because each one after the
first follows a sleep of at least 3; a new attempt begins before the deadline.

Of `VectorThread`, for any number of targets:

* `TypeCorrect`: the type invariant.
* `NoThreadIsLeft`: `NoOrphans`.
* `ResultsAreInOrder`, `FailuresAreKept`, `FirstFailureIsReported`, and from the three
  `JoinsAreHonest`: `JoinIsHonest`.

`IInv` says that a full queue holds one outcome, of its own thread, which has ended
(`QueueInv`), how far the two loops have come (`LoopInv`: the threads before `i` are
started, or have been joined), and that results are stored once, from all queues,
by the join that gets them (`ResultInv`). None of the properties is inductive
alone: that results are in order needs that queues are not mixed up, and that no
thread is left needs that a joined thread has been started before.

And of `Facts`, for any threads, facts and changes of the VM:

* `FactsTypeCorrect`: the type invariant.
* `MissingFactsAreMissing`: `NotFoundIsTrue`; `LoneUserIsFresh`: `Fresh`.

`FactsInv` adds that a thread that asks its own directory has gathered into it
(`GatheredInv`), that a call under way has no answer (`AnswerInv`), and, for a thread that
has the object for itself, that the cache holds nothing older than its directory, nothing
at all where it is about to gather, and that what it debugs is as new as the directory
(`AloneInv`). That a fact is defined, or not, is a matter of the version that a thread
gathered: `NotFoundIsTrue` says no more for a fact the VM has gained since.

And of `ThreadedFacts`, for any targets, users and calls:

* `TogetherAsAlone`: the composition keeps to the specifications of both components.
* `SharedFactsAreSafe`: so that the safety properties of both hold of it.

`HostProofs`, for any two clusters and any number of attempts and faults:

* `HostTypeCorrect`: the type invariant.
* `BusyEngineIsNotFatal`: `BusyIsNeverFatal`. Every refusal the engine gives by itself is in
  the error criteria of the operation that meets it (`RefusalIsListed`), so an error that is
  terminal for its operation is a fault (`FaultInv`).
* `BodyRunsInTarget`: `BodyInTarget`; `ToggleRestores`: `Restored`. `FlowInv` says which
  operation runs in which stage, `HostInv` where the host is at each:
  that it is in maintenance when its cluster is edited, in which cluster it is afterwards,
  and that it is up when the wait for it returned.
* `SpmChangesReturnStable`: the action property `StableIfSpmWasSeen`. `RoleInv` says that the
  data center is not up again before a host has taken the role, and is up when the wait
  for it returned.

`SuiteProofs`, for any set of VMs and any number of scripts, custom repositories, tests and
sessions:

* `DirectoriesAreExclusive`: `ExclusiveDir`. A directory bears the name of its thread, and a
  thread that runs has one (`DirInv`).
* `MarkedIsDeployed`: `MarkerIsTrue`. `PhaseInv` ties what the workers are for to where the
  main thread is; `DeployInv` counts, for each VM, that scripts run and scripts left add up,
  which gives "all of them" when every worker ended well; `CheckInv` follows the
  preparation to the scripts on VMs that knew no custom repositories (all that packages came
  from are then this deployment's own), and `EngineInv` the fixtures from the engine
  that answers to the tests. The property alone is not inductive: that the marker may be
  written depends on what each worker still has to run.
* `TeardownsAreComplete`: `TeardownIsComplete`. `EndInv` adds to these that the finalizers
  still to run are those of the fixtures that were set up, in the reverse of their order
  (`StackInv`); that whatever has a directory is on the list of those to be removed, as long
  as that finalizer has not run (`ListedInv`); and how a session came by its outcome
  (`OutcomeInv`). What a finalizer failed to save or to remove is an error of the session.

And of `RunSuite`, whose names begin with Job where `SuiteSession` has the same, for any
number of jobs:

* `RunSuiteTypeCorrect`: the type invariant.
* `GreenJobsPassed`: `GreenIsHonest`. `StatusInv` says that the tests end before the trap
  begins, wherever it comes from, that behind them a status of 0 means passed unless a signal
  was sent, and that only a signal makes cleanup run as a handler.
* `CleanupsAreComplete`: `CleanupIsComplete`. `ReportInv` follows the report out of the
  prefix, or to a `find` that failed to move it, `ImagesInv` the copied images from their
  making to the link by which cleanup finds them, `JobVmInv` says that machines destroyed in
  mock stay so, and `JobInv` that nothing is known of a job that has not begun, and that the
  trap is set only when an earlier prefix is gone.

And of `StorageDomain`, whose names begin with Storage where the others have the same, for any
number of attempts, of calls the engine refuses and of sessions:

* `StorageTypeCorrect`: the type invariant.
* `NothingActiveIsLeft`: `NoActiveLeak`; `GivenDomainsAreActive`: `FixtureGivesActive`.

`StorageInv` adds that each script is in one of its own operations (`OpFits`). The two tables of
control are lemmas of their own (`ReturnTable`, `RaiseTable`): only the wait for maintenance
leads to destroy, and only a wait for an active domain, or destroy, to the end.
`ReturnIsSeen` says what an operation that returned has seen, on a first attempt and on a
retry.

`HeProofs`, for any set of hosts, any patience and any number of faults:

* `HeTypeCorrect`: the type invariant.
* `MaintenanceHolds`: `MaintenanceCoversRestart`. `AgentInv` says that an agent acts by the
  flag it has published, `FlagInv` what holds behind the waits for it: once every
  host has published the flag, no agent acts on a value it read before.
* `PassedIsDone`: `PassMeansDone`. `VmInv` follows the VM through the test that shuts it
  down and starts it again: a VM that migrates is healthy, so nothing moves one that stops, and
  while agents have read the flag none starts it. `HostInv` says that only the host a test has
  chosen leaves the cluster, and is up behind the wait for it. Nothing is said of local maintenance.

`RemoteProofs`, for any chunk, window, number of tries and lookups, and all the programs of
the constants:

* `RemoteTypeCorrect`: the type invariant, which counts what is on its way.
* `ResultsAreHonest`: `HonestResult`; `DrainMissesOnlyLateOutput`: `LosesOnlyWhatCameLate`;
  `ConnectionsAreClosed`: `ClosesConnection`.

`RemoteInv` says what the remote side can have done: that it has written what was read, and
everything when its status arrives. `DrainInv` is about the loop: a stream with something in
the queue of chunks is watched for writing, and what was gathered but not shown is still
queued. `NodeInv` says how far `Node` has read and what it knows of the status by then,
`StepInv` which client takes which steps, `OpenInv` who holds a connection, and `RaisedInv`
why `Node` raises, or returns the error of a repeated lookup. `QuietInv` is about
`show_output=False`: nothing is queued, and of what had come by the last look at least one
chunk was read. The queued chunks are joined by a recursive function, whose properties are
proved for every sequence: the theorems on induction of the library take an operator, so
`NatSetInduction` states induction for a set of numbers, from the least-element principle
(`WFMin` with `NatLessThanWellFounded`), and each use gives it the set of lengths for which
the claim holds.

`NetworkProofs`, for any number of tests, faults and labels:

* `NetworksTypeCorrect`: the type invariant.
* `MgmtIsSpared`: `MgmtSpared`; `NothingIsLeftBehind`: `NothingLeftBehind`.
* `SetupsAreDeclarative`: the action property `SetupIsDeclarative`.

That nothing is left between two tests is not inductive: in the middle of a test almost
everything is still there. `LeftInv` says of whatever a host has, and nobody answers for,
that a command to come removes it, however the commands before it end: in the calls that
run, in the ways out of the contexts that are open, or in an item of the test still ahead if
nothing before it can raise. `RunInv` says the same of what a command is about to add, and
for it every test has to be one whose additions all have such a way out: `ScriptsFit`, from
one lemma for each kind of test. It holds for a second attempt below 4.4 as for the first: a
command that returns its error answers for what it did not remove like one that raises it,
and the commands behind it are still made. `ReqInv` compares the request under way with the
command it was composed for and with what the host has become since it was read; from it
follow `SetupIsDeclarative` and, for the management network, `MgmtSpared`. `HostInv` says
that what the engine is about to add by itself is answered for.

`EngineProofs`, for any number of faults:

* `EngineTypeCorrect`: the type invariant.
* `ContextsRestore`: the action property `ExitRestores`.
* `LeftByOwnFailure`: `LeftOnlyByOwnFailure`; `MissingIsRemoved`: `NotFoundIsSuccess`.

None of them is inductive: what a finally clause leaves depends on what its context was
entered with, and what a test leaves on every command still to come. `IInv` has ten parts.
`TypeInv` gives each command and frame its kind; a frame remembers a state in which nothing
the context owns was there. `ScriptInv` ties the open frames to the script: each is a
`with` statement that has been passed. `BodyInv` says what a call in the body may
contain (it removes nothing, and a frame is pushed right after the command that makes
what it owns), `CloseInv` what the rest of a finally clause may. `VmInv` says
that the VMs of the test exist until their pool removes them, behind every other context that needs
them, `ToggleInv` where the vNIC is while it is replaced inside and on the way out, and
`SyncInv` that automatic synchronisation stays off while its context is open. `RemovalInv` and
`LeftInv` carry the two main properties: whatever is there will still be removed by the clause
that runs, belongs to a frame that is still open, or is blamed on a failed
command. `NotFoundInv` is `NotFoundIsSuccess`, which leans on the rest of the invariant: a VM
that is gone is asked for only where "not found" is caught.

Three summaries keep the proof from going through every answer and every call anew:
`Answered` says what an answer of the engine may change, by the command that it
answers; `Follows` and its like what a call of each kind sends; `Clears` and
`ClosesFrame` what a finally clause does, wherever the exception in it sends it. The
invariant is preserved action by action, and in each action part by part. It was
checked by TLC over the states of the `engine_session` run before it was proved.

`UiProofs`, for any browsers and selections of UI tests, and any number of retries, polls
and faults:

* `GridLeftClean`: `LeavesNothing`.
* `SessionTyped`: the type invariant.
* `SettledWhenRead`: `AssertsOnSettledPage`; `MissesAreNoticed`: `NoSilentPass`.

`GridInv` is the invariant of the grid: which containers there can be at each place of the
context managers, with podman (`PodmanInv`) and with docker (`DockerInv`), how often the
generator has yielded (`ServedInv`), and what the proxy variables were (`ProxyInv`). The
rest of `IInv` is about the session. `RefInv` says that an element that is held and not
stale is there. `PageInv` says, for each test and each of its steps, what the test knows of
the page: where the application is going, what the breadcrumbs say, and which views may
still be shown. It is this that the waits establish, and it holds whatever the application
renders in between. `UploadInv` follows the dialog in which a disk is uploaded: nothing is
in it before its test, and what a missed click leaves out is missing up to the end.
`MissInv` says where a test can be that has missed a click: at the wait for the page of the
VM, or in the upload. The last two need each other and `PageInv`, for a missed click is
noticed only by a wait that knows the page cannot be as expected.

The scripts of the tests are data, and the proof first says what shape they have
(`ListShape`, `VmShape`, `EntryShape` and so on): which steps only look, click on what leads
to no other page, or touch the upload. Then `DriverMoves` says once what a command of the
driver may do (`Goes`): fail, stay at its step, look at the next thing, or go on, with what it
has then seen or clicked. What each test knows is kept by each such move, with a lemma
for each shape, and by whatever the application does (`AppMove`). `IInv` was checked by
TLC on small selections of tests before it was proved. The run has one fault per session; that a
second one, or a third, makes no difference is shown by the proof only.

Assumptions are those the modules name. Every one says that bounds are natural numbers, and
`StorageDomainAssumption`, `HostClusterAssumption`, `HeAssumption` and `SizesAssumption`
that there is at least one attempt (a look, a session; a chunk and a window are positive);
`GridAssumption` and `UiAssumption` say the same of retries and polls. Beyond that: results
and errors are disjoint (`SyncAssumption`), the VM has a first version (`FactsAssumption`),
the two clusters are distinct (`HostClusterAssumption`), the main thread is none of the VMs
(`SuiteSessionAssumption`), the first host is one of the hosts and the mark of a VM that is
nowhere is none (`HeAssumption`), browsers run on the nodes of the grid, and a selection of
UI tests is not empty and has no test twice, as pytest collects them (`UiAssumption`).
`VectorThreadAssumption`, `RunSuiteAssumption`, `FaultsAssumption` and `BoundsAssumption`
say no more than the first, and `ThreadedFactsAssumption` says besides that the users of the
facts are the caller and the targets. TLC evaluates them in the runs.

Only model-checked: liveness (`JoinEnds`, `CommandEnds`, `SessionEnds`, `HeSessionEnds`), which
is out of the prover's reach as it needs fairness and ENABLED. Every invariant and every
action property of the runs is a theorem.

## 5. What is not modelled

Parts with their status and the reason are listed under `components` in
`PROJECT.json`. Left out on purpose: configuration of reposync and of mirrors,
documentation, deployment scripts that run inside the VMs (each is one step that may
fail), logging and events, the text of messages (their class is kept), tests of the
basic suite that are one long sequence of engine calls, and what tests do to the
engine beyond the library operations above. Readers of entities (names, addresses,
statuses as such) have no state and appear only where a decision depends on them.

Abstractions to keep in mind: the engine, the HA agents and the web application are
modelled from the messages, statuses and waits the code relies on, not from their
sources. Everywhere but in `SyncUtil` a wait counts looks instead of
reading a clock. In `Facts` the value of a fact is the version of the VM it was
gathered from. In `SuiteSession` ansible runs of one thread are alike. In
`EngineSession` a test has at most two VMs and one network of its own.
`HeMaintenance` begins with a deployed hosted engine.

## 6. Where code and words differ, and what the properties allow for

* `sync` (`syncutil.py:97`) asks `success_criteria` about errors first on a retry, so with
  the default criteria a terminal error of a retry is returned. The docstring (45-63) says
  it is raised. `SyncContract` has it as the docstring does, and the run `sync_docstring`
  refutes `KeepsDocstring`; it is the finding of `PROJECT.json`. Three callers meet it:
  * `destroy_sync`, as the next point says;
  * `retry_below_version` (`hostlib.py:71-76`) passes `error_criteria` only: below 4.4,
    `setup_networks` and the removals return normally although their second attempt failed,
    with the networks absent or still there. `SetupIsDeclarative` and `NothingLeftBehind`
    name it (`result` "error");
  * `lookup_ip_address_with_dns_query` (`sshlib.py:151-156`) returns an exception of a later
    query as the address, which its docstring calls a string. `HonestResult` names it
    ("returned_error").
* `destroy_sync` (`storagelib.py:157`) relies on that and takes the second "busy"
  for success: the domain stays. What saves the other callers is a wait that follows
  (`DestroyAfterDetach`, in `NoActiveLeak`), or a `success_criteria` that looks at the
  answer (`BodyInTarget`). `NoActiveLeak` is about active domains only.
* `wait_for_done` (`joblib.py:61`) polls a method object and never waits. That the moves
  of hosts do not fail for it is `BusyIsNeverFatal`.
* `change_cluster` (`hostlib.py:221`) reads the SPM status before a deactivation that may
  retry through an election, although its comment (233-235) wants a stable host;
  `StableIfSpmWasSeen` holds for those whose role was seen.
* `cleanup` ends in a bare `exit` (`suite.sh:99`): run as the handler of a signal it may end
  the job with 0 although pytest did not pass, or never ran. `GreenIsHonest` excepts jobs
  that were sent a signal. `find -exec mv` (86-90) tells nobody that the report could not be
  moved, and the prefix is removed with it: `ReportSurvives` excepts that.
* `env_cleanup` (`run_suite.sh:377`) never has a `uid`, so outside mock nothing is
  forced, whatever the comment at 386 says; `MockCleanup` is about mock.
* The message of `check_installed_packages` (`package_mgmt.py:119`) and the comment of the
  deployment (`deployment.py:60`) speak of the repositories that were added, but these are
  known by position: where the VMs know names of an earlier deployment that failed, packages
  of that one satisfy the check. `MarkerIsTrue` holds a deployment to its own repositories
  only where there were none before (`inherited`); without this exception it is false. A
  Jenkins job without artifacts expands to no repository, which passes. In an environment
  that is marked, `--custom-repo` is not looked at.
* `Facts` says its caching is per thread (`facts.py:60-61`), but `_cache` is shared:
  with two users a get may fail with a KeyError between lines 82 and 83 or return
  an older fact than the thread gathered. `Fresh` is therefore stated for one user.
* `drain_ssh_channel` (`ssh.py:160`) decodes each chunk by itself and raises inside a
  character; the connection then stays open, which `ClosesConnection` names.
* With `show_output=False` (`ssh.py:57-62`, 143, 149) the loop ends at the first round with
  the channel closed, and all but one chunk of what had arrived may be lost:
  `LosesOnlyWhatCameLate` says how much is sure then. Nobody in the repository calls it so.
* `Node` (`sshlib.py:62`) waits for the exit status before it reads; `CommandEnds` is for
  outputs that fit the window.
* The retry of `podman.py:138` is around a `yield`: an error of the teardown starts
  a second grid and yields again, which leaves it running. `LeavesNothing` names it.
* `is_displayed` of the list views (`EntityListView.py:23`) and of a VM's page may be
  satisfied by the page before; `AssertsOnSettledPage` names the two cases.
* The tests of the hosted engine wait for a settled engine VM before they set global
  maintenance, so agents may still migrate it until they have read the flag, and the
  status of a host may then be of a moment without the VM: `PassMeansDone` allows the VM
  to be on its way down after the wait for "down".
* `he_utils.py:105-107` says that `--set-maintenance` is at times ignored.
  `test_local_maintenance` of the command line (`test_010_local_maintenance_cli.py:30-37`)
  looks at its exit status only, and that of the SDK
  (`test_012_local_maintenance_sdk.py:67-78`) leaves local maintenance untested: both may
  pass with a host that stays in it, and `PassMeansDone` does not promise otherwise.

## 7. Plan

Done: sync with its contract and proofs; hosts; storage with proofs; threads with proofs;
facts, and threads that use them; sessions with proofs; jobs; the contexts of the network
suite; networks of hosts; remote commands; the hosted engine; the UI tests on their grid.

Proved: the properties of `SyncUtil`, `HostCluster`, `StorageDomain`, `VectorThread`,
`Facts`, `ThreadedFacts`, `SuiteSession`, `RunSuite`, `EngineSession`, `HostNetworks`,
`RemoteCommand`, `HeMaintenance` and, with its grid, `UiSession`.

Left: `vnic_setup` and the remaining helpers of the basic suite, should tests come to depend on
them; freshness of facts with two users, once their cache is no longer shared.
