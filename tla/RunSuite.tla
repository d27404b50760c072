------------------------------ MODULE RunSuite ------------------------------
(***************************************************************************)
(* A CI job, automation/suite.sh, that runs one suite with run_suite.sh,    *)
(* job after job on the same machine: requirements check, lago environment, *)
(* pytest, and the trap that saves the artifacts and cleans up.             *)
(*                                                                         *)
(* Every step of the scripts may fail (they run under set -e), the timeout  *)
(* around run_suite.sh may strike, and the job may be aborted (SIGTERM,     *)
(* trapped) or killed (SIGKILL).  What a job leaves on the machine is there *)
(* when the next one begins.                                                *)
(***************************************************************************)
EXTENDS Naturals

CONSTANTS
    MaxJobs     \* bound: jobs one after another

ASSUME RunSuiteAssumption == MaxJobs \in Nat

Jobs == 1 .. MaxJobs

VARIABLES
    \* the machine
    mock,       \* INSIDE_MOCK: the jobs of this machine run in a mock chroot
    prefix,     \* the deployment directory: "none", "made", "env"
    vms,        \* the virtual machines of each job: "none", "running", "off"
    images,     \* the jobs whose copy of the OST images is on disk
    linked,     \* the job $PREFIX/ost-images leads to, 0 if there is no link
    junit,      \* the junit report of the job: "none", "prefix", "exported"
    logs,       \* what on_sigterm collected: "none", "cwd", "exported"
    \* the job
    job,        \* its number
    place,      \* where it is
    status,     \* its exit status
    pytest,     \* how pytest ended: "none", "passed", "failed"
    handler,    \* what runs cleanup: "none" for the EXIT trap; "signal": the handler of a signal,
                \* which the EXIT trap follows; "nested": the handler, inside the EXIT trap
    \* history
    aborted,    \* suite.sh was sent a signal; bound: one for each job
    unmoved,    \* find could not move the report and went on
    cleaned,    \* cleanup of this job went through to "Cleanup done"
    excused     \* jobs that were killed or whose cleanup stopped halfway

machine == <<mock, prefix, vms, images, linked, junit, logs>>
process == <<job, place, status, pytest, handler>>
history == <<aborted, unmoved, cleaned, excused>>
jobVars == <<machine, process, history>>

\* run_suite.sh runs between these, under the timeout of suite.sh.
Running == {"run", "mktemp", "link", "init", "up", "tests"}
\* The trap of suite.sh: cleanup and the run_suite.sh --cleanup it calls.
Cleaning == {"move", "destroy", "libvirt", "remove"}

JobInit ==
    /\ mock \in BOOLEAN
    /\ prefix = "none"
    /\ vms = [j \in Jobs |-> "none"]
    /\ images = {}
    /\ linked = 0
    /\ junit = "none" /\ logs = "none"
    /\ job = 0 /\ place = "ended" /\ status = 0 /\ pytest = "none" /\ handler = "none"
    /\ aborted = FALSE /\ unmoved = FALSE /\ cleaned = FALSE /\ excused = {}

Goto(label) == place' = label
\* set -e, or an explicit exit, inside run_suite.sh: the EXIT trap follows.
FailRun == place' = "move" /\ status' = 1

\* A new job: rm -rf exported-artifacts.
Start ==
    /\ place = "ended" /\ job < MaxJobs
    /\ job' = job + 1
    /\ Goto("path")
    /\ status' = 0 /\ pytest' = "none" /\ handler' = "none"
    /\ aborted' = FALSE /\ unmoved' = FALSE /\ cleaned' = FALSE
    /\ junit' = "none" /\ logs' = "none"
    /\ UNCHANGED <<mock, prefix, vms, images, linked, excused>>

\* get_run_path: remove what an earlier job left and check the requirements.  A check that
\* fails ends the job before the trap is set, and leaves the directory: set -e exits before the
\* line that would remove it.  So does a directory that cannot be removed, or not all of it.
GetRunPath ==
    /\ place = "path"
    /\ \/ prefix' = "none" /\ linked' = 0 /\ Goto("setup") /\ UNCHANGED <<status, excused>>
       \/ /\ \/ prefix' = "made" /\ linked' = 0
             \/ prefix # "none" /\ prefix' = prefix /\ linked' \in {linked, 0}
          /\ Goto("ended") /\ status' = 1 /\ excused' = excused \cup {job}
    /\ UNCHANGED <<mock, vms, images, junit, logs, job, pytest, handler, aborted, unmoved, cleaned>>

\* The trap is set; the arguments of run_suite.sh are put together.
SetUp ==
    /\ place = "setup"
    /\ \/ Goto("run") /\ UNCHANGED status
       \/ FailRun
    /\ UNCHANGED <<machine, job, pytest, handler, history>>

\* run_suite.sh refuses a prefix that exists, then makes it, checks the
\* requirements again and runs the linters.
BeginRun ==
    /\ place = "run"
    /\ IF prefix # "none"
          THEN FailRun /\ UNCHANGED prefix
          ELSE /\ prefix' = "made"
               /\ \/ Goto(IF mock THEN "mktemp" ELSE "init") /\ UNCHANGED status
                  \/ FailRun
    /\ UNCHANGED <<mock, vms, images, linked, junit, logs, job, pytest, handler, history>>

\* prepare_images_for_mock: mktemp -d, then the link in the prefix.
MakeImages ==
    /\ place = "mktemp"
    /\ images' = images \cup {job}
    /\ Goto("link")
    /\ UNCHANGED <<mock, prefix, vms, linked, junit, logs, job, status, pytest, handler, history>>

LinkImages ==
    /\ place = "link"
    /\ \/ linked' = job /\ Goto("init") /\ UNCHANGED <<status, excused>>
       \/ FailRun /\ excused' = excused \cup {job} /\ UNCHANGED linked
    /\ UNCHANGED <<mock, prefix, vms, images, junit, logs, job, pytest, handler, aborted, unmoved, cleaned>>

\* env_init
LagoInit ==
    /\ place = "init"
    /\ \/ prefix' = "env" /\ Goto("up") /\ UNCHANGED status
       \/ FailRun /\ UNCHANGED prefix
    /\ UNCHANGED <<mock, vms, images, linked, junit, logs, job, pytest, handler, history>>

\* env_start: a start that fails may have started some of the machines.
LagoStart ==
    /\ place = "up"
    /\ \/ vms' = [vms EXCEPT ![job] = "running"] /\ Goto("tests") /\ UNCHANGED status
       \/ FailRun /\ vms' \in {vms, [vms EXCEPT ![job] = "running"]}
    /\ UNCHANGED <<mock, prefix, images, linked, junit, logs, job, pytest, handler, history>>

\* Mutant: env_run_pytest_bulk forgets the exit status of pytest.
RunTestsNoStatus ==
    /\ place = "tests"
    /\ pytest' \in {"passed", "failed"}
    /\ junit' = "prefix"
    /\ Goto("move")
    /\ UNCHANGED <<mock, prefix, vms, images, linked, logs, job, status, handler, history>>

\* The rest of the suite's run_suite.  What it does before pytest may fail;
\* env_run_pytest_bulk writes the report whatever the outcome, and a test may
\* have shut a machine down.
RunTests ==
    /\ place = "tests"
    /\ \/ FailRun /\ UNCHANGED <<pytest, junit, vms>>
       \/ /\ pytest' \in {"passed", "failed"}
          /\ junit' = "prefix"
          /\ vms' \in {vms, [vms EXCEPT ![job] = "off"]}
          /\ IF pytest' = "failed" THEN FailRun ELSE Goto("move") /\ UNCHANGED status
    /\ UNCHANGED <<mock, prefix, images, linked, logs, job, handler, history>>

\* The timeout: SIGTERM (on_sigterm collects what it can in 120 seconds) and,
\* five minutes later, SIGKILL.  pytest dies with the script.
TimeOut ==
    /\ place \in Running
    /\ Goto("move") /\ status' = 124
    /\ logs' \in {"none", IF prefix = "env" THEN "cwd" ELSE "none"}
    /\ excused' = IF place = "link" THEN excused \cup {job} ELSE excused
    /\ UNCHANGED <<mock, prefix, vms, images, linked, junit, job, pytest, handler, aborted, unmoved, cleaned>>

\* A signal to suite.sh once the trap is set: cleanup runs as its handler, and again at EXIT.
\* bash runs the handler when the command it waits for has ended, on its own or because the
\* signal reached it too.  In the EXIT trap it runs inside it, and nothing follows.
Abort ==
    /\ place \in {"setup"} \cup Running \cup Cleaning /\ ~aborted
    /\ aborted' = TRUE
    /\ handler' = IF place \in Cleaning THEN "nested" ELSE "signal"
    /\ \/ place \in Running /\ UNCHANGED <<place, status, excused>>
       \/ /\ Goto("move") /\ status' = IF place \in Running THEN 143 ELSE status
          /\ excused' = IF place = "link" THEN excused \cup {job} ELSE excused
    /\ UNCHANGED <<machine, job, pytest, unmoved, cleaned>>

\* SIGKILL, or any signal before the trap is set.
KillJob ==
    /\ place # "ended"
    /\ Goto("ended") /\ status' = 137
    /\ excused' = excused \cup {job}
    /\ UNCHANGED <<machine, job, pytest, handler, aborted, unmoved, cleaned>>

\* set -e inside cleanup: the handler of a signal is still followed by the EXIT trap.
StopCleanup ==
    /\ status' = 1 /\ handler' = "none"
    /\ IF handler = "signal" THEN Goto("move") /\ UNCHANGED excused
                             ELSE Goto("ended") /\ excused' = excused \cup {job}

\* cleanup: the artifacts are moved first.  A mv of the logs that fails, before or after the
\* report, ends the trap; find goes on when its mv of the report fails.
Move ==
    /\ place = "move"
    /\ \/ junit = "prefix" /\ junit' = "exported"
       \/ UNCHANGED junit
    /\ \/ /\ logs' = IF logs = "cwd" THEN "exported" ELSE logs
          /\ unmoved' = IF junit' = "prefix" THEN TRUE ELSE unmoved
          /\ Goto("destroy")
          /\ UNCHANGED <<status, handler, excused>>
       \/ StopCleanup /\ UNCHANGED <<logs, unmoved>>
    /\ UNCHANGED <<mock, prefix, vms, images, linked, job, pytest, aborted, cleaned>>

\* env_cleanup: lago destroy, which knows the machines of its prefix only, and may fail with
\* some or all of its work done.
Destroy ==
    /\ place = "destroy"
    /\ \/ prefix = "env" /\ vms' = [vms EXCEPT ![job] = "none"] /\ Goto("remove")
       \/ /\ vms' \in {vms} \cup {[vms EXCEPT ![job] = v] : v \in IF prefix = "env" THEN {"none"} ELSE {}}
          /\ Goto("libvirt")
    /\ UNCHANGED <<mock, prefix, images, linked, junit, logs, job, status, pytest, handler, history>>

\* env_libvirt_cleanup: uid is never set (the prefix exists, or its uuid does not), so outside
\* mock there is nothing to destroy.  In mock every listed domain is destroyed, then the
\* networks; virsh fails for a domain or a network that is off, and may fail anyhow.
LibvirtCleanup ==
    /\ place = "libvirt"
    /\ \/ /\ mock => \A j \in Jobs : vms[j] # "off"
          /\ vms' = IF mock THEN [j \in Jobs |-> "none"] ELSE vms
          /\ Goto("remove")
          /\ UNCHANGED <<status, handler, excused>>
       \/ /\ mock
          /\ \E gone \in SUBSET {j \in Jobs : vms[j] = "running"} :
                vms' = [j \in Jobs |-> IF j \in gone THEN "none" ELSE vms[j]]
          /\ StopCleanup
    /\ UNCHANGED <<mock, prefix, images, linked, junit, logs, job, pytest, aborted, unmoved, cleaned>>

\* The report, when the prefix it may still be in is removed.
Buried == IF junit = "prefix" THEN "none" ELSE junit

\* exit: in the EXIT trap the status of before, in the handler of a signal that of the command
\* before it, which is 0 here, or, as POSIX has it, that of before the trap.
EndCleanup ==
    /\ IF handler = "none" THEN UNCHANGED status ELSE status' \in {0, status}
    /\ Goto(IF handler = "signal" THEN "move" ELSE "ended")
    /\ handler' = "none"
    /\ cleaned' = TRUE
    /\ UNCHANGED excused

\* Mutant: the prefix is removed first, and the link with it.
RemovePrefixFirst ==
    /\ place = "remove"
    /\ linked' = 0
    /\ prefix' = "none" /\ junit' = Buried
    /\ EndCleanup
    /\ UNCHANGED <<mock, vms, images, logs, job, pytest, aborted, unmoved>>

\* cleanup_ost_images follows the link, then the prefix is removed.  Each rm may fail, the last
\* with part of the prefix gone, and so may what follows.
Remove ==
    /\ place = "remove"
    /\ \/ /\ images' = images \ {linked} /\ linked' = 0
          /\ prefix' = "none" /\ junit' = Buried
          /\ EndCleanup
       \/ /\ UNCHANGED <<images, linked, prefix, junit, cleaned>>
          /\ StopCleanup
       \/ /\ images' = images \ {linked} /\ linked' = 0
          /\ \/ prefix' \in {prefix, "none"} /\ junit' = Buried
             \/ UNCHANGED <<prefix, junit>>
          /\ StopCleanup
          /\ UNCHANGED cleaned
    /\ UNCHANGED <<mock, vms, logs, job, pytest, aborted, unmoved>>

Script ==
    \/ GetRunPath \/ SetUp \/ BeginRun \/ MakeImages \/ LinkImages
    \/ LagoInit \/ LagoStart \/ RunTests
    \/ Move \/ Destroy \/ LibvirtCleanup \/ Remove

JobNext == Start \/ Script \/ TimeOut \/ Abort \/ KillJob

\* Every command ends: tests that hang are what the timeout is for.
JobSpec == JobInit /\ [][JobNext]_jobVars /\ WF_jobVars(Script)
-----------------------------------------------------------------------------
JobTypeOK ==
    /\ mock \in BOOLEAN
    /\ prefix \in {"none", "made", "env"}
    /\ vms \in [Jobs -> {"none", "running", "off"}]
    /\ images \subseteq Jobs
    /\ linked \in images \cup {0}
    /\ junit \in {"none", "prefix", "exported"}
    /\ logs \in {"none", "cwd", "exported"}
    /\ job \in 0 .. MaxJobs
    /\ place \in {"path", "setup", "ended"} \cup Running \cup Cleaning
    /\ status \in {0, 1, 124, 137, 143}
    /\ pytest \in {"none", "passed", "failed"}
    /\ handler \in {"none", "signal", "nested"}
    /\ aborted \in BOOLEAN /\ unmoved \in BOOLEAN /\ cleaned \in BOOLEAN
    /\ excused \subseteq Jobs

\* A job is green only when pytest of this very job passed, however the exit status travelled
\* through `|| failed=true`, set -e, timeout and the EXIT trap.  (A job that was sent a signal
\* may exit with 0 all the same: the bare exit of the handler sees to that.)
GreenIsHonest ==
    place = "ended" /\ job > 0 /\ status = 0 => pytest = "passed" \/ aborted

\* The report of a pytest run is saved before the prefix it is in is removed, also when the
\* cleanup runs twice, unless the mv of find failed, which find does not tell.
ReportSurvives == cleaned /\ pytest # "none" => junit = "exported" \/ unmoved

\* No job is turned away (run_suite.sh:749) because of the deployment
\* directory an earlier one left.
NeverRefused == place = "run" => prefix = "none"

\* In mock, images are left behind only by jobs that were killed, or stopped
\* between making the directory and linking it.
ImagesRemoved == place = "ended" => images \subseteq excused

\* In mock, a cleanup that is done leaves no machine of its job behind, also
\* when lago fails.
MockCleanup == mock /\ cleaned => vms[job] = "none"

\* However jobs ended before, and whichever step of the cleanup failed, what the next job and
\* the people who read the report rely on is there, and what they do not expect is gone.
CleanupIsComplete == ReportSurvives /\ NeverRefused /\ ImagesRemoved /\ MockCleanup
=============================================================================
