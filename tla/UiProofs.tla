------------------------------ MODULE UiProofs ------------------------------
(* What UiSession guarantees, for any browsers, selections of tests and     *)
(* bounds.                                                                  *)
EXTENDS UiSession, TLAPS, FiniteSetTheorems
-----------------------------------------------------------------------------
(* The invariant of the grid.                                               *)

GridPcs == {"port", "proxy_off", "pod", "hub", "chrome", "firefox", "ready", "count", "log", "serve", "up", "suspended",
            "rm_chrome", "rm_firefox", "rm_hub", "rm_pod", "proxy_on", "caught", "done", "failed", "left"}
\* where no container is to be left, where the grid is taken down, and where nothing has been raised
Idle == {"port", "proxy_off", "pod", "proxy_on", "caught", "done", "failed"}
Leaving == {"rm_chrome", "rm_firefox", "rm_hub", "rm_pod", "proxy_on", "caught", "done", "failed"}
Entering == {"port", "proxy_off", "pod", "hub", "chrome", "firefox", "ready", "count", "serve", "up", "suspended"}

GridType ==
    /\ backend \in {"podman", "docker"} /\ gpc \in GridPcs
    /\ err \in {"none", "other", "shell", "grid", "exit"}
    /\ attempt \in 0 .. (GridRetries - 1) /\ (backend = "docker" => attempt = 0)
    /\ polls \in 0 .. GridPolls /\ faults \in 0 .. MaxFaults
    /\ live \subseteq Kinds \X (0 .. attempt) /\ up \subseteq live /\ dead \subseteq live /\ up \cap dead = {}
    /\ served \in {"none", "serving", "over", "twice"}
    /\ proxy \in {"unset", "set", "empty"} /\ saved \in {"unset", "set", "empty"}

\* What is left of the containers while nothing was refused that would excuse more.
PodmanInv ==
    backend = "podman" /\ "pod" \notin rmFailed =>
        (\A c \in live : c[2] = attempt) /\ (gpc \in Idle => live = {})
DockerInv ==
    backend = "docker" /\ refused \cup rmFailed = {} =>
        /\ gpc \in Idle => live = {}
        /\ gpc \notin Idle => This("pod") \in live
        /\ gpc \in {"hub", "rm_pod"} => live = {This("pod")}
        /\ gpc = "rm_hub" => live \subseteq {This("pod"), This("hub")}
        /\ gpc = "rm_firefox" => This("chrome") \notin live
\* A second yield, and the exception of an attempt.
ServedInv ==
    /\ gpc \in Entering => err = "none"
    /\ served = "serving" => gpc = "up"
    /\ served = "twice" => rmFailed # {}
    /\ served = "over" /\ rmFailed = {} => gpc \in Leaving /\ (backend = "podman" => err = "none")
ProxyInv == gpc \in {"caught", "done", "failed", "port", "proxy_off"} /\ proxy = "empty" => saved # "set"

GridInv == GridType /\ PodmanInv /\ DockerInv /\ ServedInv /\ ProxyInv

LEMMA FindPortKeepsGrid ==
    ASSUME GridInv, FindPort
    PROVE  GridInv'
<1> USE GridAssumption DEF GridInv, control, containers
<1>1. GridType'
  BY DEF FindPort, Raise, Goto, Fault, GridType, PodmanInv, DockerInv, ServedInv, ProxyInv, GridPcs, Idle, Entering, Leaving, Kinds, Nodes, This
<1>2. PodmanInv'
  BY DEF FindPort, Raise, Goto, Fault, GridType, PodmanInv, DockerInv, ServedInv, ProxyInv, GridPcs, Idle, Entering, Leaving, Kinds, Nodes, This
<1>3. DockerInv'
  BY DEF FindPort, Raise, Goto, Fault, GridType, PodmanInv, DockerInv, ServedInv, ProxyInv, GridPcs, Idle, Entering, Leaving, Kinds, Nodes, This
<1>4. ServedInv'
  BY DEF FindPort, Raise, Goto, Fault, GridType, PodmanInv, DockerInv, ServedInv, ProxyInv, GridPcs, Idle, Entering, Leaving, Kinds, Nodes, This
<1>5. ProxyInv'
  BY DEF FindPort, Raise, Goto, Fault, GridType, PodmanInv, DockerInv, ServedInv, ProxyInv, GridPcs, Idle, Entering, Leaving, Kinds, Nodes, This
<1> QED
  BY <1>1, <1>2, <1>3, <1>4, <1>5

LEMMA ProxyOffKeepsGrid ==
    ASSUME GridInv, ProxyOff
    PROVE  GridInv'
<1> USE GridAssumption DEF GridInv, control, containers
<1>1. GridType'
  BY DEF ProxyOff, Goto, GridType, PodmanInv, DockerInv, ServedInv, ProxyInv, GridPcs, Idle, Entering, Leaving, Kinds, Nodes, This
<1>2. PodmanInv'
  BY DEF ProxyOff, Goto, GridType, PodmanInv, DockerInv, ServedInv, ProxyInv, GridPcs, Idle, Entering, Leaving, Kinds, Nodes, This
<1>3. DockerInv'
  BY DEF ProxyOff, Goto, GridType, PodmanInv, DockerInv, ServedInv, ProxyInv, GridPcs, Idle, Entering, Leaving, Kinds, Nodes, This
<1>4. ServedInv'
  BY DEF ProxyOff, Goto, GridType, PodmanInv, DockerInv, ServedInv, ProxyInv, GridPcs, Idle, Entering, Leaving, Kinds, Nodes, This
<1>5. ProxyInv'
  BY DEF ProxyOff, Goto, GridType, PodmanInv, DockerInv, ServedInv, ProxyInv, GridPcs, Idle, Entering, Leaving, Kinds, Nodes, This
<1> QED
  BY <1>1, <1>2, <1>3, <1>4, <1>5

LEMMA StartContainerKeepsGrid ==
    ASSUME NEW kind \in Kinds, GridInv, StartContainer(kind)
    PROVE  GridInv'
<1> USE GridAssumption DEF GridInv, control, containers
<1>1. GridType'
  BY DEF StartContainer, AfterRun, Unwind, Raise, Goto, Fault, GridType, PodmanInv, DockerInv, ServedInv, ProxyInv, GridPcs, Idle, Entering, Leaving, Kinds, Nodes, This
<1>2. PodmanInv'
  BY DEF StartContainer, AfterRun, Unwind, Raise, Goto, Fault, GridType, PodmanInv, DockerInv, ServedInv, ProxyInv, GridPcs, Idle, Entering, Leaving, Kinds, Nodes, This
<1>3. DockerInv'
  BY DEF StartContainer, AfterRun, Unwind, Raise, Goto, Fault, GridType, PodmanInv, DockerInv, ServedInv, ProxyInv, GridPcs, Idle, Entering, Leaving, Kinds, Nodes, This
<1>4. ServedInv'
  BY DEF StartContainer, AfterRun, Unwind, Raise, Goto, Fault, GridType, PodmanInv, DockerInv, ServedInv, ProxyInv, GridPcs, Idle, Entering, Leaving, Kinds, Nodes, This
<1>5. ProxyInv'
  BY DEF StartContainer, AfterRun, Unwind, Raise, Goto, Fault, GridType, PodmanInv, DockerInv, ServedInv, ProxyInv, GridPcs, Idle, Entering, Leaving, Kinds, Nodes, This
<1> QED
  BY <1>1, <1>2, <1>3, <1>4, <1>5

LEMMA PollReadyKeepsGrid ==
    ASSUME GridInv, PollReady
    PROVE  GridInv'
<1> USE GridAssumption DEF GridInv, control, containers
<1>1. GridType'
  BY DEF PollReady, Polled, Unhealthy, Raise, Goto, Fault, GridType, PodmanInv, DockerInv, ServedInv, ProxyInv, GridPcs, Idle, Entering, Leaving, Kinds, Nodes, This
<1>2. PodmanInv'
  BY DEF PollReady, Polled, Unhealthy, Raise, Goto, Fault, GridType, PodmanInv, DockerInv, ServedInv, ProxyInv, GridPcs, Idle, Entering, Leaving, Kinds, Nodes, This
<1>3. DockerInv'
  BY DEF PollReady, Polled, Unhealthy, Raise, Goto, Fault, GridType, PodmanInv, DockerInv, ServedInv, ProxyInv, GridPcs, Idle, Entering, Leaving, Kinds, Nodes, This
<1>4. ServedInv'
  BY DEF PollReady, Polled, Unhealthy, Raise, Goto, Fault, GridType, PodmanInv, DockerInv, ServedInv, ProxyInv, GridPcs, Idle, Entering, Leaving, Kinds, Nodes, This
<1>5. ProxyInv'
  BY DEF PollReady, Polled, Unhealthy, Raise, Goto, Fault, GridType, PodmanInv, DockerInv, ServedInv, ProxyInv, GridPcs, Idle, Entering, Leaving, Kinds, Nodes, This
<1> QED
  BY <1>1, <1>2, <1>3, <1>4, <1>5

LEMMA PollCountKeepsGrid ==
    ASSUME GridInv, PollCount
    PROVE  GridInv'
<1> USE GridAssumption DEF GridInv, control, containers
<1>1. GridType'
  BY DEF PollCount, Polled, Unhealthy, Raise, Goto, Fault, GridType, PodmanInv, DockerInv, ServedInv, ProxyInv, GridPcs, Idle, Entering, Leaving, Kinds, Nodes, This
<1>2. PodmanInv'
  BY DEF PollCount, Polled, Unhealthy, Raise, Goto, Fault, GridType, PodmanInv, DockerInv, ServedInv, ProxyInv, GridPcs, Idle, Entering, Leaving, Kinds, Nodes, This
<1>3. DockerInv'
  BY DEF PollCount, Polled, Unhealthy, Raise, Goto, Fault, GridType, PodmanInv, DockerInv, ServedInv, ProxyInv, GridPcs, Idle, Entering, Leaving, Kinds, Nodes, This
<1>4. ServedInv'
  BY DEF PollCount, Polled, Unhealthy, Raise, Goto, Fault, GridType, PodmanInv, DockerInv, ServedInv, ProxyInv, GridPcs, Idle, Entering, Leaving, Kinds, Nodes, This
<1>5. ProxyInv'
  BY DEF PollCount, Polled, Unhealthy, Raise, Goto, Fault, GridType, PodmanInv, DockerInv, ServedInv, ProxyInv, GridPcs, Idle, Entering, Leaving, Kinds, Nodes, This
<1> QED
  BY <1>1, <1>2, <1>3, <1>4, <1>5

LEMMA LogIssuesKeepsGrid ==
    ASSUME GridInv, LogIssues
    PROVE  GridInv'
<1> USE GridAssumption DEF GridInv, control, containers
<1>1. GridType'
  BY DEF LogIssues, Raise, Goto, Fault, GridType, PodmanInv, DockerInv, ServedInv, ProxyInv, GridPcs, Idle, Entering, Leaving, Kinds, Nodes, This
<1>2. PodmanInv'
  BY DEF LogIssues, Raise, Goto, Fault, GridType, PodmanInv, DockerInv, ServedInv, ProxyInv, GridPcs, Idle, Entering, Leaving, Kinds, Nodes, This
<1>3. DockerInv'
  BY DEF LogIssues, Raise, Goto, Fault, GridType, PodmanInv, DockerInv, ServedInv, ProxyInv, GridPcs, Idle, Entering, Leaving, Kinds, Nodes, This
<1>4. ServedInv'
  BY DEF LogIssues, Raise, Goto, Fault, GridType, PodmanInv, DockerInv, ServedInv, ProxyInv, GridPcs, Idle, Entering, Leaving, Kinds, Nodes, This
<1>5. ProxyInv'
  BY DEF LogIssues, Raise, Goto, Fault, GridType, PodmanInv, DockerInv, ServedInv, ProxyInv, GridPcs, Idle, Entering, Leaving, Kinds, Nodes, This
<1> QED
  BY <1>1, <1>2, <1>3, <1>4, <1>5

LEMMA ServeGridKeepsGrid ==
    ASSUME GridInv, ServeGrid
    PROVE  GridInv'
<1> USE GridAssumption DEF GridInv, control, containers
<1>1. GridType'
  BY DEF ServeGrid, Goto, GridType, PodmanInv, DockerInv, ServedInv, ProxyInv, GridPcs, Idle, Entering, Leaving, Kinds, Nodes, This
<1>2. PodmanInv'
  BY DEF ServeGrid, Goto, GridType, PodmanInv, DockerInv, ServedInv, ProxyInv, GridPcs, Idle, Entering, Leaving, Kinds, Nodes, This
<1>3. DockerInv'
  BY DEF ServeGrid, Goto, GridType, PodmanInv, DockerInv, ServedInv, ProxyInv, GridPcs, Idle, Entering, Leaving, Kinds, Nodes, This
<1>4. ServedInv'
  BY DEF ServeGrid, Goto, GridType, PodmanInv, DockerInv, ServedInv, ProxyInv, GridPcs, Idle, Entering, Leaving, Kinds, Nodes, This
<1>5. ProxyInv'
  BY DEF ServeGrid, Goto, GridType, PodmanInv, DockerInv, ServedInv, ProxyInv, GridPcs, Idle, Entering, Leaving, Kinds, Nodes, This
<1> QED
  BY <1>1, <1>2, <1>3, <1>4, <1>5

LEMMA CollectGridKeepsGrid ==
    ASSUME GridInv, CollectGrid
    PROVE  GridInv'
<1> USE GridAssumption DEF GridInv, control, containers
<1>1. GridType'
  BY DEF CollectGrid, Raise, Goto, GridType, PodmanInv, DockerInv, ServedInv, ProxyInv, GridPcs, Idle, Entering, Leaving, Kinds, Nodes, This
<1>2. PodmanInv'
  BY DEF CollectGrid, Raise, Goto, GridType, PodmanInv, DockerInv, ServedInv, ProxyInv, GridPcs, Idle, Entering, Leaving, Kinds, Nodes, This
<1>3. DockerInv'
  BY DEF CollectGrid, Raise, Goto, GridType, PodmanInv, DockerInv, ServedInv, ProxyInv, GridPcs, Idle, Entering, Leaving, Kinds, Nodes, This
<1>4. ServedInv'
  BY DEF CollectGrid, Raise, Goto, GridType, PodmanInv, DockerInv, ServedInv, ProxyInv, GridPcs, Idle, Entering, Leaving, Kinds, Nodes, This
<1>5. ProxyInv'
  BY DEF CollectGrid, Raise, Goto, GridType, PodmanInv, DockerInv, ServedInv, ProxyInv, GridPcs, Idle, Entering, Leaving, Kinds, Nodes, This
<1> QED
  BY <1>1, <1>2, <1>3, <1>4, <1>5

LEMMA RemoveContainerKeepsGrid ==
    ASSUME NEW pc \in DOMAIN Removals, GridInv, RemoveContainer(pc)
    PROVE  GridInv'
<1> USE GridAssumption DEF GridInv, control, containers
<1>1. GridType'
  BY DEF RemoveContainer, Removals, AfterRm, AfterFailedRm, Removed, InUse, Raise, Goto, Fault, GridType, PodmanInv, DockerInv, ServedInv, ProxyInv, GridPcs, Idle, Entering, Leaving, Kinds, Nodes, This
<1>2. PodmanInv'
  BY DEF RemoveContainer, Removals, AfterRm, AfterFailedRm, Removed, InUse, Raise, Goto, Fault, GridType, PodmanInv, DockerInv, ServedInv, ProxyInv, GridPcs, Idle, Entering, Leaving, Kinds, Nodes, This
<1>3. DockerInv'
  BY DEF RemoveContainer, Removals, AfterRm, AfterFailedRm, Removed, InUse, Raise, Goto, Fault, GridType, PodmanInv, DockerInv, ServedInv, ProxyInv, GridPcs, Idle, Entering, Leaving, Kinds, Nodes, This
<1>4. ServedInv'
  BY DEF RemoveContainer, Removals, AfterRm, AfterFailedRm, Removed, InUse, Raise, Goto, Fault, GridType, PodmanInv, DockerInv, ServedInv, ProxyInv, GridPcs, Idle, Entering, Leaving, Kinds, Nodes, This
<1>5. ProxyInv'
  BY DEF RemoveContainer, Removals, AfterRm, AfterFailedRm, Removed, InUse, Raise, Goto, Fault, GridType, PodmanInv, DockerInv, ServedInv, ProxyInv, GridPcs, Idle, Entering, Leaving, Kinds, Nodes, This
<1> QED
  BY <1>1, <1>2, <1>3, <1>4, <1>5

LEMMA ProxyOnKeepsGrid ==
    ASSUME GridInv, ProxyOn
    PROVE  GridInv'
<1> USE GridAssumption DEF GridInv, control, containers
<1>1. GridType'
  BY DEF ProxyOn, RestoreProxy, Goto, GridType, PodmanInv, DockerInv, ServedInv, ProxyInv, GridPcs, Idle, Entering, Leaving, Kinds, Nodes, This
<1>2. PodmanInv'
  BY DEF ProxyOn, RestoreProxy, Goto, GridType, PodmanInv, DockerInv, ServedInv, ProxyInv, GridPcs, Idle, Entering, Leaving, Kinds, Nodes, This
<1>3. DockerInv'
  BY DEF ProxyOn, RestoreProxy, Goto, GridType, PodmanInv, DockerInv, ServedInv, ProxyInv, GridPcs, Idle, Entering, Leaving, Kinds, Nodes, This
<1>4. ServedInv'
  BY DEF ProxyOn, RestoreProxy, Goto, GridType, PodmanInv, DockerInv, ServedInv, ProxyInv, GridPcs, Idle, Entering, Leaving, Kinds, Nodes, This
<1>5. ProxyInv'
  BY DEF ProxyOn, RestoreProxy, Goto, GridType, PodmanInv, DockerInv, ServedInv, ProxyInv, GridPcs, Idle, Entering, Leaving, Kinds, Nodes, This
<1> QED
  BY <1>1, <1>2, <1>3, <1>4, <1>5

LEMMA CaughtGridKeepsGrid ==
    ASSUME GridInv, CaughtGrid
    PROVE  GridInv'
<1> USE GridAssumption DEF GridInv, control, containers
<1>1. GridType'
  BY DEF CaughtGrid, Retried, Raise, Goto, GridType, PodmanInv, DockerInv, ServedInv, ProxyInv, GridPcs, Idle, Entering, Leaving, Kinds, Nodes, This
<1>2. PodmanInv'
  BY DEF CaughtGrid, Retried, Raise, Goto, GridType, PodmanInv, DockerInv, ServedInv, ProxyInv, GridPcs, Idle, Entering, Leaving, Kinds, Nodes, This
<1>3. DockerInv'
  BY DEF CaughtGrid, Retried, Raise, Goto, GridType, PodmanInv, DockerInv, ServedInv, ProxyInv, GridPcs, Idle, Entering, Leaving, Kinds, Nodes, This
<1>4. ServedInv'
  BY DEF CaughtGrid, Retried, Raise, Goto, GridType, PodmanInv, DockerInv, ServedInv, ProxyInv, GridPcs, Idle, Entering, Leaving, Kinds, Nodes, This
<1>5. ProxyInv'
  BY DEF CaughtGrid, Retried, Raise, Goto, GridType, PodmanInv, DockerInv, ServedInv, ProxyInv, GridPcs, Idle, Entering, Leaving, Kinds, Nodes, This
<1> QED
  BY <1>1, <1>2, <1>3, <1>4, <1>5

LEMMA LeaveGridKeepsGrid ==
    ASSUME GridInv, LeaveGrid
    PROVE  GridInv'
<1> USE GridAssumption DEF GridInv, control, containers
<1>1. GridType'
  BY DEF LeaveGrid, Goto, GridType, PodmanInv, DockerInv, ServedInv, ProxyInv, GridPcs, Idle, Entering, Leaving, Kinds, Nodes, This
<1>2. PodmanInv'
  BY DEF LeaveGrid, Goto, GridType, PodmanInv, DockerInv, ServedInv, ProxyInv, GridPcs, Idle, Entering, Leaving, Kinds, Nodes, This
<1>3. DockerInv'
  BY DEF LeaveGrid, Goto, GridType, PodmanInv, DockerInv, ServedInv, ProxyInv, GridPcs, Idle, Entering, Leaving, Kinds, Nodes, This
<1>4. ServedInv'
  BY DEF LeaveGrid, Goto, GridType, PodmanInv, DockerInv, ServedInv, ProxyInv, GridPcs, Idle, Entering, Leaving, Kinds, Nodes, This
<1>5. ProxyInv'
  BY DEF LeaveGrid, Goto, GridType, PodmanInv, DockerInv, ServedInv, ProxyInv, GridPcs, Idle, Entering, Leaving, Kinds, Nodes, This
<1> QED
  BY <1>1, <1>2, <1>3, <1>4, <1>5

LEMMA ContainersKeepsGrid ==
    ASSUME GridInv, Containers
    PROVE  GridInv'
<1> USE GridAssumption DEF GridInv, control, containers
<1>1. GridType'
  BY DEF Containers, ContainerUp, ContainerDies, Fault, Goto, GridType, PodmanInv, DockerInv, ServedInv, ProxyInv, GridPcs, Idle, Entering, Leaving, Kinds, Nodes, This
<1>2. PodmanInv'
  BY DEF Containers, ContainerUp, ContainerDies, Fault, Goto, GridType, PodmanInv, DockerInv, ServedInv, ProxyInv, GridPcs, Idle, Entering, Leaving, Kinds, Nodes, This
<1>3. DockerInv'
  BY DEF Containers, ContainerUp, ContainerDies, Fault, Goto, GridType, PodmanInv, DockerInv, ServedInv, ProxyInv, GridPcs, Idle, Entering, Leaving, Kinds, Nodes, This
<1>4. ServedInv'
  BY DEF Containers, ContainerUp, ContainerDies, Fault, Goto, GridType, PodmanInv, DockerInv, ServedInv, ProxyInv, GridPcs, Idle, Entering, Leaving, Kinds, Nodes, This
<1>5. ProxyInv'
  BY DEF Containers, ContainerUp, ContainerDies, Fault, Goto, GridType, PodmanInv, DockerInv, ServedInv, ProxyInv, GridPcs, Idle, Entering, Leaving, Kinds, Nodes, This
<1> QED
  BY <1>1, <1>2, <1>3, <1>4, <1>5

\* An event that disturbs the browser uses up one of the faults.
LEMMA DisturbanceKeepsGrid ==
    ASSUME GridInv, UNCHANGED <<control, containers, backend, served, proxy, saved, refused, rmFailed>>,
           faults' = faults \/ Fault
    PROVE  GridInv'
<1>1. faults' \in 0 .. MaxFaults
  BY GridAssumption DEF GridInv, GridType, Fault
<1>2. GridType'
  BY <1>1 DEF GridInv, GridType, control, containers
<1>3. (PodmanInv /\ DockerInv /\ ServedInv /\ ProxyInv)'
  BY DEF GridInv, PodmanInv, DockerInv, ServedInv, ProxyInv, This, control, containers
<1> QED
  BY <1>2, <1>3 DEF GridInv

LEMMA GridInitially == ASSUME GridInit PROVE GridInv
  BY GridAssumption DEF GridInit, GridInv, GridType, PodmanInv, DockerInv, ServedInv, ProxyInv, GridPcs, Idle, Entering, Leaving,
                        Kinds, Nodes, This

LEMMA GridStepKeepsGrid == ASSUME GridInv, Grid PROVE GridInv'
<1>1. CASE \E kind \in Kinds : StartContainer(kind)
  BY <1>1, StartContainerKeepsGrid
<1>2. CASE \E pc \in DOMAIN Removals : RemoveContainer(pc)
  BY <1>2, RemoveContainerKeepsGrid
<1> QED
  BY <1>1, <1>2, FindPortKeepsGrid, ProxyOffKeepsGrid, PollReadyKeepsGrid, PollCountKeepsGrid, LogIssuesKeepsGrid, ServeGridKeepsGrid,
     CollectGridKeepsGrid, ProxyOnKeepsGrid, CaughtGridKeepsGrid DEF Grid

LEMMA StepKeepsGrid == ASSUME GridInv, [Next]_vars PROVE GridInv'
<1>1. CASE UNCHANGED gridVars
  BY <1>1, DisturbanceKeepsGrid DEF gridVars, control, containers
<1>2. CASE Grid
  BY <1>2, GridStepKeepsGrid
<1>3. CASE Containers
  BY <1>3, ContainersKeepsGrid
<1>4. CASE LeaveGrid
  BY <1>4, LeaveGridKeepsGrid
<1>5. CASE OpenBrowser
  BY <1>5, DisturbanceKeepsGrid DEF OpenBrowser
<1>6. CASE Application
  <2>1. faults' = faults \/ Fault
    BY <1>6 DEF Application, ShowCrumbs, ShowMain, LoadPage, ShowDialog, ListDisk, ChangeVm, Notify, Refresh
  <2> QED
    BY <1>6, <2>1, DisturbanceKeepsGrid DEF Application
<1>7. CASE Driver \/ NextTest
  BY <1>7, <1>1 DEF Driver, Find, Use, UseClick, EnterFrame, LeaveFrame, Get, StartVm, AwaitVm, NextTest
<1> QED
  BY <1>1, <1>2, <1>3, <1>4, <1>5, <1>6, <1>7 DEF Next, Client, Terminated, TearDownGrid, vars

LEMMA OnePod ==
    ASSUME GridInv, "pod" \notin rmFailed
    PROVE  Cardinality({c \in live : c[1] = "pod"}) <= 1
<1> DEFINE pods == {c \in live : c[1] = "pod"}
<1>1. \A c \in live : c[2] = attempt
  BY DEF GridInv, GridType, PodmanInv
<1>2. pods \in SUBSET {<<"pod", attempt>>}
  BY <1>1 DEF GridInv, GridType
<1>3. IsFiniteSet({<<"pod", attempt>>}) /\ Cardinality({<<"pod", attempt>>}) = 1
  BY FS_Singleton
<1> HIDE DEF pods
<1>4. Cardinality(pods) <= 1
  BY <1>2, <1>3, FS_Subset, Zenon
<1> QED
  BY <1>4 DEF pods

LEMMA GridLeavesNothing == ASSUME GridInv PROVE LeavesNothing
<1>1. GridEnded /\ live # {} => \/ gpc = "left"
                                \/ IF backend = "podman" THEN "pod" \in rmFailed ELSE refused \cup rmFailed # {}
  BY DEF GridInv, GridType, PodmanInv, DockerInv, GridEnded, Idle
<1>2. Cardinality({c \in live : c[1] = "pod"}) <= 1 \/ "pod" \in rmFailed
  BY OnePod
<1>3. served = "twice" => rmFailed # {}
  BY DEF GridInv, ServedInv
<1>4. GridEnded /\ gpc # "left" /\ proxy = "empty" => saved # "set"
  BY DEF GridInv, ProxyInv, GridEnded
<1> QED
  BY <1>1, <1>2, <1>3, <1>4 DEF LeavesNothing

\* The grid of a session is removed, and http_proxy given back, whatever happened in it
\* (_selenium_grid and its context managers, in ost_utils.selenium.grid).
THEOREM GridLeftClean == Spec => []LeavesNothing
<1>1. Init => GridInv
  BY GridInitially DEF Init
<1>2. GridInv /\ [Next]_vars => GridInv'
  BY StepKeepsGrid
<1>3. GridInv => LeavesNothing
  BY GridLeavesNothing
<1> QED
  BY <1>1, <1>2, <1>3, PTL DEF Spec

-----------------------------------------------------------------------------
(* The invariant of the session.                                            *)

Picks == {"first", "second"}
Fields == {"file", "alias"}
Disks == {"none", "uploading", "listed"}
VmStates == {"Down", "Up", "PoweringDown", "WaitForLaunch", "PoweringUp"}
Pages == [main : Views, crumbs : Views, dialog : Dialogs, goal : Views, dgoal : Dialogs, after : Views,
          menu : {"none", "compute", "storage"} \cup DOMAIN Entries, sso : BOOLEAN, sel : {"none"} \cup Picks, form : SUBSET Fields, disk : Disks, notif : BOOLEAN]
Clients == [b : Nat, t : Nat, s : Nat, look : Nat, ref : {"none", "good", "stale"}, tries : 0 .. MaxTries,
            waits : 0 .. (MaxPolls + MaxTries), elem : BOOLEAN, missed : BOOLEAN,
            outcome : {"running", "passed", "failed"}, frame : {"out", "in", "yes", "no"}]
Opened == gpc = "up" /\ browser = "open"

UiType ==
    /\ plan \in Plans /\ browser \in {"none", "open", "error"}
    /\ page \in Pages /\ cl \in Clients /\ vm \in VmStates
    /\ cl.b \in 1 .. Len(Browsers) + 1 /\ cl.t \in 1 .. Len(plan) /\ cl.s \in 1 .. Len(TestScript)
    /\ IF browser = "none" THEN cl = ClientAt(cl.b, 1) ELSE cl.b <= Len(Browsers) /\ gpc = "up"
    /\ St.looks # << >> => cl.look \in 1 .. Len(St.looks)
    /\ cl.frame # "out" => Running /\ InFrame(St.op)
    /\ cl.ref # "none" => Running /\ St.looks # << >> /\ (InFrame(St.op) => cl.frame = "in")
    /\ page.main \notin WebAdmin => page.crumbs = page.main

\* An element that is held and not stale is there.
RefInv == cl.ref = "good" /\ Lk.k \notin FindAll => Has(Lk.e)

\* The way to a page, and having come to it: whatever the application shows in between.
On(v, p) == p.goal = v /\ p.crumbs = v /\ p.main \in {v, "pools"}
Between(u, v, p) == p.goal = v /\ p.main \in {u, v}
Reached(v, p) == p.goal = v /\ p.main = v

ListTests == {"clusters", "hosts", "templates", "pools", "storage_domains", "disks"}
\* OpenList begins after step n
ListClaim(v, n, c, p) ==
    /\ c.s = n + 5 => p.goal = v /\ (c.look = 2 => p.crumbs = v)
    /\ c.s > n + 5 => On(v, p)
VmClaim(c, p) ==
    /\ c.s = 7 => p.goal = "vms" /\ (c.look = 2 => p.crumbs = "vms")
    /\ c.s \in 8 .. 27 => On("vms", p)
    /\ c.s = 28 => IF c.missed THEN On("vms", p) ELSE p.goal = "vm"
    /\ c.s \in 29 .. 41 => p.goal = "vm" /\ p.crumbs = "vm"
    /\ c.s > 41 => p.goal = "vm_devices" /\ p.crumbs = "vm"
    /\ c.s > 42 => p.main = "vm_devices"
EntryClaim(dest, c, p) ==
    /\ c.s \in 3 .. 6 => p.after = dest
    /\ c.s = 3 => /\ p.goal \in {"login", dest} /\ p.main \in {"welcome", p.goal}
                  /\ c.look = 2 => Reached("login", p)
    /\ c.s \in 4 .. 6 => Reached("login", p)
    /\ c.s > 6 => Between("login", dest, p) /\ (p.main = dest => p.crumbs = dest)
    /\ c.s > 7 => p.main = dest
DashboardClaim(c, p) ==
    /\ c.s > 3 => p.goal = "dashboard"
    /\ c.s > 4 \/ (c.s = 4 /\ c.frame = "yes") => p.main = "dashboard"
LogoutClaim(c, p) == (c.s = 11 => p.goal = "welcome") /\ (c.s = 12 => Reached("welcome", p))
GrafanaClaim(c, p) ==
    /\ c.s = 2 => p.goal = "welcome"
    /\ c.s = 3 => Reached("welcome", p)
    /\ c.s = 4 => Between("welcome", "grafana_login", p)
    /\ c.s = 5 => Reached("grafana_login", p)
    /\ c.s = 6 => p.goal \in {"login", "grafana"} /\ p.main \in {"grafana_login", p.goal}
    /\ c.s \in 7 .. 18 => Reached("grafana", p)
    /\ c.s = 19 => Between("grafana", "grafana_dc", p)
    /\ c.s \in 20 .. 32 => Reached("grafana_dc", p)
    /\ c.s = 33 => Between("grafana_dc", "grafana_hosts", p)
    /\ c.s = 34 => Reached("grafana_hosts", p)
PageClaim(t, c, p) ==
    /\ t \in ListTests => ListClaim(t, 0, c, p)
    /\ t = "virtual_machines" => VmClaim(c, p)
    /\ t = "login" => EntryClaim("dashboard", c, p)
    /\ t = "userportal" => EntryClaim("portal", c, p)
    /\ t = "dashboard" => DashboardClaim(c, p)
    /\ t = "logout" => LogoutClaim(c, p)
    /\ t = "grafana" => GrafanaClaim(c, p)
PageInv == Running => PageClaim(plan[cl.t], cl, page)

\* The dialog for uploading is untouched until its steps, and these build on one another.
Untouched(p) == p.dialog # "upload" /\ p.dgoal # "upload" /\ p.form = {} /\ p.disk = "none"
UploadClaim(c, p) ==
    /\ c.s <= 11 => Untouched(p) /\ p.menu # "Upload"
    /\ c.s = 12 => Untouched(p) /\ (c.missed => p.menu # "Upload" /\ c.ref = "none" /\ ~c.elem)
    /\ c.s = 13 => /\ p.form = {} /\ p.disk = "none"
                   /\ c.missed => Untouched(p) /\ c.ref = "none" /\ ~c.elem
    /\ c.s = 14 => p.disk = "none" /\ p.form \subseteq {"file"} /\ (c.missed => p.form = {})
    /\ c.s = 15 => p.disk = "none" /\ (c.missed => p.form # Fields)
    /\ c.s = 16 /\ c.missed => p.disk = "none"
Before(t) == \A i \in 1 .. cl.t : plan[i] # t
UploadInv ==
    Opened => /\ Before("disks") => Untouched(page) /\ page.menu # "Upload"
              /\ plan[cl.t] = "disks" /\ cl.outcome = "running" => UploadClaim(cl, page)

\* Where a test can be that has missed a click.
MissInv ==
    /\ cl.outcome = "passed" => ~cl.missed
    /\ cl.outcome = "running" /\ cl.missed =>
           \/ plan[cl.t] = "virtual_machines" /\ cl.s = 28
           \/ plan[cl.t] = "disks" /\ cl.s \in 12 .. 16

UiInv == UiType /\ RefInv /\ PageInv /\ UploadInv /\ MissInv
IInv == GridInv /\ UiInv
-----------------------------------------------------------------------------
(* Steps.                                                                   *)

ClickOps == {"click", "hover", "id_click", "action", "wait_for_id"}
SilentOps == {"get", "start_vm", "await_vm"}
LookOps == {"until", "while", "read", "if", "frame_until", "frame_read"}

AllButtons == UNION {Buttons(v) : v \in ListViews \cup VmViews}
LookKinds == FindOnly \cup FindAll \cup {"click", "shown", "enabled", "buttons", "status", "logged_out"}
TargetKinds == {"page", "button", "link", "menu", "anchor", "row", "dialog", "ok", "cancel", "field", "notification", "alert"}
Words == {"left", "nav", "compute", "storage", "user", "logout", "x", "error", "Host Devices"}
Names == Views \cup Dialogs \cup AllButtons \cup Fields \cup (UNION {Links(v) : v \in Views})
         \cup Words
Targets == {e \in TargetKinds \X Names : /\ e[1] = "anchor" => e[2] \in ListViews \cup {"dashboard"}
                                         /\ e[1] = "field" => e[2] \in Fields}
Looks == [k : LookKinds, e : Targets, r : BOOLEAN]
         \cup [k : LookKinds, e : Targets, r : BOOLEAN, texts : SUBSET (AllButtons \cup VmStates)]
Questions == {l \in Looks : l.k # "click"}
Steps ==
    {st \in [op : ClickOps \cup SilentOps \cup LookOps, at : SUBSET Views, looks : Seq(Looks), value : Seq(Picks)] :
        /\ st.looks = << >> <=> st.op \in SilentOps
        /\ st.op \in ClickOps => Len(st.looks) = 1
        /\ \A i \in 1 .. Len(st.looks) : st.looks[i].k = "click" <=> st.op \in ClickOps
        /\ st.op \notin {"until", "while", "read", "if", "click"} => \A i \in 1 .. Len(st.looks) : ~st.looks[i].r
        /\ InFrame(st.op) => Len(st.looks) = 1 /\ st.looks[1].k = "shown" /\ st.looks[1].e = <<"page", "dashboard">>
        /\ st.op = "hover" => st.looks[1].e[2] \in {"compute", "storage"}}
\* the elements a click on which leads to no other page
PlainTargets ==
    {e \in Targets : \/ e[1] \in {"button", "notification", "cancel", "row"}
                     \/ e \in {<<"ok", "poweroff">>, <<"ok", "runonce">>}
                     \/ e[1] = "link" /\ e[2] \in {"Power Off", "Run Once", "username", "password", "logo", "Home", "menu"}}
\* steps that neither miss a click nor touch the upload of a disk
SafeTargets ==
    {e \in Targets : /\ e \notin {<<"link", "Start">>, <<"button", "Upload">>, <<"ok", "upload">>}
                     /\ e[1] # "field"}
Harmless == {st \in Steps : /\ st.op \notin {"id_click", "action", "wait_for_id"}
                            /\ st.op \in ClickOps => st.looks[1].e \in SafeTargets}
PlainStep(st) ==
    /\ st.op \in {"until", "while", "read", "if", "click"}
    /\ st.op = "click" => /\ st.looks[1].e \in PlainTargets \ {<<"button", "Upload">>}
                          /\ st.looks[1].e[1] = "row" => st.value # << >>
PlainSteps(at) == {st \in Steps : st.at = at /\ PlainStep(st)}

JoinedAs(x, s, t) ==
    /\ Len(x) = Len(s) + Len(t)
    /\ \A i \in 1 .. Len(s) + Len(t) : x[i] = IF i <= Len(s) THEN s[i] ELSE t[i - Len(s)]
LEMMA Joined ==
    ASSUME NEW S, NEW s \in Seq(S), NEW t \in Seq(S)
    PROVE  JoinedAs(s \o t, s, t) /\ s \o t \in Seq(S)
  BY DEF JoinedAs
LEMMA One == ASSUME NEW S, NEW a \in S PROVE <<a>> \in Seq(S) /\ Len(<<a>>) = 1 /\ <<a>>[1] = a
  OBVIOUS
LEMMA Two ==
    ASSUME NEW S, NEW a \in S, NEW b \in S
    PROVE  <<a, b>> \in Seq(S) /\ Len(<<a, b>>) = 2 /\ <<a, b>>[1] = a /\ <<a, b>>[2] = b
  OBVIOUS
LEMMA Three ==
    ASSUME NEW S, NEW a \in S, NEW b \in S, NEW c \in S
    PROVE  <<a, b, c>> \in Seq(S) /\ Len(<<a, b, c>>) = 3 /\ <<a, b, c>>[1] = a /\ <<a, b, c>>[2] = b /\ <<a, b, c>>[3] = c
  OBVIOUS

LEMMA PlainIsHarmless == ASSUME NEW at 
    PROVE  /\ PlainSteps(at) \subseteq Harmless /\ Harmless \subseteq Steps
           /\ PlainTargets \ {<<"button", "Upload">>} \subseteq SafeTargets
<1>1. ASSUME NEW e \in PlainTargets \ {<<"button", "Upload">>}
      PROVE  e \notin {<<"link", "Start">>, <<"button", "Upload">>, <<"ok", "upload">>} /\ e[1] # "field"
  <2>1. CASE e[1] \in {"button", "notification", "cancel", "row"}
    BY <2>1
  <2>2. CASE e \in {<<"ok", "poweroff">>, <<"ok", "runonce">>}
    BY <2>2
  <2>3. CASE e[1] = "link" /\ e[2] \in {"Power Off", "Run Once", "username", "password", "logo", "Home", "menu"}
    <3>1. e[2] # "Start" /\ e[1] \notin {"button", "ok", "field"}
      BY <2>3
    <3> QED
      BY <3>1
  <2> QED
    BY <2>1, <2>2, <2>3 DEF PlainTargets
<1>2. PlainTargets \ {<<"button", "Upload">>} \subseteq SafeTargets
  BY <1>1 DEF SafeTargets, PlainTargets
<1> QED
  BY <1>2 DEF PlainSteps, PlainStep, Harmless, ClickOps
LEMMA SeqElements == ASSUME NEW S, NEW s \in Seq(S) PROVE \A i \in 1 .. Len(s) : s[i] \in S
  OBVIOUS
LEMMA SeqIn == ASSUME NEW S, NEW T, S \subseteq T, NEW s \in Seq(S) PROVE s \in Seq(T)
  OBVIOUS

LEMMA NameFacts ==
    /\ Views \cup Dialogs \cup AllButtons \cup Fields \subseteq Names
    /\ \A v \in Views : Links(v) \subseteq Names
    /\ Words \subseteq Names
    /\ \A v \in ListViews \cup VmViews : Buttons(v) \subseteq AllButtons
<1>1. Views \cup Dialogs \cup AllButtons \cup Fields \subseteq Names
  BY DEF Names
<1>2. \A v \in Views : Links(v) \subseteq Names
  BY DEF Names
<1>3. Words \subseteq Names
  BY DEF Names
<1>4. \A v \in ListViews \cup VmViews : Buttons(v) \subseteq AllButtons
  BY Zenon DEF AllButtons
<1> QED
  BY <1>1, <1>2, <1>3, <1>4

LEMMA ALook == ASSUME NEW k \in LookKinds, NEW e \in Targets, NEW r \in BOOLEAN PROVE Look(k, e, r) \in Looks
  BY DEF Look, Looks
LEMMA AQuestion == ASSUME NEW k \in LookKinds \ {"click"}, NEW e \in Targets, NEW r \in BOOLEAN PROVE Look(k, e, r) \in Questions
  BY DEF Look, Looks, Questions
LEMMA ClickKind == "click" \in LookKinds /\ "shown" \in LookKinds
  BY DEF LookKinds

LEMMA Anchors == ASSUME NEW v \in ListViews \cup {"dashboard"} PROVE <<"anchor", v>> \in Targets
  BY NameFacts DEF Targets, TargetKinds, Views, WebAdmin
LEMMA FieldTargets == ASSUME NEW f \in Fields PROVE <<"field", f>> \in Targets
  BY NameFacts DEF Targets, TargetKinds
LEMMA OtherTargets ==
    ASSUME NEW a \in TargetKinds \ {"anchor", "field"}, NEW b \in Names PROVE <<a, b>> \in Targets
  BY DEF Targets

LEMMA AConditionStep ==
    ASSUME NEW op \in {"until", "while", "read", "if"}, NEW at \in SUBSET Views, NEW looks \in Seq(Questions), Len(looks) > 0
    PROVE  Step(op, at, looks) \in PlainSteps(at)
  BY DEF Step, Steps, PlainSteps, PlainStep, SilentOps, ClickOps, LookOps, InFrame, Questions

LEMMA OneQuestion ==
    ASSUME NEW op \in {"until", "while", "read", "if"}, NEW at \in SUBSET Views, NEW l \in Questions
    PROVE  Step(op, at, <<l>>) \in PlainSteps(at)
<1>1. <<l>> \in Seq(Questions) /\ Len(<<l>>) > 0
  OBVIOUS
<1> DEFINE looks == <<l>>
<1> HIDE DEF looks
<1>2. looks \in Seq(Questions) /\ Len(looks) > 0
  BY <1>1 DEF looks
<1>3. Step(op, at, looks) \in PlainSteps(at)
  BY <1>2, AConditionStep
<1> QED
  BY <1>3 DEF looks
LEMMA TwoQuestions ==
    ASSUME NEW op \in {"until", "while", "read", "if"}, NEW at \in SUBSET Views, NEW l \in Questions, NEW m \in Questions
    PROVE  Step(op, at, <<l, m>>) \in PlainSteps(at)
<1>1. <<l, m>> \in Seq(Questions) /\ Len(<<l, m>>) > 0
  OBVIOUS
<1> DEFINE looks == <<l, m>>
<1> HIDE DEF looks
<1>2. looks \in Seq(Questions) /\ Len(looks) > 0
  BY <1>1 DEF looks
<1>3. Step(op, at, looks) \in PlainSteps(at)
  BY <1>2, AConditionStep
<1> QED
  BY <1>3 DEF looks

LEMMA AClickStep ==
    ASSUME NEW at \in SUBSET Views, NEW e \in Targets, NEW r \in BOOLEAN
    PROVE  /\ Step("click", at, <<Look("click", e, r)>>) \in Steps
           /\ e \in SafeTargets => Step("click", at, <<Look("click", e, r)>>) \in Harmless
           /\ e \in PlainTargets \ {<<"button", "Upload">>} /\ e[1] # "row" =>
                  Step("click", at, <<Look("click", e, r)>>) \in PlainSteps(at)
<1>1. Look("click", e, r) \in Looks
  BY ALook, ClickKind
<1> QED
  BY <1>1 DEF Step, Look, Steps, Harmless, PlainSteps, PlainStep, SilentOps, ClickOps, LookOps, InFrame

LEMMA APersistentStep ==
    ASSUME NEW op \in {"hover", "id_click", "action", "wait_for_id"}, NEW at \in SUBSET Views, NEW e \in Targets,
           op = "hover" => e[2] \in {"compute", "storage"}
    PROVE  /\ Persistent(op, at, e) \in Steps
           /\ op = "hover" /\ e \in SafeTargets => Persistent(op, at, e) \in Harmless
<1>1. Look("click", e, FALSE) \in Looks
  BY ALook, ClickKind
<1> QED
  BY <1>1 DEF Persistent, Step, Look, Steps, Harmless, SilentOps, ClickOps, LookOps, InFrame

LEMMA ValueOfStep ==
    ASSUME NEW a, NEW b, NEW c, NEW d, NEW w
    PROVE  [[op |-> a, at |-> b, looks |-> c, value |-> d] EXCEPT !.value = w]
               = [op |-> a, at |-> b, looks |-> c, value |-> w]
  OBVIOUS

LEMMA APickStep ==
    ASSUME NEW v \in ListViews, NEW which \in Picks
    PROVE  [Click({v}, <<"row", v>>) EXCEPT !.value = <<which>>] \in PlainSteps({v})
<1>1. <<"row", v>> \in Targets
  BY OtherTargets, NameFacts DEF Views, WebAdmin, TargetKinds
<1>2. Look("click", <<"row", v>>, TRUE) \in Looks
  BY <1>1, ALook, ClickKind
<1>3. {v} \in SUBSET Views
  BY DEF Views, WebAdmin
<1>4. [Click({v}, <<"row", v>>) EXCEPT !.value = <<which>>]
          = [op |-> "click", at |-> {v}, looks |-> <<Look("click", <<"row", v>>, TRUE)>>, value |-> <<which>>]
  BY ValueOfStep DEF Click, Step
<1>5. <<which>> \in Seq(Picks) /\ <<which>> # << >>
  OBVIOUS
<1> DEFINE st == [op |-> "click", at |-> {v}, looks |-> <<Look("click", <<"row", v>>, TRUE)>>, value |-> <<which>>]
<1>6. st \in Steps
  BY <1>2, <1>3, <1>5 DEF Look, Steps, SilentOps, ClickOps, LookOps, InFrame
<1>7. PlainStep(st)
  BY <1>1, <1>5 DEF Look, PlainStep, PlainTargets
<1> QED
  BY <1>4, <1>6, <1>7 DEF PlainSteps

LEMMA ASilentStep == ASSUME NEW op \in SilentOps PROVE Step(op, Views, << >>) \in Harmless
  BY DEF Step, Steps, Harmless, SilentOps, ClickOps, LookOps, InFrame

LEMMA AFrameStep == ASSUME NEW op \in {"frame_until", "frame_read"} PROVE Dashboard(op) \in Harmless
<1>1. Look("shown", <<"page", "dashboard">>, FALSE) \in Looks
  BY ALook, ClickKind, OtherTargets, NameFacts DEF Views, WebAdmin, TargetKinds
<1> QED
  BY <1>1 DEF Dashboard, Step, Look, Steps, Harmless, SilentOps, ClickOps, LookOps, InFrame, Views, WebAdmin

-----------------------------------------------------------------------------
(* Scripts.                                                                 *)

\* a look at one element, of which one is shown, enabled, present or read
LEMMA ATarget ==
    ASSUME NEW a \in TargetKinds, NEW b \in Names,
           a = "anchor" => b \in ListViews \cup {"dashboard"}, a = "field" => b \in Fields
    PROVE  <<a, b>> \in Targets
  BY DEF Targets

LEMMA ListTargets ==
    ASSUME NEW v \in ListViews
    PROVE  /\ {<<"page", v>>, <<"row", v>>, <<"anchor", v>>} \subseteq Targets
           /\ {v} \in SUBSET Views /\ WebAdmin \in SUBSET Views
<1>1. v \in Names
  BY NameFacts DEF Views, WebAdmin
<1>2. {"page", "row"} \subseteq TargetKinds \ {"anchor", "field"}
  BY DEF TargetKinds
<1> QED
  BY <1>1, <1>2, OtherTargets, Anchors DEF Views, WebAdmin

LEMMA SomeButton == ASSUME NEW v \in ListViews PROVE (CHOOSE b \in Buttons(v) : TRUE) \in Buttons(v)
<1>1. \E b \in Buttons(v) : TRUE
  BY DEF ListViews, Buttons, ClusterButtons, HostButtons, TemplateButtons, PoolButtons, VmButtons, StorageDomainButtons, DiskButtons
<1> QED
  BY <1>1, Zenon

LEMMA ButtonsStep ==
    ASSUME NEW v \in ListViews, NEW texts \in SUBSET AllButtons
    PROVE  ButtonsAre(v, texts) \in PlainSteps({v})
<1> DEFINE button == <<"button", CHOOSE b \in Buttons(v) : TRUE>>
           l == [k |-> "buttons", e |-> button, r |-> TRUE, texts |-> texts]
<1>1. button \in Targets
  BY SomeButton, NameFacts, ATarget DEF TargetKinds
<1>2. l \in Questions
  BY <1>1 DEF Looks, LookKinds, Questions
<1> HIDE DEF l
<1>4. Step("read", {v}, <<l>>) \in PlainSteps({v})
  BY <1>2, OneQuestion, ListTargets
<1> QED
  BY <1>4 DEF ButtonsAre, Read, l

LEMMA EntitiesStep == ASSUME NEW v \in ListViews PROVE GetEntities(v) \in PlainSteps({v})
<1> DEFINE l == Look("entities", <<"row", v>>, TRUE)
<1>1. l \in Questions
  BY ListTargets, AQuestion DEF LookKinds, FindAll
<1> HIDE DEF l
<1>2. Step("read", {v}, <<l>>) \in PlainSteps({v})
  BY <1>1, OneQuestion, ListTargets
<1> QED
  BY <1>2 DEF GetEntities, Read, l

LEMMA SelectSteps ==
    ASSUME NEW v \in ListViews, NEW which \in Picks
    PROVE  SelectEntity(v, which) \in Seq(PlainSteps({v})) /\ Len(SelectEntity(v, which)) = 2
  BY EntitiesStep, APickStep, Two DEF SelectEntity

LEMMA CheckSteps ==
    ASSUME NEW v \in ListViews, NEW a \in SUBSET AllButtons, NEW b \in SUBSET AllButtons
    PROVE  CheckList(v, a, b) \in Seq(PlainSteps({v})) /\ Len(CheckList(v, a, b)) = 5
<1>1. "first" \in Picks
  BY DEF Picks
<1>2. <<GetEntities(v), ButtonsAre(v, a)>> \in Seq(PlainSteps({v})) /\ <<ButtonsAre(v, b)>> \in Seq(PlainSteps({v}))
  BY EntitiesStep, ButtonsStep, One, Two
<1> DEFINE p == <<GetEntities(v), ButtonsAre(v, a)>>
           q == SelectEntity(v, "first")
           r == <<ButtonsAre(v, b)>>
<1>3. p \in Seq(PlainSteps({v})) /\ q \in Seq(PlainSteps({v})) /\ r \in Seq(PlainSteps({v}))
  BY <1>1, <1>2, SelectSteps
<1>4. Len(p) = 2 /\ Len(q) = 2 /\ Len(r) = 1
  BY <1>1, SelectSteps
<1> HIDE DEF p, q, r
<1> DEFINE pq == p \o q
           pqr == pq \o r
<1>5. JoinedAs(pq, p, q) /\ pq \in Seq(PlainSteps({v}))
  BY <1>3, Joined
<1> HIDE DEF pq
<1>6. JoinedAs(pqr, pq, r) /\ pqr \in Seq(PlainSteps({v}))
  BY <1>3, <1>5, Joined
<1>7. pqr = CheckList(v, a, b)
  BY DEF CheckList, pq, p, q, r
<1> HIDE DEF pqr
<1>8. Len(pqr) = 5
  BY <1>4, <1>5, <1>6 DEF JoinedAs
<1> QED
  BY <1>6, <1>7, <1>8

\* is_..._displayed, is_..._enabled, click
LEMMA WaitAndClickSteps ==
    ASSUME NEW at \in SUBSET Views, NEW e \in SafeTargets
    PROVE  LET w == XpathWaitAndClick(at, e) IN
           /\ w \in Seq(Harmless) /\ Len(w) = 3
           /\ {w[1], w[2]} \subseteq PlainSteps(at) /\ w[1].op = "until" /\ w[2].op = "until"
           /\ w[3] = Click(at, e)
           /\ e \in PlainTargets \ {<<"button", "Upload">>} /\ e[1] # "row" => w \in Seq(PlainSteps(at))
<1> DEFINE shown == Look("shown", e, TRUE)
           enabled == Look("enabled", e, TRUE)
<1>1. shown \in Questions /\ enabled \in Questions
  BY AQuestion DEF LookKinds, SafeTargets
<1> HIDE DEF shown, enabled
<1>2. Until(at, <<shown>>) \in PlainSteps(at) /\ Until(at, <<enabled>>) \in PlainSteps(at)
  BY <1>1, OneQuestion DEF Until
<1>3. /\ Click(at, e) \in Harmless
      /\ e \in PlainTargets \ {<<"button", "Upload">>} /\ e[1] # "row" => Click(at, e) \in PlainSteps(at)
  BY AClickStep DEF Click, SafeTargets
<1>4. PlainSteps(at) \subseteq Harmless
  BY PlainIsHarmless
<1> DEFINE a == Until(at, <<shown>>)
           b == Until(at, <<enabled>>)
           c == Click(at, e)
<1>5. XpathWaitAndClick(at, e) = <<a, b, c>> /\ a.op = "until" /\ b.op = "until"
  BY DEF XpathWaitAndClick, Until, Step, shown, enabled
<1>6. a \in PlainSteps(at) /\ b \in PlainSteps(at) /\ c \in Harmless /\ a \in Harmless /\ b \in Harmless
  BY <1>2, <1>3, <1>4
<1> HIDE DEF a, b
<1>7. /\ <<a, b, c>> \in Seq(Harmless) /\ Len(<<a, b, c>>) = 3 /\ <<a, b, c>>[1] = a /\ <<a, b, c>>[2] = b
      /\ <<a, b, c>>[3] = Click(at, e)
  BY <1>6, Three
<1>8. e \in PlainTargets \ {<<"button", "Upload">>} /\ e[1] # "row" => <<a, b, c>> \in Seq(PlainSteps(at))
  BY <1>3, <1>6, Three
<1> QED
  BY <1>5, <1>6, <1>7, <1>8

\* OpenList, and the two looks of is_displayed
LEMMA OpenListSteps ==
    ASSUME NEW v \in ListViews, NEW group \in {"compute", "storage"}
    PROVE  LET o == OpenList(group, v) IN
           /\ o \in Seq(Harmless) /\ Len(o) = 5
           /\ o[1] = Persistent("hover", WebAdmin, <<"menu", group>>)
           /\ {o[2], o[3]} \subseteq PlainSteps(WebAdmin) /\ o[2].op = "until" /\ o[3].op = "until"
           /\ o[4] = Click(WebAdmin, <<"anchor", v>>)
           /\ o[5] = Until({v}, ListDisplayed(v))
<1>1. <<"menu", group>> \in SafeTargets /\ <<"anchor", v>> \in SafeTargets
  BY NameFacts, ATarget, ListTargets DEF TargetKinds, Words, SafeTargets
<1>2. Persistent("hover", WebAdmin, <<"menu", group>>) \in Harmless
  BY <1>1, APersistentStep, ListTargets DEF SafeTargets
<1>3. Until({v}, ListDisplayed(v)) \in Harmless
  <2> DEFINE crumbs == Look("crumbs", <<"page", v>>, TRUE)
             rows == Look("rows", <<"row", v>>, TRUE)
  <2>1. crumbs \in Questions /\ rows \in Questions
    BY ListTargets, AQuestion DEF LookKinds, FindAll, FindOnly
  <2> QED
    BY <2>1, TwoQuestions, ListTargets, PlainIsHarmless DEF Until, ListDisplayed
<1> DEFINE w == XpathWaitAndClick(WebAdmin, <<"anchor", v>>)
           h == <<Persistent("hover", WebAdmin, <<"menu", group>>)>>
           u == <<Until({v}, ListDisplayed(v))>>
<1>4. /\ Len(w) = 3
      /\ {w[1], w[2]} \subseteq PlainSteps(WebAdmin) /\ w[1].op = "until" /\ w[2].op = "until"
      /\ w[3] = Click(WebAdmin, <<"anchor", v>>)
  BY <1>1, WaitAndClickSteps, ListTargets
<1>5. /\ Len(h) = 1 /\ h[1] = Persistent("hover", WebAdmin, <<"menu", group>>)
      /\ Len(u) = 1 /\ u[1] = Until({v}, ListDisplayed(v))
  OBVIOUS
<1>6. w \in Seq(Harmless) /\ h \in Seq(Harmless) /\ u \in Seq(Harmless)
  <2>1. w \in Seq(Harmless)
    BY <1>1, WaitAndClickSteps, ListTargets
  <2>2. h \in Seq(Harmless) /\ u \in Seq(Harmless)
    BY <1>2, <1>3, One
  <2> QED
    BY <2>1, <2>2
<1> HIDE DEF w, h, u
<1> DEFINE hw == h \o w
           o == hw \o u
<1>7. JoinedAs(hw, h, w) /\ hw \in Seq(Harmless)
  BY <1>6, Joined
<1> HIDE DEF hw
<1>8. JoinedAs(o, hw, u) /\ o \in Seq(Harmless)
  BY <1>6, <1>7, Joined
<1>9. o = OpenList(group, v)
  BY DEF OpenList, hw, h, w, u
<1> HIDE DEF o
<1>10. Len(hw) = 4 /\ hw[1] = h[1] /\ hw[2] = w[1] /\ hw[3] = w[2] /\ hw[4] = w[3]
  BY <1>4, <1>5, <1>7 DEF JoinedAs
<1>11. Len(o) = 5 /\ o[1] = hw[1] /\ o[2] = hw[2] /\ o[3] = hw[3] /\ o[4] = hw[4] /\ o[5] = u[1]
  BY <1>5, <1>8, <1>10 DEF JoinedAs
<1> QED
  BY <1>4, <1>5, <1>8, <1>9, <1>10, <1>11


LEMMA AnyTarget ==
    /\ \A b \in {"Shutdown", "Run", "Upload", "Manage vGPU"} : <<"button", b>> \in Targets
    /\ \A v \in Views : \A n \in Links(v) : <<"link", n>> \in Targets
    /\ \A v \in Views : <<"page", v>> \in Targets
    /\ \A m \in {"left", "nav", "compute", "storage", "user", "logout"} : <<"menu", m>> \in Targets
    /\ \A d \in Dialogs : {<<"dialog", d>>, <<"ok", d>>, <<"cancel", d>>} \subseteq Targets
    /\ <<"notification", "x">> \in Targets /\ <<"alert", "error">> \in Targets /\ <<"link", "Host Devices">> \in Targets
<1>1. {"button", "link", "page", "menu", "dialog", "ok", "cancel", "notification", "alert"} \subseteq TargetKinds \ {"anchor", "field"}
  BY DEF TargetKinds
<1>2. {"Shutdown", "Run", "Upload", "Manage vGPU"} \subseteq AllButtons
  <2>1. {"Shutdown", "Run", "Manage vGPU"} \subseteq Buttons("vm_devices") /\ "Upload" \in Buttons("disks")
    BY DEF Buttons, DiskButtons
  <2> QED
    BY <2>1, NameFacts DEF ListViews, VmViews
<1>3. {"left", "nav", "compute", "storage", "user", "logout", "x", "error", "Host Devices"} \subseteq Names
  BY NameFacts DEF Words
<1> QED
  BY <1>1, <1>2, <1>3, NameFacts, OtherTargets

LEMMA CloseSteps ==
    ASSUME NEW at \in SUBSET Views
    PROVE  CloseNotification(at) \in Seq(PlainSteps(at)) /\ Len(CloseNotification(at)) = 3
<1> DEFINE n == <<"notification", "x">>
           present == Look("present", n, TRUE)
           shown == Look("shown", n, TRUE)
           a == Step("if", at, <<present, shown>>)
           b == Click(at, n)
           c == While(at, <<shown>>)
<1>1. present \in Questions /\ shown \in Questions
  BY AnyTarget, AQuestion DEF LookKinds, FindOnly
<1>2. n \in PlainTargets \ {<<"button", "Upload">>} /\ n[1] # "row" /\ n \in Targets
  BY AnyTarget DEF PlainTargets
<1>3. a \in PlainSteps(at) /\ c \in PlainSteps(at)
  BY <1>1, OneQuestion, TwoQuestions DEF While
<1>4. b \in PlainSteps(at)
  BY <1>2, AClickStep DEF Click
<1>5. CloseNotification(at) = <<a, b, c>>
  BY DEF CloseNotification
<1> QED
  BY <1>3, <1>4, <1>5, Three

LEMMA ChooseSteps ==
    ASSUME NEW at \in SUBSET Views, NEW b \in {"Shutdown", "Run"}, NEW i \in {"Power Off", "Run Once"}
    PROVE  Choose(at, b, i) \in Seq(PlainSteps(at)) /\ Len(Choose(at, b, i)) = 2
<1>1. <<"button", b>> \in PlainTargets \ {<<"button", "Upload">>} /\ <<"button", b>> \in Targets
  BY AnyTarget DEF PlainTargets
<1>2. "vms" \in Views /\ i \in Links("vms")
  <2>1. "vms" \in Views
    BY DEF Views, WebAdmin, ListViews
  <2>2. Links("vms") = {"Power Off", "Run Once"}
    BY DEF Links, Grafana
  <2> QED
    BY <2>1, <2>2
<1>3. <<"link", i>> \in PlainTargets \ {<<"button", "Upload">>} /\ <<"link", i>> \in Targets
  BY <1>2, AnyTarget DEF PlainTargets
<1>4. Click(at, <<"button", b>>) \in PlainSteps(at) /\ Click(at, <<"link", i>>) \in PlainSteps(at)
  BY <1>1, <1>3, AClickStep DEF Click
<1> QED
  BY <1>4, Two DEF Choose

LEMMA DialogSteps ==
    ASSUME NEW at \in SUBSET Views, NEW d \in {"poweroff", "runonce"}
    PROVE  /\ XpathWaitAndClick(at, <<"ok", d>>) \in Seq(PlainSteps(at))
           /\ Len(XpathWaitAndClick(at, <<"ok", d>>)) = 3
<1>1. <<"ok", d>> \in PlainTargets \ {<<"button", "Upload">>} /\ <<"ok", d>> \in Targets
  BY AnyTarget DEF PlainTargets, Dialogs
<1> QED
  BY <1>1, WaitAndClickSteps, PlainIsHarmless

LEMMA ButtonWaits ==
    ASSUME NEW at \in SUBSET Views, NEW b \in {"Shutdown", "Run"}
    PROVE  While(at, <<Look("enabled", <<"button", b>>, TRUE)>>) \in PlainSteps(at)
<1>1. Look("enabled", <<"button", b>>, TRUE) \in Questions
  BY AnyTarget, AQuestion DEF LookKinds
<1> QED
  BY <1>1, OneQuestion DEF While


LEMMA PoweroffSteps == Poweroff \in Seq(PlainSteps({"vms"})) /\ Len(Poweroff) = 12
<1>1. {"vms"} \in SUBSET Views
  BY DEF Views, WebAdmin, ListViews, VmViews
<1> DEFINE p1 == CloseNotification({"vms"})
           p2 == Choose({"vms"}, "Shutdown", "Power Off")
           p3 == XpathWaitAndClick({"vms"}, <<"ok", "poweroff">>)
           p4 == CloseNotification({"vms"})
           p5 == <<While({"vms"}, <<Look("enabled", <<"button", "Shutdown">>, TRUE)>>)>>
<1>2. p1 \in Seq(PlainSteps({"vms"})) /\ p2 \in Seq(PlainSteps({"vms"})) /\ p3 \in Seq(PlainSteps({"vms"})) /\ p4 \in Seq(PlainSteps({"vms"})) /\ p5 \in Seq(PlainSteps({"vms"}))
  BY <1>1, CloseSteps, ChooseSteps, DialogSteps, ButtonWaits, One
<1>3. Len(p1) = 3 /\ Len(p2) = 2 /\ Len(p3) = 3 /\ Len(p4) = 3 /\ Len(p5) = 1
  BY <1>1, CloseSteps, ChooseSteps, DialogSteps
<1> HIDE DEF p1, p2, p3, p4, p5
<1> DEFINE c2 == p1 \o p2
<1>4. JoinedAs(c2, p1, p2) /\ c2 \in Seq(PlainSteps({"vms"}))
  BY <1>2, Joined
<1> HIDE DEF c2
<1> DEFINE c3 == c2 \o p3
<1>5. JoinedAs(c3, c2, p3) /\ c3 \in Seq(PlainSteps({"vms"}))
  BY <1>2, <1>4, Joined
<1> HIDE DEF c3
<1> DEFINE c4 == c3 \o p4
<1>6. JoinedAs(c4, c3, p4) /\ c4 \in Seq(PlainSteps({"vms"}))
  BY <1>2, <1>5, Joined
<1> HIDE DEF c4
<1> DEFINE c5 == c4 \o p5
<1>7. JoinedAs(c5, c4, p5) /\ c5 \in Seq(PlainSteps({"vms"}))
  BY <1>2, <1>6, Joined
<1> HIDE DEF c5
<1>8. Poweroff = c5
  BY DEF Poweroff, p1, p2, p3, p4, p5, c2, c3, c4, c5
<1>9. Len(c5) = 12
  BY <1>3, <1>4, <1>5, <1>6, <1>7 DEF JoinedAs
<1> QED
  BY <1>7, <1>8, <1>9

LEMMA RunOnceSteps == RunOnce \in Seq(PlainSteps({"vm"})) /\ Len(RunOnce) = 9
<1>1. {"vm"} \in SUBSET Views
  BY DEF Views, WebAdmin, ListViews, VmViews
<1> DEFINE p1 == CloseNotification({"vm"})
           p2 == Choose({"vm"}, "Run", "Run Once")
           p3 == XpathWaitAndClick({"vm"}, <<"ok", "runonce">>)
           p4 == <<While({"vm"}, <<Look("enabled", <<"button", "Run">>, TRUE)>>)>>
<1>2. p1 \in Seq(PlainSteps({"vm"})) /\ p2 \in Seq(PlainSteps({"vm"})) /\ p3 \in Seq(PlainSteps({"vm"})) /\ p4 \in Seq(PlainSteps({"vm"}))
  BY <1>1, CloseSteps, ChooseSteps, DialogSteps, ButtonWaits, One
<1>3. Len(p1) = 3 /\ Len(p2) = 2 /\ Len(p3) = 3 /\ Len(p4) = 1
  BY <1>1, CloseSteps, ChooseSteps, DialogSteps
<1> HIDE DEF p1, p2, p3, p4
<1> DEFINE c2 == p1 \o p2
<1>4. JoinedAs(c2, p1, p2) /\ c2 \in Seq(PlainSteps({"vm"}))
  BY <1>2, Joined
<1> HIDE DEF c2
<1> DEFINE c3 == c2 \o p3
<1>5. JoinedAs(c3, c2, p3) /\ c3 \in Seq(PlainSteps({"vm"}))
  BY <1>2, <1>4, Joined
<1> HIDE DEF c3
<1> DEFINE c4 == c3 \o p4
<1>6. JoinedAs(c4, c3, p4) /\ c4 \in Seq(PlainSteps({"vm"}))
  BY <1>2, <1>5, Joined
<1> HIDE DEF c4
<1>7. RunOnce = c4
  BY DEF RunOnce, p1, p2, p3, p4, c2, c3, c4
<1>8. Len(c4) = 9
  BY <1>3, <1>4, <1>5, <1>6 DEF JoinedAs
<1> QED
  BY <1>6, <1>7, <1>8


-----------------------------------------------------------------------------
(* The scripts of the tests.                                                *)

\* the list view v is opened by the five steps after step n
OpenedAt(v, n, sc) ==
    /\ sc[n + 1].op = "hover" /\ sc[n + 2].op = "until" /\ sc[n + 3].op = "until"
    /\ sc[n + 4] = Click(WebAdmin, <<"anchor", v>>)
    /\ sc[n + 5] = Until({v}, ListDisplayed(v))
ListShape(v, sc) ==
    /\ sc \in Seq(Harmless) /\ Len(sc) >= 5 /\ OpenedAt(v, 0, sc)
    /\ \A i \in 6 .. Len(sc) : sc[i] \in PlainSteps({v})

LEMMA OpenIsList ==
    ASSUME NEW v \in ListViews, NEW group \in {"compute", "storage"}
    PROVE  ListShape(v, OpenList(group, v)) /\ Len(OpenList(group, v)) = 5
<1>1. Persistent("hover", WebAdmin, <<"menu", group>>).op = "hover"
  BY DEF Persistent, Step
<1> DEFINE o == OpenList(group, v)
<1>2. /\ o \in Seq(Harmless) /\ Len(o) = 5
      /\ o[1] = Persistent("hover", WebAdmin, <<"menu", group>>) /\ o[2].op = "until" /\ o[3].op = "until"
      /\ o[4] = Click(WebAdmin, <<"anchor", v>>) /\ o[5] = Until({v}, ListDisplayed(v))
  BY OpenListSteps
<1> HIDE DEF o
<1>3. OpenedAt(v, 0, o)
  BY <1>1, <1>2 DEF OpenedAt
<1> QED
  BY <1>2, <1>3 DEF ListShape, o

LEMMA ListExtends ==
    ASSUME NEW v, NEW sc, ListShape(v, sc), NEW more \in Seq(PlainSteps({v}))
    PROVE  ListShape(v, sc \o more) /\ Len(sc \o more) = Len(sc) + Len(more)
<1>1. more \in Seq(Harmless) /\ sc \in Seq(Harmless)
  BY PlainIsHarmless, SeqIn DEF ListShape
<1> DEFINE x == sc \o more
<1>2. JoinedAs(x, sc, more) /\ x \in Seq(Harmless)
  BY <1>1, Joined
<1> HIDE DEF x
<1>3. Len(sc) \in Nat /\ Len(more) \in Nat /\ \A i \in 1 .. Len(more) : more[i] \in PlainSteps({v})
  BY <1>1
<1>4. Len(x) = Len(sc) + Len(more) /\ Len(x) >= 5
  BY <1>2, <1>3 DEF JoinedAs, ListShape
<1>5. \A i \in 1 .. 5 : x[i] = sc[i]
  BY <1>2, <1>3 DEF JoinedAs, ListShape
<1>6. \A i \in 6 .. Len(x) : x[i] \in PlainSteps({v})
  <2> SUFFICES ASSUME NEW i \in 6 .. Len(x) PROVE x[i] \in PlainSteps({v})
    OBVIOUS
  <2>1. CASE i <= Len(sc)
    <3>1. i \in 6 .. Len(sc) /\ x[i] = sc[i]
      BY <2>1, <1>2, <1>3, <1>4 DEF JoinedAs
    <3> QED
      BY <3>1 DEF ListShape
  <2>2. CASE i > Len(sc)
    <3>1. i - Len(sc) \in 1 .. Len(more) /\ x[i] = more[i - Len(sc)]
      BY <2>2, <1>2, <1>3, <1>4 DEF JoinedAs
    <3> QED
      BY <3>1, <1>3
  <2> QED
    BY <2>1, <2>2, <1>3, <1>4
<1>7. OpenedAt(v, 0, x)
  BY <1>5 DEF ListShape, OpenedAt
<1> QED
  BY <1>2, <1>4, <1>6, <1>7 DEF ListShape, x

LEMMA ListScripts ==
    ASSUME NEW t \in ListTests \ {"disks"}
    PROVE  ListShape(t, Script[t])
<1>0. ListTests = ListViews \ {"vms"}
  BY DEF ListTests, ListViews
<1>1. CASE t = "clusters"
  <2> DEFINE a == <<GetEntities("clusters")>>
             b == SelectEntity("clusters", "first")
             c == <<ButtonsAre("clusters", {"New", "Edit", "Upgrade"})>>
  <2>1. a \in Seq(PlainSteps({"clusters"})) /\ b \in Seq(PlainSteps({"clusters"})) /\ c \in Seq(PlainSteps({"clusters"}))
    <3>1. "clusters" \in ListViews /\ "first" \in Picks /\ {"New", "Edit", "Upgrade"} = Buttons("clusters")
      BY DEF ListViews, Picks, Buttons, ClusterButtons
    <3>2. {"New", "Edit", "Upgrade"} \in SUBSET AllButtons
      BY <3>1, NameFacts
    <3> QED
      BY <3>1, <3>2, EntitiesStep, SelectSteps, ButtonsStep, One
  <2>2. Script["clusters"] = ((OpenList("compute", "clusters") \o a) \o b) \o c
    BY DEF Script
  <2> HIDE DEF a, b, c
  <2>3. ListShape("clusters", OpenList("compute", "clusters"))
    BY OpenIsList DEF ListViews
  <2>4. ListShape("clusters", OpenList("compute", "clusters") \o a)
    BY <2>1, <2>3, ListExtends
  <2>5. ListShape("clusters", (OpenList("compute", "clusters") \o a) \o b)
    BY <2>1, <2>4, ListExtends
  <2>6. ListShape("clusters", ((OpenList("compute", "clusters") \o a) \o b) \o c)
    BY <2>1, <2>5, ListExtends
  <2> QED
    BY <1>1, <2>2, <2>6
<1>2. CASE t = "hosts"
  <2> DEFINE a == CheckList("hosts", {"New"}, {"New", "Edit", "Management", "Installation", "Host Console"})
  <2>1. a \in Seq(PlainSteps({"hosts"}))
    <3>1. /\ "hosts" \in ListViews
          /\ {"New"} \subseteq Buttons("hosts") /\ {"New", "Edit", "Management", "Installation", "Host Console"} \subseteq Buttons("hosts")
      BY DEF ListViews, Buttons, HostButtons
    <3> QED
      BY <3>1, NameFacts, CheckSteps
  <2>2. Script["hosts"] = OpenList("compute", "hosts") \o a
    BY DEF Script
  <2> HIDE DEF a
  <2>3. ListShape("hosts", OpenList("compute", "hosts"))
    BY OpenIsList DEF ListViews
  <2> QED
    BY <1>2, <2>1, <2>2, <2>3, ListExtends
<1>3. CASE t = "templates"
  <2> DEFINE a == CheckList("templates", {"Import"}, {"New VM", "Import", "Edit"})
             b == SelectEntity("templates", "second")
             c == <<ButtonsAre("templates", {"New VM", "Import", "Edit", "Remove", "Export"})>>
  <2>1. a \in Seq(PlainSteps({"templates"})) /\ b \in Seq(PlainSteps({"templates"})) /\ c \in Seq(PlainSteps({"templates"}))
    <3>1. /\ "templates" \in ListViews /\ "second" \in Picks
          /\ {"Import"} \subseteq Buttons("templates") /\ {"New VM", "Import", "Edit"} \subseteq Buttons("templates")
          /\ {"New VM", "Import", "Edit", "Remove", "Export"} \subseteq Buttons("templates")
      BY DEF ListViews, Picks, Buttons, TemplateButtons
    <3>2. ButtonsAre("templates", {"New VM", "Import", "Edit", "Remove", "Export"}) \in PlainSteps({"templates"})
      BY <3>1, NameFacts, ButtonsStep
    <3>3. a \in Seq(PlainSteps({"templates"}))
      BY <3>1, NameFacts, CheckSteps
    <3> QED
      BY <3>1, <3>2, <3>3, SelectSteps, One
  <2>2. Script["templates"] = ((OpenList("compute", "templates") \o a) \o b) \o c
    BY DEF Script
  <2> HIDE DEF a, b, c
  <2>3. ListShape("templates", OpenList("compute", "templates"))
    BY OpenIsList DEF ListViews
  <2>4. ListShape("templates", OpenList("compute", "templates") \o a)
    BY <2>1, <2>3, ListExtends
  <2>5. ListShape("templates", (OpenList("compute", "templates") \o a) \o b)
    BY <2>1, <2>4, ListExtends
  <2>6. ListShape("templates", ((OpenList("compute", "templates") \o a) \o b) \o c)
    BY <2>1, <2>5, ListExtends
  <2> QED
    BY <1>3, <2>2, <2>6
<1>4. CASE t = "pools"
  <2> DEFINE l == Look("no_entities", <<"row", "pools">>, TRUE)
             a == <<Read({"pools"}, <<l>>), ButtonsAre("pools", {"New"})>>
  <2>1. a \in Seq(PlainSteps({"pools"}))
    <3>1. "pools" \in ListViews /\ {"New"} \subseteq Buttons("pools")
      BY DEF ListViews, Buttons, PoolButtons
    <3>2. ButtonsAre("pools", {"New"}) \in PlainSteps({"pools"})
      BY <3>1, NameFacts, ButtonsStep
    <3>3. l \in Questions
      BY <3>1, ListTargets, AQuestion DEF LookKinds, FindAll
    <3>4. Read({"pools"}, <<l>>) \in PlainSteps({"pools"})
      BY <3>1, <3>3, ListTargets, OneQuestion DEF Read
    <3> QED
      BY <3>2, <3>4, Two
  <2>2. Script["pools"] = OpenList("compute", "pools") \o a
    BY DEF Script
  <2> HIDE DEF a
  <2>3. ListShape("pools", OpenList("compute", "pools"))
    BY OpenIsList DEF ListViews
  <2> QED
    BY <1>4, <2>1, <2>2, <2>3, ListExtends
<1>5. CASE t = "storage_domains"
  <2> DEFINE a == CheckList("storage_domains", {"New Domain", "Import Domain"}, {"New Domain", "Import Domain", "Manage Domain"})
  <2>1. a \in Seq(PlainSteps({"storage_domains"}))
    <3>1. /\ "storage_domains" \in ListViews
          /\ {"New Domain", "Import Domain"} \subseteq Buttons("storage_domains")
          /\ {"New Domain", "Import Domain", "Manage Domain"} \subseteq Buttons("storage_domains")
      BY DEF ListViews, Buttons, StorageDomainButtons
    <3> QED
      BY <3>1, NameFacts, CheckSteps
  <2>2. Script["storage_domains"] = OpenList("storage", "storage_domains") \o a
    BY DEF Script
  <2> HIDE DEF a
  <2>3. ListShape("storage_domains", OpenList("storage", "storage_domains"))
    BY OpenIsList DEF ListViews
  <2> QED
    BY <1>5, <2>1, <2>2, <2>3, ListExtends
<1> QED
  BY <1>1, <1>2, <1>3, <1>4, <1>5 DEF ListTests

LEMMA DisksScript ==
    LET sc == Script["disks"] IN
    /\ sc \in Seq(Steps) /\ Len(sc) = 16 /\ OpenedAt("disks", 0, sc)
    /\ \A i \in 1 .. 10 : sc[i] \in Harmless
    /\ \A i \in 6 .. 10 : sc[i] \in PlainSteps({"disks"})
    /\ sc[11] = Persistent("id_click", {"disks"}, <<"button", "Upload">>)
    /\ sc[12] = Persistent("action", {"disks"}, <<"link", "Start">>)
    /\ sc[13] = Persistent("action", {"disks"}, <<"field", "file">>)
    /\ sc[14] = Persistent("action", {"disks"}, <<"field", "alias">>)
    /\ sc[15] = Persistent("wait_for_id", {"disks"}, <<"ok", "upload">>)
    /\ sc[16] = Until({"disks"}, <<Look("named", <<"row", "disks">>, TRUE)>>)
<1>1. "disks" \in ListViews /\ {"disks"} \in SUBSET Views /\ "disks" \in Views
  BY DEF ListViews, Views, WebAdmin
<1> DEFINE a == CheckList("disks", {"New", "Upload"}, Buttons("disks"))
<1>2. a \in Seq(PlainSteps({"disks"})) /\ Len(a) = 5
  <2>1. {"New", "Upload"} \subseteq Buttons("disks")
    BY DEF Buttons, DiskButtons
  <2> QED
    BY <1>1, <2>1, NameFacts, CheckSteps
<1>3. Script["disks"] = (OpenList("storage", "disks") \o a) \o Upload
  BY DEF Script
<1> HIDE DEF a
<1> DEFINE o == OpenList("storage", "disks") \o a
<1>4. ListShape("disks", o) /\ Len(o) = 10
  <2>1. ListShape("disks", OpenList("storage", "disks")) /\ Len(OpenList("storage", "disks")) = 5
    BY <1>1, OpenIsList
  <2>2. ListShape("disks", o) /\ Len(o) = Len(OpenList("storage", "disks")) + Len(a)
    BY <1>2, <2>1, ListExtends
  <2> QED
    BY <1>2, <2>1, <2>2
<1>5. o \in Seq(Steps)
  BY <1>4, PlainIsHarmless, SeqIn DEF ListShape
<1>6. \A i \in 1 .. 10 : o[i] \in Harmless
  BY <1>4 DEF ListShape
<1> HIDE DEF o
<1> DEFINE u1 == Persistent("id_click", {"disks"}, <<"button", "Upload">>)
           u2 == Persistent("action", {"disks"}, <<"link", "Start">>)
           u3 == Persistent("action", {"disks"}, <<"field", "file">>)
           u4 == Persistent("action", {"disks"}, <<"field", "alias">>)
           u5 == Persistent("wait_for_id", {"disks"}, <<"ok", "upload">>)
           u6 == Until({"disks"}, <<Look("named", <<"row", "disks">>, TRUE)>>)
<1>7. u1 \in Steps /\ u2 \in Steps /\ u3 \in Steps /\ u4 \in Steps /\ u5 \in Steps /\ u6 \in Steps
  <2>1. <<"button", "Upload">> \in Targets /\ <<"ok", "upload">> \in Targets
    BY AnyTarget DEF Dialogs
  <2>2. <<"link", "Start">> \in Targets
    <3>1. Links("disks") = {"Start"}
      BY DEF Links, Grafana
    <3> QED
      BY <1>1, <3>1, AnyTarget
  <2>3. <<"field", "file">> \in Targets /\ <<"field", "alias">> \in Targets
    BY FieldTargets DEF Fields
  <2>4. Look("named", <<"row", "disks">>, TRUE) \in Questions
    BY <1>1, ListTargets, AQuestion DEF LookKinds, FindAll
  <2>5. u6 \in Steps
    BY <1>1, <2>4, OneQuestion, PlainIsHarmless DEF Until
  <2> QED
    BY <1>1, <2>1, <2>2, <2>3, <2>5, APersistentStep
<1>8. Upload = <<u1, u2, u3, u4, u5, u6>>
  BY DEF Upload
<1> HIDE DEF u1, u2, u3, u4, u5, u6
<1> DEFINE u == <<u1, u2, u3, u4, u5, u6>>
<1>9. u \in Seq(Steps)
  BY <1>7
<1>10. Len(u) = 6 /\ u[1] = u1 /\ u[2] = u2 /\ u[3] = u3 /\ u[4] = u4 /\ u[5] = u5 /\ u[6] = u6
  OBVIOUS
<1> HIDE DEF u
<1> DEFINE x == o \o u
<1>11. JoinedAs(x, o, u) /\ x \in Seq(Steps)
  BY <1>5, <1>9, Joined
<1> HIDE DEF x
<1>12. /\ Len(x) = 16 /\ \A i \in 1 .. 10 : x[i] = o[i]
       /\ x[11] = u[1] /\ x[12] = u[2] /\ x[13] = u[3] /\ x[14] = u[4] /\ x[15] = u[5] /\ x[16] = u[6]
  BY <1>4, <1>10, <1>11 DEF JoinedAs
<1>13. x = Script["disks"]
  BY <1>3, <1>8 DEF x, o, u
<1>14. OpenedAt("disks", 0, x) /\ \A i \in 6 .. 10 : x[i] \in PlainSteps({"disks"})
  BY <1>4, <1>12 DEF ListShape, OpenedAt
<1> QED
  BY <1>6, <1>10, <1>11, <1>12, <1>13, <1>14 DEF u1, u2, u3, u4, u5, u6


LEMMA VmStatusLook == ASSUME NEW texts \in SUBSET VmStates PROVE VmStatus(texts) \in Questions /\ [VmStatus(texts) EXCEPT !.e = <<"page", "portal">>] \in Questions
<1>1. <<"page", "vm">> \in Targets /\ <<"page", "portal">> \in Targets
  BY AnyTarget DEF Views, WebAdmin, VmViews
<1>2. [VmStatus(texts) EXCEPT !.e = <<"page", "portal">>] = [k |-> "status", e |-> <<"page", "portal">>, r |-> FALSE, texts |-> texts]
  <2>1. VmStatus(texts) = [k |-> "status", e |-> <<"page", "vm">>, r |-> FALSE, texts |-> texts]
    BY DEF VmStatus
  <2>2. [[k |-> "status", e |-> <<"page", "vm">>, r |-> FALSE, texts |-> texts] EXCEPT !.e = <<"page", "portal">>]
            = [k |-> "status", e |-> <<"page", "portal">>, r |-> FALSE, texts |-> texts]
    <3> DEFINE v == <<"page", "vm">>
               p == <<"page", "portal">>
               no == FALSE
               k == "status"
    <3> HIDE DEF v, p, no, k
    <3>1. [[k |-> k, e |-> v, r |-> no, texts |-> texts] EXCEPT !.e = p] = [k |-> k, e |-> p, r |-> no, texts |-> texts]
      OBVIOUS
    <3> QED
      BY <3>1 DEF v, p, no, k
  <2> QED
    BY <2>1, <2>2, Zenon
<1> DEFINE p == <<"page", "portal">>
           v == <<"page", "vm">>
<1> HIDE DEF p, v
<1>3. p \in Targets /\ v \in Targets
  BY <1>1 DEF p, v
<1>4. [k |-> "status", e |-> p, r |-> FALSE, texts |-> texts] \in Questions /\ [k |-> "status", e |-> v, r |-> FALSE, texts |-> texts] \in Questions
  BY <1>3 DEF Questions, Looks, LookKinds
<1> QED
  BY <1>2, <1>4 DEF p, v, VmStatus

LEMMA DetailSteps ==
    /\ GetEntities("vms") \in PlainSteps({"vms"}) /\ GetEntities("vms").op = "read"
    /\ Persistent("id_click", {"vms"}, <<"row", "vms">>) \in Steps
    /\ Until({"vm"}, <<Look("crumbs", <<"page", "vm">>, TRUE)>>) \in Harmless
<1>1. "vms" \in ListViews /\ {"vms"} \in SUBSET Views /\ {"vm"} \in SUBSET Views /\ "vm" \in Views
  BY DEF ListViews, Views, WebAdmin, VmViews
<1>2. Look("crumbs", <<"page", "vm">>, TRUE) \in Questions
  BY <1>1, AnyTarget, AQuestion DEF LookKinds, FindAll
<1>3. Until({"vm"}, <<Look("crumbs", <<"page", "vm">>, TRUE)>>) \in Harmless
  BY <1>1, <1>2, OneQuestion, PlainIsHarmless DEF Until
<1>4. Persistent("id_click", {"vms"}, <<"row", "vms">>) \in Steps
  BY <1>1, ListTargets, APersistentStep
<1>5. GetEntities("vms").op = "read"
  BY DEF GetEntities, Read, Step
<1> QED
  BY <1>1, <1>3, <1>4, <1>5, EntitiesStep

LEMMA StatusSteps ==
    /\ Read({"vm"}, <<VmStatus({"Down"})>>) \in PlainSteps({"vm"})
    /\ Until({"vm"}, <<VmStatus({"PoweringUp", "Up"})>>) \in PlainSteps({"vm"})
    /\ Read({"vm"}, <<VmStatus({"PoweringUp", "Up"})>>) \in PlainSteps({"vm"})
    /\ Until({"vm"}, <<VmStatus({"PoweringUp", "Up"})>>).op = "until" /\ Read({"vm"}, <<VmStatus({"PoweringUp", "Up"})>>).op = "read"
<1>1. {"vm"} \in SUBSET Views /\ {"Down"} \in SUBSET VmStates /\ {"PoweringUp", "Up"} \in SUBSET VmStates
  BY DEF Views, WebAdmin, VmViews, VmStates
<1>2. Until({"vm"}, <<VmStatus({"PoweringUp", "Up"})>>).op = "until" /\ Read({"vm"}, <<VmStatus({"PoweringUp", "Up"})>>).op = "read"
  BY DEF Until, Read, Step
<1> DEFINE d == VmStatus({"Down"})
           u == VmStatus({"PoweringUp", "Up"})
<1>3. d \in Questions /\ u \in Questions
  BY <1>1, VmStatusLook
<1> HIDE DEF d, u
<1>4. Read({"vm"}, <<d>>) \in PlainSteps({"vm"}) /\ Until({"vm"}, <<u>>) \in PlainSteps({"vm"}) /\ Read({"vm"}, <<u>>) \in PlainSteps({"vm"})
  BY <1>1, <1>3, OneQuestion DEF Until, Read
<1> QED
  BY <1>2, <1>4 DEF d, u

LEMMA VgpuSteps ==
    LET s == VgpuTab IN
    /\ s \in Seq(Harmless) /\ Len(s) = 7
    /\ s[1] = BareClick({"vm"}, <<"link", "Host Devices">>)
    /\ s[2] = Until({"vm_devices"}, <<Look("shown", <<"page", "vm_devices">>, FALSE)>>)
    /\ \A i \in 3 .. 7 : s[i] \in PlainSteps({"vm_devices"})
<1> DEFINE at == {"vm_devices"}
           s1 == BareClick({"vm"}, <<"link", "Host Devices">>)
           s2 == Until(at, <<Look("shown", <<"page", "vm_devices">>, FALSE)>>)
           s3 == BareClick(at, <<"button", "Manage vGPU">>)
           s4 == Until(at, VgpuDialog(FALSE))
           s5 == Read(at, <<Look("shown", <<"dialog", "vgpu">>, FALSE)>>)
           s6 == BareClick(at, <<"cancel", "vgpu">>)
           s7 == While(at, VgpuDialog(TRUE))
<1>1. {"vm"} \in SUBSET Views /\ at \in SUBSET Views /\ "vm_devices" \in Views /\ "vgpu" \in Dialogs
  BY DEF Views, WebAdmin, VmViews, Dialogs
<1>2. Look("shown", <<"page", "vm_devices">>, FALSE) \in Questions
  BY <1>1, AnyTarget, AQuestion DEF LookKinds
<1>3. \A r \in BOOLEAN : Look("shown", <<"dialog", "vgpu">>, r) \in Questions
  BY <1>1, AnyTarget, AQuestion DEF LookKinds
<1>4. s1 \in Harmless
  <2>1. <<"link", "Host Devices">> \in SafeTargets
    BY AnyTarget DEF SafeTargets
  <2> QED
    BY <1>1, <2>1, AClickStep DEF BareClick, SafeTargets
<1>5. s3 \in PlainSteps(at) /\ s6 \in PlainSteps(at)
  <2>1. /\ <<"button", "Manage vGPU">> \in PlainTargets \ {<<"button", "Upload">>} /\ <<"button", "Manage vGPU">> \in Targets
        /\ <<"cancel", "vgpu">> \in PlainTargets \ {<<"button", "Upload">>} /\ <<"cancel", "vgpu">> \in Targets
    BY <1>1, AnyTarget DEF PlainTargets
  <2> QED
    BY <1>1, <2>1, AClickStep DEF BareClick
<1>6. s2 \in PlainSteps(at) /\ s5 \in PlainSteps(at)
  BY <1>1, <1>2, <1>3, OneQuestion DEF Until, Read
<1>7. s4 \in PlainSteps(at) /\ s7 \in PlainSteps(at)
  BY <1>1, <1>3, TwoQuestions DEF Until, While, VgpuDialog
<1>8. VgpuTab = <<s1, s2, s3, s4, s5, s6, s7>>
  BY DEF VgpuTab
<1>9. s2 \in Harmless /\ s3 \in Harmless /\ s4 \in Harmless /\ s5 \in Harmless /\ s6 \in Harmless /\ s7 \in Harmless
  BY <1>5, <1>6, <1>7, PlainIsHarmless
<1> HIDE DEF at, s1, s2, s3, s4, s5, s6, s7
<1> DEFINE s == <<s1, s2, s3, s4, s5, s6, s7>>
<1>10. s \in Seq(Harmless)
  BY <1>4, <1>9
<1>11. Len(s) = 7 /\ s[1] = s1 /\ s[2] = s2 /\ s[3] = s3 /\ s[4] = s4 /\ s[5] = s5 /\ s[6] = s6 /\ s[7] = s7
  OBVIOUS
<1> HIDE DEF s
<1>12. \A i \in 3 .. 7 : s[i] \in PlainSteps(at)
  BY <1>5, <1>6, <1>7, <1>11
<1> QED
  BY <1>8, <1>10, <1>11, <1>12 DEF s, s1, s2, at

VmShape(sc) ==
    /\ sc \in Seq(Steps) /\ Len(sc) = 47
    /\ sc[1] = Step("start_vm", Views, << >>) /\ sc[2] = Step("await_vm", Views, << >>)
    /\ OpenedAt("vms", 2, sc)
    /\ \A i \in 8 .. 26 : sc[i] \in PlainSteps({"vms"})
    /\ sc[27] = Persistent("id_click", {"vms"}, <<"row", "vms">>)
    /\ sc[28] = Until({"vm"}, <<Look("crumbs", <<"page", "vm">>, TRUE)>>)
    /\ \A i \in 29 .. 40 : sc[i] \in PlainSteps({"vm"})
    /\ "if" \notin {sc[25].op, sc[26].op, sc[39].op, sc[40].op}
    /\ sc[41] = BareClick({"vm"}, <<"link", "Host Devices">>)
    /\ sc[42] = Until({"vm_devices"}, <<Look("shown", <<"page", "vm_devices">>, FALSE)>>)
    /\ \A i \in 43 .. 47 : sc[i] \in PlainSteps({"vm_devices"})
    /\ \A i \in 1 .. 47 : i # 27 => sc[i] \in Harmless

LEMMA VmScript == VmShape(Script["virtual_machines"])
<1>1. "vms" \in ListViews
  BY DEF ListViews
<1>2. Script["virtual_machines"] =
          ((((((((<<Step("start_vm", Views, << >>), Step("await_vm", Views, << >>)>> \o OpenList("compute", "vms"))
                 \o CheckList("vms", {"New"}, {"New", "Edit", "Shutdown", "Migrate"}))
                \o Poweroff) \o <<ButtonsAre("vms", {"New", "Edit", "Export"})>>) \o OpenDetailView)
             \o <<Read({"vm"}, <<VmStatus({"Down"})>>)>>) \o RunOnce)
           \o <<Until({"vm"}, <<VmStatus({"PoweringUp", "Up"})>>), Read({"vm"}, <<VmStatus({"PoweringUp", "Up"})>>)>>)
          \o VgpuTab
  BY DEF Script
<1> DEFINE p1 == <<Step("start_vm", Views, << >>), Step("await_vm", Views, << >>)>>
           p2 == OpenList("compute", "vms")
           p3 == CheckList("vms", {"New"}, {"New", "Edit", "Shutdown", "Migrate"})
           p4 == Poweroff
           p5 == <<ButtonsAre("vms", {"New", "Edit", "Export"})>>
           p6 == OpenDetailView
           p7 == <<Read({"vm"}, <<VmStatus({"Down"})>>)>>
           p8 == RunOnce
           p9 == <<Until({"vm"}, <<VmStatus({"PoweringUp", "Up"})>>), Read({"vm"}, <<VmStatus({"PoweringUp", "Up"})>>)>>
           p10 == VgpuTab
<1>3. ButtonsAre("vms", {"New", "Edit", "Export"}) \in PlainSteps({"vms"}) /\ ButtonsAre("vms", {"New", "Edit", "Export"}).op = "read"
  <2>1. {"New", "Edit", "Export"} \subseteq Buttons("vms")
    BY DEF Buttons, VmButtons
  <2>2. ButtonsAre("vms", {"New", "Edit", "Export"}).op = "read"
    BY DEF ButtonsAre, Read, Step
  <2> QED
    BY <1>1, <2>1, <2>2, NameFacts, ButtonsStep
<1>4. p3 \in Seq(PlainSteps({"vms"}))
  <2>1. {"New"} \subseteq Buttons("vms") /\ {"New", "Edit", "Shutdown", "Migrate"} \subseteq Buttons("vms")
    BY DEF Buttons, VmButtons
  <2> QED
    BY <1>1, <2>1, NameFacts, CheckSteps
<1>5. p1 \in Seq(Steps) /\ p5 \in Seq(PlainSteps({"vms"})) /\ p6 \in Seq(Steps) /\ p7 \in Seq(PlainSteps({"vm"})) /\ p9 \in Seq(PlainSteps({"vm"}))
  <2>1. p1 \in Seq(Steps)
    BY ASilentStep, PlainIsHarmless, Two DEF SilentOps
  <2>2. p5 \in Seq(PlainSteps({"vms"}))
    BY <1>3, One
  <2>3. p6 \in Seq(Steps)
    BY DetailSteps, PlainIsHarmless, Three DEF OpenDetailView
  <2>4. p7 \in Seq(PlainSteps({"vm"})) /\ p9 \in Seq(PlainSteps({"vm"}))
    BY StatusSteps, One, Two
  <2> QED
    BY <2>1, <2>2, <2>3, <2>4
<1>6. /\ p2 \in Seq(Harmless) /\ p4 \in Seq(PlainSteps({"vms"})) /\ p8 \in Seq(PlainSteps({"vm"})) /\ p10 \in Seq(Harmless)
      /\ OpenedAt("vms", 0, p2)
  <2>1. p2 \in Seq(Harmless) /\ OpenedAt("vms", 0, p2)
    BY <1>1, OpenIsList DEF ListShape
  <2> QED
    BY <2>1, PoweroffSteps, RunOnceSteps, VgpuSteps
<1>7. /\ Len(p1) = 2 /\ Len(p2) = 5 /\ Len(p3) = 5 /\ Len(p4) = 12 /\ Len(p5) = 1
      /\ Len(p6) = 3 /\ Len(p7) = 1 /\ Len(p8) = 9 /\ Len(p9) = 2 /\ Len(p10) = 7
  <2>1. {"New"} \subseteq Buttons("vms") /\ {"New", "Edit", "Shutdown", "Migrate"} \subseteq Buttons("vms")
    BY DEF Buttons, VmButtons
  <2>2. Len(p1) = 2 /\ Len(p5) = 1 /\ Len(p6) = 3 /\ Len(p7) = 1 /\ Len(p9) = 2
    BY DEF OpenDetailView
  <2>3. Len(p3) = 5
    BY <1>1, <2>1, NameFacts, CheckSteps
  <2>4. Len(p2) = 5
    BY <1>1, OpenIsList
  <2> QED
    BY <2>2, <2>3, <2>4, PoweroffSteps, RunOnceSteps, VgpuSteps
<1>8. /\ p1[1] = Step("start_vm", Views, << >>) /\ p1[2] = Step("await_vm", Views, << >>)
      /\ p6[1] \in PlainSteps({"vms"}) /\ p6[1].op = "read"
      /\ p6[2] = Persistent("id_click", {"vms"}, <<"row", "vms">>)
      /\ p6[3] = Until({"vm"}, <<Look("crumbs", <<"page", "vm">>, TRUE)>>)
      /\ p6[3] \in Harmless /\ p1[1] \in Harmless /\ p1[2] \in Harmless
      /\ p5[1].op = "read" /\ p9[1].op = "until" /\ p9[2].op = "read"
  BY <1>3, DetailSteps, StatusSteps, ASilentStep DEF OpenDetailView, SilentOps
<1>9. /\ p10[1] = BareClick({"vm"}, <<"link", "Host Devices">>)
      /\ p10[2] = Until({"vm_devices"}, <<Look("shown", <<"page", "vm_devices">>, FALSE)>>)
      /\ \A i \in 3 .. 7 : p10[i] \in PlainSteps({"vm_devices"})
  BY VgpuSteps
<1> HIDE DEF p1, p2, p3, p4, p5, p6, p7, p8, p9, p10
<1>10. p1 \in Seq(Steps) /\ p2 \in Seq(Steps) /\ p3 \in Seq(Steps) /\ p4 \in Seq(Steps) /\ p5 \in Seq(Steps) /\ p6 \in Seq(Steps) /\ p7 \in Seq(Steps) /\ p8 \in Seq(Steps) /\ p9 \in Seq(Steps) /\ p10 \in Seq(Steps)
  <2>1. PlainSteps({"vms"}) \subseteq Steps /\ PlainSteps({"vm"}) \subseteq Steps /\ Harmless \subseteq Steps
    BY PlainIsHarmless
  <2>2. p2 \in Seq(Steps) /\ p3 \in Seq(Steps) /\ p4 \in Seq(Steps) /\ p5 \in Seq(Steps) /\ p7 \in Seq(Steps)
    BY <2>1, <1>4, <1>5, <1>6, SeqIn
  <2>3. p8 \in Seq(Steps) /\ p9 \in Seq(Steps) /\ p10 \in Seq(Steps)
    BY <2>1, <1>5, <1>6, SeqIn
  <2> QED
    BY <2>2, <2>3, <1>5
<1>11. /\ \A i \in 1 .. 5 : p2[i] \in Harmless
       /\ \A i \in 1 .. 5 : p3[i] \in PlainSteps({"vms"})
       /\ \A i \in 1 .. 12 : p4[i] \in PlainSteps({"vms"})
       /\ p5[1] \in PlainSteps({"vms"}) /\ p7[1] \in PlainSteps({"vm"})
       /\ \A i \in 1 .. 9 : p8[i] \in PlainSteps({"vm"})
       /\ p9[1] \in PlainSteps({"vm"}) /\ p9[2] \in PlainSteps({"vm"})
       /\ \A i \in 1 .. 7 : p10[i] \in Harmless
  <2>1. \A i \in 1 .. Len(p2) : p2[i] \in Harmless
    BY <1>6, SeqElements
  <2>2. \A i \in 1 .. Len(p3) : p3[i] \in PlainSteps({"vms"})
    BY <1>4, SeqElements
  <2>3. \A i \in 1 .. Len(p4) : p4[i] \in PlainSteps({"vms"})
    BY <1>6, SeqElements
  <2>4. \A i \in 1 .. Len(p5) : p5[i] \in PlainSteps({"vms"})
    BY <1>5, SeqElements
  <2>5. \A i \in 1 .. Len(p7) : p7[i] \in PlainSteps({"vm"})
    BY <1>5, SeqElements
  <2>6. \A i \in 1 .. Len(p8) : p8[i] \in PlainSteps({"vm"})
    BY <1>6, SeqElements
  <2>7. \A i \in 1 .. Len(p9) : p9[i] \in PlainSteps({"vm"})
    BY <1>5, SeqElements
  <2>8. \A i \in 1 .. Len(p10) : p10[i] \in Harmless
    BY <1>6, SeqElements
  <2> QED
    BY <2>1, <2>2, <2>3, <2>4, <2>5, <2>6, <2>7, <2>8, <1>7
<1> DEFINE c2 == p1 \o p2
<1>12. JoinedAs(c2, p1, p2)
  BY <1>10, Joined
<1>13. c2 \in Seq(Steps)
  BY <1>10, Joined
<1> HIDE DEF c2
<1> DEFINE c3 == c2 \o p3
<1>14. JoinedAs(c3, c2, p3)
  BY <1>10, <1>13, Joined
<1>15. c3 \in Seq(Steps)
  BY <1>10, <1>13, Joined
<1> HIDE DEF c3
<1> DEFINE c4 == c3 \o p4
<1>16. JoinedAs(c4, c3, p4)
  BY <1>10, <1>15, Joined
<1>17. c4 \in Seq(Steps)
  BY <1>10, <1>15, Joined
<1> HIDE DEF c4
<1> DEFINE c5 == c4 \o p5
<1>18. JoinedAs(c5, c4, p5)
  BY <1>10, <1>17, Joined
<1>19. c5 \in Seq(Steps)
  BY <1>10, <1>17, Joined
<1> HIDE DEF c5
<1> DEFINE c6 == c5 \o p6
<1>20. JoinedAs(c6, c5, p6)
  BY <1>10, <1>19, Joined
<1>21. c6 \in Seq(Steps)
  BY <1>10, <1>19, Joined
<1> HIDE DEF c6
<1> DEFINE c7 == c6 \o p7
<1>22. JoinedAs(c7, c6, p7)
  BY <1>10, <1>21, Joined
<1>23. c7 \in Seq(Steps)
  BY <1>10, <1>21, Joined
<1> HIDE DEF c7
<1> DEFINE c8 == c7 \o p8
<1>24. JoinedAs(c8, c7, p8)
  BY <1>10, <1>23, Joined
<1>25. c8 \in Seq(Steps)
  BY <1>10, <1>23, Joined
<1> HIDE DEF c8
<1> DEFINE c9 == c8 \o p9
<1>26. JoinedAs(c9, c8, p9)
  BY <1>10, <1>25, Joined
<1>27. c9 \in Seq(Steps)
  BY <1>10, <1>25, Joined
<1> HIDE DEF c9
<1> DEFINE c10 == c9 \o p10
<1>28. JoinedAs(c10, c9, p10)
  BY <1>10, <1>27, Joined
<1>29. c10 \in Seq(Steps)
  BY <1>10, <1>27, Joined
<1> HIDE DEF c10
<1>30. Script["virtual_machines"] = c10
  BY <1>2 DEF p1, p2, p3, p4, p5, p6, p7, p8, p9, p10, c2, c3, c4, c5, c6, c7, c8, c9, c10
<1>31. Len(c2) = 7 /\ Len(c3) = 12 /\ Len(c4) = 24 /\ Len(c5) = 25 /\ Len(c6) = 28 /\ Len(c7) = 29 /\ Len(c8) = 38 /\ Len(c9) = 40 /\ Len(c10) = 47
  BY <1>7, <1>12, <1>14, <1>16, <1>18, <1>20, <1>22, <1>24, <1>26, <1>28 DEF JoinedAs
<1>32. /\ c10[1] = p1[1] /\ c10[2] = p1[2]
       /\ c10[3] = p2[1] /\ c10[4] = p2[2] /\ c10[5] = p2[3] /\ c10[6] = p2[4] /\ c10[7] = p2[5]
       /\ c10[8] = p3[1] /\ c10[9] = p3[2] /\ c10[10] = p3[3] /\ c10[11] = p3[4] /\ c10[12] = p3[5]
       /\ c10[13] = p4[1] /\ c10[14] = p4[2] /\ c10[15] = p4[3] /\ c10[16] = p4[4] /\ c10[17] = p4[5] /\ c10[18] = p4[6] /\ c10[19] = p4[7] /\ c10[20] = p4[8] /\ c10[21] = p4[9] /\ c10[22] = p4[10] /\ c10[23] = p4[11] /\ c10[24] = p4[12]
       /\ c10[25] = p5[1]
       /\ c10[26] = p6[1] /\ c10[27] = p6[2] /\ c10[28] = p6[3]
       /\ c10[29] = p7[1]
       /\ c10[30] = p8[1] /\ c10[31] = p8[2] /\ c10[32] = p8[3] /\ c10[33] = p8[4] /\ c10[34] = p8[5] /\ c10[35] = p8[6] /\ c10[36] = p8[7] /\ c10[37] = p8[8] /\ c10[38] = p8[9]
       /\ c10[39] = p9[1] /\ c10[40] = p9[2]
       /\ c10[41] = p10[1] /\ c10[42] = p10[2] /\ c10[43] = p10[3] /\ c10[44] = p10[4] /\ c10[45] = p10[5] /\ c10[46] = p10[6] /\ c10[47] = p10[7]
  <2>1. c10[1] = p1[1] /\ c10[2] = p1[2]
    BY <1>7, <1>31, <1>12, <1>14, <1>16, <1>18, <1>20, <1>22, <1>24, <1>26, <1>28 DEF JoinedAs
  <2>2. c10[3] = p2[1] /\ c10[4] = p2[2] /\ c10[5] = p2[3] /\ c10[6] = p2[4] /\ c10[7] = p2[5]
    BY <1>7, <1>31, <1>12, <1>14, <1>16, <1>18, <1>20, <1>22, <1>24, <1>26, <1>28 DEF JoinedAs
  <2>3. c10[8] = p3[1] /\ c10[9] = p3[2] /\ c10[10] = p3[3] /\ c10[11] = p3[4] /\ c10[12] = p3[5]
    BY <1>7, <1>31, <1>14, <1>16, <1>18, <1>20, <1>22, <1>24, <1>26, <1>28 DEF JoinedAs
  <2>4. c10[13] = p4[1] /\ c10[14] = p4[2] /\ c10[15] = p4[3] /\ c10[16] = p4[4] /\ c10[17] = p4[5] /\ c10[18] = p4[6] /\ c10[19] = p4[7] /\ c10[20] = p4[8] /\ c10[21] = p4[9] /\ c10[22] = p4[10] /\ c10[23] = p4[11] /\ c10[24] = p4[12]
    BY <1>7, <1>31, <1>16, <1>18, <1>20, <1>22, <1>24, <1>26, <1>28 DEF JoinedAs
  <2>5. c10[25] = p5[1]
    BY <1>7, <1>31, <1>18, <1>20, <1>22, <1>24, <1>26, <1>28 DEF JoinedAs
  <2>6. c10[26] = p6[1] /\ c10[27] = p6[2] /\ c10[28] = p6[3]
    BY <1>7, <1>31, <1>20, <1>22, <1>24, <1>26, <1>28 DEF JoinedAs
  <2>7. c10[29] = p7[1]
    BY <1>7, <1>31, <1>22, <1>24, <1>26, <1>28 DEF JoinedAs
  <2>8. c10[30] = p8[1] /\ c10[31] = p8[2] /\ c10[32] = p8[3] /\ c10[33] = p8[4] /\ c10[34] = p8[5] /\ c10[35] = p8[6] /\ c10[36] = p8[7] /\ c10[37] = p8[8] /\ c10[38] = p8[9]
    BY <1>7, <1>31, <1>24, <1>26, <1>28 DEF JoinedAs
  <2>9. c10[39] = p9[1] /\ c10[40] = p9[2]
    BY <1>7, <1>31, <1>26, <1>28 DEF JoinedAs
  <2>10. c10[41] = p10[1] /\ c10[42] = p10[2] /\ c10[43] = p10[3] /\ c10[44] = p10[4] /\ c10[45] = p10[5] /\ c10[46] = p10[6] /\ c10[47] = p10[7]
    BY <1>7, <1>31, <1>28 DEF JoinedAs
  <2> QED
    BY <2>1, <2>2, <2>3, <2>4, <2>5, <2>6, <2>7, <2>8, <2>9, <2>10
<1>33. \A i \in 8 .. 26 : c10[i] \in PlainSteps({"vms"})
  <2> SUFFICES ASSUME NEW i \in 8 .. 26 PROVE c10[i] \in PlainSteps({"vms"})
    OBVIOUS
  <2>1. CASE i \in 8 .. 16
    BY <2>1, <1>11, <1>32
  <2>2. CASE i \in 17 .. 24
    BY <2>2, <1>11, <1>32
  <2>3. CASE i = 25
    <3>1. c10[25] = p5[1]
      BY <1>32
    <3> QED
      BY <2>3, <3>1, <1>11
  <2>4. CASE i = 26
    <3>1. c10[26] = p6[1]
      BY <1>32
    <3> QED
      BY <2>4, <3>1, <1>8
  <2> QED
    BY <2>1, <2>2, <2>3, <2>4
<1>34. \A i \in 29 .. 40 : c10[i] \in PlainSteps({"vm"})
  <2> SUFFICES ASSUME NEW i \in 29 .. 40 PROVE c10[i] \in PlainSteps({"vm"})
    OBVIOUS
  <2>1. i = 29 \/ i \in 30 .. 38 \/ i = 39 \/ i = 40
    OBVIOUS
  <2> QED
    BY <2>1, <1>11, <1>32
<1>35. \A i \in 43 .. 47 : c10[i] \in PlainSteps({"vm_devices"})
  <2> SUFFICES ASSUME NEW i \in 43 .. 47 PROVE c10[i] \in PlainSteps({"vm_devices"})
    OBVIOUS
  <2>1. \A k \in 3 .. 7 : p10[k] \in PlainSteps({"vm_devices"})
    BY <1>9
  <2>2. i - 40 \in 3 .. 7 /\ c10[i] = p10[i - 40]
    <3>1. i = 43 \/ i = 44 \/ i = 45 \/ i = 46 \/ i = 47
      OBVIOUS
    <3> QED
      BY <3>1, <1>32
  <2> QED
    BY <2>1, <2>2
<1>36. \A i \in 1 .. 47 : i # 27 => c10[i] \in Harmless
  <2> SUFFICES ASSUME NEW i \in 1 .. 47, i # 27 PROVE c10[i] \in Harmless
    OBVIOUS
  <2>1. i = 1 \/ i = 2 \/ i \in 3 .. 7 \/ i \in 8 .. 26 \/ i = 28 \/ i \in 29 .. 40 \/ i \in 41 .. 47
    OBVIOUS
  <2>2. PlainSteps({"vms"}) \subseteq Harmless /\ PlainSteps({"vm"}) \subseteq Harmless
    BY PlainIsHarmless
  <2>3. \A k \in 1 .. 5 : p2[k] \in Harmless
    BY <1>11
  <2>4. \A k \in 1 .. 7 : p10[k] \in Harmless
    BY <1>11
  <2>5. CASE i \in 3 .. 7
    <3>1. i - 2 \in 1 .. 5 /\ c10[i] = p2[i - 2]
      <4>1. i = 3 \/ i = 4 \/ i = 5 \/ i = 6 \/ i = 7
        BY <2>5
      <4> QED
        BY <4>1, <1>32
    <3> QED
      BY <3>1, <2>3
  <2>6. CASE i \in 41 .. 47
    <3>1. i - 40 \in 1 .. 7 /\ c10[i] = p10[i - 40]
      <4>1. i = 41 \/ i = 42 \/ i = 43 \/ i = 44 \/ i = 45 \/ i = 46 \/ i = 47
        BY <2>6
      <4> QED
        BY <4>1, <1>32
    <3> QED
      BY <3>1, <2>4
  <2>7. CASE i = 1 \/ i = 2 \/ i = 28
    <3>1. c10[1] = p1[1] /\ c10[2] = p1[2] /\ c10[28] = p6[3]
      BY <1>32
    <3> QED
      BY <3>1, <2>7, <1>8
  <2>8. CASE i \in 8 .. 26
    BY <2>8, <2>2, <1>33
  <2>9. CASE i \in 29 .. 40
    BY <2>9, <2>2, <1>34
  <2> QED
    BY <2>1, <2>5, <2>6, <2>7, <2>8, <2>9
<1>37. OpenedAt("vms", 2, c10)
  <2>1. OpenedAt("vms", 0, p2)
    BY <1>6
  <2>2. c10[3] = p2[1] /\ c10[4] = p2[2] /\ c10[5] = p2[3] /\ c10[6] = p2[4] /\ c10[7] = p2[5]
    BY <1>32
  <2> QED
    BY <2>1, <2>2 DEF OpenedAt
<1>38. /\ c10[27] = p6[2] /\ c10[28] = p6[3] /\ c10[25] = p5[1] /\ c10[26] = p6[1] /\ c10[39] = p9[1] /\ c10[40] = p9[2]
       /\ c10[1] = p1[1] /\ c10[2] = p1[2] /\ c10[41] = p10[1] /\ c10[42] = p10[2]
  BY <1>32
<1> QED
  BY <1>8, <1>9, <1>29, <1>30, <1>31, <1>33, <1>34, <1>35, <1>36, <1>37, <1>38 DEF VmShape


-----------------------------------------------------------------------------
(* The other scripts are short, or made of boards.                          *)

LEMMA NineJoined ==
    ASSUME NEW a, NEW b, NEW c, NEW d, NEW e, NEW f, NEW g, NEW h, NEW i
    PROVE  LET x == <<a, b>> \o <<c, d, e, f>> \o <<g, h, i>> IN
           /\ Len(x) = 9
           /\ x[1] = a /\ x[2] = b /\ x[3] = c /\ x[4] = d /\ x[5] = e /\ x[6] = f /\ x[7] = g /\ x[8] = h /\ x[9] = i
  OBVIOUS
LEMMA EightJoined ==
    ASSUME NEW a, NEW b, NEW c, NEW d, NEW e, NEW f, NEW g, NEW h
    PROVE  LET x == <<a, b>> \o <<c, d, e, f>> \o <<g, h>> IN
           /\ Len(x) = 8
           /\ x[1] = a /\ x[2] = b /\ x[3] = c /\ x[4] = d /\ x[5] = e /\ x[6] = f /\ x[7] = g /\ x[8] = h
  OBVIOUS
LEMMA FiveJoined ==
    ASSUME NEW a, NEW b, NEW c, NEW d, NEW e
    PROVE  LET x == <<a, b, c>> \o <<d, e>> IN Len(x) = 5 /\ x[1] = a /\ x[2] = b /\ x[3] = c /\ x[4] = d /\ x[5] = e
  OBVIOUS
LEMMA TwelveJoined ==
    ASSUME NEW a, NEW b, NEW c, NEW d, NEW e, NEW f, NEW g, NEW h, NEW i, NEW j, NEW k, NEW l
    PROVE  LET x == <<a>> \o <<b, c, d>> \o <<e, f, g>> \o <<h, i, j, k, l>> IN
           /\ Len(x) = 12
           /\ x[1] = a /\ x[2] = b /\ x[3] = c /\ x[4] = d /\ x[5] = e /\ x[6] = f /\ x[7] = g /\ x[8] = h /\ x[9] = i
           /\ x[10] = j /\ x[11] = k /\ x[12] = l
  OBVIOUS
BoardOf(a, b, c, d, e, f, g, h, i, j, k, l, m, n) ==
    <<a, b, c>> \o <<d, e, f>> \o <<g, h, i>> \o <<j, k, l>> \o <<m, n>>
BoardIs(x, a, b, c, d, e, f, g, h, i, j, k, l, m, n) ==
    /\ Len(x) = 14
    /\ x[1] = a /\ x[2] = b /\ x[3] = c /\ x[4] = d /\ x[5] = e /\ x[6] = f /\ x[7] = g /\ x[8] = h /\ x[9] = i
    /\ x[10] = j /\ x[11] = k /\ x[12] = l /\ x[13] = m /\ x[14] = n
LEMMA BoardJoined ==
    ASSUME NEW a, NEW b, NEW c, NEW d, NEW e, NEW f, NEW g, NEW h, NEW i, NEW j, NEW k, NEW l, NEW m, NEW n
    PROVE  BoardIs(BoardOf(a, b, c, d, e, f, g, h, i, j, k, l, m, n), a, b, c, d, e, f, g, h, i, j, k, l, m, n)
  BY DEF BoardOf, BoardIs

LEMMA LinkTargets ==
    /\ \A n \in {"webadmin", "portal", "grafana", "sso", "username", "password", "log in", "oauth", "iframe", "logo", "Home", "menu",
                 "Data Center", "Hosts"} : <<"link", n>> \in SafeTargets /\ <<"link", n>> \in Targets
    /\ \A n \in {"username", "password", "logo", "Home", "menu"} :
           <<"link", n>> \in PlainTargets \ {<<"button", "Upload">>} /\ <<"link", n>>[1] # "row"
    /\ {"welcome"} \subseteq Views /\ {"login"} \subseteq Views /\ {"portal"} \subseteq Views /\ {"grafana_login"} \subseteq Views
    /\ Grafana \subseteq Views /\ WebAdmin \subseteq Views
<1>1. {"welcome", "login", "grafana_login", "dashboard", "grafana", "portal"} \subseteq Views
  BY DEF Views, WebAdmin, Grafana
<1>2. /\ Links("welcome") = {"webadmin", "portal", "grafana", "sso"} /\ Links("login") = {"username", "password", "log in"}
      /\ Links("grafana_login") = {"oauth"} /\ Links("dashboard") = {"iframe"}
      /\ Links("grafana") = {"logo", "Home", "menu", "Data Center", "Hosts"}
  BY DEF Links, Grafana
<1>3. \A n \in {"webadmin", "portal", "grafana", "sso", "username", "password", "log in", "oauth", "iframe", "logo", "Home", "menu",
                "Data Center", "Hosts"} : <<"link", n>> \in Targets
  <2> SUFFICES ASSUME NEW n \in {"webadmin", "portal", "grafana", "sso", "username", "password", "log in", "oauth", "iframe", "logo",
                                 "Home", "menu", "Data Center", "Hosts"}
               PROVE  <<"link", n>> \in Targets
    OBVIOUS
  <2>1. \E v \in Views : n \in Links(v)
    BY <1>1, <1>2
  <2> QED
    BY <2>1, AnyTarget
<1>4. \A n \in {"webadmin", "portal", "grafana", "sso", "username", "password", "log in", "oauth", "iframe", "logo", "Home", "menu",
                "Data Center", "Hosts"} : <<"link", n>> \in SafeTargets
  BY <1>3 DEF SafeTargets
<1>5. \A n \in {"username", "password", "logo", "Home", "menu"} :
           <<"link", n>> \in PlainTargets \ {<<"button", "Upload">>} /\ <<"link", n>>[1] # "row"
  BY <1>3 DEF PlainTargets
<1> QED
  BY <1>1, <1>3, <1>4, <1>5 DEF Views

\* the steps from the welcome page to the form of the login, filled in and sent
LEMMA EntrySteps ==
    ASSUME NEW link \in {"webadmin", "portal"}
    PROVE  /\ Until({"welcome"}, <<Look("shown", <<"page", "welcome">>, FALSE)>>) \in PlainSteps({"welcome"})
           /\ BareClick({"welcome"}, <<"link", link>>) \in Harmless
           /\ Until({"login"}, <<Look("shown", <<"link", "username">>, FALSE), Look("shown", <<"link", "password">>, FALSE)>>)
                  \in PlainSteps({"login"})
           /\ BareClick({"login"}, <<"link", "username">>) \in PlainSteps({"login"})
           /\ BareClick({"login"}, <<"link", "password">>) \in PlainSteps({"login"})
           /\ Click({"login"}, <<"link", "log in">>) \in Harmless
<1>1. Look("shown", <<"page", "welcome">>, FALSE) \in Questions
  BY LinkTargets, AnyTarget, AQuestion DEF LookKinds
<1>2. Look("shown", <<"link", "username">>, FALSE) \in Questions /\ Look("shown", <<"link", "password">>, FALSE) \in Questions
  BY LinkTargets, AQuestion DEF LookKinds
<1>3. Until({"welcome"}, <<Look("shown", <<"page", "welcome">>, FALSE)>>) \in PlainSteps({"welcome"})
  BY <1>1, LinkTargets, OneQuestion DEF Until
<1>4. Until({"login"}, <<Look("shown", <<"link", "username">>, FALSE), Look("shown", <<"link", "password">>, FALSE)>>)
          \in PlainSteps({"login"})
  BY <1>2, LinkTargets, TwoQuestions DEF Until
<1>5. BareClick({"welcome"}, <<"link", link>>) \in Harmless /\ Click({"login"}, <<"link", "log in">>) \in Harmless
  BY LinkTargets, AClickStep DEF BareClick, Click
<1>6. /\ BareClick({"login"}, <<"link", "username">>) \in PlainSteps({"login"})
      /\ BareClick({"login"}, <<"link", "password">>) \in PlainSteps({"login"})
  BY LinkTargets, AClickStep DEF BareClick
<1> QED
  BY <1>3, <1>4, <1>5, <1>6

\* the look e that decides that the destination is reached is the seventh step's
EntryShape(link, at, e, n, sc) ==
    /\ Len(sc) = n
    /\ sc[1] \in PlainSteps({"welcome"}) /\ sc[1].op = "until"
    /\ sc[2] = BareClick({"welcome"}, <<"link", link>>)
    /\ sc[3] = Until({"login"}, <<Look("shown", <<"link", "username">>, FALSE), Look("shown", <<"link", "password">>, FALSE)>>)
    /\ sc[4] \in PlainSteps({"login"}) /\ sc[5] \in PlainSteps({"login"}) /\ sc[4].op = "click" /\ sc[5].op = "click"
    /\ sc[6] = Click({"login"}, <<"link", "log in">>)
    /\ sc[7] = Until(at, <<Look("present", e, FALSE)>>)
    /\ \A i \in 8 .. n : sc[i] \in PlainSteps(at) /\ sc[i].op \in {"until", "read"}
    /\ \A i \in 1 .. n : sc[i] \in Harmless

LEMMA LoginScript == EntryShape("webadmin", WebAdmin, <<"menu", "left">>, 9, Script["login"])
<1> DEFINE s1 == Until({"welcome"}, <<Look("shown", <<"page", "welcome">>, FALSE)>>)
           s2 == BareClick({"welcome"}, <<"link", "webadmin">>)
           s3 == Until({"login"}, <<Look("shown", <<"link", "username">>, FALSE), Look("shown", <<"link", "password">>, FALSE)>>)
           s4 == BareClick({"login"}, <<"link", "username">>)
           s5 == BareClick({"login"}, <<"link", "password">>)
           s6 == Click({"login"}, <<"link", "log in">>)
           s7 == Until(WebAdmin, <<Look("present", <<"menu", "left">>, FALSE)>>)
           s8 == Until(WebAdmin, <<Look("shown", <<"menu", "nav">>, FALSE)>>)
           s9 == Read(WebAdmin, <<Look("present", <<"menu", "left">>, FALSE), Look("shown", <<"menu", "nav">>, FALSE)>>)
<1>1. /\ s1 \in PlainSteps({"welcome"}) /\ s2 \in Harmless /\ s3 \in PlainSteps({"login"})
      /\ s4 \in PlainSteps({"login"}) /\ s5 \in PlainSteps({"login"}) /\ s6 \in Harmless
  BY EntrySteps
<1>2. s7 \in PlainSteps(WebAdmin) /\ s8 \in PlainSteps(WebAdmin) /\ s9 \in PlainSteps(WebAdmin)
  <2>1. Look("present", <<"menu", "left">>, FALSE) \in Questions /\ Look("shown", <<"menu", "nav">>, FALSE) \in Questions
    BY AnyTarget, AQuestion DEF LookKinds, FindOnly
  <2> QED
    BY <2>1, LinkTargets, OneQuestion, TwoQuestions DEF Until, Read
<1>3. s1.op = "until" /\ s4.op = "click" /\ s5.op = "click" /\ s7.op \in {"until", "read"} /\ s8.op \in {"until", "read"} /\ s9.op \in {"until", "read"}
  BY DEF Until, Read, BareClick, Step
<1>4. s1 \in Harmless /\ s2 \in Harmless /\ s3 \in Harmless /\ s4 \in Harmless /\ s5 \in Harmless /\ s6 \in Harmless /\ s7 \in Harmless /\ s8 \in Harmless /\ s9 \in Harmless
  BY <1>1, <1>2, PlainIsHarmless
<1> DEFINE x == <<s1, s2>> \o <<s3, s4, s5, s6>> \o <<s7, s8, s9>>
<1>5. Script["login"] = x
  BY DEF Script, Welcome, LogIn, MenusShown
<1> HIDE DEF s1, s2, s3, s4, s5, s6, s7, s8, s9
<1>6. /\ Len(x) = 9
      /\ x[1] = s1 /\ x[2] = s2 /\ x[3] = s3 /\ x[4] = s4 /\ x[5] = s5 /\ x[6] = s6 /\ x[7] = s7 /\ x[8] = s8 /\ x[9] = s9
  BY NineJoined
<1> HIDE DEF x
<1>7. \A i \in 1 .. 9 : x[i] \in Harmless
  <2>1. \A i \in 1 .. 9 : i = 1 \/ i = 2 \/ i = 3 \/ i = 4 \/ i = 5 \/ i = 6 \/ i = 7 \/ i = 8 \/ i = 9
    OBVIOUS
  <2> QED
    BY <2>1, <1>4, <1>6
<1>8. \A i \in 8 .. 9 : x[i] \in PlainSteps(WebAdmin) /\ x[i].op \in {"until", "read"}
  <2>1. \A i \in 8 .. 9 : i = 8 \/ i = 9
    OBVIOUS
  <2> QED
    BY <2>1, <1>2, <1>3, <1>6
<1>9. EntryShape("webadmin", WebAdmin, <<"menu", "left">>, 9, x)
  BY <1>1, <1>3, <1>6, <1>7, <1>8 DEF EntryShape, s2, s3, s6, s7
<1> QED
  BY <1>5, <1>9

LEMMA PortalScript == EntryShape("portal", {"portal"}, <<"page", "portal">>, 8, Script["userportal"])
<1> DEFINE s1 == Until({"welcome"}, <<Look("shown", <<"page", "welcome">>, FALSE)>>)
           s2 == BareClick({"welcome"}, <<"link", "portal">>)
           s3 == Until({"login"}, <<Look("shown", <<"link", "username">>, FALSE), Look("shown", <<"link", "password">>, FALSE)>>)
           s4 == BareClick({"login"}, <<"link", "username">>)
           s5 == BareClick({"login"}, <<"link", "password">>)
           s6 == Click({"login"}, <<"link", "log in">>)
           s7 == Until({"portal"}, <<Look("present", <<"page", "portal">>, FALSE)>>)
           s8 == Read({"portal"}, <<PortalStatus>>)
<1>1. /\ s1 \in PlainSteps({"welcome"}) /\ s2 \in Harmless /\ s3 \in PlainSteps({"login"})
      /\ s4 \in PlainSteps({"login"}) /\ s5 \in PlainSteps({"login"}) /\ s6 \in Harmless
  BY EntrySteps
<1>2. s7 \in PlainSteps({"portal"}) /\ s8 \in PlainSteps({"portal"})
  <2>1. Look("present", <<"page", "portal">>, FALSE) \in Questions
    BY LinkTargets, AnyTarget, AQuestion DEF LookKinds, FindOnly
  <2>2. PortalStatus \in Questions
    BY VmStatusLook DEF PortalStatus, VmStates
  <2> QED
    BY <2>1, <2>2, LinkTargets, OneQuestion DEF Until, Read
<1>3. s1.op = "until" /\ s4.op = "click" /\ s5.op = "click" /\ s7.op \in {"until", "read"} /\ s8.op \in {"until", "read"}
  BY DEF Until, Read, BareClick, Step
<1>4. s1 \in Harmless /\ s2 \in Harmless /\ s3 \in Harmless /\ s4 \in Harmless /\ s5 \in Harmless /\ s6 \in Harmless /\ s7 \in Harmless /\ s8 \in Harmless
  BY <1>1, <1>2, PlainIsHarmless
<1> DEFINE x == <<s1, s2>> \o <<s3, s4, s5, s6>> \o <<s7, s8>>
<1>5. Script["userportal"] = x
  BY DEF Script, Welcome, LogIn
<1> HIDE DEF s1, s2, s3, s4, s5, s6, s7, s8
<1>6. /\ Len(x) = 8
      /\ x[1] = s1 /\ x[2] = s2 /\ x[3] = s3 /\ x[4] = s4 /\ x[5] = s5 /\ x[6] = s6 /\ x[7] = s7 /\ x[8] = s8
  BY EightJoined
<1> HIDE DEF x
<1>7. \A i \in 1 .. 8 : x[i] \in Harmless
  <2>1. \A i \in 1 .. 8 : i = 1 \/ i = 2 \/ i = 3 \/ i = 4 \/ i = 5 \/ i = 6 \/ i = 7 \/ i = 8
    OBVIOUS
  <2> QED
    BY <2>1, <1>4, <1>6
<1>8. \A i \in 8 .. 8 : x[i] \in PlainSteps({"portal"}) /\ x[i].op \in {"until", "read"}
  <2>1. \A i \in 8 .. 8 : i = 8
    OBVIOUS
  <2> QED
    BY <2>1, <1>2, <1>3, <1>6
<1>9. EntryShape("portal", {"portal"}, <<"page", "portal">>, 8, x)
  BY <1>1, <1>3, <1>6, <1>7, <1>8 DEF EntryShape, s2, s3, s6, s7
<1> QED
  BY <1>5, <1>9

DashboardShape(sc) ==
    /\ Len(sc) = 5
    /\ sc[1].op = "until" /\ sc[2].op = "until" /\ sc[3] = Click(WebAdmin, <<"anchor", "dashboard">>)
    /\ sc[4] = Dashboard("frame_until") /\ sc[5] = Dashboard("frame_read")
    /\ \A i \in 1 .. 5 : sc[i] \in Harmless
LEMMA DashboardScript == DashboardShape(Script["dashboard"])
<1> DEFINE e == <<"anchor", "dashboard">>
           s1 == Until(WebAdmin, <<Look("shown", e, TRUE)>>)
           s2 == Until(WebAdmin, <<Look("enabled", e, TRUE)>>)
           s3 == Click(WebAdmin, e)
           s4 == Dashboard("frame_until")
           s5 == Dashboard("frame_read")
<1>1. e \in SafeTargets /\ e \in Targets
  BY Anchors DEF SafeTargets
<1>2. s1 \in Harmless /\ s2 \in Harmless
  <2>1. Look("shown", e, TRUE) \in Questions /\ Look("enabled", e, TRUE) \in Questions
    BY <1>1, AQuestion DEF LookKinds
  <2> QED
    BY <2>1, LinkTargets, OneQuestion, PlainIsHarmless DEF Until
<1>3. s3 \in Harmless /\ s4 \in Harmless /\ s5 \in Harmless
  BY <1>1, LinkTargets, AClickStep, AFrameStep DEF Click
<1>4. s1.op = "until" /\ s2.op = "until"
  BY DEF Until, Step
<1> DEFINE x == <<s1, s2, s3>> \o <<s4, s5>>
<1>5. Script["dashboard"] = x
  BY DEF Script, XpathWaitAndClick
<1> HIDE DEF s1, s2, s3, s4, s5
<1>6. Len(x) = 5 /\ x[1] = s1 /\ x[2] = s2 /\ x[3] = s3 /\ x[4] = s4 /\ x[5] = s5
  BY FiveJoined
<1> HIDE DEF x
<1>7. \A i \in 1 .. 5 : x[i] \in Harmless
  <2>1. \A i \in 1 .. 5 : i = 1 \/ i = 2 \/ i = 3 \/ i = 4 \/ i = 5
    OBVIOUS
  <2> QED
    BY <2>1, <1>2, <1>3, <1>6
<1>8. DashboardShape(x)
  BY <1>4, <1>6, <1>7 DEF DashboardShape, s3, s4, s5
<1> QED
  BY <1>5, <1>8

LogoutShape(sc) ==
    /\ Len(sc) = 12
    /\ \A i \in 1 .. 9 : sc[i].op \in {"until", "while", "click"}
    /\ sc[10] = Step("get", Views, << >>)
    /\ sc[11] = Until({"welcome"}, <<Look("shown", <<"page", "welcome">>, FALSE)>>)
    /\ sc[12] \in PlainSteps({"welcome"}) /\ sc[12].op = "read"
    /\ \A i \in 1 .. 12 : sc[i] \in Harmless

LEMMA LogoutScript == LogoutShape(Script["logout"])
<1> DEFINE s1 == Until(WebAdmin, <<Look("shown", <<"menu", "nav">>, FALSE)>>)
           s2 == Until(WebAdmin, <<Look("shown", <<"menu", "user">>, TRUE)>>)
           s3 == Until(WebAdmin, <<Look("enabled", <<"menu", "user">>, TRUE)>>)
           s4 == Click(WebAdmin, <<"menu", "user">>)
           s5 == Until(WebAdmin, <<Look("shown", <<"menu", "logout">>, TRUE)>>)
           s6 == Until(WebAdmin, <<Look("enabled", <<"menu", "logout">>, TRUE)>>)
           s7 == Click(WebAdmin, <<"menu", "logout">>)
           s8 == While(Views, <<Look("present", <<"menu", "left">>, FALSE)>>)
           s9 == While(Views, <<Look("shown", <<"menu", "nav">>, TRUE)>>)
           s10 == Step("get", Views, << >>)
           s11 == Until({"welcome"}, <<Look("shown", <<"page", "welcome">>, FALSE)>>)
           s12 == Read({"welcome"}, <<Look("logged_out", <<"link", "sso">>, FALSE)>>)
<1>1. /\ \A m \in {"left", "nav", "user", "logout"} : <<"menu", m>> \in Targets /\ <<"menu", m>> \in SafeTargets
      /\ <<"page", "welcome">> \in Targets /\ <<"link", "sso">> \in Targets
  BY AnyTarget, LinkTargets DEF SafeTargets
<1>2. /\ Look("shown", <<"menu", "nav">>, FALSE) \in Questions /\ Look("shown", <<"menu", "nav">>, TRUE) \in Questions
      /\ Look("present", <<"menu", "left">>, FALSE) \in Questions
      /\ \A m \in {"user", "logout"} : Look("shown", <<"menu", m>>, TRUE) \in Questions /\ Look("enabled", <<"menu", m>>, TRUE) \in Questions
      /\ Look("shown", <<"page", "welcome">>, FALSE) \in Questions /\ Look("logged_out", <<"link", "sso">>, FALSE) \in Questions
  BY <1>1, AQuestion DEF LookKinds, FindOnly
<1>3. WebAdmin \in SUBSET Views /\ {"welcome"} \in SUBSET Views /\ Views \in SUBSET Views
  BY LinkTargets
<1>4. s12 \in PlainSteps({"welcome"})
  BY <1>2, <1>3, OneQuestion DEF Read
<1>5. s1 \in Harmless /\ s2 \in Harmless /\ s3 \in Harmless /\ s5 \in Harmless /\ s6 \in Harmless
  <2>1. s1 \in PlainSteps(WebAdmin) /\ s2 \in PlainSteps(WebAdmin) /\ s3 \in PlainSteps(WebAdmin)
    BY <1>2, <1>3, OneQuestion DEF Until
  <2>2. s5 \in PlainSteps(WebAdmin) /\ s6 \in PlainSteps(WebAdmin)
    BY <1>2, <1>3, OneQuestion DEF Until
  <2> QED
    BY <2>1, <2>2, PlainIsHarmless
<1>6. s8 \in Harmless /\ s9 \in Harmless /\ s11 \in Harmless /\ s12 \in Harmless
  BY <1>2, <1>3, <1>4, OneQuestion, PlainIsHarmless DEF Until, While
<1>7. s4 \in Harmless /\ s7 \in Harmless /\ s10 \in Harmless
  BY <1>1, <1>3, AClickStep, ASilentStep DEF Click, SilentOps
<1>8. /\ s1.op = "until" /\ s2.op = "until" /\ s3.op = "until" /\ s4.op = "click" /\ s5.op = "until" /\ s6.op = "until"
      /\ s7.op = "click" /\ s8.op = "while" /\ s9.op = "while" /\ s12.op = "read"
  BY DEF Until, While, Read, Click, Step
<1> DEFINE x == <<s1>> \o <<s2, s3, s4>> \o <<s5, s6, s7>> \o <<s8, s9, s10, s11, s12>>
<1>9. Script["logout"] = x
  BY DEF Script, XpathWaitAndClick, MenusShown
<1> HIDE DEF s1, s2, s3, s4, s5, s6, s7, s8, s9, s10, s11, s12
<1>10. /\ Len(x) = 12
       /\ x[1] = s1 /\ x[2] = s2 /\ x[3] = s3 /\ x[4] = s4 /\ x[5] = s5 /\ x[6] = s6 /\ x[7] = s7 /\ x[8] = s8 /\ x[9] = s9
       /\ x[10] = s10 /\ x[11] = s11 /\ x[12] = s12
  BY TwelveJoined
<1> HIDE DEF x
<1>11. \A i \in 1 .. 12 : x[i] \in Harmless
  <2>1. \A i \in 1 .. 12 : i = 1 \/ i = 2 \/ i = 3 \/ i = 4 \/ i = 5 \/ i = 6 \/ i = 7 \/ i = 8 \/ i = 9 \/ i = 10 \/ i = 11 \/ i = 12
    OBVIOUS
  <2> QED
    BY <2>1, <1>5, <1>6, <1>7, <1>10
<1>12. \A i \in 1 .. 9 : x[i].op \in {"until", "while", "click"}
  <2>1. \A i \in 1 .. 9 : i = 1 \/ i = 2 \/ i = 3 \/ i = 4 \/ i = 5 \/ i = 6 \/ i = 7 \/ i = 8 \/ i = 9
    OBVIOUS
  <2> QED
    BY <2>1, <1>8, <1>10
<1>13. LogoutShape(x)
  BY <1>4, <1>8, <1>10, <1>11, <1>12 DEF LogoutShape, s10, s11
<1> QED
  BY <1>9, <1>13

\* a board of Grafana is opened by the fourteen steps after step n
BoardAt(at, submenu, v, n, sc) ==
    /\ \A i \in n + 1 .. n + 11 : sc[i] \in PlainSteps(at) /\ sc[i].op \in {"until", "click"}
    /\ sc[n + 12] = Click(at, <<"link", submenu>>)
    /\ sc[n + 13] = Until({v}, <<Look("found", <<"page", v>>, FALSE), Look("found", <<"page", v>>, FALSE)>>)
    /\ sc[n + 14] \in PlainSteps({v}) /\ sc[n + 14].op = "read"
    /\ \A i \in n + 1 .. n + 14 : sc[i] \in Harmless
LEMMA FromZero == 0 + 1 = 1 /\ 0 + 11 = 11 /\ 0 + 12 = 12 /\ 0 + 13 = 13 /\ 0 + 14 = 14
  OBVIOUS
LEMMA UpToFourteen == \A i \in 1 .. 14 : i = 1 \/ i = 2 \/ i = 3 \/ i = 4 \/ i = 5 \/ i = 6 \/ i = 7 \/ i = 8 \/ i = 9 \/ i = 10 \/ i = 11 \/ i = 12 \/ i = 13 \/ i = 14
  OBVIOUS
LEMMA UpToEleven == \A i \in 1 .. 11 : i = 1 \/ i = 2 \/ i = 3 \/ i = 4 \/ i = 5 \/ i = 6 \/ i = 7 \/ i = 8 \/ i = 9 \/ i = 10 \/ i = 11
  OBVIOUS
LEMMA BoardTyped ==
    ASSUME NEW S, NEW a \in S, NEW b \in S, NEW c \in S, NEW d \in S, NEW e \in S, NEW f \in S, NEW g \in S, NEW h \in S, NEW i \in S, NEW j \in S, NEW k \in S, NEW l \in S, NEW m \in S, NEW n \in S
    PROVE  BoardOf(a, b, c, d, e, f, g, h, i, j, k, l, m, n) \in Seq(S)
<1> DEFINE p == <<a, b, c>>
           q == <<d, e, f>>
           r == <<g, h, i>>
           s == <<j, k, l>>
           t == <<m, n>>
<1>1. p \in Seq(S) /\ q \in Seq(S) /\ r \in Seq(S) /\ s \in Seq(S) /\ t \in Seq(S)
  BY Two, Three
<1> HIDE DEF p, q, r, s, t
<1>2. p \o q \in Seq(S)
  BY <1>1, Joined
<1>3. (p \o q) \o r \in Seq(S)
  BY <1>1, <1>2, Joined
<1>4. ((p \o q) \o r) \o s \in Seq(S)
  BY <1>1, <1>3, Joined
<1>5. (((p \o q) \o r) \o s) \o t \in Seq(S)
  BY <1>1, <1>4, Joined
<1> QED
  BY <1>5 DEF BoardOf, p, q, r, s, t
LEMMA BoardSteps ==
    ASSUME NEW at \in SUBSET Views, NEW submenu \in {"Data Center", "Hosts"}, NEW v \in Grafana
    PROVE  LET b == OpenBoard(at, submenu, v) IN b \in Seq(Harmless) /\ Len(b) = 14 /\ BoardAt(at, submenu, v, 0, b)
<1> DEFINE s1 == Until(at, <<Look("shown", <<"link", "logo">>, TRUE)>>)
           s2 == Until(at, <<Look("enabled", <<"link", "logo">>, TRUE)>>)
           s3 == Click(at, <<"link", "logo">>)
           s4 == Until(at, <<Look("shown", <<"link", "Home">>, TRUE)>>)
           s5 == Until(at, <<Look("enabled", <<"link", "Home">>, TRUE)>>)
           s6 == Click(at, <<"link", "Home">>)
           s7 == Until(at, <<Look("shown", <<"link", "menu">>, TRUE)>>)
           s8 == Until(at, <<Look("enabled", <<"link", "menu">>, TRUE)>>)
           s9 == Click(at, <<"link", "menu">>)
           s10 == Until(at, <<Look("shown", <<"link", submenu>>, TRUE)>>)
           s11 == Until(at, <<Look("enabled", <<"link", submenu>>, TRUE)>>)
           s12 == Click(at, <<"link", submenu>>)
           s13 == Until({v}, <<Look("found", <<"page", v>>, FALSE), Look("found", <<"page", v>>, FALSE)>>)
           s14 == Read({v}, <<Look("absent", <<"alert", "error">>, FALSE)>>)
<1>1. /\ \A n \in {"logo", "Home", "menu", submenu} : <<"link", n>> \in Targets /\ <<"link", n>> \in SafeTargets
      /\ <<"page", v>> \in Targets /\ <<"alert", "error">> \in Targets /\ {v} \in SUBSET Views
  BY AnyTarget, LinkTargets
<1>2. /\ \A n \in {"logo", "Home", "menu", submenu} :
             Look("shown", <<"link", n>>, TRUE) \in Questions /\ Look("enabled", <<"link", n>>, TRUE) \in Questions
      /\ Look("found", <<"page", v>>, FALSE) \in Questions /\ Look("absent", <<"alert", "error">>, FALSE) \in Questions
  BY <1>1, AQuestion DEF LookKinds, FindOnly
<1>3. s13 \in PlainSteps({v}) /\ s14 \in PlainSteps({v})
  BY <1>1, <1>2, OneQuestion, TwoQuestions DEF Until, Read
<1>4. \A n \in {"logo", "Home", "menu", submenu} :
          /\ Until(at, <<Look("shown", <<"link", n>>, TRUE)>>) \in PlainSteps(at)
          /\ Until(at, <<Look("enabled", <<"link", n>>, TRUE)>>) \in PlainSteps(at)
  BY <1>2, OneQuestion DEF Until
<1>5. s3 \in PlainSteps(at) /\ s6 \in PlainSteps(at) /\ s9 \in PlainSteps(at)
  BY <1>1, LinkTargets, AClickStep DEF Click
<1>6. s12 \in Harmless
  BY <1>1, AClickStep DEF Click
<1>7. /\ s1 \in PlainSteps(at) /\ s2 \in PlainSteps(at) /\ s4 \in PlainSteps(at) /\ s5 \in PlainSteps(at)
      /\ s7 \in PlainSteps(at) /\ s8 \in PlainSteps(at) /\ s10 \in PlainSteps(at) /\ s11 \in PlainSteps(at)
  BY <1>4
<1>8. s1.op \in {"until", "click"} /\ s2.op \in {"until", "click"} /\ s3.op \in {"until", "click"} /\ s4.op \in {"until", "click"} /\ s5.op \in {"until", "click"} /\ s6.op \in {"until", "click"} /\ s7.op \in {"until", "click"} /\ s8.op \in {"until", "click"} /\ s9.op \in {"until", "click"} /\ s10.op \in {"until", "click"} /\ s11.op \in {"until", "click"} /\ s14.op = "read"
  BY DEF Until, Read, Click, Step
<1>9. s1 \in Harmless /\ s2 \in Harmless /\ s3 \in Harmless /\ s4 \in Harmless /\ s5 \in Harmless /\ s6 \in Harmless /\ s7 \in Harmless /\ s8 \in Harmless /\ s9 \in Harmless /\ s10 \in Harmless /\ s11 \in Harmless /\ s12 \in Harmless /\ s13 \in Harmless /\ s14 \in Harmless
  BY <1>3, <1>5, <1>6, <1>7, PlainIsHarmless
<1> DEFINE x == BoardOf(s1, s2, s3, s4, s5, s6, s7, s8, s9, s10, s11, s12, s13, s14)
<1>10. OpenBoard(at, submenu, v) = x
  BY DEF OpenBoard, XpathWaitAndClick, BoardOf
<1> HIDE DEF s1, s2, s3, s4, s5, s6, s7, s8, s9, s10, s11, s12, s13, s14
<1>11. /\ Len(x) = 14
       /\ x[1] = s1 /\ x[2] = s2 /\ x[3] = s3 /\ x[4] = s4 /\ x[5] = s5 /\ x[6] = s6 /\ x[7] = s7 /\ x[8] = s8 /\ x[9] = s9
       /\ x[10] = s10 /\ x[11] = s11 /\ x[12] = s12 /\ x[13] = s13 /\ x[14] = s14
  <2>1. BoardIs(x, s1, s2, s3, s4, s5, s6, s7, s8, s9, s10, s11, s12, s13, s14)
    BY BoardJoined
  <2> HIDE DEF x
  <2> QED
    BY <2>1 DEF BoardIs
<1>12. x \in Seq(Harmless)
  BY <1>9, BoardTyped
<1> HIDE DEF x
<1>13. \A i \in 1 .. 14 : x[i] \in Harmless
  BY UpToFourteen, <1>9, <1>11
<1>14. \A i \in 1 .. 11 : x[i] \in PlainSteps(at) /\ x[i].op \in {"until", "click"}
  BY UpToEleven, <1>5, <1>7, <1>8, <1>11
<1>15. BoardAt(at, submenu, v, 0, x)
  <2>1. x[12] = Click(at, <<"link", submenu>>)
    BY <1>11 DEF s12
  <2>2. x[13] = Until({v}, <<Look("found", <<"page", v>>, FALSE), Look("found", <<"page", v>>, FALSE)>>)
    BY <1>11 DEF s13
  <2>3. x[14] \in PlainSteps({v}) /\ x[14].op = "read"
    BY <1>3, <1>8, <1>11
  <2> QED
    BY <2>1, <2>2, <2>3, FromZero, <1>13, <1>14 DEF BoardAt
<1> QED
  BY <1>10, <1>11, <1>12, <1>15

GrafanaShape(sc) ==
    /\ Len(sc) = 34
    /\ sc[1] = Step("get", Views, << >>)
    /\ sc[2] = Until({"welcome"}, <<Look("shown", <<"page", "welcome">>, FALSE)>>)
    /\ sc[3] = BareClick({"welcome"}, <<"link", "grafana">>)
    /\ sc[4] = Until({"grafana_login"}, <<Look("shown", <<"link", "oauth">>, FALSE)>>)
    /\ sc[5] = Click({"grafana_login"}, <<"link", "oauth">>)
    /\ sc[6] = Until({"grafana"}, <<Look("shown", <<"page", "grafana">>, FALSE)>>)
    /\ BoardAt({"grafana"}, "Data Center", "grafana_dc", 6, sc)
    /\ BoardAt({"grafana_dc"}, "Hosts", "grafana_hosts", 20, sc)
    /\ \A i \in 1 .. 34 : sc[i] \in Harmless
LEMMA BoardMoves ==
    ASSUME NEW at, NEW submenu, NEW v, NEW n \in Nat, NEW b, NEW x, BoardAt(at, submenu, v, 0, b),
           \A i \in 1 .. 14 : x[n + i] = b[i]
    PROVE  BoardAt(at, submenu, v, n, x)
<1>1. \A i \in n + 1 .. n + 14 : i - n \in 1 .. 14 /\ x[i] = b[i - n]
  <2> SUFFICES ASSUME NEW i \in n + 1 .. n + 14 PROVE i - n \in 1 .. 14 /\ x[i] = b[i - n]
    OBVIOUS
  <2>1. i - n \in 1 .. 14 /\ n + (i - n) = i
    OBVIOUS
  <2> QED
    BY <2>1
<1>2. x[n + 12] = b[12] /\ x[n + 13] = b[13] /\ x[n + 14] = b[14]
  OBVIOUS
<1>3. \A i \in n + 1 .. n + 11 : i \in n + 1 .. n + 14 /\ i - n \in 1 .. 11
  OBVIOUS
<1>4. /\ \A i \in 1 .. 11 : b[i] \in PlainSteps(at) /\ b[i].op \in {"until", "click"}
      /\ \A i \in 1 .. 14 : b[i] \in Harmless
  BY DEF BoardAt
<1>5. \A i \in n + 1 .. n + 11 : x[i] \in PlainSteps(at) /\ x[i].op \in {"until", "click"}
  BY <1>1, <1>3, <1>4
<1>6. \A i \in n + 1 .. n + 14 : x[i] \in Harmless
  BY <1>1, <1>4
<1> QED
  BY <1>2, <1>5, <1>6 DEF BoardAt

LEMMA SixJoined ==
    ASSUME NEW a, NEW b, NEW c, NEW d, NEW e, NEW f
    PROVE  LET x == <<a>> \o <<b, c>> \o <<d, e, f>> IN
           Len(x) = 6 /\ x[1] = a /\ x[2] = b /\ x[3] = c /\ x[4] = d /\ x[5] = e /\ x[6] = f
  OBVIOUS
LEMMA GrafanaScript == GrafanaShape(Script["grafana"])
<1> DEFINE s1 == Step("get", Views, << >>)
           s2 == Until({"welcome"}, <<Look("shown", <<"page", "welcome">>, FALSE)>>)
           s3 == BareClick({"welcome"}, <<"link", "grafana">>)
           s4 == Until({"grafana_login"}, <<Look("shown", <<"link", "oauth">>, FALSE)>>)
           s5 == Click({"grafana_login"}, <<"link", "oauth">>)
           s6 == Until({"grafana"}, <<Look("shown", <<"page", "grafana">>, FALSE)>>)
           h == <<s1>> \o <<s2, s3>> \o <<s4, s5, s6>>
           b == OpenBoard({"grafana"}, "Data Center", "grafana_dc")
           d == OpenBoard({"grafana_dc"}, "Hosts", "grafana_hosts")
<1>1. {"welcome"} \in SUBSET Views /\ {"grafana_login"} \in SUBSET Views /\ {"grafana"} \in SUBSET Views /\ {"grafana_dc"} \in SUBSET Views
      /\ "grafana_dc" \in Grafana /\ "grafana_hosts" \in Grafana /\ "grafana" \in Views /\ "welcome" \in Views
  BY LinkTargets DEF Grafana
<1>2. s1 \in Harmless /\ s3 \in Harmless /\ s5 \in Harmless
  BY <1>1, LinkTargets, ASilentStep, AClickStep DEF BareClick, Click, SilentOps
<1>3. s2 \in Harmless /\ s4 \in Harmless /\ s6 \in Harmless
  <2>1. /\ Look("shown", <<"page", "welcome">>, FALSE) \in Questions /\ Look("shown", <<"link", "oauth">>, FALSE) \in Questions
        /\ Look("shown", <<"page", "grafana">>, FALSE) \in Questions
    BY <1>1, AnyTarget, LinkTargets, AQuestion DEF LookKinds
  <2> QED
    BY <1>1, <2>1, OneQuestion, PlainIsHarmless DEF Until
<1>4. Script["grafana"] = (h \o b) \o d
  BY DEF Script, Welcome
<1> HIDE DEF s1, s2, s3, s4, s5, s6
<1>5. Len(h) = 6 /\ h[1] = s1 /\ h[2] = s2 /\ h[3] = s3 /\ h[4] = s4 /\ h[5] = s5 /\ h[6] = s6
  BY SixJoined
<1>6. h \in Seq(Harmless)
  <2> DEFINE p == <<s1>>
             q == <<s2, s3>>
             r == <<s4, s5, s6>>
  <2>1. p \in Seq(Harmless) /\ q \in Seq(Harmless) /\ r \in Seq(Harmless)
    BY <1>2, <1>3, One, Two, Three
  <2> HIDE DEF p, q, r
  <2>2. p \o q \o r \in Seq(Harmless)
    BY <2>1
  <2> QED
    BY <2>2 DEF p, q, r
<1>7. /\ b \in Seq(Harmless) /\ Len(b) = 14 /\ BoardAt({"grafana"}, "Data Center", "grafana_dc", 0, b)
      /\ d \in Seq(Harmless) /\ Len(d) = 14 /\ BoardAt({"grafana_dc"}, "Hosts", "grafana_hosts", 0, d)
  BY <1>1, BoardSteps
<1> HIDE DEF h, b, d
<1> DEFINE hb == h \o b
<1>8. JoinedAs(hb, h, b) /\ hb \in Seq(Harmless)
  BY <1>6, <1>7, Joined
<1> HIDE DEF hb
<1> DEFINE x == hb \o d
<1>9. JoinedAs(x, hb, d) /\ x \in Seq(Harmless)
  BY <1>7, <1>8, Joined
<1>10. x = Script["grafana"]
  BY <1>4 DEF x, hb
<1> HIDE DEF x
<1>11. Len(h) = 6 /\ Len(b) = 14 /\ Len(d) = 14
  BY <1>5, <1>7
<1>12. Len(hb) = 20 /\ (\A i \in 1 .. 6 : hb[i] = h[i]) /\ (\A i \in 7 .. 20 : hb[i] = b[i - 6])
  BY <1>8, <1>11 DEF JoinedAs
<1>13. Len(x) = 34 /\ (\A i \in 1 .. 20 : x[i] = hb[i]) /\ (\A i \in 21 .. 34 : x[i] = d[i - 20])
  BY <1>9, <1>11, <1>12 DEF JoinedAs
<1>14. (\A i \in 1 .. 6 : x[i] = h[i]) /\ (\A i \in 1 .. 14 : x[6 + i] = b[i]) /\ (\A i \in 1 .. 14 : x[20 + i] = d[i])
  <2>1. \A i \in 1 .. 6 : x[i] = h[i]
    BY <1>12, <1>13
  <2>2. \A i \in 1 .. 14 : x[6 + i] = b[i]
    <3> SUFFICES ASSUME NEW i \in 1 .. 14 PROVE x[6 + i] = b[i]
      OBVIOUS
    <3>1. 6 + i \in 7 .. 20 /\ 6 + i \in 1 .. 20 /\ (6 + i) - 6 = i
      OBVIOUS
    <3> QED
      BY <3>1, <1>12, <1>13
  <2>3. \A i \in 1 .. 14 : x[20 + i] = d[i]
    <3> SUFFICES ASSUME NEW i \in 1 .. 14 PROVE x[20 + i] = d[i]
      OBVIOUS
    <3>1. 20 + i \in 21 .. 34 /\ (20 + i) - 20 = i
      OBVIOUS
    <3> QED
      BY <3>1, <1>13
  <2> QED
    BY <2>1, <2>2, <2>3
<1>15. BoardAt({"grafana"}, "Data Center", "grafana_dc", 6, x)
  BY <1>7, <1>14, BoardMoves
<1>16. BoardAt({"grafana_dc"}, "Hosts", "grafana_hosts", 20, x)
  BY <1>7, <1>14, BoardMoves
<1>17. \A i \in 1 .. 34 : x[i] \in Harmless
  <2>1. \A i \in 1 .. Len(x) : x[i] \in Harmless
    BY <1>9, SeqElements
  <2> QED
    BY <2>1, <1>13
<1>18. x[1] = s1 /\ x[2] = s2 /\ x[3] = s3 /\ x[4] = s4 /\ x[5] = s5 /\ x[6] = s6
  BY <1>5, <1>14
<1>19. GrafanaShape(x)
  BY <1>13, <1>15, <1>16, <1>17, <1>18 DEF GrafanaShape, s1, s2, s3, s4, s5, s6
<1> QED
  BY <1>10, <1>19

-----------------------------------------------------------------------------
(* What a page shows tells which page it is.                                *)

Shows(p, e) == \/ /\ e \in Content(p.main) \cup DialogContent(p.dialog)
                  /\ e = <<"link", "Start">> => p.menu = "Upload"
               \/ p.notif /\ e = <<"notification", "x">>

LEMMA ContentShown ==
    ASSUME NEW p, NEW e, Shows(p, e)
    PROVE  /\ e[1] \in {"page", "link", "menu", "row", "text"} => e \in Content(p.main)
           /\ e[1] = "field" => e \in DialogContent(p.dialog)
           /\ e = <<"link", "Start">> => p.menu = "Upload"
<1>1. \A x \in DialogContent(p.dialog) : x[1] \in {"dialog", "ok", "cancel", "field"}
  BY DEF DialogContent
<1>2. \A x \in Content(p.main) : x[1] \in {"page", "button", "link", "menu", "anchor", "row", "text"}
  <2> SUFFICES ASSUME NEW v, NEW x \in Content(v)
               PROVE  x[1] \in {"page", "button", "link", "menu", "anchor", "row", "text"}
    OBVIOUS
  <2>1. \/ x = <<"page", v>> \/ (\E b \in Buttons(v) : x = <<"button", b>>) \/ (\E n \in Links(v) : x = <<"link", n>>)
        \/ (\E m \in {"left", "nav", "compute", "storage", "user", "logout"} : x = <<"menu", m>>)
        \/ (\E w \in ListViews \cup {"dashboard"} : x = <<"anchor", w>>)
        \/ x = <<"row", v>> \/ x = <<"text", "No items to display">> \/ x = <<"link", "Host Devices">>
    BY Zenon DEF Content
  <2>2. CASE \E b \in Buttons(v) : x = <<"button", b>>
    BY <2>2
  <2>3. CASE \E n \in Links(v) : x = <<"link", n>>
    BY <2>3
  <2>4. CASE \E m \in {"left", "nav", "compute", "storage", "user", "logout"} : x = <<"menu", m>>
    BY <2>4
  <2>5. CASE \E w \in ListViews \cup {"dashboard"} : x = <<"anchor", w>>
    BY <2>5
  <2>6. CASE x = <<"page", v>>
    BY <2>6
  <2>7. CASE x = <<"row", v>>
    BY <2>7
  <2>8. CASE x = <<"text", "No items to display">>
    BY <2>8
  <2>9. CASE x = <<"link", "Host Devices">>
    BY <2>9
  <2> QED
    BY <2>1, <2>2, <2>3, <2>4, <2>5, <2>6, <2>7, <2>8, <2>9
<1>3. e = <<"notification", "x">> => e[1] = "notification"
  OBVIOUS
<1> QED
  BY <1>1, <1>2, <1>3 DEF Shows

LEMMA PagesShown ==
    ASSUME NEW v
    PROVE  /\ \A x : <<"page", x>> \in Content(v) => v = x
           /\ \A x : <<"row", x>> \in Content(v) => v = x
           /\ <<"text", "No items to display">> \in Content(v) => v = "pools"
           /\ <<"menu", "left">> \in Content(v) => v \in WebAdmin
<1>1. ASSUME NEW x, <<"page", x>> \in Content(v) PROVE v = x
  BY <1>1 DEF Content
<1>2. ASSUME NEW x, <<"row", x>> \in Content(v) PROVE v = x
  BY <1>2 DEF Content
<1>3. <<"text", "No items to display">> \in Content(v) => v = "pools"
  BY DEF Content
<1>4. <<"menu", "left">> \in Content(v) => v \in WebAdmin
  BY DEF Content
<1> QED
  BY <1>1, <1>2, <1>3, <1>4

LEMMA LinksShown ==
    ASSUME NEW v \in Views
    PROVE  /\ \A n \in {"webadmin", "portal"} : <<"link", n>> \in Content(v) => v = "welcome"
           /\ <<"link", "username">> \in Content(v) => v = "login"
           /\ <<"link", "oauth">> \in Content(v) => v = "grafana_login"
<1>1. \A n : <<"link", n>> \in Content(v) => n \in Links(v) \/ n = "Host Devices"
  BY DEF Content
<1>2. \A n \in {"webadmin", "portal"} : n \in Links(v) => v = "welcome"
  BY DEF Links, Grafana
<1>3. "username" \in Links(v) => v = "login"
  BY DEF Links, Grafana
<1>4. "oauth" \in Links(v) => v = "grafana_login"
  BY DEF Links, Grafana
<1> QED
  BY <1>1, <1>2, <1>3, <1>4

\* what a look that was answered well has seen
Saw(l, p) ==
    /\ l.k \in {"present", "found", "shown"} => Shows(p, l.e)
    /\ l.k = "crumbs" => p.crumbs = l.e[2]
    /\ l.k = "rows" => Shows(p, l.e) \/ Shows(p, <<"text", "No items to display">>)
    /\ l.k = "named" => p.disk = "listed"

-----------------------------------------------------------------------------
(* Where a click leads.                                                     *)

SamePage(p, q) == q.main = p.main /\ q.goal = p.goal /\ q.crumbs = p.crumbs /\ q.after = p.after
Quiet(e, value) ==
    /\ \/ e \in PlainTargets
       \/ e \in {<<"link", "Start">>, <<"ok", "upload">>}
       \/ e[1] = "field"
    /\ e[1] = "row" => value # << >>
Leads(e, value, p, q) ==
    /\ q.main = p.main /\ q.crumbs = p.crumbs
    /\ Quiet(e, value) => q.goal = p.goal /\ q.after = p.after
    /\ e = <<"link", "webadmin">> => q.goal \in {"login", "dashboard"} /\ q.after = "dashboard"
    /\ e = <<"link", "portal">> => q.goal \in {"login", "portal"} /\ q.after = "portal"
    /\ e = <<"link", "grafana">> => q.goal = "grafana_login"
    /\ e = <<"link", "oauth">> => q.goal \in {"login", "grafana"}
    /\ e = <<"link", "log in">> => q.goal = p.after
    /\ e[1] = "anchor" => q.goal = e[2]
    /\ e[1] = "row" /\ value = << >> => q.goal = "vm"
    /\ e = <<"link", "Host Devices">> => q.goal = "vm_devices"
    /\ e = <<"link", "Data Center">> => q.goal = "grafana_dc"
    /\ e = <<"link", "Hosts">> => q.goal = "grafana_hosts"


\* an element is what its kind and name are
Named(e) ==
    /\ e = <<"link", "webadmin">> <=> e[1] = "link" /\ e[2] = "webadmin"
    /\ e = <<"link", "portal">> <=> e[1] = "link" /\ e[2] = "portal"
    /\ e = <<"link", "grafana">> <=> e[1] = "link" /\ e[2] = "grafana"
    /\ e = <<"link", "oauth">> <=> e[1] = "link" /\ e[2] = "oauth"
    /\ e = <<"link", "log in">> <=> e[1] = "link" /\ e[2] = "log in"
    /\ e = <<"menu", "logout">> <=> e[1] = "menu" /\ e[2] = "logout"
    /\ e = <<"link", "Host Devices">> <=> e[1] = "link" /\ e[2] = "Host Devices"
    /\ e = <<"link", "Data Center">> <=> e[1] = "link" /\ e[2] = "Data Center"
    /\ e = <<"link", "Hosts">> <=> e[1] = "link" /\ e[2] = "Hosts"
    /\ e = <<"link", "Power Off">> <=> e[1] = "link" /\ e[2] = "Power Off"
    /\ e = <<"link", "Run Once">> <=> e[1] = "link" /\ e[2] = "Run Once"
    /\ e = <<"button", "Manage vGPU">> <=> e[1] = "button" /\ e[2] = "Manage vGPU"
    /\ e = <<"link", "Start">> <=> e[1] = "link" /\ e[2] = "Start"
    /\ e = <<"ok", "upload">> <=> e[1] = "ok" /\ e[2] = "upload"
    /\ e = <<"ok", "poweroff">> <=> e[1] = "ok" /\ e[2] = "poweroff"
    /\ e = <<"ok", "runonce">> <=> e[1] = "ok" /\ e[2] = "runonce"
LEMMA PairIs == ASSUME NEW A, NEW B, NEW e \in A \X B, NEW a, NEW b PROVE e = <<a, b>> <=> e[1] = a /\ e[2] = b
  OBVIOUS
LEMMA TargetsNamed == ASSUME NEW e \in Targets PROVE Named(e)
<1>1. e \in TargetKinds \X Names
  BY DEF Targets
<1>2. \A a, b : e = <<a, b>> <=> e[1] = a /\ e[2] = b
  BY <1>1, PairIs
<1> QED
  BY <1>2 DEF Named
LEMMA ClickedLeads ==
    ASSUME page \in Pages, NEW e \in Targets, NEW value
    PROVE  Leads(e, value, page, Clicked(e, value))
<1> DEFINE q == Clicked(e, value)
<1>0. Named(e)
  BY TargetsNamed
<1>1. q.main = page.main /\ q.crumbs = page.crumbs
  BY DEF Clicked, GoTo, Pages
<1>2. e = <<"link", "webadmin">> => q.goal \in {"login", "dashboard"} /\ q.after = "dashboard"
  BY <1>0 DEF Named, Clicked, GoTo, Pages
<1>3. e = <<"link", "portal">> => q.goal \in {"login", "portal"} /\ q.after = "portal"
  BY <1>0 DEF Named, Clicked, GoTo, Pages
<1>4. e = <<"link", "grafana">> => q.goal = "grafana_login"
  BY <1>0 DEF Named, Clicked, GoTo, Pages
<1>5. e = <<"link", "oauth">> => q.goal \in {"login", "grafana"}
  BY <1>0 DEF Named, Clicked, GoTo, Pages
<1>6. e = <<"link", "log in">> => q.goal = page.after
  BY <1>0 DEF Named, Clicked, GoTo, Pages
<1>7. e[1] = "anchor" => q.goal = e[2]
  BY <1>0 DEF Named, Clicked, GoTo, Pages
<1>8. e[1] = "row" /\ value = << >> => q.goal = "vm"
  BY <1>0 DEF Named, Clicked, GoTo, Pages
<1>9. e = <<"link", "Host Devices">> => q.goal = "vm_devices"
  BY <1>0 DEF Named, Clicked, GoTo, Pages
<1>10. e = <<"link", "Data Center">> => q.goal = "grafana_dc"
  BY <1>0 DEF Named, Clicked, GoTo, Pages
<1>11. e = <<"link", "Hosts">> => q.goal = "grafana_hosts"
  BY <1>0 DEF Named, Clicked, GoTo, Pages
<1>12. Quiet(e, value) => q.goal = page.goal /\ q.after = page.after
  <2>1. CASE e[1] = "link"
    <3>1. Quiet(e, value) => e[2] \in {"Power Off", "Run Once", "username", "password", "logo", "Home", "menu", "Start"}
      BY <1>0, <2>1 DEF Named, Quiet, PlainTargets
    <3> QED
      BY <1>0, <2>1, <3>1 DEF Named, Clicked, GoTo, Pages
  <2>2. CASE e[1] # "link"
    <3>1. Quiet(e, value) => e[1] \in {"button", "notification", "cancel", "row", "ok", "field"} /\ (e[1] = "row" => value # << >>)
      BY <1>0, <2>2 DEF Named, Quiet, PlainTargets
    <3>2. CASE e[1] = "row" /\ value # << >>
      <4>1. q = [page EXCEPT !.sel = value[1]]
        BY <1>0, <3>2 DEF Named, Clicked
      <4>2. q.goal = page.goal
        BY <4>1 DEF Pages
      <4>3. q.after = page.after
        BY <4>1 DEF Pages
      <4> HIDE DEF q
      <4> QED
        BY <4>2, <4>3
    <3>3. CASE e[1] \in {"field", "ok"}
      BY <1>0, <3>3 DEF Named, Clicked, GoTo, Pages
    <3>4. CASE e[1] \in {"button", "notification", "cancel"}
      BY <1>0, <3>4 DEF Named, Clicked, GoTo, Pages
    <3> QED
      BY <3>1, <3>2, <3>3, <3>4
  <2> QED
    BY <2>1, <2>2
<1> QED
  BY <1>1, <1>2, <1>3, <1>4, <1>5, <1>6, <1>7, <1>8, <1>9, <1>10, <1>11, <1>12 DEF Leads

-----------------------------------------------------------------------------
(* The client.                                                              *)

Perilous(t) == IF t = "virtual_machines" THEN {27} ELSE IF t = "disks" THEN 11 .. 16 ELSE {}
LEMMA ScriptFacts ==
    ASSUME NEW t \in DOMAIN Script
    PROVE  /\ Len(Script[t]) \in Nat \ {0}
           /\ \A i \in 1 .. Len(Script[t]) : Script[t][i] \in Steps /\ (i \notin Perilous(t) => Script[t][i] \in Harmless)
<1> DEFINE Typed(sc) == Len(sc) \in Nat \ {0} /\ \A i \in 1 .. Len(sc) : sc[i] \in Steps /\ (i \notin Perilous(t) => sc[i] \in Harmless)
<1>0. Harmless \subseteq Steps
  BY PlainIsHarmless
<1>1. t \in (ListTests \ {"disks"}) \cup {"disks", "virtual_machines", "login", "userportal", "dashboard", "logout", "grafana"}
  BY DEF Script, ListTests
<1>2. ASSUME NEW sc, Len(sc) \in Nat \ {0}, \A i \in 1 .. Len(sc) : sc[i] \in Harmless PROVE Typed(sc)
  BY <1>0, <1>2
<1>3. CASE t \in ListTests \ {"disks"}
  <2>1. Script[t] \in Seq(Harmless) /\ Len(Script[t]) >= 5
    BY <1>3, ListScripts DEF ListShape
  <2>2. \A i \in 1 .. Len(Script[t]) : Script[t][i] \in Harmless
    BY <2>1, SeqElements
  <2>3. Len(Script[t]) \in Nat \ {0}
    BY <2>1
  <2> QED
    BY <1>2, <2>2, <2>3
<1>4. CASE t = "disks"
  <2> DEFINE sc == Script["disks"]
  <2>1. sc \in Seq(Steps) /\ Len(sc) = 16 /\ \A i \in 1 .. 10 : sc[i] \in Harmless
    BY DisksScript
  <2>2. \A i \in 1 .. Len(sc) : sc[i] \in Steps
    BY <2>1, SeqElements
  <2> HIDE DEF sc
  <2>3. \A i \in 1 .. 16 : i \notin 11 .. 16 => i \in 1 .. 10
    OBVIOUS
  <2>4. Perilous("disks") = 11 .. 16
    BY DEF Perilous
  <2>5. Typed(sc)
    BY <1>4, <2>1, <2>2, <2>3, <2>4
  <2> QED
    BY <1>4, <2>5 DEF sc
<1>5. CASE t = "virtual_machines"
  <2> DEFINE sc == Script["virtual_machines"]
  <2>1. sc \in Seq(Steps) /\ Len(sc) = 47 /\ \A i \in 1 .. 47 : i # 27 => sc[i] \in Harmless
    BY VmScript DEF VmShape
  <2>2. \A i \in 1 .. Len(sc) : sc[i] \in Steps
    BY <2>1, SeqElements
  <2> HIDE DEF sc
  <2>4. Perilous("virtual_machines") = {27}
    BY DEF Perilous
  <2>5. Typed(sc)
    BY <1>5, <2>1, <2>2, <2>4
  <2> QED
    BY <1>5, <2>5 DEF sc
<1>6. CASE t \in {"login", "userportal", "dashboard", "logout", "grafana"}
  <2>1. Typed(Script["login"])
    <3>1. Len(Script["login"]) = 9 /\ \A i \in 1 .. 9 : Script["login"][i] \in Harmless
      BY LoginScript DEF EntryShape
    <3>2. Len(Script["login"]) \in Nat \ {0}
      BY <3>1
    <3> QED
      BY <1>2, <3>1, <3>2
  <2>2. Typed(Script["userportal"])
    <3>1. Len(Script["userportal"]) = 8 /\ \A i \in 1 .. 8 : Script["userportal"][i] \in Harmless
      BY PortalScript DEF EntryShape
    <3>2. Len(Script["userportal"]) \in Nat \ {0}
      BY <3>1
    <3> QED
      BY <1>2, <3>1, <3>2
  <2>3. Typed(Script["dashboard"])
    <3>1. Len(Script["dashboard"]) = 5 /\ \A i \in 1 .. 5 : Script["dashboard"][i] \in Harmless
      BY DashboardScript DEF DashboardShape
    <3>2. Len(Script["dashboard"]) \in Nat \ {0}
      BY <3>1
    <3> QED
      BY <1>2, <3>1, <3>2
  <2>4. Typed(Script["logout"])
    <3>1. Len(Script["logout"]) = 12 /\ \A i \in 1 .. 12 : Script["logout"][i] \in Harmless
      BY LogoutScript DEF LogoutShape
    <3>2. Len(Script["logout"]) \in Nat \ {0}
      BY <3>1
    <3> QED
      BY <1>2, <3>1, <3>2
  <2>5. Typed(Script["grafana"])
    <3>1. Len(Script["grafana"]) = 34 /\ \A i \in 1 .. 34 : Script["grafana"][i] \in Harmless
      BY GrafanaScript DEF GrafanaShape
    <3>2. Len(Script["grafana"]) \in Nat \ {0}
      BY <3>1
    <3> QED
      BY <1>2, <3>1, <3>2
  <2> QED
    BY <1>6, <2>1, <2>2, <2>3, <2>4, <2>5
<1> QED
  BY <1>1, <1>3, <1>4, <1>5, <1>6

LEMMA PlanFacts ==
    ASSUME NEW p \in Plans
    PROVE  /\ Len(p) \in Nat \ {0}
           /\ \A i \in 1 .. Len(p) : p[i] \in DOMAIN Script
           /\ \A i, j \in 1 .. Len(p) : p[i] = p[j] => i = j
<1>1. p \in Seq(DOMAIN Script) /\ p # << >> /\ \A i, j \in DOMAIN p : p[i] = p[j] => i = j
  BY UiAssumption
<1> DEFINE S == DOMAIN Script
<1> HIDE DEF S
<1>2. p \in Seq(S)
  BY <1>1 DEF S
<1>3. Len(p) \in Nat \ {0} /\ DOMAIN p = 1 .. Len(p) /\ \A i \in 1 .. Len(p) : p[i] \in S
  BY <1>1, <1>2
<1> QED
  BY <1>1, <1>3 DEF S

LEMMA Bounds == MaxPolls \in Nat \ {0} /\ MaxTries \in Nat \ {0} /\ Len(Browsers) \in Nat
  BY UiAssumption

\* what the driver keeps while a test runs
ClientOk(c, sc) ==
    /\ c \in Clients /\ c.s \in 1 .. Len(sc)
    /\ sc[c.s].looks # << >> => c.look \in 1 .. Len(sc[c.s].looks)
    /\ c.frame # "out" => c.outcome = "running" /\ InFrame(sc[c.s].op)
    /\ c.ref # "none" => c.outcome = "running" /\ sc[c.s].looks # << >> /\ (InFrame(sc[c.s].op) => c.frame = "in")
Same(c, d) == d.b = c.b /\ d.t = c.t

LEMMA RunningFacts ==
    ASSUME UiType, Running
    PROVE  /\ ClientOk(cl, TestScript) /\ TestScript = Script[plan[cl.t]] /\ plan[cl.t] \in DOMAIN Script
           /\ Len(TestScript) \in Nat \ {0} /\ \A i \in 1 .. Len(TestScript) : TestScript[i] \in Steps
           /\ St = TestScript[cl.s] /\ St \in Steps
           /\ St.looks # << >> => /\ cl.look \in 1 .. Len(St.looks) /\ Lk \in Looks
                                  /\ Lk.k = "click" <=> St.op \in ClickOps
                                  /\ Lk = St.looks[cl.look] /\ Len(St.looks) \in Nat \ {0}
                                  /\ Lk.r => St.op \in {"until", "while", "read", "if", "click"}
<1>1. plan[cl.t] \in DOMAIN Script
  BY PlanFacts DEF UiType
<1>2. Len(TestScript) \in Nat \ {0} /\ \A i \in 1 .. Len(TestScript) : TestScript[i] \in Steps
  BY <1>1, ScriptFacts DEF TestScript
<1>3. cl \in Clients /\ cl.s \in 1 .. Len(TestScript)
  BY DEF UiType
<1>4. St \in Steps /\ St = TestScript[cl.s]
  BY <1>2, <1>3 DEF St
<1>5. ClientOk(cl, TestScript)
  BY <1>3 DEF ClientOk, UiType, St, Running
<1>6. ASSUME St.looks # << >>
      PROVE  /\ cl.look \in 1 .. Len(St.looks) /\ Lk \in Looks
             /\ Lk.k = "click" <=> St.op \in ClickOps
             /\ Lk = St.looks[cl.look] /\ Len(St.looks) \in Nat \ {0}
             /\ Lk.r => St.op \in {"until", "while", "read", "if", "click"}
  <2>1. cl.look \in 1 .. Len(St.looks)
    BY <1>6 DEF UiType
  <2>2. St.looks \in Seq(Looks)
    BY <1>4 DEF Steps
  <2>3. Len(St.looks) \in Nat
    BY <2>2
  <2>4. Lk \in Looks
    BY <2>1, <2>2, SeqElements DEF Lk
  <2>5. \A i \in 1 .. Len(St.looks) : St.looks[i].k = "click" <=> St.op \in ClickOps
    BY <1>4 DEF Steps
  <2>6. St.op \notin {"until", "while", "read", "if", "click"} => \A i \in 1 .. Len(St.looks) : ~St.looks[i].r
    BY <1>4 DEF Steps
  <2> QED
    BY <2>1, <2>3, <2>4, <2>5, <2>6 DEF Lk
<1> QED
  BY <1>1, <1>2, <1>4, <1>5, <1>6 DEF TestScript

-----------------------------------------------------------------------------
(* What the driver makes of an answer or an exception.                      *)

Kept(c, d) == d \in Clients /\ d.b = c.b /\ d.t = c.t /\ d.frame = c.frame
\* it ends, tries the same look or the first again, goes on to the next look or by n steps
Ends(c, d) == Kept(c, d) /\ d.outcome = "failed" /\ d.s = c.s /\ d.look = c.look /\ d.ref = "none" /\ d.missed = c.missed
Again(c, d) ==
    /\ Kept(c, d) /\ d.outcome = "running" /\ d.s = c.s /\ d.look \in {1, c.look} /\ d.ref = "none"
    /\ d.missed = c.missed
After(c, d) == Kept(c, d) /\ d.outcome = "running" /\ d.s = c.s /\ d.look = c.look + 1 /\ d.ref = "none" /\ d.missed = c.missed
Ahead(c, d, n, sc, missed) ==
    /\ Kept(c, d) /\ d.ref = "none" /\ ~d.elem /\ d.missed = missed
    /\ IF c.s + n <= Len(sc) THEN d.outcome = "running" /\ d.s = c.s + n /\ d.look = 1
                             ELSE d.outcome = "passed" /\ d.s = c.s /\ d.look = c.look

Refs == {"none", "good", "stale"}
Tries == 0 .. MaxTries
Waits == 0 .. (MaxPolls + MaxTries)
Outcomes == {"running", "passed", "failed"}
LEMMA Small == 0 \in Tries /\ 0 \in Waits /\ 1 \in Nat /\ "none" \in Refs /\ FALSE \in BOOLEAN
  BY Bounds DEF Tries, Waits, Refs
\* the other fields
Others(c, d) == d.b = c.b /\ d.t = c.t /\ d.frame = c.frame /\ d.missed = c.missed
LEMMA FreshIs ==
    ASSUME cl \in Clients
    PROVE  /\ Fresh \in Clients /\ Others(cl, Fresh) /\ Fresh.s = cl.s /\ Fresh.look = cl.look /\ Fresh.outcome = cl.outcome
           /\ Fresh.ref = "none" /\ ~Fresh.elem
<1> DEFINE r == "none"
           t == 0
           w == 0
           m == FALSE
<1>1. r \in Refs /\ t \in Tries /\ w \in Waits /\ m \in BOOLEAN
  BY Small
<1>2. Fresh = [cl EXCEPT !.ref = r, !.tries = t, !.waits = w, !.elem = m]
  BY DEF Fresh
<1> HIDE DEF r, t, w, m
<1>3. /\ Fresh \in Clients /\ Others(cl, Fresh) /\ Fresh.s = cl.s /\ Fresh.look = cl.look /\ Fresh.outcome = cl.outcome
      /\ Fresh.ref = r /\ Fresh.elem = m
  <2>1. Fresh \in Clients
    BY <1>1, <1>2 DEF Clients, Refs, Tries, Waits
  <2>2. /\ Others(cl, Fresh) /\ Fresh.s = cl.s /\ Fresh.look = cl.look /\ Fresh.outcome = cl.outcome
        /\ Fresh.ref = r /\ Fresh.elem = m
    BY <1>1, <1>2 DEF Clients, Others
  <2> QED
    BY <2>1, <2>2
<1> QED
  BY <1>3 DEF r, m

LEMMA FailedEnds == ASSUME UiType, Running PROVE Ends(cl, Failed)
<1>1. cl \in Clients
  BY DEF UiType
<1> DEFINE f == Fresh
           o == "failed"
<1>2. f \in Clients /\ Others(cl, f) /\ f.s = cl.s /\ f.look = cl.look /\ f.ref = "none"
  BY <1>1, FreshIs
<1>3. Failed = [f EXCEPT !.outcome = o] /\ o \in Outcomes
  BY DEF Failed, Outcomes
<1> HIDE DEF f, o
<1>4. Failed \in Clients
  BY <1>2, <1>3 DEF Clients, Outcomes
<1>5. /\ Others(f, Failed) /\ Failed.s = f.s /\ Failed.look = f.look /\ Failed.ref = f.ref
      /\ Failed.outcome = o
  BY <1>2, <1>3 DEF Clients, Others
<1> QED
  BY <1>2, <1>4, <1>5 DEF Ends, Kept, Others, o

LEMMA JumpAhead ==
    ASSUME UiType, Running, NEW n \in 1 .. 3
    PROVE  Ahead(cl, Jump(n), n, TestScript, cl.missed)
<1>1. cl \in Clients /\ cl.outcome = "running" /\ Len(TestScript) \in Nat
  BY RunningFacts DEF ClientOk, Running
<1> DEFINE f == Fresh
           s == cl.s + n
           l == 1
           o == "passed"
<1>2. f \in Clients /\ Others(cl, f) /\ f.s = cl.s /\ f.look = cl.look /\ f.ref = "none" /\ ~f.elem /\ f.outcome = "running"
  BY <1>1, FreshIs
<1>3. s \in Nat /\ l \in Nat /\ o \in Outcomes
  BY <1>1 DEF Clients, Outcomes
<1>4. Jump(n) = IF s <= Len(TestScript) THEN [f EXCEPT !.s = s, !.look = l] ELSE [f EXCEPT !.outcome = o]
  BY <1>2 DEF Jump
<1> HIDE DEF f, s, l, o
<1>5. CASE s <= Len(TestScript)
  <2> DEFINE d == [f EXCEPT !.s = s, !.look = l]
  <2>1. d \in Clients
    BY <1>2, <1>3 DEF Clients
  <2>2. Others(f, d) /\ d.s = s /\ d.look = l /\ d.ref = f.ref /\ d.elem = f.elem /\ d.outcome = f.outcome
    BY <1>2 DEF Clients, Others
  <2>3. Jump(n) = d
    BY <1>4, <1>5
  <2> HIDE DEF d
  <2> QED
    BY <1>2, <1>5, <2>1, <2>2, <2>3 DEF Ahead, Kept, Others, s, l
<1>6. CASE ~(s <= Len(TestScript))
  <2> DEFINE d == [f EXCEPT !.outcome = o]
  <2>1. d \in Clients
    BY <1>2, <1>3 DEF Clients, Outcomes
  <2>2. Others(f, d) /\ d.s = f.s /\ d.look = f.look /\ d.ref = f.ref /\ d.elem = f.elem /\ d.outcome = o
    BY <1>2 DEF Clients, Others
  <2>3. Jump(n) = d
    BY <1>4, <1>6
  <2> HIDE DEF d
  <2> QED
    BY <1>2, <1>6, <2>1, <2>2, <2>3 DEF Ahead, Kept, Others, s, o
<1> QED
  BY <1>5, <1>6

LEMMA PollAgainStays ==
    ASSUME UiType, Running
    PROVE  (Again(cl, PollAgain) /\ PollAgain.elem = cl.elem) \/ Ends(cl, PollAgain)
<1>1. cl \in Clients /\ cl.outcome = "running"
  BY DEF UiType, Running
<1>2. CASE cl.waits + 1 < MaxPolls
  <2> DEFINE w == cl.waits + 1
             l == 1
             r == "none"
             t == 0
  <2>1. w \in Waits /\ l \in Nat /\ r \in Refs /\ t \in Tries
    BY <1>1, <1>2, Bounds, Small DEF Waits, Clients
  <2>2. PollAgain = [cl EXCEPT !.waits = w, !.look = l, !.ref = r, !.tries = t]
    BY <1>1, <1>2 DEF PollAgain, Clients
  <2> HIDE DEF w, l, r, t
  <2>3. /\ PollAgain \in Clients /\ Others(cl, PollAgain) /\ PollAgain.s = cl.s /\ PollAgain.look = l
        /\ PollAgain.outcome = cl.outcome /\ PollAgain.ref = r /\ PollAgain.elem = cl.elem
    <3>1. PollAgain \in Clients
      BY <1>1, <2>1, <2>2 DEF Clients, Refs, Tries, Waits
    <3>2. /\ Others(cl, PollAgain) /\ PollAgain.s = cl.s /\ PollAgain.look = l
          /\ PollAgain.outcome = cl.outcome /\ PollAgain.ref = r /\ PollAgain.elem = cl.elem
      BY <1>1, <2>1, <2>2 DEF Clients, Others
    <3> QED
      BY <3>1, <3>2
  <2> QED
    BY <1>1, <2>3 DEF Again, Kept, Others, l, r
<1> QED
  BY <1>2, FailedEnds DEF PollAgain

LEMMA NextLookAfter == ASSUME UiType, Running PROVE After(cl, NextLook)
<1>1. cl \in Clients /\ cl.outcome = "running"
  BY DEF UiType, Running
<1> DEFINE l == cl.look + 1
           r == "none"
           t == 0
<1>2. l \in Nat /\ r \in Refs /\ t \in Tries
  BY <1>1, Small DEF Clients
<1>3. NextLook = [cl EXCEPT !.look = l, !.ref = r, !.tries = t]
  BY <1>1 DEF NextLook, Clients
<1> HIDE DEF l, r, t
<1>4. /\ NextLook \in Clients /\ Others(cl, NextLook) /\ NextLook.s = cl.s /\ NextLook.look = l
      /\ NextLook.outcome = cl.outcome /\ NextLook.ref = r
  <2>1. NextLook \in Clients
    BY <1>1, <1>2, <1>3 DEF Clients, Refs, Tries, Waits
  <2>2. /\ Others(cl, NextLook) /\ NextLook.s = cl.s /\ NextLook.look = l
        /\ NextLook.outcome = cl.outcome /\ NextLook.ref = r
    BY <1>1, <1>2, <1>3 DEF Clients, Others
  <2> QED
    BY <2>1, <2>2
<1> QED
  BY <1>1, <1>4 DEF After, Kept, Others, l, r

LEMMA FindAgainStays ==
    ASSUME UiType, Running, cl.tries + 1 < MaxTries
    PROVE  Again(cl, FindAgain) /\ FindAgain.elem = cl.elem
<1>1. cl \in Clients /\ cl.outcome = "running"
  BY DEF UiType, Running
<1> DEFINE r == "none"
           t == cl.tries + 1
<1>2. r \in Refs /\ t \in Tries
  BY <1>1, Bounds, Small DEF Clients, Tries
<1>3. FindAgain = [cl EXCEPT !.ref = r, !.tries = t]
  BY <1>1 DEF FindAgain, Clients
<1> HIDE DEF r, t
<1>4. /\ FindAgain \in Clients /\ Others(cl, FindAgain) /\ FindAgain.s = cl.s /\ FindAgain.look = cl.look
      /\ FindAgain.outcome = cl.outcome /\ FindAgain.ref = r /\ FindAgain.elem = cl.elem
  <2>1. FindAgain \in Clients
    BY <1>1, <1>2, <1>3 DEF Clients, Refs, Tries, Waits
  <2>2. /\ Others(cl, FindAgain) /\ FindAgain.s = cl.s /\ FindAgain.look = cl.look
        /\ FindAgain.outcome = cl.outcome /\ FindAgain.ref = r /\ FindAgain.elem = cl.elem
    BY <1>1, <1>2, <1>3 DEF Clients, Others
  <2> QED
    BY <2>1, <2>2
<1> QED
  BY <1>1, <1>4 DEF Again, Kept, Others, r

LEMMA RetryIfStaleStays == ASSUME UiType, Running PROVE Again(cl, RetryIfStale) \/ Ends(cl, RetryIfStale)
  BY FindAgainStays, FailedEnds DEF RetryIfStale

LEMMA WaitForIdStays ==
    ASSUME UiType, Running
    PROVE  (Again(cl, WaitForId) /\ WaitForId.elem = cl.elem) \/ Ends(cl, WaitForId)
<1>1. cl \in Clients /\ cl.outcome = "running"
  BY DEF UiType, Running
<1>2. CASE cl.waits + 1 < MaxTries
  <2> DEFINE w == cl.waits + 1
             r == "none"
  <2>1. w \in Waits /\ r \in Refs
    BY <1>1, <1>2, Bounds, Small DEF Waits, Clients
  <2>2. WaitForId = [cl EXCEPT !.waits = w, !.ref = r]
    BY <1>1, <1>2 DEF WaitForId, Clients
  <2> HIDE DEF w, r
  <2>3. /\ WaitForId \in Clients /\ Others(cl, WaitForId) /\ WaitForId.s = cl.s /\ WaitForId.look = cl.look
        /\ WaitForId.outcome = cl.outcome /\ WaitForId.ref = r /\ WaitForId.elem = cl.elem
    <3>1. WaitForId \in Clients
      BY <1>1, <2>1, <2>2 DEF Clients, Refs, Tries, Waits
    <3>2. /\ Others(cl, WaitForId) /\ WaitForId.s = cl.s /\ WaitForId.look = cl.look
          /\ WaitForId.outcome = cl.outcome /\ WaitForId.ref = r /\ WaitForId.elem = cl.elem
      BY <1>1, <2>1, <2>2 DEF Clients, Others
    <3> QED
      BY <3>1, <3>2
  <2> QED
    BY <1>1, <2>3 DEF Again, Kept, Others, r
<1> QED
  BY <1>2, FailedEnds DEF WaitForId

LEMMA GiveUpAhead == ASSUME UiType, Running PROVE Ahead(cl, GiveUp, 1, TestScript, cl.missed \/ St.op # "hover")
<1>1. Ahead(cl, StepDone, 1, TestScript, cl.missed)
  BY JumpAhead DEF StepDone
<1>2. StepDone \in Clients
  BY <1>1 DEF Ahead, Kept
<1>3. StepDone.missed = cl.missed
  BY <1>1 DEF Ahead
<1> DEFINE done == StepDone
           m == cl.missed \/ St.op # "hover"
<1>4. cl.missed \in BOOLEAN
  BY DEF UiType, Clients
<1>5. m \in BOOLEAN
  BY <1>4
<1> HIDE DEF m
<1>6. GiveUp = [done EXCEPT !.missed = m]
  BY <1>3 DEF GiveUp, m
<1> HIDE DEF done
<1>7. Ahead(cl, done, 1, TestScript, cl.missed) /\ done \in Clients
  BY <1>1, <1>2 DEF done
<1>8. Ahead(cl, [done EXCEPT !.missed = m], 1, TestScript, m)
  BY <1>5, <1>7 DEF Ahead, Kept, Clients
<1> QED
  BY <1>6, <1>8 DEF m

LEMMA TryAgainStays ==
    ASSUME UiType, Running
    PROVE  (Again(cl, TryAgain) /\ TryAgain.elem = cl.elem) \/ TryAgain = GiveUp
<1>1. cl \in Clients /\ cl.outcome = "running"
  BY DEF UiType, Running
<1>2. CASE cl.tries + 1 < MaxTries
  <2> DEFINE f == FindAgain
             w == 0
  <2>1. Again(cl, f) /\ f.elem = cl.elem /\ w \in Waits
    BY <1>2, FindAgainStays, Small
  <2>2. TryAgain = [f EXCEPT !.waits = w]
    BY <1>2 DEF TryAgain
  <2> HIDE DEF f, w
  <2>3. TryAgain \in Clients
    BY <2>1, <2>2 DEF Again, Kept, Clients, Waits
  <2>4. /\ Others(f, TryAgain) /\ TryAgain.s = f.s /\ TryAgain.look = f.look /\ TryAgain.outcome = f.outcome
        /\ TryAgain.ref = f.ref /\ TryAgain.elem = f.elem
    BY <2>1, <2>2 DEF Again, Kept, Clients, Others
  <2> QED
    BY <2>1, <2>3, <2>4 DEF Again, Kept, Others
<1> QED
  BY <1>2 DEF TryAgain

LEMMA ActAgainStays ==
    ASSUME UiType, Running, NEW found \in BOOLEAN
    PROVE  \/ Again(cl, ActAgain(found)) /\ ActAgain(found).elem = (cl.elem \/ found)
           \/ ActAgain(found) = GiveUp /\ (cl.elem \/ found)
           \/ Ends(cl, ActAgain(found))
<1>1. cl \in Clients /\ cl.outcome = "running"
  BY DEF UiType, Running
<1>2. CASE cl.tries + 1 < MaxTries
  <2>1. ActAgain(found) = [FindAgain EXCEPT !.elem = @ \/ found]
    BY <1>2 DEF ActAgain
  <2>2. FindAgain \in Clients /\ Again(cl, FindAgain) /\ FindAgain.elem = cl.elem
    BY <1>2, FindAgainStays DEF Again, Kept
  <2> DEFINE a == FindAgain
             m == cl.elem \/ found
  <2>3. m \in BOOLEAN
    BY <1>1 DEF Clients
  <2> HIDE DEF m, a
  <2>4. ActAgain(found) = [a EXCEPT !.elem = m]
    BY <2>1, <2>2 DEF a, m
  <2>5. a \in Clients /\ Again(cl, a)
    BY <2>2 DEF a
  <2>6. Again(cl, [a EXCEPT !.elem = m]) /\ [a EXCEPT !.elem = m].elem = m
    BY <2>3, <2>5 DEF Again, Kept, Clients
  <2> QED
    BY <2>4, <2>6 DEF m
<1> QED
  BY <1>2, FailedEnds DEF ActAgain

-----------------------------------------------------------------------------
(* The moves of the driver.                                                 *)

\* what a click changes of the dialogs and the menu
Handles(e, p, q) ==
    /\ q.dialog = p.dialog
    /\ q.menu = "Upload" <=> e = <<"button", "Upload">>
    /\ e[1] = "field" => q.form = p.form \cup {e[2]} /\ q.disk = p.disk
    /\ e = <<"link", "Start">> => q.form = p.form /\ q.disk = p.disk
    /\ e = <<"ok", "upload">> => q.disk = p.disk \/ p.form = Fields
    /\ e \in SafeTargets \cup {<<"button", "Upload">>} =>
           q.form = p.form /\ q.disk = p.disk /\ (q.dgoal = p.dgoal \/ q.dgoal # "upload")
Hovers(p, q) ==
    /\ q.dialog = p.dialog /\ q.dgoal = p.dgoal /\ q.form = p.form /\ q.disk = p.disk
    /\ q.menu # "Upload"
\* a click, or a hover, that is made, and one that is given up
Pressed(c, d, p, q, st) ==
    LET e == st.looks[1].e IN
    /\ d.missed = c.missed /\ c.ref # "none"
    /\ IF st.op = "hover" THEN SamePage(p, q) /\ Hovers(p, q)
                          ELSE Shows(p, e) /\ Leads(e, st.value, p, q) /\ Handles(e, p, q)
GivenUp(c, d, p, q, st) ==
    /\ q = p /\ d.missed = (c.missed \/ st.op # "hover")
    /\ st.op \in {"hover", "id_click", "action"}
    /\ st.op = "action" => c.elem \/ c.ref # "none"

Fails(c, d, p, q) == d.outcome = "failed" /\ q = p /\ d.missed = c.missed
StaysPut(c, d, p, q, st) ==
    /\ d.outcome = "running" /\ d.s = c.s /\ d.look \in {1, c.look} /\ d.missed = c.missed /\ q = p
    /\ d.frame = "yes" => c.frame = "yes" \/ p.main = "dashboard"
    /\ st.op = "action" /\ c.ref = "none" /\ ~c.elem /\ ~Shows(p, st.looks[1].e) => d.ref = "none" /\ ~d.elem
LooksOn(c, d, p, q, st) ==
    /\ d.outcome = "running" /\ d.s = c.s /\ d.look = c.look + 1 /\ d.missed = c.missed /\ q = p /\ d.frame = "out"
    /\ st.op \in {"until", "while", "read", "if"}
    /\ st.op = "until" => Saw(st.looks[c.look], p)
Onward(c, d, p, q, sc, n) ==
    LET st == sc[c.s] IN
    /\ IF c.s + n <= Len(sc) THEN d.outcome = "running" /\ d.s = c.s + n /\ d.look = 1 ELSE d.outcome = "passed"
    /\ d.ref = "none" /\ ~d.elem /\ d.frame = "out"
    /\ n = 1 \/ (n = 2 /\ st.op = "start_vm") \/ (n = 3 /\ st.op = "if")
    /\ st.op = "until" => c.look = Len(st.looks) /\ Saw(st.looks[c.look], p)
    /\ InFrame(st.op) => c.frame = "yes"
    /\ IF st.op \in ClickOps THEN Pressed(c, d, p, q, st) \/ GivenUp(c, d, p, q, st)
                             ELSE d.missed = c.missed /\ q = IF st.op = "get" THEN [p EXCEPT !.goal = "welcome"] ELSE p
Goes(c, d, p, q, sc) ==
    \/ Fails(c, d, p, q) \/ StaysPut(c, d, p, q, sc[c.s]) \/ LooksOn(c, d, p, q, sc[c.s])
    \/ \E n \in 1 .. 3 : Onward(c, d, p, q, sc, n)

LEMMA SomeLook ==
    ASSUME NEW st \in Steps, st.looks # << >>
    PROVE  1 \in 1 .. Len(st.looks)
<1>1. st.looks \in Seq(Looks)
  BY DEF Steps
<1> QED
  BY <1>1

\* whatever the driver does with an answer, it is left with a look of a step
LEMMA OutcomeOk ==
    ASSUME UiType, Running, NEW d, d.frame = "out",
           \/ d \in Clients /\ d.s = cl.s /\ d.ref = "none" /\ d.look \in {1, cl.look}
           \/ d \in Clients /\ d.s = cl.s /\ d.ref = "none" /\ d.look = cl.look + 1 /\ cl.look # Len(St.looks) /\ St.looks # << >>
           \/ d \in Clients /\ d.s \in 1 .. Len(TestScript) /\ d.look = 1 /\ d.ref = "none"
    PROVE  ClientOk(d, TestScript)
<1>1. /\ cl.s \in 1 .. Len(TestScript) /\ St = TestScript[cl.s]
      /\ \A i \in 1 .. Len(TestScript) : TestScript[i] \in Steps
      /\ St.looks # << >> => cl.look \in 1 .. Len(St.looks) /\ Len(St.looks) \in Nat
  BY RunningFacts DEF ClientOk
<1>2. d \in Clients /\ d.s \in 1 .. Len(TestScript) /\ d.ref = "none"
  BY <1>1
<1>3. \A i \in 1 .. Len(TestScript) : TestScript[i].looks # << >> => 1 \in 1 .. Len(TestScript[i].looks)
  BY <1>1, SomeLook
<1>4. TestScript[d.s].looks # << >> => d.look \in 1 .. Len(TestScript[d.s].looks)
  BY <1>1, <1>2, <1>3
<1> QED
  BY <1>2, <1>4 DEF ClientOk

LEMMA OutcomesOk ==
    ASSUME UiType, Running, NEW d, d.frame = "out",
           \/ Ends(cl, d) \/ Again(cl, d) \/ (\E n \in 1 .. 3, m \in BOOLEAN : Ahead(cl, d, n, TestScript, m))
           \/ After(cl, d) /\ cl.look # Len(St.looks) /\ St.looks # << >>
    PROVE  ClientOk(d, TestScript) /\ Same(cl, d)
<1>0. cl.s \in 1 .. Len(TestScript) /\ cl \in Clients /\ Len(TestScript) \in Nat
  BY RunningFacts DEF ClientOk
<1>1. CASE Ends(cl, d)
  BY <1>1, OutcomeOk DEF Ends, Kept, Same
<1>2. CASE Again(cl, d)
  BY <1>2, OutcomeOk DEF Again, Kept, Same
<1>3. CASE After(cl, d) /\ cl.look # Len(St.looks) /\ St.looks # << >>
  BY <1>3, OutcomeOk DEF After, Kept, Same
<1>4. ASSUME NEW n \in 1 .. 3, NEW m \in BOOLEAN, Ahead(cl, d, n, TestScript, m) PROVE ClientOk(d, TestScript) /\ Same(cl, d)
  <2>1. CASE cl.s + n <= Len(TestScript)
    <3>1. d \in Clients /\ d.s \in 1 .. Len(TestScript) /\ d.look = 1 /\ d.ref = "none"
      BY <1>0, <1>4, <2>1 DEF Ahead, Kept
    <3>2. Same(cl, d)
      BY <1>4 DEF Ahead, Kept, Same
    <3> QED
      BY <3>1, <3>2, OutcomeOk
  <2>2. CASE ~(cl.s + n <= Len(TestScript))
    <3>1. d \in Clients /\ d.s = cl.s /\ d.look = cl.look /\ d.ref = "none"
      BY <1>4, <2>2 DEF Ahead, Kept
    <3>2. Same(cl, d)
      BY <1>4 DEF Ahead, Kept, Same
    <3> QED
      BY <3>1, <3>2, OutcomeOk
  <2> QED
    BY <2>1, <2>2
<1> QED
  BY <1>1, <1>2, <1>3, <1>4

-----------------------------------------------------------------------------
(* The actions of the driver.                                               *)

LEMMA OpFacts ==
    ASSUME UiType, Running
    PROVE  /\ St.op \in ClickOps \cup SilentOps \cup LookOps
           /\ St.looks = << >> <=> St.op \in SilentOps
           /\ St.op \in ClickOps => Len(St.looks) = 1 /\ cl.look = 1 /\ Lk = St.looks[1]
           /\ InFrame(St.op) <=> St.op \in {"frame_until", "frame_read"}
           /\ ~InFrame(St.op) => cl.frame = "out"
           /\ InFrame(St.op) => /\ Lk.k = "shown" /\ ~Lk.r /\ Lk.e = <<"page", "dashboard">>
                                /\ cl.look = 1 /\ Len(St.looks) = 1
           /\ Lk.k = "click" /\ St.looks # << >> <=> St.op \in ClickOps
           /\ cl.outcome = "running" /\ cl \in Clients /\ page \in Pages
<1>1. St \in Steps
  BY RunningFacts
<1>2. /\ St.op \in ClickOps \cup SilentOps \cup LookOps
      /\ St.looks = << >> <=> St.op \in SilentOps
      /\ St.op \in ClickOps => Len(St.looks) = 1
      /\ InFrame(St.op) => Len(St.looks) = 1 /\ St.looks[1].k = "shown" /\ St.looks[1].e = <<"page", "dashboard">>
  BY <1>1 DEF Steps
<1>3. InFrame(St.op) <=> St.op \in {"frame_until", "frame_read"}
  BY DEF InFrame
<1>4. ~InFrame(St.op) => cl.frame = "out"
  BY DEF UiType
<1>5. St.op \in ClickOps \/ InFrame(St.op) => St.looks # << >>
  BY <1>2, <1>3 DEF ClickOps, SilentOps
<1>6. St.op \in ClickOps \/ InFrame(St.op) => cl.look = 1 /\ Lk = St.looks[1] /\ (InFrame(St.op) => ~Lk.r)
  BY <1>2, <1>3, <1>5, RunningFacts
<1>7. Lk.k = "click" /\ St.looks # << >> <=> St.op \in ClickOps
  BY <1>5, RunningFacts
<1> QED
  BY <1>2, <1>3, <1>4, <1>6, <1>7 DEF Running, UiType

LEMMA RaisedOutcome ==
    ASSUME UiType, Running, St.looks # << >>, ~InFrame(St.op), NEW what
    PROVE  LET d == Raised(St.op, what) IN
           \/ Ends(cl, d)
           \/ Again(cl, d) /\ (St.op = "action" /\ cl.ref = "none" => d.elem = cl.elem)
           \/ d = StepDone /\ St.op = "while"
           \/ d = GiveUp /\ St.op \in {"hover", "id_click", "action"} /\ (St.op = "action" => cl.elem \/ cl.ref # "none")
<1>1. St.op \in ClickOps \cup {"until", "while", "read", "if"}
  BY OpFacts DEF LookOps
<1>2. Lk.r => St.op \in {"until", "while", "read", "if", "click"}
  BY RunningFacts
<1>3. CASE what = "stale" /\ Lk.r
  <2>1. Raised(St.op, what) = RetryIfStale
    BY <1>3 DEF Raised
  <2>2. Again(cl, RetryIfStale) \/ Ends(cl, RetryIfStale)
    BY RetryIfStaleStays
  <2>3. St.op # "action"
    BY <1>2, <1>3
  <2> QED
    BY <2>1, <2>2, <2>3
<1>4. CASE ~(what = "stale" /\ Lk.r) /\ St.op = "until" /\ what = "nosuch"
  <2>1. Raised(St.op, what) = PollAgain
    BY <1>4 DEF Raised, InFrame
  <2> QED
    BY <1>4, <2>1, PollAgainStays
<1>5. CASE ~(what = "stale" /\ Lk.r) /\ St.op = "while" /\ what = "nosuch"
  <2>1. Raised(St.op, what) = StepDone
    BY <1>5 DEF Raised, InFrame
  <2> QED
    BY <1>5, <2>1
<1>6. CASE ~(what = "stale" /\ Lk.r) /\ St.op \in {"id_click", "hover", "wait_for_id"} /\ cl.ref = "none"
  <2>1. Raised(St.op, what) = WaitForId
    BY <1>6 DEF Raised, InFrame
  <2> QED
    BY <1>6, <2>1, WaitForIdStays
<1>7. CASE ~(what = "stale" /\ Lk.r) /\ St.op \in {"id_click", "hover"} /\ cl.ref # "none"
  <2>1. Raised(St.op, what) = TryAgain
    BY <1>7 DEF Raised, InFrame
  <2> QED
    BY <1>7, <2>1, TryAgainStays
<1>8. CASE ~(what = "stale" /\ Lk.r) /\ St.op = "action"
  <2> DEFINE found == cl.ref # "none"
  <2>1. Raised(St.op, what) = ActAgain(found)
    BY <1>8 DEF Raised, InFrame
  <2>2. found \in BOOLEAN /\ cl.elem \in BOOLEAN
    BY OpFacts DEF Clients
  <2>3. cl.ref = "none" => ~found
    OBVIOUS
  <2>4. found <=> cl.ref # "none"
    OBVIOUS
  <2> HIDE DEF found
  <2> QED
    BY <1>8, <2>1, <2>2, <2>3, <2>4, ActAgainStays
<1>9. CASE /\ ~(what = "stale" /\ Lk.r) /\ ~(St.op = "until" /\ what = "nosuch") /\ ~(St.op = "while" /\ what = "nosuch")
           /\ ~(St.op \in {"id_click", "hover", "wait_for_id"} /\ cl.ref = "none")
           /\ St.op \notin {"id_click", "hover", "action"}
  <2>1. Raised(St.op, what) = Failed
    BY <1>1, <1>9 DEF Raised, InFrame, ClickOps
  <2> QED
    BY <2>1, FailedEnds
<1> QED
  BY <1>3, <1>4, <1>5, <1>6, <1>7, <1>8, <1>9

LEMMA AnsweredOutcome ==
    ASSUME UiType, Running, St.op \in LookOps, NEW v \in BOOLEAN
    PROVE  LET d == Answered(St.op, v) IN
           \/ Ends(cl, d)
           \/ Again(cl, d)
           \/ d = StepDone /\ (St.op \in {"until", "frame_until", "frame_read"} => v) /\ (St.op = "until" => LastLook)
           \/ d = NextLook /\ ~LastLook /\ (St.op = "until" => v)
           \/ d = Jump(3) /\ St.op = "if"
<1>1. CASE St.op \in {"until", "frame_until"}
  <2>1. Answered(St.op, v) = IF v THEN LookDone ELSE PollAgain
    BY <1>1 DEF Answered
  <2> QED
    BY <1>1, <2>1, PollAgainStays DEF LookDone
<1>2. CASE St.op = "while"
  <2>1. Answered(St.op, v) = IF ~v THEN StepDone ELSE IF LastLook THEN PollAgain ELSE NextLook
    BY <1>2 DEF Answered
  <2> QED
    BY <1>2, <2>1, PollAgainStays
<1>3. CASE St.op = "if"
  <2>1. Answered(St.op, v) = IF v THEN LookDone ELSE Jump(3)
    BY <1>3 DEF Answered
  <2> QED
    BY <1>3, <2>1 DEF LookDone
<1>4. CASE St.op \in {"read", "frame_read"}
  <2>1. Answered(St.op, v) = IF v THEN LookDone ELSE Failed
    BY <1>4 DEF Answered
  <2> QED
    BY <1>4, <2>1, FailedEnds DEF LookDone
<1> QED
  BY <1>1, <1>2, <1>3, <1>4 DEF LookOps

LEMMA ValueIsBoolean == ASSUME NEW l PROVE Value(l) \in BOOLEAN
<1>1. CASE l.k \in {"present", "found", "entities"}
  <2>1. Value(l) = Has(l.e)
    BY <1>1 DEF Value
  <2> QED
    BY <2>1 DEF Has, Unfolded
<1>2. CASE l.k \in {"absent", "no_entities"}
  <2>1. Value(l) = ~Has(l.e)
    BY <1>2 DEF Value
  <2> QED
    BY <2>1 DEF Has, Unfolded
<1>3. CASE l.k = "rows"
  <2>1. Value(l) = (Has(l.e) \/ Has(<<"text", "No items to display">>))
    BY <1>3 DEF Value
  <2> QED
    BY <2>1 DEF Has, Unfolded
<1>4. CASE l.k = "crumbs"
  <2>1. Value(l) = (page.crumbs = l.e[2])
    BY <1>4 DEF Value
  <2> QED
    BY <2>1 DEF Has, Unfolded
<1>5. CASE l.k = "named"
  <2>1. Value(l) = (Has(l.e) /\ page.disk = "listed")
    BY <1>5 DEF Value
  <2> QED
    BY <2>1 DEF Has, Unfolded
<1>6. CASE l.k = "enabled"
  <2>1. Value(l) = (l.e[1] # "button" \/ l.e[2] \in Enabled(page.main, page.sel, vm))
    BY <1>6 DEF Value
  <2> QED
    BY <2>1 DEF Has, Unfolded
<1>7. CASE l.k = "buttons"
  <2>1. Value(l) = (Enabled(page.main, page.sel, vm) \ {"Run"} = l.texts)
    BY <1>7 DEF Value
  <2> QED
    BY <2>1 DEF Has, Unfolded
<1>8. CASE l.k = "status"
  <2>1. Value(l) = (vm \in l.texts)
    BY <1>8 DEF Value
  <2> QED
    BY <2>1 DEF Has, Unfolded
<1>9. CASE l.k = "logged_out"
  <2>1. Value(l) = (~page.sso)
    BY <1>9 DEF Value
  <2> QED
    BY <2>1 DEF Has, Unfolded
<1>10. CASE l.k = "shown" /\ l.e[1] = "anchor"
  <2>1. Value(l) = Unfolded(l.e[2])
    BY <1>10 DEF Value
  <2> QED
    BY <2>1 DEF Has, Unfolded
<1>11. CASE l.k \notin {"present", "found", "entities", "absent", "no_entities", "rows", "crumbs", "named", "enabled", "buttons", "status", "logged_out"} /\ ~(l.k = "shown" /\ l.e[1] = "anchor")
  BY <1>11 DEF Value
<1> QED
  BY <1>1, <1>2, <1>3, <1>4, <1>5, <1>6, <1>7, <1>8, <1>9, <1>10, <1>11

LEMMA SawIt ==
    ASSUME cl.frame = "out", Value(Lk) = TRUE, Lk.k = "shown" => Has(Lk.e)
    PROVE  Saw(Lk, page)
<1>1. \A e : Has(e) => Shows(page, e)
  BY DEF Has, Shows
<1>2. Lk.k \in {"present", "found"} => Has(Lk.e)
  BY DEF Value
<1>3. Lk.k = "crumbs" => page.crumbs = Lk.e[2]
  BY DEF Value
<1>4. Lk.k = "rows" => Has(Lk.e) \/ Has(<<"text", "No items to display">>)
  BY DEF Value
<1>5. Lk.k = "named" => page.disk = "listed"
  BY DEF Value
<1> QED
  BY <1>1, <1>2, <1>3, <1>4, <1>5 DEF Saw

\* what an outcome leaves
Leaves(d) == ClientOk(d, TestScript) /\ Same(cl, d) /\ d.ref = "none"

LEMMA AheadGoes ==
    ASSUME UiType, Running, NEW n \in 1 .. 3, NEW d, NEW m \in BOOLEAN, NEW p, NEW q,
           Ahead(cl, d, n, TestScript, m), d.frame = "out"
    PROVE  /\ Leaves(d)
           /\ IF cl.s + n <= Len(TestScript) THEN d.outcome = "running" /\ d.s = cl.s + n /\ d.look = 1 ELSE d.outcome = "passed"
           /\ d.ref = "none" /\ ~d.elem /\ d.missed = m
  BY OutcomesOk DEF Ahead, Leaves

LEMMA RaisedGoes ==
    ASSUME UiType, Running, St.looks # << >>, ~InFrame(St.op), NEW what, NEW d, d = Raised(St.op, what)
    PROVE  Leaves(d) /\ Goes(cl, d, page, page, TestScript)
<1>0. cl.frame = "out" /\ cl.missed \in BOOLEAN /\ St = TestScript[cl.s] /\ (St.op \in ClickOps <=> Lk.k = "click")
  BY OpFacts, RunningFacts DEF Clients
<1>1. CASE Ends(cl, d)
  <2>1. d.frame = "out" /\ d.ref = "none"
    BY <1>0, <1>1 DEF Ends, Kept
  <2>2. Fails(cl, d, page, page)
    BY <1>1 DEF Ends, Fails
  <2> QED
    BY <1>1, <2>1, <2>2, OutcomesOk DEF Leaves, Goes
<1>2. CASE Again(cl, d) /\ (St.op = "action" /\ cl.ref = "none" => d.elem = cl.elem)
  <2>1. d.frame = "out" /\ d.ref = "none"
    BY <1>0, <1>2 DEF Again, Kept
  <2>2. StaysPut(cl, d, page, page, St)
    BY <1>2, <2>1 DEF Again, StaysPut
  <2> QED
    BY <1>0, <1>2, <2>1, <2>2, OutcomesOk DEF Leaves, Goes
<1>3. CASE d = StepDone /\ St.op = "while"
  <2>1. Ahead(cl, d, 1, TestScript, cl.missed)
    BY <1>3, JumpAhead DEF StepDone
  <2>2. d.frame = "out"
    BY <1>0, <2>1 DEF Ahead, Kept
  <2>3. Leaves(d) /\ Onward(cl, d, page, page, TestScript, 1)
    BY <1>0, <1>3, <2>1, <2>2, AheadGoes DEF Onward, ClickOps, InFrame
  <2> QED
    BY <2>3 DEF Goes
<1>4. CASE d = GiveUp /\ St.op \in {"hover", "id_click", "action"} /\ (St.op = "action" => cl.elem \/ cl.ref # "none")
  <2> DEFINE m == cl.missed \/ St.op # "hover"
  <2>1. Ahead(cl, d, 1, TestScript, m) /\ m \in BOOLEAN
    BY <1>0, <1>4, GiveUpAhead
  <2>2. d.frame = "out"
    BY <1>0, <2>1 DEF Ahead, Kept
  <2>3. GivenUp(cl, d, page, page, St)
    BY <1>4, <2>1 DEF GivenUp, Ahead
  <2> HIDE DEF m
  <2>4. Leaves(d) /\ Onward(cl, d, page, page, TestScript, 1)
    BY <1>0, <1>4, <2>1, <2>2, <2>3, AheadGoes DEF Onward, ClickOps, InFrame
  <2> QED
    BY <2>4 DEF Goes
<1> QED
  BY <1>1, <1>2, <1>3, <1>4, RaisedOutcome

LEMMA AnsweredGoes ==
    ASSUME UiType, Running, St.op \in {"until", "while", "read", "if"}, NEW v \in BOOLEAN, v => Saw(Lk, page),
           NEW d, d = Answered(St.op, v)
    PROVE  Leaves(d) /\ Goes(cl, d, page, page, TestScript)
<1>0. /\ cl.frame = "out" /\ cl.missed \in BOOLEAN /\ St = TestScript[cl.s] /\ St.op \in LookOps /\ ~InFrame(St.op)
      /\ St.op \notin ClickOps /\ Lk = St.looks[cl.look] /\ St.looks # << >>
  BY OpFacts, RunningFacts DEF Clients, LookOps, InFrame, ClickOps, SilentOps
<1>1. CASE Ends(cl, d)
  <2>1. d.frame = "out" /\ d.ref = "none"
    BY <1>0, <1>1 DEF Ends, Kept
  <2>2. Fails(cl, d, page, page)
    BY <1>1 DEF Ends, Fails
  <2> QED
    BY <1>1, <2>1, <2>2, OutcomesOk DEF Leaves, Goes
<1>2. CASE Again(cl, d)
  <2>1. d.frame = "out" /\ d.ref = "none"
    BY <1>0, <1>2 DEF Again, Kept
  <2>2. StaysPut(cl, d, page, page, St)
    BY <1>2, <2>1 DEF Again, StaysPut
  <2> QED
    BY <1>0, <1>2, <2>1, <2>2, OutcomesOk DEF Leaves, Goes
<1>3. CASE d = StepDone /\ (St.op \in {"until", "frame_until", "frame_read"} => v) /\ (St.op = "until" => LastLook)
  <2>1. Ahead(cl, d, 1, TestScript, cl.missed)
    BY <1>3, JumpAhead DEF StepDone
  <2>2. d.frame = "out"
    BY <1>0, <2>1 DEF Ahead, Kept
  <2>3. Leaves(d) /\ Onward(cl, d, page, page, TestScript, 1)
    BY <1>0, <1>3, <2>1, <2>2, AheadGoes DEF Onward, LastLook
  <2> QED
    BY <2>3 DEF Goes
<1>4. CASE d = NextLook /\ ~LastLook /\ (St.op = "until" => v)
  <2>1. After(cl, d) /\ cl.look # Len(St.looks)
    BY <1>4, NextLookAfter DEF LastLook
  <2>2. d.frame = "out" /\ d.ref = "none"
    BY <1>0, <2>1 DEF After, Kept
  <2>3. LooksOn(cl, d, page, page, St)
    BY <1>0, <1>4, <2>1, <2>2 DEF LooksOn, After
  <2> QED
    BY <1>0, <2>1, <2>2, <2>3, OutcomesOk DEF Leaves, Goes
<1>5. CASE d = Jump(3) /\ St.op = "if"
  <2>1. Ahead(cl, d, 3, TestScript, cl.missed)
    BY <1>5, JumpAhead
  <2>2. d.frame = "out"
    BY <1>0, <2>1 DEF Ahead, Kept
  <2>3. Leaves(d) /\ Onward(cl, d, page, page, TestScript, 3)
    BY <1>0, <1>5, <2>1, <2>2, AheadGoes DEF Onward, ClickOps, InFrame
  <2> QED
    BY <2>3 DEF Goes
<1> QED
  BY <1>0, <1>1, <1>2, <1>3, <1>4, <1>5, AnsweredOutcome

\* a step of the driver: what it leaves, where it goes, and that an element it holds is there
Moved ==
    /\ ClientOk(cl', TestScript) /\ Same(cl, cl') /\ Goes(cl, cl', page, page', TestScript)
    /\ cl'.ref = "good" => UNCHANGED page /\ cl'.frame = cl.frame /\ cl'.look = cl.look /\ cl'.s = cl.s
                           /\ (Lk.k \notin FindAll => Has(Lk.e))

LEMMA SameLookOk ==
    ASSUME UiType, Running, NEW d \in Clients, d.s = cl.s, d.look = cl.look, d.outcome = "running",
           d.frame # "out" => InFrame(St.op),
           d.ref # "none" => St.looks # << >> /\ (InFrame(St.op) => d.frame = "in")
    PROVE  ClientOk(d, TestScript)
<1>1. ClientOk(cl, TestScript) /\ St = TestScript[cl.s]
  BY RunningFacts
<1> QED
  BY <1>1 DEF ClientOk

LEMMA FindMoves == ASSUME UiType, Find PROVE Moved
<1>0. /\ UiType /\ Running /\ St.looks # << >> /\ cl.ref = "none" /\ UNCHANGED page
      /\ InFrame(St.op) => cl.frame = "in"
  BY DEF Find
<1>1. Lk.k # "click" /\ Lk.k \in {"shown", "enabled", "buttons", "status", "logged_out"} \cup FindOnly \cup FindAll => St.op \notin ClickOps
  BY <1>0, OpFacts
<1>2. CASE cl' = [cl EXCEPT !.ref = "good"] /\ (Lk.k \notin FindAll => Has(Lk.e))
  <2> DEFINE r == "good"
  <2>1. r \in {"none", "good", "stale"} /\ "in" \in {"in", "yes", "no"} /\ cl' = [cl EXCEPT !.ref = r]
    BY <1>2
  <2> HIDE DEF r
  <2>2. /\ ClientOk(cl', TestScript) /\ Same(cl, cl') /\ cl'.ref = r /\ cl'.s = cl.s /\ cl'.look = cl.look
        /\ cl'.missed = cl.missed /\ cl'.elem = cl.elem /\ cl'.outcome = "running" /\ cl'.frame = cl.frame
    <3>1. cl \in Clients /\ cl.outcome = "running" /\ (~InFrame(St.op) => cl.frame = "out")
      BY <1>0, OpFacts
    <3>2. cl' \in Clients
      BY <2>1, <3>1 DEF Clients
    <3>3. /\ Same(cl, cl') /\ cl'.ref = r /\ cl'.s = cl.s /\ cl'.look = cl.look
          /\ cl'.missed = cl.missed /\ cl'.elem = cl.elem /\ cl'.outcome = "running" /\ cl'.frame = cl.frame
      BY <2>1, <3>1 DEF Clients, Same
    <3>4. ClientOk(cl', TestScript)
      BY <1>0, <3>1, <3>2, <3>3, SameLookOk
    <3> QED
      BY <3>3, <3>4
  <2>3. St.op \in ClickOps => Lk.k = "click" /\ Lk = St.looks[1] /\ cl.frame = "out"
    BY <1>0, OpFacts DEF ClickOps, InFrame
  <2>4. St.op = "action" => Shows(page, St.looks[1].e)
    <3> HAVE St.op = "action"
    <3>1. Lk.k = "click" /\ Lk = St.looks[1] /\ cl.frame = "out"
      BY <2>3 DEF ClickOps
    <3>2. Has(Lk.e)
      BY <1>2, <3>1 DEF FindAll
    <3> QED
      BY <3>1, <3>2 DEF Has, Shows
  <2>5. StaysPut(cl, cl', page, page', St)
    BY <1>0, <2>2, <2>4 DEF StaysPut
  <2>6. Goes(cl, cl', page, page', TestScript)
    BY <1>0, <2>5, RunningFacts DEF Goes
  <2> QED
    BY <1>0, <1>2, <2>2, <2>6 DEF Moved
<1>3. CASE InFrame(St.op) /\ cl' = [cl EXCEPT !.ref = "none", !.frame = "no"]
  <2> DEFINE r == "none"
             f == "no"
  <2>1. r \in {"none", "good", "stale"} /\ f \in {"in", "yes", "no"} /\ cl' = [cl EXCEPT !.ref = r, !.frame = f] /\ r = "none"
    BY <1>3
  <2> HIDE DEF r, f
  <2>2. /\ ClientOk(cl', TestScript) /\ Same(cl, cl') /\ cl'.ref = r /\ cl'.s = cl.s /\ cl'.look = cl.look
        /\ cl'.missed = cl.missed /\ cl'.elem = cl.elem /\ cl'.outcome = "running" /\ cl'.frame = f
    <3>1. cl \in Clients /\ cl.outcome = "running"
      BY <1>0, OpFacts
    <3>2. cl' \in Clients
      BY <2>1, <3>1 DEF Clients
    <3>3. /\ Same(cl, cl') /\ cl'.ref = r /\ cl'.s = cl.s /\ cl'.look = cl.look
          /\ cl'.missed = cl.missed /\ cl'.elem = cl.elem /\ cl'.outcome = "running" /\ cl'.frame = f
      BY <2>1, <3>1 DEF Clients, Same
    <3>4. ClientOk(cl', TestScript)
      BY <1>0, <1>3, <2>1, <3>1, <3>2, <3>3, SameLookOk
    <3> QED
      BY <3>3, <3>4
  <2>3. StaysPut(cl, cl', page, page', St)
    BY <1>0, <2>2, <1>3 DEF StaysPut, InFrame, f
  <2>4. Goes(cl, cl', page, page', TestScript)
    BY <1>0, <2>3, RunningFacts DEF Goes
  <2> QED
    BY <1>0, <2>1, <2>2, <2>4 DEF Moved
<1>4. ASSUME ~InFrame(St.op), NEW what, cl' = Raised(St.op, what) PROVE Moved
  <2>1. Leaves(cl') /\ Goes(cl, cl', page, page, TestScript)
    BY <1>0, <1>4, RaisedGoes
  <2> QED
    BY <1>0, <2>1 DEF Moved, Leaves
<1>5. ASSUME St.op \in {"until", "while", "read", "if"}, NEW v \in BOOLEAN, v => Saw(Lk, page), cl' = Answered(St.op, v) PROVE Moved
  <2>1. Leaves(cl') /\ Goes(cl, cl', page, page, TestScript)
    BY <1>0, <1>5, AnsweredGoes
  <2> QED
    BY <1>0, <2>1 DEF Moved, Leaves
<1>6. CASE InFrame(St.op)
  <2>1. Lk.k = "shown" /\ ~Lk.r /\ St.op \in {"frame_until", "frame_read"}
    BY <1>0, <1>6, OpFacts
  <2>2. \A what : Raised(St.op, what) = [cl EXCEPT !.ref = "none", !.frame = "no"]
    BY <2>1, <1>6 DEF Raised
  <2>3. \/ cl' = Raised(St.op, "dead") \/ cl' = Raised(St.op, "nosuch")
        \/ cl' = [cl EXCEPT !.ref = "good"] /\ Elements(Lk)
    BY <2>1 DEF Find, FindOnly, FindAll
  <2>4. Elements(Lk) => Has(Lk.e)
    BY <2>1 DEF Elements
  <2> QED
    BY <1>2, <1>3, <1>6, <2>2, <2>3, <2>4
<1>7. CASE ~InFrame(St.op)
  <2>0. cl.frame = "out"
    BY <1>0, <1>7, OpFacts
  <2>1. CASE ~Alive
    <3>1. cl' = Raised(St.op, "dead")
      BY <2>1 DEF Find
    <3> QED
      BY <1>4, <1>7, <3>1
  <2>2. CASE Alive /\ Lk.k \in FindOnly \cup FindAll /\ (Lk.k \in FindAll => ~Elements(Lk)) /\ Lk.k # "found"
    <3>1. cl' = Answered(St.op, Value(Lk))
      BY <2>2 DEF Find, FindOnly, FindAll
    <3> DEFINE v == Value(Lk)
    <3>2. v \in BOOLEAN
      BY ValueIsBoolean
    <3>3. v => Saw(Lk, page)
      <4>1. Lk.k # "shown"
        BY <2>2 DEF FindOnly, FindAll
      <4> QED
        BY <2>0, <4>1, SawIt
    <3>4. St.op \in {"until", "while", "read", "if"}
      <4>1. St.op \notin ClickOps
        BY <1>1, <2>2 DEF FindOnly, FindAll
      <4> QED
        BY <1>0, <1>7, <4>1, OpFacts DEF LookOps, SilentOps, InFrame
    <3>5. cl' = Answered(St.op, v)
      BY <3>1
    <3> HIDE DEF v
    <3> QED
      BY <1>5, <3>2, <3>3, <3>4, <3>5
  <2>3. CASE Alive /\ Lk.k \notin FindOnly \cup FindAll /\ ~Elements(Lk)
    <3>1. cl' = Raised(St.op, "nosuch")
      BY <2>3 DEF Find, FindOnly, FindAll
    <3> QED
      BY <1>4, <1>7, <3>1
  <2>4. CASE Alive /\ Lk.k = "found"
    <3>1. cl' = IF Has(Lk.e) THEN Answered(St.op, TRUE) ELSE Raised(St.op, "nosuch")
      BY <2>4 DEF Find, FindOnly, FindAll
    <3>2. Has(Lk.e) => Saw(Lk, page)
      BY <2>0, <2>4 DEF Saw, Has, Shows
    <3>3. St.op \in {"until", "while", "read", "if"}
      <4>1. St.op \notin ClickOps
        BY <1>1, <2>4 DEF FindOnly, FindAll
      <4> QED
        BY <1>0, <1>7, <4>1, OpFacts DEF LookOps, SilentOps, InFrame
    <3> DEFINE v == TRUE
    <3>4. Has(Lk.e) => v \in BOOLEAN /\ (v => Saw(Lk, page)) /\ cl' = Answered(St.op, v)
      BY <3>1, <3>2
    <3> HIDE DEF v
    <3> QED
      BY <1>4, <1>5, <1>7, <3>1, <3>3, <3>4
  <2>5. CASE Alive /\ ~(Lk.k \in FindOnly) /\ Elements(Lk)
    <3>1. cl' = [cl EXCEPT !.ref = "good"]
      BY <2>5 DEF Find, FindOnly, FindAll
    <3>2. Lk.k \notin FindAll => Has(Lk.e)
      BY <2>5 DEF Elements, FindAll
    <3> QED
      BY <1>2, <3>1, <3>2
  <2> QED
    BY <2>1, <2>2, <2>3, <2>4, <2>5 DEF FindOnly, FindAll
<1> QED
  BY <1>6, <1>7

LEMMA ClickedTyped ==
    ASSUME page \in Pages, NEW e \in Targets, NEW value \in Seq(Picks)
    PROVE  /\ Clicked(e, value) \in Pages
           /\ LET q == Clicked(e, value) IN
              /\ q.dialog = page.dialog
              /\ e[1] = "field" => q.form = page.form \cup {e[2]} /\ q.disk = page.disk
              /\ e = <<"link", "Start">> => q.form = page.form /\ q.disk = page.disk
              /\ e = <<"ok", "upload">> => q.disk = page.disk \/ page.form = Fields
              /\ e[1] # "field" /\ e # <<"ok", "upload">> => q.form = page.form /\ q.disk = page.disk
              /\ e # <<"link", "Start">> => q.dgoal = page.dgoal \/ q.dgoal # "upload"
<1> DEFINE q == Clicked(e, value)
           Good == /\ q \in Pages
                   /\ q.dialog = page.dialog
                   /\ e[1] = "field" => q.form = page.form \cup {e[2]} /\ q.disk = page.disk
                   /\ e = <<"link", "Start">> => q.form = page.form /\ q.disk = page.disk
                   /\ e = <<"ok", "upload">> => q.disk = page.disk \/ page.form = Fields
                   /\ e[1] # "field" /\ e # <<"ok", "upload">> => q.form = page.form /\ q.disk = page.disk
                   /\ e # <<"link", "Start">> => q.dgoal = page.dgoal \/ q.dgoal # "upload"
<1> SUFFICES Good
  OBVIOUS
<1>a. Named(e)
  BY TargetsNamed
<1>b. (e[1] = "anchor" => e[2] \in Views) /\ (e[1] = "field" => e[2] \in Fields)
  <2>1. (e[1] = "anchor" => e[2] \in ListViews \cup {"dashboard"}) /\ (e[1] = "field" => e[2] \in Fields)
    BY DEF Targets
  <2> QED
    BY <2>1 DEF Views, WebAdmin
<1>c. value # << >> => value[1] \in Picks
  OBVIOUS
<1>0. /\ Named(e)
      /\ e[1] = "anchor" => e[2] \in Views
      /\ e[1] = "field" => e[2] \in Fields
      /\ value # << >> => value[1] \in Picks
  BY <1>a, <1>b, <1>c
<1>1. CASE e = <<"link", "webadmin">>
  <2> DEFINE x0 == IF page.sso THEN "dashboard" ELSE "login"
             x1 == "dashboard"
  <2>1. q = [page EXCEPT !.goal = x0, !.after = x1]
    BY <1>0, <1>1 DEF Named, Clicked, GoTo, Pages
  <2>2. x0 \in Views /\ x1 \in Views
    BY <1>0, <1>1 DEF Views, WebAdmin, Grafana, VmViews, Pages, Dialogs, Disks, Fields
  <2>3. (TRUE)
    BY <1>0, <1>1, <2>2 DEF Named, Fields, Pages
  <2> HIDE DEF x0, x1
  <2>4. q \in Pages
    BY <2>1, <2>2 DEF Pages
  <2>5. q.dialog = page.dialog /\ q.form = page.form /\ q.disk = page.disk /\ q.dgoal = page.dgoal
    BY <2>1 DEF Pages
  <2> HIDE DEF q
  <2> QED
    BY <1>a, <1>1, <2>3, <2>4, <2>5 DEF Named
<1>2. CASE e = <<"link", "portal">>
  <2> DEFINE x0 == IF page.sso THEN "portal" ELSE "login"
             x1 == "portal"
  <2>1. q = [page EXCEPT !.goal = x0, !.after = x1]
    BY <1>0, <1>2 DEF Named, Clicked, GoTo, Pages
  <2>2. x0 \in Views /\ x1 \in Views
    BY <1>0, <1>2 DEF Views, WebAdmin, Grafana, VmViews, Pages, Dialogs, Disks, Fields
  <2>3. (TRUE)
    BY <1>0, <1>2, <2>2 DEF Named, Fields, Pages
  <2> HIDE DEF x0, x1
  <2>4. q \in Pages
    BY <2>1, <2>2 DEF Pages
  <2>5. q.dialog = page.dialog /\ q.form = page.form /\ q.disk = page.disk /\ q.dgoal = page.dgoal
    BY <2>1 DEF Pages
  <2> HIDE DEF q
  <2> QED
    BY <1>a, <1>2, <2>3, <2>4, <2>5 DEF Named
<1>3. CASE e = <<"link", "grafana">>
  <2> DEFINE x0 == "grafana_login"
  <2>1. q = [page EXCEPT !.goal = x0]
    BY <1>0, <1>3 DEF Named, Clicked, GoTo, Pages
  <2>2. x0 \in Views
    BY <1>0, <1>3 DEF Views, WebAdmin, Grafana, VmViews, Pages, Dialogs, Disks, Fields
  <2>3. (TRUE)
    BY <1>0, <1>3, <2>2 DEF Named, Fields, Pages
  <2> HIDE DEF x0
  <2>4. q \in Pages
    BY <2>1, <2>2 DEF Pages
  <2>5. q.dialog = page.dialog /\ q.form = page.form /\ q.disk = page.disk /\ q.dgoal = page.dgoal
    BY <2>1 DEF Pages
  <2> HIDE DEF q
  <2> QED
    BY <1>a, <1>3, <2>3, <2>4, <2>5 DEF Named
<1>4. CASE e = <<"link", "oauth">>
  <2> DEFINE x0 == IF page.sso THEN "grafana" ELSE "login"
             x1 == "grafana"
  <2>1. q = [page EXCEPT !.goal = x0, !.after = x1]
    BY <1>0, <1>4 DEF Named, Clicked, GoTo, Pages
  <2>2. x0 \in Views /\ x1 \in Views
    BY <1>0, <1>4 DEF Views, WebAdmin, Grafana, VmViews, Pages, Dialogs, Disks, Fields
  <2>3. (TRUE)
    BY <1>0, <1>4, <2>2 DEF Named, Fields, Pages
  <2> HIDE DEF x0, x1
  <2>4. q \in Pages
    BY <2>1, <2>2 DEF Pages
  <2>5. q.dialog = page.dialog /\ q.form = page.form /\ q.disk = page.disk /\ q.dgoal = page.dgoal
    BY <2>1 DEF Pages
  <2> HIDE DEF q
  <2> QED
    BY <1>a, <1>4, <2>3, <2>4, <2>5 DEF Named
<1>5. CASE e = <<"link", "log in">>
  <2> DEFINE x0 == page.after
             x1 == TRUE
  <2>1. q = [page EXCEPT !.goal = x0, !.sso = x1]
    BY <1>0, <1>5 DEF Named, Clicked, GoTo, Pages
  <2>2. x0 \in Views /\ x1 \in BOOLEAN
    BY <1>0, <1>5 DEF Views, WebAdmin, Grafana, VmViews, Pages, Dialogs, Disks, Fields
  <2>3. (TRUE)
    BY <1>0, <1>5, <2>2 DEF Named, Fields, Pages
  <2> HIDE DEF x0, x1
  <2>4. q \in Pages
    BY <2>1, <2>2 DEF Pages
  <2>5. q.dialog = page.dialog /\ q.form = page.form /\ q.disk = page.disk /\ q.dgoal = page.dgoal
    BY <2>1 DEF Pages
  <2> HIDE DEF q
  <2> QED
    BY <1>a, <1>5, <2>3, <2>4, <2>5 DEF Named
<1>6. CASE e = <<"menu", "logout">>
  <2> DEFINE x0 == "login"
             x1 == FALSE
  <2>1. q = [page EXCEPT !.goal = x0, !.sso = x1]
    BY <1>0, <1>6 DEF Named, Clicked, GoTo, Pages
  <2>2. x0 \in Views /\ x1 \in BOOLEAN
    BY <1>0, <1>6 DEF Views, WebAdmin, Grafana, VmViews, Pages, Dialogs, Disks, Fields
  <2>3. (TRUE)
    BY <1>0, <1>6, <2>2 DEF Named, Fields, Pages
  <2> HIDE DEF x0, x1
  <2>4. q \in Pages
    BY <2>1, <2>2 DEF Pages
  <2>5. q.dialog = page.dialog /\ q.form = page.form /\ q.disk = page.disk /\ q.dgoal = page.dgoal
    BY <2>1 DEF Pages
  <2> HIDE DEF q
  <2> QED
    BY <1>a, <1>6, <2>3, <2>4, <2>5 DEF Named
<1>7. CASE e[1] = "anchor"
  <2> DEFINE x0 == e[2]
  <2>1. q = [page EXCEPT !.goal = x0]
    BY <1>0, <1>7 DEF Named, Clicked, GoTo, Pages
  <2>2. x0 \in Views
    BY <1>0, <1>7 DEF Views, WebAdmin, Grafana, VmViews, Pages, Dialogs, Disks, Fields
  <2>3. (TRUE)
    BY <1>0, <1>7, <2>2 DEF Named, Fields, Pages
  <2> HIDE DEF x0
  <2>4. q \in Pages
    BY <2>1, <2>2 DEF Pages
  <2>5. q.dialog = page.dialog /\ q.form = page.form /\ q.disk = page.disk /\ q.dgoal = page.dgoal
    BY <2>1 DEF Pages
  <2> HIDE DEF q
  <2> QED
    BY <1>a, <1>7, <2>3, <2>4, <2>5 DEF Named
<1>8. CASE e[1] = "row" /\ value # << >>
  <2> DEFINE x0 == value[1]
  <2>1. q = [page EXCEPT !.sel = x0]
    BY <1>0, <1>8 DEF Named, Clicked, GoTo, Pages
  <2>2. x0 \in ({"none"} \cup Picks)
    BY <1>0, <1>8 DEF Views, WebAdmin, Grafana, VmViews, Pages, Dialogs, Disks, Fields
  <2>3. (TRUE)
    BY <1>0, <1>8, <2>2 DEF Named, Fields, Pages
  <2> HIDE DEF x0
  <2>4. q \in Pages
    BY <2>1, <2>2 DEF Pages
  <2>5. q.dialog = page.dialog /\ q.form = page.form /\ q.disk = page.disk /\ q.dgoal = page.dgoal
    BY <2>1 DEF Pages
  <2> HIDE DEF q
  <2> QED
    BY <1>a, <1>8, <2>3, <2>4, <2>5 DEF Named
<1>9. CASE e[1] = "row" /\ value = << >>
  <2> DEFINE x0 == "vm"
  <2>1. q = [page EXCEPT !.goal = x0]
    BY <1>0, <1>9 DEF Named, Clicked, GoTo, Pages
  <2>2. x0 \in Views
    BY <1>0, <1>9 DEF Views, WebAdmin, Grafana, VmViews, Pages, Dialogs, Disks, Fields
  <2>3. (TRUE)
    BY <1>0, <1>9, <2>2 DEF Named, Fields, Pages
  <2> HIDE DEF x0
  <2>4. q \in Pages
    BY <2>1, <2>2 DEF Pages
  <2>5. q.dialog = page.dialog /\ q.form = page.form /\ q.disk = page.disk /\ q.dgoal = page.dgoal
    BY <2>1 DEF Pages
  <2> HIDE DEF q
  <2> QED
    BY <1>a, <1>9, <2>3, <2>4, <2>5 DEF Named
<1>10. CASE e = <<"link", "Host Devices">>
  <2> DEFINE x0 == "vm_devices"
  <2>1. q = [page EXCEPT !.goal = x0]
    BY <1>0, <1>10 DEF Named, Clicked, GoTo, Pages
  <2>2. x0 \in Views
    BY <1>0, <1>10 DEF Views, WebAdmin, Grafana, VmViews, Pages, Dialogs, Disks, Fields
  <2>3. (TRUE)
    BY <1>0, <1>10, <2>2 DEF Named, Fields, Pages
  <2> HIDE DEF x0
  <2>4. q \in Pages
    BY <2>1, <2>2 DEF Pages
  <2>5. q.dialog = page.dialog /\ q.form = page.form /\ q.disk = page.disk /\ q.dgoal = page.dgoal
    BY <2>1 DEF Pages
  <2> HIDE DEF q
  <2> QED
    BY <1>a, <1>10, <2>3, <2>4, <2>5 DEF Named
<1>11. CASE e = <<"link", "Data Center">>
  <2> DEFINE x0 == "grafana_dc"
  <2>1. q = [page EXCEPT !.goal = x0]
    BY <1>0, <1>11 DEF Named, Clicked, GoTo, Pages
  <2>2. x0 \in Views
    BY <1>0, <1>11 DEF Views, WebAdmin, Grafana, VmViews, Pages, Dialogs, Disks, Fields
  <2>3. (TRUE)
    BY <1>0, <1>11, <2>2 DEF Named, Fields, Pages
  <2> HIDE DEF x0
  <2>4. q \in Pages
    BY <2>1, <2>2 DEF Pages
  <2>5. q.dialog = page.dialog /\ q.form = page.form /\ q.disk = page.disk /\ q.dgoal = page.dgoal
    BY <2>1 DEF Pages
  <2> HIDE DEF q
  <2> QED
    BY <1>a, <1>11, <2>3, <2>4, <2>5 DEF Named
<1>12. CASE e = <<"link", "Hosts">>
  <2> DEFINE x0 == "grafana_hosts"
  <2>1. q = [page EXCEPT !.goal = x0]
    BY <1>0, <1>12 DEF Named, Clicked, GoTo, Pages
  <2>2. x0 \in Views
    BY <1>0, <1>12 DEF Views, WebAdmin, Grafana, VmViews, Pages, Dialogs, Disks, Fields
  <2>3. (TRUE)
    BY <1>0, <1>12, <2>2 DEF Named, Fields, Pages
  <2> HIDE DEF x0
  <2>4. q \in Pages
    BY <2>1, <2>2 DEF Pages
  <2>5. q.dialog = page.dialog /\ q.form = page.form /\ q.disk = page.disk /\ q.dgoal = page.dgoal
    BY <2>1 DEF Pages
  <2> HIDE DEF q
  <2> QED
    BY <1>a, <1>12, <2>3, <2>4, <2>5 DEF Named
<1>13. CASE e = <<"link", "Power Off">> /\ vm # "Down"
  <2> DEFINE x0 == "poweroff"
  <2>1. q = [page EXCEPT !.dgoal = x0]
    BY <1>0, <1>13 DEF Named, Clicked, GoTo, Pages
  <2>2. x0 \in Dialogs
    BY <1>0, <1>13 DEF Views, WebAdmin, Grafana, VmViews, Pages, Dialogs, Disks, Fields
  <2>3. (x0 # "upload" \/ e = <<"link", "Start">>) /\ (TRUE)
    BY <1>0, <1>13, <2>2 DEF Named, Fields, Pages
  <2> HIDE DEF x0
  <2>4. q \in Pages
    BY <2>1, <2>2 DEF Pages
  <2>5. q.dialog = page.dialog /\ q.form = page.form /\ q.disk = page.disk /\ q.dgoal = x0
    BY <2>1 DEF Pages
  <2> HIDE DEF q
  <2> QED
    BY <1>a, <1>13, <2>3, <2>4, <2>5 DEF Named
<1>14. CASE e = <<"link", "Run Once">> /\ vm = "Down"
  <2> DEFINE x0 == "runonce"
  <2>1. q = [page EXCEPT !.dgoal = x0]
    BY <1>0, <1>14 DEF Named, Clicked, GoTo, Pages
  <2>2. x0 \in Dialogs
    BY <1>0, <1>14 DEF Views, WebAdmin, Grafana, VmViews, Pages, Dialogs, Disks, Fields
  <2>3. (x0 # "upload" \/ e = <<"link", "Start">>) /\ (TRUE)
    BY <1>0, <1>14, <2>2 DEF Named, Fields, Pages
  <2> HIDE DEF x0
  <2>4. q \in Pages
    BY <2>1, <2>2 DEF Pages
  <2>5. q.dialog = page.dialog /\ q.form = page.form /\ q.disk = page.disk /\ q.dgoal = x0
    BY <2>1 DEF Pages
  <2> HIDE DEF q
  <2> QED
    BY <1>a, <1>14, <2>3, <2>4, <2>5 DEF Named
<1>15. CASE e = <<"button", "Manage vGPU">>
  <2> DEFINE x0 == "vgpu"
  <2>1. q = [page EXCEPT !.dgoal = x0]
    BY <1>0, <1>15 DEF Named, Clicked, GoTo, Pages
  <2>2. x0 \in Dialogs
    BY <1>0, <1>15 DEF Views, WebAdmin, Grafana, VmViews, Pages, Dialogs, Disks, Fields
  <2>3. (x0 # "upload" \/ e = <<"link", "Start">>) /\ (TRUE)
    BY <1>0, <1>15, <2>2 DEF Named, Fields, Pages
  <2> HIDE DEF x0
  <2>4. q \in Pages
    BY <2>1, <2>2 DEF Pages
  <2>5. q.dialog = page.dialog /\ q.form = page.form /\ q.disk = page.disk /\ q.dgoal = x0
    BY <2>1 DEF Pages
  <2> HIDE DEF q
  <2> QED
    BY <1>a, <1>15, <2>3, <2>4, <2>5 DEF Named
<1>16. CASE e = <<"link", "Start">>
  <2> DEFINE x0 == "upload"
  <2>1. q = [page EXCEPT !.dgoal = x0]
    BY <1>0, <1>16 DEF Named, Clicked, GoTo, Pages
  <2>2. x0 \in Dialogs
    BY <1>0, <1>16 DEF Views, WebAdmin, Grafana, VmViews, Pages, Dialogs, Disks, Fields
  <2>3. (x0 # "upload" \/ e = <<"link", "Start">>) /\ (TRUE)
    BY <1>0, <1>16, <2>2 DEF Named, Fields, Pages
  <2> HIDE DEF x0
  <2>4. q \in Pages
    BY <2>1, <2>2 DEF Pages
  <2>5. q.dialog = page.dialog /\ q.form = page.form /\ q.disk = page.disk /\ q.dgoal = x0
    BY <2>1 DEF Pages
  <2> HIDE DEF q
  <2> QED
    BY <1>a, <1>16, <2>3, <2>4, <2>5 DEF Named
<1>17. CASE e[1] = "field"
  <2> DEFINE x0 == page.form \cup {e[2]}
  <2>1. q = [page EXCEPT !.form = x0]
    BY <1>0, <1>17 DEF Named, Clicked, GoTo, Pages
  <2>2. x0 \in SUBSET Fields
    BY <1>0, <1>17 DEF Views, WebAdmin, Grafana, VmViews, Pages, Dialogs, Disks, Fields
  <2>3. ((e[1] = "field" => x0 = page.form \cup {e[2]}) /\ e[1] \in {"field", "ok"} /\ (e[1] # "field" => e = <<"ok", "upload">>) /\ e # <<"link", "Start">>) /\ (TRUE)
    BY <1>0, <1>17, <2>2 DEF Named, Fields, Pages
  <2> HIDE DEF x0
  <2>4. q \in Pages
    BY <2>1, <2>2 DEF Pages
  <2>5. q.dialog = page.dialog /\ q.form = x0 /\ q.disk = page.disk /\ q.dgoal = page.dgoal
    BY <2>1 DEF Pages
  <2> HIDE DEF q
  <2> QED
    BY <1>a, <1>17, <2>3, <2>4, <2>5 DEF Named
<1>18. CASE e = <<"ok", "upload">> /\ "file" \in page.form
  <2> DEFINE x0 == "none"
             x1 == {}
             x2 == IF "alias" \in page.form THEN "uploading" ELSE page.disk
  <2>1. q = [page EXCEPT !.dgoal = x0, !.form = x1, !.disk = x2]
    BY <1>0, <1>18 DEF Named, Clicked, GoTo, Pages
  <2>2. x0 \in Dialogs /\ x1 \in SUBSET Fields /\ x2 \in Disks
    BY <1>0, <1>18 DEF Views, WebAdmin, Grafana, VmViews, Pages, Dialogs, Disks, Fields
  <2>3. (x0 # "upload" \/ e = <<"link", "Start">>) /\ ((e[1] = "field" => x1 = page.form \cup {e[2]}) /\ e[1] \in {"field", "ok"} /\ (e[1] # "field" => e = <<"ok", "upload">>) /\ e # <<"link", "Start">>) /\ ((x2 = page.disk \/ page.form = Fields) /\ e[1] # "field") /\ (TRUE)
    BY <1>0, <1>18, <2>2 DEF Named, Fields, Pages
  <2> HIDE DEF x0, x1, x2
  <2>4. q \in Pages
    BY <2>1, <2>2 DEF Pages
  <2>5. q.dialog = page.dialog /\ q.form = x1 /\ q.disk = x2 /\ q.dgoal = x0
    BY <2>1 DEF Pages
  <2> HIDE DEF q
  <2> QED
    BY <1>a, <1>18, <2>3, <2>4, <2>5 DEF Named
<1>19. CASE e[1] = "cancel" \/ e \in {<<"ok", "poweroff">>, <<"ok", "runonce">>}
  <2> DEFINE x0 == "none"
  <2>1. q = [page EXCEPT !.dgoal = x0]
    BY <1>0, <1>19 DEF Named, Clicked, GoTo, Pages
  <2>2. x0 \in Dialogs
    BY <1>0, <1>19 DEF Views, WebAdmin, Grafana, VmViews, Pages, Dialogs, Disks, Fields
  <2>3. (x0 # "upload" \/ e = <<"link", "Start">>) /\ (TRUE)
    BY <1>0, <1>19, <2>2 DEF Named, Fields, Pages
  <2> HIDE DEF x0
  <2>4. q \in Pages
    BY <2>1, <2>2 DEF Pages
  <2>5. q.dialog = page.dialog /\ q.form = page.form /\ q.disk = page.disk /\ q.dgoal = x0
    BY <2>1 DEF Pages
  <2> HIDE DEF q
  <2> QED
    BY <1>a, <1>19, <2>3, <2>4, <2>5 DEF Named
<1>20. CASE e[1] = "notification"
  <2> DEFINE x0 == FALSE
  <2>1. q = [page EXCEPT !.notif = x0]
    BY <1>0, <1>20 DEF Named, Clicked, GoTo, Pages
  <2>2. x0 \in BOOLEAN
    BY <1>0, <1>20 DEF Views, WebAdmin, Grafana, VmViews, Pages, Dialogs, Disks, Fields
  <2>3. (TRUE)
    BY <1>0, <1>20, <2>2 DEF Named, Fields, Pages
  <2> HIDE DEF x0
  <2>4. q \in Pages
    BY <2>1, <2>2 DEF Pages
  <2>5. q.dialog = page.dialog /\ q.form = page.form /\ q.disk = page.disk /\ q.dgoal = page.dgoal
    BY <2>1 DEF Pages
  <2> HIDE DEF q
  <2> QED
    BY <1>a, <1>20, <2>3, <2>4, <2>5 DEF Named
<1>21. CASE ~((e = <<"link", "webadmin">>) \/ (e = <<"link", "portal">>) \/ (e = <<"link", "grafana">>) \/ (e = <<"link", "oauth">>) \/ (e = <<"link", "log in">>) \/ (e = <<"menu", "logout">>) \/ (e[1] = "anchor") \/ (e[1] = "row" /\ value # << >>) \/ (e[1] = "row" /\ value = << >>) \/ (e = <<"link", "Host Devices">>) \/ (e = <<"link", "Data Center">>) \/ (e = <<"link", "Hosts">>) \/ (e = <<"link", "Power Off">> /\ vm # "Down") \/ (e = <<"link", "Run Once">> /\ vm = "Down") \/ (e = <<"button", "Manage vGPU">>) \/ (e = <<"link", "Start">>) \/ (e[1] = "field") \/ (e = <<"ok", "upload">> /\ "file" \in page.form) \/ (e[1] = "cancel" \/ e \in {<<"ok", "poweroff">>, <<"ok", "runonce">>}) \/ (e[1] = "notification"))
  <2>1. q = page
    BY <1>0, <1>21 DEF Named, Clicked
  <2> HIDE DEF q
  <2> QED
    BY <1>21, <2>1
<1> QED
  BY <1>1, <1>2, <1>3, <1>4, <1>5, <1>6, <1>7, <1>8, <1>9, <1>10, <1>11, <1>12, <1>13, <1>14, <1>15, <1>16, <1>17, <1>18, <1>19, <1>20, <1>21


LEMMA FrameMoves ==
    ASSUME UiType, Running, InFrame(St.op), UNCHANGED page,
           cl' \in Clients, Same(cl, cl'), cl'.s = cl.s, cl'.look = cl.look, cl'.missed = cl.missed, cl'.outcome = "running",
           cl'.ref = "none", cl'.frame \in {"in", "yes", "no"}, cl'.frame = "yes" => cl.frame = "yes" \/ page.main = "dashboard"
    PROVE  Moved
<1>1. ClientOk(cl', TestScript)
  <2> DEFINE d == cl'
  <2>1. /\ d \in Clients /\ d.s = cl.s /\ d.look = cl.look /\ d.outcome = "running" /\ (d.frame # "out" => InFrame(St.op))
        /\ d.ref # "none" => St.looks # << >> /\ (InFrame(St.op) => d.frame = "in")
    OBVIOUS
  <2> HIDE DEF d
  <2>2. ClientOk(d, TestScript)
    BY <2>1, SameLookOk
  <2> QED
    BY <2>2 DEF d
<1>2. St.op # "action" /\ St = TestScript[cl.s]
  BY RunningFacts DEF InFrame
<1>3. StaysPut(cl, cl', page, page', St)
  BY <1>2 DEF StaysPut
<1>4. Goes(cl, cl', page, page', TestScript)
  BY <1>2, <1>3 DEF Goes
<1> QED
  BY <1>1, <1>4 DEF Moved

\* an exception in the frame
LEMMA LostInFrame ==
    ASSUME UiType, Running, InFrame(St.op), UNCHANGED page, NEW what, cl' = Raised(St.op, what)
    PROVE  Moved
<1>1. Lk.k = "shown" /\ ~Lk.r /\ St.op \in {"frame_until", "frame_read"} /\ cl \in Clients /\ cl.outcome = "running"
  BY OpFacts
<1> DEFINE r == "none"
           f == "no"
<1>2. r \in {"none", "good", "stale"} /\ f \in {"out", "in", "yes", "no"} /\ cl' = [cl EXCEPT !.ref = r, !.frame = f]
  BY <1>1 DEF Raised
<1> HIDE DEF r, f
<1>3. /\ cl' \in Clients /\ Same(cl, cl') /\ cl'.s = cl.s /\ cl'.look = cl.look /\ cl'.missed = cl.missed /\ cl'.outcome = cl.outcome
      /\ cl'.ref = r /\ cl'.frame = f
  BY <1>1, <1>2 DEF Clients, Same
<1> QED
  BY <1>1, <1>3, FrameMoves DEF r, f

LEMMA RaisedMoves ==
    ASSUME UiType, Running, St.looks # << >>, UNCHANGED page, NEW what, cl' = Raised(St.op, what)
    PROVE  Moved
<1>1. CASE InFrame(St.op)
  BY <1>1, LostInFrame
<1>2. CASE ~InFrame(St.op)
  <2> DEFINE d == cl'
  <2>1. d = Raised(St.op, what)
    OBVIOUS
  <2> HIDE DEF d
  <2>2. Leaves(d) /\ Goes(cl, d, page, page, TestScript)
    BY <1>2, <2>1, RaisedGoes
  <2> QED
    BY <2>2 DEF d, Moved, Leaves
<1> QED
  BY <1>1, <1>2

LEMMA UseMoves == ASSUME UiType, RefInv, Use PROVE Moved
<1>0. /\ Running /\ cl.ref # "none" /\ Lk.k # "click" /\ UNCHANGED page
      /\ cl' = CASE ~Alive -> Raised(St.op, "dead")
                 [] Alive /\ cl.ref = "stale" -> Raised(St.op, "stale")
                 [] Alive /\ cl.ref = "good" /\ InFrame(St.op) -> [cl EXCEPT !.ref = "none", !.frame = "yes"]
                 [] OTHER -> Answered(St.op, Value(Lk))
  BY DEF Use
<1>1. /\ St.looks # << >> /\ cl \in Clients /\ cl.outcome = "running" /\ (InFrame(St.op) => cl.frame = "in")
      /\ cl.ref \in {"good", "stale"}
  BY <1>0 DEF UiType, Clients, Running
<1>2. CASE ~Alive
  <2>1. cl' = Raised(St.op, "dead")
    BY <1>0, <1>2
  <2> QED
    BY <1>0, <1>1, <2>1, RaisedMoves
<1>3. CASE Alive /\ cl.ref = "stale"
  <2>1. cl' = Raised(St.op, "stale")
    BY <1>0, <1>3
  <2> QED
    BY <1>0, <1>1, <2>1, RaisedMoves
<1>4. CASE Alive /\ cl.ref = "good" /\ InFrame(St.op)
  <2> DEFINE r == "none"
             f == "yes"
  <2>1. r \in {"none", "good", "stale"} /\ f \in {"out", "in", "yes", "no"} /\ cl' = [cl EXCEPT !.ref = r, !.frame = f]
    BY <1>0, <1>4
  <2> HIDE DEF r, f
  <2>2. /\ cl' \in Clients /\ Same(cl, cl') /\ cl'.s = cl.s /\ cl'.look = cl.look /\ cl'.missed = cl.missed /\ cl'.outcome = cl.outcome
        /\ cl'.ref = r /\ cl'.frame = f
    BY <1>1, <2>1 DEF Clients, Same
  <2>3. Lk.k = "shown"
    BY <1>0, <1>4, OpFacts
  <2>4. page.main = "dashboard"
    BY <1>1, <1>4, <2>3 DEF RefInv, FindAll, Has
  <2> QED
    BY <1>0, <1>1, <1>4, <2>2, <2>4, FrameMoves DEF r, f
<1>5. CASE Alive /\ cl.ref = "good" /\ ~InFrame(St.op)
  <2>1. cl' = Answered(St.op, Value(Lk))
    BY <1>0, <1>5
  <2>2. cl.frame = "out" /\ St.op \in {"until", "while", "read", "if"}
    BY <1>0, <1>1, <1>5, OpFacts DEF LookOps, SilentOps, InFrame
  <2>3. Lk.k = "shown" => Has(Lk.e)
    BY <1>5 DEF RefInv, FindAll
  <2> DEFINE v == Value(Lk)
             d == cl'
  <2>4. v \in BOOLEAN
    BY ValueIsBoolean
  <2>5. v => Saw(Lk, page)
    BY <2>2, <2>3, SawIt
  <2>6. d = Answered(St.op, v)
    BY <2>1
  <2> HIDE DEF v, d
  <2>7. Leaves(d) /\ Goes(cl, d, page, page, TestScript)
    BY <1>0, <2>2, <2>4, <2>5, <2>6, AnsweredGoes
  <2> QED
    BY <1>0, <2>7 DEF Moved, Leaves, d
<1> QED
  BY <1>1, <1>2, <1>3, <1>4, <1>5


LEMMA EnterFrameMoves == ASSUME UiType, EnterFrame PROVE Moved
<1>0. Running /\ InFrame(St.op) /\ cl.frame = "out" /\ UNCHANGED page /\ cl \in Clients /\ cl.outcome = "running" /\ cl.ref = "none"
  BY DEF EnterFrame, UiType, Running, Clients
<1> DEFINE f == IF Alive /\ Has(<<"link", "iframe">>) THEN "in" ELSE "no"
<1>1. f \in {"in", "no"} /\ cl' = [cl EXCEPT !.frame = f]
  BY DEF EnterFrame
<1> HIDE DEF f
<1>2. /\ cl' \in Clients /\ Same(cl, cl') /\ cl'.s = cl.s /\ cl'.look = cl.look /\ cl'.missed = cl.missed /\ cl'.outcome = cl.outcome
      /\ cl'.ref = cl.ref /\ cl'.frame = f
  BY <1>0, <1>1 DEF Clients, Same
<1> QED
  BY <1>0, <1>1, <1>2, FrameMoves

\* leaving the frame, with an outcome of the look in it
LEMMA OutOfFrame ==
    ASSUME UiType, Running, InFrame(St.op), UNCHANGED page, NEW c, cl' = [c EXCEPT !.frame = "out"],
           \/ Ends(cl, c) \/ Again(cl, c)
           \/ Ahead(cl, c, 1, TestScript, cl.missed) /\ cl.frame = "yes"
    PROVE  Moved
<1> DEFINE f == "out"
           d == cl'
<1>0. c \in Clients /\ cl \in Clients /\ Len(TestScript) \in Nat /\ cl.s \in 1 .. Len(TestScript) /\ cl.missed \in BOOLEAN
      /\ St = TestScript[cl.s]
  BY RunningFacts DEF Ends, Again, Ahead, Kept, ClientOk, Clients
<1>1. St.op \notin ClickOps /\ St.op \notin {"until", "get", "action"}
  BY DEF InFrame, ClickOps
<1>2. f \in {"out", "in", "yes", "no"} /\ d = [c EXCEPT !.frame = f] /\ f = "out"
  OBVIOUS
<1> HIDE DEF f, d
<1>3. /\ d \in Clients /\ Same(c, d) /\ d.s = c.s /\ d.look = c.look /\ d.ref = c.ref /\ d.elem = c.elem
      /\ d.missed = c.missed /\ d.outcome = c.outcome /\ d.frame = f
  BY <1>0, <1>2 DEF Clients, Same
<1>4. CASE Ends(cl, c)
  <2>1. ClientOk(d, TestScript) /\ Same(cl, d) /\ d.ref = "none"
    BY <1>2, <1>3, <1>4, OutcomeOk DEF Ends, Kept, Same
  <2>2. Fails(cl, d, page, page)
    BY <1>3, <1>4 DEF Ends, Fails
  <2> QED
    BY <2>1, <2>2 DEF Moved, Goes, d
<1>5. CASE Again(cl, c)
  <2>1. ClientOk(d, TestScript) /\ Same(cl, d) /\ d.ref = "none"
    BY <1>2, <1>3, <1>5, OutcomeOk DEF Again, Kept, Same
  <2>2. StaysPut(cl, d, page, page, St)
    BY <1>1, <1>2, <1>3, <1>5 DEF Again, StaysPut
  <2> QED
    BY <1>0, <2>1, <2>2 DEF Moved, Goes, d
<1>6. CASE Ahead(cl, c, 1, TestScript, cl.missed) /\ cl.frame = "yes"
  <2>0. d.s \in 1 .. Len(TestScript) /\ (d.look = 1 \/ (d.s = cl.s /\ d.look = cl.look)) /\ d.ref = "none"
    BY <1>0, <1>3, <1>6 DEF Ahead
  <2>1. ClientOk(d, TestScript) /\ Same(cl, d) /\ d.ref = "none"
    BY <1>2, <1>3, <1>6, <2>0, OutcomeOk DEF Ahead, Kept, Same
  <2>2. Onward(cl, d, page, page, TestScript, 1)
    BY <1>0, <1>1, <1>2, <1>3, <1>6 DEF Ahead, Onward
  <2> QED
    BY <2>1, <2>2 DEF Moved, Goes, d
<1> QED
  BY <1>4, <1>5, <1>6

LEMMA LeaveFrameMoves == ASSUME UiType, LeaveFrame PROVE Moved
<1>0. Running /\ InFrame(St.op) /\ UNCHANGED page /\ St.op \in LookOps
  BY OpFacts DEF LeaveFrame, LookOps, InFrame
<1>1. CASE ~Alive
  <2>1. cl' = [Failed EXCEPT !.frame = "out"]
    BY <1>1 DEF LeaveFrame
  <2>2. Ends(cl, Failed)
    BY <1>0, FailedEnds
  <2> QED
    BY <1>0, <2>1, <2>2, OutOfFrame
<1>2. CASE Alive
  <2> DEFINE v == cl.frame = "yes"
             c == Answered(St.op, v)
  <2>1. cl' = [c EXCEPT !.frame = "out"]
    BY <1>2 DEF LeaveFrame, DefaultContent
  <2>2. v \in BOOLEAN /\ LastLook /\ St.op \in {"frame_until", "frame_read"}
    BY <1>0, OpFacts DEF LastLook
  <2> HIDE DEF v
  <2>3. Ends(cl, c) \/ Again(cl, c) \/ (c = StepDone /\ v)
    BY <1>0, <2>2, AnsweredOutcome
  <2>4. Ahead(cl, StepDone, 1, TestScript, cl.missed)
    BY <1>0, JumpAhead DEF StepDone
  <2>5. v => cl.frame = "yes"
    BY DEF v
  <2> HIDE DEF c
  <2>6. Ends(cl, c) \/ Again(cl, c) \/ (Ahead(cl, c, 1, TestScript, cl.missed) /\ cl.frame = "yes")
    BY <2>3, <2>4, <2>5
  <2> QED
    BY <1>0, <2>1, <2>6, OutOfFrame
<1> QED
  BY <1>1, <1>2

\* the steps without a look
LEMMA SilentMoves ==
    ASSUME UiType, Running, St.op \in SilentOps, cl' = Failed \/ cl' = PollAgain \/ cl' = StepDone \/ (cl' = Jump(2) /\ St.op = "start_vm"),
           IF St.op = "get" /\ cl' = StepDone THEN page' = GoTo("welcome") ELSE UNCHANGED page, St.op = "get" => cl' \in {Failed, StepDone}
    PROVE  Moved
<1> DEFINE d == cl'
<1>0. /\ cl.frame = "out" /\ cl.missed \in BOOLEAN /\ St = TestScript[cl.s] /\ ~InFrame(St.op) /\ St.op \notin ClickOps
      /\ St.op \notin {"until", "if", "action"}
  BY OpFacts, RunningFacts DEF Clients, SilentOps, InFrame, ClickOps
<1>1. CASE Ends(cl, d) /\ UNCHANGED page
  <2>1. d.frame = "out" /\ d.ref = "none"
    BY <1>0, <1>1 DEF Ends, Kept
  <2>2. Fails(cl, d, page, page')
    BY <1>1 DEF Ends, Fails
  <2> HIDE DEF d
  <2>3. ClientOk(d, TestScript) /\ Same(cl, d)
    BY <1>1, <2>1, OutcomesOk
  <2> QED
    BY <2>1, <2>2, <2>3 DEF Moved, Goes, d
<1>2. CASE Again(cl, d) /\ UNCHANGED page
  <2>1. d.frame = "out" /\ d.ref = "none"
    BY <1>0, <1>2 DEF Again, Kept
  <2>2. StaysPut(cl, d, page, page', St)
    BY <1>0, <1>2, <2>1 DEF Again, StaysPut
  <2> HIDE DEF d
  <2>3. ClientOk(d, TestScript) /\ Same(cl, d)
    BY <1>2, <2>1, OutcomesOk
  <2> QED
    BY <1>0, <2>1, <2>2, <2>3 DEF Moved, Goes, d
<1>3. ASSUME NEW n \in {1, 2}, Ahead(cl, d, n, TestScript, cl.missed), n = 2 => St.op = "start_vm",
             page' = IF St.op = "get" THEN GoTo("welcome") ELSE page
      PROVE  Moved
  <2>1. d.frame = "out" /\ d.ref = "none"
    BY <1>0, <1>3 DEF Ahead, Kept
  <2>2. n \in 1 .. 3
    BY <1>3
  <2> HIDE DEF d
  <2>3. Leaves(d) /\ Onward(cl, d, page, page', TestScript, n)
    BY <1>0, <1>3, <2>1, <2>2, AheadGoes DEF Onward, GoTo
  <2> QED
    BY <2>1, <2>2, <2>3 DEF Moved, Goes, Leaves, d
<1>4. Ends(cl, Failed) /\ Ahead(cl, StepDone, 1, TestScript, cl.missed) /\ Ahead(cl, Jump(2), 2, TestScript, cl.missed)
      /\ (Again(cl, PollAgain) \/ Ends(cl, PollAgain))
  BY FailedEnds, JumpAhead, PollAgainStays DEF StepDone
<1>5. Failed # StepDone
  <2>1. Failed.outcome = "failed" /\ StepDone.outcome \in {"running", "passed"}
    BY <1>4 DEF Ends, Ahead
  <2> QED
    BY <2>1
<1>6. CASE d = StepDone
  <2>1. page' = IF St.op = "get" THEN GoTo("welcome") ELSE page
    BY <1>6
  <2> QED
    BY <1>3, <1>4, <1>6, <2>1
<1>7. CASE d = Jump(2) /\ St.op = "start_vm"
  <2>1. page' = IF St.op = "get" THEN GoTo("welcome") ELSE page
    BY <1>7
  <2> QED
    BY <1>3, <1>4, <1>7, <2>1
<1>8. CASE d = Failed
  BY <1>1, <1>4, <1>5, <1>8
<1>9. CASE d = PollAgain /\ St.op # "get"
  BY <1>1, <1>2, <1>4, <1>9
<1> QED
  BY <1>6, <1>7, <1>8, <1>9

LEMMA GetMoves == ASSUME UiType, Get PROVE Moved
<1>1. Running /\ St.op = "get" /\ (IF Alive THEN cl' = StepDone /\ page' = GoTo("welcome") ELSE cl' = Failed /\ UNCHANGED page)
  BY DEF Get
<1>2. Failed # StepDone
  <2>1. Failed.outcome = "failed" /\ StepDone.outcome \in {"running", "passed"}
    BY <1>1, FailedEnds, JumpAhead DEF StepDone, Ends, Ahead
  <2> QED
    BY <2>1
<1> QED
  BY <1>1, <1>2, SilentMoves DEF SilentOps

LEMMA VmMoves == ASSUME UiType, StartVm \/ AwaitVm PROVE Moved
<1>1. CASE StartVm
  <2>1. Running /\ St.op = "start_vm" /\ cl' \in {StepDone, Jump(2)} /\ UNCHANGED page
    BY <1>1 DEF StartVm
  <2> QED
    BY <2>1, SilentMoves DEF SilentOps
<1>2. CASE AwaitVm
  <2>1. Running /\ St.op = "await_vm" /\ cl' \in {StepDone, PollAgain} /\ UNCHANGED page
    BY <1>2 DEF AwaitVm
  <2> QED
    BY <2>1, SilentMoves DEF SilentOps
<1> QED
  BY <1>1, <1>2


\* what a click leaves of the page
LEMMA PageClicked ==
    ASSUME page \in Pages, NEW e \in Targets, NEW value \in Seq(Picks), NEW q, q = [Clicked(e, value) EXCEPT !.menu = Dropdown(e)]
    PROVE  /\ q \in Pages /\ q.main = page.main /\ q.crumbs = page.crumbs
           /\ Leads(e, value, page, q) /\ Handles(e, page, q)
<1> DEFINE p == Clicked(e, value)
           m == Dropdown(e)
<1>1. /\ p \in Pages /\ p.dialog = page.dialog
      /\ e[1] = "field" => p.form = page.form \cup {e[2]} /\ p.disk = page.disk
      /\ e = <<"link", "Start">> => p.form = page.form /\ p.disk = page.disk
      /\ e = <<"ok", "upload">> => p.disk = page.disk \/ page.form = Fields
      /\ e[1] # "field" /\ e # <<"ok", "upload">> => p.form = page.form /\ p.disk = page.disk
      /\ e # <<"link", "Start">> => p.dgoal = page.dgoal \/ p.dgoal # "upload"
  BY ClickedTyped
<1>2. Leads(e, value, page, p)
  BY ClickedLeads
<1>3. m \in {"none"} \cup DOMAIN Entries
  BY DEF Dropdown
<1>4. m = "Upload" <=> e = <<"button", "Upload">>
  <2>1. DOMAIN Entries = {"Shutdown", "Run", "Upload"}
    BY DEF Entries
  <2>2. e = <<"button", "Upload">> <=> e[1] = "button" /\ e[2] = "Upload"
    BY DEF Targets
  <2> QED
    BY <2>1, <2>2 DEF Dropdown
<1> HIDE DEF p, m
<1>5. q = [p EXCEPT !.menu = m]
  BY DEF p, m
<1>6. /\ q \in Pages /\ q.main = p.main /\ q.crumbs = p.crumbs /\ q.goal = p.goal /\ q.after = p.after
      /\ q.dialog = p.dialog /\ q.dgoal = p.dgoal /\ q.form = p.form /\ q.disk = p.disk /\ q.menu = m
  <2>1. q \in Pages
    BY <1>1, <1>3, <1>5 DEF Pages
  <2>2. /\ q.main = p.main /\ q.crumbs = p.crumbs /\ q.goal = p.goal /\ q.after = p.after
        /\ q.dialog = p.dialog /\ q.dgoal = p.dgoal /\ q.form = p.form /\ q.disk = p.disk /\ q.menu = m
    BY <1>1, <1>5 DEF Pages
  <2> QED
    BY <2>1, <2>2
<1>7. q.main = page.main /\ q.crumbs = page.crumbs
  BY <1>2, <1>6 DEF Leads
<1>8. Leads(e, value, page, q)
  BY <1>2, <1>6 DEF Leads
<1>9. Handles(e, page, q)
  <2>1. e \in SafeTargets \cup {<<"button", "Upload">>} => e[1] # "field" /\ e # <<"ok", "upload">> /\ e # <<"link", "Start">>
    BY DEF SafeTargets
  <2> QED
    BY <1>1, <1>4, <1>6, <2>1 DEF Handles
<1> QED
  BY <1>6, <1>7, <1>8, <1>9

LEMMA PageHovered ==
    ASSUME page \in Pages, NEW m \in {"compute", "storage"}, NEW q, q = [page EXCEPT !.menu = m]
    PROVE  q \in Pages /\ SamePage(page, q) /\ Hovers(page, q)
<1>1. m \in {"none", "compute", "storage"} \cup DOMAIN Entries
  OBVIOUS
<1>2. q \in Pages
  BY <1>1 DEF Pages
<1>3. SamePage(page, q) /\ Hovers(page, q)
  BY DEF Pages, SamePage, Hovers
<1> QED
  BY <1>2, <1>3

LEMMA VmAfterTyped == ASSUME vm \in VmStates, NEW e PROVE VmAfter(e) \in VmStates
  BY DEF VmAfter, VmStates

LEMMA UseClickMoves ==
    ASSUME UiType, RefInv, UseClick
    PROVE  Moved /\ page' \in Pages /\ vm' \in VmStates /\ page'.main = page.main /\ page'.crumbs = page.crumbs
<1>0. Running /\ cl.ref # "none" /\ Lk.k = "click" /\ St.looks # << >> /\ page \in Pages /\ vm \in VmStates
  BY DEF UseClick, UiType
<1>1. St.op \in ClickOps /\ Lk = St.looks[1] /\ cl.frame = "out" /\ St = TestScript[cl.s] /\ Lk \in Looks /\ St \in Steps /\ ~InFrame(St.op)
      /\ cl.missed \in BOOLEAN
  BY <1>0, OpFacts, RunningFacts DEF ClickOps, InFrame, Clients
<1>2. Lk.e \in Targets /\ St.value \in Seq(Picks) /\ (St.op = "hover" => Lk.e[2] \in {"compute", "storage"})
  BY <1>1 DEF Looks, Steps
<1>3. CASE Alive /\ cl.ref = "good" /\ (Clickable(Lk.e) \/ St.op = "hover")
  <2>1. /\ cl' = StepDone
        /\ page' = IF St.op = "hover" THEN [page EXCEPT !.menu = Lk.e[2]]
                                       ELSE [Clicked(Lk.e, St.value) EXCEPT !.menu = Dropdown(Lk.e)]
        /\ vm' = IF St.op = "hover" THEN vm ELSE VmAfter(Lk.e)
    BY <1>3 DEF UseClick
  <2>2. Has(Lk.e)
    BY <1>0, <1>3 DEF RefInv, FindAll
  <2>3. Shows(page, Lk.e)
    BY <1>1, <2>2 DEF Has, Shows
  <2> DEFINE q == page'
             e == Lk.e
             value == St.value
             d == cl'
  <2>4. /\ q \in Pages /\ q.main = page.main /\ q.crumbs = page.crumbs
        /\ IF St.op = "hover" THEN SamePage(page, q) /\ Hovers(page, q) ELSE Leads(e, value, page, q) /\ Handles(e, page, q)
    <3>1. CASE St.op = "hover"
      <4>1. q = [page EXCEPT !.menu = e[2]] /\ e[2] \in {"compute", "storage"}
        BY <1>2, <2>1, <3>1
      <4> HIDE DEF q, e
      <4>2. q \in Pages /\ SamePage(page, q) /\ Hovers(page, q)
        BY <1>0, <4>1, PageHovered
      <4> QED
        BY <3>1, <4>2 DEF SamePage
    <3>2. CASE St.op # "hover"
      <4>1. q = [Clicked(e, value) EXCEPT !.menu = Dropdown(e)] /\ e \in Targets /\ value \in Seq(Picks)
        BY <1>2, <2>1, <3>2
      <4> HIDE DEF q, e, value
      <4>2. q \in Pages /\ q.main = page.main /\ q.crumbs = page.crumbs /\ Leads(e, value, page, q) /\ Handles(e, page, q)
        BY <1>0, <4>1, PageClicked
      <4> QED
        BY <3>2, <4>2
    <3> QED
      BY <3>1, <3>2
  <2>5. Ahead(cl, d, 1, TestScript, cl.missed)
    BY <1>0, <2>1, JumpAhead DEF StepDone
  <2>6. d.frame = "out" /\ d.ref = "none" /\ d.missed = cl.missed
    BY <1>1, <2>5 DEF Ahead, Kept
  <2>7. Pressed(cl, d, page, q, St)
    <3>1. e = St.looks[1].e
      BY <1>1
    <3> HIDE DEF e, q, d, value
    <3> QED
      BY <1>0, <2>3, <2>4, <2>6, <3>1 DEF Pressed, value, e
  <2> HIDE DEF d, q
  <2>8. Leaves(d) /\ Onward(cl, d, page, q, TestScript, 1)
    BY <1>0, <1>1, <2>5, <2>6, <2>7, AheadGoes DEF Onward, ClickOps, InFrame
  <2>9. Moved
    BY <2>8 DEF Moved, Goes, Leaves, d, q
  <2>10. vm' \in VmStates
    BY <1>0, <2>1, VmAfterTyped
  <2> QED
    BY <2>4, <2>9, <2>10 DEF q
<1>4. CASE ~(Alive /\ cl.ref = "good" /\ (Clickable(Lk.e) \/ St.op = "hover"))
  <2> DEFINE what == CASE ~Alive -> "dead" [] Alive /\ cl.ref = "stale" -> "stale" [] OTHER -> "intercepted"
  <2>1. cl' = Raised(St.op, what) /\ UNCHANGED <<page, vm>>
    BY <1>4 DEF UseClick
  <2> HIDE DEF what
  <2>2. Moved
    BY <1>0, <2>1, RaisedMoves
  <2> QED
    BY <1>0, <2>1, <2>2
<1> QED
  BY <1>3, <1>4

LEMMA DriverMoves ==
    ASSUME UiType, RefInv, Driver
    PROVE  /\ Moved /\ page' \in Pages /\ vm' \in VmStates /\ page'.main = page.main /\ page'.crumbs = page.crumbs
           /\ Running /\ UNCHANGED <<gridVars, plan, browser>>
<1>0. page \in Pages /\ vm \in VmStates /\ Running /\ UNCHANGED <<gridVars, plan, browser>>
  BY DEF UiType, Driver, Find, Use, UseClick, EnterFrame, LeaveFrame, Get, StartVm, AwaitVm
<1>1. CASE Find \/ Use \/ EnterFrame \/ LeaveFrame
  <2>1. UNCHANGED <<page, vm>>
    BY <1>1 DEF Find, Use, EnterFrame, LeaveFrame
  <2>2. Moved
    BY <1>1, FindMoves, UseMoves, EnterFrameMoves, LeaveFrameMoves
  <2> QED
    BY <1>0, <2>1, <2>2
<1>2. CASE UseClick
  BY <1>0, <1>2, UseClickMoves
<1>3. CASE Get
  <2>1. vm' = vm /\ (UNCHANGED page \/ page' = GoTo("welcome"))
    BY <1>3 DEF Get
  <2> DEFINE w == "welcome"
  <2>2. w \in Views /\ (UNCHANGED page \/ page' = [page EXCEPT !.goal = w])
    BY <2>1 DEF Views, GoTo
  <2> HIDE DEF w
  <2>3. page' \in Pages /\ page'.main = page.main /\ page'.crumbs = page.crumbs
    BY <1>0, <2>2 DEF Pages
  <2> QED
    BY <1>0, <1>3, <2>1, <2>3, GetMoves
<1>4. CASE StartVm \/ AwaitVm
  <2>1. UNCHANGED page /\ vm' \in {vm, "WaitForLaunch"}
    BY <1>4 DEF StartVm, AwaitVm
  <2> QED
    BY <1>0, <1>4, <2>1, VmMoves DEF VmStates
<1> QED
  BY <1>1, <1>2, <1>3, <1>4 DEF Driver

-----------------------------------------------------------------------------
(* What a test knows of the page.                                           *)

\* a step that leads to no other page
Calm(st) == /\ st.op \in LookOps \cup ClickOps
            /\ st.op \in ClickOps \ {"hover"} => Quiet(st.looks[1].e, st.value)
\* a step of the driver after which the test still runs
Walk(c, d, p, q, sc) ==
    /\ {c.s, c.look, d.s, d.look} \subseteq Nat /\ {c.missed, d.missed} \subseteq BOOLEAN /\ p.main \in Views
    /\ d.outcome = "running" /\ Goes(c, d, p, q, sc)
Rests(c, d, p, q, st) ==
    /\ d.s = c.s /\ q = p /\ d.missed = c.missed /\ d.look \in {1, c.look}
    /\ d.frame = "yes" => c.frame = "yes" \/ p.main = "dashboard"
Looked(c, d, p, q, st) ==
    /\ d.s = c.s /\ q = p /\ d.missed = c.missed /\ d.look = c.look + 1 /\ d.frame = "out"
    /\ st.op \in {"until", "while", "read", "if"} /\ (st.op = "until" => Saw(st.looks[c.look], p))
Passes(c, d, p, q, st) ==
    /\ d.s = c.s + 1 \/ (d.s = c.s + 2 /\ st.op = "start_vm") \/ (d.s = c.s + 3 /\ st.op = "if")
    /\ d.look = 1 /\ d.frame = "out"
    /\ st.op = "until" => c.look = Len(st.looks) /\ Saw(st.looks[c.look], p)
    /\ InFrame(st.op) => c.frame = "yes"
    /\ Calm(st) => SamePage(p, q)
    /\ st.op = "click" => Shows(p, st.looks[1].e) /\ Leads(st.looks[1].e, st.value, p, q)
    /\ st.op = "id_click" => \/ Leads(st.looks[1].e, st.value, p, q) /\ d.missed = c.missed
                             \/ q = p /\ d.missed
    /\ st.op = "get" => q.main = p.main /\ q.goal = "welcome"
    /\ st.op \notin {"id_click", "action"} => d.missed = c.missed

LEMMA QuietIsSame ==
    ASSUME NEW e, NEW value, NEW p, NEW q, Leads(e, value, p, q), Quiet(e, value)
    PROVE  SamePage(p, q)
  BY DEF Leads, SamePage

LEMMA Walking ==
    ASSUME NEW c, NEW d, NEW p \in Pages, NEW q, NEW sc, Walk(c, d, p, q, sc), NEW st, st = sc[c.s]
    PROVE  Rests(c, d, p, q, st) \/ Looked(c, d, p, q, st) \/ Passes(c, d, p, q, st)
<1>1. ~Fails(c, d, p, q)
  BY DEF Walk, Fails
<1>2. CASE StaysPut(c, d, p, q, st)
  BY <1>2 DEF StaysPut, Rests
<1>3. CASE LooksOn(c, d, p, q, st)
  BY <1>3 DEF LooksOn, Looked
<1>4. ASSUME NEW n \in 1 .. 3, Onward(c, d, p, q, sc, n) PROVE Passes(c, d, p, q, st)
  <2>1. /\ d.s = c.s + n /\ d.look = 1 /\ d.frame = "out"
        /\ n = 1 \/ (n = 2 /\ st.op = "start_vm") \/ (n = 3 /\ st.op = "if")
        /\ st.op = "until" => c.look = Len(st.looks) /\ Saw(st.looks[c.look], p)
        /\ InFrame(st.op) => c.frame = "yes"
        /\ IF st.op \in ClickOps THEN Pressed(c, d, p, q, st) \/ GivenUp(c, d, p, q, st)
                                 ELSE d.missed = c.missed /\ q = IF st.op = "get" THEN [p EXCEPT !.goal = "welcome"] ELSE p
    BY <1>4 DEF Onward, Walk
  <2>2. c.missed \in BOOLEAN
    BY DEF Walk
  <2>3. Calm(st) => SamePage(p, q)
    <3>1. CASE st.op \in LookOps
      BY <2>1, <3>1 DEF LookOps, ClickOps, SamePage
    <3>2. CASE st.op \in ClickOps /\ GivenUp(c, d, p, q, st)
      BY <3>2 DEF GivenUp, SamePage
    <3>3. CASE st.op = "hover" /\ Pressed(c, d, p, q, st)
      BY <3>3 DEF Pressed
    <3>4. CASE st.op \in ClickOps \ {"hover"} /\ Pressed(c, d, p, q, st)
      <4>1. Leads(st.looks[1].e, st.value, p, q)
        BY <3>4 DEF Pressed
      <4> QED
        BY <3>4, <4>1, QuietIsSame DEF Calm
    <3> QED
      BY <2>1, <3>1, <3>2, <3>3, <3>4 DEF Calm
  <2>4. st.op = "click" => Shows(p, st.looks[1].e) /\ Leads(st.looks[1].e, st.value, p, q)
    BY <2>1 DEF ClickOps, Pressed, GivenUp
  <2>5. st.op = "id_click" => \/ Leads(st.looks[1].e, st.value, p, q) /\ d.missed = c.missed
                              \/ q = p /\ d.missed
    BY <2>1, <2>2 DEF ClickOps, Pressed, GivenUp
  <2>6. st.op = "get" => q.main = p.main /\ q.goal = "welcome"
    BY <2>1 DEF ClickOps, Pages
  <2>7. st.op \notin {"id_click", "action"} => d.missed = c.missed
    BY <2>1, <2>2 DEF Pressed, GivenUp
  <2> HIDE DEF Pressed, GivenUp
  <2> QED
    BY <2>1, <2>3, <2>4, <2>5, <2>6, <2>7 DEF Passes
<1> QED
  BY <1>1, <1>2, <1>3, <1>4 DEF Walk, Goes

LEMMA PlainIsCalm ==
    ASSUME NEW at, NEW st \in PlainSteps(at)
    PROVE  Calm(st) /\ st.op # "start_vm"
  BY DEF PlainSteps, PlainStep, Calm, Quiet, LookOps, ClickOps

LEMMA SawPage ==
    ASSUME NEW l, NEW p, NEW v, Saw(l, p), l.k \in {"present", "found", "shown"}, l.e = <<"page", v>>
    PROVE  p.main = v
<1>1. Shows(p, <<"page", v>>)
  BY DEF Saw
<1>2. <<"page", v>> \in Content(p.main)
  BY <1>1, ContentShown
<1> QED
  BY <1>2, PagesShown

LEMMA SawRows ==
    ASSUME NEW l, NEW p, NEW v, Saw(l, p), l.k = "rows", l.e = <<"row", v>>
    PROVE  p.main \in {v, "pools"}
<1>1. Shows(p, <<"row", v>>) \/ Shows(p, <<"text", "No items to display">>)
  BY DEF Saw
<1>2. <<"row", v>> \in Content(p.main) \/ <<"text", "No items to display">> \in Content(p.main)
  BY <1>1, ContentShown
<1> QED
  BY <1>2, PagesShown

\* OpenList leads to the list, or to what looks like it
LEMMA ListGoes ==
    ASSUME NEW v, NEW sc, OpenedAt(v, 0, sc), \A i \in 6 .. Len(sc) : Calm(sc[i]), Len(sc) \in Nat,
           NEW c, NEW d, NEW p \in Pages, NEW q, Walk(c, d, p, q, sc), c.s \in 1 .. Len(sc),
           c.s = 5 => c.look \in 1 .. 2, ListClaim(v, 0, c, p)
    PROVE  ListClaim(v, 0, d, q)
<1> DEFINE st == sc[c.s]
<1>0. c.s \in Nat /\ d.s \in Nat /\ d.look \in Nat /\ c.look \in Nat
  BY DEF Walk
<1>1. /\ c.s = 4 => st.op = "click" /\ st.looks[1].e = <<"anchor", v>>
      /\ c.s = 5 => /\ st.op = "until" /\ Len(st.looks) = 2
                    /\ st.looks[1].k = "crumbs" /\ st.looks[1].e[2] = v
                    /\ st.looks[2].k = "rows" /\ st.looks[2].e = <<"row", v>>
      /\ c.s \in 1 .. 3 => st.op \in {"hover", "until"}
  <2>1. /\ sc[4].op = "click" /\ sc[4].looks[1].e = <<"anchor", v>>
        /\ sc[5].op = "until" /\ Len(sc[5].looks) = 2
        /\ sc[5].looks[1].k = "crumbs" /\ sc[5].looks[1].e[2] = v
        /\ sc[5].looks[2].k = "rows" /\ sc[5].looks[2].e = <<"row", v>>
        /\ sc[1].op = "hover" /\ sc[2].op = "until" /\ sc[3].op = "until"
    <3> DEFINE n == 0
    <3>1. n \in Nat /\ OpenedAt(v, n, sc) /\ n + 1 = 1 /\ n + 2 = 2 /\ n + 3 = 3 /\ n + 4 = 4 /\ n + 5 = 5
      OBVIOUS
    <3> HIDE DEF n
    <3>2. /\ sc[n + 4].op = "click" /\ sc[n + 4].looks[1].e = <<"anchor", v>>
          /\ sc[n + 5].op = "until" /\ Len(sc[n + 5].looks) = 2
          /\ sc[n + 5].looks[1].k = "crumbs" /\ sc[n + 5].looks[1].e[2] = v
          /\ sc[n + 5].looks[2].k = "rows" /\ sc[n + 5].looks[2].e = <<"row", v>>
          /\ sc[n + 1].op = "hover" /\ sc[n + 2].op = "until" /\ sc[n + 3].op = "until"
      BY <3>1 DEF OpenedAt, Click, Until, Step, ListDisplayed, Look
    <3> QED
      BY <3>1, <3>2
  <2> QED
    BY <1>0, <2>1
<1>2. c.s > 5 => Calm(st)
  BY <1>0
<1>3. Rests(c, d, p, q, st) \/ Looked(c, d, p, q, st) \/ Passes(c, d, p, q, st)
  BY Walking
<1> HIDE DEF st
<1>4. CASE Rests(c, d, p, q, st)
  BY <1>0, <1>4 DEF Rests, ListClaim
<1>5. CASE Looked(c, d, p, q, st)
  <2>1. c.s = 5 /\ d.look = 2 => p.crumbs = v
    <3> SUFFICES ASSUME c.s = 5, d.look = 2 PROVE p.crumbs = v
      OBVIOUS
    <3>1. c.look = 1 /\ st.op = "until" /\ st.looks[1].k = "crumbs" /\ st.looks[1].e[2] = v
      BY <1>0, <1>1, <1>5 DEF Looked
    <3>2. Saw(st.looks[1], p)
      BY <1>5, <3>1 DEF Looked
    <3> QED
      BY <3>1, <3>2 DEF Saw
  <2> QED
    BY <1>0, <1>5, <2>1 DEF Looked, ListClaim
<1>6. CASE Passes(c, d, p, q, st)
  <2>1. CASE c.s < 4
    BY <1>0, <1>1, <1>6, <2>1 DEF Passes, ListClaim
  <2>2. CASE c.s = 4
    <3>0. Leads(st.looks[1].e, st.value, p, q) /\ st.looks[1].e = <<"anchor", v>> /\ d.s = 5 /\ d.look = 1
      BY <1>0, <1>1, <1>6, <2>2 DEF Passes
    <3>1. q.goal = v /\ d.s = 5 /\ d.look = 1
      BY <3>0 DEF Leads
    <3> QED
      BY <3>1 DEF ListClaim
  <2>3. CASE c.s = 5
    <3>1. Calm(st)
      BY <1>1, <2>3 DEF Calm, LookOps, ClickOps
    <3>2. SamePage(p, q) /\ d.s = 6 /\ c.look = 2 /\ Saw(st.looks[2], p)
      BY <1>0, <1>1, <1>6, <2>3, <3>1 DEF Passes
    <3>3. p.main \in {v, "pools"}
      BY <1>1, <2>3, <3>2, SawRows
    <3>4. p.goal = v /\ p.crumbs = v
      BY <2>3, <3>2 DEF ListClaim
    <3> QED
      BY <3>2, <3>3, <3>4 DEF ListClaim, On, SamePage
  <2>4. CASE c.s > 5
    BY <1>0, <1>2, <1>6, <2>4 DEF Passes, ListClaim, On, SamePage
  <2> QED
    BY <1>0, <2>1, <2>2, <2>3, <2>4
<1> QED
  BY <1>3, <1>4, <1>5, <1>6


LEMMA DevicesOpened ==
    ASSUME NEW s, NEW t, s = BareClick({"vm"}, <<"link", "Host Devices">>),
           t = Until({"vm_devices"}, <<Look("shown", <<"page", "vm_devices">>, FALSE)>>)
    PROVE  /\ s.op = "click" /\ s.looks[1].e = <<"link", "Host Devices">>
           /\ t.op = "until" /\ Len(t.looks) = 1 /\ t.looks[1].k = "shown" /\ t.looks[1].e = <<"page", "vm_devices">>
<1>1. s.op = "click" /\ s.looks[1].e = <<"link", "Host Devices">>
  BY DEF BareClick, Step, Look
<1>2. t.op = "until" /\ Len(t.looks) = 1 /\ t.looks[1].k = "shown" /\ t.looks[1].e = <<"page", "vm_devices">>
  BY DEF Until, Step, Look
<1> QED
  BY <1>1, <1>2

LEMMA VmGoes ==
    ASSUME NEW sc, VmShape(sc), NEW c, NEW d, NEW p \in Pages, NEW q, Walk(c, d, p, q, sc), c.s \in 1 .. 47,
           c.s = 7 => c.look \in 1 .. 2, c.missed => c.s = 28, VmClaim(c, p)
    PROVE  VmClaim(d, q)
<1> DEFINE st == sc[c.s]
<1>0. c.s \in 1 .. 47 /\ d.s \in Nat /\ d.look \in Nat /\ c.look \in Nat
  BY DEF Walk
<1>1. /\ c.s = 1 => st.op = "start_vm"
      /\ c.s = 2 => st.op = "await_vm"
  <2>1. sc[1] = Step("start_vm", Views, << >>) /\ sc[2] = Step("await_vm", Views, << >>)
    BY DEF VmShape
  <2> QED
    BY <2>1 DEF Step
<1>2. /\ c.s = 6 => st.op = "click" /\ st.looks[1].e = <<"anchor", "vms">>
      /\ c.s = 7 => /\ st.op = "until" /\ Len(st.looks) = 2
                    /\ st.looks[1].k = "crumbs" /\ st.looks[1].e[2] = "vms"
                    /\ st.looks[2].k = "rows" /\ st.looks[2].e = <<"row", "vms">>
      /\ c.s \in 3 .. 5 => st.op \in {"hover", "until"}
  <2>1. /\ sc[6].op = "click" /\ sc[6].looks[1].e = <<"anchor", "vms">>
        /\ sc[7].op = "until" /\ Len(sc[7].looks) = 2
        /\ sc[7].looks[1].k = "crumbs" /\ sc[7].looks[1].e[2] = "vms"
        /\ sc[7].looks[2].k = "rows" /\ sc[7].looks[2].e = <<"row", "vms">>
        /\ sc[3].op = "hover" /\ sc[4].op = "until" /\ sc[5].op = "until"
    <3>0. OpenedAt("vms", 2, sc)
      BY DEF VmShape
    <3> DEFINE n == 2
    <3>1. OpenedAt("vms", n, sc) /\ n + 1 = 3 /\ n + 2 = 4 /\ n + 3 = 5 /\ n + 4 = 6 /\ n + 5 = 7
      BY <3>0
    <3> HIDE DEF n
    <3>2. /\ sc[n + 4].op = "click" /\ sc[n + 4].looks[1].e = <<"anchor", "vms">>
          /\ sc[n + 5].op = "until" /\ Len(sc[n + 5].looks) = 2
          /\ sc[n + 5].looks[1].k = "crumbs" /\ sc[n + 5].looks[1].e[2] = "vms"
          /\ sc[n + 5].looks[2].k = "rows" /\ sc[n + 5].looks[2].e = <<"row", "vms">>
          /\ sc[n + 1].op = "hover" /\ sc[n + 2].op = "until" /\ sc[n + 3].op = "until"
      BY <3>1 DEF OpenedAt, Click, Until, Step, ListDisplayed, Look
    <3> QED
      BY <3>1, <3>2
  <2> QED
    BY <1>0, <2>1
<1>3. c.s \in (8 .. 26) \cup (29 .. 40) \cup (43 .. 47) => Calm(st) /\ st.op # "start_vm"
  <2>1. /\ \A i \in 8 .. 26 : sc[i] \in PlainSteps({"vms"})
        /\ \A i \in 29 .. 40 : sc[i] \in PlainSteps({"vm"})
        /\ \A i \in 43 .. 47 : sc[i] \in PlainSteps({"vm_devices"})
    BY DEF VmShape
  <2> QED
    BY <2>1, PlainIsCalm
<1>4. c.s \in {25, 26, 39, 40} => st.op # "if"
  <2>1. "if" \notin {sc[25].op, sc[26].op, sc[39].op, sc[40].op}
    BY DEF VmShape
  <2> QED
    BY <2>1
<1>5. /\ c.s = 27 => st.op = "id_click" /\ st.looks[1].e = <<"row", "vms">> /\ st.value = << >>
      /\ c.s = 28 => st.op = "until" /\ Len(st.looks) = 1 /\ st.looks[1].k = "crumbs" /\ st.looks[1].e[2] = "vm"
  <2>1. sc[27] = Persistent("id_click", {"vms"}, <<"row", "vms">>) /\ sc[28] = Until({"vm"}, <<Look("crumbs", <<"page", "vm">>, TRUE)>>)
    BY DEF VmShape
  <2> QED
    BY <2>1 DEF Persistent, Step, Until, Look
<1>6. /\ c.s = 41 => st.op = "click" /\ st.looks[1].e = <<"link", "Host Devices">>
      /\ c.s = 42 => st.op = "until" /\ Len(st.looks) = 1 /\ st.looks[1].k = "shown" /\ st.looks[1].e = <<"page", "vm_devices">>
  BY DevicesOpened DEF VmShape
<1>7. Rests(c, d, p, q, st) \/ Looked(c, d, p, q, st) \/ Passes(c, d, p, q, st)
  BY Walking
<1> HIDE DEF st
<1>8. CASE Rests(c, d, p, q, st)
  <2>1. d.s = c.s /\ q = p /\ d.missed = c.missed /\ d.look \in {1, c.look}
    BY <1>8 DEF Rests
  <2>2. d.s = 7 /\ d.look = 2 => c.look = 2
    BY <2>1
  <2> QED
    BY <2>1, <2>2 DEF VmClaim
<1>9. CASE Looked(c, d, p, q, st)
  <2>1. c.s = 7 /\ d.look = 2 => p.crumbs = "vms"
    <3> SUFFICES ASSUME c.s = 7, d.look = 2 PROVE p.crumbs = "vms"
      OBVIOUS
    <3>1. c.look = 1 /\ st.op = "until" /\ st.looks[1].k = "crumbs" /\ st.looks[1].e[2] = "vms"
      BY <1>0, <1>2, <1>9 DEF Looked
    <3>2. Saw(st.looks[1], p)
      BY <1>9, <3>1 DEF Looked
    <3> QED
      BY <3>1, <3>2 DEF Saw
  <2>2. d.s = c.s /\ q = p /\ d.missed = c.missed
    BY <1>9 DEF Looked
  <2> QED
    BY <2>1, <2>2 DEF VmClaim
<1>10. CASE Passes(c, d, p, q, st)
  <2>1. CASE c.s < 6
    <3>0. st.op # "if" /\ (c.s > 1 => st.op # "start_vm")
      <4>1. c.s = 1 \/ c.s = 2 \/ c.s \in 3 .. 5
        BY <1>0, <2>1
      <4>2. c.s \in 3 .. 5 => st.op \in {"hover", "until"}
        BY <1>2
      <4> QED
        BY <1>1, <4>1, <4>2
    <3>1. d.s = c.s + 1 \/ (d.s = c.s + 2 /\ st.op = "start_vm")
      BY <1>10, <3>0 DEF Passes
    <3>2. d.s < 7
      BY <1>0, <2>1, <3>0, <3>1
    <3> QED
      BY <1>0, <3>2 DEF VmClaim
  <2>2. CASE c.s = 6
    <3>0. Leads(st.looks[1].e, st.value, p, q) /\ st.looks[1].e = <<"anchor", "vms">> /\ d.s = 7 /\ d.look = 1
      BY <1>0, <1>2, <1>10, <2>2 DEF Passes
    <3>1. q.goal = "vms" /\ d.s = 7 /\ d.look = 1
      BY <3>0 DEF Leads
    <3> QED
      BY <3>1 DEF VmClaim
  <2>3. CASE c.s = 7
    <3>1. Calm(st)
      BY <1>2, <2>3 DEF Calm, LookOps, ClickOps
    <3>2. SamePage(p, q) /\ d.s = 8 /\ c.look = 2 /\ Saw(st.looks[2], p)
      BY <1>0, <1>2, <1>10, <2>3, <3>1 DEF Passes
    <3>3. p.main \in {"vms", "pools"}
      BY <1>2, <2>3, <3>2, SawRows
    <3>4. p.goal = "vms" /\ p.crumbs = "vms"
      BY <2>3, <3>2 DEF VmClaim
    <3> QED
      BY <3>2, <3>3, <3>4 DEF VmClaim, On, SamePage
  <2>4. CASE c.s \in 8 .. 26
    <3>1. Calm(st) /\ st.op # "start_vm"
      BY <1>3, <2>4
    <3>2. SamePage(p, q) /\ (d.s = c.s + 1 \/ (d.s = c.s + 3 /\ c.s \notin {25, 26}))
      BY <1>4, <1>10, <3>1 DEF Passes
    <3>3. d.s \in 9 .. 27
      BY <1>0, <2>4, <3>2
    <3>4. On("vms", p)
      BY <2>4 DEF VmClaim
    <3>5. On("vms", q)
      BY <3>2, <3>4 DEF On, SamePage
    <3>6. d.s \in 8 .. 27 /\ d.s # 7 /\ d.s # 28 /\ d.s \notin 29 .. 41 /\ ~(d.s > 41) /\ ~(d.s > 42)
      BY <3>3
    <3> QED
      BY <3>5, <3>6 DEF VmClaim
  <2>5. CASE c.s = 27
    <3>0. On("vms", p)
      <4>1. c.s \in 8 .. 27
        BY <2>5
      <4> QED
        BY <4>1 DEF VmClaim
    <3>1. d.s = 28 /\ ~c.missed /\ On("vms", p)
      BY <1>0, <1>5, <1>10, <2>5, <3>0 DEF Passes, Walk
    <3>2. CASE q = p /\ d.missed
      BY <3>1, <3>2 DEF VmClaim
    <3>3. CASE Leads(st.looks[1].e, st.value, p, q) /\ d.missed = c.missed
      <4>0. st.looks[1].e[1] = "row" /\ st.value = << >>
        BY <1>5, <2>5
      <4>1. q.goal = "vm" /\ ~d.missed
        BY <3>1, <3>3, <4>0 DEF Leads
      <4> QED
        BY <3>1, <4>1 DEF VmClaim
    <3> QED
      BY <1>5, <1>10, <2>5, <3>2, <3>3 DEF Passes
  <2>6. CASE c.s = 28
    <3>1. Calm(st)
      BY <1>5, <2>6 DEF Calm, LookOps, ClickOps
    <3>2. SamePage(p, q) /\ d.s = 29 /\ c.look = 1 /\ Saw(st.looks[1], p)
      BY <1>0, <1>5, <1>10, <2>6, <3>1 DEF Passes
    <3>3. p.crumbs = "vm"
      BY <1>5, <2>6, <3>2 DEF Saw
    <3>4. p.goal = "vm"
      BY <2>6, <3>3 DEF VmClaim, On
    <3> QED
      BY <3>2, <3>3, <3>4 DEF VmClaim, SamePage
  <2>7. CASE c.s \in 29 .. 40
    <3>1. Calm(st) /\ st.op # "start_vm"
      BY <1>3, <2>7
    <3>2. SamePage(p, q) /\ (d.s = c.s + 1 \/ (d.s = c.s + 3 /\ c.s \notin {39, 40}))
      BY <1>4, <1>10, <3>1 DEF Passes
    <3>3. d.s \in 30 .. 41
      BY <1>0, <2>7, <3>2
    <3>4. p.goal = "vm" /\ p.crumbs = "vm"
      <4>1. c.s \in 29 .. 41
        BY <2>7
      <4> QED
        BY <4>1 DEF VmClaim
    <3>5. q.goal = "vm" /\ q.crumbs = "vm"
      BY <3>2, <3>4 DEF SamePage
    <3>6. d.s \notin 8 .. 27 /\ d.s # 7 /\ d.s # 28 /\ ~(d.s > 41) /\ ~(d.s > 42)
      BY <3>3
    <3> QED
      BY <3>5, <3>6 DEF VmClaim
  <2>8. CASE c.s = 41
    <3>0. p.crumbs = "vm"
      <4>1. c.s \in 29 .. 41
        BY <2>8
      <4> QED
        BY <4>1 DEF VmClaim
    <3>a. st.op = "click"
      BY <1>6, <2>8
    <3>1. Leads(st.looks[1].e, st.value, p, q) /\ d.s = 42 /\ p.crumbs = "vm"
      BY <1>0, <1>10, <2>8, <3>0, <3>a DEF Passes
    <3>2. q.goal = "vm_devices" /\ q.crumbs = "vm"
      BY <1>6, <2>8, <3>1 DEF Leads
    <3> QED
      BY <3>1, <3>2 DEF VmClaim
  <2>9. CASE c.s = 42
    <3>1. Calm(st)
      BY <1>6, <2>9 DEF Calm, LookOps, ClickOps
    <3>2. SamePage(p, q) /\ d.s = 43 /\ c.look = 1 /\ Saw(st.looks[1], p)
      BY <1>0, <1>6, <1>10, <2>9, <3>1 DEF Passes
    <3>3. p.main = "vm_devices"
      BY <1>6, <2>9, <3>2, SawPage
    <3>4. p.goal = "vm_devices" /\ p.crumbs = "vm"
      <4>1. c.s > 41
        BY <2>9
      <4> QED
        BY <4>1 DEF VmClaim
    <3> QED
      BY <3>2, <3>3, <3>4 DEF VmClaim, SamePage
  <2>10. CASE c.s \in 43 .. 47
    <3>1. Calm(st) /\ st.op # "start_vm"
      BY <1>3, <2>10
    <3>2. SamePage(p, q) /\ (d.s = c.s + 1 \/ d.s = c.s + 3)
      BY <1>10, <3>1 DEF Passes
    <3>3. d.s > 43 /\ c.s > 42 /\ c.s > 41
      BY <1>0, <2>10, <3>2
    <3>4. p.goal = "vm_devices" /\ p.crumbs = "vm" /\ p.main = "vm_devices"
      BY <3>3 DEF VmClaim
    <3>5. q.goal = "vm_devices" /\ q.crumbs = "vm" /\ q.main = "vm_devices"
      BY <3>2, <3>4 DEF SamePage
    <3>6. d.s \notin 8 .. 27 /\ d.s # 7 /\ d.s # 28 /\ d.s \notin 29 .. 41
      BY <1>0, <3>3
    <3> QED
      BY <3>5, <3>6 DEF VmClaim
  <2>11. \/ c.s < 6 \/ c.s = 6 \/ c.s = 7 \/ c.s \in 8 .. 26 \/ c.s = 27 \/ c.s = 28 \/ c.s \in 29 .. 40 \/ c.s = 41
         \/ c.s = 42 \/ c.s \in 43 .. 47
    BY <1>0
  <2> QED
    BY <2>1, <2>2, <2>3, <2>4, <2>5, <2>6, <2>7, <2>8, <2>9, <2>10, <2>11
<1> QED
  BY <1>7, <1>8, <1>9, <1>10


\* the ways on from a step
LEMMA PassedUntil ==
    ASSUME NEW c, NEW d, NEW p, NEW q, NEW st, Passes(c, d, p, q, st), st.op = "until"
    PROVE  /\ d.s = c.s + 1 /\ d.look = 1 /\ d.frame = "out" /\ SamePage(p, q)
           /\ c.look = Len(st.looks) /\ Saw(st.looks[c.look], p)
  BY DEF Passes, Calm, LookOps, ClickOps

LEMMA PassedClick ==
    ASSUME NEW c, NEW d, NEW p, NEW q, NEW st, Passes(c, d, p, q, st), st.op = "click"
    PROVE  /\ d.s = c.s + 1 /\ d.look = 1 /\ d.frame = "out"
           /\ Shows(p, st.looks[1].e) /\ Leads(st.looks[1].e, st.value, p, q)
  BY DEF Passes

LEMMA PassedCalm ==
    ASSUME NEW c, NEW d, NEW p, NEW q, NEW st, Passes(c, d, p, q, st), Calm(st), st.op \notin {"if", "start_vm"}
    PROVE  d.s = c.s + 1 /\ d.look = 1 /\ d.frame = "out" /\ SamePage(p, q)
  BY DEF Passes

\* what the steps of a login are
LEMMA LinkLooks ==
    ASSUME NEW link, NEW s, s = BareClick({"welcome"}, <<"link", link>>)
    PROVE  s.op = "click" /\ s.looks[1].e = <<"link", link>>
  BY DEF BareClick, Step, Look
LEMMA FormLooks ==
    ASSUME NEW s, s = Until({"login"}, <<Look("shown", <<"link", "username">>, FALSE), Look("shown", <<"link", "password">>, FALSE)>>)
    PROVE  s.op = "until" /\ Len(s.looks) = 2 /\ s.looks[1].k = "shown" /\ s.looks[1].e = <<"link", "username">>
  BY DEF Until, Step, Look
LEMMA LogInLooks ==
    ASSUME NEW s, s = Click({"login"}, <<"link", "log in">>)
    PROVE  s.op = "click" /\ s.looks[1].e = <<"link", "log in">>
  BY DEF Click, Step, Look

LEMMA EntryGoes ==
    ASSUME NEW link, NEW at, NEW e, NEW n \in Nat, NEW dest, NEW sc, EntryShape(link, at, e, n, sc),
           (link = "webadmin" /\ dest = "dashboard") \/ (link = "portal" /\ dest = "portal"),
           \A r : Shows(r, e) /\ r.main \in {"login", dest} => r.main = dest,
           NEW c, NEW d, NEW p \in Pages, NEW q, Walk(c, d, p, q, sc), c.s \in 1 .. n,
           EntryClaim(dest, c, p)
    PROVE  EntryClaim(dest, d, q)
<1> DEFINE st == sc[c.s]
<1>0. c.s \in Nat /\ c.s >= 1 /\ c.s <= n /\ d.s \in Nat /\ d.look \in Nat /\ c.look \in Nat /\ p.main \in Views
  BY DEF Walk
<1>1. /\ sc[1].op = "until"
      /\ sc[2].op = "click" /\ sc[2].looks[1].e = <<"link", link>>
      /\ sc[3].op = "until" /\ Len(sc[3].looks) = 2 /\ sc[3].looks[1].k = "shown" /\ sc[3].looks[1].e = <<"link", "username">>
      /\ sc[4] \in PlainSteps({"login"}) /\ sc[5] \in PlainSteps({"login"}) /\ sc[4].op = "click" /\ sc[5].op = "click"
      /\ sc[6].op = "click" /\ sc[6].looks[1].e = <<"link", "log in">>
      /\ sc[7].op = "until" /\ Len(sc[7].looks) = 1 /\ sc[7].looks[1].k = "present" /\ sc[7].looks[1].e = e
      /\ \A i \in 8 .. n : sc[i].op \in {"until", "read"}
  <2>1. /\ sc[1].op = "until"
        /\ sc[4] \in PlainSteps({"login"}) /\ sc[5] \in PlainSteps({"login"}) /\ sc[4].op = "click" /\ sc[5].op = "click"
        /\ \A i \in 8 .. n : sc[i].op \in {"until", "read"}
    BY DEF EntryShape
  <2>2. sc[2].op = "click" /\ sc[2].looks[1].e = <<"link", link>>
    <3>1. sc[2] = BareClick({"welcome"}, <<"link", link>>)
      BY DEF EntryShape
    <3> QED
      BY <3>1, LinkLooks
  <2>3. sc[3].op = "until" /\ Len(sc[3].looks) = 2 /\ sc[3].looks[1].k = "shown" /\ sc[3].looks[1].e = <<"link", "username">>
    <3>1. sc[3] = Until({"login"}, <<Look("shown", <<"link", "username">>, FALSE), Look("shown", <<"link", "password">>, FALSE)>>)
      BY DEF EntryShape
    <3> QED
      BY <3>1, FormLooks
  <2>4. sc[6].op = "click" /\ sc[6].looks[1].e = <<"link", "log in">>
    <3>1. sc[6] = Click({"login"}, <<"link", "log in">>)
      BY DEF EntryShape
    <3> QED
      BY <3>1, LogInLooks
  <2>5. sc[7].op = "until" /\ Len(sc[7].looks) = 1 /\ sc[7].looks[1].k = "present" /\ sc[7].looks[1].e = e
    <3>1. sc[7] = Until(at, <<Look("present", e, FALSE)>>)
      BY DEF EntryShape
    <3> QED
      BY <3>1 DEF Until, Step, Look
  <2> QED
    BY <2>1, <2>2, <2>3, <2>4, <2>5
<1>2. Rests(c, d, p, q, st) \/ Looked(c, d, p, q, st) \/ Passes(c, d, p, q, st)
  BY Walking
<1> HIDE DEF st
<1>3. CASE Rests(c, d, p, q, st)
  <2>1. d.s = c.s /\ q = p /\ (d.s = 3 /\ d.look = 2 => c.look = 2)
    BY <1>3 DEF Rests
  <2> QED
    BY <2>1 DEF EntryClaim
<1>4. CASE Looked(c, d, p, q, st)
  <2>1. d.s = c.s /\ q = p
    BY <1>4 DEF Looked
  <2>2. c.s = 3 /\ d.look = 2 => Reached("login", p)
    <3> SUFFICES ASSUME c.s = 3, d.look = 2 PROVE Reached("login", p)
      OBVIOUS
    <3>1. st.op = "until" /\ st.looks[1].k = "shown" /\ st.looks[1].e = <<"link", "username">>
      BY <1>1 DEF st
    <3>2. c.look = 1 /\ (st.op = "until" => Saw(st.looks[c.look], p))
      BY <1>0, <1>4 DEF Looked
    <3>3. Shows(p, <<"link", "username">>)
      BY <3>1, <3>2 DEF Saw
    <3>4. <<"link", "username">> \in Content(p.main)
      BY <3>3, ContentShown
    <3>5. p.main = "login"
      BY <1>0, <3>4, LinksShown
    <3> QED
      BY <3>5 DEF EntryClaim, Reached
  <2> QED
    BY <2>1, <2>2 DEF EntryClaim
<1>5. CASE Passes(c, d, p, q, st)
  <2>1. CASE c.s = 1
    <3>0. st.op = "until"
      BY <1>1, <2>1 DEF st
    <3>1. d.s = 2
      BY <1>5, <2>1, <3>0, PassedUntil
    <3> QED
      BY <3>1 DEF EntryClaim
  <2>2. CASE c.s = 2
    <3>0. st.op = "click" /\ st.looks[1].e = <<"link", link>>
      BY <1>1, <2>2 DEF st
    <3>1. d.s = 3 /\ d.look = 1 /\ Shows(p, st.looks[1].e) /\ Leads(st.looks[1].e, st.value, p, q)
      BY <1>5, <2>2, <3>0, PassedClick
    <3>2. p.main = "welcome"
      <4>1. <<"link", link>> \in Content(p.main)
        BY <3>0, <3>1, ContentShown
      <4> QED
        BY <1>0, <4>1, LinksShown
    <3>3. q.main = "welcome" /\ q.goal \in {"login", dest} /\ q.after = dest
      BY <3>0, <3>1, <3>2 DEF Leads
    <3> QED
      BY <3>1, <3>3 DEF EntryClaim
  <2>3. CASE c.s = 3
    <3>0. st.op = "until" /\ Len(st.looks) = 2
      BY <1>1, <2>3 DEF st
    <3>1. d.s = 4 /\ SamePage(p, q) /\ c.look = 2
      BY <1>5, <2>3, <3>0, PassedUntil
    <3>2. Reached("login", p) /\ p.after = dest
      BY <2>3, <3>1 DEF EntryClaim
    <3>3. Reached("login", q) /\ q.after = dest
      BY <3>1, <3>2 DEF Reached, SamePage
    <3> QED
      BY <3>1, <3>3 DEF EntryClaim
  <2>4. CASE c.s \in {4, 5}
    <3>1. Calm(st) /\ st.op = "click"
      BY <1>1, <2>4, PlainIsCalm DEF st
    <3>2. d.s = c.s + 1 /\ SamePage(p, q)
      BY <1>5, <3>1, PassedCalm
    <3>3. Reached("login", p) /\ p.after = dest
      BY <2>4 DEF EntryClaim
    <3>4. Reached("login", q) /\ q.after = dest
      BY <3>2, <3>3 DEF Reached, SamePage
    <3>5. d.s = 5 \/ d.s = 6
      BY <2>4, <3>2
    <3> QED
      BY <3>4, <3>5 DEF EntryClaim
  <2>5. CASE c.s = 6
    <3>0. st.op = "click" /\ st.looks[1].e = <<"link", "log in">>
      BY <1>1, <2>5 DEF st
    <3>a. d.s = c.s + 1 /\ Leads(st.looks[1].e, st.value, p, q)
      BY <1>5, <3>0, PassedClick
    <3>1. d.s = 7 /\ Leads(st.looks[1].e, st.value, p, q)
      BY <2>5, <3>a
    <3>2. Reached("login", p) /\ p.after = dest
      BY <2>5 DEF EntryClaim
    <3>3. q.goal = dest /\ q.main = "login"
      BY <3>0, <3>1, <3>2 DEF Leads, Reached
    <3>4. Between("login", dest, q) /\ q.main # dest
      BY <3>3 DEF Between
    <3> QED
      BY <3>1, <3>4 DEF EntryClaim
  <2>6. CASE c.s = 7
    <3>0. st.op = "until" /\ Len(st.looks) = 1 /\ st.looks[1].k = "present" /\ st.looks[1].e = e
      BY <1>1, <2>6 DEF st
    <3>1. d.s = 8 /\ SamePage(p, q) /\ Saw(st.looks[1], p)
      BY <1>5, <2>6, <3>0, PassedUntil
    <3>2. Between("login", dest, p) /\ (p.main = dest => p.crumbs = dest)
      BY <2>6 DEF EntryClaim
    <3>3. Shows(p, e)
      BY <3>0, <3>1 DEF Saw
    <3>4. p.main = dest
      BY <3>2, <3>3 DEF Between
    <3> QED
      BY <3>1, <3>2, <3>4 DEF EntryClaim, Between, SamePage
  <2>7. CASE c.s > 7
    <3>1. Calm(st) /\ st.op \in {"until", "read"}
      <4>1. c.s \in 8 .. n
        BY <1>0, <2>7
      <4> QED
        BY <1>1, <4>1 DEF st, Calm, LookOps, ClickOps
    <3>2. d.s = c.s + 1 /\ SamePage(p, q)
      BY <1>5, <3>1, PassedCalm
    <3>3. Between("login", dest, p) /\ (p.main = dest => p.crumbs = dest) /\ p.main = dest
      BY <1>0, <2>7 DEF EntryClaim
    <3>4. d.s > 7 /\ d.s > 6 /\ d.s # 3 /\ d.s \notin 3 .. 6 /\ d.s \notin 4 .. 6
      BY <1>0, <2>7, <3>2
    <3> QED
      BY <3>2, <3>3, <3>4 DEF EntryClaim, Between, SamePage
  <2>8. c.s = 1 \/ c.s = 2 \/ c.s = 3 \/ c.s \in {4, 5} \/ c.s = 6 \/ c.s = 7 \/ c.s > 7
    BY <1>0
  <2> QED
    BY <2>1, <2>2, <2>3, <2>4, <2>5, <2>6, <2>7, <2>8
<1> QED
  BY <1>2, <1>3, <1>4, <1>5

LEMMA DashboardLooks ==
    ASSUME NEW s, NEW t, NEW u, s = Click(WebAdmin, <<"anchor", "dashboard">>), t = Dashboard("frame_until"), u = Dashboard("frame_read")
    PROVE  /\ s.op = "click" /\ s.looks[1].e = <<"anchor", "dashboard">>
           /\ t.op = "frame_until" /\ u.op = "frame_read"
<1>1. s.op = "click" /\ s.looks[1].e = <<"anchor", "dashboard">>
  BY DEF Click, Step, Look
<1>2. t.op = "frame_until" /\ u.op = "frame_read"
  BY DEF Dashboard, Step, Look
<1> QED
  BY <1>1, <1>2

LEMMA DashboardGoes ==
    ASSUME NEW sc, DashboardShape(sc), NEW c, NEW d, NEW p \in Pages, NEW q, Walk(c, d, p, q, sc), c.s \in 1 .. 5,
           DashboardClaim(c, p)
    PROVE  DashboardClaim(d, q)
<1> DEFINE st == sc[c.s]
<1>0. c.s \in Nat /\ c.s >= 1 /\ c.s <= 5 /\ d.s \in Nat
  BY DEF Walk
<1>1. /\ sc[1].op = "until" /\ sc[2].op = "until"
      /\ sc[3].op = "click" /\ sc[3].looks[1].e = <<"anchor", "dashboard">>
      /\ sc[4].op = "frame_until" /\ sc[5].op = "frame_read"
  BY DashboardLooks DEF DashboardShape
<1>2. Rests(c, d, p, q, st) \/ Looked(c, d, p, q, st) \/ Passes(c, d, p, q, st)
  BY Walking
<1> HIDE DEF st
<1>3. CASE Rests(c, d, p, q, st)
  BY <1>0, <1>3 DEF Rests, DashboardClaim
<1>4. CASE Looked(c, d, p, q, st)
  <2>1. d.s = c.s /\ q = p /\ d.frame = "out"
    BY <1>4 DEF Looked
  <2> QED
    BY <2>1 DEF DashboardClaim
<1>5. CASE Passes(c, d, p, q, st)
  <2>1. CASE c.s < 3
    <3>1. st.op = "until"
      BY <1>0, <1>1, <2>1 DEF st
    <3>2. d.s = c.s + 1
      BY <1>5, <3>1, PassedUntil
    <3> QED
      BY <1>0, <2>1, <3>2 DEF DashboardClaim
  <2>2. CASE c.s = 3
    <3>1. d.s = 4 /\ d.frame = "out" /\ Leads(st.looks[1].e, st.value, p, q) /\ st.looks[1].e = <<"anchor", "dashboard">>
      BY <1>1, <1>5, <2>2, PassedClick DEF st
    <3>2. q.goal = "dashboard"
      BY <3>1 DEF Leads
    <3> QED
      BY <3>1, <3>2 DEF DashboardClaim
  <2>3. CASE c.s > 3
    <3>1. InFrame(st.op) /\ Calm(st) /\ st.op \notin {"if", "start_vm"}
      <4>1. st.op = "frame_until" \/ st.op = "frame_read"
        BY <1>0, <1>1, <2>3 DEF st
      <4> QED
        BY <4>1 DEF InFrame, Calm, LookOps, ClickOps
    <3>2. d.s = c.s + 1 /\ SamePage(p, q) /\ c.frame = "yes"
      BY <1>5, <3>1, PassedCalm DEF Passes
    <3>3. p.goal = "dashboard" /\ p.main = "dashboard"
      BY <1>0, <2>3, <3>2 DEF DashboardClaim
    <3> QED
      BY <3>2, <3>3 DEF DashboardClaim, SamePage
  <2> QED
    BY <1>0, <2>1, <2>2, <2>3
<1> QED
  BY <1>2, <1>3, <1>4, <1>5

LEMMA WelcomeLooks ==
    ASSUME NEW s, s = Until({"welcome"}, <<Look("shown", <<"page", "welcome">>, FALSE)>>)
    PROVE  s.op = "until" /\ Len(s.looks) = 1 /\ s.looks[1].k = "shown" /\ s.looks[1].e = <<"page", "welcome">>
  BY DEF Until, Step, Look

LEMMA LogoutGoes ==
    ASSUME NEW sc, LogoutShape(sc), NEW c, NEW d, NEW p \in Pages, NEW q, Walk(c, d, p, q, sc), c.s \in 1 .. 12,
           LogoutClaim(c, p)
    PROVE  LogoutClaim(d, q)
<1> DEFINE st == sc[c.s]
<1>0. c.s \in Nat /\ c.s >= 1 /\ c.s <= 12 /\ d.s \in Nat
  BY DEF Walk
<1>1. /\ \A i \in 1 .. 9 : sc[i].op \in {"until", "while", "click"}
      /\ sc[10].op = "get" /\ sc[12].op = "read"
      /\ sc[11].op = "until" /\ Len(sc[11].looks) = 1 /\ sc[11].looks[1].k = "shown" /\ sc[11].looks[1].e = <<"page", "welcome">>
  <2>1. sc[10].op = "get"
    BY DEF LogoutShape, Step
  <2>2. sc[11] = Until({"welcome"}, <<Look("shown", <<"page", "welcome">>, FALSE)>>)
    BY DEF LogoutShape
  <2> QED
    BY <2>1, <2>2, WelcomeLooks DEF LogoutShape
<1>2. Rests(c, d, p, q, st) \/ Looked(c, d, p, q, st) \/ Passes(c, d, p, q, st)
  BY Walking
<1> HIDE DEF st
<1>3. CASE Rests(c, d, p, q, st)
  BY <1>0, <1>3 DEF Rests, LogoutClaim
<1>4. CASE Looked(c, d, p, q, st)
  BY <1>0, <1>4 DEF Looked, LogoutClaim
<1>5. CASE Passes(c, d, p, q, st)
  <2>1. CASE c.s < 10
    <3>1. st.op \in {"until", "while", "click"}
      <4>1. c.s \in 1 .. 9
        BY <1>0, <2>1
      <4> QED
        BY <1>1, <4>1 DEF st
    <3>2. d.s = c.s + 1
      BY <1>5, <3>1 DEF Passes
    <3> QED
      BY <1>0, <2>1, <3>2 DEF LogoutClaim
  <2>2. CASE c.s = 10
    <3>1. st.op = "get"
      BY <1>1, <2>2 DEF st
    <3>2. d.s = 11 /\ q.goal = "welcome"
      BY <1>5, <2>2, <3>1 DEF Passes
    <3> QED
      BY <3>2 DEF LogoutClaim
  <2>3. CASE c.s = 11
    <3>1. /\ d.s = 12 /\ SamePage(p, q) /\ Saw(st.looks[1], p)
          /\ st.looks[1].k = "shown" /\ st.looks[1].e = <<"page", "welcome">>
      BY <1>1, <1>5, <2>3, PassedUntil DEF st
    <3>2. p.main = "welcome"
      BY <3>1, SawPage
    <3>3. p.goal = "welcome"
      BY <2>3 DEF LogoutClaim
    <3> QED
      BY <3>1, <3>2, <3>3 DEF LogoutClaim, Reached, SamePage
  <2>4. CASE c.s = 12
    <3>1. d.s = 13
      BY <1>1, <1>5, <2>4 DEF st, Passes
    <3> QED
      BY <3>1 DEF LogoutClaim
  <2> QED
    BY <1>0, <2>1, <2>2, <2>3, <2>4
<1> QED
  BY <1>2, <1>3, <1>4, <1>5


LEMMA GrafanaLooks ==
    ASSUME NEW sc, GrafanaShape(sc)
    PROVE  /\ sc[1].op = "get"
           /\ sc[2].op = "until" /\ Len(sc[2].looks) = 1 /\ sc[2].looks[1].k = "shown" /\ sc[2].looks[1].e = <<"page", "welcome">>
           /\ sc[3].op = "click" /\ sc[3].looks[1].e = <<"link", "grafana">>
           /\ sc[4].op = "until" /\ Len(sc[4].looks) = 1 /\ sc[4].looks[1].k = "shown" /\ sc[4].looks[1].e = <<"link", "oauth">>
           /\ sc[5].op = "click" /\ sc[5].looks[1].e = <<"link", "oauth">>
           /\ sc[6].op = "until" /\ Len(sc[6].looks) = 1 /\ sc[6].looks[1].k = "shown" /\ sc[6].looks[1].e = <<"page", "grafana">>
<1>1. sc[1].op = "get"
  <2>1. sc[1] = Step("get", Views, << >>)
    BY DEF GrafanaShape
  <2> QED
    BY <2>1 DEF Step
<1>2. sc[2].op = "until" /\ Len(sc[2].looks) = 1 /\ sc[2].looks[1].k = "shown" /\ sc[2].looks[1].e = <<"page", "welcome">>
  <2>1. sc[2] = Until({"welcome"}, <<Look("shown", <<"page", "welcome">>, FALSE)>>)
    BY DEF GrafanaShape
  <2> QED
    BY <2>1 DEF Until, Step, Look
<1>3. sc[3].op = "click" /\ sc[3].looks[1].e = <<"link", "grafana">>
  <2>1. sc[3] = BareClick({"welcome"}, <<"link", "grafana">>)
    BY DEF GrafanaShape
  <2> QED
    BY <2>1 DEF BareClick, Step, Look
<1>4. sc[4].op = "until" /\ Len(sc[4].looks) = 1 /\ sc[4].looks[1].k = "shown" /\ sc[4].looks[1].e = <<"link", "oauth">>
  <2>1. sc[4] = Until({"grafana_login"}, <<Look("shown", <<"link", "oauth">>, FALSE)>>)
    BY DEF GrafanaShape
  <2> QED
    BY <2>1 DEF Until, Step, Look
<1>5. sc[5].op = "click" /\ sc[5].looks[1].e = <<"link", "oauth">>
  <2>1. sc[5] = Click({"grafana_login"}, <<"link", "oauth">>)
    BY DEF GrafanaShape
  <2> QED
    BY <2>1 DEF Click, Step, Look
<1>6. sc[6].op = "until" /\ Len(sc[6].looks) = 1 /\ sc[6].looks[1].k = "shown" /\ sc[6].looks[1].e = <<"page", "grafana">>
  <2>1. sc[6] = Until({"grafana"}, <<Look("shown", <<"page", "grafana">>, FALSE)>>)
    BY DEF GrafanaShape
  <2> QED
    BY <2>1 DEF Until, Step, Look
<1> QED
  BY <1>1, <1>2, <1>3, <1>4, <1>5, <1>6

\* from the link of a board to the board
LEMMA BoardLooks ==
    ASSUME NEW at, NEW submenu, NEW v, NEW n \in Nat, NEW sc, BoardAt(at, submenu, v, n, sc)
    PROVE  /\ \A i \in n + 1 .. n + 11 : Calm(sc[i]) /\ sc[i].op \notin {"if", "start_vm"}
           /\ sc[n + 12].op = "click" /\ sc[n + 12].looks[1].e = <<"link", submenu>>
           /\ sc[n + 13].op = "until" /\ Len(sc[n + 13].looks) = 2
           /\ sc[n + 13].looks[2].k = "found" /\ sc[n + 13].looks[2].e = <<"page", v>>
           /\ Calm(sc[n + 14]) /\ sc[n + 14].op \notin {"if", "start_vm"}
<1>1. \A i \in n + 1 .. n + 11 : Calm(sc[i]) /\ sc[i].op \notin {"if", "start_vm"}
  <2>1. \A i \in n + 1 .. n + 11 : sc[i] \in PlainSteps(at) /\ sc[i].op \in {"until", "click"}
    BY DEF BoardAt
  <2> QED
    BY <2>1, PlainIsCalm
<1>2. sc[n + 12].op = "click" /\ sc[n + 12].looks[1].e = <<"link", submenu>>
  <2>1. sc[n + 12] = Click(at, <<"link", submenu>>)
    BY DEF BoardAt
  <2> QED
    BY <2>1 DEF Click, Step, Look
<1>3. /\ sc[n + 13].op = "until" /\ Len(sc[n + 13].looks) = 2
      /\ sc[n + 13].looks[2].k = "found" /\ sc[n + 13].looks[2].e = <<"page", v>>
  <2>1. sc[n + 13] = Until({v}, <<Look("found", <<"page", v>>, FALSE), Look("found", <<"page", v>>, FALSE)>>)
    BY DEF BoardAt
  <2> QED
    BY <2>1 DEF Until, Step, Look
<1>4. Calm(sc[n + 14]) /\ sc[n + 14].op \notin {"if", "start_vm"}
  <2>1. sc[n + 14] \in PlainSteps({v}) /\ sc[n + 14].op = "read"
    BY DEF BoardAt
  <2> QED
    BY <2>1, PlainIsCalm
<1> QED
  BY <1>1, <1>2, <1>3, <1>4

LEMMA BoardsShown ==
    ASSUME NEW sc, GrafanaShape(sc)
    PROVE  /\ \A i \in (7 .. 17) \cup {20} \cup (21 .. 31) \cup {34} : Calm(sc[i]) /\ sc[i].op \notin {"if", "start_vm"}
           /\ sc[18].op = "click" /\ sc[18].looks[1].e = <<"link", "Data Center">>
           /\ sc[19].op = "until" /\ Len(sc[19].looks) = 2
           /\ sc[19].looks[2].k = "found" /\ sc[19].looks[2].e = <<"page", "grafana_dc">>
           /\ sc[32].op = "click" /\ sc[32].looks[1].e = <<"link", "Hosts">>
           /\ sc[33].op = "until" /\ Len(sc[33].looks) = 2
           /\ sc[33].looks[2].k = "found" /\ sc[33].looks[2].e = <<"page", "grafana_hosts">>
<1>1. BoardAt({"grafana"}, "Data Center", "grafana_dc", 6, sc) /\ BoardAt({"grafana_dc"}, "Hosts", "grafana_hosts", 20, sc)
  BY DEF GrafanaShape
<1> DEFINE n == 6
           m == 20
<1>2. /\ n \in Nat /\ n + 1 = 7 /\ n + 11 = 17 /\ n + 12 = 18 /\ n + 13 = 19 /\ n + 14 = 20
      /\ m \in Nat /\ m + 1 = 21 /\ m + 11 = 31 /\ m + 12 = 32 /\ m + 13 = 33 /\ m + 14 = 34
  OBVIOUS
<1>5. BoardAt({"grafana"}, "Data Center", "grafana_dc", n, sc)
  BY <1>1
<1>6. BoardAt({"grafana_dc"}, "Hosts", "grafana_hosts", m, sc)
  BY <1>1
<1> HIDE DEF n, m
<1>3. /\ \A i \in n + 1 .. n + 11 : Calm(sc[i]) /\ sc[i].op \notin {"if", "start_vm"}
      /\ sc[n + 12].op = "click" /\ sc[n + 12].looks[1].e = <<"link", "Data Center">>
      /\ sc[n + 13].op = "until" /\ Len(sc[n + 13].looks) = 2
      /\ sc[n + 13].looks[2].k = "found" /\ sc[n + 13].looks[2].e = <<"page", "grafana_dc">>
      /\ Calm(sc[n + 14]) /\ sc[n + 14].op \notin {"if", "start_vm"}
  BY <1>2, <1>5, BoardLooks
<1>4. /\ \A i \in m + 1 .. m + 11 : Calm(sc[i]) /\ sc[i].op \notin {"if", "start_vm"}
      /\ sc[m + 12].op = "click" /\ sc[m + 12].looks[1].e = <<"link", "Hosts">>
      /\ sc[m + 13].op = "until" /\ Len(sc[m + 13].looks) = 2
      /\ sc[m + 13].looks[2].k = "found" /\ sc[m + 13].looks[2].e = <<"page", "grafana_hosts">>
      /\ Calm(sc[m + 14]) /\ sc[m + 14].op \notin {"if", "start_vm"}
  BY <1>2, <1>6, BoardLooks
<1> QED
  BY <1>2, <1>3, <1>4

LEMMA GrafanaGoes ==
    ASSUME NEW sc, GrafanaShape(sc), NEW c, NEW d, NEW p \in Pages, NEW q, Walk(c, d, p, q, sc), c.s \in 1 .. 34,
           GrafanaClaim(c, p)
    PROVE  GrafanaClaim(d, q)
<1> DEFINE st == sc[c.s]
<1>0. c.s \in Nat /\ c.s >= 1 /\ c.s <= 34 /\ d.s \in Nat /\ p.main \in Views
  BY DEF Walk
<1>1. Rests(c, d, p, q, st) \/ Looked(c, d, p, q, st) \/ Passes(c, d, p, q, st)
  BY Walking
<1> HIDE DEF st
<1>2. CASE Rests(c, d, p, q, st)
  <2>1. d.s = c.s /\ q = p
    BY <1>2 DEF Rests
  <2> QED
    BY <2>1 DEF GrafanaClaim
<1>3. CASE Looked(c, d, p, q, st)
  <2>1. d.s = c.s /\ q = p
    BY <1>3 DEF Looked
  <2> QED
    BY <2>1 DEF GrafanaClaim
<1>4. CASE Passes(c, d, p, q, st)
  <2>1. CASE c.s = 1
    <3>1. st.op = "get"
      BY <2>1, GrafanaLooks DEF st
    <3>2. d.s = 2 /\ q.goal = "welcome"
      BY <1>4, <2>1, <3>1 DEF Passes
    <3> QED
      BY <3>2 DEF GrafanaClaim
  <2>2. CASE c.s = 2
    <3>1. st.op = "until" /\ Len(st.looks) = 1 /\ st.looks[1].k = "shown" /\ st.looks[1].e = <<"page", "welcome">>
      BY <2>2, GrafanaLooks DEF st
    <3>2. d.s = 3 /\ SamePage(p, q) /\ Saw(st.looks[1], p)
      BY <1>4, <2>2, <3>1, PassedUntil
    <3>3. p.main = "welcome" /\ p.goal = "welcome"
      BY <2>2, <3>1, <3>2, SawPage DEF GrafanaClaim
    <3> QED
      BY <3>2, <3>3 DEF GrafanaClaim, Reached, SamePage
  <2>3. CASE c.s = 3
    <3>1. st.op = "click" /\ st.looks[1].e = <<"link", "grafana">>
      BY <2>3, GrafanaLooks DEF st
    <3>2. d.s = 4 /\ Leads(st.looks[1].e, st.value, p, q)
      BY <1>4, <2>3, <3>1, PassedClick
    <3>3. q.goal = "grafana_login" /\ q.main = "welcome"
      BY <2>3, <3>1, <3>2 DEF Leads, GrafanaClaim, Reached
    <3> QED
      BY <3>2, <3>3 DEF GrafanaClaim, Between
  <2>4. CASE c.s = 4
    <3>1. st.op = "until" /\ Len(st.looks) = 1 /\ st.looks[1].k = "shown" /\ st.looks[1].e = <<"link", "oauth">>
      BY <2>4, GrafanaLooks DEF st
    <3>2. d.s = 5 /\ SamePage(p, q) /\ Saw(st.looks[1], p)
      BY <1>4, <2>4, <3>1, PassedUntil
    <3>3. Shows(p, <<"link", "oauth">>)
      BY <3>1, <3>2 DEF Saw
    <3>4. <<"link", "oauth">> \in Content(p.main)
      BY <3>3, ContentShown
    <3>5. p.main = "grafana_login"
      BY <1>0, <3>4, LinksShown
    <3>6. p.goal = "grafana_login"
      BY <2>4 DEF GrafanaClaim, Between
    <3> QED
      BY <3>2, <3>5, <3>6 DEF GrafanaClaim, Reached, SamePage
  <2>5. CASE c.s = 5
    <3>1. st.op = "click" /\ st.looks[1].e = <<"link", "oauth">>
      BY <2>5, GrafanaLooks DEF st
    <3>2. d.s = 6 /\ Leads(st.looks[1].e, st.value, p, q)
      BY <1>4, <2>5, <3>1, PassedClick
    <3>3. q.goal \in {"login", "grafana"} /\ q.main = "grafana_login"
      BY <2>5, <3>1, <3>2 DEF Leads, GrafanaClaim, Reached
    <3> QED
      BY <3>2, <3>3 DEF GrafanaClaim
  <2>6. CASE c.s = 6
    <3>1. st.op = "until" /\ Len(st.looks) = 1 /\ st.looks[1].k = "shown" /\ st.looks[1].e = <<"page", "grafana">>
      BY <2>6, GrafanaLooks DEF st
    <3>2. d.s = 7 /\ SamePage(p, q) /\ Saw(st.looks[1], p)
      BY <1>4, <2>6, <3>1, PassedUntil
    <3>3. p.main = "grafana"
      BY <3>1, <3>2, SawPage
    <3>4. p.goal = "grafana"
      BY <2>6, <3>3 DEF GrafanaClaim
    <3>5. Reached("grafana", q)
      BY <3>2, <3>3, <3>4 DEF Reached, SamePage
    <3> QED
      BY <3>2, <3>5 DEF GrafanaClaim
  <2>7. CASE c.s \in 7 .. 17
    <3>1. Calm(st) /\ st.op \notin {"if", "start_vm"}
      BY <2>7, BoardsShown DEF st
    <3>2. d.s = c.s + 1 /\ SamePage(p, q)
      BY <1>4, <3>1, PassedCalm
    <3>3. Reached("grafana", p)
      <4>1. c.s \in 7 .. 18
        BY <1>0, <2>7
      <4> QED
        BY <4>1 DEF GrafanaClaim
    <3>4. Reached("grafana", q)
      BY <3>2, <3>3 DEF Reached, SamePage
    <3>5. d.s >= 8 /\ d.s <= 18
      BY <1>0, <2>7, <3>2
    <3> QED
      BY <1>0, <3>4, <3>5 DEF GrafanaClaim
  <2>8. CASE c.s = 18
    <3>1. st.op = "click" /\ st.looks[1].e = <<"link", "Data Center">>
      BY <2>8, BoardsShown DEF st
    <3>a. d.s = c.s + 1 /\ Leads(st.looks[1].e, st.value, p, q)
      BY <1>4, <3>1, PassedClick
    <3>2. d.s = 19 /\ Leads(st.looks[1].e, st.value, p, q)
      BY <2>8, <3>a
    <3>3. Reached("grafana", p)
      BY <2>8 DEF GrafanaClaim
    <3>4. Between("grafana", "grafana_dc", q)
      BY <3>1, <3>2, <3>3 DEF Leads, Reached, Between
    <3> QED
      BY <3>2, <3>4 DEF GrafanaClaim
  <2>9. CASE c.s = 19
    <3>1. st.op = "until" /\ Len(st.looks) = 2 /\ st.looks[2].k = "found" /\ st.looks[2].e = <<"page", "grafana_dc">>
      BY <2>9, BoardsShown DEF st
    <3>2. d.s = 20 /\ SamePage(p, q) /\ Saw(st.looks[2], p)
      BY <1>4, <2>9, <3>1, PassedUntil
    <3>3. p.main = "grafana_dc"
      BY <3>1, <3>2, SawPage
    <3>4. p.goal = "grafana_dc"
      BY <2>9 DEF GrafanaClaim, Between
    <3>5. Reached("grafana_dc", q)
      BY <3>2, <3>3, <3>4 DEF Reached, SamePage
    <3> QED
      BY <3>2, <3>5 DEF GrafanaClaim
  <2>10. CASE c.s \in 20 .. 31
    <3>1. Calm(st) /\ st.op \notin {"if", "start_vm"}
      <4>1. c.s \in {20} \cup (21 .. 31)
        BY <2>10
      <4> QED
        BY <4>1, BoardsShown DEF st
    <3>2. d.s = c.s + 1 /\ SamePage(p, q)
      BY <1>4, <3>1, PassedCalm
    <3>3. Reached("grafana_dc", p)
      <4>1. c.s \in 20 .. 32
        BY <1>0, <2>10
      <4> QED
        BY <4>1 DEF GrafanaClaim
    <3>4. Reached("grafana_dc", q)
      BY <3>2, <3>3 DEF Reached, SamePage
    <3>5. d.s >= 21 /\ d.s <= 32
      BY <1>0, <2>10, <3>2
    <3> QED
      BY <1>0, <3>4, <3>5 DEF GrafanaClaim
  <2>11. CASE c.s = 32
    <3>1. st.op = "click" /\ st.looks[1].e = <<"link", "Hosts">>
      BY <2>11, BoardsShown DEF st
    <3>2. d.s = 33 /\ Leads(st.looks[1].e, st.value, p, q)
      BY <1>4, <2>11, <3>1, PassedClick
    <3>3. Reached("grafana_dc", p)
      BY <2>11 DEF GrafanaClaim
    <3>4. Between("grafana_dc", "grafana_hosts", q)
      BY <3>1, <3>2, <3>3 DEF Leads, Reached, Between
    <3> QED
      BY <3>2, <3>4 DEF GrafanaClaim
  <2>12. CASE c.s = 33
    <3>1. st.op = "until" /\ Len(st.looks) = 2 /\ st.looks[2].k = "found" /\ st.looks[2].e = <<"page", "grafana_hosts">>
      BY <2>12, BoardsShown DEF st
    <3>2. d.s = 34 /\ SamePage(p, q) /\ Saw(st.looks[2], p)
      BY <1>4, <2>12, <3>1, PassedUntil
    <3>3. p.main = "grafana_hosts"
      BY <3>1, <3>2, SawPage
    <3>4. p.goal = "grafana_hosts"
      BY <2>12 DEF GrafanaClaim, Between
    <3>5. Reached("grafana_hosts", q)
      BY <3>2, <3>3, <3>4 DEF Reached, SamePage
    <3> QED
      BY <3>2, <3>5 DEF GrafanaClaim
  <2>13. CASE c.s = 34
    <3>1. Calm(st) /\ st.op \notin {"if", "start_vm"}
      BY <2>13, BoardsShown DEF st
    <3>2. d.s = c.s + 1
      BY <1>4, <3>1, PassedCalm
    <3>3. d.s = 35
      BY <2>13, <3>2
    <3> QED
      BY <3>3 DEF GrafanaClaim
  <2>14. \/ c.s = 1 \/ c.s = 2 \/ c.s = 3 \/ c.s = 4 \/ c.s = 5 \/ c.s = 6 \/ c.s \in 7 .. 17 \/ c.s = 18 \/ c.s = 19
         \/ c.s \in 20 .. 31 \/ c.s = 32 \/ c.s = 33 \/ c.s = 34
    BY <1>0
  <2> QED
    BY <2>1, <2>2, <2>3, <2>4, <2>5, <2>6, <2>7, <2>8, <2>9, <2>10, <2>11, <2>12, <2>13, <2>14
<1> QED
  BY <1>1, <1>2, <1>3, <1>4

-----------------------------------------------------------------------------
(* What the application does.                                               *)

AppMove(p, q) ==
    /\ q.goal = p.goal /\ q.after = p.after /\ q.menu = p.menu /\ q.form = p.form
    /\ q.main \in {p.main, p.goal} /\ q.crumbs \in {p.crumbs, Crumbs(p.goal)}
    /\ q.main # p.main /\ p.main \notin WebAdmin => q.crumbs = Crumbs(p.goal)
    /\ q.main \notin WebAdmin => q.crumbs = q.main
    /\ q.dialog \in {p.dialog, p.dgoal, "none"} /\ q.dgoal \in {p.dgoal, "none"}
    /\ q.disk = p.disk \/ (p.disk = "uploading" /\ q.disk = "listed")
\* an element may go stale
Keeps(c, d) ==
    /\ d \in Clients /\ Same(c, d) /\ d.s = c.s /\ d.look = c.look /\ d.elem = c.elem /\ d.missed = c.missed
    /\ d.outcome = c.outcome /\ d.frame = c.frame /\ (d.ref = c.ref \/ (c.ref = "good" /\ d.ref = "stale"))

LEMMA StaleKeeps == ASSUME cl \in Clients, Stale PROVE Keeps(cl, cl') /\ cl'.ref # "good"
<1> DEFINE r == IF cl.ref = "good" THEN "stale" ELSE cl.ref
<1>1. cl' = [cl EXCEPT !.ref = r] /\ r \in {"none", "good", "stale"} /\ r # "good" /\ (r = cl.ref \/ (cl.ref = "good" /\ r = "stale"))
  BY DEF Stale, Clients
<1> HIDE DEF r
<1>2. cl' \in Clients
  BY <1>1 DEF Clients
<1>3. /\ Same(cl, cl') /\ cl'.s = cl.s /\ cl'.look = cl.look /\ cl'.elem = cl.elem /\ cl'.missed = cl.missed
      /\ cl'.outcome = cl.outcome /\ cl'.frame = cl.frame /\ cl'.ref = r
  BY <1>1 DEF Clients, Same
<1> QED
  BY <1>1, <1>2, <1>3 DEF Keeps

LEMMA CrumbsTyped == ASSUME NEW v \in Views PROVE Crumbs(v) \in Views /\ (v \notin WebAdmin => Crumbs(v) = v)
  BY DEF Crumbs, Views, WebAdmin, VmViews

LEMMA ShowCrumbsKeeps == ASSUME UiType, ShowCrumbs PROVE page' \in Pages /\ AppMove(page, page')
<1> DEFINE v == Crumbs(page.goal)
<1>1. page \in Pages /\ page' = [page EXCEPT !.crumbs = v] /\ v \in Views /\ page.main \in WebAdmin
  BY CrumbsTyped DEF UiType, ShowCrumbs, BothWebAdmin, Pages
<1> HIDE DEF v
<1>2. page' \in Pages
  BY <1>1 DEF Pages
<1>3. /\ page'.goal = page.goal /\ page'.after = page.after /\ page'.menu = page.menu /\ page'.form = page.form
      /\ page'.main = page.main /\ page'.crumbs = v /\ page'.dialog = page.dialog /\ page'.dgoal = page.dgoal /\ page'.disk = page.disk
  BY <1>1 DEF Pages
<1> QED
  BY <1>1, <1>2, <1>3 DEF AppMove, v

LEMMA ShowMainKeeps == ASSUME UiType, ShowMain PROVE page' \in Pages /\ AppMove(page, page')
<1> DEFINE v == page.goal
           s == IF page.goal = "vm" THEN page.sel ELSE "none"
<1>1. page \in Pages /\ page' = [page EXCEPT !.main = v, !.sel = s] /\ v \in Views /\ {page.main, v} \subseteq WebAdmin
  BY DEF UiType, ShowMain, BothWebAdmin, Pages
<1>2. s \in {"none"} \cup Picks
  BY <1>1 DEF Pages
<1> HIDE DEF v, s
<1>3. page' \in Pages
  BY <1>1, <1>2 DEF Pages
<1>4. /\ page'.goal = page.goal /\ page'.after = page.after /\ page'.menu = page.menu /\ page'.form = page.form
      /\ page'.main = v /\ page'.crumbs = page.crumbs /\ page'.dialog = page.dialog /\ page'.dgoal = page.dgoal /\ page'.disk = page.disk
  BY <1>1 DEF Pages
<1> QED
  BY <1>1, <1>3, <1>4 DEF AppMove, v

LEMMA LoadPageKeeps == ASSUME UiType, LoadPage PROVE page' \in Pages /\ AppMove(page, page')
<1> DEFINE v == page.goal
           w == Crumbs(page.goal)
           n == "none"
           f == FALSE
<1>1. /\ page \in Pages /\ v \in Views /\ w \in Views /\ (v \notin WebAdmin => w = v)
      /\ page' = [page EXCEPT !.main = v, !.crumbs = w, !.sel = n, !.dialog = n, !.dgoal = n, !.notif = f]
  BY CrumbsTyped DEF UiType, LoadPage, Pages
<1>2. n \in Dialogs /\ n \in {"none"} \cup Picks /\ f \in BOOLEAN
  BY DEF Dialogs
<1>0. n = "none" /\ v = page.goal /\ w = Crumbs(page.goal)
  OBVIOUS
<1> HIDE DEF v, w, n, f
<1>3. page' \in Pages
  BY <1>1, <1>2 DEF Pages
<1>4. /\ page'.goal = page.goal /\ page'.after = page.after /\ page'.menu = page.menu /\ page'.form = page.form
      /\ page'.main = v /\ page'.crumbs = w /\ page'.dialog = n /\ page'.dgoal = n /\ page'.disk = page.disk
  BY <1>1 DEF Pages
<1> QED
  BY <1>0, <1>1, <1>3, <1>4 DEF AppMove

LEMMA ShowDialogKeeps == ASSUME UiType, ShowDialog PROVE page' \in Pages /\ AppMove(page, page')
<1> DEFINE v == page.dgoal
<1>1. page \in Pages /\ page' = [page EXCEPT !.dialog = v] /\ v \in Dialogs /\ (page.main \notin WebAdmin => page.crumbs = page.main)
  BY DEF UiType, ShowDialog, Pages
<1> HIDE DEF v
<1>2. page' \in Pages
  BY <1>1 DEF Pages
<1>3. /\ page'.goal = page.goal /\ page'.after = page.after /\ page'.menu = page.menu /\ page'.form = page.form
      /\ page'.main = page.main /\ page'.crumbs = page.crumbs /\ page'.dialog = v /\ page'.dgoal = page.dgoal /\ page'.disk = page.disk
  BY <1>1 DEF Pages
<1> QED
  BY <1>1, <1>2, <1>3 DEF AppMove, v

LEMMA ListDiskKeeps == ASSUME UiType, ListDisk PROVE page' \in Pages /\ AppMove(page, page')
<1> DEFINE v == "listed"
<1>1. page \in Pages /\ page' = [page EXCEPT !.disk = v] /\ v \in Disks /\ (page.main \notin WebAdmin => page.crumbs = page.main) /\ page.disk = "uploading"
  BY DEF UiType, ListDisk, Disks
<1> HIDE DEF v
<1>2. page' \in Pages
  BY <1>1 DEF Pages
<1>3. /\ page'.goal = page.goal /\ page'.after = page.after /\ page'.menu = page.menu /\ page'.form = page.form
      /\ page'.main = page.main /\ page'.crumbs = page.crumbs /\ page'.dialog = page.dialog /\ page'.dgoal = page.dgoal /\ page'.disk = v
  BY <1>1 DEF Pages
<1> QED
  BY <1>1, <1>2, <1>3 DEF AppMove, v

LEMMA NotifyKeeps == ASSUME UiType, Notify PROVE page' \in Pages /\ AppMove(page, page')
<1> DEFINE v == ~page.notif
<1>1. page \in Pages /\ page' = [page EXCEPT !.notif = v] /\ v \in BOOLEAN /\ (page.main \notin WebAdmin => page.crumbs = page.main)
  BY DEF UiType, Notify, Pages
<1> HIDE DEF v
<1>2. page' \in Pages
  BY <1>1 DEF Pages
<1>3. /\ page'.goal = page.goal /\ page'.after = page.after /\ page'.menu = page.menu /\ page'.form = page.form
      /\ page'.main = page.main /\ page'.crumbs = page.crumbs /\ page'.dialog = page.dialog /\ page'.dgoal = page.dgoal /\ page'.disk = page.disk
  BY <1>1 DEF Pages
<1> QED
  BY <1>1, <1>2, <1>3 DEF AppMove

LEMMA SamePageKeeps == ASSUME UiType, UNCHANGED page PROVE page' \in Pages /\ AppMove(page, page')
<1>1. page \in Pages /\ page' = page /\ (page.main \notin WebAdmin => page.crumbs = page.main)
  BY DEF UiType
<1> HIDE DEF Pages
<1> QED
  BY <1>1 DEF AppMove

\* an element that is held is still there
SameLook(p, q) == q.main = p.main /\ q.dialog = p.dialog /\ q.menu = p.menu
AppKeeps ==
    /\ page' \in Pages /\ AppMove(page, page') /\ Keeps(cl, cl') /\ vm' \in VmStates
    /\ cl'.ref = "good" => SameLook(page, page') /\ (page'.notif = page.notif \/ Lk.e[1] # "notification")

LEMMA ApplicationKeeps == ASSUME UiType, Application PROVE AppKeeps
<1>0. page \in Pages /\ cl \in Clients /\ vm \in VmStates
  BY DEF UiType
<1>1. CASE ShowCrumbs \/ ShowMain \/ LoadPage \/ ShowDialog
  <2>1. Stale /\ vm' = vm
    BY <1>1 DEF ShowCrumbs, ShowMain, LoadPage, ShowDialog
  <2>2. page' \in Pages /\ AppMove(page, page')
    BY <1>1, ShowCrumbsKeeps, ShowMainKeeps, LoadPageKeeps, ShowDialogKeeps
  <2>3. Keeps(cl, cl') /\ cl'.ref # "good"
    BY <1>0, <2>1, StaleKeeps
  <2> QED
    BY <1>0, <2>1, <2>2, <2>3 DEF AppKeeps
<1>2. CASE ListDisk
  <2>1. page' \in Pages /\ AppMove(page, page')
    BY <1>2, ListDiskKeeps
  <2>2. page' = [page EXCEPT !.disk = "listed"] /\ cl' = cl /\ vm' = vm
    BY <1>2 DEF ListDisk
  <2>3. SameLook(page, page') /\ page'.notif = page.notif
    BY <1>0, <2>2 DEF Pages, SameLook
  <2>4. Keeps(cl, cl')
    BY <1>0, <2>2 DEF Keeps, Same
  <2> QED
    BY <1>0, <2>1, <2>2, <2>3, <2>4 DEF AppKeeps
<1>3. CASE ChangeVm
  <2>1. cl' = cl /\ page' = page
    BY <1>3 DEF ChangeVm
  <2>2. vm' \in VmStates
    BY <1>0, <1>3 DEF ChangeVm, VmStates
  <2>3. page' \in Pages /\ AppMove(page, page')
    BY <2>1, SamePageKeeps
  <2>4. Keeps(cl, cl') /\ SameLook(page, page')
    BY <1>0, <2>1 DEF Keeps, Same, SameLook
  <2> QED
    BY <2>1, <2>2, <2>3, <2>4 DEF AppKeeps
<1>4. CASE Notify
  <2>1. page' \in Pages /\ AppMove(page, page')
    BY <1>4, NotifyKeeps
  <2>2. page' = [page EXCEPT !.notif = ~@] /\ vm' = vm
    BY <1>4 DEF Notify
  <2>3. SameLook(page, page')
    BY <1>0, <2>2 DEF Pages, SameLook
  <2>4. CASE cl.ref = "good" /\ Lk.e[1] = "notification"
    <3>1. Stale
      BY <1>4, <2>4 DEF Notify
    <3>2. Keeps(cl, cl') /\ cl'.ref # "good"
      BY <1>0, <3>1, StaleKeeps
    <3> QED
      BY <1>0, <2>1, <2>2, <3>2 DEF AppKeeps
  <2>5. CASE ~(cl.ref = "good" /\ Lk.e[1] = "notification")
    <3>1. cl' = cl
      BY <1>4, <2>5 DEF Notify
    <3>2. Keeps(cl, cl')
      BY <1>0, <3>1 DEF Keeps, Same
    <3> QED
      BY <1>0, <2>1, <2>2, <2>3, <2>5, <3>1, <3>2 DEF AppKeeps
  <2> QED
    BY <2>4, <2>5
<1>5. CASE Refresh
  <2>1. Stale /\ page' = page /\ vm' = vm
    BY <1>5 DEF Refresh
  <2>2. Keeps(cl, cl') /\ cl'.ref # "good"
    BY <1>0, <2>1, StaleKeeps
  <2>3. page' \in Pages /\ AppMove(page, page')
    BY <2>1, SamePageKeeps
  <2> QED
    BY <1>0, <2>1, <2>2, <2>3 DEF AppKeeps
<1> QED
  BY <1>1, <1>2, <1>3, <1>4, <1>5 DEF Application


-----------------------------------------------------------------------------
(* The type invariant.                                                      *)

LEMMA TestGoesOn ==
    ASSUME UiType, Opened, UNCHANGED <<gpc, plan, browser>>, ClientOk(cl', TestScript), Same(cl, cl'),
           page' \in Pages, vm' \in VmStates, page'.main \notin WebAdmin => page'.crumbs = page'.main
    PROVE  UiType' /\ TestScript' = TestScript
<1>1. TestScript' = TestScript
  BY DEF TestScript, Same
<1>2. /\ plan' \in Plans /\ browser' \in {"none", "open", "error"} /\ browser' = "open" /\ gpc' = "up" /\ cl' \in Clients
      /\ cl'.b \in 1 .. Len(Browsers) + 1 /\ cl'.t \in 1 .. Len(plan') /\ cl'.s \in 1 .. Len(TestScript')
      /\ cl'.b <= Len(Browsers)
  BY <1>1 DEF UiType, ClientOk, Same, Opened
<1>3. St' = TestScript[cl'.s]
  BY <1>1 DEF St
<1>4. St'.looks # << >> => cl'.look \in 1 .. Len(St'.looks)
  BY <1>3 DEF ClientOk
<1>5. cl'.frame # "out" => Running' /\ InFrame(St'.op)
  BY <1>2, <1>3 DEF ClientOk, Running
<1>6. cl'.ref # "none" => Running' /\ St'.looks # << >> /\ (InFrame(St'.op) => cl'.frame = "in")
  BY <1>2, <1>3 DEF ClientOk, Running
<1> QED
  BY <1>1, <1>2, <1>4, <1>5, <1>6 DEF UiType

LEMMA DriverKeepsType == ASSUME UiType, RefInv, Driver PROVE UiType' /\ RefInv' /\ Moved /\ TestScript' = TestScript
<1>1. /\ Moved /\ page' \in Pages /\ vm' \in VmStates /\ page'.main = page.main /\ page'.crumbs = page.crumbs
      /\ Running /\ UNCHANGED <<gridVars, plan, browser>>
  BY DriverMoves
<1>2. Opened /\ UNCHANGED <<gpc, plan, browser>>
  BY <1>1 DEF Opened, Running, gridVars
<1>3. page'.main \notin WebAdmin => page'.crumbs = page'.main
  BY <1>1 DEF UiType
<1>4. UiType' /\ TestScript' = TestScript
  BY <1>1, <1>2, <1>3, TestGoesOn DEF Moved
<1>5. RefInv'
  <2> SUFFICES ASSUME cl'.ref = "good", Lk'.k \notin FindAll PROVE Has(Lk.e)'
    BY DEF RefInv
  <2>1. page' = page /\ cl'.frame = cl.frame /\ cl'.look = cl.look /\ cl'.s = cl.s /\ (Lk.k \notin FindAll => Has(Lk.e))
    BY <1>1 DEF Moved
  <2>2. Lk' = Lk
    BY <1>4, <2>1 DEF Lk, St
  <2>3. Has(Lk.e)
    BY <2>1, <2>2
  <2> QED
    BY <2>1, <2>2, <2>3 DEF Has
<1> QED
  BY <1>1, <1>4, <1>5

LEMMA ApplicationKeepsType ==
    ASSUME UiType, RefInv, Application
    PROVE  UiType' /\ RefInv' /\ AppKeeps /\ TestScript' = TestScript /\ Running /\ UNCHANGED <<gpc, plan, browser>>
<1>1. AppKeeps /\ Running /\ UNCHANGED <<gpc, plan, browser>>
  BY ApplicationKeeps DEF Application, control
<1>2. Opened
  BY <1>1 DEF Opened, Running
<1>3. ClientOk(cl, TestScript)
  BY <1>1, RunningFacts
<1>4. ClientOk(cl', TestScript) /\ Same(cl, cl')
  BY <1>1, <1>3 DEF AppKeeps, Keeps, ClientOk
<1>5. page' \in Pages /\ vm' \in VmStates /\ (page'.main \notin WebAdmin => page'.crumbs = page'.main)
  BY <1>1 DEF AppKeeps, AppMove
<1>6. UiType' /\ TestScript' = TestScript
  BY <1>1, <1>2, <1>4, <1>5, TestGoesOn
<1>7. RefInv'
  <2> SUFFICES ASSUME cl'.ref = "good", Lk'.k \notin FindAll PROVE Has(Lk.e)'
    BY DEF RefInv
  <2>1. /\ cl'.frame = cl.frame /\ cl'.look = cl.look /\ cl'.s = cl.s /\ cl.ref = "good"
        /\ SameLook(page, page') /\ (page'.notif = page.notif \/ Lk.e[1] # "notification")
    BY <1>1 DEF AppKeeps, Keeps
  <2>2. Lk' = Lk
    BY <1>6, <2>1 DEF Lk, St
  <2>3. Has(Lk.e)
    BY <2>1, <2>2 DEF RefInv
  <2> DEFINE e == Lk.e
  <2>4. e[1] # "notification" => e # <<"notification", "x">>
    OBVIOUS
  <2>5. Has(Lk.e)' <=> IF cl'.frame = "in" THEN e = <<"page", page'.main>> /\ page'.main = "dashboard"
                       ELSE \/ /\ e \in Content(page'.main) \cup DialogContent(page'.dialog)
                               /\ e = <<"link", "Start">> => page'.menu = "Upload"
                            \/ page'.notif /\ e = <<"notification", "x">>
    BY <2>2 DEF Has
  <2>6. IF cl.frame = "in" THEN e = <<"page", page.main>> /\ page.main = "dashboard"
        ELSE \/ /\ e \in Content(page.main) \cup DialogContent(page.dialog)
                /\ e = <<"link", "Start">> => page.menu = "Upload"
             \/ page.notif /\ e = <<"notification", "x">>
    BY <2>3 DEF Has
  <2> HIDE DEF e
  <2> QED
    BY <2>1, <2>4, <2>5, <2>6 DEF SameLook, e
<1> QED
  BY <1>1, <1>6, <1>7

LEMMA FirstLook ==
    ASSUME NEW p \in Plans, NEW t \in 1 .. Len(p)
    PROVE  /\ 1 \in 1 .. Len(Script[p[t]])
           /\ Script[p[t]][1].looks # << >> => 1 \in 1 .. Len(Script[p[t]][1].looks)
<1>1. p[t] \in DOMAIN Script
  BY PlanFacts
<1>2. Len(Script[p[t]]) \in Nat \ {0} /\ \A i \in 1 .. Len(Script[p[t]]) : Script[p[t]][i] \in Steps
  BY <1>1, ScriptFacts
<1>3. 1 \in 1 .. Len(Script[p[t]])
  BY <1>2
<1>4. Script[p[t]][1] \in Steps
  BY <1>2, <1>3
<1>5. Script[p[t]][1].looks \in Seq(Looks)
  BY <1>4 DEF Steps
<1> QED
  BY <1>3, <1>5

LEMMA ClientAtIs ==
    ASSUME NEW b \in Nat, NEW t \in Nat
    PROVE  /\ ClientAt(b, t) \in Clients /\ ClientAt(b, t).b = b /\ ClientAt(b, t).t = t /\ ClientAt(b, t).s = 1
           /\ ClientAt(b, t).look = 1 /\ ClientAt(b, t).ref = "none" /\ ClientAt(b, t).frame = "out"
           /\ ClientAt(b, t).outcome = "running" /\ ~ClientAt(b, t).missed /\ ~ClientAt(b, t).elem
<1> DEFINE o == 1
           n == "none"
           z == 0
           f == FALSE
           r == "running"
           u == "out"
<1>1. /\ o \in Nat /\ n \in Refs /\ z \in Tries /\ z \in Waits /\ f \in BOOLEAN /\ r \in Outcomes /\ u \in {"out", "in", "yes", "no"}
      /\ ClientAt(b, t) = [b |-> b, t |-> t, s |-> o, look |-> o, ref |-> n, tries |-> z, waits |-> z,
                           elem |-> f, missed |-> f, outcome |-> r, frame |-> u]
  BY Small DEF ClientAt, Refs, Outcomes
<1> HIDE DEF o, n, z, f, r, u
<1>2. ClientAt(b, t) \in Clients
  BY <1>1 DEF Clients, Refs, Tries, Waits, Outcomes
<1>3. /\ ClientAt(b, t).b = b /\ ClientAt(b, t).t = t /\ ClientAt(b, t).s = o
      /\ ClientAt(b, t).look = o /\ ClientAt(b, t).ref = n /\ ClientAt(b, t).frame = u
      /\ ClientAt(b, t).outcome = r /\ ClientAt(b, t).missed = f /\ ClientAt(b, t).elem = f
  BY <1>1
<1> QED
  BY <1>2, <1>3 DEF o, n, f, r, u

LEMMA NewPageIs ==
    /\ NewPage \in Pages /\ NewPage.main = "blank" /\ NewPage.crumbs = "blank" /\ Untouched(NewPage) /\ NewPage.menu # "Upload"
<1>1. NewPage \in Pages
  <2> DEFINE k == "blank"
             n == "none"
             w == "welcome"
             a == "dashboard"
             f == FALSE
             e == {}
  <2>1. /\ k \in Views /\ w \in Views /\ a \in Views /\ f \in BOOLEAN /\ e \in SUBSET Fields
        /\ n \in Dialogs /\ n \in {"none", "compute", "storage"} \cup DOMAIN Entries /\ n \in {"none"} \cup Picks /\ n \in Disks
    BY DEF Views, WebAdmin, Dialogs, Disks
  <2>2. NewPage = [main |-> k, crumbs |-> k, dialog |-> n, goal |-> w, dgoal |-> n, after |-> a, menu |-> n, sso |-> f,
                   sel |-> n, form |-> e, disk |-> n, notif |-> f]
    BY DEF NewPage
  <2> HIDE DEF k, n, w, a, f, e
  <2> QED
    BY <2>1, <2>2 DEF Pages
<1>2. NewPage.main = "blank" /\ NewPage.crumbs = "blank" /\ Untouched(NewPage) /\ NewPage.menu # "Upload"
  BY DEF NewPage, Untouched
<1> QED
  BY <1>1, <1>2

\* between two tests, and before the first
LEMMA TestBegins ==
    ASSUME NEW b \in 1 .. Len(Browsers) + 1, NEW t \in 1 .. Len(plan), plan \in Plans, plan' = plan, cl' = ClientAt(b, t), page' \in Pages, vm' \in VmStates,
           page'.main \notin WebAdmin => page'.crumbs = page'.main,
           IF browser' = "none" THEN t = 1 ELSE b <= Len(Browsers) /\ gpc' = "up", browser' \in {"none", "open", "error"}
    PROVE  UiType' /\ RefInv'
<1>1. Len(Browsers) \in Nat /\ Len(plan) \in Nat
  BY Bounds, PlanFacts
<1>2. b \in Nat /\ t \in Nat
  BY <1>1
<1>3. /\ cl' \in Clients /\ cl'.b = b /\ cl'.t = t /\ cl'.s = 1 /\ cl'.look = 1 /\ cl'.ref = "none" /\ cl'.frame = "out"
  BY <1>2, ClientAtIs
<1>4. TestScript' = Script[plan[t]] /\ St' = Script[plan[t]][1]
  BY <1>3 DEF TestScript, St
<1>5. cl'.s \in 1 .. Len(TestScript') /\ (St'.looks # << >> => cl'.look \in 1 .. Len(St'.looks))
  BY <1>3, <1>4, FirstLook
<1>6. cl'.b \in 1 .. Len(Browsers) + 1 /\ cl'.t \in 1 .. Len(plan')
  BY <1>3
<1>7. IF browser' = "none" THEN cl' = ClientAt(cl'.b, 1) ELSE cl'.b <= Len(Browsers) /\ gpc' = "up"
  BY <1>3
<1> QED
  BY <1>3, <1>5, <1>6, <1>7 DEF UiType, RefInv


LEMMA GridEndsAtServing == ASSUME Grid PROVE gpc # "up"
  BY DEF Grid, FindPort, ProxyOff, StartContainer, Kinds, Nodes, PollReady, PollCount, LogIssues, ServeGrid, CollectGrid,
         RemoveContainer, Removals, ProxyOn, CaughtGrid

LEMMA SessionUnchanged ==
    ASSUME UiType, RefInv, UNCHANGED ui, browser # "none" => gpc' = gpc
    PROVE  UiType' /\ RefInv'
<1>1. plan' = plan /\ browser' = browser /\ cl' = cl /\ page' = page /\ vm' = vm
  BY DEF ui
<1>2. TestScript' = TestScript /\ St' = St /\ Lk' = Lk
  BY <1>1 DEF TestScript, St, Lk
<1>3. Running => Running'
  BY <1>1 DEF Running
<1>4. Has(Lk.e)' <=> Has(Lk.e)
  BY <1>1, <1>2 DEF Has
<1>5. RefInv'
  BY <1>1, <1>2, <1>4 DEF RefInv
<1>6. UiType'
  BY <1>1, <1>2, <1>3 DEF UiType
<1> QED
  BY <1>5, <1>6

LEMMA OpenBrowserKeepsType == ASSUME UiType, OpenBrowser PROVE UiType' /\ RefInv'
<1>1. /\ cl' = ClientAt(cl.b, 1) /\ plan' = plan /\ plan \in Plans /\ vm' \in VmStates /\ page' = NewPage
      /\ cl.b \in 1 .. Len(Browsers) + 1 /\ cl.b <= Len(Browsers) /\ gpc' = "up" /\ browser' \in {"open", "error"}
  BY DEF OpenBrowser, UiType, control
<1>2. page' \in Pages /\ page'.main = page'.crumbs
  BY <1>1, NewPageIs
<1>3. 1 \in 1 .. Len(plan)
  BY <1>1, PlanFacts
<1> QED
  BY <1>1, <1>2, <1>3, TestBegins

LEMMA NextTestKeepsType == ASSUME UiType, NextTest PROVE UiType' /\ RefInv'
<1>1. /\ plan' = plan /\ plan \in Plans /\ vm' \in VmStates /\ page' = page /\ page \in Pages
      /\ (page.main \notin WebAdmin => page.crumbs = page.main)
      /\ cl.b \in 1 .. Len(Browsers) + 1 /\ cl.t \in 1 .. Len(plan) /\ browser \in {"open", "error"} /\ gpc = "up" /\ gpc' = gpc
      /\ cl.b <= Len(Browsers)
  BY DEF NextTest, UiType, gridVars
<1>2. Len(Browsers) \in Nat /\ Len(plan) \in Nat \ {0}
  BY <1>1, Bounds, PlanFacts
<1>3. CASE cl.t < Len(plan)
  <2> DEFINE t == cl.t + 1
  <2>1. cl' = ClientAt(cl.b, t) /\ browser' = browser
    BY <1>3 DEF NextTest
  <2>2. t \in 1 .. Len(plan)
    BY <1>1, <1>2, <1>3
  <2> HIDE DEF t
  <2> QED
    BY <1>1, <2>1, <2>2, TestBegins
<1>4. CASE ~(cl.t < Len(plan))
  <2> DEFINE b == cl.b + 1
             t == 1
  <2>1. cl' = ClientAt(b, t) /\ browser' = "none" /\ t = 1
    BY <1>4 DEF NextTest
  <2>2. b \in 1 .. Len(Browsers) + 1 /\ t \in 1 .. Len(plan)
    BY <1>1, <1>2
  <2> HIDE DEF b, t
  <2> QED
    BY <1>1, <2>1, <2>2, TestBegins
<1> QED
  BY <1>3, <1>4

LEMMA TypeInitially == ASSUME Init PROVE UiType /\ RefInv
<1>1. /\ plan \in Plans /\ browser = "none" /\ cl = ClientAt(1, 1) /\ page = NewPage /\ vm \in VmStates
  BY DEF Init, VmStates
<1>2. Len(Browsers) \in Nat /\ 1 \in 1 .. Len(plan)
  BY <1>1, Bounds, PlanFacts
<1>3. /\ cl \in Clients /\ cl.b = 1 /\ cl.t = 1 /\ cl.s = 1 /\ cl.look = 1 /\ cl.ref = "none" /\ cl.frame = "out"
  BY <1>1, ClientAtIs
<1>4. TestScript = Script[plan[1]] /\ St = Script[plan[1]][1]
  BY <1>3 DEF TestScript, St
<1>5. cl.s \in 1 .. Len(TestScript) /\ (St.looks # << >> => cl.look \in 1 .. Len(St.looks))
  BY <1>1, <1>2, <1>3, <1>4, FirstLook
<1>6. cl.b \in 1 .. Len(Browsers) + 1 /\ cl.t \in 1 .. Len(plan)
  BY <1>2, <1>3
<1>7. page \in Pages /\ page.main = page.crumbs
  BY <1>1, NewPageIs
<1> QED
  BY <1>1, <1>3, <1>5, <1>6, <1>7 DEF UiType, RefInv

LEMMA StepKeepsType == ASSUME UiType, RefInv, [Next]_vars PROVE UiType' /\ RefInv'
<1>1. CASE UNCHANGED vars
  BY <1>1, SessionUnchanged DEF vars, gridVars
<1>2. CASE Grid /\ UNCHANGED ui
  <2>1. browser = "none"
    BY <1>2, GridEndsAtServing DEF UiType
  <2> QED
    BY <1>2, <2>1, SessionUnchanged
<1>3. CASE Containers /\ UNCHANGED ui
  BY <1>3, SessionUnchanged DEF Containers, control
<1>4. CASE TearDownGrid
  <2>1. browser = "none"
    <3>1. cl.b \in 1 .. Len(Browsers) + 1 /\ Len(Browsers) \in Nat /\ cl.b > Len(Browsers)
      BY <1>4, Bounds DEF TearDownGrid, UiType
    <3>2. ~(cl.b <= Len(Browsers))
      BY <3>1
    <3> QED
      BY <3>2 DEF UiType
  <2> QED
    BY <1>4, <2>1, SessionUnchanged DEF TearDownGrid
<1>5. CASE OpenBrowser
  BY <1>5, OpenBrowserKeepsType
<1>6. CASE Driver
  BY <1>6, DriverKeepsType
<1>7. CASE NextTest
  BY <1>7, NextTestKeepsType
<1>8. CASE Application
  BY <1>8, ApplicationKeepsType
<1> QED
  BY <1>1, <1>2, <1>3, <1>4, <1>5, <1>6, <1>7, <1>8 DEF Next, Client, Terminated

LEMMA TypesAreOk == ASSUME GridInv, UiType PROVE TypeOK
<1>1. /\ backend \in {"podman", "docker"} /\ browser \in {"none", "open", "error"}
      /\ attempt \in 0..(GridRetries - 1) /\ polls \in 0..GridPolls /\ faults \in 0..MaxFaults
      /\ up \subseteq live /\ dead \subseteq live /\ up \cap dead = {}
  BY DEF GridInv, GridType, UiType
<1>2. live \subseteq (Kinds \X (0..GridRetries))
  <2>1. live \subseteq Kinds \X (0 .. attempt) /\ attempt \in 0 .. (GridRetries - 1) /\ GridRetries \in Nat
    BY GridAssumption DEF GridInv, GridType
  <2>2. 0 .. attempt \subseteq 0 .. GridRetries
    BY <2>1
  <2> QED
    BY <2>1, <2>2
<1>3. page.main \in Views /\ page.goal \in Views /\ page.dialog \in Dialogs
  BY DEF UiType, Pages
<1>4. cl.tries \in 0..MaxTries /\ cl.waits \in 0..(MaxPolls + MaxTries)
  BY DEF UiType, Clients
<1>5. /\ cl.frame # "out" => Running /\ InFrame(St.op)
      /\ cl.ref # "none" => Running /\ St.looks # << >>
  BY DEF UiType
<1> QED
  BY <1>1, <1>2, <1>3, <1>4, <1>5 DEF TypeOK

-----------------------------------------------------------------------------
(* What a test knows of the page, it knows after every step.                *)

LEMMA OpeningLooks ==
    ASSUME NEW v, NEW n \in Nat, NEW sc, OpenedAt(v, n, sc), NEW c, ClientOk(c, sc), c.s = n + 5
    PROVE  c.look \in 1 .. 2
<1>1. sc[c.s] = Until({v}, ListDisplayed(v))
  BY DEF OpenedAt
<1>2. sc[c.s].looks # << >> /\ Len(sc[c.s].looks) = 2
  BY <1>1 DEF Until, Step, ListDisplayed, Look
<1> QED
  BY <1>2 DEF ClientOk

LEMMA DiskSteps ==
    ASSUME NEW sc, sc = Script["disks"], NEW i \in 6 .. Len(sc)
    PROVE  Calm(sc[i])
<1>1. /\ Len(sc) = 16
      /\ \A j \in 6 .. 10 : sc[j] \in PlainSteps({"disks"})
      /\ sc[11] = Persistent("id_click", {"disks"}, <<"button", "Upload">>)
      /\ sc[12] = Persistent("action", {"disks"}, <<"link", "Start">>)
      /\ sc[13] = Persistent("action", {"disks"}, <<"field", "file">>)
      /\ sc[14] = Persistent("action", {"disks"}, <<"field", "alias">>)
      /\ sc[15] = Persistent("wait_for_id", {"disks"}, <<"ok", "upload">>)
      /\ sc[16] = Until({"disks"}, <<Look("named", <<"row", "disks">>, TRUE)>>)
  BY DisksScript
<1>2. CASE i \in 6 .. 10
  <2>1. sc[i] \in PlainSteps({"disks"})
    BY <1>1, <1>2
  <2> QED
    BY <2>1, PlainIsCalm
<1>3. Calm(sc[11])
  <2>1. sc[11].op = "id_click" /\ sc[11].looks[1].e = <<"button", "Upload">>
    BY <1>1 DEF Persistent, Step, Look
  <2>2. <<"button", "Upload">> \in PlainTargets
    BY AnyTarget DEF PlainTargets
  <2> QED
    BY <2>1, <2>2 DEF Calm, Quiet, LookOps, ClickOps
<1>4. Calm(sc[12])
  <2>1. sc[12].op = "action" /\ sc[12].looks[1].e = <<"link", "Start">>
    BY <1>1 DEF Persistent, Step, Look
  <2> QED
    BY <2>1 DEF Calm, Quiet, LookOps, ClickOps
<1>5. Calm(sc[13]) /\ Calm(sc[14])
  <2>1. /\ sc[13].op = "action" /\ sc[13].looks[1].e = <<"field", "file">>
        /\ sc[14].op = "action" /\ sc[14].looks[1].e = <<"field", "alias">>
    BY <1>1 DEF Persistent, Step, Look
  <2> QED
    BY <2>1 DEF Calm, Quiet, LookOps, ClickOps
<1>6. Calm(sc[15])
  <2>1. sc[15].op = "wait_for_id" /\ sc[15].looks[1].e = <<"ok", "upload">>
    BY <1>1 DEF Persistent, Step, Look
  <2> QED
    BY <2>1 DEF Calm, Quiet, LookOps, ClickOps
<1>7. Calm(sc[16])
  <2>1. sc[16].op = "until"
    BY <1>1 DEF Until, Step
  <2> QED
    BY <2>1 DEF Calm, LookOps, ClickOps
<1>8. i \in 6 .. 10 \/ i = 11 \/ i = 12 \/ i = 13 \/ i = 14 \/ i = 15 \/ i = 16
  BY <1>1
<1> QED
  BY <1>2, <1>3, <1>4, <1>5, <1>6, <1>7, <1>8

LEMMA PageGoesOn ==
    ASSUME NEW t \in DOMAIN Script, NEW c, NEW d, NEW p \in Pages, NEW q, ClientOk(c, Script[t]),
           Walk(c, d, p, q, Script[t]), PageClaim(t, c, p), t = "virtual_machines" /\ c.missed => c.s = 28
    PROVE  PageClaim(t, d, q)
<1> DEFINE sc == Script[t]
<1>1. Len(sc) \in Nat \ {0} /\ ClientOk(c, sc) /\ Walk(c, d, p, q, sc) /\ c.s \in 1 .. Len(sc)
  BY ScriptFacts DEF ClientOk
<1>2. ASSUME t \in ListTests PROVE ListClaim(t, 0, d, q)
  <2>1. OpenedAt(t, 0, sc) /\ \A i \in 6 .. Len(sc) : Calm(sc[i])
    <3>1. CASE t = "disks"
      BY <3>1, DisksScript, DiskSteps
    <3>2. CASE t # "disks"
      <4>1. ListShape(t, sc)
        BY <1>2, <3>2, ListScripts
      <4>2. \A i \in 6 .. Len(sc) : sc[i] \in PlainSteps({t})
        BY <4>1 DEF ListShape
      <4> QED
        BY <4>1, <4>2, PlainIsCalm DEF ListShape
    <3> QED
      BY <3>1, <3>2
  <2>2. c.s = 5 => c.look \in 1 .. 2
    <3> DEFINE n == 0
    <3>1. n \in Nat /\ n + 5 = 5 /\ OpenedAt(t, n, sc)
      BY <2>1
    <3> HIDE DEF n
    <3> QED
      BY <1>1, <3>1, OpeningLooks
  <2>3. ListClaim(t, 0, c, p)
    BY <1>2 DEF PageClaim
  <2> HIDE DEF sc
  <2> QED
    BY <1>1, <2>1, <2>2, <2>3, ListGoes
<1>3. ASSUME t = "virtual_machines" PROVE VmClaim(d, q)
  <2>1. VmShape(sc)
    BY <1>3, VmScript
  <2>2. c.s \in 1 .. 47
    BY <1>1, <2>1 DEF VmShape
  <2>3. c.s = 7 => c.look \in 1 .. 2
    <3>0. OpenedAt("vms", 2, sc)
      BY <2>1 DEF VmShape
    <3> DEFINE n == 2
    <3>1. n \in Nat /\ n + 5 = 7 /\ OpenedAt("vms", n, sc)
      BY <3>0
    <3> HIDE DEF n
    <3> QED
      BY <1>1, <3>1, OpeningLooks
  <2>4. VmClaim(c, p)
    BY <1>3 DEF PageClaim
  <2> HIDE DEF sc
  <2> QED
    BY <1>1, <1>3, <2>1, <2>2, <2>3, <2>4, VmGoes
<1>4. ASSUME t = "login" PROVE EntryClaim("dashboard", d, q)
  <2>1. EntryShape("webadmin", WebAdmin, <<"menu", "left">>, 9, sc)
    BY <1>4, LoginScript
  <2>2. \A r : Shows(r, <<"menu", "left">>) /\ r.main \in {"login", "dashboard"} => r.main = "dashboard"
    <3>1. \A r : Shows(r, <<"menu", "left">>) => <<"menu", "left">> \in Content(r.main)
      BY ContentShown
    <3>2. \A r : Shows(r, <<"menu", "left">>) => r.main \in WebAdmin
      BY <3>1, PagesShown
    <3>3. "login" \notin WebAdmin
      BY DEF WebAdmin, ListViews, VmViews
    <3> QED
      BY <3>2, <3>3
  <2>3. c.s \in 1 .. 9
    BY <1>1, <2>1 DEF EntryShape
  <2>4. EntryClaim("dashboard", c, p)
    BY <1>4 DEF PageClaim
  <2> DEFINE n == 9
  <2>5. n \in Nat /\ EntryShape("webadmin", WebAdmin, <<"menu", "left">>, n, sc) /\ c.s \in 1 .. n
    BY <2>1, <2>3
  <2> HIDE DEF sc, n
  <2> QED
    BY <1>1, <2>2, <2>4, <2>5, EntryGoes
<1>5. ASSUME t = "userportal" PROVE EntryClaim("portal", d, q)
  <2>1. EntryShape("portal", {"portal"}, <<"page", "portal">>, 8, sc)
    BY <1>5, PortalScript
  <2>2. \A r : Shows(r, <<"page", "portal">>) /\ r.main \in {"login", "portal"} => r.main = "portal"
    <3>1. \A r : Shows(r, <<"page", "portal">>) => <<"page", "portal">> \in Content(r.main)
      BY ContentShown
    <3> QED
      BY <3>1, PagesShown
  <2>3. c.s \in 1 .. 8
    BY <1>1, <2>1 DEF EntryShape
  <2>4. EntryClaim("portal", c, p)
    BY <1>5 DEF PageClaim
  <2> DEFINE n == 8
  <2>5. n \in Nat /\ EntryShape("portal", {"portal"}, <<"page", "portal">>, n, sc) /\ c.s \in 1 .. n
    BY <2>1, <2>3
  <2> HIDE DEF sc, n
  <2> QED
    BY <1>1, <2>2, <2>4, <2>5, EntryGoes
<1>6. ASSUME t = "dashboard" PROVE DashboardClaim(d, q)
  <2>1. DashboardShape(sc) /\ DashboardClaim(c, p)
    BY <1>6, DashboardScript DEF PageClaim
  <2>2. c.s \in 1 .. 5
    BY <1>1, <2>1 DEF DashboardShape
  <2> HIDE DEF sc
  <2> QED
    BY <1>1, <2>1, <2>2, DashboardGoes
<1>7. ASSUME t = "logout" PROVE LogoutClaim(d, q)
  <2>1. LogoutShape(sc) /\ LogoutClaim(c, p)
    BY <1>7, LogoutScript DEF PageClaim
  <2>2. c.s \in 1 .. 12
    BY <1>1, <2>1 DEF LogoutShape
  <2> HIDE DEF sc
  <2> QED
    BY <1>1, <2>1, <2>2, LogoutGoes
<1>8. ASSUME t = "grafana" PROVE GrafanaClaim(d, q)
  <2>1. GrafanaShape(sc) /\ GrafanaClaim(c, p)
    BY <1>8, GrafanaScript DEF PageClaim
  <2>2. c.s \in 1 .. 34
    BY <1>1, <2>1 DEF GrafanaShape
  <2> HIDE DEF sc
  <2> QED
    BY <1>1, <2>1, <2>2, GrafanaGoes
<1> QED
  BY <1>2, <1>3, <1>4, <1>5, <1>6, <1>7, <1>8 DEF PageClaim

LEMMA CrumbsAre ==
    /\ \A v \in ListTests \cup {"vms", "vm", "dashboard", "portal"} : Crumbs(v) = v
    /\ Crumbs("vm_devices") = "vm"
  BY DEF Crumbs, ListTests

\* what the application shows next is what is known to come
LEMMA PageStays ==
    ASSUME NEW t, NEW c, NEW d, NEW p, NEW q, AppMove(p, q), PageClaim(t, c, p),
           c.s \in Nat, d.s = c.s, d.look = c.look, d.missed = c.missed, d.frame = c.frame
    PROVE  PageClaim(t, d, q)
<1>1. /\ q.goal = p.goal /\ q.after = p.after
      /\ q.main \in {p.main, p.goal} /\ q.crumbs \in {p.crumbs, Crumbs(p.goal)}
      /\ q.main # p.main /\ p.main \notin WebAdmin => q.crumbs = Crumbs(p.goal)
  BY DEF AppMove
<1>2. "login" \notin WebAdmin
  BY DEF WebAdmin, ListViews, VmViews
<1>3. ASSUME t \in ListTests PROVE ListClaim(t, 0, d, q)
  <2>1. ListClaim(t, 0, c, p) /\ Crumbs(t) = t
    BY <1>3, CrumbsAre DEF PageClaim
  <2> QED
    BY <1>1, <2>1 DEF ListClaim, On
<1>4. ASSUME t = "virtual_machines" PROVE VmClaim(d, q)
  <2>1. VmClaim(c, p)
    BY <1>4 DEF PageClaim
  <2>2. Crumbs("vms") = "vms" /\ Crumbs("vm") = "vm" /\ Crumbs("vm_devices") = "vm"
    BY CrumbsAre
  <2> QED
    BY <1>1, <2>1, <2>2 DEF VmClaim, On
<1>5. ASSUME NEW dest \in {"dashboard", "portal"}, EntryClaim(dest, c, p) PROVE EntryClaim(dest, d, q)
  <2>1. Crumbs(dest) = dest
    BY CrumbsAre
  <2> QED
    BY <1>1, <1>2, <1>5, <2>1 DEF EntryClaim, Reached, Between
<1>6. ASSUME DashboardClaim(c, p) PROVE DashboardClaim(d, q)
  BY <1>1, <1>6 DEF DashboardClaim
<1>7. ASSUME LogoutClaim(c, p) PROVE LogoutClaim(d, q)
  BY <1>1, <1>7 DEF LogoutClaim, Reached
<1>8. ASSUME GrafanaClaim(c, p) PROVE GrafanaClaim(d, q)
  BY <1>1, <1>8 DEF GrafanaClaim, Reached, Between
<1> HIDE DEF PageClaim
<1> QED
  BY <1>3, <1>4, <1>5, <1>6, <1>7, <1>8 DEF PageClaim

\* nothing is known yet
LEMMA PageAtFirst ==
    ASSUME NEW t, NEW c, NEW p, c.s = 1, c.frame = "out"
    PROVE  PageClaim(t, c, p)
<1>1. ListClaim(t, 0, c, p)
  BY DEF ListClaim
<1>2. VmClaim(c, p) /\ DashboardClaim(c, p) /\ LogoutClaim(c, p)
  BY DEF VmClaim, DashboardClaim, LogoutClaim
<1>3. GrafanaClaim(c, p) /\ EntryClaim("dashboard", c, p) /\ EntryClaim("portal", c, p)
  BY DEF GrafanaClaim, EntryClaim
<1> QED
  BY <1>1, <1>2, <1>3 DEF PageClaim

LEMMA WalkIs ==
    ASSUME UiType, RefInv, Driver, Running'
    PROVE  Walk(cl, cl', page, page', TestScript)
<1>1. Running /\ Moved
  BY DriverMoves
<1>2. cl \in Clients /\ page.main \in Views
  BY DEF UiType, Pages
<1>3. cl' \in Clients /\ Goes(cl, cl', page, page', TestScript)
  BY <1>1 DEF Moved, ClientOk
<1>4. cl'.outcome = "running"
  BY DEF Running
<1>5. {cl.s, cl.look, cl'.s, cl'.look} \subseteq Nat /\ {cl.missed, cl'.missed} \subseteq BOOLEAN
  BY <1>2, <1>3 DEF Clients
<1> QED
  BY <1>2, <1>3, <1>4, <1>5 DEF Walk

LEMMA DriverKeepsPage == ASSUME UiType, RefInv, PageInv, MissInv, Driver PROVE PageInv'
<1> SUFFICES ASSUME Running' PROVE PageClaim(plan[cl.t], cl', page')
  BY DriverMoves DEF PageInv, Moved, Same
<1> DEFINE t == plan[cl.t]
<1>1. Walk(cl, cl', page, page', TestScript)
  BY WalkIs
<1>2. Running /\ page \in Pages
  BY DriverMoves DEF UiType
<1>3. ClientOk(cl, Script[t]) /\ t \in DOMAIN Script /\ TestScript = Script[t]
  BY <1>2, RunningFacts
<1>4. PageClaim(t, cl, page) /\ (t = "virtual_machines" /\ cl.missed => cl.s = 28)
  BY <1>2 DEF PageInv, MissInv, Running
<1> HIDE DEF t
<1>5. Walk(cl, cl', page, page', Script[t])
  BY <1>1, <1>3
<1>6. PageClaim(t, cl', page')
  BY <1>2, <1>3, <1>4, <1>5, PageGoesOn
<1> QED
  BY <1>6 DEF t

LEMMA StepKeepsPage == ASSUME UiType, RefInv, PageInv, MissInv, [Next]_vars PROVE PageInv'
<1>2. CASE Driver
  BY <1>2, DriverKeepsPage
<1>3. CASE Application
  <2>1. AppMove(page, page') /\ Keeps(cl, cl') /\ Running /\ plan' = plan
    BY <1>3, ApplicationKeepsType DEF AppKeeps
  <2>2. cl'.s = cl.s /\ cl'.look = cl.look /\ cl'.missed = cl.missed /\ cl'.frame = cl.frame /\ cl'.t = cl.t
    BY <2>1 DEF Keeps, Same
  <2>3. PageClaim(plan[cl.t], cl, page)
    BY <2>1 DEF PageInv
  <2>4. cl.s \in Nat
    BY DEF UiType, Clients
  <2>5. PageClaim(plan[cl.t], cl', page')
    BY <2>1, <2>2, <2>3, <2>4, PageStays
  <2> QED
    BY <2>1, <2>2, <2>5 DEF PageInv
<1>4. CASE OpenBrowser \/ NextTest
  <2>1. Running' => cl'.s = 1 /\ cl'.frame = "out"
    <3>1. CASE OpenBrowser
      <4>1. cl' = cl /\ cl = ClientAt(cl.b, 1) /\ cl.b \in Nat
        BY <3>1, Bounds DEF OpenBrowser, UiType
      <4> QED
        BY <4>1, ClientAtIs
    <3>2. CASE NextTest
      <4>1. cl.b \in Nat /\ cl.t \in Nat
        BY DEF UiType, Clients
      <4>2. (\E n \in Nat : cl' = ClientAt(cl.b, n)) \/ browser' = "none"
        BY <3>2, <4>1 DEF NextTest
      <4> QED
        BY <4>1, <4>2, ClientAtIs DEF Running
    <3> QED
      BY <1>4, <3>1, <3>2
  <2> QED
    BY <2>1, PageAtFirst DEF PageInv
<1>5. Application \/ Driver \/ OpenBrowser \/ NextTest \/ (UNCHANGED <<browser, cl, plan, page>> /\ (gpc' = gpc \/ browser = "none"))
  BY GridEndsAtServing DEF Next, Client, vars, ui, Terminated, TearDownGrid, UiType, gridVars, Containers, control
<1>6. CASE UNCHANGED <<browser, cl, plan, page>> /\ (gpc' = gpc \/ browser = "none")
  <2>1. Running' => Running
    BY <1>6 DEF Running
  <2> QED
    BY <1>6, <2>1 DEF PageInv
<1> QED
  BY <1>2, <1>3, <1>4, <1>5, <1>6

-----------------------------------------------------------------------------
(* What is read is settled.                                                 *)

Asserts(st, p) ==
    /\ st.op = "read" => \/ p.main = p.goal /\ p.crumbs = Crumbs(p.goal)
                         \/ p.main = "pools" \/ st.at = {"vm"}
    /\ st.op = "frame_read" => p.main = p.goal

LEMMA ListAsserts ==
    ASSUME NEW v \in ListTests, NEW sc, OpenedAt(v, 0, sc), Len(sc) \in Nat, \A i \in 6 .. Len(sc) : sc[i].op # "frame_read",
           NEW c, NEW p, c.s \in 1 .. Len(sc), ListClaim(v, 0, c, p)
    PROVE  Asserts(sc[c.s], p)
<1>0. c.s \in {1, 2, 3, 4, 5} \/ c.s \in 6 .. Len(sc)
  OBVIOUS
<1>1. ASSUME c.s \in {1, 2, 3, 4, 5} PROVE sc[c.s].op \notin {"read", "frame_read"}
  <2>1. sc[1].op = "hover" /\ sc[2].op = "until" /\ sc[3].op = "until" /\ sc[4].op = "click" /\ sc[5].op = "until"
    <3> DEFINE n == 0
    <3>1. n \in Nat /\ OpenedAt(v, n, sc) /\ n + 1 = 1 /\ n + 2 = 2 /\ n + 3 = 3 /\ n + 4 = 4 /\ n + 5 = 5
      OBVIOUS
    <3> HIDE DEF n
    <3>2. sc[n + 1].op = "hover" /\ sc[n + 2].op = "until" /\ sc[n + 3].op = "until" /\ sc[n + 4].op = "click" /\ sc[n + 5].op = "until"
      BY <3>1 DEF OpenedAt, Click, Until, Step
    <3> QED
      BY <3>1, <3>2
  <2> QED
    BY <1>1, <2>1
<1>2. ASSUME c.s \in 6 .. Len(sc) PROVE On(v, p) /\ Crumbs(v) = v
  BY <1>2, CrumbsAre DEF ListClaim
<1> QED
  BY <1>0, <1>1, <1>2 DEF Asserts, On

LEMMA VmAsserts ==
    ASSUME NEW sc, VmShape(sc), NEW c, NEW p, c.s \in 1 .. 47, VmClaim(c, p)
    PROVE  Asserts(sc[c.s], p)
<1> DEFINE st == sc[c.s]
<1>1. c.s \in {1, 2} => st.op \in {"start_vm", "await_vm"}
  <2>1. sc[1] = Step("start_vm", Views, << >>) /\ sc[2] = Step("await_vm", Views, << >>)
    BY DEF VmShape
  <2> QED
    BY <2>1 DEF Step
<1>2. c.s \in {3, 4, 5, 6, 7} => st.op \in {"hover", "until", "click"}
  <2>0. OpenedAt("vms", 2, sc)
    BY DEF VmShape
  <2> DEFINE n == 2
  <2>1. n \in Nat /\ OpenedAt("vms", n, sc) /\ n + 1 = 3 /\ n + 2 = 4 /\ n + 3 = 5 /\ n + 4 = 6 /\ n + 5 = 7
    BY <2>0
  <2> HIDE DEF n
  <2>2. sc[n + 1].op = "hover" /\ sc[n + 2].op = "until" /\ sc[n + 3].op = "until" /\ sc[n + 4].op = "click" /\ sc[n + 5].op = "until"
    BY <2>1 DEF OpenedAt, Click, Until, Step
  <2>3. sc[3].op = "hover" /\ sc[4].op = "until" /\ sc[5].op = "until" /\ sc[6].op = "click" /\ sc[7].op = "until"
    BY <2>1, <2>2
  <2> QED
    BY <2>3
<1>3. c.s \in (8 .. 26) \cup (29 .. 40) \cup (43 .. 47) => st.op \in {"until", "while", "read", "if", "click"}
  <2>1. /\ \A i \in 8 .. 26 : sc[i] \in PlainSteps({"vms"})
        /\ \A i \in 29 .. 40 : sc[i] \in PlainSteps({"vm"})
        /\ \A i \in 43 .. 47 : sc[i] \in PlainSteps({"vm_devices"})
    BY DEF VmShape
  <2> QED
    BY <2>1 DEF PlainSteps, PlainStep
<1>4. c.s \in 29 .. 40 => st.at = {"vm"}
  <2>1. \A i \in 29 .. 40 : sc[i] \in PlainSteps({"vm"})
    BY DEF VmShape
  <2> QED
    BY <2>1 DEF PlainSteps
<1>5. c.s \in {27, 28} => st.op \in {"id_click", "until"}
  <2>1. sc[27] = Persistent("id_click", {"vms"}, <<"row", "vms">>) /\ sc[28] = Until({"vm"}, <<Look("crumbs", <<"page", "vm">>, TRUE)>>)
    BY DEF VmShape
  <2> QED
    BY <2>1 DEF Persistent, Step, Until
<1>6. c.s \in {41, 42} => st.op \in {"click", "until"}
  BY DevicesOpened DEF VmShape
<1>7. c.s \in 8 .. 26 => On("vms", p) /\ Crumbs("vms") = "vms"
  BY CrumbsAre DEF VmClaim
<1>8. c.s \in 43 .. 47 => p.main = "vm_devices" /\ p.goal = "vm_devices" /\ p.crumbs = "vm" /\ Crumbs("vm_devices") = "vm"
  BY CrumbsAre DEF VmClaim
<1> HIDE DEF st
<1>9. \/ c.s \in {1, 2} \/ c.s \in {3, 4, 5, 6, 7} \/ c.s \in 8 .. 26 \/ c.s \in {27, 28} \/ c.s \in 29 .. 40
      \/ c.s \in {41, 42} \/ c.s \in 43 .. 47
  OBVIOUS
<1>10. Asserts(st, p)
  BY <1>1, <1>2, <1>3, <1>4, <1>5, <1>6, <1>7, <1>8, <1>9 DEF Asserts, On
<1> QED
  BY <1>10 DEF st

LEMMA EntryAsserts ==
    ASSUME NEW link, NEW at, NEW e, NEW n \in Nat, NEW dest \in {"dashboard", "portal"}, NEW sc, EntryShape(link, at, e, n, sc),
           NEW c, NEW p, c.s \in 1 .. n, EntryClaim(dest, c, p)
    PROVE  Asserts(sc[c.s], p)
<1>1. ASSUME c.s \in {1, 2, 3, 4, 5, 6, 7} PROVE sc[c.s].op \in {"until", "click"}
  <2>1. sc[1].op = "until" /\ sc[4].op = "click" /\ sc[5].op = "click"
    BY DEF EntryShape
  <2>2. sc[2].op = "click"
    <3>1. sc[2] = BareClick({"welcome"}, <<"link", link>>)
      BY DEF EntryShape
    <3> QED
      BY <3>1, LinkLooks
  <2>3. sc[3].op = "until"
    <3>1. sc[3] = Until({"login"}, <<Look("shown", <<"link", "username">>, FALSE), Look("shown", <<"link", "password">>, FALSE)>>)
      BY DEF EntryShape
    <3> QED
      BY <3>1, FormLooks
  <2>4. sc[6].op = "click"
    <3>1. sc[6] = Click({"login"}, <<"link", "log in">>)
      BY DEF EntryShape
    <3> QED
      BY <3>1, LogInLooks
  <2>5. sc[7].op = "until"
    <3>1. sc[7] = Until(at, <<Look("present", e, FALSE)>>)
      BY DEF EntryShape
    <3> QED
      BY <3>1 DEF Until, Step
  <2> QED
    BY <1>1, <2>1, <2>2, <2>3, <2>4, <2>5
<1>2. ASSUME c.s \in 8 .. n PROVE /\ sc[c.s].op # "frame_read"
                                  /\ p.main = p.goal /\ p.crumbs = Crumbs(p.goal)
  <2>1. \A i \in 8 .. n : sc[i].op \in {"until", "read"}
    BY DEF EntryShape
  <2>2. p.main = dest /\ Between("login", dest, p) /\ p.crumbs = dest /\ Crumbs(dest) = dest
    BY <1>2, CrumbsAre DEF EntryClaim
  <2> QED
    BY <1>2, <2>1, <2>2 DEF Between
<1>3. c.s \in {1, 2, 3, 4, 5, 6, 7} \/ c.s \in 8 .. n
  OBVIOUS
<1> QED
  BY <1>1, <1>2, <1>3 DEF Asserts

LEMMA DashboardAsserts ==
    ASSUME NEW sc, DashboardShape(sc), NEW c, NEW p, c.s \in 1 .. 5, DashboardClaim(c, p)
    PROVE  Asserts(sc[c.s], p)
<1>1. sc[1].op = "until" /\ sc[2].op = "until" /\ sc[3].op = "click" /\ sc[4].op = "frame_until" /\ sc[5].op = "frame_read"
  <2>1. /\ sc[1].op = "until" /\ sc[2].op = "until" /\ sc[3] = Click(WebAdmin, <<"anchor", "dashboard">>)
        /\ sc[4] = Dashboard("frame_until") /\ sc[5] = Dashboard("frame_read")
    BY DEF DashboardShape
  <2> QED
    BY <2>1 DEF Click, Dashboard, Step
<1>2. c.s = 5 => p.main = p.goal
  BY DEF DashboardClaim
<1>3. c.s \in {1, 2, 3, 4, 5}
  OBVIOUS
<1> QED
  BY <1>1, <1>2, <1>3 DEF Asserts

LEMMA LogoutAsserts ==
    ASSUME NEW sc, LogoutShape(sc), NEW c, NEW p, c.s \in 1 .. 12, LogoutClaim(c, p), p.main \notin WebAdmin => p.crumbs = p.main
    PROVE  Asserts(sc[c.s], p)
<1>1. /\ \A i \in 1 .. 9 : sc[i].op \in {"until", "while", "click"}
      /\ sc[10].op = "get" /\ sc[11].op = "until" /\ sc[12].op = "read"
  <2>1. /\ \A i \in 1 .. 9 : sc[i].op \in {"until", "while", "click"}
        /\ sc[10] = Step("get", Views, << >>) /\ sc[12].op = "read"
        /\ sc[11] = Until({"welcome"}, <<Look("shown", <<"page", "welcome">>, FALSE)>>)
    BY DEF LogoutShape
  <2> QED
    BY <2>1 DEF Until, Step
<1>2. c.s = 12 => p.main = p.goal /\ p.crumbs = Crumbs(p.goal)
  <2>1. "welcome" \notin WebAdmin /\ Crumbs("welcome") = "welcome"
    BY DEF WebAdmin, ListViews, VmViews, Crumbs
  <2> QED
    BY <2>1 DEF LogoutClaim, Reached
<1>3. c.s \in 1 .. 9 \/ c.s \in {10, 11} \/ c.s = 12
  OBVIOUS
<1>4. c.s \in 1 .. 9 \cup {10, 11} => sc[c.s].op \notin {"read", "frame_read"}
  BY <1>1
<1>5. c.s = 12 => sc[c.s].op = "read"
  BY <1>1
<1> QED
  BY <1>2, <1>3, <1>4, <1>5 DEF Asserts

LEMMA GrafanaAsserts ==
    ASSUME NEW sc, GrafanaShape(sc), NEW c, NEW p, c.s \in 1 .. 34, GrafanaClaim(c, p), p.main \notin WebAdmin => p.crumbs = p.main
    PROVE  Asserts(sc[c.s], p)
<1> DEFINE st == sc[c.s]
<1>1. c.s \in {1, 2, 3, 4, 5, 6} => st.op \in {"get", "until", "click"}
  <2>1. /\ sc[1] = Step("get", Views, << >>)
        /\ sc[2] = Until({"welcome"}, <<Look("shown", <<"page", "welcome">>, FALSE)>>)
        /\ sc[3] = BareClick({"welcome"}, <<"link", "grafana">>)
        /\ sc[4] = Until({"grafana_login"}, <<Look("shown", <<"link", "oauth">>, FALSE)>>)
        /\ sc[5] = Click({"grafana_login"}, <<"link", "oauth">>)
        /\ sc[6] = Until({"grafana"}, <<Look("shown", <<"page", "grafana">>, FALSE)>>)
    BY DEF GrafanaShape
  <2>2. /\ sc[1].op = "get" /\ sc[2].op = "until" /\ sc[3].op = "click" /\ sc[4].op = "until" /\ sc[5].op = "click" /\ sc[6].op = "until"
    BY <2>1 DEF Until, Step, BareClick, Click
  <2> QED
    BY <2>2
<1>2. ASSUME NEW at, NEW submenu, NEW v, NEW n \in Nat, BoardAt(at, submenu, v, n, sc)
      PROVE  /\ \A i \in n + 1 .. n + 11 : sc[i].op \in {"until", "click"}
             /\ sc[n + 12].op = "click" /\ sc[n + 13].op = "until" /\ sc[n + 14].op = "read"
  <2>1. /\ \A i \in n + 1 .. n + 11 : sc[i].op \in {"until", "click"}
        /\ sc[n + 12] = Click(at, <<"link", submenu>>)
        /\ sc[n + 13] = Until({v}, <<Look("found", <<"page", v>>, FALSE), Look("found", <<"page", v>>, FALSE)>>)
        /\ sc[n + 14].op = "read"
    BY <1>2 DEF BoardAt
  <2> QED
    BY <2>1 DEF Until, Step, Click
<1>3. /\ \A i \in 7 .. 17 : sc[i].op \in {"until", "click"}
      /\ sc[18].op = "click" /\ sc[19].op = "until" /\ sc[20].op = "read"
  <2>0. BoardAt({"grafana"}, "Data Center", "grafana_dc", 6, sc)
    BY DEF GrafanaShape
  <2> DEFINE n == 6
  <2>1. n \in Nat /\ n + 1 = 7 /\ n + 11 = 17 /\ n + 12 = 18 /\ n + 13 = 19 /\ n + 14 = 20
    OBVIOUS
  <2>3. BoardAt({"grafana"}, "Data Center", "grafana_dc", n, sc)
    BY <2>0
  <2> HIDE DEF n
  <2>2. /\ \A i \in n + 1 .. n + 11 : sc[i].op \in {"until", "click"}
        /\ sc[n + 12].op = "click" /\ sc[n + 13].op = "until" /\ sc[n + 14].op = "read"
    BY <1>2, <2>1, <2>3
  <2> QED
    BY <2>1, <2>2
<1>4. /\ \A i \in 21 .. 31 : sc[i].op \in {"until", "click"}
      /\ sc[32].op = "click" /\ sc[33].op = "until" /\ sc[34].op = "read"
  <2>0. BoardAt({"grafana_dc"}, "Hosts", "grafana_hosts", 20, sc)
    BY DEF GrafanaShape
  <2> DEFINE n == 20
  <2>1. n \in Nat /\ n + 1 = 21 /\ n + 11 = 31 /\ n + 12 = 32 /\ n + 13 = 33 /\ n + 14 = 34
    OBVIOUS
  <2>3. BoardAt({"grafana_dc"}, "Hosts", "grafana_hosts", n, sc)
    BY <2>0
  <2> HIDE DEF n
  <2>2. /\ \A i \in n + 1 .. n + 11 : sc[i].op \in {"until", "click"}
        /\ sc[n + 12].op = "click" /\ sc[n + 13].op = "until" /\ sc[n + 14].op = "read"
    BY <1>2, <2>1, <2>3
  <2> QED
    BY <2>1, <2>2
<1>5. c.s \in {20, 34} => p.main = p.goal /\ p.crumbs = Crumbs(p.goal)
  <2>1. /\ "grafana_dc" \notin WebAdmin /\ Crumbs("grafana_dc") = "grafana_dc"
        /\ "grafana_hosts" \notin WebAdmin /\ Crumbs("grafana_hosts") = "grafana_hosts"
    BY DEF WebAdmin, ListViews, VmViews, Crumbs
  <2>2. (c.s = 20 => Reached("grafana_dc", p)) /\ (c.s = 34 => Reached("grafana_hosts", p))
    BY DEF GrafanaClaim
  <2> QED
    BY <2>1, <2>2 DEF Reached
<1>6. st.op \notin {"read", "frame_read"} \/ (c.s \in {20, 34} /\ st.op = "read")
  <2>1. \/ c.s \in {1, 2, 3, 4, 5, 6} \/ c.s \in 7 .. 17 \/ c.s \in 21 .. 31
        \/ c.s \in {18, 19, 32, 33} \/ c.s \in {20, 34}
    OBVIOUS
  <2>2. c.s \in 7 .. 17 \/ c.s \in 21 .. 31 => st.op \in {"until", "click"}
    BY <1>3, <1>4
  <2>3. c.s \in {18, 19, 32, 33} => st.op \in {"until", "click"}
    BY <1>3, <1>4
  <2>4. c.s \in {20, 34} => st.op = "read"
    BY <1>3, <1>4
  <2> HIDE DEF st
  <2> QED
    BY <1>1, <2>1, <2>2, <2>3, <2>4
<1> HIDE DEF st
<1>7. Asserts(st, p)
  BY <1>5, <1>6 DEF Asserts
<1> QED
  BY <1>7 DEF st

LEMMA DiskOps ==
    ASSUME NEW sc, sc = Script["disks"], NEW i \in 6 .. Len(sc)
    PROVE  sc[i].op \notin {"frame_until", "frame_read"}
<1>1. /\ Len(sc) = 16
      /\ \A j \in 6 .. 10 : sc[j] \in PlainSteps({"disks"})
      /\ sc[11] = Persistent("id_click", {"disks"}, <<"button", "Upload">>)
      /\ sc[12] = Persistent("action", {"disks"}, <<"link", "Start">>)
      /\ sc[13] = Persistent("action", {"disks"}, <<"field", "file">>)
      /\ sc[14] = Persistent("action", {"disks"}, <<"field", "alias">>)
      /\ sc[15] = Persistent("wait_for_id", {"disks"}, <<"ok", "upload">>)
      /\ sc[16] = Until({"disks"}, <<Look("named", <<"row", "disks">>, TRUE)>>)
  BY DisksScript
<1>2. CASE i \in 6 .. 10
  BY <1>1, <1>2 DEF PlainSteps, PlainStep
<1>3. /\ sc[11].op = "id_click" /\ sc[12].op = "action" /\ sc[13].op = "action" /\ sc[14].op = "action"
      /\ sc[15].op = "wait_for_id" /\ sc[16].op = "until"
  BY <1>1 DEF Persistent, Until, Step
<1>4. i \in 6 .. 10 \/ i = 11 \/ i = 12 \/ i = 13 \/ i = 14 \/ i = 15 \/ i = 16
  BY <1>1
<1> QED
  BY <1>2, <1>3, <1>4

LEMMA ScriptAsserts ==
    ASSUME NEW t \in DOMAIN Script, NEW c, NEW p, c.s \in 1 .. Len(Script[t]), PageClaim(t, c, p), p.main \notin WebAdmin => p.crumbs = p.main
    PROVE  Asserts(Script[t][c.s], p)
<1> DEFINE sc == Script[t]
<1>1. t \in ListTests \cup {"virtual_machines", "login", "userportal", "dashboard", "logout", "grafana"}
  BY DEF Script, ListTests
<1>0. Len(sc) \in Nat \ {0} /\ c.s \in 1 .. Len(sc)
  BY ScriptFacts
<1>2. CASE t \in ListTests
  <2>1. OpenedAt(t, 0, sc) /\ \A i \in 6 .. Len(sc) : sc[i].op # "frame_read"
    <3>1. CASE t = "disks"
      BY <3>1, DisksScript, DiskOps
    <3>2. CASE t # "disks"
      <4>1. ListShape(t, sc)
        BY <1>2, <3>2, ListScripts
      <4>2. \A i \in 6 .. Len(sc) : sc[i] \in PlainSteps({t})
        BY <4>1 DEF ListShape
      <4> QED
        BY <4>1, <4>2 DEF ListShape, PlainSteps, PlainStep
    <3> QED
      BY <3>1, <3>2
  <2>2. ListClaim(t, 0, c, p)
    BY <1>2 DEF PageClaim
  <2> HIDE DEF sc
  <2>3. Asserts(sc[c.s], p)
    BY <1>0, <1>2, <2>1, <2>2, ListAsserts
  <2> QED
    BY <2>3 DEF sc
<1>3. CASE t = "virtual_machines"
  <2>1. VmShape(sc) /\ VmClaim(c, p)
    BY <1>3, VmScript DEF PageClaim
  <2>2. c.s \in 1 .. 47
    BY <1>0, <2>1 DEF VmShape
  <2> HIDE DEF sc
  <2>3. Asserts(sc[c.s], p)
    BY <2>1, <2>2, VmAsserts
  <2> QED
    BY <2>3 DEF sc
<1>4. CASE t = "login"
  <2>1. EntryShape("webadmin", WebAdmin, <<"menu", "left">>, 9, sc) /\ EntryClaim("dashboard", c, p)
    BY <1>4, LoginScript DEF PageClaim
  <2> DEFINE n == 9
  <2>2. n \in Nat /\ EntryShape("webadmin", WebAdmin, <<"menu", "left">>, n, sc)
    BY <2>1
  <2>3. c.s \in 1 .. n
    BY <1>0, <2>1 DEF EntryShape
  <2> HIDE DEF sc, n
  <2>4. Asserts(sc[c.s], p)
    BY <2>1, <2>2, <2>3, EntryAsserts
  <2> QED
    BY <2>4 DEF sc
<1>5. CASE t = "userportal"
  <2>1. EntryShape("portal", {"portal"}, <<"page", "portal">>, 8, sc) /\ EntryClaim("portal", c, p)
    BY <1>5, PortalScript DEF PageClaim
  <2> DEFINE n == 8
  <2>2. n \in Nat /\ EntryShape("portal", {"portal"}, <<"page", "portal">>, n, sc)
    BY <2>1
  <2>3. c.s \in 1 .. n
    BY <1>0, <2>1 DEF EntryShape
  <2> HIDE DEF sc, n
  <2>4. Asserts(sc[c.s], p)
    BY <2>1, <2>2, <2>3, EntryAsserts
  <2> QED
    BY <2>4 DEF sc
<1>6. CASE t = "dashboard"
  <2>1. DashboardShape(sc) /\ DashboardClaim(c, p)
    BY <1>6, DashboardScript DEF PageClaim
  <2>2. c.s \in 1 .. 5
    BY <1>0, <2>1 DEF DashboardShape
  <2> HIDE DEF sc
  <2>3. Asserts(sc[c.s], p)
    BY <2>1, <2>2, DashboardAsserts
  <2> QED
    BY <2>3 DEF sc
<1>7. CASE t = "logout"
  <2>1. LogoutShape(sc) /\ LogoutClaim(c, p)
    BY <1>7, LogoutScript DEF PageClaim
  <2>2. c.s \in 1 .. 12
    BY <1>0, <2>1 DEF LogoutShape
  <2> HIDE DEF sc
  <2>3. Asserts(sc[c.s], p)
    BY <2>1, <2>2, LogoutAsserts
  <2> QED
    BY <2>3 DEF sc
<1>8. CASE t = "grafana"
  <2>1. GrafanaShape(sc) /\ GrafanaClaim(c, p)
    BY <1>8, GrafanaScript DEF PageClaim
  <2>2. c.s \in 1 .. 34
    BY <1>0, <2>1 DEF GrafanaShape
  <2> HIDE DEF sc
  <2>3. Asserts(sc[c.s], p)
    BY <2>1, <2>2, GrafanaAsserts
  <2> QED
    BY <2>3 DEF sc
<1> QED
  BY <1>1, <1>2, <1>3, <1>4, <1>5, <1>6, <1>7, <1>8

LEMMA PagesAreSettled == ASSUME UiType, PageInv PROVE AssertsOnSettledPage
<1> SUFFICES ASSUME Running
             PROVE  /\ St.op = "read" => Settled \/ page.main = "pools" \/ St.at = {"vm"}
                    /\ St.op = "frame_read" => page.main = page.goal
  BY DEF AssertsOnSettledPage
<1> DEFINE t == plan[cl.t]
<1>1. ClientOk(cl, Script[t]) /\ t \in DOMAIN Script /\ St = Script[t][cl.s]
  BY RunningFacts
<1>2. cl.s \in 1 .. Len(Script[t]) /\ PageClaim(t, cl, page) /\ (page.main \notin WebAdmin => page.crumbs = page.main)
  BY <1>1 DEF PageInv, UiType, ClientOk
<1> HIDE DEF t
<1>3. Asserts(St, page)
  BY <1>1, <1>2, ScriptAsserts
<1> QED
  BY <1>3 DEF Asserts, Settled

-----------------------------------------------------------------------------
(* The dialog for uploading a disk, and the clicks that are missed.         *)

\* a step that leaves the dialog alone
Tame(st) == st \in Steps /\ (st.op \in ClickOps \ {"hover"} => st.looks[1].e \in SafeTargets)

LEMMA HarmlessIsTame == ASSUME NEW st \in Harmless PROVE Tame(st)
  BY DEF Harmless, Tame

LEMMA TameLeaves ==
    ASSUME NEW c, NEW d, NEW p \in Pages, NEW q, NEW sc, Goes(c, d, p, q, sc), Tame(sc[c.s]), Untouched(p), p.menu # "Upload"
    PROVE  Untouched(q) /\ q.menu # "Upload"
<1> DEFINE st == sc[c.s]
<1>1. CASE q = p
  BY <1>1
<1>2. CASE q = [p EXCEPT !.goal = "welcome"]
  <2>1. q.dialog = p.dialog /\ q.dgoal = p.dgoal /\ q.form = p.form /\ q.disk = p.disk /\ q.menu = p.menu
    BY <1>2 DEF Pages
  <2> QED
    BY <2>1 DEF Untouched
<1>3. CASE st.op = "hover" /\ Pressed(c, d, p, q, st)
  <2>1. Hovers(p, q)
    BY <1>3 DEF Pressed
  <2> QED
    BY <2>1 DEF Hovers, Untouched
<1>4. CASE st.op \in ClickOps \ {"hover"} /\ Pressed(c, d, p, q, st)
  <2> DEFINE e == st.looks[1].e
  <2>1. Handles(e, p, q) /\ e \in SafeTargets
    BY <1>4 DEF Pressed, Tame
  <2>2. e # <<"button", "Upload">>
    BY <2>1 DEF SafeTargets
  <2> HIDE DEF e
  <2>3. /\ q.dialog = p.dialog /\ q.menu # "Upload" /\ q.form = p.form /\ q.disk = p.disk
        /\ q.dgoal = p.dgoal \/ q.dgoal # "upload"
    BY <2>1, <2>2 DEF Handles
  <2> QED
    BY <2>3 DEF Untouched
<1>5. \/ q = p \/ q = [p EXCEPT !.goal = "welcome"]
      \/ st.op \in ClickOps /\ Pressed(c, d, p, q, st)
  <2>1. ASSUME NEW n \in 1 .. 3, Onward(c, d, p, q, sc, n)
        PROVE  \/ q = p \/ q = [p EXCEPT !.goal = "welcome"]
               \/ st.op \in ClickOps /\ Pressed(c, d, p, q, st)
    <3>1. IF st.op \in ClickOps THEN Pressed(c, d, p, q, st) \/ GivenUp(c, d, p, q, st)
                                ELSE d.missed = c.missed /\ q = IF st.op = "get" THEN [p EXCEPT !.goal = "welcome"] ELSE p
      BY <2>1 DEF Onward
    <3>2. GivenUp(c, d, p, q, st) => q = p
      BY DEF GivenUp
    <3> HIDE DEF st
    <3> QED
      BY <3>1, <3>2
  <2>2. Fails(c, d, p, q) \/ StaysPut(c, d, p, q, st) \/ LooksOn(c, d, p, q, st) => q = p
    BY DEF Fails, StaysPut, LooksOn
  <2> QED
    BY <2>1, <2>2 DEF Goes
<1> QED
  BY <1>1, <1>2, <1>3, <1>4, <1>5

LEMMA HarmlessMisses ==
    ASSUME NEW c, NEW d, NEW p, NEW q, NEW sc, Goes(c, d, p, q, sc), sc[c.s] \in Harmless, {c.missed, d.missed} \subseteq BOOLEAN
    PROVE  d.missed = c.missed
<1> DEFINE st == sc[c.s]
<1>1. st.op \notin {"id_click", "action", "wait_for_id"}
  BY DEF Harmless
<1>2. ASSUME NEW n \in 1 .. 3, Onward(c, d, p, q, sc, n) PROVE d.missed = c.missed
  <2>1. d.missed = c.missed \/ Pressed(c, d, p, q, st) \/ GivenUp(c, d, p, q, st)
    BY <1>2 DEF Onward
  <2>2. Pressed(c, d, p, q, st) => d.missed = c.missed
    BY DEF Pressed
  <2>3. GivenUp(c, d, p, q, st) => d.missed = c.missed
    BY <1>1 DEF GivenUp
  <2> QED
    BY <2>1, <2>2, <2>3
<1>3. Fails(c, d, p, q) \/ StaysPut(c, d, p, q, st) \/ LooksOn(c, d, p, q, st) => d.missed = c.missed
  BY DEF Fails, StaysPut, LooksOn
<1> QED
  BY <1>2, <1>3 DEF Goes

LEMMA UploadSteps ==
    ASSUME NEW sc, sc = Script["disks"]
    PROVE  /\ Len(sc) = 16 /\ \A i \in 1 .. 10 : sc[i] \in Harmless
           /\ sc[11].op = "id_click" /\ sc[11].looks[1].e = <<"button", "Upload">>
           /\ sc[12].op = "action" /\ sc[12].looks[1].e = <<"link", "Start">>
           /\ sc[13].op = "action" /\ sc[13].looks[1].e = <<"field", "file">>
           /\ sc[14].op = "action" /\ sc[14].looks[1].e = <<"field", "alias">>
           /\ sc[15].op = "wait_for_id" /\ sc[15].looks[1].e = <<"ok", "upload">>
           /\ sc[16].op = "until" /\ Len(sc[16].looks) = 1 /\ sc[16].looks[1].k = "named"
<1>1. /\ Len(sc) = 16 /\ \A i \in 1 .. 10 : sc[i] \in Harmless
      /\ sc[11] = Persistent("id_click", {"disks"}, <<"button", "Upload">>)
      /\ sc[12] = Persistent("action", {"disks"}, <<"link", "Start">>)
      /\ sc[13] = Persistent("action", {"disks"}, <<"field", "file">>)
      /\ sc[14] = Persistent("action", {"disks"}, <<"field", "alias">>)
      /\ sc[15] = Persistent("wait_for_id", {"disks"}, <<"ok", "upload">>)
      /\ sc[16] = Until({"disks"}, <<Look("named", <<"row", "disks">>, TRUE)>>)
  BY DisksScript
<1>2. ASSUME NEW st, NEW op, NEW at, NEW e, st = Persistent(op, at, e) PROVE st.op = op /\ st.looks[1].e = e
  BY <1>2 DEF Persistent, Step, Look
<1>3. sc[16].op = "until" /\ Len(sc[16].looks) = 1 /\ sc[16].looks[1].k = "named"
  BY <1>1 DEF Until, Step, Look
<1>4. sc[11].op = "id_click" /\ sc[11].looks[1].e = <<"button", "Upload">>
  BY <1>1, <1>2
<1>5. sc[12].op = "action" /\ sc[12].looks[1].e = <<"link", "Start">>
  BY <1>1, <1>2
<1>6. sc[13].op = "action" /\ sc[13].looks[1].e = <<"field", "file">>
  BY <1>1, <1>2
<1>7. sc[14].op = "action" /\ sc[14].looks[1].e = <<"field", "alias">>
  BY <1>1, <1>2
<1>8. sc[15].op = "wait_for_id" /\ sc[15].looks[1].e = <<"ok", "upload">>
  BY <1>1, <1>2
<1> QED
  BY <1>1, <1>3, <1>4, <1>5, <1>6, <1>7, <1>8

LEMMA UploadBegins ==
    ASSUME NEW d, NEW q, Untouched(q), q.menu # "Upload", ~d.missed, d.s \in 1 .. 13
    PROVE  UploadClaim(d, q)
  BY DEF UploadClaim, Untouched

\* what is not there is neither found nor clicked, and the test does not get past it
LEMMA FieldsShown == ASSUME NEW p, NEW f, Shows(p, <<"field", f>>) PROVE p.dialog = "upload"
<1>1. <<"field", f>> \in DialogContent(p.dialog)
  BY ContentShown
<1>2. ASSUME NEW v, <<"field", f>> \in DialogContent(v) PROVE v = "upload"
  BY <1>2 DEF DialogContent
<1> QED
  BY <1>1, <1>2
LEMMA NothingToAct ==
    ASSUME NEW c, NEW d, NEW p, NEW q, NEW sc, Goes(c, d, p, q, sc), sc[c.s].op = "action", d.outcome = "running",
           ~Shows(p, sc[c.s].looks[1].e), c.ref = "none", ~c.elem
    PROVE  d.s = c.s /\ q = p /\ d.ref = "none" /\ ~d.elem
<1> DEFINE st == sc[c.s]
<1>1. ~Fails(c, d, p, q) /\ ~LooksOn(c, d, p, q, st)
  BY DEF Fails, LooksOn
<1>2. ASSUME NEW n \in 1 .. 3 PROVE ~Onward(c, d, p, q, sc, n)
  <2>1. ~Pressed(c, d, p, q, st)
    BY DEF Pressed
  <2>2. ~GivenUp(c, d, p, q, st)
    BY DEF GivenUp
  <2> QED
    BY <2>1, <2>2 DEF Onward, ClickOps
<1>3. StaysPut(c, d, p, q, st)
  BY <1>1, <1>2 DEF Goes
<1> QED
  BY <1>3 DEF StaysPut

\* what is known of the dialog from one step to the next
LEMMA UploadStays ==
    ASSUME NEW c, NEW d, NEW p, UploadClaim(c, p), d.s = c.s, d.missed = c.missed,
           c.s \in {12, 13} /\ c.missed => d.ref = "none" /\ ~d.elem
    PROVE  UploadClaim(d, p)
  BY DEF UploadClaim

LEMMA UploadOnward ==
    ASSUME NEW c, NEW d, NEW p, NEW q, NEW sc, sc = Script["disks"], c.s \in 11 .. 16, {c.missed, d.missed} \subseteq BOOLEAN,
           UploadClaim(c, p), c.missed => c.s # 11, c.s \in {12, 13} => ~c.missed,
           NEW n \in 1 .. 3, Onward(c, d, p, q, sc, n), d.outcome = "running"
    PROVE  UploadClaim(d, q)
<1> DEFINE st == sc[c.s]
<1>1. /\ Len(sc) = 16
      /\ c.s = 11 => st.op = "id_click" /\ st.looks[1].e = <<"button", "Upload">>
      /\ c.s = 12 => st.op = "action" /\ st.looks[1].e = <<"link", "Start">>
      /\ c.s = 13 => st.op = "action" /\ st.looks[1].e = <<"field", "file">>
      /\ c.s = 14 => st.op = "action" /\ st.looks[1].e = <<"field", "alias">>
      /\ c.s = 15 => st.op = "wait_for_id" /\ st.looks[1].e = <<"ok", "upload">>
      /\ c.s = 16 => st.op = "until"
  BY UploadSteps
<1>2. /\ n = 1 \/ (n = 2 /\ st.op = "start_vm") \/ (n = 3 /\ st.op = "if")
      /\ IF c.s + n <= Len(sc) THEN d.outcome = "running" /\ d.s = c.s + n ELSE d.outcome = "passed"
      /\ d.ref = "none" /\ ~d.elem
      /\ st.op \in ClickOps => Pressed(c, d, p, q, st) \/ GivenUp(c, d, p, q, st)
  BY DEF Onward
<1> HIDE DEF st
<1>3. st.op \in {"id_click", "action", "wait_for_id", "until"}
  BY <1>1
<1>4. n = 1
  BY <1>2, <1>3
<1>5. c.s # 16 /\ d.s = c.s + 1
  BY <1>1, <1>2, <1>4
<1>6. st.op \in {"id_click", "action", "wait_for_id"} /\ (Pressed(c, d, p, q, st) \/ GivenUp(c, d, p, q, st))
  BY <1>1, <1>2, <1>5 DEF ClickOps
<1> DEFINE e == st.looks[1].e
<1>7. Pressed(c, d, p, q, st) => d.missed = c.missed /\ Handles(e, p, q)
  BY <1>6 DEF Pressed
<1>8. GivenUp(c, d, p, q, st) => q = p /\ d.missed /\ st.op # "wait_for_id"
  BY <1>6 DEF GivenUp
<1> HIDE DEF e
<1>9. CASE c.s = 11
  <2>1. Untouched(p) /\ p.menu # "Upload" /\ ~c.missed /\ d.s = 12
    BY <1>5, <1>9 DEF UploadClaim
  <2>2. CASE Pressed(c, d, p, q, st)
    <3>1. Handles(e, p, q) /\ e = <<"button", "Upload">> /\ ~d.missed
      BY <1>1, <1>7, <1>9, <2>1, <2>2 DEF e
    <3>2. q.dialog = p.dialog /\ q.form = p.form /\ q.disk = p.disk /\ (q.dgoal = p.dgoal \/ q.dgoal # "upload")
      BY <3>1 DEF Handles
    <3>3. Untouched(q)
      BY <2>1, <3>2 DEF Untouched
    <3> QED
      BY <2>1, <3>1, <3>3 DEF UploadClaim
  <2>3. CASE GivenUp(c, d, p, q, st)
    BY <1>2, <1>8, <2>1, <2>3 DEF UploadClaim
  <2> QED
    BY <1>6, <2>2, <2>3
<1>10. CASE c.s = 12
  <2>1. Untouched(p) /\ ~c.missed /\ d.s = 13
    BY <1>5, <1>10 DEF UploadClaim
  <2>2. CASE Pressed(c, d, p, q, st)
    <3>1. Handles(e, p, q) /\ e = <<"link", "Start">> /\ ~d.missed
      BY <1>1, <1>7, <1>10, <2>1, <2>2 DEF e
    <3>2. q.form = p.form /\ q.disk = p.disk
      BY <3>1 DEF Handles
    <3> QED
      BY <2>1, <3>1, <3>2 DEF UploadClaim, Untouched
  <2>3. CASE GivenUp(c, d, p, q, st)
    <3>1. q = p /\ d.missed
      BY <1>8, <2>3
    <3> QED
      BY <1>2, <2>1, <3>1 DEF UploadClaim, Untouched
  <2> QED
    BY <1>6, <2>2, <2>3
<1>11. CASE c.s = 13
  <2>1. p.form = {} /\ p.disk = "none" /\ ~c.missed /\ d.s = 14
    BY <1>5, <1>11 DEF UploadClaim
  <2>2. CASE Pressed(c, d, p, q, st)
    <3>1. Handles(e, p, q) /\ e = <<"field", "file">> /\ ~d.missed
      BY <1>1, <1>7, <1>11, <2>1, <2>2 DEF e
    <3>2. e[1] = "field" /\ e[2] = "file"
      BY <3>1
    <3>3. q.form = {"file"} /\ q.disk = "none"
      BY <2>1, <3>1, <3>2 DEF Handles
    <3> QED
      BY <2>1, <3>1, <3>3 DEF UploadClaim
  <2>3. CASE GivenUp(c, d, p, q, st)
    BY <1>8, <2>1, <2>3 DEF UploadClaim
  <2> QED
    BY <1>6, <2>2, <2>3
<1>12. CASE c.s = 14
  <2>1. p.disk = "none" /\ p.form \subseteq {"file"} /\ (c.missed => p.form = {}) /\ d.s = 15
    BY <1>5, <1>12 DEF UploadClaim
  <2>2. CASE Pressed(c, d, p, q, st)
    <3>1. Handles(e, p, q) /\ e = <<"field", "alias">> /\ d.missed = c.missed
      BY <1>1, <1>7, <1>12, <2>2 DEF e
    <3>2. e[1] = "field" /\ e[2] = "alias"
      BY <3>1
    <3>3. q.form = p.form \cup {"alias"} /\ q.disk = "none"
      BY <2>1, <3>1, <3>2 DEF Handles
    <3>4. d.missed => q.form # Fields
      BY <2>1, <3>1, <3>3 DEF Fields
    <3> QED
      BY <2>1, <3>3, <3>4 DEF UploadClaim
  <2>3. CASE GivenUp(c, d, p, q, st)
    <3>1. q = p /\ p.form # Fields
      BY <1>8, <2>1, <2>3 DEF Fields
    <3> QED
      BY <2>1, <3>1 DEF UploadClaim
  <2> QED
    BY <1>6, <2>2, <2>3
<1>13. CASE c.s = 15
  <2>1. p.disk = "none" /\ (c.missed => p.form # Fields) /\ d.s = 16
    BY <1>5, <1>13 DEF UploadClaim
  <2>2. Handles(e, p, q) /\ e = <<"ok", "upload">> /\ d.missed = c.missed
    BY <1>1, <1>6, <1>7, <1>8, <1>13 DEF e
  <2>3. q.disk = p.disk \/ p.form = Fields
    BY <2>2 DEF Handles
  <2> QED
    BY <2>1, <2>2, <2>3 DEF UploadClaim
<1>14. c.s = 11 \/ c.s = 12 \/ c.s = 13 \/ c.s = 14 \/ c.s = 15
  BY <1>5
<1> QED
  BY <1>9, <1>10, <1>11, <1>12, <1>13, <1>14

LEMMA UploadGoesOn ==
    ASSUME NEW c \in Clients, NEW d \in Clients, NEW p \in Pages, NEW q, NEW sc, sc = Script["disks"], c.s \in 1 .. 16,
           c.missed => c.s \in 12 .. 16, Goes(c, d, p, q, sc), UploadClaim(c, p), d.outcome = "running"
    PROVE  UploadClaim(d, q)
<1> DEFINE st == sc[c.s]
<1>0. {c.missed, d.missed} \subseteq BOOLEAN /\ {c.s, d.s} \subseteq Nat
  BY DEF Clients
<1>1. CASE c.s \in 1 .. 10
  <2>1. sc[c.s] \in Harmless
    BY <1>1, UploadSteps
  <2>2. Untouched(p) /\ p.menu # "Upload" /\ ~c.missed
    BY <1>1 DEF UploadClaim
  <2>3. Tame(sc[c.s])
    BY <2>1, HarmlessIsTame
  <2>4. Untouched(q) /\ q.menu # "Upload"
    BY <2>2, <2>3, TameLeaves
  <2>5. d.missed = c.missed
    BY <1>0, <2>1, HarmlessMisses
  <2>6. d.s \in 1 .. 13
    <3>1. ASSUME NEW n \in 1 .. 3, Onward(c, d, p, q, sc, n) PROVE d.s = c.s + n
      BY <3>1 DEF Onward
    <3>2. Fails(c, d, p, q) \/ StaysPut(c, d, p, q, st) \/ LooksOn(c, d, p, q, st) => d.s = c.s
      BY DEF Fails, StaysPut, LooksOn
    <3>3. d.s = c.s \/ \E n \in 1 .. 3 : d.s = c.s + n
      BY <3>1, <3>2 DEF Goes
    <3> QED
      BY <1>1, <3>3
  <2> QED
    BY <2>2, <2>4, <2>5, <2>6, UploadBegins
<1>2. CASE c.s \in 11 .. 16
  <2>1. CASE c.s \in {12, 13} /\ c.missed
    <3>1. st.op = "action" /\ ~Shows(p, st.looks[1].e)
      <4>1. CASE c.s = 12
        <5>1. p.menu # "Upload" /\ st.op = "action" /\ st.looks[1].e = <<"link", "Start">>
          BY <2>1, <4>1, UploadSteps DEF UploadClaim
        <5> QED
          BY <5>1, ContentShown
      <4>2. CASE c.s = 13
        <5>1. p.dialog # "upload" /\ st.op = "action" /\ st.looks[1].e = <<"field", "file">>
          BY <2>1, <4>2, UploadSteps DEF UploadClaim, Untouched
        <5> QED
          BY <5>1, FieldsShown
      <4> QED
        BY <2>1, <4>1, <4>2
    <3>2. c.ref = "none" /\ ~c.elem
      BY <2>1 DEF UploadClaim
    <3>3. d.s = c.s /\ q = p /\ d.ref = "none" /\ ~d.elem
      BY <3>1, <3>2, NothingToAct
    <3>4. d.missed = c.missed
      <4>1. ASSUME NEW n \in 1 .. 3 PROVE ~Onward(c, d, p, q, sc, n)
        <5>1. Onward(c, d, p, q, sc, n) => d.s = c.s + n
          BY DEF Onward
        <5> QED
          BY <1>0, <3>3, <5>1
      <4>2. Fails(c, d, p, q) \/ StaysPut(c, d, p, q, st) \/ LooksOn(c, d, p, q, st) => d.missed = c.missed
        BY DEF Fails, StaysPut, LooksOn
      <4> QED
        BY <4>1, <4>2 DEF Goes
    <3> QED
      BY <3>3, <3>4, UploadStays
  <2>2. CASE ~(c.s \in {12, 13} /\ c.missed)
    <3>1. ASSUME NEW n \in 1 .. 3, Onward(c, d, p, q, sc, n) PROVE UploadClaim(d, q)
      <4>1. (c.missed => c.s # 11) /\ (c.s \in {12, 13} => ~c.missed)
        BY <1>0, <2>2
      <4> QED
        BY <1>0, <1>2, <3>1, <4>1, UploadOnward
    <3>2. ASSUME Fails(c, d, p, q) \/ StaysPut(c, d, p, q, st) \/ LooksOn(c, d, p, q, st) PROVE UploadClaim(d, q)
      <4>1. d.s = c.s /\ d.missed = c.missed /\ q = p
        BY <3>2 DEF Fails, StaysPut, LooksOn
      <4> QED
        BY <2>2, <4>1, UploadStays
    <3> QED
      BY <3>1, <3>2 DEF Goes
  <2> QED
    BY <2>1, <2>2
<1> QED
  BY <1>1, <1>2

\* a click is missed only where its being missed is noticed
Missed(t, c) ==
    /\ c.outcome = "passed" => ~c.missed
    /\ c.outcome = "running" /\ c.missed => \/ t = "virtual_machines" /\ c.s = 28
                                            \/ t = "disks" /\ c.s \in 12 .. 16

LEMMA VmMisses ==
    ASSUME NEW c \in Clients, NEW d \in Clients, NEW p, NEW q, NEW sc, sc = Script["virtual_machines"], c.s \in 1 .. 47,
           \A i \in 1 .. 47 : i # 27 => sc[i] \in Harmless,
           c.missed => c.s = 28, Goes(c, d, p, q, sc), VmClaim(c, p)
    PROVE  Missed("virtual_machines", d)
<1> DEFINE st == sc[c.s]
<1>0. {c.missed, d.missed} \subseteq BOOLEAN /\ Len(sc) = 47
  BY VmScript DEF Clients, VmShape
<1>1. ASSUME Fails(c, d, p, q) \/ StaysPut(c, d, p, q, st) \/ LooksOn(c, d, p, q, st) PROVE Missed("virtual_machines", d)
  <2>1. d.outcome = "failed" \/ (d.outcome = "running" /\ d.s = c.s /\ d.missed = c.missed)
    BY <1>1 DEF Fails, StaysPut, LooksOn
  <2> QED
    BY <2>1 DEF Missed
<1>2. ASSUME NEW n \in 1 .. 3, Onward(c, d, p, q, sc, n) PROVE Missed("virtual_machines", d)
  <2>1. CASE c.s = 27
    <3>1. st.op = "id_click"
      <4>1. sc[27] = Persistent("id_click", {"vms"}, <<"row", "vms">>)
        BY VmScript DEF VmShape
      <4> QED
        BY <2>1, <4>1 DEF Persistent, Step
    <3>2. n = 1
      BY <1>2, <3>1 DEF Onward
    <3>3. d.outcome = "running" /\ d.s = 28
      BY <1>0, <1>2, <2>1, <3>2 DEF Onward
    <3> QED
      BY <3>3 DEF Missed
  <2>2. CASE c.s = 28
    <3>1. st.op = "until" /\ Len(st.looks) = 1 /\ st.looks[1].k = "crumbs" /\ st.looks[1].e[2] = "vm"
      <4>1. sc[28] = Until({"vm"}, <<Look("crumbs", <<"page", "vm">>, TRUE)>>)
        BY VmScript DEF VmShape
      <4> QED
        BY <2>2, <4>1 DEF Until, Step, Look
    <3>2. Saw(st.looks[1], p)
      BY <1>2, <3>1 DEF Onward
    <3>3. p.crumbs = "vm"
      BY <3>1, <3>2 DEF Saw
    <3>4. ~c.missed
      BY <2>2, <3>3 DEF VmClaim, On
    <3>5. d.missed = c.missed
      BY <1>0, <2>2, HarmlessMisses
    <3> QED
      BY <3>4, <3>5 DEF Missed
  <2>3. CASE c.s \notin {27, 28}
    <3>1. ~c.missed /\ sc[c.s] \in Harmless
      BY <2>3
    <3>2. d.missed = c.missed
      BY <1>0, <3>1, HarmlessMisses
    <3> QED
      BY <3>1, <3>2 DEF Missed
  <2> QED
    BY <2>1, <2>2, <2>3
<1> QED
  BY <1>1, <1>2 DEF Goes

LEMMA DisksMisses ==
    ASSUME NEW c \in Clients, NEW d \in Clients, NEW p, NEW q, NEW sc, sc = Script["disks"], c.s \in 1 .. 16,
           c.missed => c.s \in 12 .. 16, Goes(c, d, p, q, sc), UploadClaim(c, p)
    PROVE  Missed("disks", d)
<1> DEFINE st == sc[c.s]
<1>0. {c.missed, d.missed} \subseteq BOOLEAN /\ Len(sc) = 16
  BY UploadSteps DEF Clients
<1>1. ASSUME Fails(c, d, p, q) \/ StaysPut(c, d, p, q, st) \/ LooksOn(c, d, p, q, st) PROVE Missed("disks", d)
  <2>1. d.outcome = "failed" \/ (d.outcome = "running" /\ d.s = c.s /\ d.missed = c.missed)
    BY <1>1 DEF Fails, StaysPut, LooksOn
  <2> QED
    BY <2>1 DEF Missed
<1>2. ASSUME NEW n \in 1 .. 3, Onward(c, d, p, q, sc, n) PROVE Missed("disks", d)
  <2>1. CASE c.s \in 1 .. 10
    <3>1. ~c.missed /\ sc[c.s] \in Harmless
      BY <2>1, UploadSteps
    <3>2. d.missed = c.missed
      BY <1>0, <3>1, HarmlessMisses
    <3> QED
      BY <3>1, <3>2 DEF Missed
  <2>2. CASE c.s \in 11 .. 15
    <3>1. sc[11].op = "id_click" /\ sc[12].op = "action" /\ sc[13].op = "action" /\ sc[14].op = "action" /\ sc[15].op = "wait_for_id"
      BY UploadSteps
    <3>2. st.op \notin {"start_vm", "if"}
      BY <2>2, <3>1
    <3>3. n = 1
      BY <1>2, <3>2 DEF Onward
    <3>4. d.outcome = "running" /\ d.s = c.s + 1
      BY <1>0, <1>2, <2>2, <3>3 DEF Onward
    <3> QED
      BY <2>2, <3>4 DEF Missed
  <2>3. CASE c.s = 16
    <3>1. st.op = "until" /\ Len(st.looks) = 1 /\ st.looks[1].k = "named"
      BY <2>3, UploadSteps
    <3>2. Saw(st.looks[1], p)
      BY <1>2, <3>1 DEF Onward
    <3>3. p.disk = "listed"
      BY <3>1, <3>2 DEF Saw
    <3>4. ~c.missed
      BY <2>3, <3>3 DEF UploadClaim
    <3>5. d.missed = c.missed
      <4>1. st.op \notin ClickOps
        BY <3>1 DEF ClickOps
      <4> QED
        BY <1>2, <4>1 DEF Onward
    <3> QED
      BY <3>4, <3>5 DEF Missed
  <2> QED
    BY <2>1, <2>2, <2>3
<1> QED
  BY <1>1, <1>2 DEF Goes

LEMMA OthersMiss ==
    ASSUME NEW t \in DOMAIN Script \ {"virtual_machines", "disks"}, NEW c \in Clients, NEW d \in Clients, NEW p, NEW q,
           c.s \in 1 .. Len(Script[t]), ~c.missed, Goes(c, d, p, q, Script[t])
    PROVE  Missed(t, d)
<1>1. Script[t][c.s] \in Harmless
  BY ScriptFacts DEF Perilous
<1>2. {c.missed, d.missed} \subseteq BOOLEAN
  BY DEF Clients
<1>3. d.missed = c.missed
  BY <1>1, <1>2, HarmlessMisses
<1> QED
  BY <1>3 DEF Missed

LEMMA DriverMisses == ASSUME UiType, RefInv, PageInv, UploadInv, MissInv, Driver PROVE MissInv'
<1> DEFINE t == plan[cl.t]
<1>1. Running /\ Moved /\ plan' = plan /\ page \in Pages
  BY DriverMoves DEF UiType
<1>2. ClientOk(cl, Script[t]) /\ t \in DOMAIN Script /\ TestScript = Script[t]
  BY <1>1, RunningFacts
<1>3. /\ cl \in Clients /\ cl' \in Clients /\ cl'.t = cl.t /\ Goes(cl, cl', page, page', Script[t])
      /\ cl.s \in 1 .. Len(Script[t])
  BY <1>1, <1>2 DEF Moved, ClientOk, Same
<1>4. PageClaim(t, cl, page) /\ Missed(t, cl) /\ cl.outcome = "running"
  BY <1>1 DEF PageInv, MissInv, Missed, Running
<1>5. t = "disks" => UploadClaim(cl, page)
  BY <1>1 DEF UploadInv, Opened, Running
<1>6. Missed(t, cl') => MissInv'
  BY <1>1, <1>3 DEF Missed, MissInv
<1> HIDE DEF t
<1>7. CASE t = "virtual_machines"
  <2>1. /\ \A i \in 1 .. 47 : i # 27 => Script[t][i] \in Harmless
        /\ Len(Script[t]) = 47
    BY <1>7, VmScript DEF VmShape
  <2>2. (cl.missed => cl.s = 28) /\ VmClaim(cl, page)
    BY <1>4, <1>7 DEF Missed, PageClaim
  <2> QED
    BY <1>3, <1>6, <1>7, <2>1, <2>2, VmMisses
<1>8. CASE t = "disks"
  <2>1. (cl.missed => cl.s \in 12 .. 16) /\ Len(Script[t]) = 16
    BY <1>4, <1>8, UploadSteps DEF Missed
  <2> QED
    BY <1>3, <1>5, <1>6, <1>8, <2>1, DisksMisses
<1>9. CASE t \notin {"virtual_machines", "disks"}
  <2>1. ~cl.missed
    BY <1>4, <1>9 DEF Missed
  <2> QED
    BY <1>2, <1>3, <1>6, <1>9, <2>1, OthersMiss
<1> QED
  BY <1>7, <1>8, <1>9

LEMMA DriverUploads == ASSUME UiType, RefInv, UploadInv, MissInv, Driver PROVE UploadInv'
<1> DEFINE t == plan[cl.t]
<1>1. Running /\ Moved /\ plan' = plan /\ page \in Pages
  BY DriverMoves DEF UiType
<1>2. ClientOk(cl, Script[t]) /\ t \in DOMAIN Script /\ TestScript = Script[t]
  BY <1>1, RunningFacts
<1>3. /\ cl \in Clients /\ cl' \in Clients /\ cl'.t = cl.t /\ Goes(cl, cl', page, page', Script[t])
      /\ cl.s \in 1 .. Len(Script[t])
  BY <1>1, <1>2 DEF Moved, ClientOk, Same
<1>4. Opened /\ Missed(t, cl) /\ cl.outcome = "running"
  BY <1>1 DEF MissInv, Missed, Running, Opened
<1>5. Before("disks")' = Before("disks")
  BY <1>1, <1>3 DEF Before
<1>6. ASSUME Before("disks") PROVE Untouched(page') /\ page'.menu # "Upload"
  <2>1. cl.t \in 1 .. cl.t
    BY PlanFacts DEF UiType
  <2>2. t # "disks"
    BY <1>6, <2>1 DEF Before
  <2>3. Tame(Script[t][cl.s])
    <3>1. CASE cl.s \notin Perilous(t)
      <4>1. Script[t][cl.s] \in Harmless
        BY <1>2, <1>3, <3>1, ScriptFacts
      <4> QED
        BY <4>1, HarmlessIsTame
    <3>2. CASE cl.s \in Perilous(t)
      <4>1. t = "virtual_machines" /\ cl.s = 27
        BY <2>2, <3>2 DEF Perilous
      <4>2. Script[t][cl.s] = Persistent("id_click", {"vms"}, <<"row", "vms">>)
        BY <4>1, VmScript DEF VmShape
      <4>3. Script[t][cl.s] \in Steps
        BY <1>2, <1>3, ScriptFacts
      <4>4. Script[t][cl.s].looks[1].e = <<"row", "vms">>
        BY <4>2 DEF Persistent, Step, Look
      <4>5. Script[t][cl.s].op \in ClickOps => Script[t][cl.s].looks[1].e \in Targets
        <5> DEFINE st == Script[t][cl.s]
        <5>1. st \in Steps
          BY <4>3
        <5> HIDE DEF st
        <5>2. st.op \in ClickOps => Len(st.looks) = 1 /\ st.looks \in Seq(Looks)
          BY <5>1 DEF Steps
        <5>3. st.op \in ClickOps => st.looks[1] \in Looks
          BY <5>2
        <5>4. st.op \in ClickOps => st.looks[1].e \in Targets
          BY <5>3 DEF Looks
        <5> QED
          BY <5>4 DEF st
      <4>6. <<"row", "vms">> \in Targets => <<"row", "vms">> \in SafeTargets
        BY DEF SafeTargets
      <4> QED
        BY <4>3, <4>4, <4>5, <4>6 DEF Tame
    <3> QED
      BY <3>1, <3>2
  <2>4. Untouched(page) /\ page.menu # "Upload"
    BY <1>4, <1>6 DEF UploadInv
  <2> QED
    BY <1>1, <1>3, <2>3, <2>4, TameLeaves
<1>7. ASSUME t = "disks", cl'.outcome = "running" PROVE UploadClaim(cl', page')
  <2>1. (cl.missed => cl.s \in 12 .. 16) /\ Len(Script[t]) = 16 /\ UploadClaim(cl, page)
    BY <1>4, <1>7, UploadSteps DEF Missed, UploadInv
  <2> QED
    BY <1>1, <1>3, <1>7, <2>1, UploadGoesOn
<1> QED
  BY <1>1, <1>3, <1>5, <1>6, <1>7 DEF UploadInv

LEMMA UploadHolds ==
    ASSUME NEW c, NEW d, NEW p, NEW q, AppMove(p, q), Keeps(c, d), UploadClaim(c, p)
    PROVE  UploadClaim(d, q)
<1>1. d.s = c.s /\ d.missed = c.missed /\ d.elem = c.elem /\ (c.ref = "none" => d.ref = "none")
  BY DEF Keeps
<1>2. /\ q.form = p.form /\ q.menu = p.menu /\ (p.disk = "none" => q.disk = "none")
      /\ Untouched(p) => Untouched(q)
  BY DEF AppMove, Untouched
<1> QED
  BY <1>1, <1>2 DEF UploadClaim

LEMMA ApplicationUploads == ASSUME UiType, RefInv, UploadInv, Application PROVE UploadInv'
<1>1. AppMove(page, page') /\ Keeps(cl, cl') /\ Running /\ plan' = plan
  BY ApplicationKeepsType DEF AppKeeps
<1>2. cl'.t = cl.t /\ cl'.outcome = cl.outcome /\ Opened
  BY <1>1 DEF Keeps, Same, Running, Opened
<1>3. Untouched(page) /\ page.menu # "Upload" => Untouched(page') /\ page'.menu # "Upload"
  BY <1>1 DEF AppMove, Untouched
<1>4. UploadClaim(cl, page) => UploadClaim(cl', page')
  BY <1>1, UploadHolds
<1>5. Before("disks")' = Before("disks")
  BY <1>1, <1>2 DEF Before
<1> QED
  BY <1>1, <1>2, <1>3, <1>4, <1>5 DEF UploadInv

\* the first step of a test, on a page the test of the disks has not been at
LEMMA FreshTest ==
    ASSUME NEW b \in Nat, NEW t \in Nat, cl' = ClientAt(b, t)
    PROVE  /\ MissInv'
           /\ (Before("disks")' \/ plan'[t] = "disks" => Untouched(page') /\ page'.menu # "Upload") => UploadInv'
<1>1. cl'.t = t /\ cl'.s = 1 /\ ~cl'.missed /\ cl'.outcome = "running"
  BY ClientAtIs
<1>2. MissInv'
  BY <1>1 DEF MissInv
<1>3. Untouched(page') /\ page'.menu # "Upload" => UploadClaim(cl', page')
  BY <1>1, UploadBegins
<1> QED
  BY <1>1, <1>2, <1>3 DEF UploadInv

LEMMA NextTestKeepsUpload == ASSUME UiType, UploadInv, NextTest PROVE UploadInv' /\ MissInv'
<1>1. /\ plan' = plan /\ page' = page /\ gpc' = gpc /\ gpc = "up" /\ cl.b \in Nat /\ cl.t \in Nat /\ cl.t \in 1 .. Len(plan)
      /\ plan \in Plans
  BY DEF NextTest, UiType, Clients, gridVars
<1>2. Len(plan) \in Nat /\ \A i, j \in 1 .. Len(plan) : plan[i] = plan[j] => i = j
  BY <1>1, PlanFacts
<1>3. CASE cl.t < Len(plan)
  <2> DEFINE t == cl.t + 1
  <2>1. cl' = ClientAt(cl.b, t) /\ browser' = browser /\ t \in Nat
    BY <1>1, <1>3 DEF NextTest
  <2>2. t \in 1 .. Len(plan) /\ 1 .. cl.t \subseteq 1 .. t /\ t \notin 1 .. cl.t /\ 1 .. cl.t \subseteq 1 .. Len(plan)
    BY <1>1, <1>2, <1>3
  <2> HIDE DEF t
  <2>3. cl'.t = t /\ cl.b \in Nat
    BY <1>1, <2>1, ClientAtIs
  <2>4. Before("disks")' \/ plan'[t] = "disks" => Before("disks")
    <3>1. Before("disks")' => \A i \in 1 .. t : plan[i] # "disks"
      BY <1>1, <2>3 DEF Before
    <3>2. plan[t] = "disks" => \A i \in 1 .. cl.t : plan[i] # "disks"
      BY <1>2, <2>2
    <3> QED
      BY <1>1, <2>2, <3>1, <3>2 DEF Before
  <2>5. CASE browser = "open"
    <3>1. Before("disks") => Untouched(page) /\ page.menu # "Upload"
      BY <1>1, <2>5 DEF UploadInv, Opened
    <3>2. Before("disks")' \/ plan'[t] = "disks" => Untouched(page') /\ page'.menu # "Upload"
      BY <1>1, <2>4, <3>1
    <3> QED
      BY <1>1, <2>1, <3>2, FreshTest
  <2>6. CASE browser # "open"
    <3>1. ~Opened'
      BY <2>1, <2>6 DEF Opened
    <3> QED
      BY <1>1, <2>1, <3>1, FreshTest DEF UploadInv
  <2> QED
    BY <2>5, <2>6
<1>4. CASE ~(cl.t < Len(plan))
  <2> DEFINE b == cl.b + 1
             t == 1
  <2>1. cl' = ClientAt(b, t) /\ browser' = "none" /\ b \in Nat /\ t \in Nat
    BY <1>1, <1>4 DEF NextTest
  <2> HIDE DEF b, t
  <2>2. ~Opened'
    BY <2>1 DEF Opened
  <2> QED
    BY <2>1, <2>2, FreshTest DEF UploadInv
<1> QED
  BY <1>3, <1>4

LEMMA StepKeepsUpload ==
    ASSUME UiType, RefInv, PageInv, UploadInv, MissInv, [Next]_vars
    PROVE  UploadInv' /\ MissInv'
<1>1. CASE Driver
  BY <1>1, DriverUploads, DriverMisses
<1>2. CASE Application
  <2>1. Keeps(cl, cl') /\ plan' = plan
    BY <1>2, ApplicationKeepsType DEF AppKeeps
  <2>2. MissInv'
    BY <2>1 DEF MissInv, Keeps, Same
  <2> QED
    BY <1>2, <2>2, ApplicationUploads
<1>3. CASE OpenBrowser
  <2>1. cl' = cl /\ cl = ClientAt(cl.b, 1) /\ cl.b \in Nat /\ page' = NewPage /\ 1 \in Nat
    BY <1>3, Bounds DEF OpenBrowser, UiType
  <2>2. cl' = ClientAt(cl.b, 1) /\ Untouched(page') /\ page'.menu # "Upload"
    BY <2>1, NewPageIs
  <2> QED
    BY <2>1, <2>2, FreshTest
<1>4. CASE NextTest
  BY <1>4, NextTestKeepsUpload
<1>5. CASE UNCHANGED <<browser, cl, plan, page>> /\ (gpc' = gpc \/ browser = "none")
  <2>1. Opened' => Opened
    BY <1>5 DEF Opened
  <2>2. Before("disks")' = Before("disks")
    BY <1>5 DEF Before
  <2> QED
    BY <1>5, <2>1, <2>2 DEF UploadInv, MissInv
<1>6. Application \/ Driver \/ OpenBrowser \/ NextTest \/ (UNCHANGED <<browser, cl, plan, page>> /\ (gpc' = gpc \/ browser = "none"))
  BY GridEndsAtServing DEF Next, Client, vars, ui, Terminated, TearDownGrid, UiType, gridVars, Containers, control
<1> QED
  BY <1>1, <1>2, <1>3, <1>4, <1>5, <1>6

-----------------------------------------------------------------------------
(* The invariant of the session, and what it is for.                        *)

LEMMA SessionInitially == ASSUME Init PROVE IInv
<1>1. GridInv
  BY GridInitially DEF Init
<1>2. UiType /\ RefInv
  BY TypeInitially
<1>3. browser = "none" /\ cl = ClientAt(1, 1) /\ 1 \in Nat
  BY DEF Init
<1>4. ~Running /\ ~Opened
  BY <1>3 DEF Running, Opened
<1>5. MissInv
  BY <1>3, ClientAtIs DEF MissInv
<1> QED
  BY <1>1, <1>2, <1>4, <1>5 DEF IInv, UiInv, PageInv, UploadInv

LEMMA StepKeepsSession == ASSUME IInv, [Next]_vars PROVE IInv'
<1>1. GridInv'
  BY StepKeepsGrid DEF IInv
<1>2. UiType' /\ RefInv'
  BY StepKeepsType DEF IInv, UiInv
<1>3. PageInv'
  BY StepKeepsPage DEF IInv, UiInv
<1>4. UploadInv' /\ MissInv'
  BY StepKeepsUpload DEF IInv, UiInv
<1> QED
  BY <1>1, <1>2, <1>3, <1>4 DEF IInv, UiInv

\* The driver is inside a frame only while execute_in_frame runs, and holds elements only
\* for the step that found them; its retries and waits stay within DRIVER_MAX_RETRIES and
\* the timeouts (ost_utils.selenium.navigation.driver).
THEOREM SessionTyped == Spec => []TypeOK
<1>1. Init => IInv
  BY SessionInitially
<1>2. IInv /\ [Next]_vars => IInv'
  BY StepKeepsSession
<1>3. IInv => TypeOK
  BY TypesAreOk DEF IInv, UiInv
<1> QED
  BY <1>1, <1>2, <1>3, PTL DEF Spec

\* Whatever the application renders between two commands of the driver, and whatever the
\* tests before have left open, a test reads a page only when it has settled, but for the
\* two races of the breadcrumbs (is_displayed and the waits of ost_utils.selenium.page_objects).
THEOREM SettledWhenRead == Spec => []AssertsOnSettledPage
<1>1. Init => IInv
  BY SessionInitially
<1>2. IInv /\ [Next]_vars => IInv'
  BY StepKeepsSession
<1>3. IInv => AssertsOnSettledPage
  BY PagesAreSettled DEF IInv, UiInv
<1> QED
  BY <1>1, <1>2, <1>3, PTL DEF Spec

\* id_click and action_on_element give up in silence, and yet no test passes that missed a
\* click: the wait after it sees that nothing has come of it (ost_utils.selenium.navigation.driver,
\* DisksListView and VmListView as test_100_basic_ui_sanity uses them).
THEOREM MissesAreNoticed == Spec => []NoSilentPass
<1>1. Init => IInv
  BY SessionInitially
<1>2. IInv /\ [Next]_vars => IInv'
  BY StepKeepsSession
<1>3. IInv => NoSilentPass
  BY DEF IInv, UiInv, MissInv, NoSilentPass
<1> QED
  BY <1>1, <1>2, <1>3, PTL DEF Spec
=============================================================================
