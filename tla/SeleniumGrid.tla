---------------------------- MODULE SeleniumGrid ----------------------------
(***************************************************************************)
(* The grid of browser containers: ost_utils.selenium.grid, with podman    *)
(* and with docker.  The nested context managers are a program counter     *)
(* gpc that enters them and unwinds, and err, the exception on its way     *)
(* out.  With podman a generator retries the whole grid around its yield.  *)
(*                                                                         *)
(* "pod" stands for docker's network too.  The container backend, which    *)
(* may refuse a command, and the containers, which come up and die, are    *)
(* the environment.                                                        *)
(***************************************************************************)
EXTENDS Integers, FiniteSets

CONSTANTS GridRetries,   \* GRID_STARTUP_RETRIES, 3
          GridPolls,     \* GRID_STARTUP_WAIT_RETRIES
          MaxFaults      \* commands refused, containers lost and, in the browser, disturbances

ASSUME GridAssumption == /\ {GridRetries, GridPolls} \subseteq Nat \ {0}
                         /\ MaxFaults \in Nat

VARIABLES backend,       \* "podman" or "docker"
          gpc, err, attempt, polls,
          live,          \* containers that exist: <<kind, attempt>>
          up,            \* of these, the ones that answer
          dead,          \* of these, the ones that died
          served,        \* "none", "serving", "over", "twice" yielded
          proxy, saved,  \* http_proxy, and old_proxy of the grid that is up
          refused,       \* kinds of containers that could not be started
          rmFailed,      \* kinds whose removal was refused
          faults

gridVars == <<backend, gpc, err, attempt, polls, live, up, dead, served, proxy, saved, refused, rmFailed, faults>>
control == <<gpc, err, attempt, polls>>
containers == <<live, up, dead>>

Nodes == {"chrome", "firefox"}
Kinds == {"pod", "hub"} \cup Nodes
This(kind) == <<kind, attempt>>
Registered == {n \in Nodes : {This(n), This("hub")} \subseteq up}
GridEnded == gpc \in {"done", "failed", "left"}
Fault == faults < MaxFaults /\ faults' = faults + 1

-----------------------------------------------------------------------------
(* The containers.                                                          *)

ContainerUp(c) ==
    /\ c \in live \ (up \cup dead) /\ c[1] # "pod"
    /\ c[1] \in Nodes => <<"hub", c[2]>> \in up
    /\ up' = up \cup {c}
    /\ UNCHANGED <<live, dead, faults>>
ContainerDies(c) ==
    /\ c \in live \ dead /\ c[1] # "pod"
    /\ Fault
    /\ up' = up \ {c} /\ dead' = dead \cup {c}
    /\ UNCHANGED live
Containers ==
    /\ \E c \in live : ContainerUp(c) \/ ContainerDies(c)
    /\ UNCHANGED <<control, backend, served, proxy, saved, refused, rmFailed>>

-----------------------------------------------------------------------------
(* Entering.                                                                *)

Goto(where) == gpc' = where
Raise(what, where) == err' = what /\ gpc' = where

\* find_free_port, then a new attempt; RuntimeError is not retried
FindPort ==
    /\ gpc = "port"
    /\ \/ Goto("proxy_off") /\ UNCHANGED <<err, faults>>
       \/ Fault /\ Raise("other", "failed")
    /\ UNCHANGED <<attempt, polls, containers, backend, served, proxy, saved, refused, rmFailed>>

ProxyOff ==
    /\ gpc = "proxy_off"
    /\ saved' = proxy /\ proxy' = "empty"
    /\ Goto("pod")
    /\ UNCHANGED <<err, attempt, polls, containers, backend, served, refused, rmFailed, faults>>

AfterRun(kind) == CASE kind = "pod" -> "hub" [] kind = "hub" -> "chrome"
                    [] kind = "chrome" -> "firefox" [] OTHER -> "ready"
\* a node that fails to start is in no list yet: the try begins after the loop over the images
UnwindPastPodMut(kind) == IF kind \in {"pod", "hub"} THEN "proxy_on" ELSE "rm_hub"
Unwind(kind) == CASE kind = "pod" -> "proxy_on" [] kind = "hub" -> "rm_pod" [] OTHER -> "rm_hub"
StartContainer(kind) ==
    /\ gpc = kind
    /\ \/ /\ live' = live \cup {This(kind)}
          /\ Goto(AfterRun(kind)) /\ polls' = 0
          /\ UNCHANGED <<err, faults>>
       \/ /\ Fault                                  \* a refused run may leave a container that never started
          /\ \/ live' = live
             \/ kind # "pod" /\ live' = live \cup {This(kind)}
          /\ Raise("shell", Unwind(kind)) /\ UNCHANGED polls
       \/ /\ backend = "docker" /\ kind = "hub"     \* _get_ip finds no address
          /\ Fault
          /\ live' = live \cup {This(kind)}
          /\ Raise("other", "rm_hub") /\ UNCHANGED polls
    /\ refused' = refused \cup IF err' = "shell" THEN {kind} ELSE {}
    /\ dead' = dead \cup IF err' = "shell" THEN live' \ live ELSE {}
    /\ UNCHANGED <<attempt, up, backend, served, proxy, saved, rmFailed>>

\* docker's grid waits for RuntimeError, which grid_health_check does not raise
Unhealthy == Raise("grid", IF backend = "podman" THEN "log" ELSE "rm_chrome")
\* one look of grid_health_check: fine, not yet (or no answer), or an answer that is no JSON
Polled(fine, next) ==
    \/ /\ fine
       /\ Goto(next) /\ polls' = 0 /\ UNCHANGED <<err, faults>>
    \/ /\ ~fine /\ polls + 1 < GridPolls
       /\ polls' = polls + 1 /\ UNCHANGED <<gpc, err, faults>>
    \/ /\ ~fine /\ polls + 1 = GridPolls
       /\ Unhealthy /\ UNCHANGED <<polls, faults>>
    \/ /\ ~fine /\ Fault
       /\ Raise("other", "rm_chrome") /\ UNCHANGED polls
PollReady ==
    /\ gpc = "ready"
    /\ Polled(This("hub") \in up, "count")
    /\ UNCHANGED <<attempt, containers, backend, served, proxy, saved, refused, rmFailed>>
PollCount ==
    /\ gpc = "count"
    /\ Polled(Registered = Nodes, "serve")
    /\ UNCHANGED <<attempt, containers, backend, served, proxy, saved, refused, rmFailed>>

LogIssues ==
    /\ gpc = "log"
    /\ \/ Goto("rm_chrome") /\ UNCHANGED <<err, faults>>
       \/ Fault /\ Raise("shell", "rm_chrome")
    /\ UNCHANGED <<attempt, polls, containers, backend, served, proxy, saved, refused, rmFailed>>

\* the yield; a second one makes contextlib raise, and leaves the generator suspended
ServeGrid ==
    /\ gpc = "serve"
    /\ IF served = "none" THEN served' = "serving" /\ Goto("up")
                          ELSE served' = "twice" /\ Goto("suspended")
    /\ UNCHANGED <<err, attempt, polls, containers, backend, proxy, saved, refused, rmFailed, faults>>

\* the fixture is torn down
LeaveGrid ==
    /\ gpc = "up"
    /\ served' = "over"
    /\ Goto("rm_chrome")
    /\ UNCHANGED <<err, attempt, polls, containers, backend, proxy, saved, refused, rmFailed, faults>>

\* a generator nobody resumes is closed when it is collected, or the process ends first
CollectGrid ==
    /\ gpc = "suspended"
    /\ \/ Raise("exit", "rm_chrome")
       \/ Goto("left") /\ UNCHANGED err
    /\ UNCHANGED <<attempt, polls, containers, backend, served, proxy, saved, refused, rmFailed, faults>>

-----------------------------------------------------------------------------
(* Unwinding: the finally clauses.                                          *)

Removals == [rm_chrome |-> "chrome", rm_firefox |-> "firefox", rm_hub |-> "hub", rm_pod |-> "pod"]
AfterRm(kind) == CASE kind = "chrome" -> "rm_firefox" [] kind = "firefox" -> "rm_hub"
                   [] kind = "hub" -> "rm_pod" [] OTHER -> "proxy_on"
\* the loop over the nodes ends with the first that cannot be removed
AfterFailedRm(kind) == IF kind = "chrome" THEN "rm_hub" ELSE AfterRm(kind)

\* removing a pod removes what runs in it; a network in use cannot be removed
Removed(kind) == IF kind = "pod" /\ backend = "podman" THEN {c \in live : c[2] = attempt} ELSE {This(kind)}
InUse(kind) == kind = "pod" /\ backend = "docker" /\ live # {This("pod")}

RemoveContainer(pc) ==
    LET kind == Removals[pc] IN
    /\ gpc = pc
    /\ \/ /\ ~InUse(kind)
          /\ live' = live \ Removed(kind) /\ up' = up \ Removed(kind) /\ dead' = dead \ Removed(kind)
          /\ Goto(AfterRm(kind))
          /\ UNCHANGED <<err, rmFailed, faults>>
       \/ /\ \/ InUse(kind) /\ UNCHANGED <<rmFailed, faults>>
             \/ ~InUse(kind) /\ Fault /\ rmFailed' = rmFailed \cup {kind}
          /\ Raise("shell", AfterFailedRm(kind))
          /\ UNCHANGED containers
    /\ UNCHANGED <<attempt, polls, backend, served, proxy, saved, refused>>

RestoreProxy == proxy' = IF saved = "unset" THEN proxy ELSE saved
ProxyOn ==
    /\ gpc = "proxy_on"
    /\ RestoreProxy
    /\ Goto("caught")
    /\ UNCHANGED <<err, attempt, polls, containers, backend, served, saved, refused, rmFailed, faults>>

\* podman's retries; docker has none
Retried == backend = "podman" /\ err \in {"grid", "shell"} /\ attempt < GridRetries - 1
CaughtGrid ==
    /\ gpc = "caught"
    /\ IF Retried THEN /\ attempt' = attempt + 1
                       /\ Raise("none", "port")
                  ELSE /\ Goto(IF err \in {"none", "exit"} THEN "done" ELSE "failed")
                       /\ UNCHANGED <<err, attempt>>
    /\ UNCHANGED <<polls, containers, backend, served, proxy, saved, refused, rmFailed, faults>>

Grid == FindPort \/ ProxyOff \/ (\E kind \in Kinds : StartContainer(kind)) \/ PollReady \/ PollCount \/ LogIssues
        \/ ServeGrid \/ CollectGrid \/ (\E pc \in DOMAIN Removals : RemoveContainer(pc)) \/ ProxyOn \/ CaughtGrid

GridInit ==
    /\ backend \in {"podman", "docker"}
    /\ gpc = IF backend = "podman" THEN "port" ELSE "proxy_off"
    /\ err = "none" /\ attempt = 0 /\ polls = 0
    /\ live = {} /\ up = {} /\ dead = {}
    /\ served = "none" /\ proxy \in {"unset", "set"} /\ saved = "unset"
    /\ refused = {} /\ rmFailed = {} /\ faults = 0
=============================================================================
