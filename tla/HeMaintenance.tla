---------------------------- MODULE HeMaintenance ----------------------------
(***************************************************************************)
(* The hosted engine suite after its deployment: global maintenance, the   *)
(* restart of the engine VM, local maintenance by command and through the  *)
(* engine, with the waits of ost_utils.he_utils, while the HA agent of     *)
(* each host reads the flag, publishes what it sees and acts on its own.   *)
(*                                                                         *)
(* A test sees only what agents have published; an agent acts on the flag  *)
(* it read in its last cycle.  pytest runs with -x: the first failure ends *)
(* the session.  The agents, hosted-engine and the engine are external.    *)
(***************************************************************************)
EXTENDS Naturals, Sequences

CONSTANTS Hosts,       \* with the HA agent on them
          Host0,       \* ansible_host0, through which most of the status is read
          MaxPolls,    \* looks that a timeout leaves room for
          MaxFaults    \* commands refused, migrations the agents think of, crashes

None == "none"

ASSUME HeAssumption == /\ Host0 \in Hosts /\ None \notin Hosts
                       /\ MaxPolls \in Nat \ {0} /\ MaxFaults \in Nat

VARIABLES flag,        \* global maintenance, in the shared storage
          on, vm,      \* the host of the engine VM and its status
          moving,      \* the host it is migrating to
          agent,       \* "off", "starting", "init", "normal", "global": services and agent of a host
          local,       \* hosts in local maintenance
          pub,         \* what each agent last published
          status,      \* of each host in the engine: "up", "leaving", "maintenance"
          booted,      \* who started the VM after the test had shut it down
          faults

VARIABLES pc, polls, reads,   \* the step, its looks, and failed reads inside one look
          target              \* the host a test has found

world == <<flag, on, vm, moving, agent, local, status, booted>>
test == <<pc, polls, reads, target>>
vars == <<world, pub, faults, test>>

Fault == faults < MaxFaults /\ faults' = faults + 1

\* The steps of the tests, in the order in which they run.
Steps == <<"settled_1", "set", "set_read", "all_global",
           "find", "shutdown", "down", "stop", "start", "ready", "vm_start", "vm_up", "health",
           "settled_2", "clear", "clear_read", "none_global",
           "settled_3", "find_other", "local_on", "local_off",
           "settled_4", "where", "deactivate", "activate", "score", "moved", "passed">>
IndexOf(s) == CHOOSE i \in 1..Len(Steps) : Steps[i] = s
Past(s) == pc # "failed" /\ IndexOf(pc) > IndexOf(s)
Ended == pc \in {"passed", "failed"}

-----------------------------------------------------------------------------
(* The hosts.                                                               *)

\* what it publishes of the VM is neither up nor down when vdsm did not answer it
Published(h, answered) ==
                [vm |-> IF ~answered THEN "unknown" ELSE IF on = h /\ vm # "down" THEN "up" ELSE "down",
                 good |-> answered /\ on = h /\ vm = "healthy",
                 migrating |-> moving # None /\ (on = h \/ moving = h),
                 global |-> flag,
                 score |-> h \notin local]

\* One cycle of the agent: it reads the flag and publishes.
AgentCycle(h) ==
    /\ agent[h] \in {"init", "normal", "global"}
    /\ agent' = [agent EXCEPT ![h] = IF flag THEN "global" ELSE "normal"]
    /\ \/ pub' = [pub EXCEPT ![h] = Published(h, TRUE)] /\ UNCHANGED faults
       \/ pub' = [pub EXCEPT ![h] = Published(h, FALSE)] /\ Fault
    /\ UNCHANGED <<flag, on, vm, moving, local, status, booted>>

AgentReady(h) ==
    /\ agent[h] = "starting"
    /\ agent' = [agent EXCEPT ![h] = "init"]
    /\ UNCHANGED <<flag, on, vm, moving, local, status, booted, pub, faults>>

AgentRestarts(h) ==
    /\ agent[h] \in {"init", "normal", "global"} /\ Fault
    /\ agent' = [agent EXCEPT ![h] = "starting"]
    /\ UNCHANGED <<flag, on, vm, moving, local, status, booted, pub>>

\* Outside global maintenance an agent starts an engine VM that is down, and moves it away
\* from a host in maintenance, or to a better one.
AgentStartsVm(h) ==
    /\ agent[h] = "normal" /\ h \notin local /\ on = None
    /\ on' = h /\ vm' = "booting" /\ booted' = booted \cup {"agent"}
    /\ UNCHANGED <<flag, moving, agent, local, status, pub, faults>>
AgentMigrates(h, g) ==
    /\ agent[h] = "normal" /\ on = h /\ vm = "healthy" /\ moving = None
    /\ g # h /\ agent[g] \notin {"off", "starting"} /\ g \notin local
    /\ IF h \in local \/ status[h] = "leaving" THEN UNCHANGED faults ELSE Fault
    /\ moving' = g
    /\ UNCHANGED <<flag, on, vm, agent, local, status, booted, pub>>

VmChanges ==
    /\ \/ /\ moving # None /\ on' \in {on, moving} /\ moving' = None
          /\ UNCHANGED <<vm, faults>>
       \/ /\ vm = "booting" /\ vm' = "healthy"
          /\ UNCHANGED <<on, moving, faults>>
       \/ /\ vm = "stopping" /\ vm' = "down" /\ on' = None
          /\ UNCHANGED <<moving, faults>>
       \/ /\ vm \in {"booting", "healthy"} /\ moving = None /\ Fault
          /\ vm' = "down" /\ on' = None
          /\ UNCHANGED moving
    /\ UNCHANGED <<flag, agent, local, status, booted, pub>>

\* The engine, for the host it is to put into maintenance.
HostChanges(h) ==
    /\ status[h] = "leaving" /\ on # h
    /\ status' = [status EXCEPT ![h] = "maintenance"]
    /\ UNCHANGED <<flag, on, vm, moving, agent, local, booted, pub, faults>>

World ==
    /\ ~Ended
    /\ \/ \E h \in Hosts : \/ AgentCycle(h) \/ AgentReady(h) \/ AgentRestarts(h)
                        \/ AgentStartsVm(h) \/ HostChanges(h)
       \/ \E h, g \in Hosts : AgentMigrates(h, g)
       \/ VmChanges
    /\ UNCHANGED test

-----------------------------------------------------------------------------
(* Going on.                                                                *)

Goto(s) == pc' = s /\ polls' = 0 /\ reads' = 0
Onward == Goto(Steps[IndexOf(pc) + 1])
Fail == Goto("failed")
\* assert_true_within: sleep and look again, until the timer has elapsed
Again(s) == IF polls + 1 < MaxPolls THEN pc' = s /\ polls' = polls + 1 /\ reads' = 0 ELSE Fail
AssertTrueWithin(result) == IF result THEN Onward ELSE Again(pc)

\* A command through ansible: one that fails raises, and no wait allows that.
Command(possible, effect) ==
    \/ possible /\ effect /\ Onward /\ UNCHANGED faults
    \/ ~possible /\ Fail /\ UNCHANGED <<world, faults>>
    \/ Fault /\ Fail /\ UNCHANGED world

-----------------------------------------------------------------------------
(* he_utils                                                                 *)

\* The host on which the status is asked for: its services must run.
Asked == IF pc \in {"down", "ready", "vm_up", "health"} THEN target ELSE Host0
Answers(h) == agent[h] \notin {"off", "starting"}

EngineVmIsMigrating == \E h \in Hosts : pub[h].migrating
EngineVmIsUp == \E h \in Hosts : pub[h].vm = "up"
EngineVmIsDown == \A h \in Hosts : pub[h].vm = "down"
AllHostsSomeGlobalMut == \E h \in Hosts : pub[h].global
AllHostsStateGlobalMaintenance == \A h \in Hosts : pub[h].global
NoHostsNotAllMut == \E h \in Hosts : ~pub[h].global
NoHostsStateGlobalMaintenance == \A h \in Hosts : ~pub[h].global

\* he_status is a wait of its own around the command: while it raises, it is repeated
StatusForeverMut(judged) ==
    \/ Answers(Asked) /\ judged /\ UNCHANGED faults
    \/ ~Answers(Asked) /\ UNCHANGED <<pc, polls, reads, faults>>
HeStatus(judged) ==
    \/ Answers(Asked) /\ judged /\ UNCHANGED faults
    \/ /\ IF Answers(Asked) THEN Fault ELSE UNCHANGED faults
       /\ IF reads + 1 < MaxPolls THEN reads' = reads + 1 /\ UNCHANGED <<pc, polls>> ELSE Fail

Judgement ==
    CASE pc \in {"settled_1", "settled_2", "settled_3", "settled_4"} -> ~EngineVmIsMigrating
      [] pc = "all_global" -> AllHostsStateGlobalMaintenance
      [] pc = "down" -> EngineVmIsDown
      [] pc = "vm_up" -> EngineVmIsUp
      [] pc = "health" -> \E h \in Hosts : pub[h].good
      [] OTHER -> NoHostsStateGlobalMaintenance
WaitForStatus ==
    /\ pc \in {"settled_1", "settled_2", "settled_3", "settled_4", "all_global", "none_global",
               "down", "vm_up", "health"}
    /\ HeStatus(AssertTrueWithin(Judgement))
    /\ UNCHANGED <<world, pub, target>>

\* set_and_test_global_maintenance_mode: the command is at times ignored
SetMaintenanceMode(mode) ==
    /\ pc = IF mode THEN "set" ELSE "clear"
    /\ \/ flag' \in {flag, mode} /\ pc' = Steps[IndexOf(pc) + 1] /\ reads' = 0 /\ UNCHANGED <<polls, faults>>
       \/ Fault /\ Fail /\ UNCHANGED flag
    /\ UNCHANGED <<on, vm, moving, agent, local, status, booted, pub, target>>
TestMaintenanceMode(mode) ==
    /\ pc = IF mode THEN "set_read" ELSE "clear_read"
    /\ HeStatus(IF flag = mode THEN Onward ELSE Again(IF mode THEN "set" ELSE "clear"))
    /\ UNCHANGED <<world, pub, target>>

-----------------------------------------------------------------------------
(* test_restart_he_vm                                                       *)

\* host_name_running_he_vm, host_names_not_running_he_vm: RuntimeError if there is none
Find(found) == IF \E h \in Hosts : found[h] THEN Onward /\ \E h \in Hosts : found[h] /\ target' = h
                                            ELSE Fail /\ UNCHANGED target
FindHost ==
    /\ pc \in {"find", "find_other"}
    /\ \/ HeStatus(FALSE) /\ UNCHANGED target
       \/ Answers(Asked) /\ UNCHANGED faults /\ Find([h \in Hosts |-> pub[h].vm = "up" <=> pc = "find"])
    /\ UNCHANGED <<world, pub>>

ShutdownHeVm ==
    /\ pc = "shutdown"
    /\ Command(on = target /\ vm # "down" /\ moving = None,
               /\ vm' = "stopping" /\ booted' = {}
               /\ UNCHANGED <<flag, on, moving, agent, local, status>>)
    /\ UNCHANGED <<pub, target>>

Systemctl(state) == Command(TRUE, /\ agent' = [agent EXCEPT ![target] = state]
                                  /\ UNCHANGED <<flag, on, vm, moving, local, status, booted>>)
StopServices == pc = "stop" /\ Systemctl("off") /\ UNCHANGED <<pub, target>>
StartServices == pc = "start" /\ Systemctl("starting") /\ UNCHANGED <<pub, target>>
\* _ha_agent_is_ready
WaitForAgent ==
    /\ pc = "ready"
    /\ AssertTrueWithin(Answers(target))
    /\ UNCHANGED <<world, pub, target, faults>>

\* the lock of the VM's disk keeps a second one from starting
StartHeVm ==
    /\ pc = "vm_start"
    /\ Command(on = None, /\ on' = target /\ vm' = "booting" /\ booted' = booted \cup {"test"}
                          /\ UNCHANGED <<flag, moving, agent, local, status>>)
    /\ UNCHANGED <<pub, target>>

-----------------------------------------------------------------------------
(* test_local_maintenance, with the command and through the engine.         *)

\* The tests look at the exit status alone, and the command may be ignored here too.
SetLocal(hosts) == Command(TRUE, /\ local' \in {local, hosts}
                                 /\ UNCHANGED <<flag, on, vm, moving, agent, status, booted>>)
LocalOn == pc = "local_on" /\ SetLocal(local \cup {target}) /\ UNCHANGED <<pub, target>>
LocalOff == pc = "local_off" /\ SetLocal(local \ {target}) /\ UNCHANGED <<pub, target>>

\* the engine itself answers, from its VM
Engine(answer) == \/ vm = "healthy" /\ answer
                  \/ vm # "healthy" /\ Fail /\ UNCHANGED <<world, target>>

Where ==
    /\ pc = "where"
    /\ Engine(target' = on /\ Onward /\ UNCHANGED world)
    /\ UNCHANGED <<pub, faults>>

\* do_verified_deactivation: a refusal is ignored, the status read after it decides; the
\* local maintenance of the agent need not follow the status, and nothing is asked about it
Deactivated == [status EXCEPT ![target] = IF @ = "up" THEN "leaving" ELSE @]
DoVerifiedDeactivation ==
    /\ pc = "deactivate"
    /\ Engine(/\ status' \in {status, Deactivated}
              /\ local' \in IF status'[target] = "up" THEN {local} ELSE {local, local \cup {target}}
              /\ AssertTrueWithin(status'[target] = "maintenance")
              /\ UNCHANGED <<flag, on, vm, moving, agent, booted, target>>)
    /\ UNCHANGED <<pub, faults>>
DoVerifiedActivation ==
    /\ pc = "activate"
    /\ Engine(/\ status' \in {status, [status EXCEPT ![target] = "up"]}
              /\ local' \in IF status'[target] = "up" THEN {local, local \ {target}} ELSE {local}
              /\ AssertTrueWithin(status'[target] = "up")
              /\ UNCHANGED <<flag, on, vm, moving, agent, booted, target>>)
    /\ UNCHANGED <<pub, faults>>
WaitForScore ==
    /\ pc = "score"
    /\ Engine(AssertTrueWithin(pub[target].score) /\ UNCHANGED <<world, target>>)
    /\ UNCHANGED <<pub, faults>>
ValidateMigration ==
    /\ pc = "moved"
    /\ Engine((IF on # target THEN Onward ELSE Fail) /\ UNCHANGED <<world, target>>)
    /\ UNCHANGED <<pub, faults>>

Test ==
    \/ WaitForStatus
    \/ \E mode \in BOOLEAN : SetMaintenanceMode(mode) \/ TestMaintenanceMode(mode)
    \/ FindHost \/ ShutdownHeVm \/ StopServices \/ StartServices \/ WaitForAgent \/ StartHeVm
    \/ LocalOn \/ LocalOff \/ Where \/ DoVerifiedDeactivation \/ DoVerifiedActivation
    \/ WaitForScore \/ ValidateMigration

Init ==
    /\ flag = FALSE /\ on \in Hosts /\ vm = "healthy" /\ moving = None
    /\ agent = [h \in Hosts |-> "normal"] /\ local = {} /\ status = [h \in Hosts |-> "up"]
    /\ pub = [h \in Hosts |-> Published(h, TRUE)]
    /\ booted = {} /\ faults = 0
    /\ pc = Steps[1] /\ polls = 0 /\ reads = 0 /\ target = Host0

Terminated == Ended /\ UNCHANGED vars

Next == Test \/ World \/ Terminated

\* ansible runs end and pytest goes on; the agents owe the test nothing
Spec == Init /\ [][Next]_vars /\ WF_vars(Test)

-----------------------------------------------------------------------------
(* Properties.                                                              *)

\* The values of the variables; a timer that has elapsed ends its wait, so that neither
\* counter of looks reaches its bound.
TypeOK ==
    /\ flag \in BOOLEAN /\ on \in Hosts \cup {None} /\ moving \in Hosts \cup {None}
    /\ vm \in {"down", "booting", "healthy", "stopping"} /\ (vm = "down" <=> on = None)
    /\ agent \in [Hosts -> {"off", "starting", "init", "normal", "global"}]
    /\ local \subseteq Hosts /\ status \in [Hosts -> {"up", "leaving", "maintenance"}]
    /\ polls \in 0..(MaxPolls - 1) /\ reads \in 0..(MaxPolls - 1) /\ target \in Hosts

\* From the moment the waits for global maintenance are over until the engine is healthy
\* again, no agent can start or move the engine VM behind the test: every one has read the
\* flag, although the test sees no agent, only what each published at some time.
MaintenanceCoversRestart ==
    Past("all_global") /\ ~Past("health") => flag /\ \A h \in Hosts : agent[h] # "normal"

\* What a test that passed has shown is so, whatever of the status it read was old: the VM
\* the test shut down stays down until the test starts it (or is still on its way down: with
\* two migrations after the wait for stability, the status of its host may be the one of a
\* moment without it), and until the engine is healthy no agent has started it; no agent is
\* in global maintenance any more; a host that the engine still shuts out is not given back.
\* Of local maintenance no test asks more than an exit status, and a host may stay in it.
PassMeansDone ==
    /\ Past("shutdown") /\ ~Past("vm_start") => vm \in {"stopping", "down"}
    /\ Past("shutdown") /\ ~Past("health") => "agent" \notin booted
    /\ Past("none_global") => ~flag /\ \A h \in Hosts : agent[h] # "global"
    /\ Past("activate") => \A h \in Hosts : status[h] = "up"

\* The waits are nested, he_status inside a wait for what it says, and all are bounded.
HeSessionEnds == <>Ended
=============================================================================
