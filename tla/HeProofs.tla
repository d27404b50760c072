------------------------------ MODULE HeProofs ------------------------------
(* What HeMaintenance guarantees for any hosts, any patience of the waits    *)
(* and any number of faults.                                                 *)
EXTENDS HeMaintenance, TLAPS

\* Stretches of the suite: from the first step behind one wait to the last before another.
Restarting == {"find", "shutdown", "down", "stop", "start", "ready", "vm_start", "vm_up", "health"}
Down == {"down", "stop", "start", "ready", "vm_start"}
Moving == {"deactivate", "activate"}
Moved == {"score", "moved", "passed"}
Local == {"settled_3", "find_other", "local_on", "local_off", "settled_4", "where"} \cup Moving \cup Moved
Early == {"settled_1", "set", "set_read", "all_global"}
Rebooted == {"vm_up", "health", "settled_2", "clear", "clear_read", "none_global"} \cup Local
Running == {"failed"} \cup Early \cup Restarting \cup Rebooted

\* An agent that acts has read the flag it publishes.
AgentInv ==
    \A h \in Hosts : /\ agent[h] = "normal" => ~pub[h].global
                     /\ agent[h] = "global" => pub[h].global

\* The flag behind the steps that read it back, what is published behind the waits for it.
FlagInv ==
    /\ pc \in {"all_global"} \cup Restarting => flag
    /\ pc \in Restarting => \A h \in Hosts : pub[h].global
    /\ pc \in {"none_global"} \cup Local => ~flag
    /\ pc \in Local => \A h \in Hosts : ~pub[h].global

\* A VM that migrates is healthy and somewhere; the VM is shut down by the test alone, and no
\* agent starts it until the engine is healthy.
VmInv ==
    /\ moving # None => vm = "healthy"
    /\ vm = "stopping" => pc \in Down \cup {"failed"}
    /\ pc \in Down => vm \in {"stopping", "down"}
    /\ pc \in Down \cup {"vm_up", "health"} => "agent" \notin booted

\* Only the host a test has chosen leaves the cluster, and it is up again behind the wait for it.
HostInv ==
    /\ pc \notin {"failed"} \cup Moving => \A h \in Hosts : status[h] = "up"
    /\ pc \in Moving => \A h \in Hosts \ {target} : status[h] = "up"

Reports == [vm : {"up", "down", "unknown"}, good : BOOLEAN, migrating : BOOLEAN, global : BOOLEAN, score : BOOLEAN]

Typed ==
    /\ TypeOK
    /\ pc \in Running
    /\ pub \in [Hosts -> Reports]

IInv == Typed /\ AgentInv /\ FlagInv /\ VmInv /\ HostInv
-----------------------------------------------------------------------------
(* Operators.                                                                *)

\* The tests run every step once.
LEMMA StepsAreDistinct == \A i, j \in 1 .. 28 : Steps[i] = Steps[j] => i = j
<1> SUFFICES ASSUME NEW i \in 1 .. 28, NEW j \in 1 .. 28, i # j PROVE Steps[i] # Steps[j]
  OBVIOUS
<1> QED  BY SMTT(60) DEF Steps

LEMMA IndexOfStep == \A i \in 1 .. 28 : IndexOf(Steps[i]) = i
<1>1. Len(Steps) = 28
  BY DEF Steps
<1> SUFFICES ASSUME NEW i \in 1 .. 28 PROVE IndexOf(Steps[i]) = i
  OBVIOUS
<1> DEFINE k == CHOOSE n \in 1 .. Len(Steps) : Steps[n] = Steps[i]
<1>2. k \in 1 .. 28 /\ Steps[k] = Steps[i]
  BY <1>1
<1> QED  BY <1>2, StepsAreDistinct DEF IndexOf

LEMMA Order ==
    /\ IndexOf("settled_1") = 1    /\ IndexOf("set") = 2
    /\ IndexOf("set_read") = 3    /\ IndexOf("all_global") = 4
    /\ IndexOf("find") = 5    /\ IndexOf("shutdown") = 6
    /\ IndexOf("down") = 7    /\ IndexOf("stop") = 8
    /\ IndexOf("start") = 9    /\ IndexOf("ready") = 10
    /\ IndexOf("vm_start") = 11    /\ IndexOf("vm_up") = 12
    /\ IndexOf("health") = 13    /\ IndexOf("settled_2") = 14
    /\ IndexOf("clear") = 15    /\ IndexOf("clear_read") = 16
    /\ IndexOf("none_global") = 17    /\ IndexOf("settled_3") = 18
    /\ IndexOf("find_other") = 19    /\ IndexOf("local_on") = 20
    /\ IndexOf("local_off") = 21    /\ IndexOf("settled_4") = 22
    /\ IndexOf("where") = 23    /\ IndexOf("deactivate") = 24
    /\ IndexOf("activate") = 25    /\ IndexOf("score") = 26
    /\ IndexOf("moved") = 27    /\ IndexOf("passed") = 28
BY IndexOfStep DEF Steps

\* Going on is going to the next step, with no look taken.
LEMMA OnwardGoes ==
    ASSUME Onward
    PROVE  /\ polls' = 0 /\ reads' = 0
           /\ pc = "settled_1" => pc' = "set"
           /\ pc = "set" => pc' = "set_read"
           /\ pc = "set_read" => pc' = "all_global"
           /\ pc = "all_global" => pc' = "find"
           /\ pc = "find" => pc' = "shutdown"
           /\ pc = "shutdown" => pc' = "down"
           /\ pc = "down" => pc' = "stop"
           /\ pc = "stop" => pc' = "start"
           /\ pc = "start" => pc' = "ready"
           /\ pc = "ready" => pc' = "vm_start"
           /\ pc = "vm_start" => pc' = "vm_up"
           /\ pc = "vm_up" => pc' = "health"
           /\ pc = "health" => pc' = "settled_2"
           /\ pc = "settled_2" => pc' = "clear"
           /\ pc = "clear" => pc' = "clear_read"
           /\ pc = "clear_read" => pc' = "none_global"
           /\ pc = "none_global" => pc' = "settled_3"
           /\ pc = "settled_3" => pc' = "find_other"
           /\ pc = "find_other" => pc' = "local_on"
           /\ pc = "local_on" => pc' = "local_off"
           /\ pc = "local_off" => pc' = "settled_4"
           /\ pc = "settled_4" => pc' = "where"
           /\ pc = "where" => pc' = "deactivate"
           /\ pc = "deactivate" => pc' = "activate"
           /\ pc = "activate" => pc' = "score"
           /\ pc = "score" => pc' = "moved"
           /\ pc = "moved" => pc' = "passed"
BY Order DEF Onward, Goto, Steps

\* What an agent publishes of the flag is the flag.
LEMMA PublishedReport ==
    ASSUME flag \in BOOLEAN, NEW h, NEW answered \in BOOLEAN
    PROVE  Published(h, answered) \in Reports /\ Published(h, answered).global = flag
<1>1. /\ (answered /\ on = h /\ vm = "healthy") \in BOOLEAN
      /\ (moving # None /\ (on = h \/ moving = h)) \in BOOLEAN
      /\ (h \notin local) \in BOOLEAN
  OBVIOUS
<1>2. (IF ~answered THEN "unknown" ELSE IF on = h /\ vm # "down" THEN "up" ELSE "down")
         \in {"up", "down", "unknown"}
  OBVIOUS
<1> QED  BY <1>1, <1>2, Zenon DEF Published, Reports

\* Where no agent is in its normal state the VM is the test's: none starts it, none moves it.
LEMMA NoAgentActs ==
    ASSUME IInv, pc \in Restarting
    PROVE  \A h \in Hosts : agent[h] # "normal"
BY DEF IInv, AgentInv, FlagInv

-----------------------------------------------------------------------------
(* The hosts, while a test runs.                                             *)

LEMMA CycleKeeps ==
    ASSUME IInv, NEW h \in Hosts, AgentCycle(h), ~Ended, UNCHANGED test
    PROVE  IInv'
<1> USE DEF IInv, AgentCycle, test
<1>0. PICK answered \in BOOLEAN : pub' = [pub EXCEPT ![h] = Published(h, answered)]
  OBVIOUS
<1>1. Published(h, answered) \in Reports /\ Published(h, answered).global = flag /\ flag \in BOOLEAN
  BY PublishedReport DEF Typed, TypeOK
<1>2. agent' \in [Hosts -> {"off", "starting", "init", "normal", "global"}] /\ pub' \in [Hosts -> Reports]
  BY <1>0, <1>1 DEF Typed, TypeOK
<1>3. Typed'
  BY <1>2, Zenon DEF Typed, TypeOK
<1>4. AgentInv'
  BY <1>0, <1>1 DEF Typed, TypeOK, AgentInv
<1>5. FlagInv'
  BY <1>0, <1>1 DEF Typed, FlagInv
<1>6. (VmInv /\ HostInv)'
  BY DEF VmInv, HostInv
<1> QED  BY <1>3, <1>4, <1>5, <1>6

LEMMA RestartKeeps ==
    ASSUME IInv, NEW h \in Hosts, AgentReady(h) \/ AgentRestarts(h), UNCHANGED test
    PROVE  IInv'
<1> USE DEF IInv, AgentReady, AgentRestarts, test
<1>1. /\ agent' \in {[agent EXCEPT ![h] = "init"], [agent EXCEPT ![h] = "starting"]}
      /\ UNCHANGED <<flag, on, vm, moving, local, status, booted, pub>>
  OBVIOUS
<1>2. Typed'
  BY <1>1 DEF Typed, TypeOK
<1>3. AgentInv'
  BY <1>1 DEF Typed, TypeOK, AgentInv
<1>4. (FlagInv /\ VmInv /\ HostInv)'
  BY <1>1 DEF FlagInv, VmInv, HostInv
<1> QED  BY <1>2, <1>3, <1>4

LEMMA StartVmKeeps ==
    ASSUME IInv, NEW h \in Hosts, AgentStartsVm(h), ~Ended, UNCHANGED test
    PROVE  IInv'
<1> USE DEF IInv, AgentStartsVm, test
<1>1. pc \notin Restarting /\ pc # "failed"
  BY NoAgentActs DEF Ended
<1>2. Typed'
  BY HeAssumption DEF Typed, TypeOK
<1>3. VmInv'
  BY <1>1 DEF Typed, TypeOK, VmInv, Down, Restarting
<1>4. (AgentInv /\ FlagInv /\ HostInv)'
  BY DEF AgentInv, FlagInv, HostInv
<1> QED  BY <1>2, <1>3, <1>4

LEMMA MigrateKeeps ==
    ASSUME IInv, NEW h \in Hosts, NEW g \in Hosts, AgentMigrates(h, g), UNCHANGED test
    PROVE  IInv'
<1> USE DEF IInv, AgentMigrates, test
<1>1. Typed'
  BY DEF Typed, TypeOK
<1>2. (AgentInv /\ FlagInv /\ VmInv /\ HostInv)'
  BY DEF AgentInv, FlagInv, VmInv, HostInv
<1> QED  BY <1>1, <1>2

LEMMA VmChangesKeeps ==
    ASSUME IInv, VmChanges, UNCHANGED test, ~Ended
    PROVE  IInv'
<1> USE DEF IInv, VmChanges, test
<1>1. Typed'
  BY HeAssumption DEF Typed, TypeOK, VmInv
<1>2. VmInv'
  BY DEF Typed, TypeOK, VmInv, Ended
<1>3. (AgentInv /\ FlagInv /\ HostInv)'
  BY DEF AgentInv, FlagInv, HostInv
<1> QED  BY <1>1, <1>2, <1>3

LEMMA HostChangesKeeps ==
    ASSUME IInv, NEW h \in Hosts, HostChanges(h), UNCHANGED test, ~Ended
    PROVE  IInv'
<1> USE DEF IInv, HostChanges, test
<1>1. Typed'
  BY DEF Typed, TypeOK
<1>2. HostInv'
  BY DEF Typed, TypeOK, HostInv, Ended
<1>3. (AgentInv /\ FlagInv /\ VmInv)'
  BY DEF AgentInv, FlagInv, VmInv
<1> QED  BY <1>1, <1>2, <1>3

LEMMA WorldKeeps == IInv /\ World => IInv'
BY CycleKeeps, RestartKeeps, StartVmKeeps, MigrateKeeps, VmChangesKeeps, HostChangesKeeps DEF World

-----------------------------------------------------------------------------
(* The tests.                                                                *)

LEMMA CountersStart == 0 \in 0 .. (MaxPolls - 1)
BY HeAssumption

\* A wait looks again, goes on because of what it saw, or gives up.
LEMMA WaitGoes ==
    ASSUME Typed, NEW result, AssertTrueWithin(result)
    PROVE  /\ polls' \in 0 .. (MaxPolls - 1) /\ reads' \in 0 .. (MaxPolls - 1)
           /\ pc' = pc \/ Fail \/ (result /\ Onward)
<1>1. CASE result
  BY <1>1, CountersStart DEF AssertTrueWithin, Onward, Goto
<1>2. CASE ~result
  <2>1. Again(pc)
    BY <1>2 DEF AssertTrueWithin
  <2>2. polls \in Nat /\ MaxPolls \in Nat
    BY HeAssumption DEF Typed, TypeOK
  <2> QED  BY <2>1, <2>2, CountersStart DEF Again, Fail, Goto
<1> QED  BY <1>1, <1>2

\* A failure ends the session: nothing is owed any more.
LEMMA FailKeeps ==
    ASSUME IInv, Fail, TypeOK', UNCHANGED <<vm, moving, agent, pub>>
    PROVE  IInv'
BY DEF IInv, Typed, AgentInv, FlagInv, VmInv, HostInv, Fail, Goto, Running, Early, Restarting, Down,
       Rebooted, Local, Moving, Moved

\* A step that changes nothing but where the session is.
LEMMA StepKeeps ==
    ASSUME IInv, UNCHANGED <<world, pub, target>>, pc' = pc \/ Fail \/ Onward,
           polls' \in 0 .. (MaxPolls - 1), reads' \in 0 .. (MaxPolls - 1),
           pc \in {"settled_1", "all_global", "find", "down", "ready", "vm_up", "health", "settled_2",
                  "none_global", "settled_3", "find_other", "settled_4", "score", "moved"},
           pc' = "find" /\ pc # "find" => \A h \in Hosts : pub[h].global,
           pc' = "settled_3" /\ pc # "settled_3" => \A h \in Hosts : ~pub[h].global
    PROVE  IInv'
<1>1. TypeOK'
  BY DEF IInv, Typed, TypeOK, world
<1>2. CASE Fail
  BY <1>1, <1>2, FailKeeps DEF world
<1>3. CASE pc' = pc
  BY <1>1, <1>3 DEF IInv, Typed, AgentInv, FlagInv, VmInv, HostInv, world
<1>4. CASE Onward
  <2>1. pc' \in Running
    BY <1>4, OnwardGoes DEF Running, Early, Restarting, Rebooted, Local, Moving, Moved
  <2>2. (AgentInv /\ FlagInv)'
    BY <1>4, OnwardGoes DEF IInv, AgentInv, FlagInv, world, Restarting, Local, Moving, Moved
  <2>3. VmInv'
    BY <1>4, OnwardGoes DEF IInv, VmInv, world, Down, Rebooted, Local, Moving, Moved
  <2>4. HostInv'
    BY <1>4, OnwardGoes DEF IInv, HostInv, world, Moving
  <2> QED  BY <1>1, <2>1, <2>2, <2>3, <2>4 DEF IInv, Typed, world
<1> QED  BY <1>2, <1>3, <1>4

\* The status that cannot be read is asked for again, and in the end fails the test.
LEMMA StatusGoes ==
    ASSUME Typed, NEW judged, HeStatus(judged)
    PROVE  \/ judged
           \/ pc' = pc /\ polls' = polls /\ reads' \in 0 .. (MaxPolls - 1)
           \/ Fail
<1>1. reads \in Nat /\ MaxPolls \in Nat
  BY HeAssumption DEF Typed, TypeOK
<1> QED  BY <1>1 DEF HeStatus

LEMMA WaitForStatusKeeps == IInv /\ WaitForStatus => IInv'
<1> SUFFICES ASSUME IInv, WaitForStatus PROVE IInv'
  OBVIOUS
<1>1. UNCHANGED <<world, pub, target>>
  BY DEF WaitForStatus
<1>2. /\ polls' \in 0 .. (MaxPolls - 1) /\ reads' \in 0 .. (MaxPolls - 1)
      /\ pc' = pc \/ Fail \/ (Judgement /\ Onward)
  <2>1. CASE AssertTrueWithin(Judgement)
    BY <2>1, WaitGoes DEF IInv
  <2>2. CASE pc' = pc /\ polls' = polls /\ reads' \in 0 .. (MaxPolls - 1)
    BY <2>2 DEF IInv, Typed, TypeOK
  <2>3. CASE Fail
    BY <2>3, CountersStart DEF Fail, Goto
  <2> QED  BY <2>1, <2>2, <2>3, StatusGoes DEF IInv, WaitForStatus
<1>3. pc' = "find" /\ pc # "find" => \A h \in Hosts : pub[h].global
  BY <1>2, OnwardGoes DEF WaitForStatus, Fail, Goto, Judgement, AllHostsStateGlobalMaintenance
<1>4. pc' = "settled_3" /\ pc # "settled_3" => \A h \in Hosts : ~pub[h].global
  BY <1>2, OnwardGoes DEF WaitForStatus, Fail, Goto, Judgement, NoHostsStateGlobalMaintenance
<1> QED  BY <1>1, <1>2, <1>3, <1>4, StepKeeps DEF WaitForStatus

\* The command may be ignored; the flag is read back before the test goes on.
LEMMA SetKeeps ==
    ASSUME IInv, NEW mode \in BOOLEAN, SetMaintenanceMode(mode)
    PROVE  IInv'
<1> USE DEF SetMaintenanceMode
<1>1. flag' \in BOOLEAN /\ reads' \in 0 .. (MaxPolls - 1) /\ polls' \in 0 .. (MaxPolls - 1)
  BY CountersStart DEF IInv, Typed, TypeOK, Fail, Goto
<1>2. TypeOK'
  BY <1>1 DEF IInv, Typed, TypeOK
<1>3. CASE Fail
  BY <1>2, <1>3, FailKeeps
<1>4. CASE pc' = Steps[IndexOf(pc) + 1]
  <2>1. pc \in {"set", "clear"} /\ UNCHANGED <<on, vm, moving, agent, local, status, booted, pub, target>>
    OBVIOUS
  <2>2. \/ pc = "set" /\ pc' = "set_read"
        \/ pc = "clear" /\ pc' = "clear_read"
    <3> HIDE DEF SetMaintenanceMode
    <3> QED  BY <1>4, <2>1, Order DEF Steps
  <2> QED  BY <1>2, <2>1, <2>2 DEF IInv, Typed, AgentInv, FlagInv, VmInv, HostInv, Running, Early,
              Restarting, Down, Rebooted, Local, Moving, Moved
<1> QED  BY <1>3, <1>4

LEMMA TestKeeps ==
    ASSUME IInv, NEW mode \in BOOLEAN, TestMaintenanceMode(mode)
    PROVE  IInv'
<1> DEFINE again == IF mode THEN "set" ELSE "clear"
<1> USE DEF TestMaintenanceMode
<1>1. UNCHANGED <<world, pub, target>>
  OBVIOUS
<1>2. \/ flag = mode /\ Onward
      \/ Again(again)
      \/ pc' = pc /\ polls' = polls /\ reads' \in 0 .. (MaxPolls - 1)
      \/ Fail
  BY StatusGoes DEF IInv
<1>3. /\ polls' \in 0 .. (MaxPolls - 1) /\ reads' \in 0 .. (MaxPolls - 1)
      /\ pc' \in {pc, again} \/ Fail \/ (flag = mode /\ Onward)
  <2>1. polls \in Nat /\ MaxPolls \in Nat
    BY HeAssumption DEF IInv, Typed, TypeOK
  <2> QED  BY <1>2, <2>1, CountersStart DEF IInv, Typed, TypeOK, Again, Fail, Goto, Onward
<1>4. TypeOK'
  BY <1>1, <1>3 DEF IInv, Typed, TypeOK, world
<1>5. CASE Fail
  BY <1>1, <1>4, <1>5, FailKeeps DEF world
<1>6. CASE pc' \in {pc, again}
  BY <1>1, <1>4, <1>6 DEF IInv, Typed, AgentInv, FlagInv, VmInv, HostInv, world, Running, Early,
     Restarting, Down, Rebooted, Local, Moving, Moved
<1>7. CASE flag = mode /\ Onward
  <2>1. \/ pc = "set_read" /\ pc' = "all_global" /\ flag
        \/ pc = "clear_read" /\ pc' = "none_global" /\ ~flag
    BY <1>7, OnwardGoes
  <2> QED  BY <1>1, <1>4, <2>1 DEF IInv, Typed, AgentInv, FlagInv, VmInv, HostInv, world, Running,
              Early, Restarting, Down, Rebooted, Local, Moving, Moved
<1> QED  BY <1>3, <1>5, <1>6, <1>7

\* The host a test finds is one of the hosts.
LEMMA FindKeeps == IInv /\ FindHost => IInv'
<1> SUFFICES ASSUME IInv, FindHost PROVE IInv'
  OBVIOUS
<1>1. pc \in {"find", "find_other"} /\ UNCHANGED <<world, pub>>
  BY DEF FindHost
<1>2. \/ UNCHANGED target /\ pc' = pc /\ polls' = polls /\ reads' \in 0 .. (MaxPolls - 1)
      \/ UNCHANGED target /\ Fail
      \/ Onward /\ target' \in Hosts
  BY StatusGoes DEF IInv, FindHost, Find
<1>3. CASE UNCHANGED target
  BY <1>1, <1>2, <1>3, CountersStart, OnwardGoes, StepKeeps DEF IInv, Typed, TypeOK, Fail, Goto
<1>4. CASE Onward /\ target' \in Hosts
  <2>1. TypeOK'
    BY <1>1, <1>4, CountersStart, OnwardGoes DEF IInv, Typed, TypeOK, world
  <2>2. \/ pc = "find" /\ pc' = "shutdown"
        \/ pc = "find_other" /\ pc' = "local_on"
    BY <1>1, <1>4, OnwardGoes
  <2> QED  BY <1>1, <2>1, <2>2 DEF IInv, Typed, AgentInv, FlagInv, VmInv, HostInv, world, Running, Early, Restarting, Down, Rebooted, Local, Moving, Moved
<1> QED  BY <1>2, <1>3, <1>4

\* From here the VM is down or on its way: nothing migrates it when the test shuts it down.
LEMMA ShutdownKeeps == IInv /\ ShutdownHeVm => IInv'
<1> SUFFICES ASSUME IInv, ShutdownHeVm PROVE IInv'
  OBVIOUS
<1> USE DEF ShutdownHeVm, Command
<1>1. CASE Fail /\ UNCHANGED world
  BY <1>1, CountersStart, FailKeeps DEF IInv, Typed, TypeOK, world, Fail, Goto
<1>2. CASE Onward /\ vm' = "stopping" /\ booted' = {} /\ on # None /\ moving = None
           /\ UNCHANGED <<flag, on, moving, agent, local, status>>
  <2>1. TypeOK'
    BY <1>2, CountersStart, OnwardGoes DEF IInv, Typed, TypeOK
  <2> QED  BY <1>2, <2>1, OnwardGoes DEF IInv, Typed, AgentInv, FlagInv, VmInv, HostInv, Running, Early, Restarting, Down, Rebooted, Local, Moving, Moved
<1>3. on = target => on # None
  BY HeAssumption DEF IInv, Typed, TypeOK
<1> QED  BY <1>1, <1>2, <1>3

LEMMA ServicesKeep == IInv /\ (StopServices \/ StartServices) => IInv'
<1> SUFFICES ASSUME IInv, StopServices \/ StartServices PROVE IInv'
  OBVIOUS
<1> USE DEF StopServices, StartServices, Systemctl, Command
<1>1. UNCHANGED <<pub, target>> /\ pc \in {"stop", "start"}
  OBVIOUS
<1>2. CASE Fail /\ UNCHANGED world
  BY <1>1, <1>2, CountersStart, FailKeeps DEF IInv, Typed, TypeOK, world, Fail, Goto
<1>3. CASE Onward /\ UNCHANGED <<flag, on, vm, moving, local, status, booted>>
           /\ agent' \in {[agent EXCEPT ![target] = "off"], [agent EXCEPT ![target] = "starting"]}
  <2>1. TypeOK'
    BY <1>1, <1>3, CountersStart, OnwardGoes DEF IInv, Typed, TypeOK
  <2>2. AgentInv'
    BY <1>1, <1>3 DEF IInv, Typed, TypeOK, AgentInv
  <2> QED  BY <1>1, <1>3, <2>1, <2>2, OnwardGoes DEF IInv, Typed, FlagInv, VmInv, HostInv, Running, Early, Restarting, Down, Rebooted, Local, Moving, Moved
<1> QED  BY <1>2, <1>3

LEMMA WaitForAgentKeeps == IInv /\ WaitForAgent => IInv'
BY WaitGoes, OnwardGoes, StepKeeps DEF IInv, WaitForAgent, Fail, Goto

LEMMA StartHeVmKeeps == IInv /\ StartHeVm => IInv'
<1> SUFFICES ASSUME IInv, StartHeVm PROVE IInv'
  OBVIOUS
<1> USE DEF StartHeVm, Command
<1>1. CASE Fail /\ UNCHANGED world
  BY <1>1, CountersStart, FailKeeps DEF IInv, Typed, TypeOK, world, Fail, Goto
<1>2. CASE /\ Onward /\ on = None /\ on' = target /\ vm' = "booting" /\ booted' = booted \cup {"test"}
           /\ UNCHANGED <<flag, moving, agent, local, status>>
  <2>1. TypeOK'
    BY <1>2, HeAssumption, CountersStart, OnwardGoes DEF IInv, Typed, TypeOK
  <2>2. VmInv'
    BY <1>2, OnwardGoes DEF IInv, Typed, TypeOK, VmInv, Down
  <2> QED  BY <1>2, <2>1, <2>2, OnwardGoes DEF IInv, Typed, AgentInv, FlagInv, HostInv, Running, Early, Restarting, Down, Rebooted, Local, Moving, Moved
<1> QED  BY <1>1, <1>2

\* Local maintenance by command, on and off.
LEMMA LocalKeeps == IInv /\ (LocalOn \/ LocalOff) => IInv'
<1> SUFFICES ASSUME IInv, LocalOn \/ LocalOff PROVE IInv'
  OBVIOUS
<1> USE DEF LocalOn, LocalOff, SetLocal, Command
<1>1. UNCHANGED <<pub, target>> /\ pc \in {"local_on", "local_off"}
  OBVIOUS
<1>2. CASE Fail /\ UNCHANGED world
  BY <1>1, <1>2, CountersStart, FailKeeps DEF IInv, Typed, TypeOK, world, Fail, Goto
<1>3. CASE /\ Onward /\ UNCHANGED <<flag, on, vm, moving, agent, status, booted>>
           /\ local' \in {local, local \cup {target}, local \ {target}}
  <2>1. TypeOK'
    BY <1>1, <1>3, CountersStart, OnwardGoes DEF IInv, Typed, TypeOK
  <2> QED  BY <1>1, <1>3, <2>1, OnwardGoes DEF IInv, Typed, AgentInv, FlagInv, VmInv, HostInv, Running, Early, Restarting, Down, Rebooted, Local, Moving, Moved
<1> QED  BY <1>2, <1>3

\* The engine answers from its VM: it has been found on a host.
LEMMA WhereKeeps == IInv /\ Where => IInv'
<1> SUFFICES ASSUME IInv, Where PROVE IInv'
  OBVIOUS
<1> USE DEF Where, Engine
<1>1. CASE Fail /\ UNCHANGED <<world, target>>
  BY <1>1, CountersStart, FailKeeps DEF IInv, Typed, TypeOK, world, Fail, Goto
<1>2. CASE vm = "healthy" /\ target' = on /\ Onward /\ UNCHANGED world
  <2>1. TypeOK'
    BY <1>2, CountersStart, OnwardGoes DEF IInv, Typed, TypeOK, world
  <2> QED  BY <1>2, <2>1, OnwardGoes DEF IInv, Typed, AgentInv, FlagInv, VmInv, HostInv, world, Running, Early, Restarting, Down, Rebooted, Local, Moving, Moved
<1> QED  BY <1>1, <1>2

\* Through the engine, only the target is put into maintenance; the wait for it to be up again
\* ends with every host up.
LEMMA VerifiedKeep == IInv /\ (DoVerifiedDeactivation \/ DoVerifiedActivation) => IInv'
<1> SUFFICES ASSUME IInv, DoVerifiedDeactivation \/ DoVerifiedActivation PROVE IInv'
  OBVIOUS
<1> USE DEF DoVerifiedDeactivation, DoVerifiedActivation, Engine
<1>1. UNCHANGED <<pub, flag, on, vm, moving, agent, booted, target>> /\ pc \in {"deactivate", "activate"}
  BY DEF world
<1>2. /\ status' \in [Hosts -> {"up", "leaving", "maintenance"}]
      /\ \A h \in Hosts \ {target} : status'[h] = "up"
      /\ local' \subseteq Hosts
  BY DEF IInv, Typed, TypeOK, HostInv, Moving, Deactivated, world
<1>3. /\ polls' \in 0 .. (MaxPolls - 1) /\ reads' \in 0 .. (MaxPolls - 1)
      /\ \/ pc' = pc
         \/ Fail
         \/ Onward /\ (pc = "activate" => status'[target] = "up")
  BY WaitGoes, CountersStart DEF IInv, Fail, Goto
<1>4. TypeOK'
  BY <1>1, <1>2, <1>3 DEF IInv, Typed, TypeOK
<1>5. CASE Fail
  BY <1>1, <1>4, <1>5, FailKeeps
<1>6. CASE pc' = pc
  BY <1>1, <1>2, <1>4, <1>6 DEF IInv, Typed, AgentInv, FlagInv, VmInv, HostInv, Moving
<1>7. CASE Onward /\ (pc = "activate" => status'[target] = "up")
  <2>1. HostInv'
    BY <1>1, <1>2, <1>7, OnwardGoes DEF HostInv, Moving
  <2> QED  BY <1>1, <1>4, <1>7, <2>1, OnwardGoes DEF IInv, Typed, AgentInv, FlagInv, VmInv, Running, Early, Restarting, Down, Rebooted, Local, Moving, Moved
<1> QED  BY <1>3, <1>5, <1>6, <1>7

LEMMA MovedKeeps == IInv /\ (WaitForScore \/ ValidateMigration) => IInv'
<1> SUFFICES ASSUME IInv, WaitForScore \/ ValidateMigration PROVE IInv'
  OBVIOUS
<1> USE DEF WaitForScore, ValidateMigration, Engine
<1>1. UNCHANGED <<world, pub, target>> /\ pc \in {"score", "moved"}
  BY WaitGoes DEF IInv
<1>2. /\ polls' \in 0 .. (MaxPolls - 1) /\ reads' \in 0 .. (MaxPolls - 1)
      /\ pc' = pc \/ Fail \/ Onward
  BY WaitGoes, CountersStart DEF IInv, Fail, Goto, Onward
<1> QED  BY <1>1, <1>2, OnwardGoes, StepKeeps DEF Fail, Goto

-----------------------------------------------------------------------------
LEMMA InitIInv == Init => IInv
<1> SUFFICES ASSUME Init PROVE IInv
  OBVIOUS
<1>1. pc = "settled_1" /\ flag = FALSE
  BY DEF Init, Steps
<1>2. \A h \in Hosts : Published(h, TRUE) \in Reports /\ Published(h, TRUE).global = FALSE
  BY <1>1, PublishedReport
<1>3. pub \in [Hosts -> Reports] /\ \A h \in Hosts : pub[h].global = FALSE
  BY <1>2 DEF Init
<1>4. TypeOK
  BY <1>1, HeAssumption, CountersStart DEF Init, TypeOK
<1> QED  BY <1>1, <1>3, <1>4, HeAssumption DEF Init, IInv, Typed, AgentInv, FlagInv, VmInv, HostInv,
            Running, Early, Restarting, Down, Rebooted, Local, Moving, Moved

LEMMA NextKeeps == IInv /\ [Next]_vars => IInv'
<1> SUFFICES ASSUME IInv, [Next]_vars PROVE IInv'
  OBVIOUS
<1>1. CASE UNCHANGED vars
  BY <1>1 DEF vars, world, test, IInv, Typed, TypeOK, AgentInv, FlagInv, VmInv, HostInv
<1>2. CASE Test
  BY <1>2, WaitForStatusKeeps, SetKeeps, TestKeeps, FindKeeps, ShutdownKeeps, ServicesKeep,
     WaitForAgentKeeps, StartHeVmKeeps, LocalKeeps, WhereKeeps, VerifiedKeep, MovedKeeps DEF Test
<1> QED  BY <1>1, <1>2, WorldKeeps DEF Next, Terminated

LEMMA Invariance == Spec => []IInv
<1> QED  BY InitIInv, NextKeeps, PTL DEF Spec

\* Where the session is behind a step that has passed.
LEMMA PastSteps ==
    ASSUME pc \in Running
    PROVE  /\ Past("all_global") /\ ~Past("health") => pc \in Restarting
           /\ Past("shutdown") /\ ~Past("vm_start") => pc \in Down
           /\ Past("none_global") => pc \in Local
           /\ Past("shutdown") /\ ~Past("health") => pc \in Down \cup {"vm_up", "health"}
           /\ Past("activate") => pc \in Moved
BY Order DEF Past, Running, Early, Restarting, Down, Rebooted, Local, Moving, Moved

-----------------------------------------------------------------------------
\* The flag, the VM, the agents and the hosts keep their types, a VM that is down is nowhere, and
\* no wait of he_utils looks more often than its timeout allows.
THEOREM HeTypeCorrect == Spec => []TypeOK
BY Invariance, PTL DEF IInv, Typed

\* test_restart_he_vm: on any number of hosts, from the end of the waits for global maintenance
\* until the engine is healthy again no agent is in a state in which it would start or move the
\* engine VM, although the test reads only what each agent published at some time.
THEOREM MaintenanceHolds == Spec => []MaintenanceCoversRestart
<1>1. IInv => MaintenanceCoversRestart
  BY PastSteps, NoAgentActs DEF IInv, Typed, FlagInv, MaintenanceCoversRestart
<1> QED  BY <1>1, Invariance, PTL

\* The suite of the hosted engine: what each of its tests has passed with is so, with any hosts,
\* waits and faults: the VM that was shut down stays down until the test starts it, and no agent
\* starts it before the engine is healthy; no agent is left in global maintenance; every host is up
\* again for the engine.
THEOREM PassedIsDone == Spec => []PassMeansDone
<1>1. IInv => PassMeansDone
  <2> SUFFICES ASSUME IInv PROVE PassMeansDone
    OBVIOUS
  <2>1. Past("shutdown") /\ ~Past("vm_start") => vm \in {"stopping", "down"}
    BY PastSteps DEF IInv, Typed, VmInv
  <2>2. Past("shutdown") /\ ~Past("health") => "agent" \notin booted
    BY PastSteps DEF IInv, Typed, VmInv
  <2>3. Past("none_global") => ~flag /\ \A h \in Hosts : agent[h] # "global"
    BY PastSteps DEF IInv, Typed, FlagInv, AgentInv
  <2>4. Past("activate") => \A h \in Hosts : status[h] = "up"
    BY PastSteps DEF IInv, Typed, HostInv, Moving, Moved
  <2> QED  BY <2>1, <2>2, <2>3, <2>4 DEF PassMeansDone
<1> QED  BY <1>1, Invariance, PTL
=============================================================================
