--------------------------- MODULE EngineSession ---------------------------
(***************************************************************************)
(* One test of the network suite against the engine: the contexts it opens *)
(* around itself (clusterlib, netlib, providerlib, virtlib), the calls in  *)
(* their innermost body, and the way out through every finally clause,     *)
(* while the engine works behind its answers and refuses what is in use.   *)
(*                                                                         *)
(* A call of the library is the sequence of the commands it sends.  A      *)
(* command that raises ends its sequence, unless an except clause covers   *)
(* it; a `with` statement pushes a frame where its `try` begins, so that   *)
(* the commands before it are not undone and those after it are.           *)
(***************************************************************************)
EXTENDS Naturals, Sequences, FiniteSets

CONSTANTS MaxFaults    \* errors beyond the refusals: lost answers, timeouts, failed asserts

ASSUME FaultsAssumption == MaxFaults \in Nat

VARIABLES engine,      \* what the engine holds
          todo,        \* commands that are left of the current call
          test, at,    \* the test and its next item
          stack,       \* open contexts, innermost first
          leaving,     \* the finally clauses are running
          raised,      \* the exception in flight, or "none"
          known,       \* VMs whose `_service` is set
          failed,      \* what a failed command was about, and how it failed
          faults

vars == <<engine, todo, test, at, stack, leaving, raised, known, failed, faults>>

Pool == <<"v1", "v2">>
Vms == {"v1", "v2"}
Entities == {"cluster", "mac_pool", "network", "assignment", "profile", "qos"}
Contexts == Entities \cup {"vm_pool", "toggle", "auto_sync"}
VmStates == {"absent", "locked", "down", "powering_up", "up", "powering_down", "removing"}
NoNic == [profile |-> "none", plugged |-> FALSE]

Gone(e, v) == e.vm[v] \in {"absent", "removing"}

-----------------------------------------------------------------------------
(* Commands.  `ok` and `to` say how many commands to leave behind after an  *)
(* answer, and after an error in `caught`.                                  *)

Cmd(do, on, arg) == [do |-> do, on |-> on, arg |-> arg, ok |-> 1, caught |-> {}, to |-> 1]
Try(c, ok, caught, to) == [c EXCEPT !.ok = ok, !.caught = caught, !.to = to]

SdkErrors == {"Error", "NotFoundError"}

\* SDKEntity._create_sdk_entity: an sdk error becomes an EntityCreationError
CreateSdkEntity(x, arg) == <<Cmd("add", x, arg)>>
ClusterCreate == CreateSdkEntity("cluster", "")
MacPoolCreate == CreateSdkEntity("mac_pool", "")
NetworkCreate == CreateSdkEntity("network", "")
VnicProfileCreate == CreateSdkEntity("profile", "")
QosCreate == CreateSdkEntity("qos", "")
RemoveEntity(x) == <<Cmd("remove", x, "")>>

Assign == <<Cmd("add", "assignment", "")>>       \* ClusterNetwork.assign: no translation
ClusterRemove == <<Cmd("wait_until_empty", "cluster", "")>> \o RemoveEntity("cluster")
SetMacPool(which) == <<Cmd("set_pool", "mac_pool", which)>>
RemoveQos == <<Cmd("remove_if_listed", "qos", "")>>
SetAutoSync(b) == <<Cmd("set_sync", "auto_sync", b)>>

\* in the temporary cluster, or in the default one from the Blank or the cirros template
Create(v, where) == CreateSdkEntity(v, where)
Run(v) == <<Cmd("start", v, "")>>
RunOnce(v) == <<Cmd("start", v, "")>>
StopBareMut(v) == <<Cmd("stop", v, "")>>
Stop(v) == <<Try(Cmd("stop", v, ""), 1, {"not_running"}, 1)>>
WaitForStatus(v, statuses) == <<Cmd("wait_vm", v, statuses)>>
WaitForDownStatus(v) == WaitForStatus(v, {"down"})
WaitForUpStatus(v) == WaitForStatus(v, {"up"})
WaitForPoweringUpStatus(v) == WaitForStatus(v, {"powering_up", "up"})
MoveToCluster(v, cluster) == <<Cmd("move", v, cluster)>>

AvoidUnknownDcStatus(v) == Cmd("wait_dc", v, "")
RetryRemovalBareMut(v) == <<AvoidUnknownDcStatus(v), Cmd("remove_vm", v, "")>>
RetryRemoval(v) == <<Try(AvoidUnknownDcStatus(v), 1, {"NotFoundError"}, 2),
                     Try(Cmd("remove_vm", v, ""), 1, {"NotFoundError"}, 1)>>

VmRemove(v) == Stop(v) \o WaitForDownStatus(v)
    \o <<Try(AvoidUnknownDcStatus(v), 1, SdkErrors, 2),
         Try(Cmd("remove_vm", v, ""), 1 + Len(RetryRemoval(v)), SdkErrors, 1)>>
    \o RetryRemoval(v)

CreateVnic(v, profile) == <<Cmd("add_nic", v, profile)>>
RemoveVnic(v) == <<Cmd("remove_nic", v, "")>>
SetVnicProfile(v, profile) == <<Cmd("set_profile", v, profile)>>
Hotunplug(v) == <<Cmd("unplug", v, "")>>
Hotplug(v) == <<Cmd("plug", v, "")>>
HotReplaceNoPlugMut(v, profile) == Hotunplug(v) \o SetVnicProfile(v, profile)
HotReplaceProfile(v, profile) == Hotunplug(v) \o SetVnicProfile(v, profile) \o Hotplug(v)
HotReplaceMacAddr(v) == Hotunplug(v) \o <<Cmd("set_mac", v, "")>> \o Hotplug(v)

WaitForSnapshot(v, status) == <<Cmd("wait_snapshot", v, status)>>
CreateSnapshot(v) == <<Cmd("snapshot", v, "")>> \o WaitForSnapshot(v, "ok")
Preview(v) == <<Cmd("preview", v, "")>>
WaitForPreviewStatus(v) == WaitForSnapshot(v, "preview")
UndoPreview(v) == <<Cmd("undo", v, "")>>
Commit(v) == <<Cmd("commit", v, "")>>
Restore(v) == <<Cmd("restore", v, "")>>

DiskCreate == CreateSdkEntity("disk", "")
DiskWaitForUpStatus == <<Cmd("wait_disk", "disk", "ok")>>
CreateDisk == DiskCreate \o DiskWaitForUpStatus
AttachDisk(v) == <<Cmd("attach", "disk", v)>>
WaitForDiskUpStatus == DiskWaitForUpStatus \o <<Cmd("wait_disk", "disk", "attached")>>
\* the fixtures of the image repository and of the template: each is made, and waited for, if missing
ImageRepo == <<Try(Cmd("find_repo", "template", ""), 3, {"EntityNotFoundError"}, 1),
               Cmd("add", "template", ""), Cmd("wait_repo", "template", "")>>
GetTemplate == Cmd("get_template", "template", "")
ImportImage == <<Cmd("import_image", "template", "")>>
WaitForTemplateOkStatus == <<Cmd("wait_template", "template", "ok")>>
CirrosTemplate == LET missing == ImportImage \o WaitForTemplateOkStatus IN
                  ImageRepo \o <<Try(GetTemplate, 1 + Len(missing), {"EntityNotFoundError"}, 1)>> \o missing
AllJobsWaitForDone == <<Cmd("wait_jobs", "jobs", "")>>

-----------------------------------------------------------------------------
(* Contexts: what a `with` sends before its try, in it, and in its finally. *)

Before(ctx) ==
    CASE ctx = "cluster" -> ClusterCreate
      [] ctx = "mac_pool" -> MacPoolCreate
      [] ctx = "network" -> NetworkCreate
      [] ctx = "assignment" -> Assign
      [] ctx = "profile" -> VnicProfileCreate
      [] ctx = "qos" -> QosCreate
      [] ctx = "vm_pool" -> << >>
      [] ctx = "toggle" -> HotReplaceProfile("v1", "profile")
      [] ctx = "auto_sync" -> SetAutoSync(FALSE)

Inside(ctx) == IF ctx = "mac_pool" THEN SetMacPool("temp") ELSE << >>

InOrder(s) == [i \in DOMAIN s |-> s[Len(s) + 1 - i]]
RemoveKnown(s) ==
    (IF s[1] \in known THEN VmRemove(s[1]) ELSE << >>) \o (IF s[2] \in known THEN VmRemove(s[2]) ELSE << >>)

Finally(ctx, was) ==
    CASE ctx = "cluster" -> ClusterRemove
      [] ctx = "mac_pool" -> SetMacPool(was.pool) \o RemoveEntity("mac_pool")
      [] ctx \in {"network", "assignment", "profile"} -> RemoveEntity(ctx)
      [] ctx = "qos" -> RemoveQos
      [] ctx = "vm_pool" -> RemoveKnown(InOrder(Pool)) \o AllJobsWaitForDone
      [] ctx = "toggle" -> HotReplaceProfile("v1", was.profile)
      [] ctx = "auto_sync" -> IF was.sync THEN SetAutoSync(TRUE) ELSE << >>

\* what a context owns of the engine, as the client can tell
View(ctx, e, mine) ==
    CASE ctx \in Entities \ {"mac_pool"} -> ctx \in e.has
      [] ctx = "mac_pool" -> <<ctx \in e.has, e.pool>>
      [] ctx = "vm_pool" -> {v \in mine : ~Gone(e, v)}
      [] ctx = "toggle" -> e.nic["v1"]
      [] ctx = "auto_sync" -> e.sync

-----------------------------------------------------------------------------
(* Tests.                                                                   *)

With(ctx) == <<"with", ctx>>
Call(cmds) == <<"call", cmds>>
NewAssignedNetwork == <<With("network"), With("assignment")>>

MacTest == <<With("cluster"), With("mac_pool")>> \o NewAssignedNetwork \o <<With("vm_pool"),
    Call(Create("v1", "cluster")), Call(WaitForDownStatus("v1")), Call(CreateVnic("v1", "network")),
    Call(RemoveVnic("v1")), Call(MoveToCluster("v1", "home")),
    Call(Create("v2", "cluster")), Call(WaitForDownStatus("v2")), Call(CreateVnic("v2", "network"))>>

QosTest == <<With("qos"), With("network"), With("assignment"), With("profile"), With("vm_pool"),
    Call(Create("v1", "home")), Call(CreateDisk), Call(AttachDisk("v1")), Call(WaitForDiskUpStatus),
    Call(WaitForDownStatus("v1")), Call(CreateVnic("v1", "profile")), Call(Run("v1")),
    Call(WaitForPoweringUpStatus("v1"))>>

Start(v) == <<Call(Run(v)), Call(WaitForUpStatus(v)), Call(AllJobsWaitForDone)>>
StopAndWait(v) == <<Call(Stop(v)), Call(WaitForDownStatus(v))>>
SecondVm == <<Call(Create("v2", "cirros")), Call(CreateVnic("v2", "default"))>>

RestoreTest == <<Call(CirrosTemplate), With("vm_pool"), Call(Create("v1", "cirros")),
    Call(CreateVnic("v1", "default")), Call(WaitForDownStatus("v1"))>> \o Start("v1")
    \o <<Call(CreateSnapshot("v1")), Call(AllJobsWaitForDone), Call(HotReplaceMacAddr("v1"))>>
    \o SecondVm \o StopAndWait("v1") \o <<Call(Restore("v1"))>>

\* the test undoes the preview; Commit is the other way out of it
PreviewTest(last) == <<Call(CirrosTemplate), With("vm_pool"), Call(Create("v1", "cirros")),
    Call(WaitForDownStatus("v1"))>> \o Start("v1")
    \o <<Call(CreateSnapshot("v1")), Call(CreateVnic("v1", "default"))>> \o StopAndWait("v1")
    \o <<Call(Preview("v1")), Call(WaitForPreviewStatus("v1"))>> \o SecondVm \o <<Call(last)>>

OvnTest == <<With("auto_sync"), With("network"), Call(Assign), Call(CirrosTemplate),
    With("vm_pool"), Call(Create("v1", "cirros")), Call(CreateVnic("v1", "network")), Call(WaitForDownStatus("v1")),
    Call(RunOnce("v1")), Call(WaitForUpStatus("v1")), With("profile"), With("toggle")>>

Tests == {"mac", "qos", "ovn", "restore", "undo", "commit"}
Script(t) == CASE t = "mac" -> MacTest
               [] t = "qos" -> QosTest
               [] t = "ovn" -> OvnTest
               [] t = "restore" -> RestoreTest
               [] t = "undo" -> PreviewTest(UndoPreview("v1"))
               [] t = "commit" -> PreviewTest(Commit("v1"))

-----------------------------------------------------------------------------
(* The engine: what it refuses, and what an accepted command does.          *)

Answer(r, states) == {[r |-> r, e |-> x] : x \in states}

Parents(x) == CASE x = "assignment" -> {"network"} [] x = "profile" -> {"network"} [] OTHER -> {}
Dependants(x) == IF x = "network" THEN {"network", "assignment", "profile"} ELSE {x}
NicUses(x, p) == CASE x = "profile" -> p = "profile"
                   [] x \in {"network", "assignment"} -> p \in {"network", "profile"}
                   [] OTHER -> FALSE
InUse(x, e) == \/ \E v \in Vms : NicUses(x, e.nic[v].profile)
               \/ x = "mac_pool" /\ e.pool = "temp"
               \/ x = "cluster" /\ (e.hosts \/ \E v \in e.moved : e.vm[v] # "absent")

EntityAnswer(c, e) ==
    LET x == c.on IN
    CASE c.do = "add" -> IF Parents(x) \subseteq e.has THEN Answer("ok", {[e EXCEPT !.has = @ \cup {x}]})
                         ELSE Answer("Error", {e})
      [] c.do = "remove" -> IF x \notin e.has THEN Answer("NotFoundError", {e})
                            ELSE IF InUse(x, e) THEN Answer("Error", {e})
                            ELSE Answer("ok", {[e EXCEPT !.has = @ \ Dependants(x)]})
      [] c.do = "remove_if_listed" -> Answer("ok", {[e EXCEPT !.has = @ \ {x}]})
      [] c.do = "set_pool" -> IF c.arg = "temp" /\ x \notin e.has THEN Answer("NotFoundError", {e})
                              ELSE Answer("ok", {[e EXCEPT !.pool = c.arg]})
      [] c.do = "set_sync" -> Answer("ok", {[e EXCEPT !.sync = c.arg]})
      [] c.do = "wait_until_empty" -> Answer(IF e.hosts THEN "Timeout" ELSE "ok", {e})
      [] c.do = "wait_jobs" -> Answer("ok", {e})

TemplateAnswer(c, e) ==
    CASE c.do = "find_repo" -> Answer(IF e.repo THEN "ok" ELSE "EntityNotFoundError", {e})
      [] c.do = "add" -> Answer("ok", {[e EXCEPT !.repo = TRUE]})
      [] c.do = "wait_repo" -> Answer(IF e.repo THEN "ok" ELSE "Timeout", {e})
      [] c.do = "get_template" -> Answer(IF e.template = "none" THEN "EntityNotFoundError" ELSE "ok", {e})
      [] c.do = "import_image" -> Answer("ok", {[e EXCEPT !.template = "locked"]})
                                  \cup Answer("ImageNotFoundError", {e})
      [] c.do = "wait_template" -> Answer(IF e.template = "ok" THEN "ok" ELSE "Timeout", {e})

DiskAnswer(c, e) ==
    CASE c.do = "add" -> Answer("ok", {[e EXCEPT !.disk = "locked"]})
      [] c.do = "wait_disk" -> Answer(IF e.disk = c.arg \/ e.disk = "attached" THEN "ok" ELSE "Timeout", {e})
      [] c.do = "attach" -> IF e.disk = "ok" THEN Answer("ok", {[e EXCEPT !.disk = "attached"]})
                            ELSE Answer("Error", {e})

\* a VM goes with its vNIC, its snapshot and the disk attached to it (of v1)
WithoutVm(e, v) == [e EXCEPT !.vm[v] = "absent", !.nic[v] = NoNic, !.snap[v] = "none",
                             !.disk = IF v = "v1" /\ @ = "attached" THEN "none" ELSE @]

ProfileExists(p, e) == p \in {"network", "profile"} => p \in e.has
Accepts(c, e) ==
    LET v == c.on  s == e.vm[c.on] IN
    CASE c.do = "start" -> s = "down" /\ e.snap[v] \notin {"locked", "previewing"}
      [] c.do = "stop" -> s \in {"powering_up", "up", "powering_down"}
      [] c.do = "remove_vm" -> s = "down" /\ e.snap[v] \notin {"locked", "previewing"} /\ e.dc
      [] c.do = "move" -> s = "down"
      [] c.do = "add_nic" -> s # "removing" /\ ProfileExists(c.arg, e)
      [] c.do = "set_profile" -> e.nic[v] # NoNic /\ ProfileExists(c.arg, e)
      [] c.do \in {"remove_nic", "unplug", "plug", "set_mac"} -> e.nic[v] # NoNic
      [] c.do = "snapshot" -> s \in {"down", "up"} /\ e.snap[v] = "none"
      [] c.do \in {"preview", "restore"} -> s = "down" /\ e.snap[v] = "ok"
      [] c.do \in {"undo", "commit"} -> s = "down" /\ e.snap[v] = "preview"

Effects(c, e) ==
    LET v == c.on IN
    CASE c.do = "start" -> {[e EXCEPT !.vm[v] = "powering_up"]}
      [] c.do = "stop" -> {[e EXCEPT !.vm[v] = s] : s \in {"powering_down", "down"}}
      [] c.do = "remove_vm" -> {WithoutVm(e, v), [e EXCEPT !.vm[v] = "removing"]}
      [] c.do = "move" -> {[e EXCEPT !.moved = @ \ {v}]}
      [] c.do = "add_nic" -> {[e EXCEPT !.nic[v] = [profile |-> c.arg, plugged |-> TRUE]]}
      [] c.do = "remove_nic" -> {[e EXCEPT !.nic[v] = NoNic]}
      [] c.do = "set_profile" -> {[e EXCEPT !.nic[v].profile = c.arg]}
      [] c.do \in {"unplug", "plug"} -> {[e EXCEPT !.nic[v].plugged = (c.do = "plug")]}
      [] c.do = "set_mac" -> {e}
      [] c.do \in {"snapshot", "restore", "undo"} -> {[e EXCEPT !.snap[v] = "locked"]}
      [] c.do = "preview" -> {[e EXCEPT !.snap[v] = "previewing"]}
      [] c.do = "commit" -> {[e EXCEPT !.snap[v] = "ok"]}

VmAnswer(c, e) ==
    LET v == c.on IN
    IF c.do = "add" THEN IF \/ c.arg = "cluster" /\ "cluster" \notin e.has
                            \/ c.arg = "cirros" /\ e.template # "ok" THEN Answer("Error", {e})
                         ELSE Answer("ok", {[e EXCEPT !.vm[v] = s, !.moved = IF c.arg = "cluster" THEN @ \cup {v} ELSE @]
                                                 : s \in {"locked", "down"}})
    ELSE IF e.vm[v] = "absent" THEN Answer("NotFoundError", {e})
    ELSE CASE c.do = "wait_vm" -> Answer(IF e.vm[v] \in c.arg THEN "ok" ELSE "Timeout", {e})
           [] c.do = "wait_dc" -> Answer(IF e.dc THEN "ok" ELSE "Timeout", {e})
           [] c.do = "wait_snapshot" -> Answer(IF e.snap[v] = c.arg THEN "ok" ELSE "Timeout", {e})
           [] OTHER -> IF Accepts(c, e) THEN Answer("ok", Effects(c, e))
                       ELSE Answer(IF c.do = "stop" THEN "not_running" ELSE "Error", {e})

\* VmSnapshot reads the status before it sends anything; restore commits what is in preview
SnapshotAnswer(c, e) ==
    CASE c.do = "restore" /\ e.snap[c.on] = "preview" -> VmAnswer(Cmd("commit", c.on, ""), e)
      [] c.do \in {"undo", "commit"} /\ e.vm[c.on] # "absent" /\ e.snap[c.on] # "preview" ->
             Answer("SnapshotNotInPreviewError", {e})
      [] OTHER -> VmAnswer(c, e)

Answers(c, e) == CASE c.on \in Vms -> SnapshotAnswer(c, e)
                   [] c.on = "disk" -> DiskAnswer(c, e)
                   [] c.on = "template" -> TemplateAnswer(c, e)
                   [] OTHER -> EntityAnswer(c, e)

\* an answer is lost after the command or before it; the SDK raises either way, reads of a wait
\* and the events that are added around it included
Faulty(c, e) == Answer("Error", {e} \cup {a.e : a \in Answers(c, e)})

\* what the caller sees of an sdk error: entities are created through _create_sdk_entity
Translate(c, r) ==
    IF c.do \in {"add", "add_nic", "snapshot"} /\ c.on # "assignment" /\ r \in SdkErrors
    THEN "EntityCreationError" ELSE r

Progress(e) ==
    {[e EXCEPT !.hosts = FALSE], [e EXCEPT !.dc = TRUE], [e EXCEPT !.disk = IF @ = "locked" THEN "ok" ELSE @],
     [e EXCEPT !.template = IF @ = "locked" THEN "ok" ELSE @]}
    \cup UNION {{[e EXCEPT !.vm[v] = CASE @ \in {"locked", "powering_down"} -> "down"
                                       [] @ = "powering_up" -> "up"
                                       [] OTHER -> @],
                 [e EXCEPT !.snap[v] = CASE @ = "locked" -> "ok" [] @ = "previewing" -> "preview" [] OTHER -> @],
                 IF e.vm[v] = "removing" THEN WithoutVm(e, v) ELSE e} : v \in Vms}

-----------------------------------------------------------------------------
(* The interpreter of a test.                                               *)

Rest(s, n) == SubSeq(s, n + 1, Len(s))
Push(ctx) == Cmd("push", ctx, [pool |-> engine.pool, sync |-> engine.sync, profile |-> engine.nic["v1"].profile,
                               view |-> View(ctx, engine, known)])
Pop(ctx) == Cmd("pop", ctx, "")

Opening(ctx) == Before(ctx) \o <<Push(ctx)>> \o Inside(ctx)
Closing == Finally(stack[1].on, stack[1].arg) \o <<Pop(stack[1].on)>>

\* an exception: in the body the way out begins, in a finally clause the rest of that clause is skipped
RaiseOutMut(x, err) ==
    /\ raised' = err
    /\ failed' = failed \cup {<<x, err>>}
    /\ todo' = << >>
    /\ leaving' = TRUE
    /\ stack' = IF leaving THEN << >> ELSE stack
    /\ UNCHANGED known
Raise(x, err) ==
    /\ raised' = err
    /\ failed' = failed \cup {<<x, err>>}
    /\ todo' = << >>
    /\ leaving' = TRUE
    /\ stack' = IF leaving THEN Tail(stack) ELSE stack
    /\ UNCHANGED known

Perform(c, a) ==
    /\ engine' = a.e
    /\ IF a.r = "ok"
       THEN /\ todo' = Rest(todo, c.ok)
            /\ known' = IF c.do = "add" /\ c.on \in Vms THEN known \cup {c.on} ELSE known
            /\ UNCHANGED <<stack, leaving, raised, failed>>
       ELSE IF Translate(c, a.r) \in c.caught
       THEN todo' = Rest(todo, c.to) /\ UNCHANGED <<stack, leaving, raised, known, failed>>
       ELSE Raise(c.on, Translate(c, a.r))

Scoping == {"push", "pop"}

Command == /\ todo # << >> /\ todo[1].do \notin Scoping
           /\ \E a \in Answers(todo[1], engine) : Perform(todo[1], a)
           /\ UNCHANGED <<test, at, faults>>

Fault == /\ todo # << >> /\ todo[1].do \notin Scoping
         /\ faults < MaxFaults /\ faults' = faults + 1
         /\ \E a \in Faulty(todo[1], engine) : Perform(todo[1], a)
         /\ UNCHANGED <<test, at>>

EnterTry == /\ todo # << >> /\ todo[1].do = "push"
            /\ stack' = <<todo[1]>> \o stack
            /\ todo' = Tail(todo)
            /\ UNCHANGED <<engine, test, at, leaving, raised, known, failed, faults>>

EndFinally == /\ todo # << >> /\ todo[1].do = "pop"
              /\ stack' = Tail(stack)
              /\ todo' = Tail(todo)
              /\ UNCHANGED <<engine, test, at, leaving, raised, known, failed, faults>>

Body == todo = << >> /\ ~leaving

NextItem == /\ Body /\ at <= Len(Script(test))
            /\ LET item == Script(test)[at] IN
               todo' = IF item[1] = "with" THEN Opening(item[2]) ELSE item[2]
            /\ at' = at + 1
            /\ UNCHANGED <<engine, test, stack, leaving, raised, known, failed, faults>>

\* an assert of the test, or anything else that is raised in its body
BodyFails == /\ Body /\ faults < MaxFaults /\ faults' = faults + 1
             /\ Raise("body", "AssertionError")
             /\ UNCHANGED <<engine, test, at>>

BodyEnds == /\ Body /\ at > Len(Script(test))
            /\ leaving' = TRUE
            /\ UNCHANGED <<engine, todo, test, at, stack, raised, known, failed, faults>>

BeginFinally == /\ leaving /\ todo = << >> /\ stack # << >>
                /\ todo' = Closing
                /\ UNCHANGED <<engine, test, at, stack, leaving, raised, known, failed, faults>>

Engine == /\ engine' \in Progress(engine) \ {engine}
          /\ UNCHANGED <<todo, test, at, stack, leaving, raised, known, failed, faults>>

Over == leaving /\ todo = << >> /\ stack = << >>
Terminated == Over /\ UNCHANGED vars

Init == /\ engine \in [has : {{}}, vm : {[v \in Vms |-> "absent"]}, nic : {[v \in Vms |-> NoNic]},
                       snap : {[v \in Vms |-> "none"]}, disk : {"none"}, repo : BOOLEAN, template : {"none", "ok"}, moved : {{}}, pool : {"home"},
                       sync : BOOLEAN, hosts : BOOLEAN, dc : BOOLEAN]
        /\ test \in Tests /\ at = 1
        /\ todo = << >> /\ stack = << >> /\ leaving = FALSE /\ raised = "none"
        /\ known = {} /\ failed = {} /\ faults = 0

Next == \/ NextItem \/ BodyFails \/ BodyEnds \/ EnterTry \/ Command \/ Fault
        \/ BeginFinally \/ EndFinally \/ Engine \/ Terminated

Spec == Init /\ [][Next]_vars

-----------------------------------------------------------------------------
Errors == SdkErrors \cup {"Timeout", "EntityCreationError", "SnapshotNotInPreviewError",
                          "ImageNotFoundError", "AssertionError"}

\* The engine's entities, the frames and the exception are of their kinds; a frame is open once.
TypeOK ==
    /\ engine.has \subseteq Entities /\ engine.vm \in [Vms -> VmStates]
    /\ engine.nic \in [Vms -> [profile : {"none", "default", "network", "profile"}, plugged : BOOLEAN]]
    /\ engine.snap \in [Vms -> {"none", "locked", "ok", "previewing", "preview"}]
    /\ engine.disk \in {"none", "locked", "ok", "attached"} /\ engine.pool \in {"home", "temp"}
    /\ engine.repo \in BOOLEAN /\ engine.template \in {"none", "locked", "ok"}
    /\ engine.moved \subseteq Vms /\ known \subseteq Vms
    /\ raised \in Errors \cup {"none"}
    /\ \A i, j \in DOMAIN stack : stack[i].on \in Contexts /\ (stack[i].on = stack[j].on => i = j)
    /\ at \in 1 .. Len(Script(test)) + 1 /\ faults \in 0 .. MaxFaults

\* A finally clause that runs to its end leaves what its context owns as it was before the `with`,
\* whatever was raised inside, refused on the way in, or still going on in the engine.
ExitRestores == [][EndFinally => View(stack[1].on, engine', known) = stack[1].arg.view]_vars

\* Whatever a test leaves in the engine, it leaves because a command about that very thing failed
\* (for a VM: about it or a VM behind it in its pool, which is removed first; an assignment that
\* has no context of its own goes with its network): an exception in one
\* context never keeps another context from cleaning up.
LeftBy(x) == \E f \in failed : f[1] = x
LeftOnlyByOwnFailure ==
    Over => /\ \A x \in engine.has : LeftBy(x) \/ (x = "assignment" /\ LeftBy("network"))
            /\ engine.pool = "temp" => LeftBy("mac_pool")
            /\ \A i \in DOMAIN Pool : ~Gone(engine, Pool[i]) => \E j \in DOMAIN Pool : j >= i /\ LeftBy(Pool[j])

\* Vm.remove is never reported as failed because the VM is gone already: an answer that was lost
\* to the first removal makes the second one find nothing, which is what was wanted.
NotFoundIsSuccess == \A v \in Vms : <<v, "NotFoundError">> \notin failed

=============================================================================
