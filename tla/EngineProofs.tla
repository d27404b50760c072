---------------------------- MODULE EngineProofs ----------------------------
(* What EngineSession guarantees for any number of faults.                   *)
EXTENDS EngineSession, TLAPS

(* The invariant.                                                            *)

Profiles == {"none", "default", "network", "profile"}
Nics == [profile : Profiles, plugged : BOOLEAN]
Pools == {"home", "temp"}
Engines == [has : SUBSET Entities, vm : [Vms -> VmStates], nic : [Vms -> Nics],
            snap : [Vms -> {"none", "locked", "ok", "previewing", "preview"}],
            disk : {"none", "locked", "ok", "attached"}, repo : BOOLEAN,
            template : {"none", "locked", "ok"}, moved : SUBSET Vms, pool : Pools,
            sync : BOOLEAN, hosts : BOOLEAN, dc : BOOLEAN]

\* What a frame remembers.  Nothing that a context owns is there when it is entered.
GivenNic == [profile |-> "network", plugged |-> TRUE]
ViewsOf == BOOLEAN \cup (BOOLEAN \X Pools) \cup (SUBSET Vms) \cup Nics
Memories == [pool : Pools, sync : BOOLEAN, profile : Profiles, view : ViewsOf]
Remembers(ctx, was) ==
    /\ ctx \in Entities \ {"mac_pool"} => was.view = FALSE
    /\ ctx = "mac_pool" => was.view = <<FALSE, "home">> /\ was.pool = "home"
    /\ ctx = "vm_pool" => was.view = {}
    /\ ctx = "toggle" => was.view = GivenNic /\ was.profile = "network"
    /\ ctx = "auto_sync" => was.view = was.sync

\* The commands that there are, by what they are about.
NicDos == {"add_nic", "remove_nic", "set_profile", "unplug", "plug"}
VmDos == NicDos \cup {"add", "start", "stop", "remove_vm", "move", "set_mac", "snapshot", "restore", "undo",
                      "preview", "commit", "wait_vm", "wait_dc", "wait_snapshot"}
TemplateDos == {"find_repo", "add", "wait_repo", "get_template", "import_image", "wait_template"}
Legal(c) ==
    \/ /\ c.on \in Vms /\ c.do \in VmDos
       /\ c.do = "stop" => "not_running" \in c.caught
       /\ c.do \in {"add_nic", "set_profile"} => c.arg \in Profiles
    \/ c.on = "disk" /\ c.do \in {"add", "wait_disk", "attach"}
    \/ /\ c.on = "template" /\ c.do \in TemplateDos
       /\ c.do \in {"find_repo", "get_template"} => "EntityNotFoundError" \in c.caught
    \/ c.on \in Entities /\ c.do \in {"add", "remove"}
    \/ c.on = "qos" /\ c.do = "remove_if_listed"
    \/ c.on = "cluster" /\ c.do = "wait_until_empty"
    \/ c.on = "mac_pool" /\ c.do = "set_pool" /\ c.arg \in Pools
    \/ c.on = "auto_sync" /\ c.do = "set_sync" /\ c.arg \in BOOLEAN
    \/ c.on = "jobs" /\ c.do = "wait_jobs"
    \/ c.on \in Contexts /\ c.do = "push" /\ c.arg.pool \in Pools /\ c.arg.sync \in BOOLEAN /\ Remembers(c.on, c.arg)
    \/ c.on \in Contexts /\ c.do = "pop"
Plain(c) == c.ok = 1 /\ c.caught = {} /\ c.to = 1
IsCommand(c) == Legal(c) /\ (c.on \notin Vms \cup {"template"} => Plain(c)) /\ (c.do \in {"add"} => Plain(c))
Dos == VmDos \cup TemplateDos \cup {"wait_disk", "attach", "remove", "remove_if_listed", "wait_until_empty",
                                    "set_pool", "set_sync", "wait_jobs", "push", "pop"}
Ons == Vms \cup Contexts \cup {"disk", "template", "jobs"}
Words == Pools \cup Profiles \cup Vms \cup {"", "cluster", "cirros", "ok", "preview", "attached"}
Arguments == Words \cup BOOLEAN \cup (SUBSET VmStates) \cup Memories
Caught == Errors \cup {"not_running", "EntityNotFoundError"}
Commands == {c \in [do : Dos, on : Ons, arg : Arguments, ok : 1 .. 3, caught : SUBSET Caught, to : 1 .. 2] :
                IsCommand(c)}
Frames == {c \in Commands : c.do = "push"}

\* What a test may leave behind, whose failed commands it may be left by, and which contexts
\* remove it: in the OVN test the assignment goes with its network.
Things == Entities \cup {"temp"} \cup Vms
Present(e, x) == \/ x \in Entities /\ x \in e.has
                 \/ x = "temp" /\ e.pool = "temp"
                 \/ x \in Vms /\ ~Gone(e, x)
Blame(x) == CASE x = "assignment" -> {"assignment", "network"}
              [] x = "temp" -> {"mac_pool"}
              [] x = "v1" -> {"v1", "v2"}
              [] OTHER -> {x}
Owner(x) == CASE x = "assignment" /\ test = "ovn" -> "network"
              [] x = "temp" -> "mac_pool"
              [] x \in Vms -> "vm_pool"
              [] OTHER -> x
Blamed(x) == \E y \in Blame(x) : LeftBy(y)

Adds(c, x) == \/ c.do = "add" /\ c.on = x
              \/ c.do = "set_pool" /\ c.arg = "temp" /\ x = "temp"
Removes(c, x) == \/ c.do \in {"remove", "remove_if_listed"} /\ c.on = Owner(x) /\ x \in Entities
                 \/ c.do = "set_pool" /\ c.arg = "home" /\ x = "temp"
                 \/ c.do = "remove_vm" /\ c.on = x /\ c.ok = 1 /\ c.caught = {"NotFoundError"}

\* Whatever command c is answered, while x is there the commands go on no further than n from here.
Reaches(c, x, n) ==
    /\ c.ok <= n \/ (c.do = "remove_vm" /\ c.on = x)
    /\ c.caught = {} \/ c.to <= n \/ (c.caught = {"NotFoundError"} /\ c.on = x)
\* The commands remove x, or one fails that x may be left by.
Clears(cs, x) ==
    \E k \in DOMAIN cs : /\ Removes(cs[k], x)
                         /\ \A j \in 1 .. k : cs[j].on \in Blame(x) /\ (j < k => Reaches(cs[j], x, k - j))

IsOpen(ctx) == \E i \in DOMAIN stack : stack[i].on = ctx
Pushes(cs, ctx) == \E k \in DOMAIN cs : cs[k].do = "push" /\ cs[k].on = ctx
Needs(c) == c.do # "add" /\ "NotFoundError" \notin c.caught
Creates(cs, v) == Len(cs) = 1 /\ cs[1].do = "add" /\ cs[1].on = v
Closes == leaving /\ todo # << >>

TypeInv ==
    /\ engine \in Engines
    /\ todo \in Seq(Commands) /\ stack \in Seq(Frames)
    /\ test \in Tests /\ at \in Nat /\ faults \in 0 .. MaxFaults
    /\ leaving \in BOOLEAN /\ known \subseteq Vms /\ raised \in Errors \cup {"none"}
    /\ failed # {} => leaving
    /\ \A i, j \in DOMAIN stack : stack[i].on = stack[j].on => i = j

\* The body of the test: what its script says has been done so far, and what a call may do.
ScriptInv ==
    /\ at \in 1 .. Len(Script(test)) + 1
    /\ \A i \in DOMAIN stack : \E j \in 1 .. at - 1 : Script(test)[j] = With(stack[i].on)
    /\ ~leaving =>
        /\ todo # << >> => at > 1
        /\ \A j \in 1 .. at - 1 : LET item == Script(test)[j] IN
              /\ item[1] = "with" => IsOpen(item[2]) \/ Pushes(todo, item[2])
              /\ item[1] = "call" => \A v \in Vms : Creates(item[2], v) => v \in known \/ Creates(todo, v)
        /\ \A v \in known : \E j \in 1 .. at - 1 : Script(test)[j][1] = "call" /\ Creates(Script(test)[j][2], v)

BodyInv ==
    ~leaving => \A k \in DOMAIN todo : LET c == todo[k] IN
        /\ c.do \notin {"pop", "remove_vm", "remove", "remove_if_listed"}
        /\ c.do = "push" => /\ ~IsOpen(c.on) /\ Script(test)[at - 1] = With(c.on)
                            /\ \A j \in DOMAIN todo : todo[j].do = "push" => j = k
                            /\ \A j \in DOMAIN todo : j < k => Plain(todo[j])
        /\ \A x \in Things : Adds(c, x) =>
              IsOpen(Owner(x)) \/ \E j \in DOMAIN todo : j <= k + 1 /\ todo[j].do = "push" /\ todo[j].on = Owner(x)
        /\ c.on \in Vms /\ c.do = "add" => Len(todo) = 1 /\ Script(test)[at - 1] = Call(todo)
        /\ c.do = "set_sync" => c.arg = FALSE

\* A finally clause: its commands end with the pop of its frame.
ClosesFrame(cs, frame) ==
    \A k \in DOMAIN cs : LET c == cs[k] IN
        /\ c.do # "push"
        /\ c.do = "pop" <=> k = Len(cs)
        /\ k < Len(cs) => k + c.ok <= Len(cs) /\ k + c.to <= Len(cs)
        /\ \A x \in Things : ~Adds(c, x)
        /\ c.do = "remove_vm" => /\ frame.on = "vm_pool"
                                 /\ \A j \in DOMAIN cs : j > k /\ cs[j].on = c.on => ~Needs(cs[j])
        /\ c.do = "set_sync" => frame.on = "auto_sync" /\ c.arg = frame.arg.sync
        /\ c.do \in NicDos => frame.on = "toggle"
CloseInv == Closes => stack # << >> /\ ClosesFrame(todo, stack[1])

\* The VMs of the test are there until the pool removes them.
VmInv ==
    /\ \A v \in known : Gone(engine, v) =>
           leaving /\ \A i \in DOMAIN stack : stack[i].on = "vm_pool" => i = 1 /\ todo # << >>
    /\ \A k \in DOMAIN todo : todo[k].on \in Vms /\ Needs(todo[k]) =>
           todo[k].on \in known /\ ~Gone(engine, todo[k].on)

\* The vNIC that is toggled, and the automatic synchronisation.
Toggled(cs) ==
    \/ /\ Len(cs) = 4 /\ cs[1].do = "unplug" /\ cs[2].do = "set_profile" /\ cs[3].do = "plug"
       /\ cs[1].on = "v1" /\ cs[2].on = "v1" /\ cs[3].on = "v1" /\ cs[2].arg = "network"
       /\ Plain(cs[1]) /\ Plain(cs[2]) /\ Plain(cs[3])
    \/ /\ Len(cs) = 3 /\ cs[1].do = "set_profile" /\ cs[2].do = "plug"
       /\ cs[1].on = "v1" /\ cs[2].on = "v1" /\ cs[1].arg = "network"
       /\ Plain(cs[1]) /\ Plain(cs[2])
    \/ /\ Len(cs) = 2 /\ cs[1].do = "plug" /\ cs[1].on = "v1" /\ Plain(cs[1])
       /\ engine.nic["v1"].profile = "network"
    \/ /\ Len(cs) = 1 /\ engine.nic["v1"] = GivenNic
ToggleInv ==
    /\ \A i \in DOMAIN stack : stack[i].on = "toggle" =>
           "v1" \in known /\ \E j \in DOMAIN stack : j > i /\ stack[j].on = "vm_pool"
    /\ Pushes(todo, "toggle") => "v1" \in known /\ IsOpen("vm_pool")
    /\ Closes /\ stack[1].on = "toggle" => Toggled(todo)
    /\ test = "ovn" /\ ~leaving /\ at \in 8 .. 12 =>
           /\ "v1" \in known
           /\ \/ at = 8 /\ todo = CreateVnic("v1", "network")
              \/ /\ engine.nic["v1"] = GivenNic
                 /\ \A k \in DOMAIN todo : todo[k].do \notin NicDos
SyncInv ==
    /\ \A i \in DOMAIN stack : stack[i].on = "auto_sync" => ~engine.sync \/ (Closes /\ i = 1)
    /\ \A k \in DOMAIN todo : todo[k].do = "push" /\ todo[k].on = "auto_sync" =>
           ~engine.sync \/ (k = 2 /\ todo[1].do = "set_sync")
    /\ Closes /\ stack[1].on = "auto_sync" =>
           \/ Len(todo) = 1 /\ engine.sync = stack[1].arg.sync
           \/ Len(todo) = 2 /\ todo[1].do = "set_sync"

\* Whatever is there will be removed by the finally clause that runs, which has not come to that,
\* and by that of its owner, or is left by a command that failed.
RemovalInv ==
    Closes => \A x \in Things : Present(engine, x) /\ Owner(x) = stack[1].on /\ (x \in Vms => x \in known)
                  => Clears(todo, x)
LeftInv ==
    \A x \in Things : Present(engine, x) =>
        \/ Blamed(x)
        \/ IsOpen(Owner(x)) /\ (x \in Vms => x \in known)
        \/ x \notin Vms /\ todo # << >> /\ todo[1].do = "push" /\ todo[1].on = Owner(x)
NotFoundInv == NotFoundIsSuccess

IInv == /\ TypeInv /\ ScriptInv /\ BodyInv /\ CloseInv /\ VmInv /\ ToggleInv /\ SyncInv
        /\ RemovalInv /\ LeftInv /\ NotFoundInv
-----------------------------------------------------------------------------
(* What the engine answers.                                                  *)

Results == {"ok", "Error", "NotFoundError", "Timeout", "not_running", "SnapshotNotInPreviewError",
            "EntityNotFoundError", "ImageNotFoundError"}

\* All that the invariant says of an answer a to command c in engine e.
Answered(c, e, a) ==
    /\ a.e \in Engines /\ a.r \in Results
    /\ a.r = "not_running" => "not_running" \in c.caught
    /\ a.r = "EntityNotFoundError" => "EntityNotFoundError" \in c.caught
    /\ \A x \in Entities : x \in a.e.has => x \in e.has \/ (c.do = "add" /\ c.on = x)
    /\ c.do \in {"remove", "remove_if_listed"} /\ a.r = "ok" =>
           c.on \notin a.e.has /\ (c.on = "network" => "assignment" \notin a.e.has)
    /\ a.e.pool = e.pool \/ (c.do = "set_pool" /\ a.e.pool = c.arg)
    /\ c.do = "set_pool" /\ a.r = "ok" => a.e.pool = c.arg
    /\ a.e.sync = e.sync \/ (c.do = "set_sync" /\ a.e.sync = c.arg)
    /\ c.do = "set_sync" /\ a.r = "ok" => a.e.sync = c.arg
    /\ \A v \in Vms : Gone(a.e, v) => Gone(e, v) \/ (c.do = "remove_vm" /\ c.on = v)
    /\ \A v \in Vms : ~Gone(a.e, v) => ~Gone(e, v) \/ (c.do = "add" /\ c.on = v)
    /\ c.do = "add" /\ c.on \in Vms => a.r # "NotFoundError" /\ (a.r = "ok" => ~Gone(a.e, c.on))
    /\ c.do = "remove_vm" /\ a.r = "ok" => Gone(a.e, c.on)
    /\ c.on \in Vms /\ a.r = "NotFoundError" => e.vm[c.on] = "absent"
    /\ c.do \notin NicDos \cup {"remove_vm"} => a.e.nic = e.nic
    /\ c.do = "add_nic" /\ a.r = "ok" => a.e.nic[c.on] = [profile |-> c.arg, plugged |-> TRUE]
    /\ c.do = "set_profile" /\ a.r = "ok" => a.e.nic[c.on].profile = c.arg
    /\ c.do = "plug" /\ a.r = "ok" =>
           a.e.nic[c.on].profile = e.nic[c.on].profile /\ a.e.nic[c.on].plugged = TRUE

\* What the engine answers to a command about an entity.
LEMMA EntityAnswered ==
    ASSUME NEW c \in Commands, c.do \notin Scoping, c.on \in Entities \cup {"auto_sync", "jobs"},
           NEW e \in Engines, NEW a \in EntityAnswer(c, e)
    PROVE  Answered(c, e, a)
<1>1. /\ c.on \notin Vms /\ c.on \notin {"disk", "template"}
      /\ c.do \in {"add", "remove", "remove_if_listed", "set_pool", "set_sync", "wait_until_empty", "wait_jobs"}
      /\ c.do = "set_pool" => c.arg \in Pools
      /\ c.do = "set_sync" => c.arg \in BOOLEAN
      /\ c.do \in {"add", "remove", "remove_if_listed"} => c.on \in Entities
  BY DEF Commands, IsCommand, Legal, Entities, Vms, Scoping
<1>2. CASE c.do = "add"
  BY <1>1, <1>2 DEF EntityAnswer, Answer, Answered, Results, Engines, Gone, NicDos
<1>3. CASE c.do = "remove"
  BY <1>1, <1>3 DEF EntityAnswer, Answer, Answered, Results, Engines, Gone, NicDos, Dependants
<1>4. CASE c.do = "remove_if_listed"
  <2>1. c.on = "qos"
    BY <1>1, <1>4 DEF Commands, IsCommand, Legal, VmDos, NicDos, TemplateDos
  <2> QED  BY <1>1, <1>4, <2>1 DEF EntityAnswer, Answer, Answered, Results, Engines, Gone, NicDos
<1>5. CASE c.do = "set_pool"
  BY <1>1, <1>5 DEF EntityAnswer, Answer, Answered, Results, Engines, Gone, NicDos
<1>6. CASE c.do = "set_sync"
  BY <1>1, <1>6 DEF EntityAnswer, Answer, Answered, Results, Engines, Gone, NicDos
<1>7. CASE c.do \in {"wait_until_empty", "wait_jobs"}
  BY <1>1, <1>7 DEF EntityAnswer, Answer, Answered, Results, Engines, Gone, NicDos
<1> QED  BY <1>1, <1>2, <1>3, <1>4, <1>5, <1>6, <1>7

\* What it answers about the image repository and the template.
LEMMA TemplateAnswered ==
    ASSUME NEW c \in Commands, c.do \notin Scoping, c.on = "template",
           NEW e \in Engines, NEW a \in TemplateAnswer(c, e)
    PROVE  Answered(c, e, a)
<1>1. c.on \notin Vms /\ c.do \in TemplateDos
      /\ (c.do \in {"find_repo", "get_template"} => "EntityNotFoundError" \in c.caught)
  BY DEF Commands, IsCommand, Legal, Entities, Contexts, Vms, Scoping
<1>2. /\ a.e \in Engines /\ a.r \in {"ok", "EntityNotFoundError", "Timeout", "ImageNotFoundError"}
      /\ a.r = "EntityNotFoundError" => c.do \in {"find_repo", "get_template"}
      /\ a.r # "ok" => a.e = e
      /\ a.e.has = e.has /\ a.e.pool = e.pool /\ a.e.sync = e.sync /\ a.e.vm = e.vm /\ a.e.nic = e.nic
  <2>1. CASE c.do = "find_repo"
    BY <2>1 DEF TemplateAnswer, Answer
  <2>2. CASE c.do = "add"
    <3>1. a.r = "ok" /\ a.e = [e EXCEPT !.repo = TRUE]
      BY <2>2 DEF TemplateAnswer, Answer
    <3> QED  BY <2>2, <3>1 DEF Engines
  <2>3. CASE c.do = "wait_repo"
    BY <2>3 DEF TemplateAnswer, Answer
  <2>4. CASE c.do = "get_template"
    BY <2>4 DEF TemplateAnswer, Answer
  <2>5. CASE c.do = "import_image"
    BY <2>5 DEF TemplateAnswer, Answer, Engines
  <2>6. CASE c.do = "wait_template"
    BY <2>6 DEF TemplateAnswer, Answer
  <2> QED  BY <1>1, <2>1, <2>2, <2>3, <2>4, <2>5, <2>6 DEF TemplateDos
<1>3. c.on \notin Entities
  BY DEF Entities
<1> QED  BY <1>1, <1>2, <1>3 DEF Answered, Results, TemplateDos, Gone

\* What it answers about the disk.
LEMMA DiskAnswered ==
    ASSUME NEW c \in Commands, c.do \notin Scoping, c.on = "disk",
           NEW e \in Engines, NEW a \in DiskAnswer(c, e)
    PROVE  Answered(c, e, a)
<1>1. c.on \notin Vms /\ c.on \notin Entities /\ c.do \in {"add", "wait_disk", "attach"}
  BY DEF Commands, IsCommand, Legal, Entities, Contexts, Vms, Scoping
<1>2. /\ a.e \in Engines /\ a.r \in {"ok", "Error", "Timeout"}
      /\ a.r # "ok" => a.e = e
      /\ a.e.has = e.has /\ a.e.pool = e.pool /\ a.e.sync = e.sync /\ a.e.vm = e.vm /\ a.e.nic = e.nic
  BY <1>1 DEF DiskAnswer, Answer, Engines
<1> QED  BY <1>1, <1>2 DEF Answered, Results, Gone

\* A command that catches nothing.
LEMMA CmdShape ==
    ASSUME NEW do \in Dos, NEW on \in Ons, NEW arg \in Arguments
    PROVE  Cmd(do, on, arg) \in [do : Dos, on : Ons, arg : Arguments, ok : 1 .. 3, caught : SUBSET Caught, to : 1 .. 2]
BY DEF Cmd

\* The disk goes with v1, the vNIC and the snapshot with their VM.
LEMMA WithoutVmEffect ==
    ASSUME NEW e \in Engines, NEW v \in Vms
    PROVE  LET f == WithoutVm(e, v) IN
           /\ f \in Engines
           /\ f.has = e.has /\ f.pool = e.pool /\ f.sync = e.sync
           /\ f.vm = [e.vm EXCEPT ![v] = "absent"]
           /\ f.nic = [e.nic EXCEPT ![v] = NoNic]
BY DEF WithoutVm, Engines, VmStates, Nics, NoNic, Profiles

\* The effect of a command that the engine accepts for a VM.
LEMMA VmEffect ==
    ASSUME NEW c \in Commands, c.on \in Vms, c.do \in VmDos \ {"add", "wait_vm", "wait_dc", "wait_snapshot"},
           NEW e \in Engines, e.vm[c.on] # "absent", Accepts(c, e), NEW f \in Effects(c, e)
    PROVE  /\ f \in Engines /\ f.has = e.has /\ f.pool = e.pool /\ f.sync = e.sync
           /\ c.do # "remove_vm" => \A v \in Vms : Gone(f, v) <=> Gone(e, v)
           /\ c.do = "remove_vm" => Gone(f, c.on) /\ \A v \in Vms \ {c.on} : Gone(f, v) <=> Gone(e, v)
           /\ c.do \notin NicDos \cup {"remove_vm"} => f.nic = e.nic
           /\ c.do = "add_nic" => f.nic[c.on] = [profile |-> c.arg, plugged |-> TRUE]
           /\ c.do = "set_profile" => f.nic[c.on].profile = c.arg
           /\ c.do = "plug" => f.nic[c.on].profile = e.nic[c.on].profile /\ f.nic[c.on].plugged = TRUE
<1> DEFINE v == c.on
           s == e.vm[v]
<1>1. /\ v \in Vms /\ s \in VmStates /\ s # "absent" /\ e.nic[v] \in Nics
      /\ c.do \in {"add_nic", "set_profile"} => c.arg \in Profiles
  BY DEF Engines, Commands, IsCommand, Legal, Vms, Entities, Contexts
<1>2. CASE c.do = "start"
  <2>1. s = "down" /\ f = [e EXCEPT !.vm[v] = "powering_up"]
    BY <1>2 DEF Accepts, Effects
  <2> QED  BY <1>1, <1>2, <2>1 DEF Engines, VmStates, Gone, NicDos
<1>3. CASE c.do = "stop"
  <2>1. s \in {"powering_up", "up", "powering_down"}
    BY <1>3 DEF Accepts
  <2>2. PICK t \in {"powering_down", "down"} : f = [e EXCEPT !.vm[v] = t]
    BY <1>3 DEF Effects
  <2> QED  BY <1>1, <1>3, <2>1, <2>2 DEF Engines, VmStates, Gone, NicDos
<1>4. CASE c.do = "remove_vm"
  <2>1. CASE f = WithoutVm(e, v)
    <3>1. /\ f \in Engines /\ f.has = e.has /\ f.pool = e.pool /\ f.sync = e.sync
          /\ f.vm = [e.vm EXCEPT ![v] = "absent"]
      BY <1>1, <2>1, WithoutVmEffect
    <3>2. e.vm \in [Vms -> VmStates]
      BY DEF Engines
    <3> QED  BY <1>1, <1>4, <3>1, <3>2 DEF Gone, NicDos
  <2>2. CASE f = [e EXCEPT !.vm[v] = "removing"]
    BY <1>1, <1>4, <2>2 DEF Engines, VmStates, Gone, NicDos
  <2> QED  BY <1>4, <2>1, <2>2 DEF Effects
<1>5. CASE c.do = "move"
  <2>1. f = [e EXCEPT !.moved = @ \ {v}]
    BY <1>5 DEF Effects
  <2> QED  BY <1>1, <1>5, <2>1 DEF Engines, Gone, NicDos
<1>6. CASE c.do = "add_nic"
  <2>1. f = [e EXCEPT !.nic[v] = [profile |-> c.arg, plugged |-> TRUE]]
    BY <1>6 DEF Effects
  <2> QED  BY <1>1, <1>6, <2>1 DEF Engines, Gone, NicDos, Nics
<1>7. CASE c.do = "remove_nic"
  <2>1. f = [e EXCEPT !.nic[v] = NoNic]
    BY <1>7 DEF Effects
  <2> QED  BY <1>1, <1>7, <2>1 DEF Engines, Gone, NicDos, Nics, NoNic, Profiles
<1>8. CASE c.do = "set_profile"
  <2>1. f = [e EXCEPT !.nic[v].profile = c.arg]
    BY <1>8 DEF Effects
  <2> QED  BY <1>1, <1>8, <2>1 DEF Engines, Gone, NicDos, Nics
<1>9. CASE c.do \in {"unplug", "plug"}
  <2>1. f = [e EXCEPT !.nic[v].plugged = (c.do = "plug")]
    BY <1>9 DEF Effects
  <2>2. CASE c.do = "plug"
    BY <1>1, <2>1, <2>2 DEF Engines, Gone, NicDos, Nics
  <2>3. CASE c.do = "unplug"
    BY <1>1, <2>1, <2>3 DEF Engines, Gone, NicDos, Nics
  <2> QED  BY <1>9, <2>2, <2>3
<1>10. CASE c.do = "set_mac"
  BY <1>1, <1>10 DEF Effects, NicDos
<1>11. CASE c.do \in {"snapshot", "restore", "undo"}
  <2>1. f = [e EXCEPT !.snap[v] = "locked"]
    BY <1>11 DEF Effects
  <2> QED  BY <1>1, <1>11, <2>1 DEF Engines, Gone, NicDos
<1>12. CASE c.do = "preview"
  <2>1. f = [e EXCEPT !.snap[v] = "previewing"]
    BY <1>12 DEF Effects
  <2> QED  BY <1>1, <1>12, <2>1 DEF Engines, Gone, NicDos
<1>13. CASE c.do = "commit"
  <2>1. f = [e EXCEPT !.snap[v] = "ok"]
    BY <1>13 DEF Effects
  <2> QED  BY <1>1, <1>13, <2>1 DEF Engines, Gone, NicDos
<1> QED
  BY <1>2, <1>3, <1>4, <1>5, <1>6, <1>7, <1>8, <1>9, <1>10, <1>11, <1>12, <1>13 DEF VmDos, NicDos

\* What the engine answers to a command about a VM.
LEMMA VmAnswered ==
    ASSUME NEW c \in Commands, c.on \in Vms, c.do \in VmDos,
           NEW e \in Engines, NEW a \in VmAnswer(c, e)
    PROVE  Answered(c, e, a)
<1>1. /\ e.vm[c.on] \in VmStates /\ c.on \notin Entities
      /\ c.do \notin {"set_pool", "set_sync", "remove", "remove_if_listed"}
      /\ c.do = "stop" => "not_running" \in c.caught
  BY DEF Engines, Commands, IsCommand, Legal, VmDos, NicDos, Vms, Entities, Contexts
<1>2. CASE c.do = "add"
  <2>1. CASE a.r = "Error" /\ a.e = e
    BY <1>1, <1>2, <2>1 DEF Answered, Results, NicDos
  <2>2. CASE a.r = "ok" /\ \E s \in {"locked", "down"} :
                 a.e = [e EXCEPT !.vm[c.on] = s, !.moved = IF c.arg = "cluster" THEN @ \cup {c.on} ELSE @]
    <3>1. PICK s \in {"locked", "down"} :
              a.e = [e EXCEPT !.vm[c.on] = s, !.moved = IF c.arg = "cluster" THEN @ \cup {c.on} ELSE @]
      BY <2>2
    <3>2. /\ a.e \in Engines /\ a.e.has = e.has /\ a.e.pool = e.pool /\ a.e.sync = e.sync /\ a.e.nic = e.nic
          /\ a.e.vm = [e.vm EXCEPT ![c.on] = s]
      <4> DEFINE m == IF c.arg = "cluster" THEN e.moved \cup {c.on} ELSE e.moved
      <4>1. m \in SUBSET Vms
        BY DEF Engines
      <4> HIDE DEF m
      <4>2. PICK v, f : v \in Vms /\ v = c.on /\ f = a.e /\ f = [e EXCEPT !.vm[v] = s, !.moved = m]
        BY <3>1 DEF m
      <4>5. f = [e EXCEPT !.vm[v] = s, !.moved = m]
        BY <4>2
      <4>3. /\ f.has = e.has /\ f.pool = e.pool /\ f.sync = e.sync /\ f.nic = e.nic
            /\ f.vm = [e.vm EXCEPT ![v] = s]
        BY <4>2 DEF Engines
      <4>4. f \in Engines
        BY <4>1, <4>5 DEF Engines, VmStates
      <4> QED  BY <4>2, <4>3, <4>4
    <3>3. e.vm \in [Vms -> VmStates]
      BY DEF Engines
    <3> QED  BY <1>1, <1>2, <2>2, <3>2, <3>3 DEF Answered, Results, NicDos, Gone
  <2> QED  BY <1>2, <2>1, <2>2 DEF VmAnswer, Answer
<1>3. CASE c.do # "add" /\ a.e = e /\ a.r \in {"ok", "Timeout"} /\ c.do \in {"wait_vm", "wait_dc", "wait_snapshot"}
  BY <1>1, <1>3 DEF Answered, Results, NicDos
<1>4. CASE c.do # "add" /\ a.e = e /\ a.r \in {"NotFoundError", "Error", "not_running"}
           /\ (a.r = "NotFoundError" => e.vm[c.on] = "absent")
           /\ (a.r = "not_running" => c.do = "stop")
  BY <1>1, <1>4 DEF Answered, Results, NicDos
<1>5. CASE c.do \notin {"add", "wait_vm", "wait_dc", "wait_snapshot"} /\ e.vm[c.on] # "absent" /\ Accepts(c, e)
           /\ a.r = "ok" /\ a.e \in Effects(c, e)
  <2>1. c.do \in VmDos \ {"add", "wait_vm", "wait_dc", "wait_snapshot"}
    BY <1>5
  <2> DEFINE f == a.e
  <2>2. /\ f \in Engines /\ f.has = e.has /\ f.pool = e.pool /\ f.sync = e.sync
        /\ c.do # "remove_vm" => \A v \in Vms : Gone(f, v) <=> Gone(e, v)
        /\ c.do = "remove_vm" => Gone(f, c.on) /\ \A v \in Vms \ {c.on} : Gone(f, v) <=> Gone(e, v)
        /\ c.do \notin NicDos \cup {"remove_vm"} => f.nic = e.nic
        /\ c.do = "add_nic" => f.nic[c.on] = [profile |-> c.arg, plugged |-> TRUE]
        /\ c.do = "set_profile" => f.nic[c.on].profile = c.arg
        /\ c.do = "plug" => f.nic[c.on].profile = e.nic[c.on].profile /\ f.nic[c.on].plugged = TRUE
    BY <1>5, <2>1, VmEffect
  <2> QED  BY <1>1, <1>5, <2>2 DEF Answered, Results
<1>6. c.do # "add" =>
         \/ e.vm[c.on] = "absent" /\ a = [r |-> "NotFoundError", e |-> e]
         \/ e.vm[c.on] # "absent" /\ c.do \in {"wait_vm", "wait_dc", "wait_snapshot"}
            /\ a.e = e /\ a.r \in {"ok", "Timeout"}
         \/ e.vm[c.on] # "absent" /\ c.do \notin {"wait_vm", "wait_dc", "wait_snapshot"} /\ Accepts(c, e)
            /\ a.r = "ok" /\ a.e \in Effects(c, e)
         \/ e.vm[c.on] # "absent" /\ ~Accepts(c, e) /\ a.e = e /\ a.r = IF c.do = "stop" THEN "not_running" ELSE "Error"
  BY DEF VmAnswer, Answer
<1> QED  BY <1>1, <1>2, <1>3, <1>4, <1>5, <1>6

\* Every answer of the engine.
LEMMA EveryAnswer ==
    ASSUME NEW c \in Commands, c.do \notin Scoping, NEW e \in Engines, NEW a \in Answers(c, e)
    PROVE  Answered(c, e, a)
<1>1. CASE c.on \in Vms
  <2>1. c.do \in VmDos
    BY <1>1 DEF Commands, IsCommand, Legal, Vms, Entities, Contexts, Scoping
  <2>2. CASE a \in VmAnswer(c, e)
    BY <1>1, <2>1, <2>2, VmAnswered
  <2>3. CASE c.do = "restore" /\ a \in VmAnswer(Cmd("commit", c.on, ""), e)
    <3>0. PICK v, d : v \in Vms /\ v = c.on /\ d = Cmd("commit", c.on, "")
      BY <1>1
    <3>1. d.do = "commit" /\ d.on = c.on /\ d.caught = {} /\ d \in Commands
      <4>1. d = [do |-> "commit", on |-> v, arg |-> "", ok |-> 1, caught |-> {}, to |-> 1]
        BY <3>0 DEF Cmd
      <4>2. d.do = "commit" /\ d.on = v /\ d.ok = 1 /\ d.caught = {} /\ d.to = 1
        BY <4>1
      <4>3. Legal(d) /\ Plain(d)
        BY <3>0, <4>2 DEF Legal, VmDos, NicDos, Plain
      <4>4. "commit" \in Dos /\ v \in Ons /\ "" \in Arguments
        BY <3>0 DEF Dos, VmDos, Ons, Arguments, Words
      <4>6. PICK do \in Dos, arg \in Arguments : do = "commit" /\ arg = ""
        BY <4>4
      <4>5. d \in [do : Dos, on : Ons, arg : Arguments, ok : 1 .. 3, caught : SUBSET Caught, to : 1 .. 2]
        BY <3>0, <4>6, <4>4, CmdShape
      <4> QED  BY <3>0, <4>2, <4>3, <4>5 DEF Commands, IsCommand
    <3>2. Answered(d, e, a)
      BY <1>1, <2>3, <3>0, <3>1, VmAnswered DEF VmDos
    <3> QED  BY <2>3, <3>1, <3>2 DEF Answered, NicDos
  <2>4. CASE a \in Answer("SnapshotNotInPreviewError", {e}) /\ c.do \in {"undo", "commit"}
    <3>1. a.r = "SnapshotNotInPreviewError" /\ a.e = e
      BY <2>4 DEF Answer
    <3>2. c.do \notin NicDos \cup {"remove_vm", "add", "remove", "remove_if_listed", "set_pool", "set_sync"}
      BY <2>4 DEF NicDos
    <3>3. a.e \in Engines /\ a.r \in Results
      BY <3>1 DEF Results
    <3> QED  BY <3>1, <3>2, <3>3 DEF Answered, NicDos
  <2>5. a \in SnapshotAnswer(c, e)
    BY <1>1 DEF Answers, Vms
  <2>6. CASE c.do = "restore" /\ e.snap[c.on] = "preview"
    BY <2>3, <2>5, <2>6 DEF SnapshotAnswer
  <2>7. CASE c.do \in {"undo", "commit"} /\ e.vm[c.on] # "absent" /\ e.snap[c.on] # "preview"
    BY <2>4, <2>5, <2>7 DEF SnapshotAnswer
  <2> QED  BY <2>2, <2>5, <2>6, <2>7 DEF SnapshotAnswer
<1>2. CASE c.on = "disk"
  BY <1>2, DiskAnswered DEF Answers, Vms
<1>3. CASE c.on = "template"
  BY <1>3, TemplateAnswered DEF Answers, Vms
<1>4. CASE c.on \notin Vms \cup {"disk", "template"}
  <2>1. c.on \in Entities \cup {"auto_sync", "jobs"}
    BY <1>4 DEF Commands, IsCommand, Legal, Entities, Scoping
  <2> QED  BY <1>4, <2>1, EntityAnswered DEF Answers
<1> QED  BY <1>1, <1>2, <1>3, <1>4

\* A fault answers with an error, and leaves the engine as it was or as the command made it.
LEMMA EveryOutcome ==
    ASSUME NEW c \in Commands, c.do \notin Scoping, NEW e \in Engines, NEW a \in Answers(c, e) \cup Faulty(c, e)
    PROVE  Answered(c, e, a)
<1>1. CASE a \in Answers(c, e)
  BY <1>1, EveryAnswer
<1>2. CASE a \in Faulty(c, e)
  <2>1. a.r = "Error" /\ (a.e = e \/ \E b \in Answers(c, e) : a.e = b.e)
    BY <1>2 DEF Faulty, Answer
  <2>2. CASE a.e = e
    BY <2>1, <2>2 DEF Answered, Results
  <2>3. CASE \E b \in Answers(c, e) : a.e = b.e
    <3>1. PICK b \in Answers(c, e) : a.e = b.e
      BY <2>3
    <3>2. Answered(c, e, b)
      BY EveryAnswer
    <3> QED  BY <2>1, <3>1, <3>2 DEF Answered, Results
  <2> QED  BY <2>1, <2>2, <2>3
<1> QED  BY <1>1, <1>2

\* What the caller sees: an error of the engine is one of the library's, and a creation that
\* finds nothing is an EntityCreationError.
LEMMA Translated ==
    ASSUME NEW c \in Commands, NEW r \in Results \ {"ok"},
           r = "not_running" => "not_running" \in c.caught,
           r = "EntityNotFoundError" => "EntityNotFoundError" \in c.caught,
           Translate(c, r) \notin c.caught
    PROVE  /\ Translate(c, r) \in Errors
           /\ Translate(c, r) = "NotFoundError" => r = "NotFoundError"
BY DEF Translate, Errors, SdkErrors, Results

\* The engine goes on by itself: no entity comes or goes, and a VM that is being removed goes.
LEMMA Progressed ==
    ASSUME NEW e \in Engines, NEW f \in Progress(e)
    PROVE  /\ f \in Engines /\ f.has = e.has /\ f.pool = e.pool /\ f.sync = e.sync
           /\ \A v \in Vms : Gone(f, v) <=> Gone(e, v)
           /\ \A v \in Vms : ~Gone(e, v) => f.nic[v] = e.nic[v]
<1> DEFINE Same(x) == /\ x \in Engines /\ x.has = e.has /\ x.pool = e.pool /\ x.sync = e.sync
                      /\ \A v \in Vms : Gone(x, v) <=> Gone(e, v)
                      /\ \A v \in Vms : ~Gone(e, v) => x.nic[v] = e.nic[v]
<1>0. /\ e.disk \in {"none", "locked", "ok", "attached"} /\ e.template \in {"none", "locked", "ok"}
      /\ \A v \in Vms : e.vm[v] \in VmStates /\ e.snap[v] \in {"none", "locked", "ok", "previewing", "preview"}
      /\ e.vm \in [Vms -> VmStates] /\ e.nic \in [Vms -> Nics]
      /\ e.snap \in [Vms -> {"none", "locked", "ok", "previewing", "preview"}]
  BY DEF Engines
<1>1. CASE f = [e EXCEPT !.hosts = FALSE]
  BY <1>1 DEF Engines, Gone
<1>2. CASE f = [e EXCEPT !.dc = TRUE]
  BY <1>2 DEF Engines, Gone
<1>3. CASE f = [e EXCEPT !.disk = IF @ = "locked" THEN "ok" ELSE @]
  <2> DEFINE m == IF e.disk = "locked" THEN "ok" ELSE e.disk
  <2>1. f = [e EXCEPT !.disk = m] /\ m \in {"none", "locked", "ok", "attached"}
    BY <1>0, <1>3
  <2> HIDE DEF m
  <2> QED  BY <2>1 DEF Engines, Gone
<1>4. CASE f = [e EXCEPT !.template = IF @ = "locked" THEN "ok" ELSE @]
  <2> DEFINE m == IF e.template = "locked" THEN "ok" ELSE e.template
  <2>1. f = [e EXCEPT !.template = m] /\ m \in {"none", "locked", "ok"}
    BY <1>0, <1>4
  <2> HIDE DEF m
  <2> QED  BY <2>1 DEF Engines, Gone
<1>5. ASSUME NEW v \in Vms, f = [e EXCEPT !.vm[v] = CASE @ \in {"locked", "powering_down"} -> "down"
                                                      [] @ = "powering_up" -> "up"
                                                      [] OTHER -> @]
      PROVE  Same(f)
  <2> DEFINE m == CASE e.vm[v] \in {"locked", "powering_down"} -> "down"
                    [] e.vm[v] = "powering_up" -> "up"
                    [] OTHER -> e.vm[v]
  <2>1. f = [e EXCEPT !.vm[v] = m]
    BY <1>5
  <2>2. m \in VmStates /\ (m \in {"absent", "removing"} <=> e.vm[v] \in {"absent", "removing"})
    BY <1>0 DEF VmStates
  <2> HIDE DEF m
  <2>3. f \in Engines
    BY <2>1, <2>2 DEF Engines
  <2>4. f.has = e.has /\ f.pool = e.pool /\ f.sync = e.sync /\ f.nic = e.nic /\ f.vm = [e.vm EXCEPT ![v] = m]
    BY <2>1 DEF Engines
  <2> QED  BY <1>0, <2>2, <2>3, <2>4 DEF Gone
<1>6. ASSUME NEW v \in Vms, f = [e EXCEPT !.snap[v] = CASE @ = "locked" -> "ok" [] @ = "previewing" -> "preview"
                                                        [] OTHER -> @]
      PROVE  Same(f)
  <2> DEFINE m == CASE e.snap[v] = "locked" -> "ok" [] e.snap[v] = "previewing" -> "preview" [] OTHER -> e.snap[v]
  <2>1. f = [e EXCEPT !.snap[v] = m]
    BY <1>6
  <2>2. m \in {"none", "locked", "ok", "previewing", "preview"}
    BY <1>0
  <2> HIDE DEF m
  <2>3. f \in Engines
    BY <2>1, <2>2 DEF Engines
  <2>4. f.has = e.has /\ f.pool = e.pool /\ f.sync = e.sync /\ f.nic = e.nic /\ f.vm = e.vm
    BY <2>1 DEF Engines
  <2> QED  BY <2>3, <2>4 DEF Gone
<1>7. ASSUME NEW v \in Vms, f = IF e.vm[v] = "removing" THEN WithoutVm(e, v) ELSE e
      PROVE  Same(f)
  <2>1. CASE f = e
    BY <2>1
  <2>2. CASE e.vm[v] = "removing" /\ f = WithoutVm(e, v)
    <3>1. /\ f \in Engines /\ f.has = e.has /\ f.pool = e.pool /\ f.sync = e.sync
          /\ f.vm = [e.vm EXCEPT ![v] = "absent"] /\ f.nic = [e.nic EXCEPT ![v] = NoNic]
      BY <2>2, WithoutVmEffect
    <3> QED  BY <1>0, <2>2, <3>1 DEF Gone
  <2> QED  BY <1>7, <2>1, <2>2
<1>8. Same(f)
  BY <1>1, <1>2, <1>3, <1>4, <1>5, <1>6, <1>7 DEF Progress
<1> QED  BY <1>8

-----------------------------------------------------------------------------
(* What is left of a call after a command.                                   *)

\* What is left of a sequence of commands.
LEMMA RestOf ==
    ASSUME NEW s \in Seq(Commands), s # << >>, NEW n \in 1 .. 3
    PROVE  /\ Rest(s, n) \in Seq(Commands)
           /\ Len(Rest(s, n)) = IF n <= Len(s) THEN Len(s) - n ELSE 0
           /\ \A k \in DOMAIN Rest(s, n) : k \in Nat \ {0} /\ k + n \in DOMAIN s /\ Rest(s, n)[k] = s[k + n]
           /\ \A k \in DOMAIN s : k > n => k - n \in DOMAIN Rest(s, n)
           /\ n = Len(s) => Rest(s, n) = << >>
<1>1. CASE n <= Len(s)
  <2>1. /\ Rest(s, n) \in Seq(Commands) /\ Len(Rest(s, n)) = Len(s) - n
        /\ \A k \in 1 .. Len(s) - n : Rest(s, n)[k] = s[k + n]
    BY <1>1 DEF Rest
  <2> QED  BY <1>1, <2>1
<1>2. CASE n > Len(s)
  <2>1. Rest(s, n) = << >>
    BY <1>2 DEF Rest
  <2> QED  BY <1>2, <2>1
<1> QED  BY <1>1, <1>2

\* What is left of a sequence without its first element.
LEMMA TailOf ==
    ASSUME NEW S, NEW s \in Seq(S), s # << >>
    PROVE  /\ Tail(s) \in Seq(S) /\ Len(Tail(s)) = Len(s) - 1
           /\ \A k \in DOMAIN Tail(s) : k \in Nat \ {0} /\ k + 1 \in DOMAIN s /\ Tail(s)[k] = s[k + 1]
           /\ \A k \in DOMAIN s : k > 1 => k - 1 \in DOMAIN Tail(s)
OBVIOUS

-----------------------------------------------------------------------------
(* The commands that the tests and the contexts send.                        *)

Simple(c, do, on, arg) == c \in Commands /\ c.do = do /\ c.on = on /\ c.arg = arg /\ Plain(c)
Careful(c, do, on, ok, caught, to) ==
    c \in Commands /\ c.do = do /\ c.on = on /\ c.ok = ok /\ c.caught = caught /\ c.to = to

\* A command made by Cmd, wherever it is legal.
LEMMA AnyCommand ==
    \A do \in Dos, on \in Ons, arg \in Arguments :
        Legal(Cmd(do, on, arg)) => Simple(Cmd(do, on, arg), do, on, arg)
<1> TAKE do \in Dos, on \in Ons, arg \in Arguments
<1> HAVE Legal(Cmd(do, on, arg))
<1>1. PICK c : c = Cmd(do, on, arg)
  OBVIOUS
<1>2. c \in [do : Dos, on : Ons, arg : Arguments, ok : 1 .. 3, caught : SUBSET Caught, to : 1 .. 2]
  BY <1>1, CmdShape
<1>3. c.do = do /\ c.on = on /\ c.arg = arg /\ c.ok = 1 /\ c.caught = {} /\ c.to = 1
  BY <1>1 DEF Cmd
<1> QED  BY <1>1, <1>2, <1>3 DEF Simple, Commands, IsCommand, Plain

\* A command about a VM.
LEMMA VmCommand ==
    \A do \in VmDos, v \in Vms, arg \in Arguments :
        (do # "stop" /\ (do \in {"add_nic", "set_profile"} => arg \in Profiles))
            => Simple(Cmd(do, v, arg), do, v, arg)
<1> TAKE do \in VmDos, v \in Vms, arg \in Arguments
<1> HAVE do # "stop" /\ (do \in {"add_nic", "set_profile"} => arg \in Profiles)
<1>1. do \in Dos /\ v \in Ons
  BY DEF Dos, Ons
<1>2. Legal(Cmd(do, v, arg))
  BY DEF Legal, Cmd
<1> QED  BY <1>1, <1>2, AnyCommand

\* A command with an except clause.
LEMMA TriedCommand ==
    \A do \in Dos \ {"add"}, on \in Vms \cup {"template"}, arg \in Arguments, ok \in 1 .. 3, caught \in SUBSET Caught,
       to \in 1 .. 2 :
        Legal(Try(Cmd(do, on, arg), ok, caught, to)) =>
            Careful(Try(Cmd(do, on, arg), ok, caught, to), do, on, ok, caught, to)
<1> TAKE do \in Dos \ {"add"}, on \in Vms \cup {"template"}, arg \in Arguments, ok \in 1 .. 3,
         caught \in SUBSET Caught, to \in 1 .. 2
<1>1. PICK c : c = Try(Cmd(do, on, arg), ok, caught, to)
  OBVIOUS
<1>2. c = [do |-> do, on |-> on, arg |-> arg, ok |-> ok, caught |-> caught, to |-> to]
  BY <1>1 DEF Try, Cmd
<1>3. on \in Ons
  BY DEF Ons
<1>4. c \in [do : Dos, on : Ons, arg : Arguments, ok : 1 .. 3, caught : SUBSET Caught, to : 1 .. 2]
  BY <1>2, <1>3
<1>5. c.do = do /\ c.on = on /\ c.ok = ok /\ c.caught = caught /\ c.to = to
  BY <1>2
<1> QED  BY <1>1, <1>4, <1>5 DEF Commands, IsCommand, Careful

\* A call that a test makes: it opens and closes nothing, and is about VMs of M.
Structural == {"push", "pop", "remove_vm", "remove", "remove_if_listed", "set_pool", "set_sync"}
Used(c, M) == /\ c \in Commands /\ c.do \notin Structural
              /\ c.on \in Vms => c.on \in M /\ c.do # "add"
              /\ c.on \in Entities => c.do # "add"
Uses(cs, M) == cs \in Seq(Commands) /\ \A k \in DOMAIN cs : Used(cs[k], M)

\* A call of one command, of three, and a call followed by another.
LEMMA UsesOne == ASSUME NEW M, NEW c, Used(c, M) PROVE Uses(<<c>>, M)
BY DEF Uses, Used

LEMMA UsedOne == ASSUME NEW M, NEW c, Uses(<<c>>, M) PROVE Used(c, M)
BY DEF Uses

LEMMA UsesThree ==
    ASSUME NEW M, NEW a, NEW b, NEW c, Used(a, M), Used(b, M), Used(c, M) PROVE Uses(<<a, b, c>>, M)
BY DEF Uses, Used

LEMMA UsesBoth ==
    ASSUME NEW M, NEW cs, NEW ds, Uses(cs, M), Uses(ds, M)
    PROVE  Uses(cs \o ds, M)
<1>1. cs \in Seq(Commands) /\ ds \in Seq(Commands)
  BY DEF Uses
<1>2. cs \o ds \in Seq(Commands)
  BY <1>1
<1>3. \A k \in DOMAIN (cs \o ds) : (cs \o ds)[k] = IF k <= Len(cs) THEN cs[k] ELSE ds[k - Len(cs)]
  BY <1>1
<1>4. \A k \in DOMAIN (cs \o ds) : IF k <= Len(cs) THEN k \in DOMAIN cs ELSE k - Len(cs) \in DOMAIN ds
  BY <1>1
<1> QED  BY <1>2, <1>3, <1>4 DEF Uses

\* A call that is about one VM, and one that is about none.
LEMMA UsesVm ==
    \A M \in SUBSET Vms : \A do \in VmDos, v \in M, arg \in Arguments :
        (do \notin {"add", "stop", "remove_vm"} /\ (do \in {"add_nic", "set_profile"} => arg \in Profiles))
            => Uses(<<Cmd(do, v, arg)>>, M)
<1> TAKE M \in SUBSET Vms
<1> TAKE do \in VmDos, v \in M, arg \in Arguments
<1> HAVE do \notin {"add", "stop", "remove_vm"} /\ (do \in {"add_nic", "set_profile"} => arg \in Profiles)
<1>1. Simple(Cmd(do, v, arg), do, v, arg) /\ v \in Vms
  BY VmCommand
<1>2. Used(Cmd(do, v, arg), M)
  BY <1>1 DEF Simple, Used, Structural, VmDos, NicDos, Vms, Entities
<1> QED  BY <1>2, UsesOne

LEMMA UsesOther ==
    \A M \in SUBSET Vms : \A do \in Dos \ Structural, on \in {"disk", "template", "jobs"}, arg \in Arguments :
        Legal(Cmd(do, on, arg)) => Uses(<<Cmd(do, on, arg)>>, M)
<1> TAKE M \in SUBSET Vms
<1> TAKE do \in Dos \ Structural, on \in {"disk", "template", "jobs"}, arg \in Arguments
<1> HAVE Legal(Cmd(do, on, arg))
<1>0. on \in Ons
  BY DEF Ons
<1>1. Simple(Cmd(do, on, arg), do, on, arg)
  BY <1>0, AnyCommand
<1>2. Used(Cmd(do, on, arg), M)
  BY <1>1 DEF Simple, Used, Vms, Entities
<1> QED  BY <1>2, UsesOne

\* The calls of the tests.
AllVmCalls(v, M) ==
    /\ Uses(Run(v), M) /\ Uses(RunOnce(v), M) /\ Uses(WaitForDownStatus(v), M) /\ Uses(WaitForUpStatus(v), M)
    /\ Uses(WaitForPoweringUpStatus(v), M) /\ Uses(MoveToCluster(v, "home"), M)
    /\ \A p \in Profiles : Uses(CreateVnic(v, p), M)
    /\ Uses(RemoveVnic(v), M) /\ Uses(HotReplaceMacAddr(v), M)
    /\ Uses(CreateSnapshot(v), M) /\ Uses(Preview(v), M) /\ Uses(WaitForPreviewStatus(v), M)
    /\ Uses(UndoPreview(v), M) /\ Uses(Commit(v), M) /\ Uses(Restore(v), M)

\* The calls about a VM that has been made.
LEMMA VmCalls == \A M \in SUBSET Vms : \A v \in M : AllVmCalls(v, M)
<1> TAKE M \in SUBSET Vms
<1> TAKE v \in M
<1>0. /\ \A w \in Words : w \in Arguments
      /\ {"", "home", "ok", "preview"} \cup Profiles \subseteq Words
      /\ \A s \in SUBSET VmStates : s \in Arguments
      /\ {"down"} \in SUBSET VmStates /\ {"up"} \in SUBSET VmStates /\ {"powering_up", "up"} \in SUBSET VmStates
  BY DEF Arguments, Words, Pools, VmStates
<1>1. Uses(Run(v), M) /\ Uses(RunOnce(v), M)
  BY <1>0, UsesVm DEF Run, RunOnce, VmDos
<1>2. Uses(WaitForDownStatus(v), M) /\ Uses(WaitForUpStatus(v), M) /\ Uses(WaitForPoweringUpStatus(v), M)
  BY <1>0, UsesVm DEF WaitForDownStatus, WaitForUpStatus, WaitForPoweringUpStatus, WaitForStatus, VmDos
<1>3. Uses(MoveToCluster(v, "home"), M)
  BY <1>0, UsesVm DEF MoveToCluster, VmDos
<1>4. \A p \in Profiles : Uses(CreateVnic(v, p), M)
  BY <1>0, UsesVm DEF CreateVnic, VmDos, NicDos
<1>5. Uses(RemoveVnic(v), M)
  BY <1>0, UsesVm DEF RemoveVnic, VmDos, NicDos
<1>6. Uses(Hotunplug(v), M) /\ Uses(<<Cmd("set_mac", v, "")>>, M) /\ Uses(Hotplug(v), M)
  BY <1>0, UsesVm DEF Hotunplug, Hotplug, VmDos, NicDos
<1>7. Uses(HotReplaceMacAddr(v), M)
  BY <1>6, UsesBoth DEF HotReplaceMacAddr
<1>8. Uses(<<Cmd("snapshot", v, "")>>, M) /\ Uses(WaitForSnapshot(v, "ok"), M) /\ Uses(WaitForSnapshot(v, "preview"), M)
  BY <1>0, UsesVm DEF WaitForSnapshot, VmDos
<1>9. Uses(CreateSnapshot(v), M) /\ Uses(WaitForPreviewStatus(v), M)
  BY <1>8, UsesBoth DEF CreateSnapshot, WaitForPreviewStatus
<1>10. Uses(Preview(v), M) /\ Uses(UndoPreview(v), M) /\ Uses(Commit(v), M) /\ Uses(Restore(v), M)
  BY <1>0, UsesVm DEF Preview, UndoPreview, Commit, Restore, VmDos
<1> QED  BY <1>1, <1>2, <1>3, <1>4, <1>5, <1>7, <1>9, <1>10 DEF AllVmCalls

\* The stop of a VM, which may be found not running.
LEMMA StopCommand ==
    ASSUME NEW v \in Vms
    PROVE  Careful(Try(Cmd("stop", v, ""), 1, {"not_running"}, 1), "stop", v, 1, {"not_running"}, 1)
<1>1. PICK c : c = Try(Cmd("stop", v, ""), 1, {"not_running"}, 1)
  OBVIOUS
<1>2. c.do = "stop" /\ c.on = v /\ c.caught = {"not_running"}
  BY <1>1 DEF Try, Cmd
<1>3. Legal(c)
  BY <1>2 DEF Legal, VmDos
<1>7. "stop" \in Dos \ {"add"} /\ "" \in Arguments /\ {"not_running"} \in SUBSET Caught
  BY DEF Dos, VmDos, Arguments, Words, Caught
<1>8. PICK do, arg, caught : do = "stop" /\ arg = "" /\ caught = {"not_running"}
  OBVIOUS
<1>9. PICK n \in 1 .. 2 : n = 1
  OBVIOUS
<1>4. /\ do \in Dos \ {"add"} /\ arg \in Arguments /\ caught \in SUBSET Caught 
      /\ do = "stop" /\ arg = "" /\ caught = {"not_running"}
  BY <1>7, <1>8
<1>10. n \in 1 .. 3
  BY <1>9
<1>5. Legal(Try(Cmd(do, v, arg), n, caught, n))
  BY <1>1, <1>3, <1>4, <1>9
<1>6. Careful(Try(Cmd(do, v, arg), n, caught, n), do, v, n, caught, n)
  BY <1>4, <1>5, <1>10, TriedCommand
<1> QED  BY <1>4, <1>6, <1>9

AllOtherCalls(M) ==
    /\ Uses(CreateDisk, M) /\ Uses(WaitForDiskUpStatus, M) /\ Uses(AttachDisk("v1"), M)
    /\ Uses(AllJobsWaitForDone, M) /\ Uses(CirrosTemplate, M)
    /\ \A v \in M : Uses(Stop(v), M)

\* The calls about the disk, the template and the jobs.
LEMMA OtherCalls == \A M \in SUBSET Vms : AllOtherCalls(M)
<1> TAKE M \in SUBSET Vms
<1>0. /\ {"", "ok", "attached", "v1"} \subseteq Arguments
      /\ {"add", "wait_disk", "attach", "wait_jobs", "wait_repo", "import_image", "wait_template"} \subseteq Dos \ Structural
      /\ {"find_repo", "get_template"} \subseteq Dos \ {"add"} /\ {"EntityNotFoundError"} \in SUBSET Caught
  BY DEF Dos, VmDos, TemplateDos, Structural, Arguments, Words, Vms, Caught
<1>1. \A arg : /\ Legal(Cmd("add", "disk", arg)) /\ Legal(Cmd("wait_disk", "disk", arg)) /\ Legal(Cmd("attach", "disk", arg))
               /\ Legal(Cmd("wait_jobs", "jobs", arg)) /\ Legal(Cmd("add", "template", arg))
               /\ Legal(Cmd("wait_repo", "template", arg)) /\ Legal(Cmd("import_image", "template", arg))
               /\ Legal(Cmd("wait_template", "template", arg))
  BY DEF Legal, Cmd, TemplateDos
<1>2. Uses(CreateDisk, M) /\ Uses(WaitForDiskUpStatus, M)
  <2>1. Uses(DiskCreate, M) /\ Uses(DiskWaitForUpStatus, M) /\ Uses(<<Cmd("wait_disk", "disk", "attached")>>, M)
    BY <1>0, <1>1, UsesOther DEF DiskCreate, CreateSdkEntity, DiskWaitForUpStatus
  <2> QED  BY <2>1, UsesBoth DEF CreateDisk, WaitForDiskUpStatus
<1>3. Uses(AttachDisk("v1"), M) /\ Uses(AllJobsWaitForDone, M)
  BY <1>0, <1>1, UsesOther DEF AttachDisk, AllJobsWaitForDone
<1>4. Uses(CirrosTemplate, M)
  <2> DEFINE find == Try(Cmd("find_repo", "template", ""), 3, {"EntityNotFoundError"}, 1)
             get(n) == Try(GetTemplate, n, {"EntityNotFoundError"}, 1)
             missing == ImportImage \o WaitForTemplateOkStatus
  <2>1. Uses(<<Cmd("add", "template", "")>>, M) /\ Uses(<<Cmd("wait_repo", "template", "")>>, M)
        /\ Uses(ImportImage, M) /\ Uses(WaitForTemplateOkStatus, M)
    BY <1>0, <1>1, UsesOther DEF ImportImage, WaitForTemplateOkStatus
  <2>2. Uses(<<find>>, M)
    <3>1. find.do = "find_repo" /\ find.on = "template" /\ find.caught = {"EntityNotFoundError"}
      BY DEF Try, Cmd
    <3>2. Legal(find)
      BY <3>1 DEF Legal, TemplateDos
    <3>9. PICK ok \in 1 .. 3, to \in 1 .. 2 : ok = 3 /\ to = 1
      OBVIOUS
    <3>8. PICK do, on, arg, caught :
              do = "find_repo" /\ on = "template" /\ arg = "" /\ caught = {"EntityNotFoundError"}
      OBVIOUS
    <3>5. /\ do \in Dos \ {"add"} /\ on \in Vms \cup {"template"} /\ arg \in Arguments /\ ok \in 1 .. 3
          /\ caught \in SUBSET Caught /\ to \in 1 .. 2
          /\ do = "find_repo" /\ on = "template" /\ arg = "" /\ ok = 3 /\ caught = {"EntityNotFoundError"} /\ to = 1
      BY <1>0, <3>8, <3>9
    <3>6. Legal(Try(Cmd(do, on, arg), ok, caught, to))
      BY <3>2, <3>5
    <3>7. Careful(Try(Cmd(do, on, arg), ok, caught, to), do, on, ok, caught, to)
      BY <3>5, <3>6, TriedCommand
    <3>3. Careful(find, "find_repo", "template", 3, {"EntityNotFoundError"}, 1)
      BY <3>5, <3>7
    <3>4. Used(find, M)
      BY <3>3 DEF Careful, Used, Structural, Vms, Entities
    <3> QED  BY <3>4, UsesOne
  <2>3. Uses(<<get(1 + Len(missing))>>, M)
    <3>0. 1 + Len(missing) = 3
      BY DEF ImportImage, WaitForTemplateOkStatus
    <3>1. get(3).do = "get_template" /\ get(3).on = "template" /\ get(3).caught = {"EntityNotFoundError"}
      BY DEF Try, Cmd, GetTemplate
    <3>2. Legal(get(3))
      BY <3>1 DEF Legal, TemplateDos
    <3>9. PICK ok \in 1 .. 3, to \in 1 .. 2 : ok = 3 /\ to = 1
      OBVIOUS
    <3>8. PICK do, on, arg, caught :
              do = "get_template" /\ on = "template" /\ arg = "" /\ caught = {"EntityNotFoundError"}
      OBVIOUS
    <3>5. /\ do \in Dos \ {"add"} /\ on \in Vms \cup {"template"} /\ arg \in Arguments /\ ok \in 1 .. 3
          /\ caught \in SUBSET Caught /\ to \in 1 .. 2
          /\ do = "get_template" /\ on = "template" /\ arg = "" /\ ok = 3 /\ caught = {"EntityNotFoundError"} /\ to = 1
      BY <1>0, <3>8, <3>9
    <3>6. Legal(Try(Cmd(do, on, arg), ok, caught, to))
      BY <3>2, <3>5 DEF GetTemplate
    <3>7. Careful(Try(Cmd(do, on, arg), ok, caught, to), do, on, ok, caught, to)
      BY <3>5, <3>6, TriedCommand
    <3>3. Careful(get(3), "get_template", "template", 3, {"EntityNotFoundError"}, 1)
      BY <3>5, <3>7 DEF GetTemplate
    <3>4. Used(get(3), M)
      BY <3>3 DEF Careful, Used, Structural, Vms, Entities
    <3> QED  BY <3>0, <3>4, UsesOne
  <2>5. CirrosTemplate = ImageRepo \o <<get(1 + Len(missing))>> \o missing
    BY DEF CirrosTemplate
  <2> HIDE DEF find, get
  <2>6. Uses(ImageRepo, M)
    <3>1. ImageRepo = <<find, Cmd("add", "template", ""), Cmd("wait_repo", "template", "")>>
      BY DEF ImageRepo, find
    <3>2. Used(find, M) /\ Used(Cmd("add", "template", ""), M) /\ Used(Cmd("wait_repo", "template", ""), M)
      BY <2>1, <2>2, UsedOne
    <3> QED  BY <3>1, <3>2, UsesThree
  <2>7. Uses(missing, M)
    BY <2>1, UsesBoth
  <2> HIDE DEF missing
  <2> QED  BY <2>3, <2>5, <2>6, <2>7, UsesBoth
<1>5. \A v \in M : Uses(Stop(v), M)
  <2> TAKE v \in M
  <2>1. Used(Try(Cmd("stop", v, ""), 1, {"not_running"}, 1), M)
    BY StopCommand DEF Careful, Used, Structural, Vms, Entities
  <2> QED  BY <2>1, UsesOne DEF Stop
<1> QED  BY <1>2, <1>3, <1>4, <1>5 DEF AllOtherCalls

-----------------------------------------------------------------------------
(* The scripts of the tests: what comes before what.                         *)

Items == {With(ctx) : ctx \in Contexts} \cup {Call(cs) : cs \in Seq(Commands)}
IsWith(item) == item[1] = "with"
IsCall(item) == item[1] = "call"
Made(item, v) == IsCall(item) /\ Creates(item[2], v)

Called(t, s, j, cs, c) ==
    /\ c.do \notin Structural
    /\ c.on \in Vms /\ c.do = "add" =>
           Len(cs) = 1 /\ \E i \in 1 .. j - 1 : s[i] = With("vm_pool")
    /\ c.on \in Vms /\ c.do # "add" => \E i \in 1 .. j - 1 : Made(s[i], c.on)
    /\ c.on \in Entities /\ c.do = "add" =>
           c.on = "assignment" /\ t = "ovn" /\ \E i \in 1 .. j - 1 : s[i] = With("network")
Follows(t, s, j) ==
    LET item == s[j] IN
    /\ IsWith(item) => /\ item[2] \in Contexts /\ item = With(item[2])
                       /\ \A i \in 1 .. j - 1 : s[i] # item
                       /\ item[2] = "vm_pool" => \A i \in 1 .. j - 1, v \in Vms : ~Made(s[i], v)
                       /\ item[2] = "assignment" => t # "ovn"
    /\ IsCall(item) => /\ item[2] \in Seq(Commands) /\ item = Call(item[2])
                       /\ \A k \in DOMAIN item[2] : Called(t, s, j, item[2], item[2][k])
Leads(t, s, O, M) ==
    /\ s \in Seq(Items)
    /\ \A j \in DOMAIN s : Follows(t, s, j)
    /\ \A ctx \in Contexts : ctx \in O <=> \E j \in DOMAIN s : s[j] = With(ctx)
    /\ \A v \in Vms : v \in M <=> \E j \in DOMAIN s : Made(s[j], v)

\* A `with` is not a call.
LEMMA ItemKinds ==
    /\ \A ctx : IsWith(With(ctx)) /\ ~IsCall(With(ctx)) /\ With(ctx)[2] = ctx
    /\ \A cs : IsCall(Call(cs)) /\ ~IsWith(Call(cs)) /\ Call(cs)[2] = cs
    /\ \A ctx \in Contexts : With(ctx) \in Items
    /\ \A cs \in Seq(Commands) : Call(cs) \in Items
BY DEF IsWith, IsCall, With, Call, Items

\* A script with one item more.
LEMMA AppendOf ==
    ASSUME NEW s \in Seq(Items), NEW x \in Items
    PROVE  LET n == Append(s, x) IN
           /\ n \in Seq(Items) /\ Len(n) = Len(s) + 1 /\ n[Len(s) + 1] = x
           /\ DOMAIN n = DOMAIN s \cup {Len(s) + 1} /\ Len(s) \in Nat
           /\ \A j \in DOMAIN s : n[j] = s[j] /\ j \in 1 .. Len(s)
OBVIOUS

\* What an item follows does not change when the script goes on.
LEMMA FollowsStill ==
    ASSUME NEW t, NEW s \in Seq(Items), NEW x \in Items, NEW j \in DOMAIN s, Follows(t, s, j)
    PROVE  Follows(t, Append(s, x), j)
<1> DEFINE n == Append(s, x)
<1>1. n[j] = s[j] /\ \A i \in 1 .. j - 1 : n[i] = s[i]
  BY AppendOf
<1>2. \A cs, c : Called(t, s, j, cs, c) => Called(t, n, j, cs, c)
  BY <1>1 DEF Called
<1> HIDE DEF n
<1>3. Follows(t, n, j)
  BY <1>1, <1>2 DEF Follows
<1> QED  BY <1>3 DEF n

\* The script goes on with a context,
LEMMA LeadsWith ==
    ASSUME NEW t, NEW s, NEW O, NEW M, Leads(t, s, O, M), NEW ctx \in Contexts, ctx \notin O,
           ctx = "vm_pool" => M = {}, ctx = "assignment" => t # "ovn"
    PROVE  Leads(t, Append(s, With(ctx)), O \cup {ctx}, M)
<1>1. PICK n : n = Append(s, With(ctx))
  OBVIOUS
<1>2. /\ n \in Seq(Items) /\ Len(n) = Len(s) + 1 /\ n[Len(s) + 1] = With(ctx)
      /\ DOMAIN n = DOMAIN s \cup {Len(s) + 1} /\ Len(s) \in Nat
      /\ \A j \in DOMAIN s : n[j] = s[j] /\ j \in 1 .. Len(s)
      /\ \A j \in 1 .. Len(s) : j \in DOMAIN s
  BY <1>1, AppendOf, ItemKinds DEF Leads
<1>3. \A j \in DOMAIN s : Follows(t, n, j)
  BY <1>1, FollowsStill, ItemKinds DEF Leads
<1>4. Follows(t, n, Len(s) + 1)
  <2>1. \A i \in 1 .. Len(s) : n[i] = s[i] /\ i \in DOMAIN s
    BY <1>2
  <2>2. \A i \in 1 .. Len(s) : s[i] # With(ctx)
    BY <1>2 DEF Leads
  <2>3. ctx = "vm_pool" => \A i \in 1 .. Len(s), v \in Vms : ~Made(s[i], v)
    BY <1>2 DEF Leads
  <2>4. Len(s) + 1 - 1 = Len(s)
    BY <1>2
  <2> QED  BY <1>2, <2>1, <2>2, <2>3, <2>4, ItemKinds DEF Follows
<1>5. \A c \in Contexts : c \in O \cup {ctx} <=> \E j \in DOMAIN n : n[j] = With(c)
  BY <1>2, ItemKinds DEF Leads
<1>6. \A v \in Vms : v \in M <=> \E j \in DOMAIN n : Made(n[j], v)
  <2>1. \A v : ~Made(With(ctx), v)
    BY ItemKinds DEF Made
  <2> QED  BY <1>2, <2>1 DEF Leads
<1> QED  BY <1>1, <1>2, <1>3, <1>4, <1>5, <1>6 DEF Leads

\* A call in general: what its commands need has come before.
LEMMA LeadsCall ==
    ASSUME NEW t, NEW s, NEW O, NEW M, Leads(t, s, O, M), NEW cs \in Seq(Commands), NEW N \in SUBSET Vms,
           \A k \in DOMAIN cs :
               /\ cs[k].do \notin Structural
               /\ cs[k].on \in Vms /\ cs[k].do = "add" => Len(cs) = 1 /\ "vm_pool" \in O
               /\ cs[k].on \in Vms /\ cs[k].do # "add" => cs[k].on \in M
               /\ cs[k].on \in Entities /\ cs[k].do = "add" => cs[k].on = "assignment" /\ t = "ovn" /\ "network" \in O,
           \A v \in Vms : Creates(cs, v) <=> v \in N
    PROVE  Leads(t, Append(s, Call(cs)), O, M \cup N)
<1>1. PICK n : n = Append(s, Call(cs))
  OBVIOUS
<1>2. /\ n \in Seq(Items) /\ Len(n) = Len(s) + 1 /\ n[Len(s) + 1] = Call(cs)
      /\ DOMAIN n = DOMAIN s \cup {Len(s) + 1} /\ Len(s) \in Nat
      /\ \A j \in DOMAIN s : n[j] = s[j] /\ j \in 1 .. Len(s)
      /\ \A j \in 1 .. Len(s) : j \in DOMAIN s
  BY <1>1, AppendOf, ItemKinds DEF Leads
<1>3. \A j \in DOMAIN s : Follows(t, n, j)
  BY <1>1, FollowsStill, ItemKinds DEF Leads
<1>4. Follows(t, n, Len(s) + 1)
  <2>1. Len(s) + 1 - 1 = Len(s)
    BY <1>2
  <2>2. \A ctx \in O \cap Contexts : \E i \in 1 .. Len(s) : n[i] = With(ctx)
    BY <1>2 DEF Leads
  <2>3. \A v \in M \cap Vms : \E i \in 1 .. Len(s) : Made(n[i], v)
    BY <1>2 DEF Leads
  <2>4. ASSUME NEW k \in DOMAIN cs PROVE Called(t, n, Len(s) + 1, cs, cs[k])
    BY <2>1, <2>2, <2>3 DEF Called, Contexts, Entities
  <2> QED  BY <1>2, <2>4, ItemKinds DEF Follows
<1>5. \A c \in Contexts : c \in O <=> \E j \in DOMAIN n : n[j] = With(c)
  <2>1. \A c \in Contexts : Call(cs) # With(c)
    BY ItemKinds
  <2> QED  BY <1>2, <2>1 DEF Leads
<1>6. \A v \in Vms : v \in M \cup N <=> \E j \in DOMAIN n : Made(n[j], v)
  <2>1. \A v \in Vms : Made(Call(cs), v) <=> v \in N
    BY ItemKinds DEF Made
  <2> QED  BY <1>2, <2>1 DEF Leads
<1> QED  BY <1>1, <1>2, <1>3, <1>4, <1>5, <1>6 DEF Leads

\* with a call about VMs that were made,
LEMMA LeadsUse ==
    ASSUME NEW t, NEW s, NEW O, NEW M, Leads(t, s, O, M), NEW cs, Uses(cs, M)
    PROVE  Leads(t, Append(s, Call(cs)), O, M)
<1>1. \A v \in Vms : Creates(cs, v) <=> v \in {}
  BY DEF Creates, Uses, Used
<1>2. cs \in Seq(Commands) /\ \A k \in DOMAIN cs : Used(cs[k], M)
  BY DEF Uses
<1>3. \A k \in DOMAIN cs :
          /\ cs[k].do \notin Structural
          /\ cs[k].on \in Vms /\ cs[k].do = "add" => Len(cs) = 1 /\ "vm_pool" \in O
          /\ cs[k].on \in Vms /\ cs[k].do # "add" => cs[k].on \in M
          /\ cs[k].on \in Entities /\ cs[k].do = "add" => cs[k].on = "assignment" /\ t = "ovn" /\ "network" \in O
  BY <1>2 DEF Used
<1>4. M \cup {} = M
  OBVIOUS
<1>5. Leads(t, Append(s, Call(cs)), O, M \cup {})
  BY <1>1, <1>2, <1>3, LeadsCall
<1> QED  BY <1>4, <1>5

\* with the creation of a VM in its pool,
LEMMA LeadsCreate ==
    ASSUME NEW t, NEW s, NEW O, NEW M, Leads(t, s, O, M), NEW v \in Vms, NEW where \in {"home", "cluster", "cirros"},
           "vm_pool" \in O
    PROVE  Leads(t, Append(s, Call(Create(v, where))), O, M \cup {v})
<1>1. PICK c : c = Cmd("add", v, where)
  OBVIOUS
<1>2. "add" \in VmDos /\ where \in Arguments
  BY DEF VmDos, Arguments, Words, Pools
<1>3. Simple(c, "add", v, where)
  BY <1>1, <1>2, VmCommand
<1>4. Create(v, where) = <<c>>
  BY <1>1 DEF Create, CreateSdkEntity
<1>5. \A w \in Vms : Creates(<<c>>, w) <=> w \in {v}
  BY <1>3 DEF Creates, Simple
<1>6. \A k \in DOMAIN <<c>> :
          /\ <<c>>[k].do \notin Structural
          /\ <<c>>[k].on \in Vms /\ <<c>>[k].do = "add" => Len(<<c>>) = 1 /\ "vm_pool" \in O
          /\ <<c>>[k].on \in Vms /\ <<c>>[k].do # "add" => <<c>>[k].on \in M
          /\ <<c>>[k].on \in Entities /\ <<c>>[k].do = "add" =>
                 <<c>>[k].on = "assignment" /\ t = "ovn" /\ "network" \in O
  BY <1>3 DEF Simple, Structural, Vms, Entities
<1>7. <<c>> \in Seq(Commands)
  BY <1>3 DEF Simple
<1> QED  BY <1>4, <1>5, <1>6, <1>7, LeadsCall

\* or, in the OVN test, with the assignment of its network.
LEMMA LeadsAssign ==
    ASSUME NEW s, NEW O, NEW M, Leads("ovn", s, O, M), "network" \in O
    PROVE  Leads("ovn", Append(s, Call(Assign)), O, M)
<1>1. PICK c : c = Cmd("add", "assignment", "")
  OBVIOUS
<1>2. "add" \in Dos /\ "assignment" \in Ons /\ "" \in Arguments
  BY DEF Dos, VmDos, Ons, Contexts, Entities, Arguments, Words
<1>3. Legal(Cmd("add", "assignment", ""))
  BY DEF Legal, Cmd, Entities
<1>4. Simple(c, "add", "assignment", "")
  BY <1>1, <1>2, <1>3, AnyCommand
<1>10. c \in Commands /\ c.do = "add" /\ c.on = "assignment"
  BY <1>4 DEF Simple
<1>5. \A w \in Vms : Creates(<<c>>, w) <=> w \in {}
  BY <1>10 DEF Creates, Vms
<1>6. \A k \in DOMAIN <<c>> :
          /\ <<c>>[k].do \notin Structural
          /\ <<c>>[k].on \in Vms /\ <<c>>[k].do = "add" => Len(<<c>>) = 1 /\ "vm_pool" \in O
          /\ <<c>>[k].on \in Vms /\ <<c>>[k].do # "add" => <<c>>[k].on \in M
          /\ <<c>>[k].on \in Entities /\ <<c>>[k].do = "add" =>
                 <<c>>[k].on = "assignment" /\ "ovn" = "ovn" /\ "network" \in O
  BY <1>10 DEF Structural, Vms, Entities
<1>7. <<c>> \in Seq(Commands)
  BY <1>10
<1>8. Leads("ovn", Append(s, Call(<<c>>)), O, M \cup {})
  BY <1>5, <1>6, <1>7, LeadsCall
<1>9. M \cup {} = M
  OBVIOUS
<1> QED  BY <1>1, <1>8, <1>9 DEF Assign

\* A script begins with nothing.
LEMMA LeadsNothing == ASSUME NEW t PROVE Leads(t, << >>, {}, {})
BY DEF Leads

\* The creation of a VM and the assignment are calls.
LEMMA CreateCalls ==
    \A v \in Vms, where \in {"home", "cluster", "cirros"} : Create(v, where) \in Seq(Commands)
<1> TAKE v \in Vms, where \in {"home", "cluster", "cirros"}
<1>1. "add" \in VmDos /\ where \in Arguments
  BY DEF VmDos, Arguments, Words, Pools
<1>2. Cmd("add", v, where) \in Commands
  BY <1>1, VmCommand DEF Simple
<1> QED  BY <1>2 DEF Create, CreateSdkEntity

LEMMA AssignCall == Assign \in Seq(Commands)
<1>1. "add" \in Dos /\ "assignment" \in Ons /\ "" \in Arguments
  BY DEF Dos, VmDos, Ons, Contexts, Entities, Arguments, Words
<1>2. Legal(Cmd("add", "assignment", ""))
  BY DEF Legal, Cmd, Entities
<1>3. PICK c \in Commands : c = Cmd("add", "assignment", "")
  BY <1>1, <1>2, AnyCommand DEF Simple
<1>4. <<c>> \in Seq(Commands)
  OBVIOUS
<1> QED  BY <1>3, <1>4 DEF Assign

\* The items of each test, one after another.
LEMMA MacScript ==
    \E O, M : Leads("mac", MacTest, O, M) /\ "toggle" \notin O
<1> DEFINE M1 == {} \cup {"v1"}
           M2 == M1 \cup {"v2"}
           O1 == {} \cup {"cluster"}
           O2 == O1 \cup {"mac_pool"}
           O3 == O2 \cup {"network"}
           O4 == O3 \cup {"assignment"}
           O5 == O4 \cup {"vm_pool"}
<1>1. M1 \in SUBSET Vms /\ "v1" \in M1 /\ M2 \in SUBSET Vms /\ "v1" \in M2 /\ "v2" \in M2
  BY DEF Vms
<1>2. "mac_pool" \notin O1 /\ "network" \notin O2 /\ "assignment" \notin O3 /\ "vm_pool" \notin O4 /\ "vm_pool" \in O5 /\ "toggle" \notin O5
  OBVIOUS
<1>3. "cluster" \in Contexts /\ "mac_pool" \in Contexts /\ "network" \in Contexts /\ "assignment" \in Contexts /\ "vm_pool" \in Contexts
  BY DEF Contexts, Entities
<1>4. {"default", "network", "profile"} \subseteq Profiles
  BY DEF Profiles
<1>5. {} \cup {"v1"} = M1 /\ M1 \cup {"v2"} = M2
  OBVIOUS
<1>6. {} \cup {"cluster"} = O1 /\ O1 \cup {"mac_pool"} = O2 /\ O2 \cup {"network"} = O3 /\ O3 \cup {"assignment"} = O4 /\ O4 \cup {"vm_pool"} = O5
  OBVIOUS
<1> HIDE DEF M1, M2, O1, O2, O3, O4, O5
<1>7. PICK a1, a2, a3, a4, a5, a6, a7, a8, a9, a10, a11, a12, a13 :
          /\ a1 = With("cluster")
          /\ a2 = With("mac_pool")
          /\ a3 = With("network")
          /\ a4 = With("assignment")
          /\ a5 = With("vm_pool")
          /\ a6 = Call(Create("v1", "cluster"))
          /\ a7 = Call(WaitForDownStatus("v1"))
          /\ a8 = Call(CreateVnic("v1", "network"))
          /\ a9 = Call(RemoveVnic("v1"))
          /\ a10 = Call(MoveToCluster("v1", "home"))
          /\ a11 = Call(Create("v2", "cluster"))
          /\ a12 = Call(WaitForDownStatus("v2"))
          /\ a13 = Call(CreateVnic("v2", "network"))
  OBVIOUS
<1> DEFINE s0 == << >>
           s1 == Append(s0, a1)
           s2 == Append(s1, a2)
           s3 == Append(s2, a3)
           s4 == Append(s3, a4)
           s5 == Append(s4, a5)
           s6 == Append(s5, a6)
           s7 == Append(s6, a7)
           s8 == Append(s7, a8)
           s9 == Append(s8, a9)
           s10 == Append(s9, a10)
           s11 == Append(s10, a11)
           s12 == Append(s11, a12)
           s13 == Append(s12, a13)
<1>8. Leads("mac", s0, {}, {})
  BY LeadsNothing
<1>9. Leads("mac", s1, O1, {})
  BY <1>8, <1>7, <1>2, <1>3, <1>6, LeadsWith
<1>10. Leads("mac", s2, O2, {})
  BY <1>9, <1>7, <1>2, <1>3, <1>6, LeadsWith
<1>11. Leads("mac", s3, O3, {})
  BY <1>10, <1>7, <1>2, <1>3, <1>6, LeadsWith
<1>12. Leads("mac", s4, O4, {})
  BY <1>11, <1>7, <1>2, <1>3, <1>6, LeadsWith
<1>13. Leads("mac", s5, O5, {})
  BY <1>12, <1>7, <1>2, <1>3, <1>6, LeadsWith
<1>14. Leads("mac", s6, O5, M1)
  BY <1>13, <1>7, <1>2, <1>5, LeadsCreate DEF Vms
<1>15. Uses(WaitForDownStatus("v1"), M1)
  BY <1>1, <1>4, VmCalls DEF AllVmCalls
<1>16. Leads("mac", s7, O5, M1)
  BY <1>14, <1>7, <1>15, LeadsUse
<1>17. Uses(CreateVnic("v1", "network"), M1)
  BY <1>1, <1>4, VmCalls DEF AllVmCalls
<1>18. Leads("mac", s8, O5, M1)
  BY <1>16, <1>7, <1>17, LeadsUse
<1>19. Uses(RemoveVnic("v1"), M1)
  BY <1>1, <1>4, VmCalls DEF AllVmCalls
<1>20. Leads("mac", s9, O5, M1)
  BY <1>18, <1>7, <1>19, LeadsUse
<1>21. Uses(MoveToCluster("v1", "home"), M1)
  BY <1>1, <1>4, VmCalls DEF AllVmCalls
<1>22. Leads("mac", s10, O5, M1)
  BY <1>20, <1>7, <1>21, LeadsUse
<1>23. Leads("mac", s11, O5, M2)
  BY <1>22, <1>7, <1>2, <1>5, LeadsCreate DEF Vms
<1>24. Uses(WaitForDownStatus("v2"), M2)
  BY <1>1, <1>4, VmCalls DEF AllVmCalls
<1>25. Leads("mac", s12, O5, M2)
  BY <1>23, <1>7, <1>24, LeadsUse
<1>26. Uses(CreateVnic("v2", "network"), M2)
  BY <1>1, <1>4, VmCalls DEF AllVmCalls
<1>27. Leads("mac", s13, O5, M2)
  BY <1>25, <1>7, <1>26, LeadsUse
<1>28. a1 \in Items /\ a2 \in Items /\ a3 \in Items /\ a4 \in Items /\ a5 \in Items /\ a6 \in Items /\ a7 \in Items /\ a8 \in Items /\ a9 \in Items /\ a10 \in Items /\ a11 \in Items /\ a12 \in Items /\ a13 \in Items
  BY <1>7, <1>3, <1>15, <1>17, <1>19, <1>21, <1>24, <1>26, CreateCalls, ItemKinds DEF Uses, Vms
<1>29. <<a1, a2>> \o <<a3, a4>> \o <<a5, a6, a7, a8, a9, a10, a11, a12, a13>> = s13
  BY <1>28
<1>30. MacTest = <<a1, a2>> \o <<a3, a4>> \o <<a5, a6, a7, a8, a9, a10, a11, a12, a13>>
  BY <1>7 DEF MacTest, NewAssignedNetwork
<1> HIDE DEF s13
<1> QED  BY <1>2, <1>27, <1>29, <1>30

LEMMA QosScript ==
    \E O, M : Leads("qos", QosTest, O, M) /\ "toggle" \notin O
<1> DEFINE M1 == {} \cup {"v1"}
           O1 == {} \cup {"qos"}
           O2 == O1 \cup {"network"}
           O3 == O2 \cup {"assignment"}
           O4 == O3 \cup {"profile"}
           O5 == O4 \cup {"vm_pool"}
<1>1. M1 \in SUBSET Vms /\ "v1" \in M1
  BY DEF Vms
<1>2. "network" \notin O1 /\ "assignment" \notin O2 /\ "profile" \notin O3 /\ "vm_pool" \notin O4 /\ "vm_pool" \in O5 /\ "toggle" \notin O5
  OBVIOUS
<1>3. "qos" \in Contexts /\ "network" \in Contexts /\ "assignment" \in Contexts /\ "profile" \in Contexts /\ "vm_pool" \in Contexts
  BY DEF Contexts, Entities
<1>4. {"default", "network", "profile"} \subseteq Profiles
  BY DEF Profiles
<1>5. {} \cup {"v1"} = M1
  OBVIOUS
<1>6. {} \cup {"qos"} = O1 /\ O1 \cup {"network"} = O2 /\ O2 \cup {"assignment"} = O3 /\ O3 \cup {"profile"} = O4 /\ O4 \cup {"vm_pool"} = O5
  OBVIOUS
<1> HIDE DEF M1, O1, O2, O3, O4, O5
<1>7. PICK a1, a2, a3, a4, a5, a6, a7, a8, a9, a10, a11, a12, a13 :
          /\ a1 = With("qos")
          /\ a2 = With("network")
          /\ a3 = With("assignment")
          /\ a4 = With("profile")
          /\ a5 = With("vm_pool")
          /\ a6 = Call(Create("v1", "home"))
          /\ a7 = Call(CreateDisk)
          /\ a8 = Call(AttachDisk("v1"))
          /\ a9 = Call(WaitForDiskUpStatus)
          /\ a10 = Call(WaitForDownStatus("v1"))
          /\ a11 = Call(CreateVnic("v1", "profile"))
          /\ a12 = Call(Run("v1"))
          /\ a13 = Call(WaitForPoweringUpStatus("v1"))
  OBVIOUS
<1> DEFINE s0 == << >>
           s1 == Append(s0, a1)
           s2 == Append(s1, a2)
           s3 == Append(s2, a3)
           s4 == Append(s3, a4)
           s5 == Append(s4, a5)
           s6 == Append(s5, a6)
           s7 == Append(s6, a7)
           s8 == Append(s7, a8)
           s9 == Append(s8, a9)
           s10 == Append(s9, a10)
           s11 == Append(s10, a11)
           s12 == Append(s11, a12)
           s13 == Append(s12, a13)
<1>8. Leads("qos", s0, {}, {})
  BY LeadsNothing
<1>9. Leads("qos", s1, O1, {})
  BY <1>8, <1>7, <1>2, <1>3, <1>6, LeadsWith
<1>10. Leads("qos", s2, O2, {})
  BY <1>9, <1>7, <1>2, <1>3, <1>6, LeadsWith
<1>11. Leads("qos", s3, O3, {})
  BY <1>10, <1>7, <1>2, <1>3, <1>6, LeadsWith
<1>12. Leads("qos", s4, O4, {})
  BY <1>11, <1>7, <1>2, <1>3, <1>6, LeadsWith
<1>13. Leads("qos", s5, O5, {})
  BY <1>12, <1>7, <1>2, <1>3, <1>6, LeadsWith
<1>14. Leads("qos", s6, O5, M1)
  BY <1>13, <1>7, <1>2, <1>5, LeadsCreate DEF Vms
<1>15. Uses(CreateDisk, M1)
  BY <1>1, OtherCalls DEF AllOtherCalls
<1>16. Leads("qos", s7, O5, M1)
  BY <1>14, <1>7, <1>15, LeadsUse
<1>17. Uses(AttachDisk("v1"), M1)
  BY <1>1, OtherCalls DEF AllOtherCalls
<1>18. Leads("qos", s8, O5, M1)
  BY <1>16, <1>7, <1>17, LeadsUse
<1>19. Uses(WaitForDiskUpStatus, M1)
  BY <1>1, OtherCalls DEF AllOtherCalls
<1>20. Leads("qos", s9, O5, M1)
  BY <1>18, <1>7, <1>19, LeadsUse
<1>21. Uses(WaitForDownStatus("v1"), M1)
  BY <1>1, <1>4, VmCalls DEF AllVmCalls
<1>22. Leads("qos", s10, O5, M1)
  BY <1>20, <1>7, <1>21, LeadsUse
<1>23. Uses(CreateVnic("v1", "profile"), M1)
  BY <1>1, <1>4, VmCalls DEF AllVmCalls
<1>24. Leads("qos", s11, O5, M1)
  BY <1>22, <1>7, <1>23, LeadsUse
<1>25. Uses(Run("v1"), M1)
  BY <1>1, <1>4, VmCalls DEF AllVmCalls
<1>26. Leads("qos", s12, O5, M1)
  BY <1>24, <1>7, <1>25, LeadsUse
<1>27. Uses(WaitForPoweringUpStatus("v1"), M1)
  BY <1>1, <1>4, VmCalls DEF AllVmCalls
<1>28. Leads("qos", s13, O5, M1)
  BY <1>26, <1>7, <1>27, LeadsUse
<1>29. a1 \in Items /\ a2 \in Items /\ a3 \in Items /\ a4 \in Items /\ a5 \in Items /\ a6 \in Items /\ a7 \in Items /\ a8 \in Items /\ a9 \in Items /\ a10 \in Items /\ a11 \in Items /\ a12 \in Items /\ a13 \in Items
  BY <1>7, <1>3, <1>15, <1>17, <1>19, <1>21, <1>23, <1>25, <1>27, CreateCalls, ItemKinds DEF Uses, Vms
<1>30. <<a1, a2, a3, a4, a5, a6, a7, a8, a9, a10, a11, a12, a13>> = s13
  BY <1>29
<1>31. QosTest = <<a1, a2, a3, a4, a5, a6, a7, a8, a9, a10, a11, a12, a13>>
  BY <1>7 DEF QosTest
<1> HIDE DEF s13
<1> QED  BY <1>2, <1>28, <1>30, <1>31

LEMMA RestoreScript ==
    \E O, M : Leads("restore", RestoreTest, O, M) /\ "toggle" \notin O
<1> DEFINE M1 == {} \cup {"v1"}
           M2 == M1 \cup {"v2"}
           O1 == {} \cup {"vm_pool"}
<1>1. M1 \in SUBSET Vms /\ "v1" \in M1 /\ M2 \in SUBSET Vms /\ "v1" \in M2 /\ "v2" \in M2
  BY DEF Vms
<1>2. "vm_pool" \in O1 /\ "toggle" \notin O1
  OBVIOUS
<1>3. "vm_pool" \in Contexts
  BY DEF Contexts, Entities
<1>4. {"default", "network", "profile"} \subseteq Profiles
  BY DEF Profiles
<1>5. {} \cup {"v1"} = M1 /\ M1 \cup {"v2"} = M2
  OBVIOUS
<1>6. {} \cup {"vm_pool"} = O1
  OBVIOUS
<1> HIDE DEF M1, M2, O1
<1>7. PICK a1, a2, a3, a4, a5, a6, a7, a8, a9, a10, a11, a12, a13, a14, a15, a16 :
          /\ a1 = Call(CirrosTemplate)
          /\ a2 = With("vm_pool")
          /\ a3 = Call(Create("v1", "cirros"))
          /\ a4 = Call(CreateVnic("v1", "default"))
          /\ a5 = Call(WaitForDownStatus("v1"))
          /\ a6 = Call(Run("v1"))
          /\ a7 = Call(WaitForUpStatus("v1"))
          /\ a8 = Call(AllJobsWaitForDone)
          /\ a9 = Call(CreateSnapshot("v1"))
          /\ a10 = Call(AllJobsWaitForDone)
          /\ a11 = Call(HotReplaceMacAddr("v1"))
          /\ a12 = Call(Create("v2", "cirros"))
          /\ a13 = Call(CreateVnic("v2", "default"))
          /\ a14 = Call(Stop("v1"))
          /\ a15 = Call(WaitForDownStatus("v1"))
          /\ a16 = Call(Restore("v1"))
  OBVIOUS
<1> DEFINE s0 == << >>
           s1 == Append(s0, a1)
           s2 == Append(s1, a2)
           s3 == Append(s2, a3)
           s4 == Append(s3, a4)
           s5 == Append(s4, a5)
           s6 == Append(s5, a6)
           s7 == Append(s6, a7)
           s8 == Append(s7, a8)
           s9 == Append(s8, a9)
           s10 == Append(s9, a10)
           s11 == Append(s10, a11)
           s12 == Append(s11, a12)
           s13 == Append(s12, a13)
           s14 == Append(s13, a14)
           s15 == Append(s14, a15)
           s16 == Append(s15, a16)
<1>8. Leads("restore", s0, {}, {})
  BY LeadsNothing
<1>9. Uses(CirrosTemplate, {})
  BY <1>1, OtherCalls DEF AllOtherCalls
<1>10. Leads("restore", s1, {}, {})
  BY <1>8, <1>7, <1>9, LeadsUse
<1>11. Leads("restore", s2, O1, {})
  BY <1>10, <1>7, <1>2, <1>3, <1>6, LeadsWith
<1>12. Leads("restore", s3, O1, M1)
  BY <1>11, <1>7, <1>2, <1>5, LeadsCreate DEF Vms
<1>13. Uses(CreateVnic("v1", "default"), M1)
  BY <1>1, <1>4, VmCalls DEF AllVmCalls
<1>14. Leads("restore", s4, O1, M1)
  BY <1>12, <1>7, <1>13, LeadsUse
<1>15. Uses(WaitForDownStatus("v1"), M1)
  BY <1>1, <1>4, VmCalls DEF AllVmCalls
<1>16. Leads("restore", s5, O1, M1)
  BY <1>14, <1>7, <1>15, LeadsUse
<1>17. Uses(Run("v1"), M1)
  BY <1>1, <1>4, VmCalls DEF AllVmCalls
<1>18. Leads("restore", s6, O1, M1)
  BY <1>16, <1>7, <1>17, LeadsUse
<1>19. Uses(WaitForUpStatus("v1"), M1)
  BY <1>1, <1>4, VmCalls DEF AllVmCalls
<1>20. Leads("restore", s7, O1, M1)
  BY <1>18, <1>7, <1>19, LeadsUse
<1>21. Uses(AllJobsWaitForDone, M1)
  BY <1>1, OtherCalls DEF AllOtherCalls
<1>22. Leads("restore", s8, O1, M1)
  BY <1>20, <1>7, <1>21, LeadsUse
<1>23. Uses(CreateSnapshot("v1"), M1)
  BY <1>1, <1>4, VmCalls DEF AllVmCalls
<1>24. Leads("restore", s9, O1, M1)
  BY <1>22, <1>7, <1>23, LeadsUse
<1>25. Uses(AllJobsWaitForDone, M1)
  BY <1>1, OtherCalls DEF AllOtherCalls
<1>26. Leads("restore", s10, O1, M1)
  BY <1>24, <1>7, <1>25, LeadsUse
<1>27. Uses(HotReplaceMacAddr("v1"), M1)
  BY <1>1, <1>4, VmCalls DEF AllVmCalls
<1>28. Leads("restore", s11, O1, M1)
  BY <1>26, <1>7, <1>27, LeadsUse
<1>29. Leads("restore", s12, O1, M2)
  BY <1>28, <1>7, <1>2, <1>5, LeadsCreate DEF Vms
<1>30. Uses(CreateVnic("v2", "default"), M2)
  BY <1>1, <1>4, VmCalls DEF AllVmCalls
<1>31. Leads("restore", s13, O1, M2)
  BY <1>29, <1>7, <1>30, LeadsUse
<1>32. Uses(Stop("v1"), M2)
  BY <1>1, OtherCalls DEF AllOtherCalls
<1>33. Leads("restore", s14, O1, M2)
  BY <1>31, <1>7, <1>32, LeadsUse
<1>34. Uses(WaitForDownStatus("v1"), M2)
  BY <1>1, <1>4, VmCalls DEF AllVmCalls
<1>35. Leads("restore", s15, O1, M2)
  BY <1>33, <1>7, <1>34, LeadsUse
<1>36. Uses(Restore("v1"), M2)
  BY <1>1, <1>4, VmCalls DEF AllVmCalls
<1>37. Leads("restore", s16, O1, M2)
  BY <1>35, <1>7, <1>36, LeadsUse
<1>38. a1 \in Items /\ a2 \in Items /\ a3 \in Items /\ a4 \in Items /\ a5 \in Items /\ a6 \in Items /\ a7 \in Items /\ a8 \in Items /\ a9 \in Items /\ a10 \in Items /\ a11 \in Items /\ a12 \in Items /\ a13 \in Items /\ a14 \in Items /\ a15 \in Items /\ a16 \in Items
  BY <1>7, <1>3, <1>9, <1>13, <1>15, <1>17, <1>19, <1>21, <1>23, <1>25, <1>27, <1>30, <1>32, <1>34, <1>36, CreateCalls, ItemKinds DEF Uses, Vms
<1>39. <<a1, a2, a3, a4, a5>> \o <<a6, a7, a8>> \o <<a9, a10, a11>> \o <<a12, a13>> \o <<a14, a15>> \o <<a16>> = s16
  BY <1>38
<1>40. RestoreTest = <<a1, a2, a3, a4, a5>> \o <<a6, a7, a8>> \o <<a9, a10, a11>> \o <<a12, a13>> \o <<a14, a15>> \o <<a16>>
  BY <1>7 DEF RestoreTest, Start, SecondVm, StopAndWait
<1> HIDE DEF s16
<1> QED  BY <1>2, <1>37, <1>39, <1>40

LEMMA PreviewScript ==
    ASSUME NEW t, NEW last, \A M \in SUBSET Vms : "v1" \in M => Uses(last, M)
    PROVE  \E O, M : Leads(t, PreviewTest(last), O, M) /\ "toggle" \notin O
<1> DEFINE M1 == {} \cup {"v1"}
           M2 == M1 \cup {"v2"}
           O1 == {} \cup {"vm_pool"}
<1>1. M1 \in SUBSET Vms /\ "v1" \in M1 /\ M2 \in SUBSET Vms /\ "v1" \in M2 /\ "v2" \in M2
  BY DEF Vms
<1>2. "vm_pool" \in O1 /\ "toggle" \notin O1
  OBVIOUS
<1>3. "vm_pool" \in Contexts
  BY DEF Contexts, Entities
<1>4. {"default", "network", "profile"} \subseteq Profiles
  BY DEF Profiles
<1>5. {} \cup {"v1"} = M1 /\ M1 \cup {"v2"} = M2
  OBVIOUS
<1>6. {} \cup {"vm_pool"} = O1
  OBVIOUS
<1> HIDE DEF M1, M2, O1
<1>7. PICK a1, a2, a3, a4, a5, a6, a7, a8, a9, a10, a11, a12, a13, a14, a15, a16 :
          /\ a1 = Call(CirrosTemplate)
          /\ a2 = With("vm_pool")
          /\ a3 = Call(Create("v1", "cirros"))
          /\ a4 = Call(WaitForDownStatus("v1"))
          /\ a5 = Call(Run("v1"))
          /\ a6 = Call(WaitForUpStatus("v1"))
          /\ a7 = Call(AllJobsWaitForDone)
          /\ a8 = Call(CreateSnapshot("v1"))
          /\ a9 = Call(CreateVnic("v1", "default"))
          /\ a10 = Call(Stop("v1"))
          /\ a11 = Call(WaitForDownStatus("v1"))
          /\ a12 = Call(Preview("v1"))
          /\ a13 = Call(WaitForPreviewStatus("v1"))
          /\ a14 = Call(Create("v2", "cirros"))
          /\ a15 = Call(CreateVnic("v2", "default"))
          /\ a16 = Call(last)
  OBVIOUS
<1> DEFINE s0 == << >>
           s1 == Append(s0, a1)
           s2 == Append(s1, a2)
           s3 == Append(s2, a3)
           s4 == Append(s3, a4)
           s5 == Append(s4, a5)
           s6 == Append(s5, a6)
           s7 == Append(s6, a7)
           s8 == Append(s7, a8)
           s9 == Append(s8, a9)
           s10 == Append(s9, a10)
           s11 == Append(s10, a11)
           s12 == Append(s11, a12)
           s13 == Append(s12, a13)
           s14 == Append(s13, a14)
           s15 == Append(s14, a15)
           s16 == Append(s15, a16)
<1>8. Leads(t, s0, {}, {})
  BY LeadsNothing
<1>9. Uses(CirrosTemplate, {})
  BY <1>1, OtherCalls DEF AllOtherCalls
<1>10. Leads(t, s1, {}, {})
  BY <1>8, <1>7, <1>9, LeadsUse
<1>11. Leads(t, s2, O1, {})
  BY <1>10, <1>7, <1>2, <1>3, <1>6, LeadsWith
<1>12. Leads(t, s3, O1, M1)
  BY <1>11, <1>7, <1>2, <1>5, LeadsCreate DEF Vms
<1>13. Uses(WaitForDownStatus("v1"), M1)
  BY <1>1, <1>4, VmCalls DEF AllVmCalls
<1>14. Leads(t, s4, O1, M1)
  BY <1>12, <1>7, <1>13, LeadsUse
<1>15. Uses(Run("v1"), M1)
  BY <1>1, <1>4, VmCalls DEF AllVmCalls
<1>16. Leads(t, s5, O1, M1)
  BY <1>14, <1>7, <1>15, LeadsUse
<1>17. Uses(WaitForUpStatus("v1"), M1)
  BY <1>1, <1>4, VmCalls DEF AllVmCalls
<1>18. Leads(t, s6, O1, M1)
  BY <1>16, <1>7, <1>17, LeadsUse
<1>19. Uses(AllJobsWaitForDone, M1)
  BY <1>1, OtherCalls DEF AllOtherCalls
<1>20. Leads(t, s7, O1, M1)
  BY <1>18, <1>7, <1>19, LeadsUse
<1>21. Uses(CreateSnapshot("v1"), M1)
  BY <1>1, <1>4, VmCalls DEF AllVmCalls
<1>22. Leads(t, s8, O1, M1)
  BY <1>20, <1>7, <1>21, LeadsUse
<1>23. Uses(CreateVnic("v1", "default"), M1)
  BY <1>1, <1>4, VmCalls DEF AllVmCalls
<1>24. Leads(t, s9, O1, M1)
  BY <1>22, <1>7, <1>23, LeadsUse
<1>25. Uses(Stop("v1"), M1)
  BY <1>1, OtherCalls DEF AllOtherCalls
<1>26. Leads(t, s10, O1, M1)
  BY <1>24, <1>7, <1>25, LeadsUse
<1>27. Uses(WaitForDownStatus("v1"), M1)
  BY <1>1, <1>4, VmCalls DEF AllVmCalls
<1>28. Leads(t, s11, O1, M1)
  BY <1>26, <1>7, <1>27, LeadsUse
<1>29. Uses(Preview("v1"), M1)
  BY <1>1, <1>4, VmCalls DEF AllVmCalls
<1>30. Leads(t, s12, O1, M1)
  BY <1>28, <1>7, <1>29, LeadsUse
<1>31. Uses(WaitForPreviewStatus("v1"), M1)
  BY <1>1, <1>4, VmCalls DEF AllVmCalls
<1>32. Leads(t, s13, O1, M1)
  BY <1>30, <1>7, <1>31, LeadsUse
<1>33. Leads(t, s14, O1, M2)
  BY <1>32, <1>7, <1>2, <1>5, LeadsCreate DEF Vms
<1>34. Uses(CreateVnic("v2", "default"), M2)
  BY <1>1, <1>4, VmCalls DEF AllVmCalls
<1>35. Leads(t, s15, O1, M2)
  BY <1>33, <1>7, <1>34, LeadsUse
<1>36. Uses(last, M2)
  BY <1>1
<1>37. Leads(t, s16, O1, M2)
  BY <1>35, <1>7, <1>36, LeadsUse
<1>38. a1 \in Items /\ a2 \in Items /\ a3 \in Items /\ a4 \in Items /\ a5 \in Items /\ a6 \in Items /\ a7 \in Items /\ a8 \in Items /\ a9 \in Items /\ a10 \in Items /\ a11 \in Items /\ a12 \in Items /\ a13 \in Items /\ a14 \in Items /\ a15 \in Items /\ a16 \in Items
  BY <1>7, <1>3, <1>9, <1>13, <1>15, <1>17, <1>19, <1>21, <1>23, <1>25, <1>27, <1>29, <1>31, <1>34, <1>36, CreateCalls, ItemKinds DEF Uses, Vms
<1>39. <<a1, a2, a3, a4>> \o <<a5, a6, a7>> \o <<a8, a9>> \o <<a10, a11>> \o <<a12, a13>> \o <<a14, a15>> \o <<a16>> = s16
  BY <1>38
<1>40. PreviewTest(last) = <<a1, a2, a3, a4>> \o <<a5, a6, a7>> \o <<a8, a9>> \o <<a10, a11>> \o <<a12, a13>> \o <<a14, a15>> \o <<a16>>
  BY <1>7 DEF PreviewTest, Start, SecondVm, StopAndWait
<1> HIDE DEF s16
<1> QED  BY <1>2, <1>37, <1>39, <1>40

LEMMA OvnScript ==
    \E O, M : Leads("ovn", OvnTest, O, M) /\ "assignment" \notin O
<1> DEFINE M1 == {} \cup {"v1"}
           O1 == {} \cup {"auto_sync"}
           O2 == O1 \cup {"network"}
           O3 == O2 \cup {"vm_pool"}
           O4 == O3 \cup {"profile"}
           O5 == O4 \cup {"toggle"}
<1>1. M1 \in SUBSET Vms /\ "v1" \in M1
  BY DEF Vms
<1>2. "network" \notin O1 /\ "vm_pool" \notin O2 /\ "profile" \notin O3 /\ "vm_pool" \in O3 /\ "toggle" \notin O4 /\ "vm_pool" \in O4 /\ "vm_pool" \in O5 /\ "network" \in O2 /\ "assignment" \notin O5
  OBVIOUS
<1>3. "auto_sync" \in Contexts /\ "network" \in Contexts /\ "vm_pool" \in Contexts /\ "profile" \in Contexts /\ "toggle" \in Contexts
  BY DEF Contexts, Entities
<1>4. {"default", "network", "profile"} \subseteq Profiles
  BY DEF Profiles
<1>5. {} \cup {"v1"} = M1
  OBVIOUS
<1>6. {} \cup {"auto_sync"} = O1 /\ O1 \cup {"network"} = O2 /\ O2 \cup {"vm_pool"} = O3 /\ O3 \cup {"profile"} = O4 /\ O4 \cup {"toggle"} = O5
  OBVIOUS
<1> HIDE DEF M1, O1, O2, O3, O4, O5
<1>7. PICK a1, a2, a3, a4, a5, a6, a7, a8, a9, a10, a11, a12 :
          /\ a1 = With("auto_sync")
          /\ a2 = With("network")
          /\ a3 = Call(Assign)
          /\ a4 = Call(CirrosTemplate)
          /\ a5 = With("vm_pool")
          /\ a6 = Call(Create("v1", "cirros"))
          /\ a7 = Call(CreateVnic("v1", "network"))
          /\ a8 = Call(WaitForDownStatus("v1"))
          /\ a9 = Call(RunOnce("v1"))
          /\ a10 = Call(WaitForUpStatus("v1"))
          /\ a11 = With("profile")
          /\ a12 = With("toggle")
  OBVIOUS
<1> DEFINE s0 == << >>
           s1 == Append(s0, a1)
           s2 == Append(s1, a2)
           s3 == Append(s2, a3)
           s4 == Append(s3, a4)
           s5 == Append(s4, a5)
           s6 == Append(s5, a6)
           s7 == Append(s6, a7)
           s8 == Append(s7, a8)
           s9 == Append(s8, a9)
           s10 == Append(s9, a10)
           s11 == Append(s10, a11)
           s12 == Append(s11, a12)
<1>8. Leads("ovn", s0, {}, {})
  BY LeadsNothing
<1>9. Leads("ovn", s1, O1, {})
  BY <1>8, <1>7, <1>2, <1>3, <1>6, LeadsWith
<1>10. Leads("ovn", s2, O2, {})
  BY <1>9, <1>7, <1>2, <1>3, <1>6, LeadsWith
<1>11. Leads("ovn", s3, O2, {})
  BY <1>10, <1>7, <1>2, LeadsAssign
<1>12. Uses(CirrosTemplate, {})
  BY <1>1, OtherCalls DEF AllOtherCalls
<1>13. Leads("ovn", s4, O2, {})
  BY <1>11, <1>7, <1>12, LeadsUse
<1>14. Leads("ovn", s5, O3, {})
  BY <1>13, <1>7, <1>2, <1>3, <1>6, LeadsWith
<1>15. Leads("ovn", s6, O3, M1)
  BY <1>14, <1>7, <1>2, <1>5, LeadsCreate DEF Vms
<1>16. Uses(CreateVnic("v1", "network"), M1)
  BY <1>1, <1>4, VmCalls DEF AllVmCalls
<1>17. Leads("ovn", s7, O3, M1)
  BY <1>15, <1>7, <1>16, LeadsUse
<1>18. Uses(WaitForDownStatus("v1"), M1)
  BY <1>1, <1>4, VmCalls DEF AllVmCalls
<1>19. Leads("ovn", s8, O3, M1)
  BY <1>17, <1>7, <1>18, LeadsUse
<1>20. Uses(RunOnce("v1"), M1)
  BY <1>1, <1>4, VmCalls DEF AllVmCalls
<1>21. Leads("ovn", s9, O3, M1)
  BY <1>19, <1>7, <1>20, LeadsUse
<1>22. Uses(WaitForUpStatus("v1"), M1)
  BY <1>1, <1>4, VmCalls DEF AllVmCalls
<1>23. Leads("ovn", s10, O3, M1)
  BY <1>21, <1>7, <1>22, LeadsUse
<1>24. Leads("ovn", s11, O4, M1)
  BY <1>23, <1>7, <1>2, <1>3, <1>6, LeadsWith
<1>25. Leads("ovn", s12, O5, M1)
  BY <1>24, <1>7, <1>2, <1>3, <1>6, LeadsWith
<1>26. a1 \in Items /\ a2 \in Items /\ a3 \in Items /\ a4 \in Items /\ a5 \in Items /\ a6 \in Items /\ a7 \in Items /\ a8 \in Items /\ a9 \in Items /\ a10 \in Items /\ a11 \in Items /\ a12 \in Items
  BY <1>7, <1>3, <1>12, <1>16, <1>18, <1>20, <1>22, CreateCalls, AssignCall, ItemKinds DEF Uses, Vms
<1>27. <<a1, a2, a3, a4, a5, a6, a7, a8, a9, a10, a11, a12>> = s12
  BY <1>26
<1>28. OvnTest = <<a1, a2, a3, a4, a5, a6, a7, a8, a9, a10, a11, a12>>
  BY <1>7 DEF OvnTest
<1> HIDE DEF s12
<1> QED  BY <1>2, <1>25, <1>27, <1>28

\* Every test is such a script.
LEMMA ScriptOf ==
    ASSUME NEW t \in Tests
    PROVE  /\ Script(t) \in Seq(Items)
           /\ \A j \in DOMAIN Script(t) : Follows(t, Script(t), j)
           /\ t # "ovn" => \A j \in DOMAIN Script(t) : Script(t)[j] # With("toggle")
<1>0. \A M \in SUBSET Vms : "v1" \in M => Uses(UndoPreview("v1"), M) /\ Uses(Commit("v1"), M)
  <2> TAKE M \in SUBSET Vms
  <2> HAVE "v1" \in M
  <2> QED  BY VmCalls DEF AllVmCalls
<1>1. \E O, M : Leads(t, Script(t), O, M) /\ (t # "ovn" => "toggle" \notin O)
  <2>1. CASE t = "mac"
    BY <2>1, MacScript DEF Script
  <2>2. CASE t = "qos"
    BY <2>2, QosScript DEF Script
  <2>3. CASE t = "ovn"
    BY <2>3, OvnScript DEF Script
  <2>4. CASE t = "restore"
    BY <2>4, RestoreScript DEF Script
  <2>5. CASE t = "undo"
    BY <1>0, <2>5, PreviewScript DEF Script
  <2>6. CASE t = "commit"
    BY <1>0, <2>6, PreviewScript DEF Script
  <2> QED  BY <2>1, <2>2, <2>3, <2>4, <2>5, <2>6 DEF Tests
<1>2. "toggle" \in Contexts
  BY DEF Contexts
<1> QED  BY <1>1, <1>2 DEF Leads

\* Where the OVN test toggles the vNIC, and what it does to it before that.
LEMMA OvnOrder ==
    /\ Len(Script("ovn")) = 12
    /\ Script("ovn")[5] = With("vm_pool") /\ Script("ovn")[6] = Call(Create("v1", "cirros"))
    /\ Script("ovn")[7] = Call(CreateVnic("v1", "network"))
    /\ Script("ovn")[8] = Call(WaitForDownStatus("v1")) /\ Script("ovn")[9] = Call(RunOnce("v1"))
    /\ Script("ovn")[10] = Call(WaitForUpStatus("v1"))
    /\ Script("ovn")[11] = With("profile") /\ Script("ovn")[12] = With("toggle")
<1>1. Script("ovn") = OvnTest
  BY DEF Script
<1> QED  BY <1>1 DEF OvnTest

\* What the script's items are, in the words of the invariant.
LEMMA ItemAt ==
    ASSUME NEW t \in Tests, NEW j \in DOMAIN Script(t)
    PROVE  LET s == Script(t)  item == s[j] IN
           /\ j \in Nat \ {0} /\ j <= Len(s) /\ Len(s) \in Nat
           /\ \/ \E ctx \in Contexts : item = With(ctx)
              \/ \E cs \in Seq(Commands) : item = Call(cs)
           /\ Follows(t, s, j)
           /\ item = With("toggle") => t = "ovn" /\ j = 12
           /\ item = With("assignment") => t # "ovn"
<1>1. /\ Script(t) \in Seq(Items) /\ Follows(t, Script(t), j) /\ Script(t)[j] \in Items
      /\ j \in Nat \ {0} /\ j <= Len(Script(t)) /\ Len(Script(t)) \in Nat
  BY ScriptOf
<1>2. \/ \E ctx \in Contexts : Script(t)[j] = With(ctx)
      \/ \E cs \in Seq(Commands) : Script(t)[j] = Call(cs)
  BY <1>1 DEF Items
<1>3. Script(t)[j] = With("assignment") => t # "ovn"
  BY <1>1, ItemKinds DEF Follows
<1>4. ASSUME Script(t)[j] = With("toggle") PROVE t = "ovn" /\ j = 12
  <2>1. t = "ovn"
    BY <1>4, ScriptOf
  <2>2. 12 \in DOMAIN Script(t) /\ Script(t)[12] = With("toggle")
    BY <1>1, <2>1, OvnOrder
  <2>3. Follows(t, Script(t), 12) /\ j <= 12
    BY <1>1, <2>1, <2>2, ScriptOf, OvnOrder
  <2>4. \A i \in 1 .. 12 - 1 : Script(t)[i] # With("toggle")
    BY <2>2, <2>3, ItemKinds DEF Follows
  <2>5. j \notin 1 .. 12 - 1
    BY <1>4, <2>4
  <2> QED  BY <1>1, <2>1, <2>3, <2>5
<1> QED  BY <1>1, <1>2, <1>3, <1>4

-----------------------------------------------------------------------------
(* The way into a context.                                                   *)

Memory(ctx) == [pool |-> engine.pool, sync |-> engine.sync, profile |-> engine.nic["v1"].profile,
                view |-> View(ctx, engine, known)]

\* What a frame remembers is a memory.
LEMMA MemoryOf ==
    ASSUME TypeInv, NEW ctx \in Contexts
    PROVE  Memory(ctx) \in Memories
<1>1. /\ engine.pool \in Pools /\ engine.sync \in BOOLEAN /\ engine.nic["v1"] \in Nics
      /\ engine.nic["v1"].profile \in Profiles /\ engine.has \in SUBSET Entities /\ known \in SUBSET Vms
  BY DEF TypeInv, Engines, Nics, Vms
<1>2. View(ctx, engine, known) \in ViewsOf
  <2>1. CASE ctx \in Entities \ {"mac_pool"}
    <3>1. View(ctx, engine, known) = (ctx \in engine.has)
      BY <2>1 DEF View, Entities
    <3>2. (ctx \in engine.has) \in BOOLEAN
      OBVIOUS
    <3> QED  BY <3>1, <3>2 DEF ViewsOf
  <2>2. CASE ctx = "mac_pool"
    <3>1. View(ctx, engine, known) = <<ctx \in engine.has, engine.pool>>
      BY <2>2 DEF View, Entities
    <3>2. (ctx \in engine.has) \in BOOLEAN
      OBVIOUS
    <3>3. <<ctx \in engine.has, engine.pool>> \in BOOLEAN \X Pools
      BY <1>1, <3>2
    <3> QED  BY <3>1, <3>3 DEF ViewsOf
  <2>3. CASE ctx = "vm_pool"
    <3>1. View(ctx, engine, known) = {v \in known : ~Gone(engine, v)}
      BY <2>3 DEF View, Entities
    <3> QED  BY <1>1, <3>1 DEF ViewsOf
  <2>4. CASE ctx = "toggle"
    <3>1. View(ctx, engine, known) = engine.nic["v1"]
      BY <2>4 DEF View, Entities
    <3> QED  BY <1>1, <3>1 DEF ViewsOf
  <2>5. CASE ctx = "auto_sync"
    <3>1. View(ctx, engine, known) = engine.sync
      BY <2>5 DEF View, Entities
    <3> QED  BY <1>1, <3>1 DEF ViewsOf
  <2> QED  BY <2>1, <2>2, <2>3, <2>4, <2>5 DEF Contexts
<1> QED  BY <1>1, <1>2 DEF Memory, Memories

\* The next item is a `with`: its context is not open, and nothing that it owns is there.
LEMMA NothingYet ==
    ASSUME TypeInv, ScriptInv, VmInv, ToggleInv, LeftInv, Body,
           at <= Len(Script(test)), NEW ctx \in Contexts, Script(test)[at] = With(ctx)
    PROVE  ~IsOpen(ctx) /\ Remembers(ctx, Memory(ctx))
<1>1. /\ ~leaving /\ todo = << >> /\ failed = {} /\ test \in Tests /\ at \in DOMAIN Script(test) /\ known \subseteq Vms
      /\ at \in Nat
  BY ScriptOf DEF Body, TypeInv, ScriptInv
<1>2. /\ Follows(test, Script(test), at)
      /\ ctx = "toggle" => test = "ovn" /\ at = 12
      /\ ctx = "assignment" => test # "ovn"
  BY <1>1, ItemAt
<1>3. \A j \in 1 .. at - 1 : Script(test)[j] # With(ctx)
  BY <1>2, ItemKinds DEF Follows
<1>4. ~IsOpen(ctx)
  BY <1>1, <1>3 DEF ScriptInv, IsOpen
<1>5. \A x \in Things \ Vms : Present(engine, x) => Owner(x) # ctx
  BY <1>1, <1>4 DEF LeftInv, Blamed, LeftBy
<1>6. ctx \in Entities => ctx \notin engine.has
  <2>1. ctx \in Entities => Owner(ctx) = ctx /\ ctx \in Things \ Vms
    BY <1>2 DEF Owner, Things, Entities, Vms
  <2> QED  BY <1>5, <2>1 DEF Present
<1>7. ctx = "mac_pool" => engine.pool = "home"
  <2>1. "temp" \in Things \ Vms /\ Owner("temp") = "mac_pool"
    BY DEF Things, Vms, Owner
  <2>2. engine.pool \in Pools
    BY DEF TypeInv, Engines
  <2> QED  BY <1>5, <2>1, <2>2 DEF Present, Pools
<1>8. ctx = "vm_pool" => known = {}
  <2>1. ctx = "vm_pool" => \A j \in 1 .. at - 1, v \in Vms : ~Made(Script(test)[j], v)
    BY <1>2, ItemKinds DEF Follows
  <2> QED  BY <1>1, <2>1 DEF ScriptInv, Made, IsCall
<1>9. ctx = "toggle" => engine.nic["v1"] = GivenNic
  <2>1. ASSUME ctx = "toggle" PROVE engine.nic["v1"] = GivenNic
    <3>1. test = "ovn" /\ at \in 8 .. 12 /\ at # 8
      BY <1>2, <2>1
    <3> QED  BY <1>1, <3>1 DEF ToggleInv
  <2> QED  BY <2>1
<1>10. CASE ctx \in Entities \ {"mac_pool"}
  <2>1. Memory(ctx).view = (ctx \in engine.has)
    BY <1>10 DEF Memory, View, Entities
  <2>2. (ctx \in engine.has) = FALSE
    BY <1>6, <1>10
  <2> QED  BY <1>4, <1>10, <2>1, <2>2 DEF Remembers, Entities
<1>11. CASE ctx = "mac_pool"
  <2>1. Memory(ctx).view = <<ctx \in engine.has, engine.pool>> /\ Memory(ctx).pool = engine.pool
    BY <1>11 DEF Memory, View, Entities
  <2>2. (ctx \in engine.has) = FALSE
    BY <1>6, <1>11 DEF Entities
  <2> QED  BY <1>4, <1>7, <1>11, <2>1, <2>2 DEF Remembers
<1>12. CASE ctx = "vm_pool"
  <2>1. Memory(ctx).view = {v \in known : ~Gone(engine, v)}
    BY <1>12 DEF Memory, View, Entities
  <2> QED  BY <1>4, <1>8, <1>12, <2>1 DEF Remembers, Entities
<1>13. CASE ctx = "toggle"
  <2>1. Memory(ctx).view = engine.nic["v1"] /\ Memory(ctx).profile = engine.nic["v1"].profile
    BY <1>13 DEF Memory, View, Entities
  <2>2. GivenNic.profile = "network"
    BY DEF GivenNic
  <2> QED  BY <1>4, <1>9, <1>13, <2>1, <2>2 DEF Remembers, Entities
<1>14. CASE ctx = "auto_sync"
  <2>1. Memory(ctx).view = engine.sync /\ Memory(ctx).sync = engine.sync
    BY <1>14 DEF Memory, View, Entities
  <2> QED  BY <1>4, <1>14, <2>1 DEF Remembers, Entities
<1> QED  BY <1>10, <1>11, <1>12, <1>13, <1>14 DEF Contexts

\* The push and the pop of a context are plain commands.
LEMMA PushOf ==
    ASSUME TypeInv, NEW ctx \in Contexts, Remembers(ctx, Memory(ctx))
    PROVE  Simple(Push(ctx), "push", ctx, Memory(ctx))
<1>1. PICK m \in Memories : m = Memory(ctx)
  BY MemoryOf
<1>2. m.pool \in Pools /\ m.sync \in BOOLEAN /\ m \in Arguments
  BY DEF Memories, Arguments
<1>3. "push" \in Dos /\ ctx \in Ons
  BY DEF Dos, Ons
<1>4. Legal(Cmd("push", ctx, m))
  BY <1>1, <1>2 DEF Legal, Cmd
<1>5. Simple(Cmd("push", ctx, m), "push", ctx, m)
  BY <1>2, <1>3, <1>4, AnyCommand
<1> QED  BY <1>1, <1>5 DEF Push, Memory

LEMMA PopOf == ASSUME NEW ctx \in Contexts PROVE Simple(Pop(ctx), "pop", ctx, "")
<1>1. "pop" \in Dos /\ ctx \in Ons /\ "" \in Arguments
  BY DEF Dos, Ons, Arguments, Words
<1>2. Legal(Cmd("pop", ctx, ""))
  BY DEF Legal, Cmd
<1> QED  BY <1>1, <1>2, AnyCommand DEF Pop

PushAt(cs, ctx, p) ==
    /\ p \in DOMAIN cs /\ cs[p].do = "push" /\ cs[p].on = ctx
    /\ \A j \in DOMAIN cs : cs[j].do = "push" => j = p
    /\ \A j \in DOMAIN cs : j < p => Plain(cs[j])
Opened(ctx, cs) ==
    /\ cs \in Seq(Commands) /\ \E p \in DOMAIN cs : PushAt(cs, ctx, p)
    /\ \A k \in DOMAIN cs :
           /\ cs[k].do \notin {"pop", "remove_vm", "remove", "remove_if_listed"}
           /\ cs[k].on \in Vms => cs[k].do # "add" /\ ctx = "toggle" /\ cs[k].on = "v1"
           /\ cs[k].do \in NicDos => ctx = "toggle"
           /\ cs[k].do = "set_sync" => cs[k].arg = FALSE
           /\ \A x \in Things : Adds(cs[k], x) =>
                  \E j \in DOMAIN cs : j <= k + 1 /\ cs[j].do = "push" /\ cs[j].on = Owner(x)
    /\ ctx = "auto_sync" => Len(cs) >= 2 /\ cs[1].do = "set_sync" /\ PushAt(cs, ctx, 2)

\* Concatenations of single commands are tuples.
LEMMA Concatenated ==
    ASSUME NEW a \in Commands, NEW b \in Commands, NEW c \in Commands, NEW d \in Commands
    PROVE  /\ <<a>> \o <<b>> = <<a, b>> /\ <<a>> \o <<b>> \o << >> = <<a, b>>
           /\ <<a>> \o <<b>> \o <<c>> = <<a, b, c>>
           /\ << >> \o <<a>> \o << >> = <<a>> /\ << >> \o <<a>> = <<a>>
           /\ <<a>> \o <<b>> \o <<c>> \o <<d>> = <<a, b, c, d>>
           /\ <<a>> \o <<b>> \o <<c>> \o <<d>> \o << >> = <<a, b, c, d>>
<1>1. <<a, b>> = Append(<<a>>, b) /\ <<a, b, c>> = Append(<<a, b>>, c) /\ <<a, b, c, d>> = Append(<<a, b, c>>, d)
  OBVIOUS
<1>2. \A s \in Seq(Commands), x \in Commands : s \o <<x>> = Append(s, x)
  OBVIOUS
<1>4. <<a>> \in Seq(Commands) /\ <<a, b>> \in Seq(Commands) /\ <<a, b, c>> \in Seq(Commands)
  OBVIOUS
<1>5. <<a>> \o <<b>> = Append(<<a>>, b) /\ <<a, b>> \o <<c>> = Append(<<a, b>>, c)
      /\ <<a, b, c>> \o <<d>> = Append(<<a, b, c>>, d)
  BY <1>2, <1>4
<1>3. << >> \o <<a>> = <<a>> /\ <<a>> \o << >> = <<a>> /\ <<a, b>> \o << >> = <<a, b>>
      /\ <<a, b, c, d>> \o << >> = <<a, b, c, d>>
  OBVIOUS
<1> QED  BY <1>1, <1>3, <1>5, Zenon

\* What a tuple of commands is.
LEMMA TupleOne ==
    \A a \in Commands : \A cs : cs = <<a>> => cs \in Seq(Commands) /\ Len(cs) = 1 /\ DOMAIN cs = {1} /\ cs[1] = a
OBVIOUS
LEMMA TupleTwo ==
    \A a, b \in Commands : \A cs : cs = <<a, b>> =>
        cs \in Seq(Commands) /\ Len(cs) = 2 /\ DOMAIN cs = {1, 2} /\ cs[1] = a /\ cs[2] = b
OBVIOUS
LEMMA TupleThree ==
    \A a, b, c \in Commands : \A cs : cs = <<a, b, c>> =>
        cs \in Seq(Commands) /\ Len(cs) = 3 /\ DOMAIN cs = {1, 2, 3} /\ cs[1] = a /\ cs[2] = b /\ cs[3] = c
OBVIOUS
LEMMA TupleFour ==
    \A a, b, c, d \in Commands : \A cs : cs = <<a, b, c, d>> =>
        /\ cs \in Seq(Commands) /\ Len(cs) = 4 /\ DOMAIN cs = {1, 2, 3, 4}
        /\ cs[1] = a /\ cs[2] = b /\ cs[3] = c /\ cs[4] = d
OBVIOUS

\* The command about an entity or a mode.
LEMMA OwnCommands ==
    /\ \A x \in Entities : Simple(Cmd("add", x, ""), "add", x, "") /\ Simple(Cmd("remove", x, ""), "remove", x, "")
    /\ \A p \in Pools : Simple(Cmd("set_pool", "mac_pool", p), "set_pool", "mac_pool", p)
    /\ \A b \in BOOLEAN : Simple(Cmd("set_sync", "auto_sync", b), "set_sync", "auto_sync", b)
    /\ Simple(Cmd("remove_if_listed", "qos", ""), "remove_if_listed", "qos", "")
    /\ Simple(Cmd("wait_until_empty", "cluster", ""), "wait_until_empty", "cluster", "")
    /\ Simple(Cmd("wait_jobs", "jobs", ""), "wait_jobs", "jobs", "")
<1>1. /\ {"add", "remove", "set_pool", "set_sync", "remove_if_listed", "wait_until_empty", "wait_jobs"} \subseteq Dos
      /\ {"mac_pool", "auto_sync", "qos", "cluster", "jobs"} \subseteq Ons /\ Entities \subseteq Ons
      /\ "" \in Arguments /\ Pools \subseteq Arguments /\ BOOLEAN \subseteq Arguments
  BY DEF Dos, VmDos, Ons, Contexts, Entities, Arguments, Words
<1>2. /\ \A x \in Entities : Legal(Cmd("add", x, "")) /\ Legal(Cmd("remove", x, ""))
      /\ \A p \in Pools : Legal(Cmd("set_pool", "mac_pool", p))
      /\ \A b \in BOOLEAN : Legal(Cmd("set_sync", "auto_sync", b))
      /\ Legal(Cmd("remove_if_listed", "qos", "")) /\ Legal(Cmd("wait_until_empty", "cluster", ""))
      /\ Legal(Cmd("wait_jobs", "jobs", ""))
  BY DEF Legal, Cmd
<1> QED  BY <1>1, <1>2, AnyCommand

\* The commands about the vNIC that is toggled.
LEMMA NicCommands ==
    /\ Simple(Cmd("unplug", "v1", ""), "unplug", "v1", "") /\ Simple(Cmd("plug", "v1", ""), "plug", "v1", "")
    /\ \A p \in Profiles : Simple(Cmd("set_profile", "v1", p), "set_profile", "v1", p)
<1>1. {"unplug", "plug", "set_profile"} \subseteq VmDos /\ "v1" \in Vms /\ "" \in Arguments /\ Profiles \subseteq Arguments
  BY DEF VmDos, NicDos, Vms, Arguments, Words
<1> QED  BY <1>1, VmCommand

\* What a context sends on the way in.
LEMMA OpeningOf ==
    ASSUME TypeInv, NEW ctx \in Contexts, Remembers(ctx, Memory(ctx)), ctx = "assignment" => test # "ovn"
    PROVE  Opened(ctx, Opening(ctx))
<1>1. PICK p \in Commands : p = Push(ctx) /\ p.do = "push" /\ p.on = ctx /\ Plain(p)
  BY PushOf DEF Simple
<1>2. \A x : ~Adds(p, x)
  BY <1>1 DEF Adds
<1>0. PICK cs : cs = Opening(ctx)
  OBVIOUS
<1>3. ctx \in Entities => Owner(ctx) = ctx
  BY DEF Owner, Entities, Vms
<1>4. CASE ctx \in Entities \ {"mac_pool"}
  <2>1. PICK c \in Commands : c = Cmd("add", ctx, "") /\ c.do = "add" /\ c.on = ctx /\ Plain(c)
    BY <1>4, OwnCommands DEF Simple
  <2>2. Before(ctx) = <<c>> /\ Inside(ctx) = << >>
    BY <1>4, <2>1 DEF Before, Inside, Entities, ClusterCreate, NetworkCreate, Assign, VnicProfileCreate, QosCreate,
                      CreateSdkEntity
  <2>3. Opening(ctx) = <<c, p>>
    <3>1. Opening(ctx) = <<c>> \o <<p>> \o << >>
      BY <1>1, <2>2 DEF Opening
    <3> QED  BY <3>1, Concatenated
  <2>7. cs \in Seq(Commands) /\ Len(cs) = 2 /\ DOMAIN cs = {1, 2} /\ cs[1] = c /\ cs[2] = p
    BY <1>0, <2>3, TupleTwo
  <2>4. PushAt(cs, ctx, 2)
    BY <1>1, <2>1, <2>7 DEF PushAt
  <2>5. \A x : Adds(c, x) => x = ctx
    BY <2>1 DEF Adds
  <2>6. ctx \notin Vms /\ ctx # "auto_sync"
    BY <1>4 DEF Entities, Vms
  <2>8. ASSUME NEW k \in DOMAIN cs, NEW x \in Things, Adds(cs[k], x)
        PROVE  \E j \in DOMAIN cs : j <= k + 1 /\ cs[j].do = "push" /\ cs[j].on = Owner(x)
    <3>1. k = 1 /\ Owner(x) = ctx
      BY <1>2, <1>3, <1>4, <2>5, <2>7, <2>8
    <3> QED  BY <1>1, <2>7, <3>1
  <2>9. \A k \in DOMAIN cs :
           /\ cs[k].do \in {"add", "push"} /\ cs[k].on \notin Vms
    BY <1>1, <2>1, <2>6, <2>7
  <2> QED  BY <1>0, <2>4, <2>6, <2>7, <2>8, <2>9 DEF Opened, NicDos
<1>5. CASE ctx = "mac_pool"
  <2>1. PICK c \in Commands : c = Cmd("add", ctx, "") /\ c.do = "add" /\ c.on = ctx /\ Plain(c)
    BY <1>5, OwnCommands DEF Simple, Entities
  <2>2. PICK d \in Commands : d = Cmd("set_pool", "mac_pool", "temp") /\ d.do = "set_pool" /\ d.on = "mac_pool"
    BY OwnCommands DEF Simple, Pools
  <2>3. Before(ctx) = <<c>> /\ Inside(ctx) = <<d>>
    BY <1>5, <2>1, <2>2 DEF Before, Inside, MacPoolCreate, SetMacPool, CreateSdkEntity
  <2>4. Opening(ctx) = <<c, p, d>>
    <3>1. Opening(ctx) = <<c>> \o <<p>> \o <<d>>
      BY <1>1, <2>3 DEF Opening
    <3> QED  BY <3>1, Concatenated
  <2>7. cs \in Seq(Commands) /\ Len(cs) = 3 /\ DOMAIN cs = {1, 2, 3} /\ cs[1] = c /\ cs[2] = p /\ cs[3] = d
    BY <1>0, <2>4, TupleThree
  <2>9. /\ cs[1].do = "add" /\ cs[2].do = "push" /\ cs[3].do = "set_pool" /\ cs[2].on = ctx /\ Plain(cs[1])
        /\ cs[1].on \notin Vms /\ cs[2].on \notin Vms /\ cs[3].on \notin Vms
    BY <1>1, <1>5, <2>1, <2>2, <2>7 DEF Vms
  <2>5. PushAt(cs, ctx, 2)
    BY <2>7, <2>9 DEF PushAt
  <2>6. (\A x : Adds(c, x) => x = ctx) /\ (\A x : Adds(d, x) => x = "temp")
    BY <2>1, <2>2 DEF Adds
  <2>8. Owner("temp") = ctx
    BY <1>5 DEF Owner, Vms
  <2>10. ASSUME NEW k \in DOMAIN cs, NEW x \in Things, Adds(cs[k], x)
         PROVE  \E j \in DOMAIN cs : j <= k + 1 /\ cs[j].do = "push" /\ cs[j].on = Owner(x)
    <3>1. k \in {1, 3} /\ Owner(x) = ctx
      BY <1>2, <1>3, <1>5, <2>6, <2>7, <2>8, <2>10 DEF Entities
    <3> QED  BY <2>7, <2>9, <3>1
  <2>11. \A k \in DOMAIN cs : cs[k].do \in {"add", "push", "set_pool"} /\ cs[k].on \notin Vms
    BY <2>7, <2>9
  <2> QED  BY <1>0, <1>5, <2>5, <2>7, <2>10, <2>11 DEF Opened, NicDos
<1>6. CASE ctx = "vm_pool"
  <2>1. Before(ctx) = << >> /\ Inside(ctx) = << >>
    BY <1>6 DEF Before, Inside
  <2>2. Opening(ctx) = <<p>>
    <3>1. Opening(ctx) = << >> \o <<p>> \o << >>
      BY <1>1, <2>1 DEF Opening
    <3> QED  BY <3>1, Concatenated
  <2>7. cs \in Seq(Commands) /\ Len(cs) = 1 /\ DOMAIN cs = {1} /\ cs[1] = p
    BY <1>0, <2>2, TupleOne
  <2>3. PushAt(cs, ctx, 1)
    BY <1>1, <2>7 DEF PushAt
  <2> QED  BY <1>0, <1>1, <1>2, <1>6, <2>2, <2>3, <2>7 DEF Opened, NicDos, Vms
<1>7. CASE ctx = "toggle"
  <2>1. PICK c \in Commands, d \in Commands, f \in Commands :
            /\ c = Cmd("unplug", "v1", "") /\ c.do = "unplug" /\ c.on = "v1" /\ Plain(c)
            /\ d = Cmd("set_profile", "v1", "profile") /\ d.do = "set_profile" /\ d.on = "v1" /\ Plain(d)
            /\ f = Cmd("plug", "v1", "") /\ f.do = "plug" /\ f.on = "v1" /\ Plain(f)
    BY NicCommands DEF Simple, Profiles
  <2>2. Before(ctx) = <<c>> \o <<d>> \o <<f>> /\ Inside(ctx) = << >>
    BY <1>7, <2>1 DEF Before, Inside, HotReplaceProfile, Hotunplug, SetVnicProfile, Hotplug
  <2>8. <<c>> \o <<d>> \o <<f>> \o <<p>> \o << >> = <<c, d, f, p>>
    BY Concatenated
  <2>3. Opening(ctx) = <<c, d, f, p>>
    BY <1>1, <2>2, <2>8 DEF Opening
  <2>7. cs \in Seq(Commands) /\ Len(cs) = 4 /\ DOMAIN cs = {1, 2, 3, 4} /\ cs[1] = c /\ cs[2] = d /\ cs[3] = f /\ cs[4] = p
    BY <1>0, <2>3, TupleFour
  <2>4. PushAt(cs, ctx, 4)
    BY <1>1, <2>1, <2>7 DEF PushAt
  <2>5. \A x : ~Adds(c, x) /\ ~Adds(d, x) /\ ~Adds(f, x)
    BY <2>1 DEF Adds
  <2> QED  BY <1>0, <1>1, <1>2, <1>7, <2>1, <2>3, <2>4, <2>5, <2>7 DEF Opened, NicDos, Vms
<1>8. CASE ctx = "auto_sync"
  <2>1. PICK c \in Commands : c = Cmd("set_sync", "auto_sync", FALSE) /\ c.do = "set_sync" /\ c.on = "auto_sync"
                              /\ c.arg = FALSE /\ Plain(c)
    BY OwnCommands DEF Simple
  <2>2. Before(ctx) = <<c>> /\ Inside(ctx) = << >>
    BY <1>8, <2>1 DEF Before, Inside, SetAutoSync
  <2>3. Opening(ctx) = <<c, p>>
    <3>1. Opening(ctx) = <<c>> \o <<p>> \o << >>
      BY <1>1, <2>2 DEF Opening
    <3> QED  BY <3>1, Concatenated
  <2>7. cs \in Seq(Commands) /\ Len(cs) = 2 /\ DOMAIN cs = {1, 2} /\ cs[1] = c /\ cs[2] = p
    BY <1>0, <2>3, TupleTwo
  <2>4. PushAt(cs, ctx, 2)
    BY <1>1, <2>1, <2>7 DEF PushAt
  <2>5. \A x : ~Adds(c, x)
    BY <2>1 DEF Adds
  <2>6. /\ cs[1].do = "set_sync" /\ cs[2].do = "push" /\ cs[1].arg = FALSE
        /\ cs[1].on \notin Vms /\ cs[2].on \notin Vms
    BY <1>1, <1>8, <2>1, <2>7 DEF Vms
  <2>8. \A k \in DOMAIN cs, x \in Things : ~Adds(cs[k], x)
    BY <1>2, <2>5, <2>7
  <2>9. \A k \in DOMAIN cs : cs[k].do \in {"set_sync", "push"} /\ cs[k].on \notin Vms
                             /\ (cs[k].do = "set_sync" => cs[k].arg = FALSE)
    BY <2>6, <2>7
  <2> QED  BY <1>0, <1>8, <2>4, <2>6, <2>7, <2>8, <2>9 DEF Opened, NicDos
<1> QED  BY <1>4, <1>5, <1>6, <1>7, <1>8 DEF Contexts

-----------------------------------------------------------------------------
(* The way out of a context.                                                 *)

\* What an open frame is.
LEMMA FrameOf ==
    ASSUME TypeInv, NEW i \in DOMAIN stack
    PROVE  /\ stack[i] \in Frames /\ stack[i].on \in Contexts /\ stack[i].do = "push"
           /\ stack[i].arg.pool \in Pools /\ stack[i].arg.sync \in BOOLEAN /\ Remembers(stack[i].on, stack[i].arg)
<1>1. stack[i] \in Frames
  BY DEF TypeInv
<1>2. Legal(stack[i]) /\ stack[i].do = "push"
  BY <1>1 DEF Frames, Commands, IsCommand
<1> QED  BY <1>1, <1>2 DEF Legal, VmDos, NicDos, TemplateDos

TriedStop(v) == Try(Cmd("stop", v, ""), 1, {"not_running"}, 1)
TriedWait(v, caught) == Try(AvoidUnknownDcStatus(v), 1, caught, 2)
TriedRemoval(v, ok, caught) == Try(Cmd("remove_vm", v, ""), ok, caught, 1)

\* The commands of Vm.remove.
LEMMA RemovalCommands ==
    \A v \in Vms : \A caught \in {SdkErrors, {"NotFoundError"}} :
        /\ Careful(TriedWait(v, caught), "wait_dc", v, 1, caught, 2)
        /\ Careful(TriedRemoval(v, 1, caught), "remove_vm", v, 1, caught, 1)
        /\ Careful(TriedRemoval(v, 3, caught), "remove_vm", v, 3, caught, 1)
<1> TAKE v \in Vms
<1> TAKE caught \in {SdkErrors, {"NotFoundError"}}
<1>1. {"wait_dc", "remove_vm"} \subseteq Dos \ {"add"} /\ "" \in Arguments /\ caught \in SUBSET Caught
  BY DEF Dos, VmDos, Arguments, Words, Caught, Errors, SdkErrors
<1>2. PICK one \in 1 .. 2, two \in 1 .. 2, three \in 1 .. 3 : one = 1 /\ two = 2 /\ three = 3
  OBVIOUS
<1>3. one \in 1 .. 3 /\ v \in Vms \cup {"template"}
  OBVIOUS
<1>4. PICK wait, remove, none : wait = "wait_dc" /\ remove = "remove_vm" /\ none = ""
  OBVIOUS
<1>5. wait \in Dos \ {"add"} /\ remove \in Dos \ {"add"} /\ none \in Arguments
  BY <1>1, <1>4
<1>6. Legal(Try(Cmd(wait, v, none), one, caught, two)) /\ Legal(Try(Cmd(remove, v, none), one, caught, one))
      /\ Legal(Try(Cmd(remove, v, none), three, caught, one))
  BY <1>4 DEF Legal, Try, Cmd, VmDos, NicDos
<1>7. /\ Careful(Try(Cmd(wait, v, none), one, caught, two), wait, v, one, caught, two)
      /\ Careful(Try(Cmd(remove, v, none), one, caught, one), remove, v, one, caught, one)
      /\ Careful(Try(Cmd(remove, v, none), three, caught, one), remove, v, three, caught, one)
  BY <1>1, <1>3, <1>5, <1>6, TriedCommand
<1> QED  BY <1>2, <1>4, <1>7 DEF TriedWait, TriedRemoval, AvoidUnknownDcStatus

\* How a VM is removed, once more if the first time fails.
Removal(r, v) ==
    /\ r \in Seq(Commands) /\ Len(r) = 6 /\ DOMAIN r = 1 .. 6
    /\ \A k \in 1 .. 6 : r[k].on = v
    /\ r[1].do = "stop" /\ r[1].ok = 1 /\ r[1].caught = {"not_running"} /\ r[1].to = 1
    /\ r[2].do = "wait_vm" /\ r[2].ok = 1 /\ r[2].caught = {} /\ r[2].to = 1
    /\ r[3].do = "wait_dc" /\ r[3].ok = 1 /\ r[3].caught = SdkErrors /\ r[3].to = 2
    /\ r[4].do = "remove_vm" /\ r[4].ok = 3 /\ r[4].caught = SdkErrors /\ r[4].to = 1
    /\ r[5].do = "wait_dc" /\ r[5].ok = 1 /\ r[5].caught = {"NotFoundError"} /\ r[5].to = 2
    /\ r[6].do = "remove_vm" /\ r[6].ok = 1 /\ r[6].caught = {"NotFoundError"} /\ r[6].to = 1

\* Vm.remove is such a removal.
LEMMA VmRemoveOf == ASSUME NEW v \in Vms PROVE Removal(VmRemove(v), v)
<1>1. PICK a : a = TriedStop(v) /\ Careful(a, "stop", v, 1, {"not_running"}, 1)
  BY StopCommand DEF TriedStop
<1>2. PICK b : b = Cmd("wait_vm", v, {"down"}) /\ Simple(b, "wait_vm", v, {"down"})
  <2>1. "wait_vm" \in VmDos /\ {"down"} \in Arguments
    BY DEF VmDos, Arguments, VmStates
  <2> QED  BY <2>1, VmCommand
<1>3. PICK c : c = TriedWait(v, SdkErrors) /\ Careful(c, "wait_dc", v, 1, SdkErrors, 2)
  BY RemovalCommands
<1>4. PICK d : d = TriedRemoval(v, 3, SdkErrors) /\ Careful(d, "remove_vm", v, 3, SdkErrors, 1)
  BY RemovalCommands
<1>5. PICK f : f = TriedWait(v, {"NotFoundError"}) /\ Careful(f, "wait_dc", v, 1, {"NotFoundError"}, 2)
  BY RemovalCommands
<1>6. PICK g : g = TriedRemoval(v, 1, {"NotFoundError"}) /\ Careful(g, "remove_vm", v, 1, {"NotFoundError"}, 1)
  BY RemovalCommands
<1>7. a \in Commands /\ b \in Commands /\ c \in Commands /\ d \in Commands /\ f \in Commands /\ g \in Commands
  BY <1>1, <1>2, <1>3, <1>4, <1>5, <1>6 DEF Careful, Simple
<1>8. RetryRemoval(v) = <<f, g>> /\ Len(RetryRemoval(v)) = 2
  BY <1>5, <1>6 DEF RetryRemoval, TriedWait, TriedRemoval
<1>9. VmRemove(v) = <<a>> \o <<b>> \o <<c, d>> \o <<f, g>>
  <2>1. 1 + Len(RetryRemoval(v)) = 3
    BY <1>8
  <2>2. Stop(v) = <<a>> /\ WaitForDownStatus(v) = <<b>>
    BY <1>1, <1>2 DEF Stop, WaitForDownStatus, WaitForStatus, TriedStop
  <2>3. Try(AvoidUnknownDcStatus(v), 1, SdkErrors, 2) = c
        /\ Try(Cmd("remove_vm", v, ""), 1 + Len(RetryRemoval(v)), SdkErrors, 1) = d
    BY <1>3, <1>4, <2>1 DEF TriedWait, TriedRemoval
  <2> QED  BY <1>8, <2>2, <2>3, Zenon DEF VmRemove
<1>10. PICK r : r = VmRemove(v)
  OBVIOUS
<1>11. /\ r \in Seq(Commands) /\ Len(r) = 6 /\ r[1] = a /\ r[2] = b /\ r[3] = c /\ r[4] = d /\ r[5] = f /\ r[6] = g
  BY <1>7, <1>9, <1>10
<1>12. DOMAIN r = 1 .. 6
  BY <1>11
<1>13. a.on = v /\ b.on = v /\ c.on = v /\ d.on = v /\ f.on = v /\ g.on = v
  BY <1>1, <1>2, <1>3, <1>4, <1>5, <1>6 DEF Careful, Simple
<1>14. \A k \in 1 .. 6 : r[k].on = v
  BY <1>11, <1>13
<1>15. a.do = "stop" /\ a.ok = 1 /\ a.caught = {"not_running"} /\ a.to = 1
  BY <1>1 DEF Careful
<1>16. b.do = "wait_vm" /\ b.ok = 1 /\ b.caught = {} /\ b.to = 1
  BY <1>2 DEF Simple, Plain
<1>17. c.do = "wait_dc" /\ c.ok = 1 /\ c.caught = SdkErrors /\ c.to = 2
  BY <1>3 DEF Careful
<1>18. d.do = "remove_vm" /\ d.ok = 3 /\ d.caught = SdkErrors /\ d.to = 1
  BY <1>4 DEF Careful
<1>19. f.do = "wait_dc" /\ f.ok = 1 /\ f.caught = {"NotFoundError"} /\ f.to = 2
  BY <1>5 DEF Careful
<1>20. g.do = "remove_vm" /\ g.ok = 1 /\ g.caught = {"NotFoundError"} /\ g.to = 1
  BY <1>6 DEF Careful
<1> QED  BY <1>10, <1>11, <1>12, <1>14, <1>15, <1>16, <1>17, <1>18, <1>19, <1>20 DEF Removal

\* A concatenation, by its indices.
LEMMA Joined ==
    ASSUME NEW r \in Seq(Commands), NEW cs \in Seq(Commands)
    PROVE  /\ r \o cs \in Seq(Commands) /\ Len(r \o cs) = Len(r) + Len(cs) /\ Len(r) \in Nat /\ Len(cs) \in Nat
           /\ \A k \in 1 .. Len(r) : k \in DOMAIN (r \o cs) /\ (r \o cs)[k] = r[k]
           /\ \A k \in DOMAIN cs : k + Len(r) \in DOMAIN (r \o cs) /\ (r \o cs)[k + Len(r)] = cs[k]
           /\ \A k \in DOMAIN (r \o cs) : k \in 1 .. Len(r) \/ k - Len(r) \in DOMAIN cs
OBVIOUS

\* A VM is removed before the rest of the clause.
LEMMA RemovalFirst ==
    ASSUME NEW v \in Vms, NEW cs \in Seq(Commands), cs # << >>, NEW frame, frame.on = "vm_pool",
           ClosesFrame(cs, frame), \A k \in DOMAIN cs : cs[k].on # v
    PROVE  LET n == VmRemove(v) \o cs IN
           /\ n \in Seq(Commands) /\ n # << >> /\ ClosesFrame(n, frame)
           /\ \A k \in DOMAIN n : n[k].on = v \/ \E j \in DOMAIN cs : n[k].on = cs[j].on
           /\ Clears(n, v)
           /\ v = "v2" /\ Clears(cs, "v1") => Clears(n, "v1")
<1>1. PICK r : r = VmRemove(v) /\ Removal(r, v)
  BY VmRemoveOf
<1>2. PICK n : n = VmRemove(v) \o cs
  OBVIOUS
<1>3. /\ n \in Seq(Commands) /\ Len(n) = 6 + Len(cs) /\ Len(cs) \in Nat /\ Len(cs) > 0
      /\ \A k \in 1 .. 6 : k \in DOMAIN n /\ n[k] = r[k]
      /\ \A k \in DOMAIN cs : k + 6 \in DOMAIN n /\ n[k + 6] = cs[k]
      /\ \A k \in DOMAIN n : k \in 1 .. 6 \/ k - 6 \in DOMAIN cs
      /\ DOMAIN cs = 1 .. Len(cs)
  <2>1. r \in Seq(Commands) /\ Len(r) = 6 /\ n = r \o cs
    BY <1>1, <1>2 DEF Removal
  <2>2. /\ n \in Seq(Commands) /\ Len(n) = Len(r) + Len(cs) /\ Len(cs) \in Nat
        /\ \A k \in 1 .. Len(r) : k \in DOMAIN n /\ n[k] = r[k]
        /\ \A k \in DOMAIN cs : k + Len(r) \in DOMAIN n /\ n[k + Len(r)] = cs[k]
        /\ \A k \in DOMAIN n : k \in 1 .. Len(r) \/ k - Len(r) \in DOMAIN cs
    BY <2>1, Joined
  <2>3. Len(cs) > 0 /\ DOMAIN cs = 1 .. Len(cs)
    OBVIOUS
  <2> QED  BY <2>1, <2>2, <2>3
<1>4. \A k \in 1 .. 6 : /\ r[k].on = v /\ r[k].do \in {"stop", "wait_vm", "wait_dc", "remove_vm"}
                        /\ r[k].ok \in 1 .. 3 /\ r[k].to \in 1 .. 2 /\ k + r[k].ok <= 7 /\ k + r[k].to <= 7
                        /\ k >= 3 => ~Needs(r[k])
  <2>1. \A k \in 1 .. 6 : k = 1 \/ k = 2 \/ k = 3 \/ k = 4 \/ k = 5 \/ k = 6
    OBVIOUS
  <2> QED  BY <1>1, <2>1 DEF Removal, Needs, SdkErrors
<1>5. ClosesFrame(n, frame)
  <2>1. ASSUME NEW k \in 1 .. 6
        PROVE  LET c == n[k] IN
               /\ c.do # "push" /\ c.do # "pop" /\ k < Len(n)
               /\ k + c.ok <= Len(n) /\ k + c.to <= Len(n)
               /\ \A x \in Things : ~Adds(c, x)
               /\ c.do = "remove_vm" => \A j \in DOMAIN n : j > k /\ n[j].on = c.on => ~Needs(n[j])
               /\ c.do # "set_sync" /\ c.do \notin NicDos
    <3>1. n[k] = r[k] /\ r[k].do \in {"stop", "wait_vm", "wait_dc", "remove_vm"}
      BY <1>3, <1>4
    <3>2. k + n[k].ok <= Len(n) /\ k + n[k].to <= Len(n) /\ k < Len(n)
      BY <1>3, <1>4, <3>1
    <3>3. n[k].do = "remove_vm" => k >= 3
      BY <1>1, <3>1 DEF Removal
    <3>4. \A j \in DOMAIN n : n[j].on = v => j \in 1 .. 6
      <4> TAKE j \in DOMAIN n
      <4>1. CASE j - 6 \in DOMAIN cs
        <5>1. n[(j - 6) + 6] = cs[j - 6] /\ (j - 6) + 6 = j
          BY <1>3, <4>1
        <5> QED  BY <4>1, <5>1
      <4> QED  BY <1>3, <4>1
    <3>5. n[k].do = "remove_vm" => \A j \in DOMAIN n : j > k /\ n[j].on = n[k].on => ~Needs(n[j])
      BY <1>3, <1>4, <3>1, <3>3, <3>4
    <3> QED  BY <3>1, <3>2, <3>5 DEF Adds, NicDos
  <2>2. ASSUME NEW i \in DOMAIN cs
        PROVE  LET c == n[i + 6] IN
               /\ c.do # "push"
               /\ c.do = "pop" <=> i + 6 = Len(n)
               /\ i + 6 < Len(n) => i + 6 + c.ok <= Len(n) /\ i + 6 + c.to <= Len(n)
               /\ \A x \in Things : ~Adds(c, x)
               /\ c.do = "remove_vm" => \A j \in DOMAIN n : j > i + 6 /\ n[j].on = c.on => ~Needs(n[j])
               /\ c.do = "set_sync" => frame.on = "auto_sync" /\ c.arg = frame.arg.sync
               /\ c.do \in NicDos => frame.on = "toggle"
    <3>1. n[i + 6] = cs[i] /\ i \in 1 .. Len(cs) /\ cs[i].ok \in 1 .. 3 /\ cs[i].to \in 1 .. 2
      BY <1>3 DEF Commands
    <3>2. i + 6 = Len(n) <=> i = Len(cs)
      BY <1>3, <3>1
    <3>3. i + 6 < Len(n) => i + 6 + cs[i].ok <= Len(n) /\ i + 6 + cs[i].to <= Len(n)
      <4>1. i < Len(cs) => i + cs[i].ok <= Len(cs) /\ i + cs[i].to <= Len(cs)
        BY DEF ClosesFrame
      <4> QED  BY <1>3, <3>1, <4>1
    <3>4. cs[i].do = "remove_vm" => \A j \in DOMAIN n : j > i + 6 /\ n[j].on = cs[i].on => ~Needs(n[j])
      <4> SUFFICES ASSUME cs[i].do = "remove_vm", NEW j \in DOMAIN n, j > i + 6, n[j].on = cs[i].on PROVE ~Needs(n[j])
        OBVIOUS
      <4>1. j - 6 \in DOMAIN cs /\ j - 6 > i /\ (j - 6) + 6 = j
        BY <1>3, <3>1
      <4>2. n[j] = cs[j - 6]
        BY <1>3, <4>1
      <4> QED  BY <4>1, <4>2 DEF ClosesFrame
    <3> QED  BY <3>1, <3>2, <3>3, <3>4 DEF ClosesFrame
  <2>3. \A k \in DOMAIN n : k \in 1 .. 6 \/ \E i \in DOMAIN cs : k = i + 6
    <3> TAKE k \in DOMAIN n
    <3>1. k - 6 \in DOMAIN cs => k = (k - 6) + 6
      BY <1>3
    <3> QED  BY <1>3, <3>1
  <2>4. ASSUME NEW k \in DOMAIN n
        PROVE  LET c == n[k] IN
               /\ c.do # "push"
               /\ c.do = "pop" <=> k = Len(n)
               /\ k < Len(n) => k + c.ok <= Len(n) /\ k + c.to <= Len(n)
               /\ \A x \in Things : ~Adds(c, x)
               /\ c.do = "remove_vm" => \A j \in DOMAIN n : j > k /\ n[j].on = c.on => ~Needs(n[j])
               /\ c.do = "set_sync" => frame.on = "auto_sync" /\ c.arg = frame.arg.sync
               /\ c.do \in NicDos => frame.on = "toggle"
    <3>1. CASE k \in 1 .. 6
      <4>1. k # Len(n)
        BY <1>3, <3>1
      <4> QED  BY <2>1, <3>1, <4>1
    <3>2. CASE \E i \in DOMAIN cs : k = i + 6
      <4>1. PICK i \in DOMAIN cs : k = i + 6
        BY <3>2
      <4> QED  BY <2>2, <4>1
    <3> QED  BY <2>3, <3>1, <3>2
  <2> QED  BY <2>4 DEF ClosesFrame
<1>6. \A k \in DOMAIN n : n[k].on = v \/ \E j \in DOMAIN cs : n[k].on = cs[j].on
  <2> TAKE k \in DOMAIN n
  <2>1. CASE k \in 1 .. 6
    BY <1>3, <1>4, <2>1
  <2>2. CASE k - 6 \in DOMAIN cs
    <3>1. (k - 6) + 6 = k
      BY <1>3
    <3> QED  BY <1>3, <2>2, <3>1
  <2> QED  BY <1>3, <2>1, <2>2
<1>7. v \in Blame(v) /\ (v = "v2" => v \in Blame("v1"))
  BY DEF Blame, Vms
<1>8. Clears(n, v)
  <2>1. Removes(n[6], v)
    BY <1>1, <1>3 DEF Removes, Removal
  <2>2. \A j \in 1 .. 6 : n[j].on \in Blame(v) /\ (j < 6 => Reaches(n[j], v, 6 - j))
    <3> TAKE j \in 1 .. 6
    <3>0. j = 1 \/ j = 2 \/ j = 3 \/ j = 4 \/ j = 5 \/ j = 6
      OBVIOUS
    <3>1. j < 6 => Reaches(r[j], v, 6 - j)
      BY <1>1, <3>0 DEF Removal, Reaches
    <3> QED  BY <1>3, <1>4, <1>7, <3>1
  <2>3. 6 \in DOMAIN n
    BY <1>3
  <2> QED  BY <2>1, <2>2, <2>3 DEF Clears
<1>9. ASSUME v = "v2", Clears(cs, "v1") PROVE Clears(n, "v1")
  <2>1. PICK k \in DOMAIN cs : /\ Removes(cs[k], "v1")
                               /\ \A j \in 1 .. k : cs[j].on \in Blame("v1") /\ (j < k => Reaches(cs[j], "v1", k - j))
    BY <1>9 DEF Clears
  <2>2. k + 6 \in DOMAIN n /\ n[k + 6] = cs[k] /\ k \in 1 .. Len(cs)
    BY <1>3
  <2>3. ASSUME NEW j \in 1 .. k + 6
        PROVE  n[j].on \in Blame("v1") /\ (j < k + 6 => Reaches(n[j], "v1", (k + 6) - j))
    <3>1. CASE j \in 1 .. 6
      <4>1. r[j].ok <= (k + 6) - j /\ r[j].to <= (k + 6) - j
        <5>1. j + r[j].ok <= 7 /\ j + r[j].to <= 7 /\ r[j].ok \in 1 .. 3 /\ r[j].to \in 1 .. 2 /\ k >= 1 /\ k \in Nat
          BY <1>3, <1>4, <2>2, <3>1
        <5> QED  BY <3>1, <5>1
      <4> QED  BY <1>3, <1>4, <1>7, <1>9, <3>1, <4>1 DEF Reaches
    <3>2. CASE j \notin 1 .. 6
      <4>1. j - 6 \in 1 .. k /\ (j - 6) + 6 = j /\ (k + 6) - j = k - (j - 6) /\ j - 6 \in DOMAIN cs
        BY <1>3, <2>2, <3>2
      <4>2. PICK i \in 1 .. k : i = j - 6
        BY <4>1
      <4>3. n[j] = cs[i] /\ (k + 6) - j = k - i /\ (j < k + 6 => i < k)
        BY <1>3, <2>2, <4>1, <4>2
      <4> QED  BY <2>1, <4>3
    <3> QED  BY <3>1, <3>2
  <2> QED  BY <2>1, <2>2, <2>3 DEF Clears
<1> QED  BY <1>2, <1>3, <1>5, <1>6, <1>8, <1>9

\* What the finally clause of the innermost frame sends.
Ordered(cs) ==
    /\ Len(cs) = 4 /\ cs[1].do = "unplug" /\ cs[2].do = "set_profile" /\ cs[3].do = "plug"
    /\ cs[1].on = "v1" /\ cs[2].on = "v1" /\ cs[3].on = "v1" /\ cs[2].arg = "network"
    /\ Plain(cs[1]) /\ Plain(cs[2]) /\ Plain(cs[3])
Closed(cs, frame) ==
    /\ cs \in Seq(Commands) /\ cs # << >> /\ ClosesFrame(cs, frame)
    /\ \A k \in DOMAIN cs : cs[k].on \in Vms => cs[k].on \in known /\ frame.on \in {"vm_pool", "toggle"}
    /\ frame.on = "toggle" => Ordered(cs)
    /\ frame.on = "auto_sync" => (Len(cs) = 2 /\ cs[1].do = "set_sync") \/ (Len(cs) = 1 /\ frame.arg.sync = FALSE)
    /\ \A x \in Things : Owner(x) = frame.on /\ (x \in Vms => x \in known) => Clears(cs, x)

\* A clause that removes a thing with its first command, or with its second.
LEMMA ClearsFirst ==
    ASSUME NEW cs, NEW x, 1 \in DOMAIN cs, Removes(cs[1], x), cs[1].on \in Blame(x)
    PROVE  Clears(cs, x)
<1>1. \A j \in 1 .. 1 : j = 1
  OBVIOUS
<1> QED  BY <1>1 DEF Clears

LEMMA ClearsSecond ==
    ASSUME NEW cs, NEW x, DOMAIN cs = {1, 2, 3}, Removes(cs[2], x), cs[1].on \in Blame(x), cs[2].on \in Blame(x), Plain(cs[1])
    PROVE  Clears(cs, x)
<1>1. \A j \in 1 .. 2 : j = 1 \/ j = 2
  OBVIOUS
<1>2. Reaches(cs[1], x, 2 - 1)
  BY DEF Reaches, Plain
<1>3. \A j \in 1 .. 2 : cs[j].on \in Blame(x) /\ (j < 2 => Reaches(cs[j], x, 2 - j))
  BY <1>1, <1>2
<1>4. 2 \in DOMAIN cs
  OBVIOUS
<1> QED  BY <1>3, <1>4 DEF Clears

\* Whose things an entity's context removes.
LEMMA OwnedBy ==
    ASSUME NEW x \in Things, NEW ctx \in Entities, Owner(x) = ctx
    PROVE  /\ ctx \in Blame(x) /\ x \notin Vms
           /\ x \in Entities \/ (x = "temp" /\ ctx = "mac_pool")
           /\ ctx = "mac_pool" => x \in {"mac_pool", "temp"}
BY DEF Owner, Things, Entities, Blame, Vms

\* A clause of one command before the pop, or two.
LEMMA PairCloses ==
    ASSUME NEW c \in Commands, NEW p \in Commands, NEW frame, NEW cs, cs = <<c, p>>,
           Plain(c), c.on \notin Vms, p.on \notin Vms, p.do = "pop",
           c.do \in {"remove", "remove_if_listed", "set_pool", "set_sync", "wait_jobs"},
           c.do = "set_pool" => c.arg # "temp",
           c.do = "set_sync" => frame.on = "auto_sync" /\ c.arg = frame.arg.sync
    PROVE  /\ cs \in Seq(Commands) /\ Len(cs) = 2 /\ DOMAIN cs = {1, 2} /\ cs[1] = c /\ cs[2] = p
           /\ cs # << >> /\ ClosesFrame(cs, frame) /\ \A k \in DOMAIN cs : cs[k].on \notin Vms
<1>1. cs \in Seq(Commands) /\ Len(cs) = 2 /\ DOMAIN cs = {1, 2} /\ cs[1] = c /\ cs[2] = p
  BY TupleTwo
<1>2. /\ c.do # "push" /\ c.do # "pop" /\ 1 + c.ok <= 2 /\ 1 + c.to <= 2
      /\ \A x \in Things : ~Adds(c, x)
      /\ c.do # "remove_vm" /\ c.do \notin NicDos
  BY DEF Adds, NicDos, Plain
<1>3. p.do # "push" /\ (\A x \in Things : ~Adds(p, x)) /\ p.do # "remove_vm" /\ p.do # "set_sync" /\ p.do \notin NicDos
  BY DEF Adds, NicDos
<1>4. ClosesFrame(cs, frame)
  BY <1>1, <1>2, <1>3 DEF ClosesFrame
<1>5. cs # << >>
  BY <1>1
<1>6. \A k \in DOMAIN cs : cs[k].on \notin Vms
  BY <1>1
<1> QED  BY <1>1, <1>4, <1>5, <1>6

\* A clause of two commands before the pop.
LEMMA TripleCloses ==
    ASSUME NEW b \in Commands, NEW c \in Commands, NEW p \in Commands, NEW frame, NEW cs, cs = <<b, c, p>>,
           Plain(b), Plain(c), b.on \notin Vms, c.on \notin Vms, p.on \notin Vms, p.do = "pop",
           b.do \in {"wait_until_empty", "set_pool"}, c.do = "remove", b.do = "set_pool" => b.arg # "temp"
    PROVE  /\ cs \in Seq(Commands) /\ Len(cs) = 3 /\ DOMAIN cs = {1, 2, 3} /\ cs[1] = b /\ cs[2] = c /\ cs[3] = p
           /\ cs # << >> /\ ClosesFrame(cs, frame) /\ \A k \in DOMAIN cs : cs[k].on \notin Vms
<1>1. cs \in Seq(Commands) /\ Len(cs) = 3 /\ DOMAIN cs = {1, 2, 3} /\ cs[1] = b /\ cs[2] = c /\ cs[3] = p
  BY TupleThree
<1>2. /\ b.do # "push" /\ b.do # "pop" /\ 1 + b.ok <= 3 /\ 1 + b.to <= 3
      /\ \A x \in Things : ~Adds(b, x)
      /\ b.do # "remove_vm" /\ b.do # "set_sync" /\ b.do \notin NicDos
  BY DEF Adds, NicDos, Plain
<1>3. /\ c.do # "push" /\ c.do # "pop" /\ 2 + c.ok <= 3 /\ 2 + c.to <= 3
      /\ \A x \in Things : ~Adds(c, x)
      /\ c.do # "remove_vm" /\ c.do # "set_sync" /\ c.do \notin NicDos
  BY DEF Adds, NicDos, Plain
<1>4. p.do # "push" /\ (\A x \in Things : ~Adds(p, x)) /\ p.do # "remove_vm" /\ p.do # "set_sync" /\ p.do \notin NicDos
  BY DEF Adds, NicDos
<1>5. ClosesFrame(cs, frame)
  BY <1>1, <1>2, <1>3, <1>4 DEF ClosesFrame
<1>6. cs # << >>
  BY <1>1
<1>7. \A k \in DOMAIN cs : cs[k].on \notin Vms
  BY <1>1
<1> QED  BY <1>1, <1>5, <1>6, <1>7

\* The clause of the pool.
LEMMA PoolCloses ==
    ASSUME NEW frame, frame.on = "vm_pool", known \subseteq Vms,
           NEW w \in Commands, w.do = "wait_jobs", w.on = "jobs", Plain(w),
           NEW p \in Commands, p.do = "pop", p.on = "vm_pool"
    PROVE  Closed(RemoveKnown(InOrder(Pool)) \o <<w>> \o <<p>>, frame)
<1> DEFINE first == IF "v1" \in known THEN VmRemove("v1") ELSE << >>
           second == IF "v2" \in known THEN VmRemove("v2") ELSE << >>
           own == \A x \in Things : Owner(x) = frame.on => x \in Vms
<1>1. PICK b : b = <<w, p>>
  OBVIOUS
<1>2. /\ b \in Seq(Commands) /\ Len(b) = 2 /\ DOMAIN b = {1, 2} /\ b[1] = w /\ b[2] = p
      /\ b # << >> /\ ClosesFrame(b, frame) /\ \A k \in DOMAIN b : b[k].on \notin Vms
  BY <1>1, PairCloses DEF Vms
<1>3. "v1" \in Vms /\ "v2" \in Vms /\ VmRemove("v1") \in Seq(Commands) /\ VmRemove("v2") \in Seq(Commands)
  BY VmRemoveOf DEF Vms, Removal
<1>4. PICK d : d = first \o b
  OBVIOUS
<1>5. /\ d \in Seq(Commands) /\ d # << >> /\ ClosesFrame(d, frame)
      /\ \A k \in DOMAIN d : d[k].on \in Vms => d[k].on = "v1" /\ "v1" \in known
      /\ "v1" \in known => Clears(d, "v1")
  <2>1. CASE "v1" \in known
    <3>1. d = VmRemove("v1") \o b
      BY <1>4, <2>1
    <3>2. /\ d \in Seq(Commands) /\ d # << >> /\ ClosesFrame(d, frame)
          /\ \A k \in DOMAIN d : d[k].on = "v1" \/ \E j \in DOMAIN b : d[k].on = b[j].on
          /\ Clears(d, "v1")
      <4>1. \A k \in DOMAIN b : b[k].on # "v1"
        BY <1>2, <1>3
      <4>2. LET n == VmRemove("v1") \o b IN
            /\ n \in Seq(Commands) /\ n # << >> /\ ClosesFrame(n, frame)
            /\ \A k \in DOMAIN n : n[k].on = "v1" \/ \E j \in DOMAIN b : n[k].on = b[j].on
            /\ Clears(n, "v1")
        BY <1>2, <1>3, <4>1, RemovalFirst
      <4> QED  BY <3>1, <4>2
    <3> QED  BY <1>2, <2>1, <3>2
  <2>2. CASE "v1" \notin known
    <3>1. d = b /\ b # << >>
      BY <1>2, <1>4, <2>2
    <3> QED  BY <1>2, <2>2, <3>1
  <2> QED  BY <2>1, <2>2
<1>6. PICK n : n = second \o d
  OBVIOUS
<1>7. /\ n \in Seq(Commands) /\ n # << >> /\ ClosesFrame(n, frame)
      /\ \A k \in DOMAIN n : n[k].on \in Vms => n[k].on \in known
      /\ \A v \in known : Clears(n, v)
  <2>1. CASE "v2" \in known
    <3>1. n = VmRemove("v2") \o d
      BY <1>6, <2>1
    <3>2. /\ n \in Seq(Commands) /\ n # << >> /\ ClosesFrame(n, frame)
          /\ \A k \in DOMAIN n : n[k].on = "v2" \/ \E j \in DOMAIN d : n[k].on = d[j].on
          /\ Clears(n, "v2") /\ (Clears(d, "v1") => Clears(n, "v1"))
      <4>1. \A k \in DOMAIN d : d[k].on # "v2"
        BY <1>3, <1>5
      <4>2. LET m == VmRemove("v2") \o d IN
            /\ m \in Seq(Commands) /\ m # << >> /\ ClosesFrame(m, frame)
            /\ \A k \in DOMAIN m : m[k].on = "v2" \/ \E j \in DOMAIN d : m[k].on = d[j].on
            /\ Clears(m, "v2") /\ (Clears(d, "v1") => Clears(m, "v1"))
        BY <1>3, <1>5, <4>1, RemovalFirst
      <4> QED  BY <3>1, <4>2
    <3> QED  BY <1>5, <2>1, <3>2 DEF Vms
  <2>2. CASE "v2" \notin known
    <3>1. n = d
      BY <1>5, <1>6, <2>2
    <3> QED  BY <1>5, <2>2, <3>1 DEF Vms
  <2> QED  BY <2>1, <2>2
<1>8. RemoveKnown(InOrder(Pool)) = second \o first
  <2>1. InOrder(Pool)[1] = "v2" /\ InOrder(Pool)[2] = "v1"
    BY DEF InOrder, Pool
  <2> QED  BY <2>1 DEF RemoveKnown
<1>9. RemoveKnown(InOrder(Pool)) \o <<w>> \o <<p>> = n
  <2>1. first \in Seq(Commands) /\ second \in Seq(Commands) /\ <<w>> \in Seq(Commands) /\ <<p>> \in Seq(Commands)
    BY <1>3
  <2>2. <<w>> \o <<p>> = b
    BY <1>1, Concatenated
  <2> HIDE DEF first, second
  <2>3. \A x, y, z \in Seq(Commands) : (x \o y) \o z = x \o (y \o z)
    OBVIOUS
  <2>4. (second \o first) \o <<w>> \in Seq(Commands) /\ second \o first \in Seq(Commands) /\ first \o <<w>> \in Seq(Commands)
    BY <2>1
  <2>5. ((second \o first) \o <<w>>) \o <<p>> = (second \o first) \o (<<w>> \o <<p>>)
    BY <2>1, <2>3, <2>4
  <2>6. (second \o first) \o b = second \o (first \o b)
    BY <1>2, <2>1, <2>3
  <2> QED  BY <1>4, <1>6, <1>8, <2>2, <2>5, <2>6
<1>10. \A x \in Things : Owner(x) = frame.on => x \in Vms
  BY DEF Owner, Things, Entities, Vms
<1> QED  BY <1>7, <1>9, <1>10 DEF Closed

\* The clause of every context, for the frame that is innermost.
LEMMA ClosingOf ==
    ASSUME TypeInv, ToggleInv, stack # << >>
    PROVE  Closed(Closing, stack[1])
<1> DEFINE frame == stack[1]
           ctx == frame.on
           was == frame.arg
<1>1. /\ 1 \in DOMAIN stack /\ frame \in Frames /\ ctx \in Contexts
      /\ was.pool \in Pools /\ was.sync \in BOOLEAN /\ Remembers(ctx, was)
  <2>1. 1 \in DOMAIN stack
    BY DEF TypeInv
  <2> QED  BY <2>1, FrameOf
<1>2. PICK p \in Commands : p = Pop(ctx) /\ p.do = "pop" /\ p.on = ctx
  BY <1>1, PopOf DEF Simple
<1>3. PICK cs : cs = Closing
  OBVIOUS
<1>4. Closing = Finally(ctx, was) \o <<p>>
  BY <1>2 DEF Closing
<1>5. CASE ctx \in {"network", "assignment", "profile", "qos"}
  <2>1. PICK c \in Commands : /\ c.do \in {"remove", "remove_if_listed"} /\ c.on = ctx /\ Plain(c)
                              /\ Finally(ctx, was) = <<c>>
    <3>1. CASE ctx = "qos"
      <4>1. PICK c \in Commands : /\ c = Cmd("remove_if_listed", "qos", "") /\ c.do = "remove_if_listed" /\ c.on = "qos"
                                  /\ Plain(c)
        BY OwnCommands DEF Simple
      <4>2. Finally(ctx, was) = <<c>>
        BY <3>1, <4>1 DEF Finally, RemoveQos
      <4> QED  BY <3>1, <4>1, <4>2
    <3>2. CASE ctx \in {"network", "assignment", "profile"}
      <4>1. PICK c \in Commands : c = Cmd("remove", ctx, "") /\ c.do = "remove" /\ c.on = ctx /\ Plain(c)
        <5>1. ctx \in Entities
          BY <3>2 DEF Entities
        <5>2. Simple(Cmd("remove", ctx, ""), "remove", ctx, "")
          BY <5>1, OwnCommands
        <5> QED  BY <5>2 DEF Simple
      <4>2. Finally(ctx, was) = <<c>>
        BY <3>2, <4>1 DEF Finally, RemoveEntity
      <4> QED  BY <4>1, <4>2
    <3> QED  BY <1>5, <3>1, <3>2
  <2>2. cs = <<c, p>>
    BY <1>3, <1>4, <2>1, Concatenated
  <2>3. c.on \notin Vms /\ p.on \notin Vms
    BY <1>2, <1>5, <2>1 DEF Vms
  <2>4. /\ cs \in Seq(Commands) /\ Len(cs) = 2 /\ DOMAIN cs = {1, 2} /\ cs[1] = c /\ cs[2] = p
        /\ cs # << >> /\ ClosesFrame(cs, frame) /\ \A k \in DOMAIN cs : cs[k].on \notin Vms
    BY <1>2, <2>1, <2>2, <2>3, PairCloses
  <2>5. ASSUME NEW x \in Things, Owner(x) = ctx PROVE Clears(cs, x)
    <3>1. ctx \in Blame(x) /\ x \in Entities
      BY <1>5, <2>5, OwnedBy DEF Entities
    <3>2. Removes(cs[1], x)
      BY <2>1, <2>4, <2>5, <3>1 DEF Removes
    <3> QED  BY <2>1, <2>4, <3>1, <3>2, ClearsFirst
  <2>6. ctx # "toggle" /\ ctx # "auto_sync"
    BY <1>5
  <2> HIDE DEF frame
  <2> QED  BY <1>3, <2>4, <2>5, <2>6 DEF Closed, frame
<1>6. CASE ctx \in {"cluster", "mac_pool"}
  <2>1. PICK b \in Commands, c \in Commands :
            /\ b.do \in {"wait_until_empty", "set_pool"} /\ b.on = ctx /\ Plain(b)
            /\ ctx = "mac_pool" => b.do = "set_pool" /\ b.arg = "home"
            /\ ctx = "cluster" => b.do = "wait_until_empty"
            /\ c.do = "remove" /\ c.on = ctx /\ Plain(c)
            /\ Finally(ctx, was) = <<b>> \o <<c>>
    <3>1. CASE ctx = "cluster"
      <4>1. PICK b \in Commands : /\ b = Cmd("wait_until_empty", "cluster", "") /\ b.do = "wait_until_empty"
                                  /\ b.on = "cluster" /\ Plain(b)
        BY OwnCommands DEF Simple
      <4>2. PICK c \in Commands : c = Cmd("remove", "cluster", "") /\ c.do = "remove" /\ c.on = "cluster" /\ Plain(c)
        BY OwnCommands DEF Simple, Entities
      <4>3. Finally(ctx, was) = <<b>> \o <<c>>
        BY <3>1, <4>1, <4>2 DEF Finally, ClusterRemove, RemoveEntity
      <4> QED  BY <3>1, <4>1, <4>2, <4>3
    <3>2. CASE ctx = "mac_pool"
      <4>1. was.pool = "home"
        BY <1>1, <3>2 DEF Remembers
      <4>2. PICK b \in Commands : /\ b = Cmd("set_pool", "mac_pool", "home") /\ b.do = "set_pool" /\ b.on = "mac_pool"
                                  /\ b.arg = "home" /\ Plain(b)
        BY OwnCommands DEF Simple, Pools
      <4>3. PICK c \in Commands : c = Cmd("remove", "mac_pool", "") /\ c.do = "remove" /\ c.on = "mac_pool" /\ Plain(c)
        BY OwnCommands DEF Simple, Entities
      <4>4. Finally(ctx, was) = <<b>> \o <<c>>
        BY <3>2, <4>1, <4>2, <4>3 DEF Finally, SetMacPool, RemoveEntity
      <4> QED  BY <3>2, <4>2, <4>3, <4>4
    <3> QED  BY <1>6, <3>1, <3>2
  <2>2. cs = <<b, c, p>>
    <3>1. <<b>> \o <<c>> \o <<p>> = <<b, c, p>>
      BY Concatenated
    <3> QED  BY <1>3, <1>4, <2>1, <3>1
  <2>3. b.on \notin Vms /\ c.on \notin Vms /\ p.on \notin Vms /\ (b.do = "set_pool" => b.arg # "temp")
    BY <1>2, <1>6, <2>1 DEF Vms
  <2>4. /\ cs \in Seq(Commands) /\ Len(cs) = 3 /\ DOMAIN cs = {1, 2, 3} /\ cs[1] = b /\ cs[2] = c /\ cs[3] = p
        /\ cs # << >> /\ ClosesFrame(cs, frame) /\ \A k \in DOMAIN cs : cs[k].on \notin Vms
    BY <1>2, <2>1, <2>2, <2>3, TripleCloses
  <2>5. ASSUME NEW x \in Things, Owner(x) = ctx PROVE Clears(cs, x)
    <3>1. ctx \in Blame(x) /\ (x \in Entities \/ (x = "temp" /\ ctx = "mac_pool"))
      BY <1>6, <2>5, OwnedBy DEF Entities
    <3>2. CASE x \in Entities
      <4>1. Removes(cs[2], x)
        BY <2>1, <2>4, <2>5, <3>2 DEF Removes
      <4> QED  BY <2>1, <2>4, <3>1, <4>1, ClearsSecond
    <3>3. CASE x = "temp" /\ ctx = "mac_pool"
      <4>1. Removes(cs[1], x)
        BY <2>1, <2>4, <3>3 DEF Removes
      <4> QED  BY <2>1, <2>4, <3>1, <4>1, ClearsFirst
    <3> QED  BY <3>1, <3>2, <3>3
  <2>6. ctx # "toggle" /\ ctx # "auto_sync"
    BY <1>6
  <2> HIDE DEF frame
  <2> QED  BY <1>3, <2>4, <2>5, <2>6 DEF Closed, frame
<1>7. CASE ctx = "vm_pool"
  <2>1. PICK w \in Commands : w = Cmd("wait_jobs", "jobs", "") /\ w.do = "wait_jobs" /\ w.on = "jobs" /\ Plain(w)
    BY OwnCommands DEF Simple
  <2>2. Closing = RemoveKnown(InOrder(Pool)) \o <<w>> \o <<p>>
    BY <1>4, <1>7, <2>1 DEF Finally, AllJobsWaitForDone
  <2>3. known \subseteq Vms
    BY DEF TypeInv
  <2> HIDE DEF frame
  <2> QED  BY <1>2, <1>7, <2>1, <2>2, <2>3, PoolCloses DEF frame
<1>8. CASE ctx = "toggle"
  <2>1. PICK a \in Commands, b \in Commands, c \in Commands :
            /\ a = Cmd("unplug", "v1", "") /\ a.do = "unplug" /\ a.on = "v1" /\ Plain(a)
            /\ b = Cmd("set_profile", "v1", "network") /\ b.do = "set_profile" /\ b.on = "v1" /\ b.arg = "network" /\ Plain(b)
            /\ c = Cmd("plug", "v1", "") /\ c.do = "plug" /\ c.on = "v1" /\ Plain(c)
    BY NicCommands DEF Simple, Profiles
  <2>2. was.profile = "network" /\ "v1" \in known
    BY <1>1, <1>8 DEF Remembers, ToggleInv
  <2>3. Finally(ctx, was) = <<a>> \o <<b>> \o <<c>>
    BY <1>8, <2>1, <2>2 DEF Finally, HotReplaceProfile, Hotunplug, SetVnicProfile, Hotplug
  <2>4. <<a>> \o <<b>> \o <<c>> \o <<p>> = <<a, b, c, p>>
    BY Concatenated
  <2>5. cs = <<a, b, c, p>>
    BY <1>3, <1>4, <2>3, <2>4
  <2>6. cs \in Seq(Commands) /\ Len(cs) = 4 /\ DOMAIN cs = {1, 2, 3, 4} /\ cs[1] = a /\ cs[2] = b /\ cs[3] = c /\ cs[4] = p
    BY <2>5, TupleFour
  <2>7. /\ cs[1].do = "unplug" /\ cs[2].do = "set_profile" /\ cs[3].do = "plug" /\ cs[4].do = "pop"
        /\ cs[1].on = "v1" /\ cs[2].on = "v1" /\ cs[3].on = "v1" /\ cs[2].arg = "network" /\ cs[4].on = "toggle"
        /\ Plain(cs[1]) /\ Plain(cs[2]) /\ Plain(cs[3])
    BY <1>2, <1>8, <2>1, <2>6
  <2>8. ClosesFrame(cs, frame)
    <3>1. \A k \in DOMAIN cs : cs[k].do \in {"unplug", "set_profile", "plug", "pop"}
      BY <2>6, <2>7
    <3>2. \A k \in DOMAIN cs : k < 4 => cs[k].do # "pop" /\ cs[k].ok = 1 /\ cs[k].to = 1 /\ k + 1 <= 4
      BY <2>6, <2>7 DEF Plain
    <3>3. \A k \in DOMAIN cs : k < 4 \/ k = 4
      BY <2>6
    <3> QED  BY <1>8, <2>6, <2>7, <3>1, <3>2, <3>3 DEF ClosesFrame, Adds
  <2>9. Ordered(cs)
    BY <2>6, <2>7 DEF Ordered
  <2>10. \A k \in DOMAIN cs : cs[k].on \in Vms => cs[k].on \in known
    <3>1. \A k \in DOMAIN cs : cs[k].on = "v1" \/ cs[k].on = "toggle"
      BY <2>6, <2>7
    <3> QED  BY <2>2, <3>1 DEF Vms
  <2>11. \A x \in Things : Owner(x) # "toggle"
    BY DEF Owner, Things, Entities, Vms
  <2>12. cs # << >>
    BY <2>6
  <2> HIDE DEF frame
  <2> QED  BY <1>3, <1>8, <2>6, <2>8, <2>9, <2>10, <2>11, <2>12 DEF Closed, frame
<1>9. CASE ctx = "auto_sync"
  <2>1. \A x \in Things : Owner(x) # "auto_sync"
    BY DEF Owner, Things, Entities, Vms
  <2>2. CASE was.sync
    <3>0. PICK c \in Commands : c = Cmd("set_sync", "auto_sync", TRUE) /\ Simple(c, "set_sync", "auto_sync", TRUE)
      BY OwnCommands DEF Simple
    <3>1. c = Cmd("set_sync", "auto_sync", TRUE) /\ c.do = "set_sync" /\ c.on = "auto_sync" /\ Plain(c)
      BY <3>0 DEF Simple
    <3>7. c.arg = TRUE
      BY <3>0 DEF Simple
    <3>2. Finally(ctx, was) = <<c>>
      BY <1>9, <2>2, <3>1 DEF Finally, SetAutoSync
    <3>3. cs = <<c, p>>
      BY <1>3, <1>4, <3>2, Concatenated
    <3>4. c.on \notin Vms /\ p.on \notin Vms /\ c.arg = frame.arg.sync
      BY <1>1, <1>2, <1>9, <2>2, <3>1, <3>7 DEF Vms
    <3>5. /\ cs \in Seq(Commands) /\ Len(cs) = 2 /\ DOMAIN cs = {1, 2} /\ cs[1] = c /\ cs[2] = p
          /\ cs # << >> /\ ClosesFrame(cs, frame) /\ \A k \in DOMAIN cs : cs[k].on \notin Vms
      <4>1. PICK f : f = frame
        OBVIOUS
      <4>2. f.on = "auto_sync" /\ c.arg = f.arg.sync
        BY <1>9, <3>4, <4>1
      <4>3. cs \in Seq(Commands) /\ Len(cs) = 2 /\ DOMAIN cs = {1, 2} /\ cs[1] = c /\ cs[2] = p
        BY <3>3, TupleTwo
      <4>4. c.do # "push" /\ c.do # "pop" /\ c.do # "remove_vm" /\ c.do \notin NicDos
        BY <3>1 DEF NicDos
      <4>9. c.ok = 1 /\ c.to = 1
        BY <3>1 DEF Plain
      <4>10. 1 + c.ok <= 2 /\ 1 + c.to <= 2
        BY <4>9
      <4>5. \A x \in Things : ~Adds(c, x)
        BY <3>1 DEF Adds
      <4>6. p.do # "push" /\ (\A x \in Things : ~Adds(p, x)) /\ p.do # "remove_vm" /\ p.do # "set_sync" /\ p.do \notin NicDos
        BY <1>2 DEF Adds, NicDos
      <4> HIDE DEF frame
      <4>7. ClosesFrame(cs, f)
        <5>1. ASSUME NEW k \in DOMAIN cs PROVE k = 1 \/ k = 2
          BY <4>3, <5>1
        <5>2. /\ cs[1].do # "push" /\ cs[1].do # "pop" /\ cs[1].do # "remove_vm" /\ cs[1].do \notin NicDos
              /\ 1 + cs[1].ok <= 2 /\ 1 + cs[1].to <= 2 /\ \A x \in Things : ~Adds(cs[1], x)
          BY <4>3, <4>4, <4>5, <4>10
        <5>3. cs[1].arg = f.arg.sync /\ f.on = "auto_sync"
          BY <4>2, <4>3
        <5>4. /\ cs[2].do = "pop" /\ cs[2].do # "remove_vm" /\ cs[2].do # "set_sync" /\ cs[2].do \notin NicDos
              /\ \A x \in Things : ~Adds(cs[2], x)
          BY <1>2, <4>3, <4>6
        <5>5. Len(cs) = 2
          BY <4>3
        <5> QED  BY <5>1, <5>2, <5>3, <5>4, <5>5 DEF ClosesFrame
      <4>8. cs # << >> /\ \A k \in DOMAIN cs : cs[k].on \notin Vms
        BY <3>4, <4>3
      <4> QED  BY <4>1, <4>3, <4>7, <4>8
    <3>6. cs[1].do = "set_sync"
      BY <3>1, <3>5
    <3> HIDE DEF frame
    <3> QED  BY <1>3, <1>9, <2>1, <3>5, <3>6 DEF Closed, frame
  <2>3. CASE ~was.sync
    <3>1. Finally(ctx, was) = << >>
      BY <1>9, <2>3 DEF Finally
    <3>2. cs = <<p>>
      BY <1>3, <1>4, <3>1, Concatenated
    <3>3. cs \in Seq(Commands) /\ Len(cs) = 1 /\ DOMAIN cs = {1} /\ cs[1] = p
      BY <3>2, TupleOne
    <3>4. p.on \notin Vms
      BY <1>2, <1>9 DEF Vms
    <3>5. ClosesFrame(cs, frame)
      BY <1>2, <3>3 DEF ClosesFrame, Adds, NicDos
    <3>6. cs # << >> /\ was.sync = FALSE
      BY <1>1, <2>3, <3>3
    <3>7. \A k \in DOMAIN cs : cs[k].on \notin Vms
      BY <3>3, <3>4
    <3> HIDE DEF frame
    <3> QED  BY <1>3, <1>9, <2>1, <3>3, <3>5, <3>6, <3>7 DEF Closed, frame
  <2> QED  BY <1>1, <2>2, <2>3
<1> QED  BY <1>1, <1>5, <1>6, <1>7, <1>8, <1>9 DEF Contexts, Entities

-----------------------------------------------------------------------------
(* The steps.                                                                *)

\* The engine goes on by itself, or nothing happens.
Stands ==
    /\ engine' \in Engines /\ engine'.has = engine.has /\ engine'.pool = engine.pool /\ engine'.sync = engine.sync
    /\ \A v \in Vms : Gone(engine', v) <=> Gone(engine, v)
    /\ \A v \in Vms : ~Gone(engine, v) => engine'.nic[v] = engine.nic[v]
    /\ UNCHANGED <<todo, test, at, stack, leaving, raised, known, failed, faults>>
\* A command is sent, and its answer a lets n commands be left behind, or raises.
Sends == todo # << >> /\ todo[1] \in Commands /\ todo[1].do \notin Scoping
Goes(a, n) ==
    /\ Sends /\ Answered(todo[1], engine, a) /\ engine' = a.e
    /\ todo' = Rest(todo, n)
    /\ known' = IF a.r = "ok" /\ todo[1].do = "add" /\ todo[1].on \in Vms THEN known \cup {todo[1].on} ELSE known
    /\ \/ a.r = "ok" /\ n = todo[1].ok
       \/ a.r # "ok" /\ Translate(todo[1], a.r) \in todo[1].caught /\ n = todo[1].to
    /\ faults' \in 0 .. MaxFaults /\ UNCHANGED <<test, at, stack, leaving, raised, failed>>
Raises(a) ==
    /\ Sends /\ Answered(todo[1], engine, a) /\ engine' = a.e
    /\ a.r # "ok" /\ Translate(todo[1], a.r) \notin todo[1].caught
    /\ Raise(todo[1].on, Translate(todo[1], a.r))
    /\ faults' \in 0 .. MaxFaults /\ UNCHANGED <<test, at>>

\* A command that is performed lets the call go on, or raises.
LEMMA Performed ==
    ASSUME TypeInv, Sends, faults' \in 0 .. MaxFaults, UNCHANGED <<test, at>>,
           NEW a \in Answers(todo[1], engine) \cup Faulty(todo[1], engine), Perform(todo[1], a)
    PROVE  Raises(a) \/ \E n \in 1 .. 3 : Goes(a, n)
<1>1. Answered(todo[1], engine, a)
  BY EveryOutcome DEF TypeInv, Sends
<1>2. todo[1].ok \in 1 .. 3 /\ todo[1].to \in 1 .. 3
  BY DEF Sends, Commands
<1>3. CASE a.r = "ok"
  <2>1. Goes(a, todo[1].ok)
    BY <1>1, <1>3 DEF Goes, Perform
  <2> QED  BY <1>2, <2>1
<1>4. CASE a.r # "ok" /\ Translate(todo[1], a.r) \in todo[1].caught
  <2>1. Goes(a, todo[1].to)
    BY <1>1, <1>4 DEF Goes, Perform
  <2> QED  BY <1>2, <2>1
<1>5. CASE a.r # "ok" /\ Translate(todo[1], a.r) \notin todo[1].caught
  BY <1>1, <1>5 DEF Raises, Perform
<1> QED  BY <1>3, <1>4, <1>5

\* Every step is one of these.
LEMMA Steps ==
    ASSUME TypeInv, [Next]_vars
    PROVE  \/ Stands \/ \E a : Raises(a) \/ \E n \in 1 .. 3 : Goes(a, n)
           \/ NextItem \/ BodyFails \/ BodyEnds \/ EnterTry \/ BeginFinally \/ EndFinally
<1>1. ASSUME UNCHANGED vars PROVE Stands
  BY <1>1 DEF Stands, vars, TypeInv, Gone
<1>2. ASSUME Engine PROVE Stands
  <2>1. engine' \in Progress(engine) /\ engine \in Engines
    BY <1>2 DEF Engine, TypeInv
  <2> QED  BY <1>2, <2>1, Progressed DEF Engine, Stands
<1>3. faults \in 0 .. MaxFaults /\ MaxFaults \in Nat
  BY FaultsAssumption DEF TypeInv
<1>4. todo # << >> => todo[1] \in Commands
  BY DEF TypeInv
<1>5. ASSUME Command PROVE \E a : Raises(a) \/ \E n \in 1 .. 3 : Goes(a, n)
  <2>1. Sends /\ faults' \in 0 .. MaxFaults /\ UNCHANGED <<test, at>>
    BY <1>3, <1>4, <1>5 DEF Command, Sends
  <2>2. PICK a \in Answers(todo[1], engine) : Perform(todo[1], a)
    BY <1>5 DEF Command
  <2> QED  BY <2>1, <2>2, Performed
<1>6. ASSUME Fault PROVE \E a : Raises(a) \/ \E n \in 1 .. 3 : Goes(a, n)
  <2>1. Sends /\ faults' \in 0 .. MaxFaults /\ UNCHANGED <<test, at>>
    BY <1>3, <1>4, <1>6 DEF Fault, Sends
  <2>2. PICK a \in Faulty(todo[1], engine) : Perform(todo[1], a)
    BY <1>6 DEF Fault
  <2> QED  BY <2>1, <2>2, Performed
<1> QED  BY <1>1, <1>2, <1>5, <1>6 DEF Next, Terminated

\* What is left of a call that goes on.
LEMMA GoesOn ==
    ASSUME TypeInv, CloseInv, NEW a, NEW n \in 1 .. 3, Goes(a, n)
    PROVE  /\ todo' \in Seq(Commands)
           /\ \A k \in DOMAIN todo' : k \in Nat \ {0} /\ k + n \in DOMAIN todo /\ todo'[k] = todo[k + n]
           /\ \A k \in DOMAIN todo : k > n => k - n \in DOMAIN todo'
           /\ 1 \in DOMAIN todo /\ Len(todo) \in Nat /\ n >= 1
           /\ Len(todo') = IF n <= Len(todo) THEN Len(todo) - n ELSE 0
           /\ todo' # << >> <=> n < Len(todo)
           /\ Plain(todo[1]) => n = 1 /\ a.r = "ok"
           /\ Closes => n < Len(todo) /\ Closes' /\ stack # << >> /\ todo' # << >>
           /\ Closes' => Closes
           /\ known \subseteq known' /\ (Closes => known' = known)
           /\ \A v \in known' : v \in known \/ (v = todo[1].on /\ todo[1].do = "add" /\ v \in Vms /\ a.r = "ok")
<1>1. todo \in Seq(Commands) /\ todo # << >> /\ todo' = Rest(todo, n) /\ leaving' = leaving
  BY DEF TypeInv, Goes, Sends
<1>2. /\ todo' \in Seq(Commands)
      /\ \A k \in DOMAIN todo' : k \in Nat \ {0} /\ k + n \in DOMAIN todo /\ todo'[k] = todo[k + n]
      /\ \A k \in DOMAIN todo : k > n => k - n \in DOMAIN todo'
      /\ Len(todo') = IF n <= Len(todo) THEN Len(todo) - n ELSE 0
  BY <1>1, RestOf
<1>3. 1 \in DOMAIN todo /\ Len(todo) \in Nat /\ n >= 1
  BY <1>1
<1>4. todo' # << >> <=> n < Len(todo)
  BY <1>2, <1>3
<1>5. Plain(todo[1]) => n = 1 /\ a.r = "ok"
  BY DEF Plain, Goes
<1>6. ASSUME Closes PROVE n < Len(todo) /\ stack # << >>
  <2>1. stack # << >> /\ ClosesFrame(todo, stack[1])
    BY <1>6 DEF CloseInv
  <2>2. todo[1].do # "pop"
    BY DEF Goes, Sends, Scoping
  <2>3. 1 # Len(todo) /\ (1 < Len(todo) => 1 + todo[1].ok <= Len(todo) /\ 1 + todo[1].to <= Len(todo))
    BY <1>3, <2>1, <2>2 DEF ClosesFrame
  <2>4. todo[1].ok \in 1 .. 3 /\ todo[1].to \in 1 .. 2 /\ (n = todo[1].ok \/ n = todo[1].to)
    BY DEF Goes, Sends, Commands
  <2>5. Len(todo) >= 1
    BY <1>3
  <2>9. Len(todo) # 1
    BY <2>3
  <2>10. PICK l \in Nat : l = Len(todo)
    BY <1>3
  <2>11. l >= 1 /\ l # 1
    BY <2>5, <2>9, <2>10
  <2>12. 1 < l
    BY <2>11
  <2>6. 1 < Len(todo)
    BY <2>10, <2>12
  <2>7. 1 + n <= Len(todo)
    BY <2>3, <2>4, <2>6
  <2>8. n < Len(todo)
    BY <1>3, <2>7
  <2> QED  BY <2>1, <2>8
<1>7. Closes' <=> leaving /\ todo' # << >>
  BY <1>1 DEF Closes
<1>8. known \subseteq known' /\ \A v \in known' : v \in known \/ (v = todo[1].on /\ todo[1].do = "add" /\ v \in Vms /\ a.r = "ok")
  BY DEF Goes
<1>9. ASSUME Closes PROVE known' = known
  <2>1. ClosesFrame(todo, stack[1])
    BY <1>9 DEF CloseInv
  <2>2. \A x \in Things : ~Adds(todo[1], x)
    BY <1>3, <2>1 DEF ClosesFrame
  <2>3. todo[1].on \in Vms => todo[1].do # "add"
    BY <2>2 DEF Adds, Things
  <2> QED  BY <2>3 DEF Goes
<1> QED  BY <1>1, <1>2, <1>3, <1>4, <1>5, <1>6, <1>7, <1>8, <1>9 DEF Closes

\* What a step leaves as it is.
LEMMA SameOwners == ASSUME test' = test PROVE \A x : Owner(x)' = Owner(x)
BY DEF Owner

LEMMA SameFrames == ASSUME stack' = stack PROVE \A ctx : IsOpen(ctx)' <=> IsOpen(ctx)
BY DEF IsOpen

\* An exception ends the call; in a finally clause it ends the clause.
LEMMA RaisedOut ==
    ASSUME TypeInv, CloseInv, NEW x, NEW err, Raise(x, err), ~leaving \/ Closes
    PROVE  /\ todo' = << >> /\ leaving' = TRUE /\ known' = known /\ ~Closes'
           /\ stack' \in Seq(Frames)
           /\ ~leaving => stack' = stack
           /\ leaving => /\ stack # << >> /\ stack' = Tail(stack)
                         /\ \A i \in DOMAIN stack' : i \in Nat \ {0} /\ i + 1 \in DOMAIN stack /\ stack'[i] = stack[i + 1]
                         /\ \A i \in DOMAIN stack : i > 1 => i - 1 \in DOMAIN stack'
<1>1. todo' = << >> /\ leaving' = TRUE /\ known' = known /\ stack' = IF leaving THEN Tail(stack) ELSE stack
  BY DEF Raise
<1>2. stack \in Seq(Frames) /\ leaving \in BOOLEAN
  BY DEF TypeInv
<1>3. leaving => stack # << >>
  BY DEF CloseInv
<1>4. leaving => /\ stack' \in Seq(Frames)
                 /\ \A i \in DOMAIN stack' : i \in Nat \ {0} /\ i + 1 \in DOMAIN stack /\ stack'[i] = stack[i + 1]
                 /\ \A i \in DOMAIN stack : i > 1 => i - 1 \in DOMAIN stack'
  BY <1>1, <1>2, <1>3, TailOf
<1> QED  BY <1>1, <1>2, <1>3, <1>4 DEF Closes

\* What a command raises is an error of the library that nothing catches.
LEMMA CommandRaises ==
    ASSUME TypeInv, CloseInv, NEW a, Raises(a)
    PROVE  /\ ~leaving \/ Closes
           /\ \E err \in Errors : Raise(todo[1].on, err) /\ err = Translate(todo[1], a.r) /\ err \notin todo[1].caught
                                  /\ (err = "NotFoundError" => a.r = "NotFoundError")
<1>1. Translate(todo[1], a.r) \in Errors /\ (Translate(todo[1], a.r) = "NotFoundError" => a.r = "NotFoundError")
  <2>1. a.r \in Results \ {"ok"}
    BY DEF Raises, Answered
  <2> QED  BY <2>1, Translated DEF Raises, Answered, Sends
<1>2. ~leaving \/ Closes
  BY DEF TypeInv, Closes, Raises, Sends
<1> QED  BY <1>1, <1>2 DEF Raises

\* The context whose frame begins: the body runs, and it is not open.
LEMMA Entered ==
    ASSUME TypeInv, ScriptInv, BodyInv, CloseInv, EnterTry
    PROVE  /\ ~leaving /\ 1 \in DOMAIN todo /\ todo[1] \in Frames /\ ~IsOpen(todo[1].on)
           /\ at > 1 /\ Script(test)[at - 1] = With(todo[1].on)
           /\ \A j \in DOMAIN todo : todo[j].do = "push" => j = 1
           /\ todo' \in Seq(Commands)
           /\ \A k \in DOMAIN todo' : k \in Nat \ {0} /\ k + 1 \in DOMAIN todo /\ todo'[k] = todo[k + 1]
           /\ stack' \in Seq(Frames) /\ 1 \in DOMAIN stack' /\ stack'[1] = todo[1]
           /\ \A i \in DOMAIN stack : i \in Nat \ {0} /\ i + 1 \in DOMAIN stack' /\ stack'[i + 1] = stack[i]
           /\ \A i \in DOMAIN stack' : i = 1 \/ (i - 1 \in DOMAIN stack /\ i \in Nat /\ stack'[i] = stack[i - 1])
           /\ \A ctx : IsOpen(ctx)' <=> IsOpen(ctx) \/ ctx = todo[1].on
<1>1. todo \in Seq(Commands) /\ todo # << >> /\ todo[1].do = "push" /\ stack \in Seq(Frames)
      /\ stack' = <<todo[1]>> \o stack /\ todo' = Tail(todo)
  BY DEF TypeInv, EnterTry
<1>2. 1 \in DOMAIN todo /\ todo[1] \in Frames
  BY <1>1 DEF Frames
<1>3. ~leaving
  <2>1. leaving => Closes
    BY <1>1 DEF Closes
  <2>2. ~Closes
    BY <1>1, <1>2 DEF CloseInv, ClosesFrame
  <2> QED  BY <2>1, <2>2
<1>4. /\ ~IsOpen(todo[1].on) /\ Script(test)[at - 1] = With(todo[1].on)
      /\ \A j \in DOMAIN todo : todo[j].do = "push" => j = 1
  BY <1>1, <1>2, <1>3 DEF BodyInv
<1>5. at > 1
  BY <1>1, <1>3 DEF ScriptInv
<1>6. /\ todo' \in Seq(Commands)
      /\ \A k \in DOMAIN todo' : k \in Nat \ {0} /\ k + 1 \in DOMAIN todo /\ todo'[k] = todo[k + 1]
  BY <1>1, TailOf
<1>7. /\ stack' \in Seq(Frames) /\ 1 \in DOMAIN stack' /\ stack'[1] = todo[1]
      /\ \A i \in DOMAIN stack : i \in Nat \ {0} /\ i + 1 \in DOMAIN stack' /\ stack'[i + 1] = stack[i]
      /\ \A i \in DOMAIN stack' : i = 1 \/ (i - 1 \in DOMAIN stack /\ i \in Nat /\ stack'[i] = stack[i - 1])
  BY <1>1, <1>2
<1>8. ASSUME NEW ctx PROVE IsOpen(ctx)' <=> IsOpen(ctx) \/ ctx = todo[1].on
  BY <1>7 DEF IsOpen
<1> QED  BY <1>2, <1>3, <1>4, <1>5, <1>6, <1>7, <1>8

\* The end of a clause: its pop is the last command, and the next frame is the innermost.
LEMMA Popped ==
    ASSUME TypeInv, BodyInv, CloseInv, EndFinally
    PROVE  /\ Closes /\ Len(todo) = 1 /\ DOMAIN todo = {1} /\ stack # << >> /\ todo' = << >> /\ ~Closes'
           /\ stack' \in Seq(Frames)
           /\ \A i \in DOMAIN stack' : i \in Nat \ {0} /\ i + 1 \in DOMAIN stack /\ stack'[i] = stack[i + 1]
           /\ \A i \in DOMAIN stack : i > 1 => i - 1 \in DOMAIN stack'
<1>1. todo \in Seq(Commands) /\ todo # << >> /\ todo[1].do = "pop" /\ stack \in Seq(Frames)
      /\ stack' = Tail(stack) /\ todo' = Tail(todo) /\ 1 \in DOMAIN todo
  BY DEF TypeInv, EndFinally
<1>2. leaving
  BY <1>1 DEF BodyInv
<1>3. Closes
  BY <1>1, <1>2 DEF Closes
<1>4. stack # << >> /\ Len(todo) = 1
  BY <1>1, <1>3 DEF CloseInv, ClosesFrame
<1>5. DOMAIN todo = {1} /\ todo' = << >>
  BY <1>1, <1>4
<1>6. /\ stack' \in Seq(Frames)
      /\ \A i \in DOMAIN stack' : i \in Nat \ {0} /\ i + 1 \in DOMAIN stack /\ stack'[i] = stack[i + 1]
      /\ \A i \in DOMAIN stack : i > 1 => i - 1 \in DOMAIN stack'
  BY <1>1, <1>4, TailOf
<1> QED  BY <1>3, <1>4, <1>5, <1>6 DEF Closes

\* The commands of the next item.
LEMMA NextCommands ==
    ASSUME TypeInv, ScriptInv, VmInv, ToggleInv, LeftInv, NextItem
    PROVE  /\ at \in DOMAIN Script(test) /\ at' = at + 1 /\ at \in Nat /\ at' - 1 = at /\ ~leaving /\ todo = << >>
           /\ todo' \in Seq(Commands) /\ Follows(test, Script(test), at)
           /\ UNCHANGED <<engine, test, stack, leaving, raised, known, failed, faults>>
           /\ \A j \in 1 .. at - 1 : /\ \A ctx : Script(test)[j] = With(ctx) => IsOpen(ctx)
                                     /\ \A v \in Vms : Made(Script(test)[j], v) => v \in known /\ ~Gone(engine, v)
           /\ \/ \E ctx \in Contexts : Script(test)[at] = With(ctx) /\ Opened(ctx, todo') /\ ~IsOpen(ctx)
              \/ Script(test)[at] = Call(todo') /\ \A k \in DOMAIN todo' : Called(test, Script(test), at, todo', todo'[k])
<1>1. /\ todo = << >> /\ ~leaving /\ at <= Len(Script(test)) /\ at' = at + 1 /\ Body
      /\ todo' = IF Script(test)[at][1] = "with" THEN Opening(Script(test)[at][2]) ELSE Script(test)[at][2]
      /\ UNCHANGED <<engine, test, stack, leaving, raised, known, failed, faults>>
  BY DEF NextItem, Body
<1>2. test \in Tests /\ at \in 1 .. Len(Script(test)) + 1
  BY DEF TypeInv, ScriptInv
<1>3. Script(test) \in Seq(Items)
  BY <1>2, ScriptOf
<1>4. at \in DOMAIN Script(test) /\ at \in Nat /\ at' - 1 = at
  BY <1>1, <1>2, <1>3
<1>5. ASSUME NEW j \in 1 .. at - 1
      PROVE  /\ \A ctx : Script(test)[j] = With(ctx) => IsOpen(ctx)
             /\ \A v \in Vms : Made(Script(test)[j], v) => v \in known /\ ~Gone(engine, v)
  <2>1. ~Pushes(todo, Script(test)[j][2]) /\ \A v : ~Creates(todo, v)
    BY <1>1 DEF Pushes, Creates
  <2>2. \A v \in known : ~Gone(engine, v)
    BY <1>1 DEF VmInv
  <2>3. ASSUME NEW ctx, Script(test)[j] = With(ctx) PROVE IsOpen(ctx)
    <3>1. Script(test)[j][1] = "with" /\ Script(test)[j][2] = ctx
      BY <2>3 DEF With
    <3> QED  BY <1>1, <2>1, <3>1 DEF ScriptInv
  <2>4. ASSUME NEW v \in Vms, Made(Script(test)[j], v) PROVE v \in known
    <3>1. Script(test)[j][1] = "call" /\ Creates(Script(test)[j][2], v)
      BY <2>4 DEF Made, IsCall
    <3> QED  BY <1>1, <2>1, <3>1 DEF ScriptInv
  <2> QED  BY <2>2, <2>3, <2>4
<1>6. /\ Follows(test, Script(test), at)
      /\ \/ \E ctx \in Contexts : Script(test)[at] = With(ctx)
         \/ \E cs \in Seq(Commands) : Script(test)[at] = Call(cs)
      /\ Script(test)[at] = With("assignment") => test # "ovn"
  BY <1>2, <1>4, ItemAt
<1>7. ASSUME NEW ctx \in Contexts, Script(test)[at] = With(ctx)
      PROVE  Opened(ctx, todo') /\ ~IsOpen(ctx)
  <2>1. todo' = Opening(ctx)
    <3>1. Script(test)[at][1] = "with" /\ Script(test)[at][2] = ctx
      BY <1>7 DEF With
    <3> QED  BY <1>1, <3>1
  <2>2. ~IsOpen(ctx) /\ Remembers(ctx, Memory(ctx))
    BY <1>1, <1>7, NothingYet
  <2> QED  BY <1>6, <1>7, <2>1, <2>2, OpeningOf
<1>8. ASSUME NEW cs \in Seq(Commands), Script(test)[at] = Call(cs)
      PROVE  todo' = cs /\ Script(test)[at] = Call(todo') /\ \A k \in DOMAIN todo' : Called(test, Script(test), at, todo', todo'[k])
  <2>1. Script(test)[at][1] = "call" /\ Script(test)[at][2] = cs
    BY <1>8 DEF Call
  <2>2. todo' = cs
    BY <1>1, <2>1
  <2>3. \A k \in DOMAIN cs : Called(test, Script(test), at, cs, cs[k])
    BY <1>6, <2>1 DEF Follows, IsCall
  <2> QED  BY <1>8, <2>2, <2>3
<1>9. todo' \in Seq(Commands)
  BY <1>6, <1>7, <1>8 DEF Opened
<1> QED  BY <1>1, <1>4, <1>5, <1>6, <1>7, <1>8, <1>9

-----------------------------------------------------------------------------
(* The invariant, part by part.                                              *)

\* Every step keeps the types.
LEMMA TypeStep == IInv /\ [Next]_vars => TypeInv'
<1> SUFFICES ASSUME IInv, [Next]_vars PROVE TypeInv'
  OBVIOUS
<1>1. TypeInv /\ ScriptInv /\ BodyInv /\ CloseInv /\ VmInv /\ ToggleInv /\ LeftInv
  BY DEF IInv
<1>2. /\ engine \in Engines /\ todo \in Seq(Commands) /\ stack \in Seq(Frames) /\ test \in Tests /\ at \in Nat
      /\ faults \in 0 .. MaxFaults /\ leaving \in BOOLEAN /\ known \subseteq Vms /\ raised \in Errors \cup {"none"}
      /\ (failed # {} => leaving) /\ MaxFaults \in Nat
      /\ \A i, j \in DOMAIN stack : stack[i].on = stack[j].on => i = j
  BY <1>1, FaultsAssumption DEF TypeInv
<1>3. CASE Stands
  BY <1>2, <1>3 DEF Stands, TypeInv
<1>4. ASSUME NEW a, NEW n \in 1 .. 3, Goes(a, n) PROVE TypeInv'
  <2>1. todo' \in Seq(Commands) /\ known' \subseteq Vms
    BY <1>1, <1>2, <1>4, GoesOn
  <2>2. engine' \in Engines
    BY <1>4 DEF Goes, Answered
  <2> QED  BY <1>2, <1>4, <2>1, <2>2 DEF Goes, TypeInv
<1>5. ASSUME NEW x, NEW err \in Errors, Raise(x, err), ~leaving \/ Closes, engine' \in Engines,
             faults' \in 0 .. MaxFaults, UNCHANGED <<test, at>>
      PROVE  TypeInv'
  <2>1. /\ todo' = << >> /\ leaving' = TRUE /\ known' = known /\ stack' \in Seq(Frames)
        /\ ~leaving => stack' = stack
        /\ leaving => \A i \in DOMAIN stack' : i \in Nat \ {0} /\ i + 1 \in DOMAIN stack /\ stack'[i] = stack[i + 1]
    BY <1>1, <1>5, RaisedOut
  <2>2. \A i, j \in DOMAIN stack' : stack'[i].on = stack'[j].on => i = j
    <3>1. CASE ~leaving
      BY <1>2, <2>1, <3>1
    <3>2. CASE leaving
      <4>1. ASSUME NEW i \in DOMAIN stack', NEW j \in DOMAIN stack', stack'[i].on = stack'[j].on PROVE i = j
        <5>1. i + 1 = j + 1
          BY <1>2, <2>1, <3>2, <4>1
        <5> QED  BY <2>1, <3>2, <5>1
      <4> QED  BY <4>1
    <3> QED  BY <3>1, <3>2
  <2>3. raised' = err /\ << >> \in Seq(Commands)
    BY <1>5 DEF Raise
  <2> QED  BY <1>2, <1>5, <2>1, <2>2, <2>3 DEF TypeInv
<1>6. ASSUME NEW a, Raises(a) PROVE TypeInv'
  <2>1. engine' \in Engines /\ faults' \in 0 .. MaxFaults /\ UNCHANGED <<test, at>>
    BY <1>6 DEF Raises, Answered
  <2>2. PICK err \in Errors : Raise(todo[1].on, err)
    BY <1>1, <1>6, CommandRaises
  <2>3. ~leaving \/ Closes
    BY <1>1, <1>6, CommandRaises
  <2> QED  BY <1>5, <2>1, <2>2, <2>3
<1>7. CASE BodyFails
  <2>1. /\ Raise("body", "AssertionError") /\ ~leaving /\ engine' = engine
        /\ faults' \in 0 .. MaxFaults /\ UNCHANGED <<test, at>>
    BY <1>2, <1>7 DEF BodyFails, Body
  <2>2. PICK err \in Errors : Raise("body", err)
    BY <2>1 DEF Errors
  <2> QED  BY <1>2, <1>5, <2>1, <2>2
<1>8. CASE NextItem
  <2>1. /\ todo = << >> /\ ~leaving /\ at <= Len(Script(test)) /\ at' = at + 1
        /\ todo' = IF Script(test)[at][1] = "with" THEN Opening(Script(test)[at][2]) ELSE Script(test)[at][2]
        /\ UNCHANGED <<engine, test, stack, leaving, raised, known, failed, faults>>
    BY <1>8 DEF NextItem, Body
  <2>2. todo' \in Seq(Commands)
    BY <1>1, <1>8, NextCommands DEF Opened
  <2> QED  BY <1>2, <2>1, <2>2 DEF TypeInv
<1>9. CASE BodyEnds
  BY <1>2, <1>9 DEF BodyEnds, TypeInv
<1>10. CASE EnterTry
  <2>1. /\ todo' \in Seq(Commands) /\ stack' \in Seq(Frames) /\ 1 \in DOMAIN stack' /\ stack'[1] = todo[1]
        /\ \A i \in DOMAIN stack' : i = 1 \/ (i - 1 \in DOMAIN stack /\ i \in Nat /\ stack'[i] = stack[i - 1])
        /\ ~IsOpen(todo[1].on)
    BY <1>1, <1>10, Entered
  <2>2. ASSUME NEW i \in DOMAIN stack', NEW j \in DOMAIN stack', stack'[i].on = stack'[j].on PROVE i = j
    <3>1. CASE i = 1 /\ j = 1
      BY <3>1
    <3>2. CASE i # 1 /\ j # 1
      <4>1. i - 1 = j - 1 /\ i \in Nat /\ j \in Nat
        BY <1>2, <2>1, <2>2, <3>2
      <4> QED  BY <4>1
    <3>3. CASE i = 1 /\ j # 1
      BY <2>1, <2>2, <3>3 DEF IsOpen
    <3>4. CASE i # 1 /\ j = 1
      BY <2>1, <2>2, <3>4 DEF IsOpen
    <3> QED  BY <3>1, <3>2, <3>3, <3>4
  <2>3. UNCHANGED <<engine, test, at, leaving, raised, known, failed, faults>>
    BY <1>10 DEF EnterTry
  <2> QED  BY <1>2, <2>1, <2>2, <2>3 DEF TypeInv
<1>11. CASE BeginFinally
  <2>1. Closed(Closing, stack[1])
    BY <1>1, <1>11, ClosingOf DEF BeginFinally
  <2>2. todo' \in Seq(Commands)
    BY <1>11, <2>1 DEF BeginFinally, Closed
  <2> QED  BY <1>2, <1>11, <2>2 DEF BeginFinally, TypeInv
<1>12. CASE EndFinally
  <2>1. /\ stack' \in Seq(Frames) /\ todo' = << >>
        /\ \A i \in DOMAIN stack' : i \in Nat \ {0} /\ i + 1 \in DOMAIN stack /\ stack'[i] = stack[i + 1]
    BY <1>1, <1>12, Popped
  <2>2. ASSUME NEW i \in DOMAIN stack', NEW j \in DOMAIN stack', stack'[i].on = stack'[j].on PROVE i = j
    <3>1. i + 1 = j + 1
      BY <1>2, <2>1, <2>2
    <3> QED  BY <2>1, <3>1
  <2>3. UNCHANGED <<engine, test, at, leaving, raised, known, failed, faults>> /\ << >> \in Seq(Commands)
    BY <1>12 DEF EndFinally
  <2> QED  BY <1>2, <2>1, <2>2, <2>3 DEF TypeInv
<1> QED  BY <1>1, <1>3, <1>4, <1>6, <1>7, <1>8, <1>9, <1>10, <1>11, <1>12, Steps

\* Every step keeps what the script says has been done.
LEMMA ScriptStep == IInv /\ [Next]_vars => ScriptInv'
<1> SUFFICES ASSUME IInv, [Next]_vars PROVE ScriptInv'
  OBVIOUS
<1>1. TypeInv /\ ScriptInv /\ BodyInv /\ CloseInv /\ VmInv /\ ToggleInv /\ LeftInv
  BY DEF IInv
<1>2. /\ at \in 1 .. Len(Script(test)) + 1 /\ at \in Nat /\ Len(Script(test)) \in Nat
      /\ \A i \in DOMAIN stack : \E j \in 1 .. at - 1 : Script(test)[j] = With(stack[i].on)
  <2>1. Script(test) \in Seq(Items)
    BY <1>1, ScriptOf DEF TypeInv
  <2> QED  BY <1>1, <2>1 DEF ScriptInv
<1>3. CASE Stands
  BY <1>1, <1>3 DEF Stands, ScriptInv, IsOpen, Pushes, Creates
<1>4. ASSUME NEW a, NEW n \in 1 .. 3, Goes(a, n) PROVE ScriptInv'
  <2>1. /\ \A k \in DOMAIN todo : k > n => k - n \in DOMAIN todo'
        /\ \A k \in DOMAIN todo' : k \in Nat \ {0} /\ k + n \in DOMAIN todo /\ todo'[k] = todo[k + n]
        /\ Plain(todo[1]) => n = 1 /\ a.r = "ok"
        /\ known \subseteq known' /\ 1 \in DOMAIN todo
        /\ \A v \in known' : v \in known \/ (v = todo[1].on /\ todo[1].do = "add" /\ v \in Vms /\ a.r = "ok")
        /\ todo \in Seq(Commands)
    BY <1>1, <1>4, GoesOn DEF TypeInv
  <2>2. UNCHANGED <<test, at, stack, leaving>> /\ Sends /\ todo # << >>
    BY <1>4 DEF Goes, Sends
  <2>3. ASSUME ~leaving
        PROVE  /\ todo' # << >> => at > 1
               /\ \A j \in 1 .. at - 1 : LET item == Script(test)[j] IN
                     /\ item[1] = "with" => IsOpen(item[2])' \/ Pushes(todo', item[2])
                     /\ item[1] = "call" => \A v \in Vms : Creates(item[2], v) => v \in known' \/ Creates(todo', v)
               /\ \A v \in known' : \E j \in 1 .. at - 1 : Script(test)[j][1] = "call" /\ Creates(Script(test)[j][2], v)
    <3>1. at > 1
      BY <1>1, <2>2, <2>3 DEF ScriptInv
    <3>2. ASSUME NEW ctx, Pushes(todo, ctx) PROVE Pushes(todo', ctx)
      <4>1. PICK k \in DOMAIN todo : todo[k].do = "push" /\ todo[k].on = ctx
        BY <3>2 DEF Pushes
      <4>2. k # 1 /\ k \in Nat /\ k > 1
        BY <2>1, <2>2, <4>1 DEF Sends, Scoping
      <4>3. Plain(todo[1])
        BY <1>1, <2>1, <2>3, <4>1, <4>2 DEF BodyInv
      <4>4. n = 1 /\ k - 1 \in DOMAIN todo'
        BY <2>1, <4>2, <4>3
      <4>5. todo'[k - 1] = todo[k]
        <5>1. k - 1 + 1 = k
          BY <4>2
        <5> QED  BY <2>1, <4>4, <5>1
      <4> QED  BY <4>1, <4>4, <4>5 DEF Pushes
    <3>3. ASSUME NEW v \in Vms, Creates(todo, v) PROVE v \in known'
      <4>1. todo[1].do = "add" /\ todo[1].on = v
        BY <3>3 DEF Creates
      <4>2. Plain(todo[1])
        BY <2>2, <4>1 DEF Sends, Commands, IsCommand
      <4> QED  BY <1>4, <2>1, <4>1, <4>2 DEF Goes
    <3>4. \A ctx : IsOpen(ctx)' <=> IsOpen(ctx)
      BY <2>2, SameFrames
    <3>5. ASSUME NEW v \in known'
          PROVE  \E j \in 1 .. at - 1 : Script(test)[j][1] = "call" /\ Creates(Script(test)[j][2], v)
      <4>1. CASE v \in known
        BY <1>1, <2>3, <4>1 DEF ScriptInv
      <4>2. CASE v = todo[1].on /\ todo[1].do = "add" /\ v \in Vms
        <5>1. Len(todo) = 1 /\ Script(test)[at - 1] = Call(todo)
          BY <1>1, <2>1, <2>3, <4>2 DEF BodyInv
        <5>2. Script(test)[at - 1][1] = "call" /\ Script(test)[at - 1][2] = todo
          BY <5>1 DEF Call
        <5>3. Creates(todo, v)
          BY <4>2, <5>1 DEF Creates
        <5>4. at - 1 \in 1 .. at - 1
          BY <1>2, <3>1
        <5> QED  BY <5>2, <5>3, <5>4
      <4> QED  BY <2>1, <4>1, <4>2
    <3>6. \A j \in 1 .. at - 1 : LET item == Script(test)[j] IN
             /\ item[1] = "with" => IsOpen(item[2]) \/ Pushes(todo, item[2])
             /\ item[1] = "call" => \A v \in Vms : Creates(item[2], v) => v \in known \/ Creates(todo, v)
      BY <1>1, <2>3 DEF ScriptInv
    <3>7. ASSUME NEW j \in 1 .. at - 1
          PROVE  LET item == Script(test)[j] IN
                 /\ item[1] = "with" => IsOpen(item[2])' \/ Pushes(todo', item[2])
                 /\ item[1] = "call" => \A v \in Vms : Creates(item[2], v) => v \in known' \/ Creates(todo', v)
      <4>1. PICK item : item = Script(test)[j]
        OBVIOUS
      <4>2. /\ item[1] = "with" => IsOpen(item[2]) \/ Pushes(todo, item[2])
            /\ item[1] = "call" => \A v \in Vms : Creates(item[2], v) => v \in known \/ Creates(todo, v)
        BY <3>6, <4>1
      <4>3. item[1] = "with" => IsOpen(item[2])' \/ Pushes(todo', item[2])
        BY <3>2, <3>4, <4>2
      <4>4. item[1] = "call" => \A v \in Vms : Creates(item[2], v) => v \in known' \/ Creates(todo', v)
        BY <2>1, <3>3, <4>2
      <4> QED  BY <2>2, <4>1, <4>3, <4>4 DEF IsOpen
    <3> QED  BY <3>1, <3>5, <3>7
  <2>4. Script(test)' = Script(test)
    BY <2>2
  <2>5. \A v : \A cs : Creates(cs, v)' <=> Creates(cs, v)
    BY DEF Creates
  <2> QED  BY <1>2, <2>2, <2>3, <2>4 DEF ScriptInv, Pushes, Creates, IsOpen
<1>5. ASSUME NEW x, NEW err, Raise(x, err), ~leaving \/ Closes, UNCHANGED <<test, at>> PROVE ScriptInv'
  <2>1. /\ leaving' = TRUE /\ (~leaving => stack' = stack)
        /\ leaving => \A i \in DOMAIN stack' : i \in Nat \ {0} /\ i + 1 \in DOMAIN stack /\ stack'[i] = stack[i + 1]
    BY <1>1, <1>5, RaisedOut
  <2>2. \A i \in DOMAIN stack' : \E j \in 1 .. at - 1 : Script(test)[j] = With(stack'[i].on)
    BY <1>2, <2>1
  <2> QED  BY <1>2, <1>5, <2>1, <2>2 DEF ScriptInv
<1>6. ASSUME NEW a, Raises(a) PROVE ScriptInv'
  <2>1. UNCHANGED <<test, at>> /\ Raise(todo[1].on, Translate(todo[1], a.r))
    BY <1>6 DEF Raises
  <2>2. ~leaving \/ Closes
    BY <1>1, <1>6, CommandRaises
  <2> QED  BY <1>5, <2>1, <2>2
<1>7. CASE BodyFails
  <2>1. Raise("body", "AssertionError") /\ ~leaving /\ UNCHANGED <<test, at>>
    BY <1>7 DEF BodyFails, Body
  <2> QED  BY <1>5, <2>1
<1>8. CASE NextItem
  <2>1. /\ at \in DOMAIN Script(test) /\ at' = at + 1 /\ at \in Nat /\ at' - 1 = at /\ ~leaving
        /\ UNCHANGED <<test, stack, leaving, known>>
        /\ \A j \in 1 .. at - 1 : /\ \A ctx : Script(test)[j] = With(ctx) => IsOpen(ctx)
                                  /\ \A v \in Vms : Made(Script(test)[j], v) => v \in known
        /\ \/ \E ctx \in Contexts : Script(test)[at] = With(ctx) /\ Opened(ctx, todo')
           \/ Script(test)[at] = Call(todo')
    BY <1>1, <1>8, NextCommands
  <2>2. at' \in 1 .. Len(Script(test)) + 1 /\ at' > 1
    BY <1>2, <2>1
  <2>3. \A j \in 1 .. at : j \in 1 .. at - 1 \/ j = at
    BY <2>1
  <2>4. \A j \in 1 .. at - 1 : j \in 1 .. at
    BY <2>1
  <2>5. \A ctx : IsOpen(ctx)' <=> IsOpen(ctx)
    BY <2>1, SameFrames
  <2>6. ASSUME NEW j \in 1 .. at
        PROVE LET item == Script(test)[j] IN
              /\ item[1] = "with" => IsOpen(item[2])' \/ Pushes(todo', item[2])
              /\ item[1] = "call" => \A v \in Vms : Creates(item[2], v) => v \in known \/ Creates(todo', v)
    <3>1. CASE j \in 1 .. at - 1
      <4>1. IsWith(Script(test)[j]) => Script(test)[j] = With(Script(test)[j][2])
        <5>1. j \in DOMAIN Script(test) /\ test \in Tests
          BY <1>1, <1>2, <2>1, <3>1 DEF TypeInv
        <5>2. Follows(test, Script(test), j)
          BY <5>1, ScriptOf
        <5> QED  BY <5>2 DEF Follows
      <4> QED  BY <2>1, <2>5, <3>1, <4>1 DEF Made, IsCall, IsWith
    <3>2. CASE j = at
      <4>1. CASE \E ctx \in Contexts : Script(test)[at] = With(ctx) /\ Opened(ctx, todo')
        <5>1. PICK ctx \in Contexts : Script(test)[at] = With(ctx) /\ Opened(ctx, todo')
          BY <4>1
        <5>2. Pushes(todo', ctx)
          BY <5>1 DEF Opened, PushAt, Pushes
        <5>3. Script(test)[at][1] = "with" /\ Script(test)[at][2] = ctx
          BY <5>1 DEF With
        <5> QED  BY <3>2, <5>2, <5>3
      <4>2. CASE Script(test)[at] = Call(todo')
        <5>1. Script(test)[at][1] = "call" /\ Script(test)[at][2] = todo'
          BY <4>2 DEF Call
        <5> QED  BY <3>2, <5>1
      <4> QED  BY <2>1, <4>1, <4>2
    <3> QED  BY <2>3, <3>1, <3>2
  <2>7. \A v \in known : \E j \in 1 .. at : Script(test)[j][1] = "call" /\ Creates(Script(test)[j][2], v)
    BY <1>1, <2>1, <2>4 DEF ScriptInv
  <2>8. \A i \in DOMAIN stack : \E j \in 1 .. at : Script(test)[j] = With(stack[i].on)
    BY <1>2, <2>4
  <2> QED  BY <2>1, <2>2, <2>6, <2>7, <2>8 DEF ScriptInv, Pushes, Creates, IsOpen
<1>9. CASE BodyEnds
  BY <1>2, <1>9 DEF BodyEnds, ScriptInv
<1>10. CASE EnterTry
  <2>1. /\ ~leaving /\ 1 \in DOMAIN todo /\ at > 1 /\ Script(test)[at - 1] = With(todo[1].on)
        /\ \A j \in DOMAIN todo : todo[j].do = "push" => j = 1
        /\ stack'[1] = todo[1]
        /\ \A i \in DOMAIN stack' : i = 1 \/ (i - 1 \in DOMAIN stack /\ i \in Nat /\ stack'[i] = stack[i - 1])
        /\ \A ctx : IsOpen(ctx)' <=> IsOpen(ctx) \/ ctx = todo[1].on
    BY <1>1, <1>10, Entered
  <2>2. UNCHANGED <<test, at, leaving, known>> /\ todo[1].do = "push"
    BY <1>10 DEF EnterTry
  <2>3. at - 1 \in 1 .. at - 1
    BY <1>2, <2>1
  <2>4. \A i \in DOMAIN stack' : \E j \in 1 .. at - 1 : Script(test)[j] = With(stack'[i].on)
    BY <1>2, <2>1, <2>3
  <2>5. \A ctx : Pushes(todo, ctx) => ctx = todo[1].on
    BY <2>1 DEF Pushes
  <2>6. \A v : ~Creates(todo, v)
    BY <2>2 DEF Creates
  <2>8. \A v \in known : \E j \in 1 .. at - 1 : Script(test)[j][1] = "call" /\ Creates(Script(test)[j][2], v)
    BY <1>1, <2>1 DEF ScriptInv
  <2>9. \A j \in 1 .. at - 1 : LET item == Script(test)[j] IN
             /\ item[1] = "with" => IsOpen(item[2]) \/ Pushes(todo, item[2])
             /\ item[1] = "call" => \A v \in Vms : Creates(item[2], v) => v \in known \/ Creates(todo, v)
    BY <1>1, <2>1 DEF ScriptInv
  <2>7. ASSUME NEW j \in 1 .. at - 1
        PROVE  LET item == Script(test)[j] IN
               /\ item[1] = "with" => IsOpen(item[2])'
               /\ item[1] = "call" => \A v \in Vms : Creates(item[2], v) => v \in known
    <3>1. PICK item : item = Script(test)[j]
      OBVIOUS
    <3>2. /\ item[1] = "with" => IsOpen(item[2]) \/ Pushes(todo, item[2])
          /\ item[1] = "call" => \A v \in Vms : Creates(item[2], v) => v \in known \/ Creates(todo, v)
      BY <2>9, <3>1
    <3>3. item[1] = "with" => IsOpen(item[2])'
      BY <2>1, <2>5, <3>2
    <3> QED  BY <2>2, <2>6, <3>1, <3>2, <3>3 DEF IsOpen
  <2> QED  BY <1>2, <2>1, <2>2, <2>4, <2>7, <2>8 DEF ScriptInv, Creates, IsOpen
<1>11. CASE BeginFinally
  BY <1>2, <1>11 DEF BeginFinally, ScriptInv
<1>12. CASE EndFinally
  <2>1. Closes /\ \A i \in DOMAIN stack' : i \in Nat \ {0} /\ i + 1 \in DOMAIN stack /\ stack'[i] = stack[i + 1]
    BY <1>1, <1>12, Popped
  <2>2. UNCHANGED <<test, at, leaving>>
    BY <1>12 DEF EndFinally
  <2>3. \A i \in DOMAIN stack' : \E j \in 1 .. at - 1 : Script(test)[j] = With(stack'[i].on)
    BY <1>2, <2>1
  <2> QED  BY <1>2, <2>1, <2>2, <2>3 DEF ScriptInv, Closes
<1> QED  BY <1>1, <1>3, <1>4, <1>6, <1>7, <1>8, <1>9, <1>10, <1>11, <1>12, Steps

\* Every step keeps what a call in the body may do.
LEMMA BodyStep == IInv /\ [Next]_vars => BodyInv'
<1> SUFFICES ASSUME IInv, [Next]_vars PROVE BodyInv'
  OBVIOUS
<1>1. TypeInv /\ ScriptInv /\ BodyInv /\ CloseInv /\ VmInv /\ ToggleInv /\ LeftInv
  BY DEF IInv
<1>2. todo \in Seq(Commands) /\ test \in Tests
  BY <1>1 DEF TypeInv
<1>3. CASE Stands
  BY <1>1, <1>3 DEF Stands, BodyInv, IsOpen, Owner, Plain
<1>4. ASSUME NEW a, NEW n \in 1 .. 3, Goes(a, n) PROVE BodyInv'
  <2>1. /\ \A k \in DOMAIN todo : k > n => k - n \in DOMAIN todo'
        /\ \A k \in DOMAIN todo' : k \in Nat \ {0} /\ k + n \in DOMAIN todo /\ todo'[k] = todo[k + n]
        /\ Plain(todo[1]) => n = 1 /\ a.r = "ok"
        /\ 1 \in DOMAIN todo /\ todo' \in Seq(Commands)
    BY <1>1, <1>4, GoesOn
  <2>2. UNCHANGED <<test, at, stack, leaving>> /\ Sends /\ todo[1].do # "push"
    BY <1>4 DEF Goes, Sends, Scoping
  <2>3. (\A ctx : IsOpen(ctx)' <=> IsOpen(ctx)) /\ \A x : Owner(x)' = Owner(x)
    BY <2>2, SameFrames, SameOwners
  <2>4. ASSUME ~leaving, NEW k \in DOMAIN todo'
        PROVE  LET c == todo'[k] IN
               /\ c.do \notin {"pop", "remove_vm", "remove", "remove_if_listed"}
               /\ c.do = "push" => /\ ~IsOpen(c.on) /\ Script(test)[at - 1] = With(c.on)
                                   /\ \A j \in DOMAIN todo' : todo'[j].do = "push" => j = k
                                   /\ \A j \in DOMAIN todo' : j < k => Plain(todo'[j])
               /\ \A x \in Things : Adds(c, x) =>
                     IsOpen(Owner(x)) \/ \E j \in DOMAIN todo' : j <= k + 1 /\ todo'[j].do = "push" /\ todo'[j].on = Owner(x)
               /\ ~(c.on \in Vms /\ c.do = "add")
               /\ c.do = "set_sync" => c.arg = FALSE
    <3> DEFINE c == todo'[k]
    <3>1. c = todo[k + n] /\ k + n \in DOMAIN todo /\ k \in Nat \ {0} /\ k + n # 1
      BY <2>1
    <3>2. /\ c.do \notin {"pop", "remove_vm", "remove", "remove_if_listed"}
          /\ c.do = "push" => /\ ~IsOpen(c.on) /\ Script(test)[at - 1] = With(c.on)
                              /\ \A j \in DOMAIN todo : todo[j].do = "push" => j = k + n
                              /\ \A j \in DOMAIN todo : j < k + n => Plain(todo[j])
          /\ \A x \in Things : Adds(c, x) =>
                IsOpen(Owner(x)) \/ \E j \in DOMAIN todo : j <= k + n + 1 /\ todo[j].do = "push" /\ todo[j].on = Owner(x)
          /\ c.on \in Vms /\ c.do = "add" => Len(todo) = 1
          /\ c.do = "set_sync" => c.arg = FALSE
      BY <1>1, <2>4, <3>1 DEF BodyInv
    <3>3. ASSUME c.do = "push"
          PROVE  /\ \A j \in DOMAIN todo' : todo'[j].do = "push" => j = k
                 /\ \A j \in DOMAIN todo' : j < k => Plain(todo'[j])
      <4>1. ASSUME NEW j \in DOMAIN todo', todo'[j].do = "push" PROVE j = k
        <5>1. j + n = k + n /\ j \in Nat
          BY <2>1, <3>2, <3>3, <4>1
        <5> QED  BY <3>1, <5>1
      <4>2. ASSUME NEW j \in DOMAIN todo', j < k PROVE Plain(todo'[j])
        <5>1. j + n < k + n /\ j + n \in DOMAIN todo /\ todo'[j] = todo[j + n]
          BY <2>1, <3>1, <4>2
        <5> QED  BY <3>2, <3>3, <5>1
      <4> QED  BY <4>1, <4>2
    <3>4. ASSUME NEW x \in Things, Adds(c, x), ~IsOpen(Owner(x))
          PROVE  \E j \in DOMAIN todo' : j <= k + 1 /\ todo'[j].do = "push" /\ todo'[j].on = Owner(x)
      <4>1. PICK j \in DOMAIN todo : j <= k + n + 1 /\ todo[j].do = "push" /\ todo[j].on = Owner(x)
        BY <3>2, <3>4
      <4>2. j # 1 /\ 1 < j /\ j \in Nat
        BY <1>2, <2>2, <4>1
      <4>3. Plain(todo[1])
        BY <1>1, <2>1, <2>4, <4>1, <4>2 DEF BodyInv
      <4>4. n = 1 /\ j - 1 \in DOMAIN todo'
        BY <2>1, <4>2, <4>3
      <4>5. todo'[j - 1] = todo[j] /\ j - 1 <= k + 1
        <5>1. j - 1 + 1 = j
          BY <4>2
        <5>2. todo'[j - 1] = todo[j]
          BY <2>1, <4>4, <5>1
        <5>3. j - 1 <= k + 1
          BY <3>1, <4>1, <4>2, <4>4
        <5> QED  BY <5>2, <5>3
      <4> QED  BY <4>1, <4>4, <4>5
    <3>5. ~(c.on \in Vms /\ c.do = "add")
      <4>1. Len(todo) # 1
        BY <1>2, <3>1
      <4> QED  BY <3>2, <4>1
    <3> HIDE DEF c
    <3>6. /\ c.do \notin {"pop", "remove_vm", "remove", "remove_if_listed"}
          /\ c.do = "push" => ~IsOpen(c.on) /\ Script(test)[at - 1] = With(c.on)
          /\ c.do = "set_sync" => c.arg = FALSE
      BY <3>2
    <3> QED  BY <3>3, <3>4, <3>5, <3>6 DEF c
  <2>5. \A ctx : IsOpen(ctx) <=> \E i \in DOMAIN stack' : stack'[i].on = ctx
    BY <2>2 DEF IsOpen
  <2>6. Script(test)' = Script(test)
    BY <2>2
  <2>7. ASSUME ~leaving, NEW k \in DOMAIN todo'
        PROVE  LET c == todo'[k] IN
               /\ c.do = "push" => /\ ~\E i \in DOMAIN stack' : stack'[i].on = c.on
                                   /\ Script(test)'[at' - 1] = With(c.on)
               /\ \A x \in Things : Adds(c, x) =>
                     \/ \E i \in DOMAIN stack' : stack'[i].on = Owner(x)'
                     \/ \E j \in DOMAIN todo' : j <= k + 1 /\ todo'[j].do = "push" /\ todo'[j].on = Owner(x)'
    <3>1. PICK c : c = todo'[k]
      OBVIOUS
    <3>2. c.do = "push" => (~\E i \in DOMAIN stack' : stack'[i].on = c.on) /\ Script(test)'[at' - 1] = With(c.on)
      <4>1. c.do = "push" => ~IsOpen(c.on) /\ Script(test)[at - 1] = With(c.on)
        BY <2>4, <2>7, <3>1
      <4> QED  BY <2>2, <2>5, <2>6, <4>1
    <3>3. ASSUME NEW x \in Things, Adds(c, x)
          PROVE  \/ \E i \in DOMAIN stack' : stack'[i].on = Owner(x)'
                 \/ \E j \in DOMAIN todo' : j <= k + 1 /\ todo'[j].do = "push" /\ todo'[j].on = Owner(x)'
      <4>1. IsOpen(Owner(x)) \/ \E j \in DOMAIN todo' : j <= k + 1 /\ todo'[j].do = "push" /\ todo'[j].on = Owner(x)
        BY <2>4, <2>7, <3>1, <3>3
      <4> QED  BY <2>3, <2>5, <4>1
    <3> QED  BY <3>1, <3>2, <3>3
  <2> QED  BY <2>2, <2>4, <2>7 DEF BodyInv, IsOpen
<1>5. ASSUME leaving' = TRUE PROVE BodyInv'
  BY <1>5 DEF BodyInv
<1>6. ASSUME NEW a, Raises(a) PROVE BodyInv'
  BY <1>5, <1>6 DEF Raises, Raise
<1>7. CASE BodyFails
  BY <1>5, <1>7 DEF BodyFails, Raise
<1>8. CASE NextItem
  <2>1. /\ at' - 1 = at /\ UNCHANGED <<test, stack, leaving, known>> /\ at \in DOMAIN Script(test)
        /\ \A j \in 1 .. at - 1 : \A ctx : Script(test)[j] = With(ctx) => IsOpen(ctx)
    BY <1>1, <1>8, NextCommands
  <2>2. (\A ctx : IsOpen(ctx)' <=> IsOpen(ctx)) /\ \A x : Owner(x)' = Owner(x)
    BY <2>1, SameFrames, SameOwners
  <2>3. CASE \E ctx \in Contexts : Script(test)[at] = With(ctx) /\ Opened(ctx, todo') /\ ~IsOpen(ctx)
    <3>1. PICK ctx \in Contexts : Script(test)[at] = With(ctx) /\ Opened(ctx, todo') /\ ~IsOpen(ctx)
      BY <2>3
    <3>2. PICK p \in DOMAIN todo' : PushAt(todo', ctx, p)
      BY <3>1 DEF Opened
    <3>3. ASSUME NEW k \in DOMAIN todo', todo'[k].do = "push"
          PROVE  /\ ~IsOpen(todo'[k].on) /\ Script(test)[at] = With(todo'[k].on)
                 /\ \A j \in DOMAIN todo' : todo'[j].do = "push" => j = k
                 /\ \A j \in DOMAIN todo' : j < k => Plain(todo'[j])
      BY <3>1, <3>2, <3>3 DEF PushAt
    <3>4. ASSUME NEW k \in DOMAIN todo'
          PROVE  /\ todo'[k].do \notin {"pop", "remove_vm", "remove", "remove_if_listed"}
                 /\ ~(todo'[k].on \in Vms /\ todo'[k].do = "add")
                 /\ todo'[k].do = "set_sync" => todo'[k].arg = FALSE
                 /\ \A x \in Things : Adds(todo'[k], x) =>
                       \E j \in DOMAIN todo' : j <= k + 1 /\ todo'[j].do = "push" /\ todo'[j].on = Owner(x)
      BY <3>1, <3>4 DEF Opened
    <3>5. \A o : IsOpen(o) <=> \E i \in DOMAIN stack' : stack'[i].on = o
      BY <2>1 DEF IsOpen
    <3>6. Script(test)' = Script(test)
      BY <2>1
    <3>7. ASSUME NEW k \in DOMAIN todo'
          PROVE  LET c == todo'[k] IN
                 /\ c.do = "push" => /\ ~\E i \in DOMAIN stack' : stack'[i].on = c.on
                                     /\ Script(test)'[at' - 1] = With(c.on)
                 /\ \A x \in Things : Adds(c, x) =>
                       \E j \in DOMAIN todo' : j <= k + 1 /\ todo'[j].do = "push" /\ todo'[j].on = Owner(x)'
      <4>1. PICK c : c = todo'[k]
        OBVIOUS
      <4>2. c.do = "push" => (~\E i \in DOMAIN stack' : stack'[i].on = c.on) /\ Script(test)'[at' - 1] = With(c.on)
        <5>1. c.do = "push" => ~IsOpen(c.on) /\ Script(test)[at] = With(c.on)
          BY <3>3, <3>7, <4>1
        <5> QED  BY <2>1, <3>5, <3>6, <5>1
      <4>3. ASSUME NEW x \in Things, Adds(c, x)
            PROVE  \E j \in DOMAIN todo' : j <= k + 1 /\ todo'[j].do = "push" /\ todo'[j].on = Owner(x)'
        <5>1. \E j \in DOMAIN todo' : j <= k + 1 /\ todo'[j].do = "push" /\ todo'[j].on = Owner(x)
          BY <3>4, <3>7, <4>1, <4>3
        <5> QED  BY <2>2, <5>1
      <4> QED  BY <4>1, <4>2, <4>3
    <3> QED  BY <3>3, <3>4, <3>7 DEF BodyInv, IsOpen
  <2>4. CASE /\ Script(test)[at] = Call(todo')
             /\ \A k \in DOMAIN todo' : Called(test, Script(test), at, todo', todo'[k])
    <3>1. ASSUME NEW k \in DOMAIN todo', NEW x \in Things, Adds(todo'[k], x) PROVE IsOpen(Owner(x))
      <4>1. Called(test, Script(test), at, todo', todo'[k])
        BY <2>4
      <4>2. todo'[k].do = "add" /\ todo'[k].on = x
        BY <3>1, <4>1 DEF Adds, Called, Structural
      <4>3. todo'[k].on \in Ons
        BY <1>1, <1>8, NextCommands DEF Commands
      <4>4. x \in Vms \/ x \in Entities
        BY <4>2, <4>3 DEF Things, Ons, Vms, Contexts, Entities
      <4>5. CASE x \in Vms
        <5>1. \E i \in 1 .. at - 1 : Script(test)[i] = With("vm_pool")
          BY <4>1, <4>2, <4>5 DEF Called
        <5>2. Owner(x) = "vm_pool"
          BY <4>5 DEF Owner, Vms
        <5> QED  BY <2>1, <5>1, <5>2
      <4>6. CASE x \in Entities
        <5>1. x = "assignment" /\ test = "ovn" /\ \E i \in 1 .. at - 1 : Script(test)[i] = With("network")
          BY <4>1, <4>2, <4>6 DEF Called
        <5>2. Owner(x) = "network"
          <6>1. x = "assignment" /\ test = "ovn"
            BY <5>1
          <6> QED  BY <6>1 DEF Owner, Vms
        <5> QED  BY <2>1, <5>1, <5>2
      <4> QED  BY <4>4, <4>5, <4>6
    <3>2. ASSUME NEW k \in DOMAIN todo'
          PROVE  /\ todo'[k].do \notin {"pop", "remove_vm", "remove", "remove_if_listed", "push", "set_sync"}
                 /\ todo'[k].on \in Vms /\ todo'[k].do = "add" => Len(todo') = 1
      BY <2>4, <3>2 DEF Called, Structural
    <3> QED  BY <2>1, <2>2, <2>4, <3>1, <3>2 DEF BodyInv, Adds
  <2> QED  BY <1>1, <1>8, <2>3, <2>4, NextCommands
<1>9. CASE BodyEnds
  BY <1>5, <1>9 DEF BodyEnds
<1>10. CASE EnterTry
  <2>1. /\ ~leaving /\ 1 \in DOMAIN todo /\ \A j \in DOMAIN todo : todo[j].do = "push" => j = 1
        /\ \A k \in DOMAIN todo' : k \in Nat \ {0} /\ k + 1 \in DOMAIN todo /\ todo'[k] = todo[k + 1]
        /\ \A ctx : IsOpen(ctx)' <=> IsOpen(ctx) \/ ctx = todo[1].on
    BY <1>1, <1>10, Entered
  <2>2. UNCHANGED <<test, at, leaving>> /\ todo[1].do = "push"
    BY <1>10 DEF EnterTry
  <2>3. \A x : Owner(x)' = Owner(x)
    BY <2>2, SameOwners
  <2>4. ASSUME NEW k \in DOMAIN todo'
        PROVE  /\ todo'[k].do \notin {"pop", "remove_vm", "remove", "remove_if_listed", "push"}
               /\ ~(todo'[k].on \in Vms /\ todo'[k].do = "add")
               /\ todo'[k].do = "set_sync" => todo'[k].arg = FALSE
               /\ \A x \in Things : Adds(todo'[k], x) => IsOpen(Owner(x))'
    <3>1. k + 1 \in DOMAIN todo /\ todo'[k] = todo[k + 1] /\ k + 1 # 1
      BY <2>1
    <3>2. /\ todo[k + 1].do \notin {"pop", "remove_vm", "remove", "remove_if_listed"} /\ todo[k + 1].do # "push"
          /\ todo[k + 1].on \in Vms /\ todo[k + 1].do = "add" => Len(todo) = 1
          /\ todo[k + 1].do = "set_sync" => todo[k + 1].arg = FALSE
      BY <1>1, <2>1, <3>1 DEF BodyInv
    <3>3. Len(todo) # 1
      BY <1>2, <3>1
    <3>4. ASSUME NEW x \in Things, Adds(todo[k + 1], x) PROVE IsOpen(Owner(x))'
      <4>1. \/ IsOpen(Owner(x))
            \/ \E j \in DOMAIN todo : todo[j].do = "push" /\ todo[j].on = Owner(x)
        BY <1>1, <2>1, <3>1, <3>4 DEF BodyInv
      <4>2. IsOpen(Owner(x)) \/ Owner(x) = todo[1].on
        BY <2>1, <4>1
      <4> QED  BY <2>1, <2>3, <4>2
    <3> QED  BY <3>1, <3>2, <3>3, <3>4
  <2> QED  BY <2>2, <2>4 DEF BodyInv, Adds
<1>11. CASE BeginFinally
  BY <1>5, <1>11 DEF BeginFinally
<1>12. CASE EndFinally
  <2>1. leaving
    BY <1>1, <1>12, Popped DEF Closes
  <2> QED  BY <1>12, <2>1 DEF EndFinally, BodyInv
<1> QED  BY <1>1, <1>3, <1>4, <1>6, <1>7, <1>8, <1>9, <1>10, <1>11, <1>12, Steps

\* What is left of a finally clause is one.
LEMMA ClosesRest ==
    ASSUME NEW cs \in Seq(Commands), NEW ds \in Seq(Commands), NEW n \in 1 .. 3, NEW frame, ClosesFrame(cs, frame), n < Len(cs),
           Len(ds) = Len(cs) - n, \A k \in DOMAIN ds : k \in Nat \ {0} /\ k + n \in DOMAIN cs /\ ds[k] = cs[k + n]
    PROVE  ClosesFrame(ds, frame)
<1> SUFFICES ASSUME NEW k \in DOMAIN ds
             PROVE  LET c == ds[k] IN
                    /\ c.do # "push"
                    /\ c.do = "pop" <=> k = Len(ds)
                    /\ k < Len(ds) => k + c.ok <= Len(ds) /\ k + c.to <= Len(ds)
                    /\ \A x \in Things : ~Adds(c, x)
                    /\ c.do = "remove_vm" => /\ frame.on = "vm_pool"
                                             /\ \A j \in DOMAIN ds : j > k /\ ds[j].on = c.on => ~Needs(ds[j])
                    /\ c.do = "set_sync" => frame.on = "auto_sync" /\ c.arg = frame.arg.sync
                    /\ c.do \in NicDos => frame.on = "toggle"
  BY DEF ClosesFrame
<1>1. PICK c \in Commands : c = ds[k]
  OBVIOUS
<1>2. /\ k \in Nat \ {0} /\ k + n \in DOMAIN cs /\ c = cs[k + n] /\ Len(cs) \in Nat /\ Len(ds) \in Nat
  BY <1>1
<1>3. /\ c.do # "push"
      /\ c.do = "pop" <=> k + n = Len(cs)
      /\ k + n < Len(cs) => k + n + c.ok <= Len(cs) /\ k + n + c.to <= Len(cs)
      /\ \A x \in Things : ~Adds(c, x)
      /\ c.do = "remove_vm" => /\ frame.on = "vm_pool"
                               /\ \A j \in DOMAIN cs : j > k + n /\ cs[j].on = c.on => ~Needs(cs[j])
      /\ c.do = "set_sync" => frame.on = "auto_sync" /\ c.arg = frame.arg.sync
      /\ c.do \in NicDos => frame.on = "toggle"
  BY <1>2 DEF ClosesFrame
<1>4. c.ok \in 1 .. 3 /\ c.to \in 1 .. 2
  BY DEF Commands
<1>5. c.do = "pop" <=> k = Len(ds)
  BY <1>2, <1>3
<1>6. k < Len(ds) => k + c.ok <= Len(ds) /\ k + c.to <= Len(ds)
  <2>1. PICK o \in 1 .. 3, t \in 1 .. 2 : o = c.ok /\ t = c.to
    BY <1>4
  <2>2. k + n < Len(cs) => k + n + o <= Len(cs) /\ k + n + t <= Len(cs)
    BY <1>3, <2>1
  <2>3. k < Len(ds) => k + o <= Len(ds) /\ k + t <= Len(ds)
    BY <1>2, <2>2
  <2> QED  BY <2>1, <2>3
<1>7. c.do = "remove_vm" => \A j \in DOMAIN ds : j > k /\ ds[j].on = c.on => ~Needs(ds[j])
  BY <1>2, <1>3
<1> QED  BY <1>1, <1>3, <1>5, <1>6, <1>7

\* Every step keeps the shape of a clause.
LEMMA CloseStep == IInv /\ [Next]_vars => CloseInv'
<1> SUFFICES ASSUME IInv, [Next]_vars PROVE CloseInv'
  OBVIOUS
<1>1. TypeInv /\ ScriptInv /\ BodyInv /\ CloseInv /\ VmInv /\ ToggleInv /\ LeftInv
  BY DEF IInv
<1>2. \A cs, frame : ClosesFrame(cs, frame)' <=> ClosesFrame(cs, frame)
  BY DEF ClosesFrame
<1>3. CASE Stands
  <2>1. UNCHANGED <<todo, stack, leaving>>
    BY <1>3 DEF Stands
  <2> QED  BY <1>1, <2>1 DEF CloseInv, Closes, ClosesFrame
<1>4. ASSUME NEW a, NEW n \in 1 .. 3, Goes(a, n) PROVE CloseInv'
  <2>1. /\ todo' \in Seq(Commands) /\ Len(todo) \in Nat
        /\ \A k \in DOMAIN todo' : k \in Nat \ {0} /\ k + n \in DOMAIN todo /\ todo'[k] = todo[k + n]
        /\ Closes => n < Len(todo) /\ stack # << >>
        /\ Len(todo') = IF n <= Len(todo) THEN Len(todo) - n ELSE 0
        /\ Closes' => Closes
    BY <1>1, <1>4, GoesOn
  <2>2. stack' = stack /\ todo \in Seq(Commands)
    BY <1>1, <1>4 DEF Goes, TypeInv
  <2>3. ASSUME Closes' PROVE stack' # << >> /\ ClosesFrame(todo', stack'[1])
    <3>1. n < Len(todo) /\ stack # << >> /\ ClosesFrame(todo, stack[1])
      BY <1>1, <2>1, <2>3 DEF CloseInv
    <3>2. Len(todo') = Len(todo) - n
      BY <2>1, <3>1
    <3>3. ClosesFrame(todo', stack[1])
      BY <2>1, <2>2, <3>1, <3>2, ClosesRest
    <3> QED  BY <2>2, <3>1, <3>3
  <2> QED  BY <2>3 DEF CloseInv
<1>5. ASSUME ~Closes' PROVE CloseInv'
  BY <1>5 DEF CloseInv
<1>6. ASSUME NEW a, Raises(a) PROVE CloseInv'
  BY <1>5, <1>6 DEF Raises, Raise, Closes
<1>7. CASE BodyFails
  BY <1>5, <1>7 DEF BodyFails, Raise, Closes
<1>8. CASE NextItem
  BY <1>5, <1>8 DEF NextItem, Body, Closes
<1>9. CASE BodyEnds
  BY <1>5, <1>9 DEF BodyEnds, Body, Closes
<1>10. CASE EnterTry
  <2>1. ~leaving /\ leaving' = leaving
    BY <1>1, <1>10, Entered DEF EnterTry
  <2> QED  BY <1>5, <2>1 DEF Closes
<1>11. CASE BeginFinally
  <2>1. stack # << >> /\ stack' = stack /\ todo' = Closing
    BY <1>11 DEF BeginFinally
  <2>2. Closed(Closing, stack[1])
    BY <1>1, <2>1, ClosingOf
  <2>3. stack' # << >> /\ ClosesFrame(todo', stack'[1])
    BY <2>1, <2>2 DEF Closed
  <2> QED  BY <2>3 DEF CloseInv
<1>12. CASE EndFinally
  BY <1>1, <1>5, <1>12, Popped
<1> QED  BY <1>1, <1>3, <1>4, <1>6, <1>7, <1>8, <1>9, <1>10, <1>11, <1>12, Steps

\* The vNIC that is toggled is that of a known VM, in a pool that is open.
LEMMA ToggledVm ==
    ASSUME TypeInv, ScriptInv, VmInv, ToggleInv, LeftInv, NextItem, Script(test)[at] = With("toggle")
    PROVE  "v1" \in known /\ IsOpen("vm_pool")
<1>1. /\ at \in DOMAIN Script(test)
      /\ \A j \in 1 .. at - 1 : /\ \A ctx : Script(test)[j] = With(ctx) => IsOpen(ctx)
                                /\ \A v \in Vms : Made(Script(test)[j], v) => v \in known /\ ~Gone(engine, v)
  BY NextCommands
<1>2. test \in Tests
  BY DEF TypeInv
<1>3. test = "ovn" /\ at = 12
  BY <1>1, <1>2, ItemAt
<1>4. Script(test)[5] = With("vm_pool") /\ Script(test)[6] = Call(Create("v1", "cirros"))
  BY <1>3, OvnOrder
<1>5. Made(Script(test)[6], "v1")
  <2>1. Creates(Create("v1", "cirros"), "v1")
    BY DEF Create, CreateSdkEntity, Cmd, Creates
  <2> QED  BY <1>4, <2>1, ItemKinds DEF Made
<1>6. 5 \in 1 .. at - 1 /\ 6 \in 1 .. at - 1 /\ "v1" \in Vms
  BY <1>3 DEF Vms
<1> QED  BY <1>1, <1>4, <1>5, <1>6

\* A VM goes only when the clause of its pool removes it, and comes only when it is created.
LEMMA VmGoes ==
    ASSUME TypeInv, BodyInv, CloseInv, Sends, NEW a, Answered(todo[1], engine, a), NEW v \in Vms, Gone(a.e, v), ~Gone(engine, v)
    PROVE  /\ todo[1].do = "remove_vm" /\ todo[1].on = v /\ leaving /\ Closes /\ stack # << >> /\ stack[1].on = "vm_pool"
           /\ \A i \in DOMAIN stack : stack[i].on = "vm_pool" => i = 1
           /\ \A j \in DOMAIN todo : j > 1 /\ todo[j].on = v => ~Needs(todo[j])
<1>1. todo[1].do = "remove_vm" /\ todo[1].on = v
  BY DEF Answered
<1>2. todo \in Seq(Commands) /\ todo # << >> /\ 1 \in DOMAIN todo /\ leaving \in BOOLEAN /\ stack \in Seq(Frames)
  BY DEF TypeInv, Sends
<1>3. leaving
  BY <1>1, <1>2 DEF BodyInv
<1>4. Closes /\ stack # << >>
  BY <1>2, <1>3 DEF Closes, CloseInv
<1>5. ClosesFrame(todo, stack[1])
  BY <1>4 DEF CloseInv
<1>6. stack[1].on = "vm_pool" /\ \A j \in DOMAIN todo : j > 1 /\ todo[j].on = v => ~Needs(todo[j])
  BY <1>1, <1>2, <1>5 DEF ClosesFrame
<1>7. \A i \in DOMAIN stack : stack[i].on = "vm_pool" => i = 1
  <2>1. 1 \in DOMAIN stack
    BY <1>2, <1>4
  <2> QED  BY <1>6, <2>1 DEF TypeInv
<1> QED  BY <1>1, <1>3, <1>4, <1>6, <1>7

\* Every step keeps the VMs of the test.
LEMMA VmStep == IInv /\ [Next]_vars => VmInv'
<1> SUFFICES ASSUME IInv, [Next]_vars PROVE VmInv'
  OBVIOUS
<1>1. TypeInv /\ ScriptInv /\ BodyInv /\ CloseInv /\ VmInv /\ ToggleInv /\ LeftInv
  BY DEF IInv
<1>2. todo \in Seq(Commands) /\ known \subseteq Vms /\ stack \in Seq(Frames) /\ leaving \in BOOLEAN
  BY <1>1 DEF TypeInv
<1>0. ASSUME \A v \in known' : Gone(engine', v) =>
                 leaving' /\ \A i \in DOMAIN stack' : stack'[i].on = "vm_pool" => i = 1 /\ todo' # << >>,
             \A k \in DOMAIN todo' : todo'[k].on \in Vms /\ Needs(todo'[k]) =>
                 todo'[k].on \in known' /\ ~Gone(engine', todo'[k].on)
      PROVE  VmInv'
  BY <1>0 DEF VmInv, Gone, Needs
<1>3. CASE Stands
  <2>1. UNCHANGED <<todo, stack, leaving, known>> /\ \A v \in Vms : Gone(engine', v) <=> Gone(engine, v)
    BY <1>3 DEF Stands
  <2> QED  BY <1>0, <1>1, <1>2, <2>1 DEF VmInv
<1>4. ASSUME NEW a, NEW n \in 1 .. 3, Goes(a, n) PROVE VmInv'
  <2>1. /\ \A k \in DOMAIN todo' : k \in Nat \ {0} /\ k + n \in DOMAIN todo /\ todo'[k] = todo[k + n]
        /\ Closes => todo' # << >>
        /\ n >= 1 /\ known \subseteq known'
        /\ \A v \in known' : v \in known \/ (v = todo[1].on /\ todo[1].do = "add" /\ v \in Vms /\ a.r = "ok")
    BY <1>1, <1>4, GoesOn
  <2>2. /\ UNCHANGED <<stack, leaving>> /\ engine' = a.e /\ Sends /\ Answered(todo[1], engine, a) /\ todo # << >>
    BY <1>4 DEF Goes, Sends
  <2>3. ASSUME NEW v \in known', Gone(engine', v)
        PROVE  leaving' /\ \A i \in DOMAIN stack' : stack'[i].on = "vm_pool" => i = 1 /\ todo' # << >>
    <3>1. v \in known
      BY <2>1, <2>2, <2>3 DEF Answered
    <3>2. CASE Gone(engine, v)
      <4>1. leaving /\ \A i \in DOMAIN stack : stack[i].on = "vm_pool" => i = 1
        BY <1>1, <3>1, <3>2 DEF VmInv
      <4>2. Closes
        BY <2>2, <4>1 DEF Closes
      <4> QED  BY <2>1, <2>2, <4>1, <4>2
    <3>3. CASE ~Gone(engine, v)
      <4>1. Closes /\ leaving /\ \A i \in DOMAIN stack : stack[i].on = "vm_pool" => i = 1
        BY <1>1, <1>2, <2>2, <2>3, <3>1, <3>3, VmGoes
      <4> QED  BY <2>1, <2>2, <4>1
    <3> QED  BY <3>2, <3>3
  <2>4. ASSUME NEW k \in DOMAIN todo', todo'[k].on \in Vms, Needs(todo'[k])
        PROVE  todo'[k].on \in known' /\ ~Gone(engine', todo'[k].on)
    <3>1. PICK c : c = todo'[k] /\ c = todo[k + n] /\ k + n \in DOMAIN todo /\ c.on \in Vms /\ Needs(c) /\ k + n > 1
      <4>1. k + n > 1
        BY <2>1
      <4> QED  BY <2>1, <2>4, <4>1
    <3>2. c.on \in known /\ ~Gone(engine, c.on)
      BY <1>1, <3>1 DEF VmInv
    <3>3. ASSUME Gone(engine', c.on) PROVE FALSE
      <4>1. \A j \in DOMAIN todo : j > 1 /\ todo[j].on = c.on => ~Needs(todo[j])
        BY <1>1, <2>2, <3>1, <3>2, <3>3, VmGoes
      <4> QED  BY <3>1, <4>1
    <3> QED  BY <2>1, <3>1, <3>2, <3>3
  <2> QED  BY <1>0, <2>3, <2>4
<1>6. ASSUME NEW a, Raises(a) PROVE VmInv'
  <2>1. Sends /\ Answered(todo[1], engine, a) /\ engine' = a.e /\ Raise(todo[1].on, Translate(todo[1], a.r))
        /\ (~leaving \/ Closes)
    BY <1>1, <1>6, CommandRaises DEF Raises
  <2>2. /\ todo' = << >> /\ leaving' = TRUE /\ known' = known
        /\ leaving => \A i \in DOMAIN stack' : i \in Nat \ {0} /\ i + 1 \in DOMAIN stack /\ stack'[i] = stack[i + 1]
    BY <1>1, <2>1, RaisedOut
  <2>3. ASSUME NEW v \in known, Gone(engine', v), NEW i \in DOMAIN stack' PROVE stack'[i].on # "vm_pool"
    <3>1. leaving /\ \A j \in DOMAIN stack : stack[j].on = "vm_pool" => j = 1
      <4>1. CASE Gone(engine, v)
        BY <1>1, <4>1 DEF VmInv
      <4>2. CASE ~Gone(engine, v)
        BY <1>1, <1>2, <2>1, <2>3, <4>2, VmGoes
      <4> QED  BY <4>1, <4>2
    <3>2. i + 1 # 1 /\ i + 1 \in DOMAIN stack /\ stack'[i] = stack[i + 1]
      BY <2>2, <2>3, <3>1
    <3> QED  BY <3>1, <3>2
  <2> QED  BY <1>0, <2>2, <2>3
<1>7. CASE BodyFails
  <2>1. ~leaving /\ engine' = engine /\ leaving' = TRUE /\ todo' = << >> /\ known' = known
    BY <1>7 DEF BodyFails, Body, Raise
  <2>2. \A v \in known : ~Gone(engine, v)
    BY <1>1, <2>1 DEF VmInv
  <2> QED  BY <1>0, <2>1, <2>2
<1>8. CASE NextItem
  <2>1. /\ at \in DOMAIN Script(test) /\ ~leaving /\ UNCHANGED <<engine, known>>
        /\ \A j \in 1 .. at - 1 : \A v \in Vms : Made(Script(test)[j], v) => v \in known /\ ~Gone(engine, v)
    BY <1>1, <1>8, NextCommands
  <2>2. \A v \in known : ~Gone(engine, v)
    BY <1>1, <2>1 DEF VmInv
  <2>3. ASSUME NEW k \in DOMAIN todo', todo'[k].on \in Vms, Needs(todo'[k])
        PROVE  todo'[k].on \in known /\ ~Gone(engine, todo'[k].on)
    <3>1. CASE \E ctx \in Contexts : Script(test)[at] = With(ctx) /\ Opened(ctx, todo')
      <4>1. Script(test)[at] = With("toggle") /\ todo'[k].on = "v1"
        BY <2>3, <3>1 DEF Opened
      <4>2. "v1" \in known
        BY <1>1, <1>8, <4>1, ToggledVm
      <4> QED  BY <2>2, <4>1, <4>2
    <3>2. CASE Called(test, Script(test), at, todo', todo'[k])
      <4>1. \E i \in 1 .. at - 1 : Made(Script(test)[i], todo'[k].on)
        BY <2>3, <3>2 DEF Called, Needs
      <4> QED  BY <2>1, <2>3, <4>1
    <3> QED  BY <1>1, <1>8, <3>1, <3>2, NextCommands
  <2> QED  BY <1>0, <2>1, <2>2, <2>3
<1>9. CASE BodyEnds
  <2>1. ~leaving /\ todo = << >> /\ UNCHANGED <<engine, known, todo>>
    BY <1>9 DEF BodyEnds, Body
  <2>2. \A v \in known : ~Gone(engine, v)
    BY <1>1, <2>1 DEF VmInv
  <2> QED  BY <1>0, <2>1, <2>2
<1>10. CASE EnterTry
  <2>1. ~leaving /\ \A k \in DOMAIN todo' : k \in Nat \ {0} /\ k + 1 \in DOMAIN todo /\ todo'[k] = todo[k + 1]
    BY <1>1, <1>10, Entered
  <2>2. UNCHANGED <<engine, known, leaving>>
    BY <1>10 DEF EnterTry
  <2>3. \A v \in known : ~Gone(engine, v)
    BY <1>1, <2>1 DEF VmInv
  <2>4. \A k \in DOMAIN todo' : todo'[k].on \in Vms /\ Needs(todo'[k]) => todo'[k].on \in known
    BY <1>1, <2>1 DEF VmInv
  <2> QED  BY <1>0, <2>2, <2>3, <2>4
<1>11. CASE BeginFinally
  <2>1. stack # << >> /\ todo = << >> /\ leaving /\ UNCHANGED <<engine, known, stack, leaving>> /\ todo' = Closing
    BY <1>11 DEF BeginFinally
  <2>2. Closed(todo', stack[1]) /\ 1 \in DOMAIN stack
    BY <1>1, <1>2, <2>1, ClosingOf
  <2>3. ASSUME NEW v \in known, Gone(engine, v), NEW i \in DOMAIN stack PROVE stack[i].on # "vm_pool"
    BY <1>1, <2>1, <2>3 DEF VmInv
  <2>4. ASSUME NEW k \in DOMAIN todo', todo'[k].on \in Vms
        PROVE  todo'[k].on \in known /\ ~Gone(engine, todo'[k].on)
    <3>1. todo'[k].on \in known /\ stack[1].on \in {"vm_pool", "toggle"}
      BY <2>2, <2>4 DEF Closed
    <3>2. \E i \in DOMAIN stack : stack[i].on = "vm_pool"
      BY <1>1, <2>2, <3>1 DEF ToggleInv
    <3> QED  BY <2>3, <3>1, <3>2
  <2> QED  BY <1>0, <2>1, <2>3, <2>4
<1>12. CASE EndFinally
  <2>1. /\ Closes /\ todo' = << >>
        /\ \A i \in DOMAIN stack' : i \in Nat \ {0} /\ i + 1 \in DOMAIN stack /\ stack'[i] = stack[i + 1]
    BY <1>1, <1>12, Popped
  <2>2. UNCHANGED <<engine, known, leaving>>
    BY <1>12 DEF EndFinally
  <2>3. ASSUME NEW v \in known, Gone(engine, v), NEW i \in DOMAIN stack' PROVE stack'[i].on # "vm_pool"
    <3>1. i + 1 # 1 /\ i + 1 \in DOMAIN stack /\ stack'[i] = stack[i + 1]
      BY <2>1
    <3> QED  BY <1>1, <2>3, <3>1 DEF VmInv
  <2> QED  BY <1>0, <2>1, <2>2, <2>3 DEF Closes
<1> QED  BY <1>1, <1>3, <1>4, <1>6, <1>7, <1>8, <1>9, <1>10, <1>11, <1>12, Steps

\* A pool stays behind the vNIC toggled in it when the innermost frame goes.
LEMMA DeepTail ==
    ASSUME NEW s, NEW t, NEW M, \A i \in DOMAIN s : i \in Nat,
           \A i \in DOMAIN t : i \in Nat \ {0} /\ i + 1 \in DOMAIN s /\ t[i] = s[i + 1],
           \A i \in DOMAIN s : i > 1 => i - 1 \in DOMAIN t,
           \A i \in DOMAIN s : s[i].on = "toggle" => "v1" \in M /\ \E j \in DOMAIN s : j > i /\ s[j].on = "vm_pool"
    PROVE  \A i \in DOMAIN t : t[i].on = "toggle" => "v1" \in M /\ \E j \in DOMAIN t : j > i /\ t[j].on = "vm_pool"
<1> SUFFICES ASSUME NEW i \in DOMAIN t, t[i].on = "toggle"
             PROVE  "v1" \in M /\ \E j \in DOMAIN t : j > i /\ t[j].on = "vm_pool"
  OBVIOUS
<1>1. i \in Nat \ {0} /\ i + 1 \in DOMAIN s /\ s[i + 1].on = "toggle"
  OBVIOUS
<1>2. PICK j \in DOMAIN s : j > i + 1 /\ s[j].on = "vm_pool"
  BY <1>1
<1>3. j \in Nat /\ j > 1 /\ j - 1 > i /\ j - 1 + 1 = j
  BY <1>1, <1>2
<1>4. j - 1 \in DOMAIN t /\ t[j - 1] = s[j]
  <2>1. j - 1 \in DOMAIN t
    BY <1>3
  <2>2. t[j - 1] = s[j - 1 + 1]
    BY <2>1
  <2> QED  BY <1>3, <2>1, <2>2
<1> QED  BY <1>1, <1>2, <1>3, <1>4

\* The vNIC of the OVN test, from its creation to the toggling.
LEMMA OvnGives ==
    ASSUME TypeInv, ScriptInv, VmInv, ToggleInv, LeftInv, NextItem, test = "ovn", at' \in 8 .. 12
    PROVE  /\ "v1" \in known
           /\ \/ at' = 8 /\ todo' = CreateVnic("v1", "network")
              \/ engine.nic["v1"] = GivenNic /\ \A k \in DOMAIN todo' : todo'[k].do \notin NicDos
<1>1. /\ at \in DOMAIN Script(test) /\ at' = at + 1 /\ ~leaving /\ todo = << >> /\ at \in Nat
      /\ \A j \in 1 .. at - 1 : \A v \in Vms : Made(Script(test)[j], v) => v \in known
      /\ \/ \E ctx \in Contexts : Script(test)[at] = With(ctx) /\ Opened(ctx, todo')
         \/ Script(test)[at] = Call(todo')
  BY NextCommands
<1>2. at \in 7 .. 11
  BY <1>1
<1>3. "v1" \in known
  <2>1. Creates(Create("v1", "cirros"), "v1")
    BY DEF Create, CreateSdkEntity, Cmd, Creates
  <2>2. Made(Script(test)[6], "v1")
    BY <2>1, ItemKinds, OvnOrder DEF Made
  <2>3. 6 \in 1 .. at - 1 /\ "v1" \in Vms
    BY <1>2 DEF Vms
  <2> QED  BY <1>1, <2>2, <2>3
<1>4. \A cs : Script(test)[at] = Call(cs) => todo' = cs
  <2>1. \A cs, ctx : Call(cs) # With(ctx)
    BY ItemKinds
  <2>2. \A cs, ds : Call(cs) = Call(ds) => cs = ds
    BY DEF Call
  <2> QED  BY <1>1, <2>1, <2>2
<1>5. at > 7 => engine.nic["v1"] = GivenNic
  <2>1. ASSUME at > 7 PROVE engine.nic["v1"] = GivenNic
    <3>1. at \in 8 .. 12 /\ todo # CreateVnic("v1", "network")
      BY <1>1, <1>2, <2>1 DEF CreateVnic
    <3> QED  BY <1>1, <3>1 DEF ToggleInv
  <2> QED  BY <2>1
<1>6. CASE at = 7
  BY <1>1, <1>3, <1>4, <1>6, OvnOrder
<1>7. CASE at = 8
  <2>1. todo' = WaitForDownStatus("v1")
    BY <1>4, <1>7, OvnOrder
  <2>2. \A k \in DOMAIN todo' : todo'[k].do = "wait_vm"
    BY <2>1 DEF WaitForDownStatus, WaitForStatus, Cmd
  <2> QED  BY <1>3, <1>5, <1>7, <2>2 DEF NicDos
<1>8. CASE at = 9
  <2>1. todo' = RunOnce("v1")
    BY <1>4, <1>8, OvnOrder
  <2>2. \A k \in DOMAIN todo' : todo'[k].do = "start"
    <3>1. PICK c : c = Cmd("start", "v1", "")
      OBVIOUS
    <3>2. c.do = "start"
      BY <3>1 DEF Cmd
    <3>3. todo' = <<c>>
      BY <2>1, <3>1 DEF RunOnce
    <3>4. DOMAIN todo' = {1} /\ todo'[1] = c
      BY <3>3
    <3> QED  BY <3>2, <3>4
  <2> QED  BY <1>3, <1>5, <1>8, <2>2 DEF NicDos
<1>9. CASE at = 10
  <2>1. todo' = WaitForUpStatus("v1")
    BY <1>4, <1>9, OvnOrder
  <2>2. \A k \in DOMAIN todo' : todo'[k].do = "wait_vm"
    BY <2>1 DEF WaitForUpStatus, WaitForStatus, Cmd
  <2> QED  BY <1>3, <1>5, <1>9, <2>2 DEF NicDos
<1>10. CASE at = 11
  <2>1. Script(test)[at] = With("profile")
    BY <1>10, OvnOrder
  <2>2. \A cs : Script(test)[at] # Call(cs)
    BY <2>1, ItemKinds
  <2>3. PICK ctx \in Contexts : Script(test)[at] = With(ctx) /\ Opened(ctx, todo')
    BY <1>1, <2>2
  <2>4. ctx = "profile"
    BY <2>1, <2>3, ItemKinds
  <2>5. \A k \in DOMAIN todo' : todo'[k].do \notin NicDos
    BY <2>3, <2>4 DEF Opened
  <2> QED  BY <1>3, <1>5, <1>10, <2>5
<1>11. at = 7 \/ at = 8 \/ at = 9 \/ at = 10 \/ at = 11
  BY <1>2
<1> QED  BY <1>6, <1>7, <1>8, <1>9, <1>10, <1>11

\* The toggled vNIC goes back to its network, command by command.
LEMMA ToggledRest ==
    ASSUME TypeInv, CloseInv, Closes, Toggled(todo), NEW a, NEW n \in 1 .. 3, Goes(a, n)
    PROVE  Toggled(todo)'
<1>1. /\ \A k \in DOMAIN todo' : k \in Nat \ {0} /\ k + n \in DOMAIN todo /\ todo'[k] = todo[k + n]
      /\ \A k \in DOMAIN todo : k > n => k - n \in DOMAIN todo'
      /\ n < Len(todo) /\ Len(todo) \in Nat
      /\ Len(todo') = IF n <= Len(todo) THEN Len(todo) - n ELSE 0
      /\ Plain(todo[1]) => n = 1 /\ a.r = "ok"
      /\ todo \in Seq(Commands) /\ todo' \in Seq(Commands)
  BY GoesOn DEF TypeInv
<1>2. /\ engine' \in Engines /\ engine' = a.e /\ todo[1].do # "pop" /\ Answered(todo[1], engine, a)
  BY DEF Goes, Sends, Scoping, Answered
<1>3. Len(todo) # 1
  BY <1>1
<1>4. CASE /\ Len(todo) = 4 /\ todo[1].do = "unplug" /\ todo[2].do = "set_profile" /\ todo[3].do = "plug"
           /\ todo[1].on = "v1" /\ todo[2].on = "v1" /\ todo[3].on = "v1" /\ todo[2].arg = "network"
           /\ Plain(todo[1]) /\ Plain(todo[2]) /\ Plain(todo[3])
  <2>1. n = 1 /\ Len(todo') = 3
    BY <1>1, <1>4
  <2>2. todo'[1] = todo[2] /\ todo'[2] = todo[3]
    <3>1. 1 \in DOMAIN todo' /\ 2 \in DOMAIN todo' /\ 1 + n = 2 /\ 2 + n = 3
      BY <1>1, <2>1
    <3> QED  BY <1>1, <3>1
  <2> QED  BY <1>4, <2>1, <2>2 DEF Toggled
<1>5. CASE /\ Len(todo) = 3 /\ todo[1].do = "set_profile" /\ todo[2].do = "plug"
           /\ todo[1].on = "v1" /\ todo[2].on = "v1" /\ todo[1].arg = "network"
           /\ Plain(todo[1]) /\ Plain(todo[2])
  <2>1. n = 1 /\ a.r = "ok" /\ Len(todo') = 2
    BY <1>1, <1>5
  <2>2. todo'[1] = todo[2]
    <3>1. 1 \in DOMAIN todo' /\ 1 + n = 2
      BY <1>1, <2>1
    <3> QED  BY <1>1, <3>1
  <2>3. engine'.nic["v1"].profile = "network"
    BY <1>2, <1>5, <2>1 DEF Answered
  <2> QED  BY <1>5, <2>1, <2>2, <2>3 DEF Toggled
<1>6. CASE /\ Len(todo) = 2 /\ todo[1].do = "plug" /\ todo[1].on = "v1" /\ Plain(todo[1])
           /\ engine.nic["v1"].profile = "network"
  <2>1. n = 1 /\ a.r = "ok" /\ Len(todo') = 1
    BY <1>1, <1>6
  <2>2. engine'.nic["v1"].profile = "network" /\ engine'.nic["v1"].plugged = TRUE
    BY <1>2, <1>6, <2>1 DEF Answered
  <2>3. engine'.nic["v1"] \in Nics
    BY <1>2 DEF Engines, Vms
  <2>4. engine'.nic["v1"] = GivenNic
    BY <2>2, <2>3 DEF Nics, GivenNic
  <2> QED  BY <2>1, <2>4 DEF Toggled
<1> QED  BY <1>3, <1>4, <1>5, <1>6 DEF Toggled

\* Every step keeps what is known of the vNIC that is toggled.
LEMMA ToggleStep == IInv /\ [Next]_vars => ToggleInv'
<1> SUFFICES ASSUME IInv, [Next]_vars PROVE ToggleInv'
  OBVIOUS
<1>1. TypeInv /\ ScriptInv /\ BodyInv /\ CloseInv /\ VmInv /\ ToggleInv /\ LeftInv
  BY DEF IInv
<1>2. todo \in Seq(Commands) /\ known \subseteq Vms /\ stack \in Seq(Frames) /\ leaving \in BOOLEAN /\ test \in Tests
      /\ \A i \in DOMAIN stack : i \in Nat
  BY <1>1 DEF TypeInv
<1> DEFINE Deep == \A i \in DOMAIN stack : stack[i].on = "toggle" =>
                      "v1" \in known /\ \E j \in DOMAIN stack : j > i /\ stack[j].on = "vm_pool"
           Soon == Pushes(todo, "toggle") => "v1" \in known /\ IsOpen("vm_pool")
           Back == Closes /\ stack[1].on = "toggle" => Toggled(todo)
           Given == test = "ovn" /\ ~leaving /\ at \in 8 .. 12 =>
                      /\ "v1" \in known
                      /\ \/ at = 8 /\ todo = CreateVnic("v1", "network")
                         \/ /\ engine.nic["v1"] = GivenNic
                            /\ \A k \in DOMAIN todo : todo[k].do \notin NicDos
<1>0. (ToggleInv <=> Deep /\ Soon /\ Back /\ Given) /\ (ToggleInv' <=> Deep' /\ Soon' /\ Back' /\ Given')
  BY DEF ToggleInv
<1>20. Deep /\ Soon /\ Back /\ Given
  BY <1>0, <1>1
<1>3. CASE Stands
  <2>1. /\ UNCHANGED <<todo, test, at, stack, leaving, known>>
        /\ \A v \in Vms : ~Gone(engine, v) => engine'.nic[v] = engine.nic[v]
    BY <1>3 DEF Stands
  <2>2. Deep'
    BY <1>20, <2>1
  <2>3. Soon'
    BY <1>20, <2>1 DEF Pushes, IsOpen
  <2>4. Back'
    <3>1. ASSUME Closes, stack[1].on = "toggle" PROVE engine'.nic["v1"] = engine.nic["v1"]
      <4>1. 1 \in DOMAIN stack
        BY <1>1, <1>2, <3>1 DEF CloseInv
      <4>2. "v1" \in known /\ \E j \in DOMAIN stack : j > 1 /\ stack[j].on = "vm_pool"
        BY <1>20, <3>1, <4>1
      <4>3. ~Gone(engine, "v1")
        BY <1>1, <4>2 DEF VmInv
      <4> QED  BY <1>2, <2>1, <4>2, <4>3
    <3>2. Closes' <=> Closes
      BY <2>1 DEF Closes
    <3> QED  BY <1>20, <2>1, <3>1, <3>2 DEF Toggled
  <2>5. Given'
    <3>1. ASSUME test = "ovn", ~leaving, at \in 8 .. 12 PROVE engine'.nic["v1"] = engine.nic["v1"]
      <4>1. "v1" \in known /\ ~Gone(engine, "v1")
        BY <1>1, <1>20, <3>1 DEF VmInv
      <4> QED  BY <1>2, <2>1, <4>1
    <3> QED  BY <1>20, <2>1, <3>1 DEF CreateVnic, Cmd
  <2> HIDE DEF Deep, Soon, Back, Given
  <2> QED  BY <1>0, <2>2, <2>3, <2>4, <2>5
<1>4. ASSUME NEW a, NEW n \in 1 .. 3, Goes(a, n) PROVE ToggleInv'
  <2>1. /\ \A k \in DOMAIN todo' : k \in Nat \ {0} /\ k + n \in DOMAIN todo /\ todo'[k] = todo[k + n]
        /\ known \subseteq known' /\ (Closes' => Closes) /\ 1 \in DOMAIN todo
        /\ Plain(todo[1]) => n = 1 /\ a.r = "ok"
        /\ todo' # << >> <=> n < Len(todo)
    BY <1>1, <1>4, GoesOn
  <2>2. UNCHANGED <<test, at, stack, leaving>> /\ engine' = a.e /\ Answered(todo[1], engine, a) /\ todo[1] \in Commands
    BY <1>4 DEF Goes, Sends
  <2>3. Deep'
    BY <1>20, <2>1, <2>2
  <2>4. Soon'
    BY <1>20, <2>1, <2>2 DEF Pushes, IsOpen
  <2>5. Back'
    BY <1>1, <1>4, <1>20, <2>1, <2>2, ToggledRest
  <2>6. Given'
    <3>1. ASSUME test = "ovn", ~leaving, at \in 8 .. 12
          PROVE  "v1" \in known' /\ engine'.nic["v1"] = GivenNic /\ \A k \in DOMAIN todo' : todo'[k].do \notin NicDos
      <4>1. CASE todo = CreateVnic("v1", "network")
        <5>1. todo = <<Cmd("add_nic", "v1", "network")>>
          BY <4>1 DEF CreateVnic
        <5>2. todo[1] = Cmd("add_nic", "v1", "network") /\ Len(todo) = 1
          BY <5>1
        <5>3. todo[1].do = "add_nic" /\ todo[1].on = "v1" /\ todo[1].arg = "network" /\ Plain(todo[1])
          BY <5>2 DEF Cmd, Plain
        <5>4. n = 1 /\ a.r = "ok" /\ todo' = << >>
          BY <2>1, <5>2, <5>3
        <5>5. engine'.nic["v1"] = GivenNic
          BY <2>2, <5>3, <5>4 DEF Answered, GivenNic
        <5> QED  BY <1>20, <2>1, <3>1, <5>4, <5>5
      <4>2. CASE engine.nic["v1"] = GivenNic /\ \A k \in DOMAIN todo : todo[k].do \notin NicDos
        <5>1. todo[1].do \notin NicDos \cup {"remove_vm"}
          BY <1>1, <2>1, <3>1, <4>2 DEF BodyInv
        <5>2. engine'.nic = engine.nic
          BY <2>2, <5>1 DEF Answered
        <5> QED  BY <1>20, <2>1, <3>1, <4>2, <5>2
      <4> QED  BY <1>20, <3>1, <4>1, <4>2
    <3> QED  BY <2>2, <3>1
  <2> HIDE DEF Deep, Soon, Back, Given
  <2> QED  BY <1>0, <2>3, <2>4, <2>5, <2>6
<1>5. ASSUME NEW x, NEW err, Raise(x, err), ~leaving \/ Closes PROVE ToggleInv'
  <2>1. /\ todo' = << >> /\ leaving' = TRUE /\ known' = known /\ ~Closes' /\ (~leaving => stack' = stack)
        /\ leaving => /\ \A i \in DOMAIN stack' : i \in Nat \ {0} /\ i + 1 \in DOMAIN stack /\ stack'[i] = stack[i + 1]
                      /\ \A i \in DOMAIN stack : i > 1 => i - 1 \in DOMAIN stack'
    BY <1>1, <1>5, RaisedOut
  <2>2. Deep'
    <3>1. CASE ~leaving
      BY <1>20, <2>1, <3>1
    <3>2. CASE leaving
      <4>1. PICK s, t, M : s = stack /\ t = stack' /\ M = known
        OBVIOUS
      <4>2. /\ \A i \in DOMAIN s : i \in Nat
            /\ \A i \in DOMAIN t : i \in Nat \ {0} /\ i + 1 \in DOMAIN s /\ t[i] = s[i + 1]
            /\ \A i \in DOMAIN s : i > 1 => i - 1 \in DOMAIN t
            /\ \A i \in DOMAIN s : s[i].on = "toggle" => "v1" \in M /\ \E j \in DOMAIN s : j > i /\ s[j].on = "vm_pool"
        BY <1>2, <1>20, <2>1, <3>2, <4>1
      <4>3. \A i \in DOMAIN t : t[i].on = "toggle" => "v1" \in M /\ \E j \in DOMAIN t : j > i /\ t[j].on = "vm_pool"
        BY <4>2, DeepTail
      <4> QED  BY <2>1, <4>1, <4>3
    <3> QED  BY <3>1, <3>2
  <2>3. Soon' /\ Back' /\ Given'
    BY <2>1 DEF Pushes
  <2> HIDE DEF Deep, Soon, Back, Given
  <2> QED  BY <1>0, <2>2, <2>3
<1>6. ASSUME NEW a, Raises(a) PROVE ToggleInv'
  <2>1. Raise(todo[1].on, Translate(todo[1], a.r)) /\ (~leaving \/ Closes)
    BY <1>1, <1>6, CommandRaises DEF Raises
  <2> QED  BY <1>5, <2>1
<1>7. CASE BodyFails
  <2>1. Raise("body", "AssertionError") /\ ~leaving
    BY <1>7 DEF BodyFails, Body
  <2> QED  BY <1>5, <2>1
<1>8. CASE NextItem
  <2>1. /\ at \in DOMAIN Script(test) /\ at' = at + 1 /\ ~leaving /\ todo = << >> /\ at \in Nat
        /\ UNCHANGED <<engine, test, stack, leaving, known>>
        /\ \A j \in 1 .. at - 1 : \A v \in Vms : Made(Script(test)[j], v) => v \in known /\ ~Gone(engine, v)
        /\ \/ \E ctx \in Contexts : Script(test)[at] = With(ctx) /\ Opened(ctx, todo') /\ ~IsOpen(ctx)
           \/ Script(test)[at] = Call(todo') /\ \A k \in DOMAIN todo' : Called(test, Script(test), at, todo', todo'[k])
    BY <1>1, <1>8, NextCommands
  <2>2. Deep'
    BY <1>20, <2>1
  <2>3. Soon'
    <3>1. ASSUME Pushes(todo', "toggle") PROVE Script(test)[at] = With("toggle")
      <4>1. ~\A k \in DOMAIN todo' : Called(test, Script(test), at, todo', todo'[k])
        BY <3>1 DEF Pushes, Called, Structural
      <4>2. PICK ctx \in Contexts : Script(test)[at] = With(ctx) /\ Opened(ctx, todo')
        BY <2>1, <4>1
      <4>3. ctx = "toggle"
        BY <3>1, <4>2 DEF Pushes, Opened, PushAt
      <4> QED  BY <4>2, <4>3
    <3>2. IsOpen("vm_pool")' <=> IsOpen("vm_pool")
      BY <2>1, SameFrames
    <3> QED  BY <1>1, <1>8, <2>1, <3>1, <3>2, ToggledVm DEF Pushes
  <2>4. Back'
    BY <2>1 DEF Closes
  <2>5. Given'
    BY <1>1, <1>8, <1>20, <2>1, OvnGives
  <2> HIDE DEF Deep, Soon, Back, Given
  <2> QED  BY <1>0, <2>2, <2>3, <2>4, <2>5
<1>9. CASE BodyEnds
  <2>1. ~leaving /\ todo = << >> /\ UNCHANGED <<todo, stack, known>> /\ leaving' = TRUE
    BY <1>9 DEF BodyEnds, Body
  <2>2. Deep' /\ Soon' /\ Back' /\ Given'
    BY <1>20, <2>1 DEF Pushes, Closes
  <2> HIDE DEF Deep, Soon, Back, Given
  <2> QED  BY <1>0, <2>2
<1>10. CASE EnterTry
  <2>1. /\ ~leaving /\ 1 \in DOMAIN todo /\ stack'[1] = todo[1]
        /\ \A k \in DOMAIN todo' : k \in Nat \ {0} /\ k + 1 \in DOMAIN todo /\ todo'[k] = todo[k + 1]
        /\ \A i \in DOMAIN stack : i \in Nat \ {0} /\ i + 1 \in DOMAIN stack' /\ stack'[i + 1] = stack[i]
        /\ \A i \in DOMAIN stack' : i = 1 \/ (i - 1 \in DOMAIN stack /\ i \in Nat /\ stack'[i] = stack[i - 1])
        /\ \A ctx : IsOpen(ctx)' <=> IsOpen(ctx) \/ ctx = todo[1].on
    BY <1>1, <1>10, Entered
  <2>2. UNCHANGED <<engine, test, at, leaving, known>> /\ todo[1].do = "push"
    BY <1>10 DEF EnterTry
  <2>3. Deep'
    <3>1. ASSUME NEW i \in DOMAIN stack', stack'[i].on = "toggle"
          PROVE  "v1" \in known /\ \E j \in DOMAIN stack' : j > i /\ stack'[j].on = "vm_pool"
      <4>1. CASE i = 1
        <5>1. Pushes(todo, "toggle")
          BY <2>1, <2>2, <3>1, <4>1 DEF Pushes
        <5>2. "v1" \in known /\ IsOpen("vm_pool")
          BY <1>20, <5>1
        <5>3. PICK j \in DOMAIN stack : stack[j].on = "vm_pool"
          BY <5>2 DEF IsOpen
        <5>4. j + 1 \in DOMAIN stack' /\ stack'[j + 1] = stack[j] /\ j + 1 > 1
          BY <2>1
        <5> QED  BY <4>1, <5>2, <5>3, <5>4
      <4>2. CASE i # 1
        <5>1. i - 1 \in DOMAIN stack /\ i \in Nat /\ stack'[i] = stack[i - 1]
          BY <2>1, <4>2
        <5>2. PICK j \in DOMAIN stack : j > i - 1 /\ stack[j].on = "vm_pool"
          BY <1>20, <3>1, <5>1
        <5>3. j + 1 \in DOMAIN stack' /\ stack'[j + 1] = stack[j] /\ j + 1 > i
          BY <2>1, <5>1, <5>2
        <5> QED  BY <1>20, <3>1, <5>1, <5>2, <5>3
      <4> QED  BY <4>1, <4>2
    <3> QED  BY <2>2, <3>1
  <2>4. Soon'
    <3>1. Pushes(todo', "toggle") => Pushes(todo, "toggle")
      BY <2>1 DEF Pushes
    <3> QED  BY <1>20, <2>1, <2>2, <3>1 DEF Pushes
  <2>5. Back'
    BY <2>1, <2>2 DEF Closes
  <2>6. Given'
    <3>1. ASSUME todo = CreateVnic("v1", "network") PROVE FALSE
      <4>1. todo[1] = Cmd("add_nic", "v1", "network")
        BY <3>1 DEF CreateVnic
      <4> QED  BY <2>2, <4>1 DEF Cmd
    <3> QED  BY <1>20, <2>1, <2>2, <3>1
  <2> HIDE DEF Deep, Soon, Back, Given
  <2> QED  BY <1>0, <2>3, <2>4, <2>5, <2>6
<1>11. CASE BeginFinally
  <2>1. stack # << >> /\ leaving /\ UNCHANGED <<engine, known, stack, leaving>> /\ todo' = Closing
    BY <1>11 DEF BeginFinally
  <2>2. Closed(todo', stack[1])
    BY <1>1, <2>1, ClosingOf
  <2>3. ~Pushes(todo', "toggle")
    BY <2>2 DEF Closed, ClosesFrame, Pushes
  <2>4. stack[1].on = "toggle" => Ordered(todo')
    BY <2>2 DEF Closed
  <2>5. Deep' /\ Soon' /\ Given'
    BY <1>20, <2>1, <2>3 DEF Pushes
  <2>6. Back'
    BY <2>1, <2>4 DEF Toggled, Ordered
  <2> HIDE DEF Deep, Soon, Back, Given
  <2> QED  BY <1>0, <2>5, <2>6
<1>12. CASE EndFinally
  <2>1. /\ Closes /\ todo' = << >> /\ ~Closes'
        /\ \A i \in DOMAIN stack' : i \in Nat \ {0} /\ i + 1 \in DOMAIN stack /\ stack'[i] = stack[i + 1]
        /\ \A i \in DOMAIN stack : i > 1 => i - 1 \in DOMAIN stack'
    BY <1>1, <1>12, Popped
  <2>2. UNCHANGED <<known, leaving>>
    BY <1>12 DEF EndFinally
  <2>3. Deep'
    <3>1. PICK s, t, M : s = stack /\ t = stack' /\ M = known
      OBVIOUS
    <3>2. /\ \A i \in DOMAIN s : i \in Nat
          /\ \A i \in DOMAIN t : i \in Nat \ {0} /\ i + 1 \in DOMAIN s /\ t[i] = s[i + 1]
          /\ \A i \in DOMAIN s : i > 1 => i - 1 \in DOMAIN t
          /\ \A i \in DOMAIN s : s[i].on = "toggle" => "v1" \in M /\ \E j \in DOMAIN s : j > i /\ s[j].on = "vm_pool"
      BY <1>2, <1>20, <2>1, <3>1
    <3>3. \A i \in DOMAIN t : t[i].on = "toggle" => "v1" \in M /\ \E j \in DOMAIN t : j > i /\ t[j].on = "vm_pool"
      BY <3>2, DeepTail
    <3> QED  BY <2>2, <3>1, <3>3
  <2>4. Soon' /\ Back' /\ Given'
    BY <2>1, <2>2 DEF Pushes, Closes
  <2> HIDE DEF Deep, Soon, Back, Given
  <2> QED  BY <1>0, <2>3, <2>4
<1> QED  BY <1>1, <1>3, <1>4, <1>6, <1>7, <1>8, <1>9, <1>10, <1>11, <1>12, Steps

\* The mode of synchronisation is set to off in the body, and back in its own clause.
LEMMA SyncSet ==
    ASSUME TypeInv, BodyInv, CloseInv, NEW a, Sends, Answered(todo[1], engine, a)
    PROVE  \/ a.e.sync = engine.sync
           \/ ~leaving /\ a.e.sync = FALSE
           \/ Closes /\ stack[1].on = "auto_sync" /\ 1 \in DOMAIN stack /\ a.e.sync = stack[1].arg.sync
<1>1. a.e.sync = engine.sync \/ (todo[1].do = "set_sync" /\ a.e.sync = todo[1].arg)
  BY DEF Answered
<1>2. 1 \in DOMAIN todo /\ leaving \in BOOLEAN /\ todo # << >>
  BY DEF TypeInv, Sends
<1>3. ASSUME ~leaving, todo[1].do = "set_sync" PROVE todo[1].arg = FALSE
  BY <1>2, <1>3 DEF BodyInv
<1>4. ASSUME leaving, todo[1].do = "set_sync"
      PROVE  Closes /\ stack[1].on = "auto_sync" /\ 1 \in DOMAIN stack /\ todo[1].arg = stack[1].arg.sync
  <2>1. Closes
    BY <1>2, <1>4 DEF Closes
  <2>2. stack # << >> /\ ClosesFrame(todo, stack[1])
    BY <2>1 DEF CloseInv
  <2>3. stack[1].on = "auto_sync" /\ todo[1].arg = stack[1].arg.sync
    BY <1>2, <1>4, <2>2 DEF ClosesFrame
  <2>4. 1 \in DOMAIN stack
    BY <2>2 DEF TypeInv
  <2> QED  BY <2>1, <2>3, <2>4
<1> QED  BY <1>1, <1>2, <1>3, <1>4

\* set_sync catches nothing.
LEMMA SyncPlain == ASSUME NEW c \in Commands, c.do = "set_sync" PROVE Plain(c)
<1>1. Legal(c) /\ (c.on \notin Vms \cup {"template"} => Plain(c))
  BY DEF Commands, IsCommand
<1>2. c.on = "auto_sync"
  BY <1>1 DEF Legal, VmDos, NicDos, TemplateDos
<1> QED  BY <1>1, <1>2 DEF Vms

\* Every step keeps what is known of the synchronisation.
LEMMA SyncStep == IInv /\ [Next]_vars => SyncInv'
<1> SUFFICES ASSUME IInv, [Next]_vars PROVE SyncInv'
  OBVIOUS
<1>1. TypeInv /\ ScriptInv /\ BodyInv /\ CloseInv /\ VmInv /\ ToggleInv /\ LeftInv
  BY DEF IInv
<1>2. /\ todo \in Seq(Commands) /\ stack \in Seq(Frames) /\ leaving \in BOOLEAN /\ engine.sync \in BOOLEAN
      /\ \A i \in DOMAIN stack : i \in Nat
      /\ \A i, j \in DOMAIN stack : stack[i].on = stack[j].on => i = j
  BY <1>1 DEF TypeInv, Engines
<1> DEFINE Off == \A i \in DOMAIN stack : stack[i].on = "auto_sync" => ~engine.sync \/ (Closes /\ i = 1)
           Soon == \A k \in DOMAIN todo : todo[k].do = "push" /\ todo[k].on = "auto_sync" =>
                       ~engine.sync \/ (k = 2 /\ todo[1].do = "set_sync")
           Back == Closes /\ stack[1].on = "auto_sync" =>
                       \/ Len(todo) = 1 /\ engine.sync = stack[1].arg.sync
                       \/ Len(todo) = 2 /\ todo[1].do = "set_sync"
<1>0. (SyncInv <=> Off /\ Soon /\ Back) /\ (SyncInv' <=> Off' /\ Soon' /\ Back')
  BY DEF SyncInv
<1>20. Off /\ Soon /\ Back
  BY <1>0 DEF IInv
<1>3. CASE Stands
  <2>1. UNCHANGED <<todo, stack, leaving>> /\ engine'.sync = engine.sync
    BY <1>3 DEF Stands
  <2>2. Closes' <=> Closes
    BY <2>1 DEF Closes
  <2>3. Off' /\ Soon' /\ Back'
    BY <1>20, <2>1, <2>2
  <2> HIDE DEF Off, Soon, Back
  <2> QED  BY <1>0, <2>3
<1>4. ASSUME NEW a, NEW n \in 1 .. 3, Goes(a, n) PROVE SyncInv'
  <2>1. /\ \A k \in DOMAIN todo' : k \in Nat \ {0} /\ k + n \in DOMAIN todo /\ todo'[k] = todo[k + n]
        /\ 1 \in DOMAIN todo /\ Len(todo) \in Nat /\ n >= 1
        /\ Len(todo') = IF n <= Len(todo) THEN Len(todo) - n ELSE 0
        /\ Plain(todo[1]) => n = 1 /\ a.r = "ok"
        /\ Closes => n < Len(todo) /\ Closes'
        /\ Closes' => Closes
    BY <1>1, <1>4, GoesOn
  <2>2. UNCHANGED <<stack, leaving>> /\ engine' = a.e /\ Answered(todo[1], engine, a) /\ todo[1] \in Commands /\ Sends
    BY <1>4 DEF Goes, Sends
  <2>3. \/ engine'.sync = engine.sync
        \/ ~leaving /\ engine'.sync = FALSE
        \/ Closes /\ stack[1].on = "auto_sync" /\ 1 \in DOMAIN stack /\ engine'.sync = stack[1].arg.sync
    BY <1>1, <2>2, SyncSet
  <2>4. Off'
    <3>1. ASSUME NEW i \in DOMAIN stack, stack[i].on = "auto_sync" PROVE ~engine'.sync \/ (Closes' /\ i = 1)
      <4>1. CASE engine'.sync = engine.sync
        BY <1>20, <2>1, <3>1, <4>1
      <4>2. CASE Closes /\ stack[1].on = "auto_sync" /\ 1 \in DOMAIN stack
        <5>1. i = 1
          BY <1>2, <3>1, <4>2
        <5> QED  BY <2>1, <4>2, <5>1
      <4> QED  BY <2>3, <4>1, <4>2
    <3> QED  BY <2>2, <3>1
  <2>5. Soon'
    <3>1. ASSUME NEW k \in DOMAIN todo', todo'[k].do = "push", todo'[k].on = "auto_sync" PROVE ~engine'.sync
      <4>1. k + n \in DOMAIN todo /\ todo[k + n].do = "push" /\ todo[k + n].on = "auto_sync" /\ k \in Nat \ {0}
        BY <2>1, <3>1
      <4>2. ~leaving
        <5>1. leaving => Closes
          BY <2>2 DEF Closes, Sends
        <5>2. ~Closes
          BY <1>1, <4>1 DEF CloseInv, ClosesFrame
        <5> QED  BY <5>1, <5>2
      <4>3. ~Closes
        BY <4>2 DEF Closes
      <4>4. engine'.sync = engine.sync \/ engine'.sync = FALSE
        BY <2>3, <4>3
      <4>5. CASE k + n = 2 /\ todo[1].do = "set_sync"
        <5>1. Plain(todo[1]) /\ todo[1].arg = FALSE
          BY <1>1, <2>1, <2>2, <4>2, <4>5, SyncPlain DEF BodyInv
        <5>2. engine'.sync = FALSE
          BY <2>1, <2>2, <4>5, <5>1 DEF Answered
        <5> QED  BY <5>2
      <4>6. CASE ~engine.sync
        BY <4>4, <4>6
      <4> QED  BY <1>20, <4>1, <4>5, <4>6
    <3> QED  BY <3>1
  <2>6. Back'
    <3>1. ASSUME Closes', stack[1].on = "auto_sync"
          PROVE  Len(todo') = 1 /\ engine'.sync = stack[1].arg.sync
      <4>1. Closes /\ n < Len(todo)
        BY <2>1, <3>1
      <4>2. Len(todo) = 2 /\ todo[1].do = "set_sync"
        <5>1. Len(todo) # 1
          BY <2>1, <4>1
        <5> QED  BY <1>20, <3>1, <4>1, <5>1
      <4>3. n = 1 /\ a.r = "ok"
        BY <2>1, <2>2, <4>2, SyncPlain
      <4>4. Len(todo') = 1
        BY <2>1, <4>2, <4>3
      <4>5. ClosesFrame(todo, stack[1])
        BY <1>1, <4>1 DEF CloseInv
      <4>6. todo[1].arg = stack[1].arg.sync
        BY <2>1, <4>2, <4>5 DEF ClosesFrame
      <4>7. engine'.sync = todo[1].arg
        BY <2>2, <4>2, <4>3 DEF Answered
      <4> QED  BY <4>4, <4>6, <4>7
    <3> QED  BY <2>2, <3>1
  <2> HIDE DEF Off, Soon, Back
  <2> QED  BY <1>0, <2>4, <2>5, <2>6
<1>5. ASSUME NEW x, NEW err, Raise(x, err), ~leaving \/ Closes,
             \/ engine'.sync = engine.sync
             \/ ~leaving /\ engine'.sync = FALSE
             \/ Closes /\ stack[1].on = "auto_sync" /\ 1 \in DOMAIN stack
      PROVE  SyncInv'
  <2>1. /\ todo' = << >> /\ leaving' = TRUE /\ ~Closes' /\ (~leaving => stack' = stack)
        /\ leaving => \A i \in DOMAIN stack' : i \in Nat \ {0} /\ i + 1 \in DOMAIN stack /\ stack'[i] = stack[i + 1]
    BY <1>1, <1>5, RaisedOut
  <2>2. Off'
    <3>1. ASSUME NEW i \in DOMAIN stack', stack'[i].on = "auto_sync" PROVE ~engine'.sync
      <4>1. CASE ~leaving
        <5>1. ~Closes
          BY <4>1 DEF Closes
        <5>2. ~engine.sync
          BY <1>20, <2>1, <3>1, <4>1, <5>1
        <5> QED  BY <1>5, <5>1, <5>2
      <4>2. CASE leaving
        <5>1. i + 1 \in DOMAIN stack /\ stack[i + 1].on = "auto_sync" /\ i + 1 # 1
          BY <2>1, <3>1, <4>2
        <5>2. ~engine.sync
          BY <1>20, <5>1
        <5>3. ~(Closes /\ stack[1].on = "auto_sync" /\ 1 \in DOMAIN stack)
          BY <1>2, <5>1
        <5> QED  BY <1>5, <4>2, <5>2, <5>3
      <4> QED  BY <4>1, <4>2
    <3> QED  BY <3>1
  <2>3. Soon' /\ Back'
    BY <2>1
  <2> HIDE DEF Off, Soon, Back
  <2> QED  BY <1>0, <2>2, <2>3
<1>6. ASSUME NEW a, Raises(a) PROVE SyncInv'
  <2>1. /\ Raise(todo[1].on, Translate(todo[1], a.r)) /\ (~leaving \/ Closes)
        /\ engine' = a.e /\ Answered(todo[1], engine, a) /\ Sends
    BY <1>1, <1>6, CommandRaises DEF Raises
  <2>2. \/ engine'.sync = engine.sync
        \/ ~leaving /\ engine'.sync = FALSE
        \/ Closes /\ stack[1].on = "auto_sync" /\ 1 \in DOMAIN stack
    BY <1>1, <2>1, SyncSet
  <2> QED  BY <1>5, <2>1, <2>2
<1>7. CASE BodyFails
  <2>1. Raise("body", "AssertionError") /\ ~leaving /\ engine' = engine
    BY <1>7 DEF BodyFails, Body
  <2> QED  BY <1>5, <2>1
<1>8. CASE NextItem
  <2>1. /\ ~leaving /\ todo = << >> /\ UNCHANGED <<engine, stack, leaving>>
        /\ \/ \E ctx \in Contexts : Opened(ctx, todo')
           \/ \A k \in DOMAIN todo' : Called(test, Script(test), at, todo', todo'[k])
    BY <1>1, <1>8, NextCommands
  <2>2. ~Closes /\ ~Closes'
    BY <2>1 DEF Closes
  <2>3. Off'
    BY <1>20, <2>1, <2>2
  <2>4. Soon'
    <3>1. ASSUME NEW k \in DOMAIN todo', todo'[k].do = "push", todo'[k].on = "auto_sync"
          PROVE  k = 2 /\ todo'[1].do = "set_sync"
      <4>1. ~Called(test, Script(test), at, todo', todo'[k])
        BY <3>1 DEF Called, Structural
      <4>2. PICK ctx \in Contexts : Opened(ctx, todo')
        BY <2>1, <4>1
      <4>3. ctx = "auto_sync"
        BY <3>1, <4>2 DEF Opened, PushAt
      <4> QED  BY <3>1, <4>2, <4>3 DEF Opened, PushAt
    <3> QED  BY <3>1
  <2>5. Back'
    BY <2>2
  <2> HIDE DEF Off, Soon, Back
  <2> QED  BY <1>0, <2>3, <2>4, <2>5
<1>9. CASE BodyEnds
  <2>1. ~leaving /\ todo = << >> /\ UNCHANGED <<engine, todo, stack>>
    BY <1>9 DEF BodyEnds, Body
  <2>2. ~Closes /\ ~Closes'
    BY <2>1 DEF Closes
  <2>3. Off' /\ Soon' /\ Back'
    BY <1>20, <2>1, <2>2
  <2> HIDE DEF Off, Soon, Back
  <2> QED  BY <1>0, <2>3
<1>10. CASE EnterTry
  <2>1. /\ ~leaving /\ 1 \in DOMAIN todo /\ stack'[1] = todo[1]
        /\ \A j \in DOMAIN todo : todo[j].do = "push" => j = 1
        /\ \A k \in DOMAIN todo' : k \in Nat \ {0} /\ k + 1 \in DOMAIN todo /\ todo'[k] = todo[k + 1]
        /\ \A i \in DOMAIN stack' : i = 1 \/ (i - 1 \in DOMAIN stack /\ i \in Nat /\ stack'[i] = stack[i - 1])
    BY <1>1, <1>10, Entered
  <2>2. UNCHANGED <<engine, leaving>> /\ todo[1].do = "push"
    BY <1>10 DEF EnterTry
  <2>3. ~Closes /\ ~Closes'
    BY <2>1, <2>2 DEF Closes
  <2>4. Off'
    <3>1. ASSUME NEW i \in DOMAIN stack', stack'[i].on = "auto_sync" PROVE ~engine.sync
      <4>1. CASE i = 1
        <5>1. todo[1].on = "auto_sync"
          BY <2>1, <3>1, <4>1
        <5>2. PICK k \in DOMAIN todo : k = 1
          BY <2>1
        <5>3. ~engine.sync \/ k = 2
          BY <1>20, <2>2, <5>1, <5>2
        <5> QED  BY <5>2, <5>3
      <4>2. CASE i # 1
        BY <1>20, <2>1, <2>3, <3>1, <4>2
      <4> QED  BY <4>1, <4>2
    <3> QED  BY <2>2, <3>1
  <2>5. Soon'
    <3>1. ASSUME NEW k \in DOMAIN todo', todo'[k].do = "push" PROVE FALSE
      <4>1. k + 1 = 1 /\ k \in Nat \ {0}
        BY <2>1, <3>1
      <4> QED  BY <4>1
    <3> QED  BY <3>1
  <2>6. Back'
    BY <2>3
  <2> HIDE DEF Off, Soon, Back
  <2> QED  BY <1>0, <2>4, <2>5, <2>6
<1>11. CASE BeginFinally
  <2>1. stack # << >> /\ todo = << >> /\ UNCHANGED <<engine, stack, leaving>> /\ todo' = Closing
    BY <1>11 DEF BeginFinally
  <2>2. Closed(todo', stack[1])
    BY <1>1, <2>1, ClosingOf
  <2>3. ~Closes /\ 1 \in DOMAIN stack
    BY <1>2, <2>1 DEF Closes
  <2>4. Off'
    BY <1>20, <2>1, <2>3
  <2>5. Soon'
    BY <2>2 DEF Closed, ClosesFrame
  <2>6. Back'
    <3>1. ASSUME stack[1].on = "auto_sync" PROVE engine.sync = FALSE
      BY <1>2, <1>20, <2>3, <3>1
    <3> QED  BY <2>1, <2>2, <3>1 DEF Closed
  <2> HIDE DEF Off, Soon, Back
  <2> QED  BY <1>0, <2>4, <2>5, <2>6
<1>12. CASE EndFinally
  <2>1. /\ todo' = << >> /\ ~Closes'
        /\ \A i \in DOMAIN stack' : i \in Nat \ {0} /\ i + 1 \in DOMAIN stack /\ stack'[i] = stack[i + 1]
    BY <1>1, <1>12, Popped
  <2>2. engine' = engine
    BY <1>12 DEF EndFinally
  <2>3. Off'
    <3>1. ASSUME NEW i \in DOMAIN stack', stack'[i].on = "auto_sync" PROVE ~engine.sync
      <4>1. i + 1 \in DOMAIN stack /\ stack[i + 1].on = "auto_sync" /\ i + 1 # 1
        BY <2>1, <3>1
      <4> QED  BY <1>20, <4>1
    <3> QED  BY <2>2, <3>1
  <2>4. Soon' /\ Back'
    BY <2>1
  <2> HIDE DEF Off, Soon, Back
  <2> QED  BY <1>0, <2>3, <2>4
<1> QED  BY <1>1, <1>3, <1>4, <1>6, <1>7, <1>8, <1>9, <1>10, <1>11, <1>12, Steps

\* What is there after an answer was there, or the command adds it.
LEMMA PresentBefore ==
    ASSUME NEW c, NEW e, NEW a, Answered(c, e, a), NEW x \in Things, Present(a.e, x)
    PROVE  Present(e, x) \/ Adds(c, x)
<1>1. CASE x \in Entities /\ x \in a.e.has
  BY <1>1 DEF Answered, Present, Adds
<1>2. CASE x = "temp" /\ a.e.pool = "temp"
  BY <1>2 DEF Answered, Present, Adds
<1>3. CASE x \in Vms /\ ~Gone(a.e, x)
  BY <1>3 DEF Answered, Present, Adds
<1> QED  BY <1>1, <1>2, <1>3 DEF Present

\* Only a command about a VM or the template catches anything.
LEMMA WhatCatches ==
    ASSUME NEW c \in Commands
    PROVE  /\ c.caught # {} => c.on \in Vms \cup {"template"} /\ c.do # "add"
           /\ c.do = "remove_vm" => c.on \in Vms
           /\ c.do = "set_pool" => c.on = "mac_pool"
<1>1. Legal(c) /\ (c.on \notin Vms \cup {"template"} => Plain(c)) /\ (c.do \in {"add"} => Plain(c))
  BY DEF Commands, IsCommand
<1>2. c.do = "remove_vm" => c.on \in Vms
  BY <1>1 DEF Legal, TemplateDos
<1>3. c.do = "set_pool" => c.on = "mac_pool"
  BY <1>1 DEF Legal, VmDos, NicDos, TemplateDos
<1> QED  BY <1>1, <1>2, <1>3 DEF Plain

\* NotFoundError about a VM means that the VM is gone.
LEMMA NotFoundOnly ==
    ASSUME NEW c \in Commands, NEW e, NEW a, Answered(c, e, a), a.r # "ok", Translate(c, a.r) = "NotFoundError",
           c.on \in Vms, c.do # "add"
    PROVE  Gone(a.e, c.on)
<1>1. a.r = "NotFoundError"
  BY DEF Translate
<1>2. e.vm[c.on] = "absent"
  BY <1>1 DEF Answered
<1>3. Gone(e, c.on)
  BY <1>2 DEF Gone
<1> QED  BY <1>3 DEF Answered

\* A thing is not there after the command that removes it, whether it was found or not.
LEMMA RemovedThen ==
    ASSUME NEW c \in Commands, NEW e, NEW a, Answered(c, e, a), NEW x \in Things, Removes(c, x),
           a.r = "ok" \/ Translate(c, a.r) \in c.caught
    PROVE  ~Present(a.e, x)
<1>1. CASE c.do \in {"remove", "remove_if_listed"} /\ c.on = Owner(x) /\ x \in Entities
  <2>1. c.on = x \/ (c.on = "network" /\ x = "assignment")
    BY <1>1 DEF Owner, Entities, Vms
  <2>2. c.on \notin Vms \cup {"template"}
    BY <1>1, <2>1 DEF Entities, Vms
  <2>3. a.r = "ok"
    BY <2>2, WhatCatches
  <2>4. x \notin a.e.has /\ x \notin Vms /\ x # "temp"
    BY <1>1, <2>1, <2>3 DEF Answered, Entities, Vms
  <2> QED  BY <2>4 DEF Present
<1>2. CASE c.do = "set_pool" /\ c.arg = "home" /\ x = "temp"
  <2>1. c.on = "mac_pool"
    BY <1>2, WhatCatches
  <2>2. c.on \notin Vms \cup {"template"}
    BY <2>1 DEF Vms
  <2>3. a.r = "ok"
    BY <2>2, WhatCatches
  <2>4. a.e.pool = "home" /\ x \notin Vms /\ x \notin Entities
    BY <1>2, <2>3 DEF Answered, Entities, Vms
  <2> QED  BY <1>2, <2>4 DEF Present
<1>3. CASE c.do = "remove_vm" /\ c.on = x /\ c.caught = {"NotFoundError"}
  <2>1. x \in Vms /\ x \notin Entities /\ x # "temp"
    <3>1. x \in Vms
      BY <1>3, WhatCatches
    <3> QED  BY <3>1 DEF Vms, Entities
  <2>2. Gone(a.e, x)
    <3>1. CASE a.r = "ok"
      BY <1>3, <3>1 DEF Answered
    <3>2. CASE a.r # "ok"
      BY <1>3, <2>1, <3>2, NotFoundOnly
    <3> QED  BY <3>1, <3>2
  <2> QED  BY <2>1, <2>2 DEF Present
<1> QED  BY <1>1, <1>2, <1>3 DEF Removes

\* While a thing is there, a clause that removes it goes on until it does.
LEMMA ClearsRest ==
    ASSUME TypeInv, CloseInv, Closes, NEW a, NEW n \in 1 .. 3, Goes(a, n), NEW x \in Things, Present(engine', x),
           Clears(todo, x)
    PROVE  Clears(todo', x)
<1>1. /\ \A k \in DOMAIN todo' : k \in Nat \ {0} /\ k + n \in DOMAIN todo /\ todo'[k] = todo[k + n]
      /\ \A k \in DOMAIN todo : k > n => k - n \in DOMAIN todo'
      /\ todo \in Seq(Commands) /\ 1 \in DOMAIN todo
  BY GoesOn DEF TypeInv
<1>2. PICK c \in Commands : c = todo[1]
  BY <1>1
<1>3. /\ Answered(c, engine, a) /\ engine' = a.e
      /\ \/ a.r = "ok" /\ n = c.ok
         \/ a.r # "ok" /\ Translate(c, a.r) \in c.caught /\ n = c.to
  BY <1>2 DEF Goes
<1>4. PICK k \in DOMAIN todo : /\ Removes(todo[k], x)
                               /\ \A j \in 1 .. k : todo[j].on \in Blame(x) /\ (j < k => Reaches(todo[j], x, k - j))
  BY DEF Clears
<1>5. k # 1
  <2>1. ~Removes(c, x)
    BY <1>3, RemovedThen
  <2> QED  BY <1>2, <1>4, <2>1
<1>6. k \in Nat /\ k > 1 /\ 1 \in 1 .. k /\ 1 < k
  BY <1>1, <1>5
<1>7. Reaches(c, x, k - 1)
  <2>1. PICK j \in 1 .. k : j = 1
    BY <1>6
  <2>2. Reaches(todo[j], x, k - j)
    BY <1>4, <1>6, <2>1
  <2> QED  BY <1>2, <2>1, <2>2
<1>8. n <= k - 1
  <2>1. CASE a.r = "ok" /\ n = c.ok
    <3>1. ASSUME c.do = "remove_vm", c.on = x PROVE FALSE
      <4>1. x \in Vms /\ Gone(engine', x)
        BY <1>3, <2>1, <3>1, WhatCatches DEF Answered
      <4>2. x \notin Entities /\ x # "temp"
        BY <4>1 DEF Vms, Entities
      <4> QED  BY <4>1, <4>2 DEF Present
    <3> QED  BY <1>7, <2>1, <3>1 DEF Reaches
  <2>2. CASE a.r # "ok" /\ Translate(c, a.r) \in c.caught /\ n = c.to
    <3>1. ASSUME c.caught = {"NotFoundError"}, c.on = x PROVE FALSE
      <4>1. c.on \in Vms \cup {"template"} /\ c.do # "add"
        BY <3>1, WhatCatches
      <4>2. x # "template"
        BY DEF Things, Entities, Vms
      <4>3. x \in Vms /\ Translate(c, a.r) = "NotFoundError"
        BY <2>2, <3>1, <4>1, <4>2
      <4>4. Gone(engine', x)
        BY <1>3, <2>2, <3>1, <4>1, <4>3, NotFoundOnly
      <4>5. x \notin Entities /\ x # "temp"
        BY <4>3 DEF Vms, Entities
      <4> QED  BY <4>4, <4>5 DEF Present
    <3>2. c.caught # {}
      BY <2>2
    <3> QED  BY <1>7, <2>2, <3>1, <3>2 DEF Reaches
  <2> QED  BY <1>3, <2>1, <2>2
<1>9. PICK m \in Nat : m = k - n /\ m + n = k
  BY <1>6, <1>8
<1>10. m \in DOMAIN todo' /\ todo'[m] = todo[k]
  <2>1. k > n
    BY <1>6, <1>8
  <2>2. m \in DOMAIN todo'
    BY <1>1, <1>4, <1>9, <2>1
  <2> QED  BY <1>1, <1>9, <2>2
<1>11. ASSUME NEW j \in 1 .. m
       PROVE  todo'[j].on \in Blame(x) /\ (j < m => Reaches(todo'[j], x, m - j))
  <2>1. j \in DOMAIN todo'
    <3>1. todo' \in Seq(Commands)
      BY GoesOn
    <3> QED  BY <1>10, <3>1
  <2>2. PICK i \in 1 .. k : i = j + n
    BY <1>6, <1>9
  <2>3. todo'[j] = todo[i]
    BY <1>1, <2>1, <2>2
  <2>4. todo[i].on \in Blame(x) /\ (i < k => Reaches(todo[i], x, k - i))
    BY <1>4
  <2>5. (j < m => i < k) /\ k - i = m - j
    BY <1>6, <1>9, <2>2
  <2> QED  BY <2>3, <2>4, <2>5
<1> QED  BY <1>4, <1>10, <1>11 DEF Clears

LEMMA SameClears == ASSUME test' = test PROVE \A x : Clears(todo, x)' <=> Clears(todo', x)
BY DEF Clears, Removes, Owner

\* Every step keeps what the clause that runs will remove.
LEMMA RemovalStep == IInv /\ [Next]_vars => RemovalInv'
<1> SUFFICES ASSUME IInv, [Next]_vars PROVE RemovalInv'
  OBVIOUS
<1>1. TypeInv /\ ScriptInv /\ BodyInv /\ CloseInv /\ VmInv /\ ToggleInv /\ LeftInv /\ RemovalInv
  BY DEF IInv
<1>2. ASSUME ~Closes' PROVE RemovalInv'
  BY <1>2 DEF RemovalInv
<1>3. CASE Stands
  <2>1. /\ UNCHANGED <<todo, test, stack, leaving, known>> /\ engine'.has = engine.has /\ engine'.pool = engine.pool
        /\ \A v \in Vms : Gone(engine', v) <=> Gone(engine, v)
    BY <1>3 DEF Stands
  <2>2. /\ Closes' <=> Closes
        /\ \A x : Present(engine', x) <=> Present(engine, x)
        /\ \A x : Clears(todo, x)' <=> Clears(todo, x)
    BY <2>1, SameClears DEF Closes, Present
  <2>3. \A x : Owner(x)' = Owner(x)
    BY <2>1, SameOwners
  <2> QED  BY <1>1, <2>1, <2>2, <2>3 DEF RemovalInv
<1>4. ASSUME NEW a, NEW n \in 1 .. 3, Goes(a, n) PROVE RemovalInv'
  <2>1. (Closes' => Closes) /\ (Closes => known' = known) /\ 1 \in DOMAIN todo
    BY <1>1, <1>4, GoesOn
  <2>2. UNCHANGED <<test, stack>> /\ engine' = a.e /\ Answered(todo[1], engine, a)
    BY <1>4 DEF Goes
  <2>3. \A x : (Owner(x)' = Owner(x)) /\ (Clears(todo, x)' <=> Clears(todo', x))
    BY <2>2, SameOwners, SameClears
  <2>4. ASSUME Closes', NEW x \in Things, Present(engine', x), Owner(x) = stack[1].on, x \in Vms => x \in known'
        PROVE  Clears(todo', x)
    <3>1. Closes /\ known' = known /\ ClosesFrame(todo, stack[1])
      BY <1>1, <2>1, <2>4 DEF CloseInv
    <3>2. ~Adds(todo[1], x)
      BY <2>1, <3>1 DEF ClosesFrame
    <3>3. Present(engine, x)
      BY <2>2, <2>4, <3>2, PresentBefore
    <3>4. Clears(todo, x)
      BY <1>1, <2>4, <3>1, <3>3 DEF RemovalInv
    <3> QED  BY <1>1, <1>4, <2>4, <3>1, <3>4, ClearsRest
  <2> QED  BY <2>2, <2>3, <2>4 DEF RemovalInv
<1>5. ASSUME NEW a, Raises(a) PROVE ~Closes'
  <2>1. PICK err : Raise(todo[1].on, err) /\ (~leaving \/ Closes)
    BY <1>1, <1>5, CommandRaises
  <2> QED  BY <1>1, <2>1, RaisedOut
<1>6. ASSUME NextItem \/ EnterTry PROVE ~Closes'
  <2>1. ~leaving
    BY <1>1, <1>6, Entered DEF NextItem, Body
  <2> QED  BY <1>6, <2>1 DEF NextItem, EnterTry, Closes
<1>7. ASSUME BodyFails \/ BodyEnds PROVE ~Closes'
  BY <1>7 DEF BodyFails, BodyEnds, Body, Raise, Closes
<1>8. CASE BeginFinally
  <2>1. stack # << >> /\ UNCHANGED <<engine, test, known, stack, leaving>> /\ todo' = Closing
    BY <1>8 DEF BeginFinally
  <2>2. Closed(todo', stack[1])
    BY <1>1, <2>1, ClosingOf
  <2>3. \A x : (Owner(x)' = Owner(x)) /\ (Clears(todo, x)' <=> Clears(todo', x))
    BY <2>1, SameOwners, SameClears
  <2> QED  BY <2>1, <2>2, <2>3 DEF RemovalInv, Closed
<1>9. ASSUME EndFinally PROVE ~Closes'
  BY <1>1, <1>9, Popped
<1> QED  BY <1>1, <1>2, <1>3, <1>4, <1>5, <1>6, <1>7, <1>8, <1>9, Steps

\* A command that adds a thing is one that the thing may be left by.
LEMMA AddedBy ==
    ASSUME NEW c \in Commands, NEW x \in Things, Adds(c, x)
    PROVE  c.on \in Blame(x)
<1>1. c.on \in Ons
  BY DEF Commands
<1>2. CASE c.do = "add" /\ c.on = x
  BY <1>1, <1>2 DEF Blame, Ons, Vms, Contexts, Entities
<1>3. CASE c.do = "set_pool" /\ x = "temp"
  BY <1>3, WhatCatches DEF Blame
<1> QED  BY <1>2, <1>3 DEF Adds

\* What was left by a failed command stays so.
LEMMA StillBlamed == ASSUME failed \subseteq failed' PROVE \A x : Blamed(x) => Blamed(x)'
BY DEF Blamed, LeftBy

\* A command that fails takes the blame.
LEMMA NewBlame ==
    ASSUME NEW f, NEW err, failed' = failed \cup {<<f, err>>}
    PROVE  \A x : f \in Blame(x) => Blamed(x)'
<1>1. LeftBy(f)'
  <2>1. <<f, err>> \in failed' /\ <<f, err>>[1] = f
    OBVIOUS
  <2> QED  BY <2>1 DEF LeftBy
<1> QED  BY <1>1 DEF Blamed

\* Every step keeps the reason why a thing is there.
LEMMA LeftStep == IInv /\ [Next]_vars => LeftInv'
<1> SUFFICES ASSUME IInv, [Next]_vars PROVE LeftInv'
  OBVIOUS
<1>1. TypeInv /\ ScriptInv /\ BodyInv /\ CloseInv /\ VmInv /\ ToggleInv /\ LeftInv /\ RemovalInv
  BY DEF IInv
<1>2. /\ todo \in Seq(Commands) /\ stack \in Seq(Frames) /\ leaving \in BOOLEAN /\ test \in Tests
      /\ \A i \in DOMAIN stack : i \in Nat \ {0}
  BY <1>1 DEF TypeInv
<1> DEFINE Soon(x) == x \notin Vms /\ todo # << >> /\ todo[1].do = "push" /\ todo[1].on = Owner(x)
           Held(x) == IsOpen(Owner(x)) /\ (x \in Vms => x \in known)
<1>0. /\ \A x \in Things : Present(engine, x) => Blamed(x) \/ Held(x) \/ Soon(x)
      /\ (\A x \in Things : Present(engine', x) => Blamed(x)' \/ Held(x)' \/ Soon(x)') => LeftInv'
  BY <1>1 DEF LeftInv
<1>3. CASE Stands
  <2>1. /\ UNCHANGED <<todo, test, stack, known, failed>> /\ engine'.has = engine.has /\ engine'.pool = engine.pool
        /\ \A v \in Vms : Gone(engine', v) <=> Gone(engine, v)
    BY <1>3 DEF Stands
  <2>2. \A x : Present(engine', x) <=> Present(engine, x)
    BY <2>1 DEF Present
  <2>3. \A x : (Owner(x)' = Owner(x)) /\ (IsOpen(Owner(x))' <=> IsOpen(Owner(x))) /\ (Blamed(x)' <=> Blamed(x))
    BY <2>1, SameOwners, SameFrames DEF IsOpen, Blamed, LeftBy
  <2>4. \A x \in Things : Present(engine', x) => Blamed(x)' \/ Held(x)' \/ Soon(x)'
    BY <1>0, <2>1, <2>2, <2>3
  <2> QED  BY <1>0, <2>4
<1>4. ASSUME NEW a, NEW n \in 1 .. 3, Goes(a, n) PROVE LeftInv'
  <2>1. /\ \A k \in DOMAIN todo' : k \in Nat \ {0} /\ k + n \in DOMAIN todo /\ todo'[k] = todo[k + n]
        /\ \A k \in DOMAIN todo : k > n => k - n \in DOMAIN todo'
        /\ 1 \in DOMAIN todo /\ todo' \in Seq(Commands)
        /\ Plain(todo[1]) => n = 1 /\ a.r = "ok"
        /\ known \subseteq known'
    BY <1>1, <1>4, GoesOn
  <2>2. /\ UNCHANGED <<test, stack, leaving, failed>> /\ engine' = a.e /\ Answered(todo[1], engine, a)
        /\ todo[1] \in Commands /\ todo[1].do \notin Scoping /\ todo # << >>
    BY <1>4 DEF Goes, Sends
  <2>3. \A x : /\ Owner(x)' = Owner(x) /\ (IsOpen(Owner(x))' <=> IsOpen(Owner(x))) /\ (Blamed(x)' <=> Blamed(x))
    BY <2>2, SameOwners, SameFrames DEF IsOpen, Blamed, LeftBy
  <2>4. ASSUME NEW x \in Things, Present(engine', x)
        PROVE  Blamed(x)' \/ Held(x)' \/ Soon(x)'
    <3>1. CASE Present(engine, x)
      <4>1. ~Soon(x)
        BY <2>2 DEF Scoping
      <4>2. Blamed(x) \/ Held(x)
        BY <1>0, <3>1, <4>1
      <4> QED  BY <2>1, <2>3, <4>2
    <3>2. CASE Adds(todo[1], x)
      <4>1. ~leaving
        <5>1. leaving => Closes
          BY <2>2 DEF Closes
        <5>2. ~Closes
          BY <1>1, <2>1, <3>2 DEF CloseInv, ClosesFrame
        <5> QED  BY <5>1, <5>2
      <4>2. PICK k \in DOMAIN todo : k = 1
        BY <2>1
      <4>3. /\ IsOpen(Owner(x)) \/ \E j \in DOMAIN todo : j <= k + 1 /\ todo[j].do = "push" /\ todo[j].on = Owner(x)
            /\ todo[k].on \in Vms /\ todo[k].do = "add" => Len(todo) = 1
        BY <1>1, <3>2, <4>1, <4>2 DEF BodyInv
      <4>4. CASE x \in Vms
        <5>1. todo[1].do = "add" /\ todo[1].on = x
          BY <3>2, <4>4 DEF Adds, Vms
        <5>2. Plain(todo[1])
          BY <2>2, <5>1 DEF Commands, IsCommand
        <5>3. x \in known'
          BY <1>4, <2>1, <4>4, <5>1, <5>2 DEF Goes
        <5>4. Len(todo) = 1
          BY <4>2, <4>3, <4>4, <5>1
        <5>5. \A j \in DOMAIN todo : j = 1
          BY <1>2, <5>4
        <5>6. IsOpen(Owner(x))
          BY <4>3, <5>1, <5>5
        <5> QED  BY <2>3, <5>3, <5>6
      <4>5. CASE x \notin Vms /\ IsOpen(Owner(x))
        BY <2>3, <4>5
      <4>6. ASSUME x \notin Vms, NEW j \in DOMAIN todo, j <= k + 1, todo[j].do = "push", todo[j].on = Owner(x)
            PROVE  Soon(x)'
        <5>1. j # 1
          BY <2>2, <4>6 DEF Scoping
        <5>2. j = 2 /\ k < j
          BY <1>2, <4>2, <4>6, <5>1
        <5>3. Plain(todo[k])
          BY <1>1, <4>1, <4>6, <5>2 DEF BodyInv
        <5>4. n = 1
          BY <2>1, <4>2, <5>3
        <5>5. PICK m \in DOMAIN todo' : m = 1
          <6>1. j > n /\ j - n = 1
            BY <5>2, <5>4
          <6> QED  BY <2>1, <6>1
        <5>6. todo'[m] = todo[j]
          <6>1. m + n = j
            BY <5>2, <5>4, <5>5
          <6> QED  BY <2>1, <6>1
        <5>7. todo' # << >>
          BY <2>1, <5>5
        <5> QED  BY <2>3, <4>6, <5>5, <5>6, <5>7
      <4> QED  BY <4>3, <4>4, <4>5, <4>6
    <3> QED  BY <2>2, <2>4, <3>1, <3>2, PresentBefore
  <2> QED  BY <1>0, <2>4
<1>5. ASSUME NEW f, NEW err, Raise(f, err), test' = test, ~leaving \/ Closes, Closes => f = todo[1].on,
             todo # << >> => todo[1].do # "push",
             \A x \in Things : Present(engine', x) => Present(engine, x) \/ f \in Blame(x)
      PROVE  LeftInv'
  <2>1. /\ known' = known /\ (~leaving => stack' = stack)
        /\ leaving => /\ \A i \in DOMAIN stack' : i \in Nat \ {0} /\ i + 1 \in DOMAIN stack /\ stack'[i] = stack[i + 1]
                      /\ \A i \in DOMAIN stack : i > 1 => i - 1 \in DOMAIN stack'
    BY <1>1, <1>5, RaisedOut
  <2>2. failed' = failed \cup {<<f, err>>} /\ failed \subseteq failed'
    BY <1>5 DEF Raise
  <2>3. \A x : (Owner(x)' = Owner(x)) /\ (Blamed(x) => Blamed(x)') /\ (f \in Blame(x) => Blamed(x)')
    BY <1>5, <2>2, SameOwners, StillBlamed, NewBlame
  <2>4. ASSUME NEW x \in Things, Present(engine', x)
        PROVE  Blamed(x)' \/ Held(x)' \/ Soon(x)'
    <3>1. ~Soon(x)
      BY <1>5
    <3>2. CASE Present(engine, x) /\ Held(x) /\ f \notin Blame(x)
      <4>1. PICK i \in DOMAIN stack : stack[i].on = Owner(x)
        BY <3>2 DEF IsOpen
      <4>2. CASE ~leaving
        <5>1. IsOpen(Owner(x))'
          BY <2>1, <2>3, <4>1, <4>2 DEF IsOpen
        <5> QED  BY <2>1, <3>2, <5>1
      <4>3. CASE leaving
        <5>1. i # 1
          <6>1. ASSUME i = 1 PROVE FALSE
            <7>1. Clears(todo, x)
              BY <1>1, <1>5, <3>2, <4>1, <4>3, <6>1 DEF RemovalInv
            <7>2. PICK k \in DOMAIN todo : \A j \in 1 .. k : todo[j].on \in Blame(x)
              BY <7>1 DEF Clears
            <7>3. 1 \in 1 .. k
              BY <1>2, <7>2
            <7>4. todo[1].on \in Blame(x)
              BY <7>2, <7>3
            <7> QED  BY <1>5, <3>2, <4>3, <7>4
          <6> QED  BY <6>1
        <5>2. PICK j : j = i - 1 /\ i > 1 /\ j + 1 = i
          BY <1>2, <4>1, <5>1
        <5>3. j \in DOMAIN stack' /\ stack'[j] = stack[i]
          BY <2>1, <4>1, <4>3, <5>2
        <5>4. IsOpen(Owner(x))'
          BY <2>3, <4>1, <5>3 DEF IsOpen
        <5> QED  BY <2>1, <3>2, <5>4
      <4> QED  BY <1>2, <4>2, <4>3
    <3> QED  BY <1>0, <1>5, <2>3, <2>4, <3>1, <3>2
  <2> QED  BY <1>0, <2>4
<1>6. ASSUME NEW a, Raises(a) PROVE LeftInv'
  <2>1. /\ Raise(todo[1].on, Translate(todo[1], a.r)) /\ (~leaving \/ Closes) /\ test' = test
        /\ engine' = a.e /\ Answered(todo[1], engine, a) /\ todo[1] \in Commands /\ todo[1].do # "push"
    BY <1>1, <1>6, CommandRaises DEF Raises, Sends, Scoping
  <2>2. \A x \in Things : Present(engine', x) => Present(engine, x) \/ todo[1].on \in Blame(x)
    BY <2>1, PresentBefore, AddedBy
  <2> QED  BY <1>5, <2>1, <2>2
<1>7. CASE BodyFails
  <2>1. Raise("body", "AssertionError") /\ ~leaving /\ engine' = engine /\ test' = test /\ todo = << >>
    BY <1>7 DEF BodyFails, Body
  <2>2. ~Closes
    BY <2>1 DEF Closes
  <2> QED  BY <1>5, <2>1, <2>2
<1>8. CASE NextItem \/ BodyEnds \/ BeginFinally
  <2>1. UNCHANGED <<engine, test, stack, known, failed>> /\ todo = << >>
    BY <1>8 DEF NextItem, BodyEnds, BeginFinally, Body
  <2>2. \A x : (Owner(x)' = Owner(x)) /\ (IsOpen(Owner(x))' <=> IsOpen(Owner(x))) /\ (Blamed(x)' <=> Blamed(x))
    BY <2>1, SameOwners, SameFrames DEF IsOpen, Blamed, LeftBy
  <2>3. \A x \in Things : Present(engine', x) => Blamed(x)' \/ Held(x)' \/ Soon(x)'
    BY <1>0, <2>1, <2>2
  <2> QED  BY <1>0, <2>3
<1>9. CASE EnterTry
  <2>1. \A ctx : IsOpen(ctx)' <=> IsOpen(ctx) \/ ctx = todo[1].on
    BY <1>1, <1>9, Entered
  <2>2. UNCHANGED <<engine, test, known, failed>>
    BY <1>9 DEF EnterTry
  <2>3. \A x : (Owner(x)' = Owner(x)) /\ (Blamed(x)' <=> Blamed(x))
    BY <2>2, SameOwners DEF Blamed, LeftBy
  <2>4. ASSUME NEW x \in Things, Present(engine', x)
        PROVE  Blamed(x)' \/ Held(x)' \/ Soon(x)'
    <3>1. PICK owner : owner = Owner(x)
      OBVIOUS
    <3>2. IsOpen(owner)' <=> IsOpen(owner) \/ owner = todo[1].on
      BY <2>1
    <3>3. IsOpen(Owner(x))' <=> IsOpen(owner)'
      BY <2>3, <3>1 DEF IsOpen
    <3>4. Held(x) \/ Soon(x) => Held(x)'
      BY <2>2, <3>1, <3>2, <3>3
    <3> QED  BY <1>0, <2>2, <2>3, <2>4, <3>4
  <2> QED  BY <1>0, <2>4
<1>10. CASE EndFinally
  <2>1. /\ Closes /\ DOMAIN todo = {1} /\ 1 \in DOMAIN todo
        /\ \A i \in DOMAIN stack' : i \in Nat \ {0} /\ i + 1 \in DOMAIN stack /\ stack'[i] = stack[i + 1]
        /\ \A i \in DOMAIN stack : i > 1 => i - 1 \in DOMAIN stack'
    BY <1>1, <1>10, Popped
  <2>2. UNCHANGED <<engine, test, known, failed>> /\ todo[1].do = "pop"
    BY <1>10 DEF EndFinally
  <2>3. \A x : (Owner(x)' = Owner(x)) /\ (Blamed(x)' <=> Blamed(x))
    BY <2>2, SameOwners DEF Blamed, LeftBy
  <2>4. ASSUME NEW x \in Things, Present(engine', x)
        PROVE  Blamed(x)' \/ Held(x)' \/ Soon(x)'
    <3>1. ~Soon(x)
      BY <2>2
    <3>2. CASE Held(x)
      <4>1. PICK i \in DOMAIN stack : stack[i].on = Owner(x)
        BY <3>2 DEF IsOpen
      <4>2. ASSUME i = 1 PROVE FALSE
        <5>1. Clears(todo, x)
          BY <1>1, <2>1, <2>2, <2>4, <3>2, <4>1, <4>2 DEF RemovalInv
        <5>2. Removes(todo[1], x)
          BY <2>1, <5>1 DEF Clears
        <5> QED  BY <2>2, <5>2 DEF Removes
      <4>3. PICK j : j = i - 1 /\ i > 1 /\ j + 1 = i
        BY <1>2, <4>1, <4>2
      <4>4. j \in DOMAIN stack' /\ stack'[j] = stack[i]
        BY <2>1, <4>1, <4>3
      <4>5. IsOpen(Owner(x))'
        BY <2>3, <4>1, <4>4 DEF IsOpen
      <4> QED  BY <2>2, <3>2, <4>5
    <3> QED  BY <1>0, <2>2, <2>3, <2>4, <3>1, <3>2
  <2> QED  BY <1>0, <2>4
<1> QED  BY <1>1, <1>3, <1>4, <1>6, <1>7, <1>8, <1>9, <1>10, Steps

\* No step reports a VM that is gone as a failure.
LEMMA NotFoundStep == IInv /\ [Next]_vars => NotFoundInv'
<1> SUFFICES ASSUME IInv, [Next]_vars PROVE NotFoundInv'
  OBVIOUS
<1>1. TypeInv /\ BodyInv /\ CloseInv /\ VmInv /\ ScriptInv /\ ToggleInv /\ LeftInv /\ \A v \in Vms : <<v, "NotFoundError">> \notin failed
  BY DEF IInv, NotFoundInv, NotFoundIsSuccess
<1>2. ASSUME failed' = failed PROVE NotFoundInv'
  BY <1>1, <1>2 DEF NotFoundInv, NotFoundIsSuccess
<1>3. ASSUME NEW f, NEW err, Raise(f, err), f \in Vms => err # "NotFoundError" PROVE NotFoundInv'
  <2>1. failed' = failed \cup {<<f, err>>}
    BY <1>3 DEF Raise
  <2>2. \A v \in Vms : <<v, "NotFoundError">> # <<f, err>>
    BY <1>3
  <2> QED  BY <1>1, <2>1, <2>2 DEF NotFoundInv, NotFoundIsSuccess
<1>4. ASSUME NEW a, Raises(a) PROVE NotFoundInv'
  <2>1. PICK err \in Errors : /\ Raise(todo[1].on, err) /\ err \notin todo[1].caught
                              /\ err = "NotFoundError" => a.r = "NotFoundError"
    BY <1>1, <1>4, CommandRaises
  <2>2. Answered(todo[1], engine, a) /\ todo \in Seq(Commands) /\ todo # << >>
    BY <1>1, <1>4 DEF Raises, Sends, TypeInv
  <2>3. ASSUME todo[1].on \in Vms, err = "NotFoundError" PROVE FALSE
    <3>1. engine.vm[todo[1].on] = "absent" /\ todo[1].do # "add"
      BY <2>1, <2>2, <2>3 DEF Answered
    <3>2. Needs(todo[1]) /\ Gone(engine, todo[1].on)
      BY <2>1, <2>3, <3>1 DEF Needs, Gone
    <3>3. 1 \in DOMAIN todo
      BY <2>2
    <3> QED  BY <1>1, <2>3, <3>2, <3>3 DEF VmInv
  <2> QED  BY <1>3, <2>1, <2>3
<1>5. CASE BodyFails
  <2>1. Raise("body", "AssertionError")
    BY <1>5 DEF BodyFails
  <2> QED  BY <1>3, <2>1
<1>6. ASSUME NEW a, NEW n \in 1 .. 3, Goes(a, n) PROVE failed' = failed
  BY <1>6 DEF Goes
<1>7. ASSUME Stands \/ NextItem \/ BodyEnds \/ EnterTry \/ BeginFinally \/ EndFinally PROVE failed' = failed
  BY <1>7 DEF Stands, NextItem, BodyEnds, EnterTry, BeginFinally, EndFinally
<1> QED  BY <1>1, <1>2, <1>4, <1>5, <1>6, <1>7, Steps

\* The invariant is inductive.
LEMMA Invariance == IInv /\ [Next]_vars => IInv'
BY TypeStep, ScriptStep, BodyStep, CloseStep, VmStep, ToggleStep, SyncStep, RemovalStep, LeftStep, NotFoundStep DEF IInv

\* A test begins with nothing of its own in the engine.
LEMMA AtFirst == Init => IInv
<1> SUFFICES ASSUME Init PROVE IInv
  OBVIOUS
<1>1. /\ todo = << >> /\ stack = << >> /\ leaving = FALSE /\ raised = "none" /\ known = {} /\ failed = {} /\ faults = 0
      /\ test \in Tests /\ at = 1
  BY DEF Init
<1>2. /\ engine \in Engines /\ engine.has = {} /\ engine.pool = "home" /\ \A v \in Vms : engine.vm[v] = "absent"
  <2>1. engine \in [has : {{}}, vm : {[v \in Vms |-> "absent"]}, nic : {[v \in Vms |-> NoNic]},
                     snap : {[v \in Vms |-> "none"]}, disk : {"none"}, repo : BOOLEAN, template : {"none", "ok"},
                     moved : {{}}, pool : {"home"}, sync : BOOLEAN, hosts : BOOLEAN, dc : BOOLEAN]
    BY DEF Init
  <2>2. /\ {{}} \subseteq SUBSET Entities /\ {{}} \subseteq SUBSET Vms
        /\ [v \in Vms |-> "absent"] \in [Vms -> VmStates]
        /\ [v \in Vms |-> "none"] \in [Vms -> {"none", "locked", "ok", "previewing", "preview"}]
    BY DEF VmStates
  <2>3. [v \in Vms |-> NoNic] \in [Vms -> Nics]
    <3>1. NoNic \in Nics
      BY DEF NoNic, Nics, Profiles
    <3> QED  BY <3>1
  <2>4. engine \in Engines
    BY <2>1, <2>2, <2>3 DEF Engines, Pools
  <2>5. engine.has = {} /\ engine.pool = "home" /\ engine.vm = [v \in Vms |-> "absent"]
    BY <2>1
  <2> QED  BY <2>4, <2>5
<1>3. ~Closes /\ \A x : ~Pushes(todo, x)
  BY <1>1 DEF Closes, Pushes
<1>4. TypeInv
  <2>1. todo \in Seq(Commands) /\ stack \in Seq(Frames)
    BY <1>1
  <2>4. leaving \in BOOLEAN /\ known \subseteq Vms
    BY <1>1
  <2>5. at \in Nat
    BY <1>1
  <2>2. faults \in 0 .. MaxFaults
    BY <1>1, FaultsAssumption
  <2>3. \A i, j \in DOMAIN stack : stack[i].on = stack[j].on => i = j
    BY <1>1
  <2> QED  BY <1>1, <1>2, <2>1, <2>2, <2>3, <2>4, <2>5 DEF TypeInv
<1>5. ScriptInv
  <2>1. Len(Script(test)) \in Nat
    <3>1. Script(test) \in Seq(Items)
      BY <1>1, ScriptOf
    <3> QED  BY <3>1
  <2> QED  BY <1>1, <2>1 DEF ScriptInv
<1>6. BodyInv
  BY <1>1 DEF BodyInv
<1>7. CloseInv /\ RemovalInv
  BY <1>3 DEF CloseInv, RemovalInv
<1>8. VmInv
  BY <1>1 DEF VmInv
<1>9. ToggleInv
  BY <1>1, <1>3 DEF ToggleInv
<1>10. SyncInv
  BY <1>1, <1>3 DEF SyncInv
<1>11. LeftInv
  BY <1>2 DEF LeftInv, Present, Gone
<1>12. NotFoundInv
  BY <1>1 DEF NotFoundInv, NotFoundIsSuccess
<1> QED  BY <1>4, <1>5, <1>6, <1>7, <1>8, <1>9, <1>10, <1>11, <1>12 DEF IInv

\* The invariant holds in every state of every test.
LEMMA AlwaysInv == Spec => []IInv
<1>1. Init => IInv
  BY AtFirst
<1>2. IInv /\ [Next]_vars => IInv'
  BY Invariance
<1> QED  BY <1>1, <1>2, PTL DEF Spec

-----------------------------------------------------------------------------
(* What follows from the invariant.                                          *)

\* The engine's entities, the frames and the exception are of their kinds, a frame is open once,
\* and the test is inside its script.
THEOREM EngineTypeCorrect == Spec => []TypeOK
<1>1. ASSUME IInv PROVE TypeOK
  <2>1. TypeInv /\ ScriptInv
    BY <1>1 DEF IInv
  <2>2. /\ engine.has \subseteq Entities /\ engine.vm \in [Vms -> VmStates]
        /\ engine.nic \in [Vms -> [profile : {"none", "default", "network", "profile"}, plugged : BOOLEAN]]
        /\ engine.snap \in [Vms -> {"none", "locked", "ok", "previewing", "preview"}]
        /\ engine.disk \in {"none", "locked", "ok", "attached"} /\ engine.pool \in {"home", "temp"}
        /\ engine.repo \in BOOLEAN /\ engine.template \in {"none", "locked", "ok"} /\ engine.moved \subseteq Vms
    BY <2>1 DEF TypeInv, Engines, Nics, Profiles, Pools
  <2>3. \A i \in DOMAIN stack : stack[i].on \in Contexts
    BY <2>1, FrameOf
  <2>4. known \subseteq Vms /\ raised \in Errors \cup {"none"} /\ faults \in 0 .. MaxFaults
        /\ \A i, j \in DOMAIN stack : stack[i].on = stack[j].on => i = j
    BY <2>1 DEF TypeInv
  <2>5. at \in 1 .. Len(Script(test)) + 1
    BY <2>1 DEF ScriptInv
  <2> QED  BY <2>2, <2>3, <2>4, <2>5 DEF TypeOK
<1> QED  BY <1>1, AlwaysInv, PTL

\* The removal of a VM that the first, unanswered removal has taken already is never reported as a
\* failure (Vm.remove tries once more, and takes that nothing is found for success).
THEOREM MissingIsRemoved == Spec => []NotFoundIsSuccess
<1>1. IInv => NotFoundIsSuccess
  BY DEF IInv, NotFoundInv
<1> QED  BY <1>1, AlwaysInv, PTL

\* What a test leaves in the engine, whatever the engine answered and wherever an exception was
\* raised, it leaves because a command about that very thing failed.
THEOREM LeftByOwnFailure == Spec => []LeftOnlyByOwnFailure
<1>1. ASSUME IInv PROVE LeftOnlyByOwnFailure
  <2> SUFFICES ASSUME Over
               PROVE  /\ \A x \in engine.has : LeftBy(x) \/ (x = "assignment" /\ LeftBy("network"))
                      /\ engine.pool = "temp" => LeftBy("mac_pool")
                      /\ \A i \in DOMAIN Pool : ~Gone(engine, Pool[i]) => \E j \in DOMAIN Pool : j >= i /\ LeftBy(Pool[j])
    BY DEF LeftOnlyByOwnFailure
  <2>1. LeftInv /\ TypeInv /\ todo = << >> /\ stack = << >>
    BY <1>1 DEF IInv, Over
  <2>2. \A x : ~IsOpen(x)
    BY <2>1 DEF IsOpen
  <2>3. \A x \in Things : Present(engine, x) => \E y \in Blame(x) : LeftBy(y)
    BY <2>1, <2>2 DEF LeftInv, Blamed
  <2>4. ASSUME NEW x \in engine.has PROVE LeftBy(x) \/ (x = "assignment" /\ LeftBy("network"))
    <3>1. x \in Entities
      BY <2>1 DEF TypeInv, Engines
    <3>2. x \in Things /\ Present(engine, x)
      BY <3>1 DEF Things, Present
    <3>3. PICK y \in Blame(x) : LeftBy(y)
      BY <2>3, <3>2
    <3>4. y = x \/ (x = "assignment" /\ y = "network")
      BY <3>1, <3>3 DEF Blame, Entities
    <3> QED  BY <3>3, <3>4
  <2>5. ASSUME engine.pool = "temp" PROVE LeftBy("mac_pool")
    <3>1. "temp" \in Things /\ Present(engine, "temp") /\ Blame("temp") = {"mac_pool"}
      BY <2>5 DEF Things, Present, Blame
    <3> QED  BY <2>3, <3>1
  <2>6. \A v \in Vms : ~Gone(engine, v) => \E y \in Blame(v) : LeftBy(y)
    BY <2>3 DEF Things, Present
  <2>7. ASSUME NEW i \in DOMAIN Pool, ~Gone(engine, Pool[i])
        PROVE  \E j \in DOMAIN Pool : j >= i /\ LeftBy(Pool[j])
    <3>1. /\ DOMAIN Pool = {1, 2} /\ Pool[1] = "v1" /\ Pool[2] = "v2"
          /\ Blame("v1") = {"v1", "v2"} /\ Blame("v2") = {"v2"} /\ Vms = {"v1", "v2"}
      BY DEF Pool, Blame, Vms
    <3>2. PICK y \in Blame(Pool[i]) : LeftBy(y)
      BY <2>6, <2>7, <3>1
    <3>3. CASE y = "v2"
      BY <2>7, <3>1, <3>2, <3>3
    <3>4. CASE y = "v1" /\ i = 1
      BY <2>7, <3>1, <3>2, <3>4
    <3> QED  BY <2>7, <3>1, <3>2, <3>3, <3>4
  <2> QED  BY <2>4, <2>5, <2>7
<1> QED  BY <1>1, AlwaysInv, PTL

\* A finally clause that runs to its end leaves what its context owns as it was before the `with`.
LEMMA ClauseRestores ==
    ASSUME IInv, EndFinally
    PROVE  View(stack[1].on, engine', known) = stack[1].arg.view
<1>1. TypeInv /\ ScriptInv /\ BodyInv /\ CloseInv /\ ToggleInv /\ SyncInv /\ RemovalInv
  BY DEF IInv
<1>2. /\ Closes /\ Len(todo) = 1 /\ DOMAIN todo = {1} /\ stack # << >> /\ engine' = engine /\ todo[1].do = "pop"
  BY <1>1, Popped DEF EndFinally
<1>3. PICK ctx, was : ctx = stack[1].on /\ was = stack[1].arg
  OBVIOUS
<1>4. ctx \in Contexts /\ Remembers(ctx, was) /\ 1 \in DOMAIN stack
  <2>1. PICK i \in DOMAIN stack : i = 1
    BY <1>1, <1>2 DEF TypeInv
  <2> QED  BY <1>1, <1>3, <2>1, FrameOf
<1>5. \A x \in Things : Owner(x) = ctx /\ (x \in Vms => x \in known) => ~Present(engine, x)
  <2>1. \A x : ~Clears(todo, x)
    BY <1>2 DEF Clears, Removes
  <2> QED  BY <1>1, <1>2, <1>3, <2>1 DEF RemovalInv
<1>6. ASSUME ctx \in Entities PROVE ctx \notin engine.has
  <2>1. ctx = "assignment" => test # "ovn"
    <3>1. PICK j \in 1 .. at - 1 : Script(test)[j] = With(ctx)
      BY <1>1, <1>3, <1>4 DEF ScriptInv
    <3>2. test \in Tests /\ Script(test) \in Seq(Items) /\ at \in 1 .. Len(Script(test)) + 1
      BY <1>1, ScriptOf DEF TypeInv, ScriptInv
    <3>3. j \in DOMAIN Script(test)
      BY <3>2
    <3> QED  BY <3>1, <3>2, <3>3, ItemAt
  <2>2. Owner(ctx) = ctx /\ ctx \in Things /\ ctx \notin Vms
    BY <1>6, <2>1 DEF Owner, Things, Entities, Vms
  <2> QED  BY <1>5, <1>6, <2>2 DEF Present
<1>7. CASE ctx \in Entities \ {"mac_pool"}
  <2>1. (ctx \in engine.has) = FALSE
    BY <1>6, <1>7
  <2>2. View(ctx, engine, known) = (ctx \in engine.has)
    BY <1>7 DEF View, Entities
  <2>3. was.view = FALSE
    BY <1>4, <1>7 DEF Remembers
  <2> QED  BY <1>2, <1>3, <2>1, <2>2, <2>3
<1>8. CASE ctx = "mac_pool"
  <2>1. "mac_pool" \notin engine.has
    BY <1>6, <1>8 DEF Entities
  <2>2. engine.pool = "home"
    <3>1. "temp" \in Things /\ Owner("temp") = "mac_pool" /\ "temp" \notin Vms
      BY DEF Things, Owner, Vms
    <3>2. engine.pool # "temp"
      BY <1>5, <1>8, <3>1 DEF Present
    <3>3. engine.pool \in {"home", "temp"}
      BY <1>1 DEF TypeInv, Engines, Pools
    <3> QED  BY <3>2, <3>3
  <2>3. View(ctx, engine, known) = <<"mac_pool" \in engine.has, engine.pool>>
    BY <1>8 DEF View, Entities
  <2>4. was.view = <<FALSE, "home">>
    BY <1>4, <1>8 DEF Remembers
  <2>5. ("mac_pool" \in engine.has) = FALSE
    BY <2>1
  <2> QED  BY <1>2, <1>3, <2>2, <2>3, <2>4, <2>5
<1>9. CASE ctx = "vm_pool"
  <2>1. \A v \in known : Gone(engine, v)
    <3>1. \A v \in known : v \in Vms /\ v \in Things /\ Owner(v) = "vm_pool"
      BY <1>1 DEF TypeInv, Things, Owner, Vms
    <3> QED  BY <1>5, <1>9, <3>1 DEF Present
  <2>2. View(ctx, engine, known) = {v \in known : ~Gone(engine, v)}
    BY <1>9 DEF View, Entities
  <2>3. was.view = {}
    BY <1>4, <1>9 DEF Remembers, Entities
  <2>4. {v \in known : ~Gone(engine, v)} = {}
    BY <2>1
  <2> QED  BY <1>2, <1>3, <2>2, <2>3, <2>4
<1>10. CASE ctx = "toggle"
  <2>1. Toggled(todo)
    BY <1>1, <1>2, <1>3, <1>10 DEF ToggleInv
  <2>2. engine.nic["v1"] = GivenNic
    BY <1>2, <2>1 DEF Toggled
  <2>3. View(ctx, engine, known) = engine.nic["v1"]
    BY <1>10 DEF View, Entities
  <2>4. was.view = GivenNic
    BY <1>4, <1>10 DEF Remembers, Entities
  <2> QED  BY <1>2, <1>3, <2>2, <2>3, <2>4
<1>11. CASE ctx = "auto_sync"
  <2>1. engine.sync = was.sync
    BY <1>1, <1>2, <1>3, <1>11 DEF SyncInv
  <2>2. View(ctx, engine, known) = engine.sync
    BY <1>11 DEF View, Entities
  <2>3. was.view = was.sync
    BY <1>4, <1>11 DEF Remembers, Entities
  <2> QED  BY <1>2, <1>3, <2>1, <2>2, <2>3
<1> QED  BY <1>4, <1>7, <1>8, <1>9, <1>10, <1>11 DEF Contexts

\* The finally clause of a context (mac_pool, vm_pool, toggle, disable_auto_sync, or one of an entity)
\* that runs to its end leaves what the context owns as it was when the `with` statement began.
THEOREM ContextsRestore == Spec => ExitRestores
<1>1. IInv /\ [Next]_vars => [EndFinally => View(stack[1].on, engine', known) = stack[1].arg.view]_vars
  BY ClauseRestores
<1> QED  BY <1>1, AlwaysInv, PTL DEF Spec, ExitRestores
=============================================================================
