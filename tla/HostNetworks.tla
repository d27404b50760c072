---------------------------- MODULE HostNetworks ----------------------------
(***************************************************************************)
(* The networks of the hosts: how hostlib and network_utils_v4 attach and  *)
(* remove them, what the tests leave on a host, and an engine that works   *)
(* on a host while the library decides what to ask of it.                  *)
(*                                                                         *)
(* A call reads the host, composes one request from what it read, and      *)
(* sends it.  In between, and behind an answer that was lost, the engine   *)
(* changes the host.  Below version 4.4 a busy host answers "conflict" and *)
(* the call is made once more; an error of that second attempt is returned, *)
(* as if it were a result.  Later engines queue what comes.                *)
(***************************************************************************)
EXTENDS Naturals, Sequences

CONSTANTS MaxTests,     \* tests in a session
          MaxFaults,    \* answers lost and calls timed out
          MaxLabels     \* attachments the engine makes by network label

ASSUME BoundsAssumption == MaxTests \in Nat /\ MaxFaults \in Nat /\ MaxLabels \in Nat

VARIABLES old,          \* a suite below 4.4
          host,         \* what each host has
          pending,      \* what the engine is doing to each host, or Nothing
          run,          \* the test: its items to come, open contexts, commands
          req,          \* the request composed and not answered yet, or Nothing
          again,        \* the call is made a second time, behind a conflict
          result,       \* what the last call returned: "ok" or "error"
          late,         \* networks a host got since `req` was composed
          excused,      \* networks some failed command or the engine answers for
          tests, faults, labels

vars == <<old, host, pending, run, req, again, result, late, excused, tests, faults, labels>>

Hosts == {"h0", "h1"}
Nets == {"mgmt", "a", "b"}
Bond == "bond0"                       \* in `excused`, next to the networks
Clean == [on |-> {"mgmt"}, bonded |-> {}, bond |-> FALSE, stale |-> {}]
HostConfigs == [on : SUBSET Nets, bonded : SUBSET Nets, bond : BOOLEAN, stale : SUBSET Nets]

\* engine: one setup_networks request; `bonded` are the attachments that name the bond
Requests == [set : SUBSET Nets, bonded : SUBSET Nets, addBond : BOOLEAN,
             drop : SUBSET Nets, dropBond : BOOLEAN, sync : BOOLEAN]
Nothing == [set |-> {}, bonded |-> {}, addBond |-> FALSE,
            drop |-> {}, dropBond |-> FALSE, sync |-> FALSE, none |-> TRUE]
Empty == [set |-> {}, bonded |-> {}, addBond |-> FALSE,
          drop |-> {}, dropBond |-> FALSE, sync |-> FALSE]

-----------------------------------------------------------------------------
(* Commands and tests.  nets and bonded are NetworkAttachmentData, bond is  *)
(* BondingData.                                                             *)

Data(nets, bonded, bond) == [nets |-> nets, bonded |-> bonded, bond |-> bond]
ToBonds(data) == IF data.bond THEN {Bond} ELSE {}
Cmd(do, h, data) == [do |-> do, host |-> h, data |-> data, swallow |-> FALSE]
NoData == Data({}, {}, FALSE)

SetupNetworks(h, data) == Cmd("setup", h, data)
RemoveNetworks(h, nets) == Cmd("remove_networks", h, Data(nets, {}, FALSE))
RemoveAttachments(h, data) == Cmd("remove_attachments", h, data)
CleanBondsFirstMut(h) == <<Cmd("clean_bonds", h, NoData), Cmd("clean_networks", h, NoData)>>
CleanAllNetworking(h) == <<Cmd("clean_networks", h, NoData), Cmd("clean_bonds", h, NoData)>>

\* a test is a list of items: a call, or a `with`: a call whose `undo` follows if it returned
Call(c) == [cmds |-> <<c>>, undo |-> << >>]
With(c, undo) == [cmds |-> <<c>>, undo |-> undo]
SetupContext(h, data) == With(SetupNetworks(h, data), <<RemoveAttachments(h, data)>>)
SetupDestinationHost(h, data) == With(SetupNetworks(h, data), CleanAllNetworking(h))
NetFixture(h, net) == With(SetupNetworks(h, Data({net}, {}, FALSE)), <<RemoveNetworks(h, {net})>>)
UnsyncedHostNetwork(h, net) ==
    With(Cmd("mtu", h, Data({net}, {}, FALSE)), <<Cmd("mtu_back", h, Data({net}, {}, FALSE))>>)

\* remove_net_from_hosts: on the way out and in the except clause alike, errors swallowed
RemoveNetFromHosts(net) ==
    LET removal(h) == [RemoveNetworks(h, {net}) EXCEPT !.swallow = TRUE]
    IN [cmds |-> << >>, undo |-> <<removal("h0"), removal("h1")>>]

OneNet == Data({"a"}, {}, FALSE)
Plain == Data({"a", "b"}, {}, FALSE)
Bonded == Data({"a", "b"}, {"b"}, TRUE)
Configs == {NoData, OneNet, Plain, Bonded}

MigrationTest == <<NetFixture("h0", "a"), NetFixture("h1", "a")>>
ContextTest == <<SetupContext("h0", OneNet)>>
BondTest == <<SetupContext("h0", Data({}, {}, TRUE))>>
CopyTest(src, dest) ==
    <<SetupContext("h0", src), SetupDestinationHost("h1", dest), Call(Cmd("copy", "h1", NoData)),
      Call(Cmd("compare", "h1", NoData))>>
RequiredTest == <<RemoveNetFromHosts("a"), Call(SetupNetworks("h0", OneNet)),
                  Call(SetupNetworks("h1", OneNet)), Call(RemoveNetworks("h1", {"a"}))>>
SyncTest == <<SetupContext("h0", OneNet), UnsyncedHostNetwork("h0", "a"),
              SetupContext("h1", OneNet), UnsyncedHostNetwork("h1", "a"),
              Call(Cmd("sync_all", "cluster", NoData)),
              Call(Cmd("wait_in_sync", "h0", NoData)), Call(Cmd("wait_in_sync", "h1", NoData))>>
BasicTest == <<Call(Cmd("attach", "h0", Bonded)), Call(Cmd("modify", "h0", OneNet)),
               Call(Cmd("detach", "h0", OneNet)), Call(Cmd("detach", "h0", Data({"b"}, {}, TRUE)))>>

\* the tests of bonds and of copying are skipped below 4.4; the basic suite is of later versions
Scripts == {MigrationTest, ContextTest, RequiredTest, SyncTest}
           \cup IF old THEN {} ELSE {BondTest, BasicTest} \cup {CopyTest(s, d) : s, d \in Configs}

-----------------------------------------------------------------------------
(* What a call asks for, from what it reads of its host.                    *)

MgmtNetwork == "mgmt"
ComplementaryEmptyMut(data, cfg) == IF data.nets = {} THEN {} ELSE cfg.on \ (data.nets \cup {MgmtNetwork})
ComplementaryNoMgmtMut(data, cfg) == cfg.on \ data.nets
ComplementaryNetAttachments(data, cfg) == cfg.on \ (data.nets \cup {MgmtNetwork})
ExistingAttachments(nets, cfg) == cfg.on \cap nets

\* None where an attachment that the call looks up is not there (IndexError, StopIteration)
Readable(c, cfg) ==
    /\ c.do \in {"setup", "clean_networks"} => MgmtNetwork \in cfg.on
    /\ c.do \in {"modify", "detach"} => c.data.nets \subseteq cfg.on

SetRequest(data, drop) == [Empty EXCEPT !.set = data.nets, !.bonded = data.bonded,
                                        !.addBond = ToBonds(data) # {}, !.drop = drop]
DropRequest(nets, bonds) == [Empty EXCEPT !.drop = nets, !.dropBond = bonds # {}]
Bonds(cfg) == IF cfg.bond THEN {Bond} ELSE {}
NicsByName(names, cfg) == Bonds(cfg) \cap names

Request(c, cfg) ==
    CASE c.do = "setup" -> SetRequest(c.data, ComplementaryNetAttachments(c.data, cfg))
      [] c.do = "remove_networks" -> DropRequest(ExistingAttachments(c.data.nets, cfg), {})
      [] c.do \in {"remove_attachments", "detach"} -> DropRequest(c.data.nets, NicsByName(ToBonds(c.data), cfg))
      [] c.do = "clean_networks" -> DropRequest(cfg.on \ {MgmtNetwork}, {})
      [] c.do = "clean_bonds" -> DropRequest({}, Bonds(cfg))
      [] c.do \in {"attach", "modify"} -> SetRequest(c.data, {})
      [] c.do \in {"sync_all", "copy"} -> Empty

-----------------------------------------------------------------------------
(* The engine.                                                              *)

Refuses(r, cfg) ==
    \/ MgmtNetwork \in r.drop
    \/ ~(r.drop \subseteq cfg.on)
    \/ r.set \cap cfg.on \cap cfg.stale # {}         \* modifying an out-of-sync network
    \/ r.dropBond /\ ~(cfg.bonded \subseteq r.drop)
    \/ r.bonded # {} /\ ~(cfg.bond \/ r.addBond)

Applied(r, cfg) ==
    [on |-> (cfg.on \ r.drop) \cup r.set,
     bonded |-> (cfg.bonded \ (r.drop \cup r.set)) \cup r.bonded,
     bond |-> (cfg.bond \/ r.addBond) /\ ~r.dropBond,
     stale |-> IF r.sync THEN {} ELSE cfg.stale \ (r.drop \cup r.set)]

\* copy_host_networks is a request too: everything but the management network as on the source
CopyRequest == [Empty EXCEPT !.set = host["h0"].on \ {MgmtNetwork}, !.bonded = host["h0"].bonded,
                             !.addBond = host["h0"].bond,
                             !.drop = host["h1"].on \ (host["h0"].on \cup {MgmtNetwork}),
                             !.dropBond = host["h1"].bond /\ ~host["h0"].bond]
SyncRequest == [Empty EXCEPT !.sync = TRUE]

Busy(h) == pending[h] # Nothing
BusyFor(c) == \E h \in Hosts : c.host \in {h, "cluster"} /\ Busy(h)
Gains(r) == r.set \cup IF r.addBond THEN {Bond} ELSE {}
Present(cfg) == cfg.on \cup Bonds(cfg)

\* host h gets the effect of r; forget the excuses for what is neither there nor coming
Effect(h, r, alsoPending, blame) ==
    LET cfg == IF Refuses(r, host[h]) THEN host[h] ELSE Applied(r, host[h]) IN
    /\ host' = [host EXCEPT ![h] = cfg]
    /\ pending' = [pending EXCEPT ![h] = alsoPending]
    /\ late' = [late EXCEPT ![h] = @ \cup (cfg.on \ host[h].on)]
    /\ excused' = [excused EXCEPT ![h] = (@ \cup blame) \cap (Present(cfg) \cup Gains(alsoPending))]

\* the engine ends what it was doing to a host
Finish(h) ==
    /\ Busy(h)
    /\ Effect(h, pending[h], Nothing, {})
    /\ UNCHANGED <<old, run, req, again, result, tests, faults, labels>>

\* a labelled network gets attached to the labelled nic
AttachByLabel(h) ==
    /\ labels < MaxLabels
    /\ ~Busy(h)
    /\ labels' = labels + 1
    /\ Effect(h, Empty, [Empty EXCEPT !.set = {"b"}], {"b"})
    /\ UNCHANGED <<old, run, req, again, result, tests, faults>>

-----------------------------------------------------------------------------
(* The test.  `run.cmds` are the commands under way, `run.undo` what to     *)
(* push once they are done, `run.stack` the open contexts.                  *)

Idle == [items |-> << >>, cmds |-> << >>, undo |-> << >>, stack |-> << >>, leaving |-> FALSE]
Running == run # Idle
Current == Head(run.cmds)

NextTest ==
    /\ ~Running
    /\ tests < MaxTests
    /\ \E script \in Scripts :
         /\ script = BasicTest => tests = 0           \* a deployment of its own
         /\ run' = [Idle EXCEPT !.items = script]
         /\ tests' = IF script = BasicTest THEN MaxTests ELSE tests + 1
    /\ UNCHANGED <<old, host, pending, req, again, result, late, excused, faults, labels>>

\* the next item, or the way out through the innermost context
Proceed ==
    /\ Running
    /\ run.cmds = << >>
    /\ run' =
        CASE run.undo # << >> -> [run EXCEPT !.undo = << >>, !.stack = <<run.undo>> \o @]
          [] run.undo = << >> /\ ~run.leaving /\ run.items # << >> ->
                 [run EXCEPT !.items = Tail(@), !.cmds = Head(run.items).cmds, !.undo = Head(run.items).undo]
          [] run.undo = << >> /\ (run.leaving \/ run.items = << >>) /\ run.stack # << >> ->
                 [run EXCEPT !.leaving = TRUE, !.cmds = Head(run.stack), !.stack = Tail(@)]
          [] OTHER -> Idle
    /\ UNCHANGED <<old, host, pending, req, again, result, late, excused, tests, faults, labels>>

Returned == run' = [run EXCEPT !.cmds = Tail(@)]
RaisedInTryMut == run' = [run EXCEPT !.cmds = << >>, !.leaving = TRUE]
Raised == run' = IF Current.swallow THEN [run EXCEPT !.cmds = Tail(@)]
                 ELSE [run EXCEPT !.cmds = << >>, !.undo = << >>, !.leaving = TRUE]

\* Both say how a request ends.  sync raises the error of a first attempt; the success
\* criterion of a second one is true of anything, so that its error is what the call returns.
Succeeds == Returned /\ again' = FALSE /\ result' = "ok"
Fails ==
    /\ again' = FALSE
    /\ IF again THEN Returned /\ result' = "error" ELSE Raised /\ UNCHANGED result

\* what stays behind if this command fails for good
Answerable(c) ==
    CASE c.do \in {"setup", "mtu", "mtu_back"} -> {}
      [] c.do \in {"attach", "modify", "detach"} -> Nets \cup {Bond}   \* no way back in the basic suite
      [] c.do = "clean_networks" -> Nets \cup {Bond}     \* clean_bonds is not reached
      [] c.do = "clean_bonds" -> {Bond}
      [] OTHER -> c.data.nets \cup ToBonds(c.data)
Blamed(c) == [excused EXCEPT ![c.host] = (@ \cup Answerable(c)) \cap (Present(host[c.host]) \cup Gains(pending[c.host]))]

IsRequest(c) == c.do \notin {"mtu", "mtu_back", "wait_in_sync", "compare"}
Waiting == run.cmds # << >> /\ IsRequest(Current) /\ req = Nothing
Asked == req # Nothing

\* the reads of the call, up to the point where its request is ready to go
Compose ==
    /\ Waiting
    /\ LET cfg == IF Current.host = "cluster" THEN Clean ELSE host[Current.host] IN
       IF Readable(Current, cfg)
       THEN /\ req' = Request(Current, cfg)
            /\ late' = [h \in Hosts |-> {}]
            /\ UNCHANGED <<run, again, result, excused>>
       ELSE /\ Fails
            /\ excused' = Blamed(Current)
            /\ UNCHANGED <<req, late>>
    /\ UNCHANGED <<old, host, pending, tests, faults, labels>>

\* retry_below_version goes around the calls that read the host, and around the one request
\* that remove_networks and remove_attachments have composed before.
Rereads(c) == c.do \in {"setup", "clean_networks", "clean_bonds"}
Retried(c) == old /\ (Rereads(c) \/ c.do \in {"remove_networks", "remove_attachments"})

\* a first attempt that took SETUP_NETWORKS_TIMEOUT is not followed by another
Repeat ==
    /\ Retried(Current) /\ ~again
    /\ again' = TRUE
    /\ req' = IF Rereads(Current) THEN Nothing ELSE req
    /\ UNCHANGED <<run, result, excused, faults>>
Conflict ==
    /\ Asked /\ old /\ BusyFor(Current)
    /\ \/ Repeat
       \/ LET timeout == Retried(Current) /\ ~again IN
          /\ timeout => faults < MaxFaults
          /\ faults' = IF timeout THEN faults + 1 ELSE faults
          /\ req' = Nothing
          /\ Fails
          /\ excused' = IF Current.host = "cluster" THEN excused ELSE Blamed(Current)
    /\ UNCHANGED <<old, host, pending, late, tests, labels>>

Refused ==
    /\ Asked /\ ~BusyFor(Current)
    /\ Current.host \in Hosts
    /\ Refuses(req, host[Current.host])
    /\ req' = Nothing
    /\ Fails
    /\ excused' = Blamed(Current)
    /\ UNCHANGED <<old, host, pending, late, tests, faults, labels>>

Effective == IF Current.do = "copy" THEN CopyRequest ELSE req

Accepted ==
    /\ Asked /\ ~BusyFor(Current)
    /\ Current.host \in Hosts
    /\ ~Refuses(req, host[Current.host])
    /\ req' = Nothing
    /\ Effect(Current.host, Effective, Nothing, {})
    /\ Succeeds
    /\ UNCHANGED <<old, tests, faults, labels>>

\* the call fails, whatever the engine makes of the request, and whenever it does
AnswerLost ==
    /\ Asked /\ ~BusyFor(Current)
    /\ Current.host \in Hosts
    /\ faults < MaxFaults
    /\ faults' = faults + 1
    /\ req' = Nothing
    /\ LET blame == Answerable(Current) \cup Gains(Effective) IN
       \/ Effect(Current.host, Effective, Nothing, blame)
       \/ Effect(Current.host, Empty, Effective, blame)
    /\ Fails
    /\ UNCHANGED <<old, tests, labels>>

\* Cluster.sync_all_networks: the engine goes on behind its answer
SyncAccepted ==
    /\ Asked /\ ~BusyFor(Current)
    /\ Current.host = "cluster"
    /\ req' = Nothing
    /\ pending' = [h \in Hosts |-> SyncRequest]
    /\ Succeeds
    /\ UNCHANGED <<old, host, late, excused, tests, faults, labels>>

\* the MTU of the nic changes under the network; back, with the refresh of the capabilities.
\* Either may fail, before the engine sees the change or behind it.
SetMtu ==
    /\ run.cmds # << >> /\ Current.do \in {"mtu", "mtu_back"}
    /\ LET changed == [host EXCEPT ![Current.host].stale =
                          IF Current.do = "mtu" THEN @ \cup (Current.data.nets \cap host[Current.host].on)
                                                ELSE @ \ Current.data.nets] IN
       \/ host' = changed /\ Returned /\ UNCHANGED faults
       \/ /\ faults < MaxFaults
          /\ faults' = faults + 1
          /\ host' \in {host, changed}
          /\ Raised
    /\ UNCHANGED <<old, pending, req, again, result, late, excused, tests, labels>>

NetworksInSync(h) == host[h].on \cap host[h].stale = {}
WaitForNetworksInSync ==
    /\ run.cmds # << >> /\ Current.do = "wait_in_sync"
    /\ \/ /\ NetworksInSync(Current.host)
          /\ Returned
          /\ UNCHANGED faults
       \/ /\ faults < MaxFaults
          /\ faults' = faults + 1
          /\ Raised
    /\ UNCHANGED <<old, host, pending, req, again, result, late, excused, tests, labels>>

\* the nics but the management one, in the order of their names, with their networks;
\* zip ends with the shorter list
SortedNicsWithoutMgmt(cfg) ==
    (IF cfg.bond THEN <<cfg.bonded>> ELSE << >>)
        \o <<(cfg.on \ cfg.bonded) \cap {"a"}, (cfg.on \ cfg.bonded) \cap {"b"}>>
CompareNicsExceptMgmt(one, other) ==
    LET nics == SortedNicsWithoutMgmt(one)
        others == SortedNicsWithoutMgmt(other)
    IN \A i \in DOMAIN nics \cap DOMAIN others : nics[i] = others[i]
Compare ==
    /\ run.cmds # << >> /\ Current.do = "compare"
    /\ IF CompareNicsExceptMgmt(host["h0"], host["h1"]) THEN Returned ELSE Raised
    /\ UNCHANGED <<old, host, pending, req, again, result, late, excused, tests, faults, labels>>

Terminated ==
    /\ ~Running /\ tests = MaxTests /\ \A h \in Hosts : ~Busy(h)
    /\ UNCHANGED vars

Init ==
    /\ old \in BOOLEAN
    /\ host = [h \in Hosts |-> Clean]
    /\ pending = [h \in Hosts |-> Nothing]
    /\ run = Idle
    /\ req = Nothing /\ again = FALSE /\ result = "ok"
    /\ late = [h \in Hosts |-> {}]
    /\ excused = [h \in Hosts |-> {}]
    /\ tests = 0 /\ faults = 0 /\ labels = 0

Next ==
    \/ NextTest \/ Proceed \/ Compose \/ Conflict \/ Refused \/ Accepted \/ AnswerLost
    \/ SyncAccepted \/ SetMtu \/ WaitForNetworksInSync \/ Compare
    \/ \E h \in Hosts : Finish(h) \/ AttachByLabel(h)
    \/ Terminated

Spec == Init /\ [][Next]_vars

-----------------------------------------------------------------------------
(* Properties.                                                              *)

\* The shape of the state; a bond with networks on it is there; a context whose
\* setup raised was never entered, so that nothing is undone for it; only a suite below
\* 4.4 makes a call again.
TypeOK ==
    /\ old \in BOOLEAN
    /\ host \in [Hosts -> HostConfigs]
    /\ \A h \in Hosts : host[h].bonded \subseteq host[h].on /\ (host[h].bonded # {} => host[h].bond)
    /\ pending \in [Hosts -> Requests \cup {Nothing}]
    /\ req \in Requests \cup {Nothing}
    /\ again \in BOOLEAN /\ (again => old) /\ result \in {"ok", "error"}
    /\ late \in [Hosts -> SUBSET Nets]
    /\ excused \in [Hosts -> SUBSET (Nets \cup {Bond})]
    /\ run.leaving \in BOOLEAN
    /\ run.leaving => run.undo = << >>
    /\ tests \in 0..MaxTests /\ faults \in 0..MaxFaults /\ labels \in 0..MaxLabels

\* No call asks for the removal of the management network, whatever it read of the
\* host before: setup_networks reckons it among the requested ones.
MgmtSpared == MgmtNetwork \notin req.drop /\ \A h \in Hosts : MgmtNetwork \in host[h].on

\* When setup_networks returns, its host has the management network, the requested
\* ones and, of all others, at most those that came after the call read the host; or
\* else it was made again on a suite below 4.4, and what it returns is an error.
SetupIsDeclarative ==
    [][\A h \in Hosts :
         Asked /\ Current.do = "setup" /\ Current.host = h /\ req' = Nothing /\ ~run'.leaving
             /\ run'.cmds = Tail(run.cmds)
         => \/ /\ result' = "ok"
               /\ Current.data.nets \cup {MgmtNetwork} \subseteq host'[h].on
               /\ host'[h].on \subseteq Current.data.nets \cup {MgmtNetwork} \cup late[h]
            \/ result' = "error" /\ old /\ again]_vars

\* Between two tests a host has, beyond the management network, only what the engine
\* attached itself, what a request brought whose answer was lost, or what the very
\* command that was to remove it failed to remove, whether its error was raised, swallowed
\* by the roll back or, behind a conflict, returned: contexts and fixtures lose nothing on
\* the way.
NothingLeftBehind ==
    ~Running => \A h \in Hosts : Present(host[h]) \ {MgmtNetwork} \subseteq excused[h]
=============================================================================
