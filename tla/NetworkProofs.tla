---------------------------- MODULE NetworkProofs ----------------------------
(* What HostNetworks guarantees for any number of tests, of answers that are *)
(* lost and of attachments the engine makes.                                 *)
EXTENDS HostNetworks, TLAPS

Labelled == {"a", "b"}

\* What a host may have, and what may be asked of it.
IsConfig(cfg) ==
    /\ cfg \in HostConfigs
    /\ MgmtNetwork \in cfg.on /\ cfg.bonded \subseteq cfg.on \ {MgmtNetwork}
    /\ cfg.bonded # {} => cfg.bond
IsRequested(r) ==
    /\ r \in Requests
    /\ MgmtNetwork \notin r.drop \cup r.set /\ r.bonded \subseteq r.set
    /\ r.dropBond => r.bonded = {}

Datas == [nets : SUBSET Labelled, bonded : SUBSET Labelled, bond : BOOLEAN]
Adding == {"setup", "attach", "modify"}
Dos == Adding \cup {"remove_networks", "remove_attachments", "detach", "clean_networks", "clean_bonds",
                    "copy", "compare", "mtu", "mtu_back", "sync_all", "wait_in_sync"}
Commands ==
    {c \in [do : Dos, host : Hosts \cup {"cluster"}, data : Datas, swallow : BOOLEAN] :
        /\ c.swallow => c.do = "remove_networks"
        /\ c.host = "cluster" <=> c.do = "sync_all"
        /\ c.data.bonded \subseteq c.data.nets
        /\ c.do = "remove_networks" => ~c.data.bond
        /\ c.do \in {"compare", "wait_in_sync"} => c.data = NoData}
Items == {i \in [cmds : Seq(Commands), undo : Seq(Commands)] : Len(i.cmds) <= 1}

\* What a command adds to its host, and what it removes from host h.
Adds(c) == IF c.do = "copy" THEN Labelled \cup {Bond}
           ELSE IF c.do \in Adding THEN c.data.nets \cup ToBonds(c.data) ELSE {}
Removes(c, h, x) ==
    /\ c.host = h
    /\ \/ c.do \in {"remove_networks", "remove_attachments", "detach"} /\ x \in c.data.nets \cup ToBonds(c.data)
       \/ c.do = "clean_networks" /\ x \in Nets
       \/ c.do = "clean_bonds" /\ x = Bond

\* A command that fails answers for x on h, or fails in silence.
Answers(c, h, x) == c.host = h /\ x \in Answerable(c)

\* Commands of which one removes x from h, unless one before it, or itself, answers for x.
Covers(cs, h, x) ==
    \E i \in DOMAIN cs : /\ Removes(cs[i], h, x) /\ Answers(cs[i], h, x)
                         /\ \A j \in 1 .. i - 1 : cs[j].swallow \/ Answers(cs[j], h, x)
\* The same of the calls behind the k-th item.
ItemsCover(items, k, h, x) ==
    \E m \in k + 1 .. Len(items) :
        /\ items[m].cmds # << >> /\ Removes(items[m].cmds[1], h, x)
        /\ \A j \in k + 1 .. m : /\ items[j].undo = << >>
                                 /\ items[j].cmds # << >> => Answers(items[j].cmds[1], h, x)

\* Whatever an item adds is removed by the context of an item up to it, or by later items.
KeptIn(items, k, x) ==
    LET h == items[k].cmds[1].host IN
    \/ \E j \in 1 .. k : Covers(items[j].undo, h, x)
    \/ items[k].undo = << >> /\ ItemsCover(items, k, h, x)

\* What the open contexts, and those about to be, remove; what the items to come do.
Around(h, x) == \E i \in DOMAIN run.stack : Covers(run.stack[i], h, x)
Open(h, x) == Covers(run.undo, h, x) \/ Around(h, x)
ToCome(h, x) == ~run.leaving /\ run.undo = << >> /\ ItemsCover(run.items, 0, h, x)

\* Whatever the k-th item to come adds will be removed.
Kept(k) ==
    LET c == run.items[k].cmds[1] IN
    \A x \in Adds(c) : Open(c.host, x) \/ KeptIn(run.items, k, x)

AddsNothing(cs) == \A j \in DOMAIN cs : Adds(cs[j]) = {}

Runs == [items : Seq(Items), cmds : Seq(Commands), undo : Seq(Commands),
         stack : Seq(Seq(Commands)), leaving : BOOLEAN]

\* The test: ways out add nothing, and whatever a call adds has a way out.
RunInv ==
    /\ run \in Runs
    /\ \A k \in DOMAIN run.items : AddsNothing(run.items[k].undo)
    /\ AddsNothing(run.undo)
    /\ \A i \in DOMAIN run.stack : AddsNothing(run.stack[i])
    /\ run.leaving => run.undo = << >> /\ AddsNothing(run.cmds)
    /\ ~run.leaving => Len(run.cmds) <= 1
    /\ ~run.leaving => \A k \in DOMAIN run.items :
           run.items[k].cmds # << >> => Kept(k)
    /\ run.cmds # << >> =>
           \A x \in Adds(Current) : Open(Current.host, x) \/ ToCome(Current.host, x)

\* What a request that is under way asks for: what its command adds, and what it removes, but
\* for what somebody else has brought since it was composed and answers for.
ReqInv ==
    Asked =>
        /\ IsRequested(req) /\ run.cmds # << >> /\ IsRequest(Current)
        /\ Gains(req) \subseteq Adds(Current)
        /\ Current.do = "setup" =>
               /\ req.set = Current.data.nets
               /\ host[Current.host].on
                      \subseteq req.drop \cup Current.data.nets \cup {MgmtNetwork} \cup late[Current.host]
        /\ \A h \in Hosts : \A x \in Present(host[h]) \ ({MgmtNetwork} \cup excused[h]) :
               Removes(Current, h, x) => x \in req.drop \/ (x = Bond /\ req.dropBond)

\* The hosts; what the engine is about to add is answered for.
HostInv ==
    \A h \in Hosts : /\ IsConfig(host[h])
                     /\ Busy(h) => IsRequested(pending[h])
                     /\ Gains(pending[h]) \subseteq excused[h]

\* Whatever a host has beyond what somebody answers for will be removed by a command to come,
\* however the commands before it end.
Left(h, x) ==
    \/ Covers(run.cmds, h, x)
    \/ Around(h, x)
    \/ /\ \A j \in DOMAIN run.cmds : Answers(run.cmds[j], h, x)
       /\ Covers(run.undo, h, x) \/ ToCome(h, x)
LeftInv ==
    \A h \in Hosts : \A x \in Present(host[h]) \ ({MgmtNetwork} \cup excused[h]) :
        Left(h, x)

IInv == TypeOK /\ RunInv /\ HostInv /\ ReqInv /\ LeftInv
-----------------------------------------------------------------------------
(* Sequences of commands and of items.                                       *)

\* The head of commands that cover x removes it, or the others do.
LEMMA CoversTail ==
    ASSUME NEW cs \in Seq(Commands), cs # << >>, NEW h, NEW x, Covers(cs, h, x)
    PROVE  \/ Removes(cs[1], h, x) /\ Answers(cs[1], h, x)
           \/ Covers(Tail(cs), h, x) /\ (cs[1].swallow \/ Answers(cs[1], h, x))
<1>1. PICK i \in DOMAIN cs : /\ Removes(cs[i], h, x) /\ Answers(cs[i], h, x)
                             /\ \A j \in 1 .. i - 1 : cs[j].swallow \/ Answers(cs[j], h, x)
  BY DEF Covers
<1>2. CASE i = 1
  BY <1>1, <1>2
<1>3. CASE i # 1
  <2>1. /\ i \in 1 .. Len(cs) /\ i - 1 \in DOMAIN Tail(cs) /\ Tail(cs)[i - 1] = cs[i] /\ 1 \in 1 .. i - 1
        /\ \A j \in 1 .. (i - 1) - 1 : Tail(cs)[j] = cs[j + 1] /\ j + 1 \in 1 .. i - 1
    BY <1>1, <1>3
  <2>2. \A j \in 1 .. (i - 1) - 1 : Tail(cs)[j].swallow \/ Answers(Tail(cs)[j], h, x)
    BY <1>1, <2>1
  <2>3. Covers(Tail(cs), h, x)
    BY <1>1, <2>1, <2>2 DEF Covers
  <2> QED  BY <1>1, <2>1, <2>3
<1> QED  BY <1>2, <1>3

LEMMA CoversNothing == \A h, x : ~Covers(<< >>, h, x)
BY DEF Covers

\* Items whose commands cover x behind the first one.
LEMMA ItemsShift ==
    ASSUME NEW items \in Seq(Items), items # << >>, NEW k \in Nat, NEW h, NEW x,
           ItemsCover(items, k + 1, h, x)
    PROVE  ItemsCover(Tail(items), k, h, x)
<1>1. PICK m \in k + 2 .. Len(items) :
        /\ items[m].cmds # << >> /\ Removes(items[m].cmds[1], h, x)
        /\ \A j \in k + 2 .. m : /\ items[j].undo = << >>
                                 /\ items[j].cmds # << >> => Answers(items[j].cmds[1], h, x)
  <2>1. (k + 1) + 1 = k + 2
    OBVIOUS
  <2> QED  BY <2>1 DEF ItemsCover
<1>2. /\ m - 1 \in k + 1 .. Len(Tail(items)) /\ Tail(items)[m - 1] = items[m]
      /\ \A j \in k + 1 .. m - 1 : Tail(items)[j] = items[j + 1] /\ j + 1 \in k + 2 .. m
  BY <1>1
<1> QED  BY <1>1, <1>2 DEF ItemsCover

\* The first item answers for x, and removes it unless later ones do.
LEMMA FirstItem ==
    ASSUME NEW items \in Seq(Items), items # << >>, NEW h, NEW x, ItemsCover(items, 0, h, x)
    PROVE  /\ items[1].undo = << >>
           /\ items[1].cmds # << >> => Answers(items[1].cmds[1], h, x)
           /\ \/ items[1].cmds # << >> /\ Removes(items[1].cmds[1], h, x)
              \/ ItemsCover(Tail(items), 0, h, x)
<1>1. PICK m \in 1 .. Len(items) :
        /\ items[m].cmds # << >> /\ Removes(items[m].cmds[1], h, x)
        /\ \A j \in 1 .. m : /\ items[j].undo = << >>
                             /\ items[j].cmds # << >> => Answers(items[j].cmds[1], h, x)
  <2>1. 0 + 1 = 1
    OBVIOUS
  <2> QED  BY <2>1 DEF ItemsCover
<1>2. 1 \in 1 .. m
  BY <1>1
<1>3. CASE m # 1
  <2>1. m \in 2 .. Len(items) /\ 1 + 1 = 2 /\ 0 + 1 = 1 /\ \A j \in 2 .. m : j \in 1 .. m
    BY <1>1, <1>3
  <2>2. ItemsCover(items, 1, h, x)
    BY <1>1, <2>1 DEF ItemsCover
  <2>3. ItemsCover(Tail(items), 0, h, x)
    BY <2>1, <2>2, ItemsShift
  <2> QED  BY <1>1, <1>2, <2>3
<1> QED  BY <1>1, <1>2, <1>3

-----------------------------------------------------------------------------
(* Requests.                                                                 *)

\* A request and the hosts are of their kinds, field by field.
LEMMA RequestFields ==
    ASSUME NEW r, IsRequested(r)
    PROVE  /\ r.set \subseteq Labelled /\ r.bonded \subseteq r.set /\ r.drop \subseteq Labelled
           /\ r.addBond \in BOOLEAN /\ r.dropBond \in BOOLEAN /\ r.sync \in BOOLEAN
           /\ r.dropBond => r.bonded = {}
BY DEF IsRequested, Requests, Nets, Labelled, MgmtNetwork

LEMMA ConfigFields ==
    ASSUME NEW cfg, IsConfig(cfg)
    PROVE  /\ cfg.on \subseteq Nets /\ "mgmt" \in cfg.on /\ cfg.bonded \subseteq cfg.on \ {"mgmt"}
           /\ cfg.bond \in BOOLEAN /\ cfg.stale \subseteq Nets
           /\ cfg.bonded # {} => cfg.bond
BY DEF IsConfig, HostConfigs, MgmtNetwork

\* What an accepted request makes of a host: it has what the request sets, nothing else that is
\* new, and not what the request drops.
LEMMA AppliedFits ==
    ASSUME NEW r, NEW cfg, IsRequested(r), IsConfig(cfg), ~Refuses(r, cfg)
    PROVE  /\ IsConfig(Applied(r, cfg))
           /\ Applied(r, cfg).on = (cfg.on \ r.drop) \cup r.set
           /\ Present(Applied(r, cfg)) \subseteq Present(cfg) \cup Gains(r)
           /\ \A x \in Present(Applied(r, cfg)) \ Gains(r) : x \notin r.drop /\ ~(x = Bond /\ r.dropBond)
<1> DEFINE A == Applied(r, cfg)
<1>1. /\ A.on = (cfg.on \ r.drop) \cup r.set
      /\ A.bonded = (cfg.bonded \ (r.drop \cup r.set)) \cup r.bonded
      /\ A.bond = ((cfg.bond \/ r.addBond) /\ ~r.dropBond)
      /\ A.stale = (IF r.sync THEN {} ELSE cfg.stale \ (r.drop \cup r.set))
      /\ A = [on |-> A.on, bonded |-> A.bonded, bond |-> A.bond, stale |-> A.stale]
  BY DEF Applied
<1> HIDE DEF A
<1>2. /\ r.bonded # {} => cfg.bond \/ r.addBond
      /\ r.dropBond => cfg.bonded \subseteq r.drop
  BY DEF Refuses
<1>3. A.on \subseteq Nets /\ A.bonded \subseteq A.on \ {"mgmt"} /\ "mgmt" \in A.on /\ A.stale \subseteq Nets
  BY <1>1, RequestFields, ConfigFields DEF Nets, Labelled
<1>4. A.bond \in BOOLEAN
  BY <1>1
<1>5. A.bonded # {} => A.bond
  BY <1>1, <1>2, RequestFields, ConfigFields
<1>6. A \in HostConfigs
  BY <1>1, <1>3, <1>4 DEF HostConfigs
<1>7. IsConfig(A)
  BY <1>3, <1>5, <1>6 DEF IsConfig, MgmtNetwork
<1>8. Present(A) \subseteq Present(cfg) \cup Gains(r)
  BY <1>1 DEF Present, Gains, Bonds
<1>9. \A x \in Present(A) \ Gains(r) : x \notin r.drop /\ ~(x = Bond /\ r.dropBond)
  BY <1>1, <1>3, RequestFields DEF Present, Gains, Bonds, Bond, Nets, Labelled
<1> QED  BY <1>1, <1>7, <1>8, <1>9 DEF A

LEMMA CommandFields ==
    ASSUME NEW c \in Commands
    PROVE  /\ c.do \in Dos /\ c.host \in Hosts \cup {"cluster"} /\ c.swallow \in BOOLEAN
           /\ c.data.nets \subseteq Labelled /\ c.data.bonded \subseteq c.data.nets /\ c.data.bond \in BOOLEAN
           /\ c.swallow => c.do = "remove_networks"
           /\ c.host = "cluster" <=> c.do = "sync_all"
           /\ c.do = "remove_networks" => ~c.data.bond
           /\ c.do \in {"compare", "wait_in_sync"} => c.data = NoData
BY DEF Commands, Datas

\* A request is one that may be asked for if it leaves the management network alone.
LEMMA MakesRequest ==
    \A r \in Requests : /\ "mgmt" \notin r.drop \cup r.set /\ r.bonded \subseteq r.set
                        /\ r.dropBond => r.bonded = {}
                        => IsRequested(r)
BY DEF IsRequested, MgmtNetwork

LEMMA DropFits ==
    ASSUME NEW nets \in SUBSET Labelled, NEW bonds
    PROVE  LET r == DropRequest(nets, bonds) IN
           IsRequested(r) /\ Gains(r) = {} /\ r.drop = nets /\ r.dropBond = (bonds # {})
<1> DEFINE r == DropRequest(nets, bonds)
<1>1. r \in Requests
  BY DEF DropRequest, Empty, Requests, Nets, Labelled
<1>2. r.set = {} /\ r.bonded = {} /\ r.addBond = FALSE /\ r.drop = nets
  BY DEF DropRequest, Empty
<1>3. r.dropBond = (bonds # {})
  BY DEF DropRequest, Empty
<1> HIDE DEF r
<1>4. IsRequested(r)
  BY <1>1, <1>2, MakesRequest DEF Labelled
<1>5. Gains(r) = {}
  BY <1>2 DEF Gains
<1> QED  BY <1>2, <1>3, <1>4, <1>5 DEF r

LEMMA SetFits ==
    ASSUME NEW c \in Commands, NEW drop \in SUBSET Labelled
    PROVE  LET r == SetRequest(c.data, drop) IN
           IsRequested(r) /\ Gains(r) = c.data.nets \cup ToBonds(c.data) /\ r.drop = drop /\ r.set = c.data.nets
<1> DEFINE r == SetRequest(c.data, drop)
<1>1. c.data.nets \subseteq Labelled /\ c.data.bonded \subseteq c.data.nets /\ c.data.bond \in BOOLEAN
  BY CommandFields
<1>2. r \in Requests
  BY <1>1 DEF SetRequest, Empty, Requests, Nets, Labelled
<1>3. r.set = c.data.nets /\ r.bonded = c.data.bonded /\ r.drop = drop /\ r.dropBond = FALSE
  BY DEF SetRequest, Empty
<1>4. r.addBond = (ToBonds(c.data) # {})
  BY DEF SetRequest, Empty
<1> HIDE DEF r
<1>5. IsRequested(r)
  BY <1>1, <1>2, <1>3, MakesRequest DEF Labelled
<1>6. Gains(r) = c.data.nets \cup ToBonds(c.data)
  BY <1>3, <1>4 DEF Gains, ToBonds
<1> QED  BY <1>3, <1>5, <1>6 DEF r

LEMMA CopyFits ==
    ASSUME IsConfig(host["h0"]), IsConfig(host["h1"])
    PROVE  IsRequested(CopyRequest) /\ Gains(CopyRequest) \subseteq Labelled \cup {Bond}
<1> DEFINE src == host["h0"]
           dest == host["h1"]
<1>1. /\ src.on \subseteq Nets /\ dest.on \subseteq Nets /\ src.bonded \subseteq src.on \ {"mgmt"}
      /\ src.bond \in BOOLEAN /\ dest.bond \in BOOLEAN
      /\ src.bonded # {} => src.bond
  BY ConfigFields
<1>2. CopyRequest \in Requests
  <2>1. /\ src.on \in SUBSET Nets /\ dest.on \in SUBSET Nets /\ src.bonded \in SUBSET Nets
        /\ src.bond \in BOOLEAN /\ dest.bond \in BOOLEAN
    BY <1>1
  <2> QED  BY <2>1 DEF CopyRequest, Empty, Requests
<1>3. /\ CopyRequest.set = src.on \ {"mgmt"} /\ CopyRequest.bonded = src.bonded
      /\ CopyRequest.drop = dest.on \ (src.on \cup {"mgmt"})
  BY DEF CopyRequest, Empty, MgmtNetwork
<1>4. CopyRequest.dropBond => ~src.bond
  BY DEF CopyRequest, Empty
<1>5. IsRequested(CopyRequest)
  <2>1. CopyRequest.dropBond => CopyRequest.bonded = {}
    BY <1>1, <1>3, <1>4
  <2> QED  BY <1>1, <1>2, <1>3, <2>1, MakesRequest
<1>6. Gains(CopyRequest) \subseteq Labelled \cup {Bond}
  BY <1>1, <1>3 DEF Gains, Nets, Labelled
<1> QED  BY <1>5, <1>6

LEMMA SmallRequests ==
    /\ IsRequested(Empty) /\ Gains(Empty) = {}
    /\ IsRequested(SyncRequest) /\ Gains(SyncRequest) = {}
    /\ IsRequested([Empty EXCEPT !.set = {"b"}]) /\ Gains([Empty EXCEPT !.set = {"b"}]) = {"b"}
    /\ Gains(Nothing) = {}
    /\ IsConfig(Clean)
<1>1. IsRequested(Empty) /\ Gains(Empty) = {}
  BY DEF Empty, IsRequested, Requests, Gains
<1>2. SyncRequest \in Requests /\ SyncRequest.drop = {} /\ SyncRequest.set = {} /\ SyncRequest.bonded = {}
      /\ SyncRequest.addBond = FALSE
  BY DEF SyncRequest, Empty, Requests
<1>3. IsRequested(SyncRequest) /\ Gains(SyncRequest) = {}
  BY <1>2, MakesRequest DEF Gains
<1> DEFINE r == [Empty EXCEPT !.set = {"b"}]
<1>4. r \in Requests /\ r.drop = {} /\ r.set = {"b"} /\ r.bonded = {} /\ r.addBond = FALSE
  BY DEF Empty, Requests, Nets
<1> HIDE DEF r
<1>5. IsRequested(r) /\ Gains(r) = {"b"}
  BY <1>4, MakesRequest DEF Gains
<1>6. Gains(Nothing) = {}
  BY DEF Gains, Nothing
<1>7. IsConfig(Clean)
  BY DEF IsConfig, Clean, HostConfigs, Nets, MgmtNetwork
<1> QED  BY <1>1, <1>3, <1>5, <1>6, <1>7 DEF r

\* What a call asks for, from the configuration it has read.
LEMMA RequestFits ==
    ASSUME NEW c \in Commands, IsRequest(c), NEW cfg, IsConfig(cfg)
    PROVE  LET r == Request(c, cfg) IN
           /\ IsRequested(r) /\ Gains(r) \subseteq Adds(c)
           /\ c.do = "setup" => /\ r.set = c.data.nets
                                /\ cfg.on \subseteq r.drop \cup c.data.nets \cup {MgmtNetwork}
           /\ \A h \in Hosts : \A x \in Present(cfg) \ {MgmtNetwork} :
                  Removes(c, h, x) => x \in r.drop \/ (x = Bond /\ r.dropBond)
<1> DEFINE r == Request(c, cfg)
<1>f. /\ c.do \in Dos /\ c.data.nets \subseteq Labelled
      /\ c.do = "remove_networks" => ~c.data.bond
  BY CommandFields
<1>g. cfg.on \subseteq Nets /\ cfg.on \ {"mgmt"} \subseteq Labelled
  BY ConfigFields DEF Nets, Labelled
<1>1. CASE c.do = "setup"
  <2>1. cfg.on \ (c.data.nets \cup {"mgmt"}) \in SUBSET Labelled
    BY <1>g
  <2>2. r = SetRequest(c.data, cfg.on \ (c.data.nets \cup {"mgmt"}))
    BY <1>1 DEF Request, ComplementaryNetAttachments, MgmtNetwork
  <2>3. /\ IsRequested(r) /\ Gains(r) = c.data.nets \cup ToBonds(c.data)
        /\ r.set = c.data.nets /\ r.drop = cfg.on \ (c.data.nets \cup {"mgmt"})
    BY <2>1, <2>2, SetFits
  <2> QED  BY <1>1, <2>3 DEF Adds, Adding, Removes, MgmtNetwork
<1>2. CASE c.do \in {"attach", "modify"}
  <2>1. r = SetRequest(c.data, {})
    BY <1>2 DEF Request
  <2>2. IsRequested(r) /\ Gains(r) = c.data.nets \cup ToBonds(c.data)
    BY <2>1, SetFits
  <2> QED  BY <1>2, <2>2 DEF Adds, Adding, Removes
<1>4. CASE c.do = "remove_networks"
  <2>1. r = DropRequest(cfg.on \cap c.data.nets, {})
    BY <1>4 DEF Request, ExistingAttachments
  <2>0. cfg.on \cap c.data.nets \subseteq Labelled
    BY <1>f
  <2>2. IsRequested(r) /\ Gains(r) = {} /\ r.drop = cfg.on \cap c.data.nets
    <3> DEFINE nets == cfg.on \cap c.data.nets
    <3> HIDE DEF nets, r
    <3>1. nets \in SUBSET Labelled
      BY <2>0 DEF nets
    <3> QED  BY <2>1, <3>1, DropFits DEF nets
  <2>3. ToBonds(c.data) = {} /\ Bond \notin Labelled
    BY <1>4, <1>f DEF ToBonds, Bond, Labelled
  <2> QED  BY <1>4, <1>f, <2>2, <2>3 DEF Removes, Present, Bonds
<1>5. CASE c.do \in {"remove_attachments", "detach"}
  <2>0. c.data.nets \subseteq Labelled
    BY <1>f
  <2>1. r = DropRequest(c.data.nets, Bonds(cfg) \cap ToBonds(c.data))
    BY <1>5 DEF Request, NicsByName
  <2>2. IsRequested(r) /\ Gains(r) = {} /\ r.drop = c.data.nets
        /\ r.dropBond = (Bonds(cfg) \cap ToBonds(c.data) # {})
    <3> DEFINE nets == c.data.nets
               bonds == Bonds(cfg) \cap ToBonds(c.data)
    <3> HIDE DEF nets, bonds, r
    <3>1. nets \in SUBSET Labelled
      BY <2>0 DEF nets
    <3>2. r = DropRequest(nets, bonds)
      BY <2>1 DEF nets, bonds
    <3>3. IsRequested(r) /\ Gains(r) = {} /\ r.drop = nets /\ r.dropBond = (bonds # {})
      BY <3>1, <3>2, DropFits
    <3> QED  BY <3>3 DEF nets, bonds
  <2>3. Bond \notin Nets /\ Bonds(cfg) \subseteq {Bond} /\ ToBonds(c.data) \subseteq {Bond}
    BY DEF Bond, Nets, Bonds, ToBonds
  <2> QED  BY <1>5, <1>f, <1>g, <2>2, <2>3 DEF Removes, Present
<1>6. CASE c.do = "clean_networks"
  <2>1. r = DropRequest(cfg.on \ {"mgmt"}, {})
    BY <1>6 DEF Request, MgmtNetwork
  <2>2. IsRequested(r) /\ Gains(r) = {} /\ r.drop = cfg.on \ {"mgmt"}
    BY <1>g, <2>1, DropFits
  <2>3. Bond \notin Nets
    BY DEF Bond, Nets
  <2> QED  BY <1>6, <2>2, <2>3 DEF Removes, Present, MgmtNetwork, Bonds
<1>7. CASE c.do = "clean_bonds"
  <2>1. r = DropRequest({}, Bonds(cfg))
    BY <1>7 DEF Request
  <2>2. IsRequested(r) /\ Gains(r) = {} /\ r.dropBond = (Bonds(cfg) # {})
    BY <2>1, DropFits
  <2>3. Bond \notin Nets
    BY DEF Bond, Nets
  <2> QED  BY <1>7, <1>g, <2>2, <2>3 DEF Removes, Present, Bonds
<1>8. CASE c.do \in {"sync_all", "copy"}
  <2>1. r = Empty
    BY <1>8 DEF Request
  <2> QED  BY <1>8, <2>1, SmallRequests DEF Removes
<1> QED  BY <1>f, <1>1, <1>2, <1>4, <1>5, <1>6, <1>7, <1>8 DEF Dos, IsRequest, Adding

-----------------------------------------------------------------------------
(* The tests.                                                                *)

\* An item whose context removes what its call adds.
Undone(i) ==
    /\ i \in Items /\ AddsNothing(i.undo)
    /\ i.cmds # << >> => \A x \in Adds(i.cmds[1]) : Covers(i.undo, i.cmds[1].host, x)

\* A test all of whose additions are removed, one way or another.
Fits(items) ==
    /\ items \in Seq(Items)
    /\ \A k \in DOMAIN items :
           /\ AddsNothing(items[k].undo)
           /\ items[k].cmds # << >> => \A x \in Adds(items[k].cmds[1]) : KeptIn(items, k, x)

Given == {data \in Datas : data.bonded \subseteq data.nets}

LEMMA ItemFields ==
    \A i \in Items : i.cmds \in Seq(Commands) /\ i.undo \in Seq(Commands) /\ Len(i.cmds) <= 1
BY DEF Items

LEMMA OneCommand ==
    ASSUME NEW c \in Commands, NEW undo \in Seq(Commands), NEW i, i = [cmds |-> <<c>>, undo |-> undo]
    PROVE  i \in Items
<1> DEFINE cs == <<c>>
<1>1. cs \in Seq(Commands) /\ Len(cs) <= 1
  OBVIOUS
<1> HIDE DEF cs
<1>2. i = [cmds |-> cs, undo |-> undo]
  BY DEF cs
<1> QED  BY <1>1, <1>2 DEF Items

LEMMA MakesCommand ==
    ASSUME NEW do \in Dos, NEW h \in Hosts, NEW data \in Given,
           do # "sync_all", do = "remove_networks" => ~data.bond,
           do \in {"compare", "wait_in_sync"} => data = NoData
    PROVE  Cmd(do, h, data) \in Commands
<1>1. Cmd(do, h, data) \in [do : Dos, host : Hosts \cup {"cluster"}, data : Datas, swallow : BOOLEAN]
  BY DEF Cmd, Given
<1> QED  BY <1>1 DEF Commands, Cmd, Given, Hosts

LEMMA GivenDatas ==
    /\ \A n \in SUBSET Labelled : \A b \in BOOLEAN : Data(n, {}, b) \in Given
    /\ Bonded \in Given /\ Configs \subseteq Given
BY DEF Given, Datas, Data, Bonded, Configs, NoData, OneNet, Plain, Labelled

\* One command removes what it answers for.
LEMMA OneCovers ==
    ASSUME NEW c, NEW h, NEW x, Removes(c, h, x), Answers(c, h, x)
    PROVE  Covers(<<c>>, h, x)
BY DEF Covers

LEMMA ContextUndone ==
    ASSUME NEW h \in Hosts, NEW data \in Given
    PROVE  Undone(SetupContext(h, data))
<1> DEFINE c == SetupNetworks(h, data)
           u == RemoveAttachments(h, data)
<1>1. c \in Commands /\ u \in Commands
  BY MakesCommand DEF SetupNetworks, RemoveAttachments, Dos, Adding
<1>2. c.do = "setup" /\ c.host = h /\ c.data = data /\ u.do = "remove_attachments" /\ u.host = h /\ u.data = data
  BY DEF SetupNetworks, RemoveAttachments, Cmd
<1> HIDE DEF c, u
<1>3. SetupContext(h, data) = [cmds |-> <<c>>, undo |-> <<u>>]
  BY DEF SetupContext, With, c, u
<1>4. SetupContext(h, data) \in Items
  <2>1. <<u>> \in Seq(Commands)
    BY <1>1
  <2> QED  BY <1>1, <1>3, <2>1, OneCommand
<1>5. AddsNothing(<<u>>)
  BY <1>2 DEF AddsNothing, Adds, Adding
<1>6. \A x \in Adds(c) : Covers(<<u>>, h, x)
  <2> TAKE x \in Adds(c)
  <2>1. Removes(u, h, x) /\ Answers(u, h, x)
    BY <1>2 DEF Adds, Adding, Removes, Answers, Answerable
  <2> QED  BY <2>1, OneCovers
<1> QED  BY <1>2, <1>3, <1>4, <1>5, <1>6 DEF Undone

LEMMA FixtureUndone ==
    ASSUME NEW h \in Hosts
    PROVE  Undone(NetFixture(h, "a"))
<1> DEFINE data == Data({"a"}, {}, FALSE)
           c == SetupNetworks(h, data)
           u == RemoveNetworks(h, {"a"})
<1>1. data \in Given /\ data.nets = {"a"} /\ data.bond = FALSE
  BY GivenDatas DEF Labelled, Data
<1>2. c \in Commands /\ u \in Commands
  BY <1>1, MakesCommand DEF SetupNetworks, RemoveNetworks, Dos, Adding
<1>3. c.do = "setup" /\ c.host = h /\ c.data = data /\ u.do = "remove_networks" /\ u.host = h /\ u.data = data
  BY DEF SetupNetworks, RemoveNetworks, Cmd
<1>4. NetFixture(h, "a") = [cmds |-> <<c>>, undo |-> <<u>>]
  BY DEF NetFixture, With
<1> HIDE DEF c, u, data
<1>5. NetFixture(h, "a") \in Items
  <2>1. <<u>> \in Seq(Commands)
    BY <1>2
  <2> QED  BY <1>2, <1>4, <2>1, OneCommand
<1>6. AddsNothing(<<u>>)
  BY <1>3 DEF AddsNothing, Adds, Adding
<1>7. \A x \in Adds(c) : Covers(<<u>>, h, x)
  <2> TAKE x \in Adds(c)
  <2>1. Removes(u, h, x) /\ Answers(u, h, x)
    BY <1>1, <1>3 DEF Adds, Adding, Removes, Answers, Answerable, ToBonds
  <2> QED  BY <2>1, OneCovers
<1> QED  BY <1>3, <1>4, <1>5, <1>6, <1>7 DEF Undone

\* A host that is cleaned is rid of every network, then of its bond.
LEMMA DestinationUndone ==
    ASSUME NEW h \in Hosts, NEW data \in Given
    PROVE  /\ Undone(SetupDestinationHost(h, data))
           /\ \A x \in Nets \cup {Bond} : Covers(SetupDestinationHost(h, data).undo, h, x)
<1> DEFINE c == SetupNetworks(h, data)
           u == Cmd("clean_networks", h, NoData)
           v == Cmd("clean_bonds", h, NoData)
<1>1. c \in Commands /\ u \in Commands /\ v \in Commands
  BY MakesCommand, GivenDatas DEF SetupNetworks, Dos, Adding, Configs
<1>2. /\ c.do = "setup" /\ c.host = h /\ c.data = data
      /\ u.do = "clean_networks" /\ u.host = h /\ v.do = "clean_bonds" /\ v.host = h
  BY DEF SetupNetworks, Cmd
<1>3. SetupDestinationHost(h, data) = [cmds |-> <<c>>, undo |-> <<u, v>>]
  BY DEF SetupDestinationHost, With, CleanAllNetworking
<1> HIDE DEF c, u, v
<1>4. SetupDestinationHost(h, data) \in Items
  <2>1. <<u, v>> \in Seq(Commands)
    BY <1>1
  <2> QED  BY <1>1, <1>3, <2>1, OneCommand
<1>5. AddsNothing(<<u, v>>)
  BY <1>2 DEF AddsNothing, Adds, Adding
<1>6. ASSUME NEW x \in Nets \cup {Bond}
      PROVE  Covers(<<u, v>>, h, x)
  <2>1. Answers(u, h, x)
    BY <1>2 DEF Answers, Answerable
  <2>2. CASE x \in Nets
    BY <1>2, <2>1, <2>2 DEF Covers, Removes
  <2>3. CASE x = Bond
    <3>1. Removes(v, h, x) /\ Answers(v, h, x)
      BY <1>2, <2>3 DEF Removes, Answers, Answerable
    <3> QED  BY <2>1, <3>1 DEF Covers
  <2> QED  BY <2>2, <2>3
<1>7. Adds(c) \subseteq Nets \cup {Bond}
  BY <1>2 DEF Adds, Adding, Given, Datas, Nets, Labelled, ToBonds
<1> QED  BY <1>2, <1>3, <1>4, <1>5, <1>6, <1>7 DEF Undone

LEMMA MtuUndone ==
    ASSUME NEW h \in Hosts
    PROVE  Undone(UnsyncedHostNetwork(h, "a"))
<1> DEFINE c == Cmd("mtu", h, Data({"a"}, {}, FALSE))
           u == Cmd("mtu_back", h, Data({"a"}, {}, FALSE))
<1>1. Data({"a"}, {}, FALSE) \in Given
  BY GivenDatas DEF Labelled
<1>2. c \in Commands /\ u \in Commands
  BY <1>1, MakesCommand DEF Dos, Adding
<1>3. c.do = "mtu" /\ u.do = "mtu_back"
  BY DEF Cmd
<1>4. UnsyncedHostNetwork(h, "a") = [cmds |-> <<c>>, undo |-> <<u>>]
  BY DEF UnsyncedHostNetwork, With
<1> HIDE DEF c, u
<1>5. UnsyncedHostNetwork(h, "a") \in Items
  <2>1. <<u>> \in Seq(Commands)
    BY <1>2
  <2> QED  BY <1>2, <1>4, <2>1, OneCommand
<1>6. AddsNothing(<<u>>) /\ Adds(c) = {}
  BY <1>3 DEF AddsNothing, Adds, Adding
<1> QED  BY <1>3, <1>4, <1>5, <1>6 DEF Undone

\* A call that stands alone.
LEMMA CallFits ==
    ASSUME NEW c \in Commands
    PROVE  /\ Call(c) \in Items /\ AddsNothing(Call(c).undo)
           /\ Call(c).cmds = <<c>> /\ Call(c).undo = << >>
           /\ Adds(c) = {} => Undone(Call(c))
<1>1. Call(c) = [cmds |-> <<c>>, undo |-> << >>]
  BY DEF Call
<1>2. Call(c) \in Items
  <2>1. << >> \in Seq(Commands)
    OBVIOUS
  <2> QED  BY <1>1, <2>1, OneCommand
<1>3. AddsNothing(<< >>)
  BY DEF AddsNothing
<1>4. Call(c).cmds = <<c>> /\ Call(c).undo = << >>
  BY <1>1
<1>5. AddsNothing(Call(c).undo)
  BY <1>3, <1>4
<1>6. Adds(c) = {} => Undone(Call(c))
  BY <1>2, <1>4, <1>5 DEF Undone
<1> QED  BY <1>2, <1>4, <1>5, <1>6

\* An item that undoes what it does is kept in any test.
LEMMA UndoneIsKept ==
    ASSUME NEW items \in Seq(Items), NEW k \in DOMAIN items, Undone(items[k])
    PROVE  /\ AddsNothing(items[k].undo)
           /\ items[k].cmds # << >> => \A x \in Adds(items[k].cmds[1]) : KeptIn(items, k, x)
<1>1. k \in 1 .. k
  OBVIOUS
<1> QED  BY <1>1 DEF Undone, KeptIn

LEMMA MigrationFits == Fits(MigrationTest)
<1> DEFINE i == NetFixture("h0", "a")
           j == NetFixture("h1", "a")
<1>1. Undone(i) /\ Undone(j)
  BY FixtureUndone DEF Hosts
<1> HIDE DEF i, j
<1> DEFINE s == <<i, j>>
<1>2. s \in Seq(Items) /\ DOMAIN s = 1 .. 2 /\ s[1] = i /\ s[2] = j
  BY <1>1 DEF Undone
<1>3. \A k \in DOMAIN s : Undone(s[k])
  BY <1>1, <1>2
<1> HIDE DEF s
<1>4. Fits(s)
  BY <1>2, <1>3, UndoneIsKept DEF Fits
<1> QED  BY <1>4 DEF s, i, j, MigrationTest

LEMMA OneContextFits ==
    ASSUME NEW data \in Given
    PROVE  Fits(<<SetupContext("h0", data)>>)
<1> DEFINE i == SetupContext("h0", data)
<1>1. Undone(i)
  BY ContextUndone DEF Hosts
<1> HIDE DEF i
<1> DEFINE s == <<i>>
<1>2. s \in Seq(Items) /\ DOMAIN s = 1 .. 1 /\ s[1] = i
  BY <1>1 DEF Undone
<1>3. \A k \in DOMAIN s : Undone(s[k])
  BY <1>1, <1>2
<1> HIDE DEF s
<1>4. Fits(s)
  BY <1>2, <1>3, UndoneIsKept DEF Fits
<1> QED  BY <1>4 DEF s, i

\* Whatever is copied to the destination is removed when it is cleaned.
LEMMA CopyTestFits ==
    ASSUME NEW src \in Given, NEW dest \in Given
    PROVE  Fits(CopyTest(src, dest))
<1> DEFINE i == SetupContext("h0", src)
           j == SetupDestinationHost("h1", dest)
           c == Cmd("copy", "h1", NoData)
           d == Cmd("compare", "h1", NoData)
<1>1. Undone(i) /\ Undone(j) /\ \A x \in Nets \cup {Bond} : Covers(j.undo, "h1", x)
  BY ContextUndone, DestinationUndone DEF Hosts
<1>2. c \in Commands /\ d \in Commands
  BY MakesCommand, GivenDatas DEF Dos, Adding, Configs, Hosts
<1>3. c.do = "copy" /\ c.host = "h1" /\ d.do = "compare"
  BY DEF Cmd
<1> HIDE DEF i, j, c, d
<1>4. Call(c) \in Items /\ AddsNothing(Call(c).undo) /\ Call(c).cmds = <<c>>
  BY <1>2, CallFits
<1>5. Adds(d) = {} /\ Adds(c) = Labelled \cup {Bond}
  BY <1>3 DEF Adds, Adding
<1>6. Undone(Call(d))
  BY <1>2, <1>5, CallFits
<1> DEFINE s == <<i, j, Call(c), Call(d)>>
<1>7. s \in Seq(Items) /\ DOMAIN s = 1 .. 4 /\ s[1] = i /\ s[2] = j /\ s[3] = Call(c) /\ s[4] = Call(d)
  BY <1>1, <1>4, <1>6 DEF Undone
<1> HIDE DEF s
<1>8. ASSUME NEW k \in DOMAIN s
      PROVE  /\ AddsNothing(s[k].undo)
             /\ s[k].cmds # << >> => \A x \in Adds(s[k].cmds[1]) : KeptIn(s, k, x)
  <2>1. CASE k # 3
    <3>1. Undone(s[k])
      BY <1>1, <1>6, <1>7, <2>1
    <3> QED  BY <1>7, <3>1, UndoneIsKept
  <2>2. CASE k = 3
    <3>1. s[k].cmds[1] = c
      BY <1>4, <1>7, <2>2
    <3>2. 2 \in 1 .. k
      BY <2>2
    <3>3. \A x \in Adds(c) : KeptIn(s, k, x)
      BY <1>1, <1>3, <1>5, <1>7, <3>1, <3>2 DEF KeptIn, Nets, Labelled
    <3> QED  BY <1>4, <1>7, <2>2, <3>1, <3>3
  <2> QED  BY <2>1, <2>2
<1>9. Fits(s)
  BY <1>7, <1>8 DEF Fits
<1> QED  BY <1>9 DEF s, i, j, c, d, CopyTest

\* What the body attaches on either host the roll back removes, which swallows what fails.
LEMMA RequiredFits == Fits(RequiredTest)
<1> DEFINE i == RemoveNetFromHosts("a")
           c == SetupNetworks("h0", OneNet)
           d == SetupNetworks("h1", OneNet)
           e == RemoveNetworks("h1", {"a"})
           u == [RemoveNetworks("h0", {"a"}) EXCEPT !.swallow = TRUE]
           v == [e EXCEPT !.swallow = TRUE]
<1>1. OneNet \in Given /\ OneNet.nets = {"a"} /\ OneNet.bond = FALSE
  BY GivenDatas DEF OneNet, Data, Configs
<1>2. Data({"a"}, {}, FALSE) = OneNet
  BY DEF OneNet
<1>3. c \in Commands /\ d \in Commands /\ e \in Commands /\ RemoveNetworks("h0", {"a"}) \in Commands
  BY <1>1, <1>2, MakesCommand DEF SetupNetworks, RemoveNetworks, Dos, Adding, Hosts
<1>4. /\ c.do = "setup" /\ c.host = "h0" /\ c.data = OneNet /\ d.do = "setup" /\ d.host = "h1" /\ d.data = OneNet
      /\ e.do = "remove_networks" /\ e.host = "h1" /\ e.data = OneNet
  BY <1>2 DEF SetupNetworks, RemoveNetworks, Cmd
<1>5. /\ u.do = "remove_networks" /\ u.host = "h0" /\ u.data = OneNet /\ u.swallow = TRUE
      /\ v.do = "remove_networks" /\ v.host = "h1" /\ v.data = OneNet /\ v.swallow = TRUE
  BY <1>2 DEF RemoveNetworks, Cmd
<1>6. u \in Commands /\ v \in Commands
  <2> DEFINE All == [do : Dos, host : Hosts \cup {"cluster"}, data : Datas, swallow : BOOLEAN]
  <2>1. e \in All /\ RemoveNetworks("h0", {"a"}) \in All
    BY <1>3 DEF Commands
  <2>2. u \in All /\ v \in All
    BY <2>1
  <2> QED  BY <1>1, <1>5, <2>2 DEF Commands, Given
<1>7. i = [cmds |-> << >>, undo |-> <<u, v>>]
  BY DEF RemoveNetFromHosts
<1> HIDE DEF i, c, d, e, u, v
<1>8. i \in Items /\ i.undo = <<u, v>> /\ i.cmds = << >>
  <2>1. <<u, v>> \in Seq(Commands) /\ << >> \in Seq(Commands) /\ Len(<< >>) <= 1
    BY <1>6
  <2> QED  BY <1>7, <2>1 DEF Items
<1>9. AddsNothing(<<u, v>>) /\ Adds(e) = {} /\ Adds(c) = {"a"} /\ Adds(d) = {"a"}
  BY <1>1, <1>4, <1>5 DEF AddsNothing, Adds, Adding, ToBonds
<1>10. Covers(<<u, v>>, "h0", "a") /\ Covers(<<u, v>>, "h1", "a")
  <2>1. Removes(u, "h0", "a") /\ Answers(u, "h0", "a") /\ Removes(v, "h1", "a") /\ Answers(v, "h1", "a")
    BY <1>1, <1>5 DEF Removes, Answers, Answerable, ToBonds
  <2> QED  BY <1>5, <2>1 DEF Covers
<1>11. Undone(i) /\ Undone(Call(e))
  BY <1>3, <1>8, <1>9, CallFits DEF Undone
<1>12. /\ Call(c) \in Items /\ AddsNothing(Call(c).undo) /\ Call(c).cmds = <<c>>
       /\ Call(d) \in Items /\ AddsNothing(Call(d).undo) /\ Call(d).cmds = <<d>>
  BY <1>3, CallFits
<1> DEFINE s == <<i, Call(c), Call(d), Call(e)>>
<1>13. s \in Seq(Items) /\ DOMAIN s = 1 .. 4 /\ s[1] = i /\ s[2] = Call(c) /\ s[3] = Call(d) /\ s[4] = Call(e)
  BY <1>11, <1>12 DEF Undone
<1> HIDE DEF s
<1>14. ASSUME NEW k \in DOMAIN s
       PROVE  /\ AddsNothing(s[k].undo)
              /\ s[k].cmds # << >> => \A x \in Adds(s[k].cmds[1]) : KeptIn(s, k, x)
  <2>1. CASE k \in {1, 4}
    BY <1>11, <1>13, <2>1, UndoneIsKept
  <2>2. CASE k = 2
    <3>1. s[k].cmds[1] = c /\ 1 \in 1 .. k
      BY <1>12, <1>13, <2>2
    <3> QED  BY <1>4, <1>8, <1>9, <1>10, <1>12, <1>13, <2>2, <3>1 DEF KeptIn
  <2>3. CASE k = 3
    <3>1. s[k].cmds[1] = d /\ 1 \in 1 .. k
      BY <1>12, <1>13, <2>3
    <3> QED  BY <1>4, <1>8, <1>9, <1>10, <1>12, <1>13, <2>3, <3>1 DEF KeptIn
  <2> QED  BY <1>13, <2>1, <2>2, <2>3
<1>15. Fits(s)
  BY <1>13, <1>14 DEF Fits
<1> QED  BY <1>15 DEF s, i, c, d, e, RequiredTest

LEMMA SyncFits == Fits(SyncTest)
<1> DEFINE i == SetupContext("h0", OneNet)
           j == UnsyncedHostNetwork("h0", "a")
           k == SetupContext("h1", OneNet)
           l == UnsyncedHostNetwork("h1", "a")
           c == Cmd("sync_all", "cluster", NoData)
           d == Cmd("wait_in_sync", "h0", NoData)
           e == Cmd("wait_in_sync", "h1", NoData)
<1>1. OneNet \in Given /\ NoData \in Given
  BY GivenDatas DEF Configs
<1>2. Undone(i) /\ Undone(j) /\ Undone(k) /\ Undone(l)
  BY <1>1, ContextUndone, MtuUndone DEF Hosts
<1>3. d \in Commands /\ e \in Commands
  BY <1>1, MakesCommand DEF Dos, Adding, Hosts
<1>4. c \in Commands
  <2>1. c.do = "sync_all" /\ c.host = "cluster" /\ c.data = NoData /\ c.swallow = FALSE
    BY DEF Cmd
  <2>2. c \in [do : Dos, host : Hosts \cup {"cluster"}, data : Datas, swallow : BOOLEAN]
    BY <1>1 DEF Cmd, Dos, Given
  <2> QED  BY <1>1, <2>1, <2>2 DEF Commands, Given
<1>5. Adds(c) = {} /\ Adds(d) = {} /\ Adds(e) = {}
  BY DEF Adds, Adding, Cmd
<1>6. Undone(Call(c)) /\ Undone(Call(d)) /\ Undone(Call(e))
  BY <1>3, <1>4, <1>5, CallFits
<1> HIDE DEF i, j, k, l, c, d, e
<1> DEFINE s == <<i, j, k, l, Call(c), Call(d), Call(e)>>
<1>7. s \in Seq(Items)
  BY <1>2, <1>6 DEF Undone
<1>8. \A m \in DOMAIN s : Undone(s[m])
  <2>1. DOMAIN s = 1 .. 7
    OBVIOUS
  <2>2. s[1] = i /\ s[2] = j /\ s[3] = k /\ s[4] = l /\ s[5] = Call(c) /\ s[6] = Call(d) /\ s[7] = Call(e)
    OBVIOUS
  <2> HIDE DEF s
  <2> QED  BY <1>2, <1>6, <2>1, <2>2
<1> HIDE DEF s
<1>9. Fits(s)
  BY <1>7, <1>8, UndoneIsKept DEF Fits
<1> QED  BY <1>9 DEF s, i, j, k, l, c, d, e, SyncTest

\* What the basic suite attaches and modifies it detaches in the end, and answers for if it
\* does not come to that.
LEMMA BasicFits == Fits(BasicTest)
<1> DEFINE c == Cmd("attach", "h0", Bonded)
           d == Cmd("modify", "h0", OneNet)
           e == Cmd("detach", "h0", OneNet)
           f == Cmd("detach", "h0", Data({"b"}, {}, TRUE))
<1>1. /\ Bonded \in Given /\ OneNet \in Given /\ Data({"b"}, {}, TRUE) \in Given
  BY GivenDatas DEF Configs, Labelled
<1>2. c \in Commands /\ d \in Commands /\ e \in Commands /\ f \in Commands
  BY <1>1, MakesCommand DEF Dos, Adding, Hosts
<1>3. /\ c.do = "attach" /\ c.host = "h0" /\ c.data = Bonded /\ d.do = "modify" /\ d.host = "h0" /\ d.data = OneNet
      /\ e.do = "detach" /\ e.host = "h0" /\ e.data.nets = {"a"}
      /\ f.do = "detach" /\ f.host = "h0" /\ f.data.nets = {"b"} /\ f.data.bond = TRUE
  BY DEF Cmd, Data, OneNet
<1> HIDE DEF c, d, e, f
<1>4. /\ Adds(c) = {"a", "b"} \cup {Bond} /\ Adds(d) = {"a"} /\ Adds(e) = {} /\ Adds(f) = {}
  BY <1>3 DEF Adds, Adding, Bonded, OneNet, Data, ToBonds
<1>5. ASSUME NEW x \in {"a", "b"} \cup {Bond}
      PROVE  /\ Answers(d, "h0", x) /\ Answers(e, "h0", x) /\ Answers(f, "h0", x)
             /\ IF x = "a" THEN Removes(e, "h0", x) ELSE Removes(f, "h0", x)
  BY <1>3 DEF Answers, Answerable, Removes, ToBonds, Nets
<1>6. \A g \in {c, d, e, f} : /\ Call(g) \in Items /\ AddsNothing(Call(g).undo)
                             /\ Call(g).cmds = <<g>> /\ Call(g).undo = << >>
  BY <1>2, CallFits
<1> DEFINE s == <<Call(c), Call(d), Call(e), Call(f)>>
<1>7. s \in Seq(Items) /\ DOMAIN s = 1 .. 4 /\ Len(s) = 4
      /\ s[1] = Call(c) /\ s[2] = Call(d) /\ s[3] = Call(e) /\ s[4] = Call(f)
  BY <1>6
<1> HIDE DEF s
<1>8. /\ \A k \in 1 .. 4 : s[k].undo = << >> /\ AddsNothing(s[k].undo) /\ s[k].cmds # << >>
      /\ s[1].cmds[1] = c /\ s[2].cmds[1] = d /\ s[3].cmds[1] = e /\ s[4].cmds[1] = f
  BY <1>6, <1>7
<1>9. ASSUME NEW k \in {1, 2}, NEW x \in Adds(s[k].cmds[1])
      PROVE  KeptIn(s, k, x)
  <2>1. x \in {"a", "b"} \cup {Bond} /\ s[k].cmds[1].host = "h0" /\ (k = 2 => x = "a")
    BY <1>3, <1>4, <1>8
  <2>2. \E m \in k + 1 .. Len(s) :
          /\ s[m].cmds # << >> /\ Removes(s[m].cmds[1], "h0", x)
          /\ \A j \in k + 1 .. m : /\ s[j].undo = << >>
                                   /\ s[j].cmds # << >> => Answers(s[j].cmds[1], "h0", x)
    <3>1. \A j \in 2 .. 4 : s[j].undo = << >> /\ Answers(s[j].cmds[1], "h0", x)
      BY <1>5, <1>8, <2>1
    <3>2. CASE x = "a"
      <4>1. 3 \in k + 1 .. Len(s) /\ \A j \in k + 1 .. 3 : j \in 2 .. 4
        BY <1>7
      <4>2. Removes(s[3].cmds[1], "h0", x) /\ s[3].cmds # << >>
        BY <1>5, <1>8, <2>1, <3>2
      <4> QED  BY <3>1, <4>1, <4>2
    <3>3. CASE x # "a"
      <4>1. 4 \in k + 1 .. Len(s) /\ \A j \in k + 1 .. 4 : j \in 2 .. 4
        BY <1>7
      <4>2. Removes(s[4].cmds[1], "h0", x) /\ s[4].cmds # << >>
        BY <1>5, <1>8, <2>1, <3>3
      <4> QED  BY <3>1, <4>1, <4>2
    <3> QED  BY <3>2, <3>3
  <2>3. ItemsCover(s, k, "h0", x)
    BY <2>2 DEF ItemsCover
  <2>4. s[k].undo = << >>
    BY <1>8
  <2> QED  BY <2>1, <2>3, <2>4 DEF KeptIn
<1>10. Fits(s)
  BY <1>4, <1>7, <1>8, <1>9 DEF Fits
<1> QED  BY <1>10 DEF s, c, d, e, f, BasicTest

\* Every test takes back what it does, or answers for it.
LEMMA ScriptsFit == \A script \in Scripts : Fits(script)
<1>1. Fits(ContextTest)
  BY OneContextFits, GivenDatas DEF ContextTest, Configs
<1>2. Fits(BondTest)
  BY OneContextFits, GivenDatas DEF BondTest
<1>3. \A s, d \in Configs : Fits(CopyTest(s, d))
  BY CopyTestFits, GivenDatas
<1> QED  BY <1>1, <1>2, <1>3, MigrationFits, RequiredFits, SyncFits, BasicFits DEF Scripts

-----------------------------------------------------------------------------
(* Commands that return and raise.                                           *)

LEMMA RunFields ==
    ASSUME RunInv
    PROVE  /\ run.items \in Seq(Items) /\ run.cmds \in Seq(Commands) /\ run.undo \in Seq(Commands)
           /\ run.stack \in Seq(Seq(Commands)) /\ run.leaving \in BOOLEAN
           /\ run = [items |-> run.items, cmds |-> run.cmds, undo |-> run.undo, stack |-> run.stack,
                     leaving |-> run.leaving]
           /\ run.cmds # << >> => Current \in Commands /\ Current = run.cmds[1] /\ 1 \in DOMAIN run.cmds
BY DEF RunInv, Runs, Current

LEMMA ReturnedFields ==
    ASSUME RunInv, Returned
    PROVE  /\ run' \in [items : {run.items}, cmds : {Tail(run.cmds)}, undo : {run.undo}, stack : {run.stack},
                        leaving : {run.leaving}]
           /\ run'.items = run.items /\ run'.cmds = Tail(run.cmds) /\ run'.undo = run.undo
           /\ run'.stack = run.stack /\ run'.leaving = run.leaving
BY RunFields DEF Returned

LEMMA RaisedFields ==
    ASSUME RunInv, Raised
    PROVE  \/ Current.swallow /\ Returned
           \/ /\ ~Current.swallow
              /\ run' \in [items : {run.items}, cmds : {<< >>}, undo : {<< >>}, stack : {run.stack},
                           leaving : {TRUE}]
              /\ run'.items = run.items /\ run'.cmds = << >> /\ run'.undo = << >>
              /\ run'.stack = run.stack /\ run'.leaving = TRUE
<1>1. CASE Current.swallow
  BY <1>1 DEF Raised, Returned
<1>2. CASE ~Current.swallow
  BY <1>2, RunFields DEF Raised
<1> QED  BY <1>1, <1>2

LEMMA TailOfOne ==
    ASSUME NEW cs \in Seq(Commands), cs # << >>, Len(cs) <= 1
    PROVE  Tail(cs) = << >>
<1>1. Len(cs) \in Nat /\ Len(cs) # 0
  OBVIOUS
<1>2. Len(cs) = 1
  <2>1. \A n \in Nat : n # 0 /\ n <= 1 => n = 1
    OBVIOUS
  <2> QED  BY <1>1, <2>1
<1>3. Tail(cs) \in Seq(Commands) /\ Len(Tail(cs)) = Len(cs) - 1
  OBVIOUS
<1>4. Len(Tail(cs)) = 0
  BY <1>2, <1>3
<1>5. \A t \in Seq(Commands) : Len(t) = 0 => t = << >>
  OBVIOUS
<1> QED  BY <1>3, <1>4, <1>5

\* While a test runs its items a command under way is the only one.
LEMMA OnlyCommand ==
    ASSUME RunInv, run.cmds # << >>
    PROVE  run.leaving \/ Tail(run.cmds) = << >>
<1>1. run.cmds \in Seq(Commands) /\ (run.leaving \/ Len(run.cmds) <= 1)
  BY RunFields DEF RunInv
<1> QED  BY <1>1, TailOfOne

LEMMA TailAddsNothing ==
    ASSUME NEW cs \in Seq(Commands), cs # << >>, AddsNothing(cs)
    PROVE  AddsNothing(Tail(cs))
<1>1. \A j \in DOMAIN Tail(cs) : Tail(cs)[j] = cs[j + 1] /\ j + 1 \in DOMAIN cs
  OBVIOUS
<1> QED  BY <1>1 DEF AddsNothing

LEMMA ReturnedRun == RunInv /\ run.cmds # << >> /\ Returned => RunInv'
<1> SUFFICES ASSUME RunInv, run.cmds # << >>, Returned PROVE RunInv'
  OBVIOUS
<1>1. /\ run'.items = run.items /\ run'.cmds = Tail(run.cmds) /\ run'.undo = run.undo
      /\ run'.stack = run.stack /\ run'.leaving = run.leaving
  BY ReturnedFields
<1>2. Tail(run.cmds) \in Seq(Commands)
  BY RunFields
<1>3. run' \in Runs
  BY <1>2, RunFields, ReturnedFields DEF Runs
<1>4. run'.leaving => AddsNothing(run'.cmds)
  BY <1>1, RunFields, TailAddsNothing DEF RunInv
<1>5. ~run'.leaving => run'.cmds = << >>
  BY <1>1, OnlyCommand
<1>6. run'.cmds # << >> => Adds(Current') = {}
  <2>1. SUFFICES ASSUME run'.cmds # << >> PROVE Adds(Current') = {}
    OBVIOUS
  <2>2. Current' = run'.cmds[1] /\ 1 \in DOMAIN run'.cmds
    BY <1>1, <1>2, <2>1 DEF Current
  <2> QED  BY <1>4, <1>5, <2>1, <2>2 DEF AddsNothing
<1>7. \A k \in DOMAIN run'.items : Kept(k) => Kept(k)'
  BY <1>1 DEF Kept, Open, Around
<1> QED  BY <1>1, <1>3, <1>4, <1>5, <1>6, <1>7 DEF RunInv

LEMMA EndedRun == RunInv /\ run.cmds # << >> /\ (Returned \/ Raised) => RunInv'
<1> SUFFICES ASSUME RunInv, run.cmds # << >>, Returned \/ Raised PROVE RunInv'
  OBVIOUS
<1>1. CASE Returned
  BY <1>1, ReturnedRun
<1>2. CASE /\ run' \in [items : {run.items}, cmds : {<< >>}, undo : {<< >>}, stack : {run.stack},
                        leaving : {TRUE}]
           /\ run'.items = run.items /\ run'.cmds = << >> /\ run'.undo = << >>
           /\ run'.stack = run.stack /\ run'.leaving = TRUE
  <2>1. run' \in Runs
    <3>1. << >> \in Seq(Commands)
      OBVIOUS
    <3> QED  BY <1>2, <3>1, RunFields DEF Runs
  <2>2. AddsNothing(<< >>)
    BY DEF AddsNothing
  <2> QED  BY <1>2, <2>1, <2>2 DEF RunInv
<1> QED  BY <1>1, <1>2, RaisedFields

\* Behind a command that returned, what was to be removed still is, or has been.
LEMMA ReturnedLeft ==
    ASSUME RunInv, run.cmds # << >>, Returned, NEW h, NEW x, Left(h, x)
    PROVE  Left(h, x)' \/ Removes(Current, h, x)
<1>1. /\ run'.items = run.items /\ run'.cmds = Tail(run.cmds) /\ run'.undo = run.undo
      /\ run'.stack = run.stack /\ run'.leaving = run.leaving
  BY ReturnedFields
<1>2. CASE Covers(run.cmds, h, x)
  <2>1. Covers(Tail(run.cmds), h, x) \/ Removes(Current, h, x)
    BY <1>2, RunFields, CoversTail
  <2> QED  BY <1>1, <2>1 DEF Left
<1>3. CASE Around(h, x)
  BY <1>1, <1>3 DEF Left, Around
<1>4. CASE /\ \A j \in DOMAIN run.cmds : Answers(run.cmds[j], h, x)
           /\ Covers(run.undo, h, x) \/ ToCome(h, x)
  <2>1. \A j \in DOMAIN Tail(run.cmds) : Tail(run.cmds)[j] = run.cmds[j + 1] /\ j + 1 \in DOMAIN run.cmds
    BY RunFields
  <2>2. \A j \in DOMAIN run'.cmds : Answers(run'.cmds[j], h, x)
    BY <1>1, <1>4, <2>1
  <2>3. Covers(run'.undo, h, x) \/ ToCome(h, x)'
    BY <1>1, <1>4 DEF ToCome
  <2> QED  BY <2>2, <2>3 DEF Left
<1> QED  BY <1>2, <1>3, <1>4 DEF Left

\* Behind one that failed, what was to be removed still is, or the command answers for it.
LEMMA EndedLeft ==
    ASSUME RunInv, run.cmds # << >>, Returned \/ Raised, NEW h, NEW x, Left(h, x)
    PROVE  Left(h, x)' \/ Answers(Current, h, x)
<1>1. run'.stack = run.stack /\ (run'.cmds = Tail(run.cmds) \/ (~Current.swallow /\ ~Returned))
  <2>1. Returned => run'.stack = run.stack /\ run'.cmds = Tail(run.cmds)
    BY ReturnedFields
  <2>2. Raised => Returned \/ (~Current.swallow /\ run'.stack = run.stack)
    BY RaisedFields
  <2> QED  BY <2>1, <2>2
<1>2. CASE Covers(run.cmds, h, x)
  <2>1. \/ Answers(Current, h, x)
        \/ Covers(Tail(run.cmds), h, x) /\ (Current.swallow \/ Answers(Current, h, x))
    BY <1>2, RunFields, CoversTail
  <2> QED  BY <1>1, <2>1 DEF Left
<1>3. CASE Around(h, x)
  BY <1>1, <1>3 DEF Left, Around
<1>4. CASE \A j \in DOMAIN run.cmds : Answers(run.cmds[j], h, x)
  BY <1>4, RunFields
<1> QED  BY <1>2, <1>3, <1>4 DEF Left

\* What a command that returned has added is removed later.
LEMMA AddedLeft ==
    ASSUME RunInv, run.cmds # << >>, Returned, NEW h, h = Current.host, NEW x \in Adds(Current)
    PROVE  Left(h, x)'
<1>1. /\ run'.items = run.items /\ run'.cmds = Tail(run.cmds) /\ run'.undo = run.undo
      /\ run'.stack = run.stack /\ run'.leaving = run.leaving
  BY ReturnedFields
<1>2. ~run.leaving
  BY RunFields DEF RunInv, AddsNothing
<1>3. run'.cmds = << >>
  BY <1>1, <1>2, OnlyCommand
<1>4. Open(h, x) \/ ToCome(h, x)
  BY DEF RunInv
<1>5. \A j \in DOMAIN run'.cmds : FALSE
  BY <1>3
<1>6. CASE Covers(run.undo, h, x)
  BY <1>1, <1>5, <1>6 DEF Left
<1>7. CASE Around(h, x)
  BY <1>1, <1>7 DEF Left, Around
<1>8. CASE ToCome(h, x)
  <2>1. ToCome(h, x)'
    BY <1>1, <1>8 DEF ToCome
  <2> QED  BY <1>5, <2>1 DEF Left
<1> QED  BY <1>4, <1>6, <1>7, <1>8 DEF Open

-----------------------------------------------------------------------------
(* The engine.                                                               *)

\* What a host can have.
LEMMA PresentNets ==
    \A cfg : IsConfig(cfg) => Present(cfg) \subseteq Nets \cup {Bond}
BY ConfigFields DEF Present, Bonds

LEMMA GainsNets ==
    \A r : IsRequested(r) => Gains(r) \subseteq Labelled \cup {Bond}
BY RequestFields DEF Gains

LEMMA HostTyped == TypeOK => /\ host \in [Hosts -> HostConfigs]
                             /\ pending \in [Hosts -> Requests \cup {Nothing}]
                             /\ late \in [Hosts -> SUBSET Nets]
                             /\ excused \in [Hosts -> SUBSET (Nets \cup {Bond})]
BY DEF TypeOK

\* The effect of a request on a host: the kinds, and who answers for what the engine goes on
\* to do. What a host has then and nobody answers for, it had before, and the request did not
\* drop it, or the request brought it.
LEMMA EffectFits ==
    ASSUME TypeOK, HostInv, NEW h \in Hosts, NEW r, IsRequested(r),
           NEW p, p = Nothing \/ IsRequested(p), NEW blame, Gains(p) \subseteq blame,
           Effect(h, r, p, blame)
    PROVE  /\ host' \in [Hosts -> HostConfigs]
           /\ pending' \in [Hosts -> Requests \cup {Nothing}]
           /\ late' \in [Hosts -> SUBSET Nets]
           /\ excused' \in [Hosts -> SUBSET (Nets \cup {Bond})]
           /\ HostInv'
           /\ \A g \in Hosts : /\ host'[g].on \subseteq host[g].on \cup late'[g]
                               /\ late[g] \subseteq late'[g]
           /\ \A g \in Hosts : \A x \in Present(host'[g]) \ ({MgmtNetwork} \cup excused'[g]) :
                 /\ g = h => x \notin blame
                 /\ \/ g = h /\ x \in Gains(r)
                    \/ /\ x \in Present(host[g]) \ ({MgmtNetwork} \cup excused[g])
                       /\ g = h => Refuses(r, host[h]) \/ (x \notin r.drop /\ ~(x = Bond /\ r.dropBond))
<1> DEFINE cfg == IF Refuses(r, host[h]) THEN host[h] ELSE Applied(r, host[h])
           ex == (excused[h] \cup blame) \cap (Present(cfg) \cup Gains(p))
<1>1. /\ host' = [host EXCEPT ![h] = cfg]
      /\ pending' = [pending EXCEPT ![h] = p]
      /\ late' = [late EXCEPT ![h] = late[h] \cup (cfg.on \ host[h].on)]
      /\ excused' = [excused EXCEPT ![h] = ex]
  BY DEF Effect
<1>2. IsConfig(host[h]) /\ IsConfig(cfg)
  <2>1. IsConfig(host[h])
    BY DEF HostInv
  <2> QED  BY <2>1, AppliedFits
<1>3. /\ Present(cfg) \subseteq Present(host[h]) \cup Gains(r)
      /\ \A x \in Present(cfg) \ Gains(r) :
             Refuses(r, host[h]) \/ (x \notin r.drop /\ ~(x = Bond /\ r.dropBond))
  BY <1>2, AppliedFits
<1> HIDE DEF cfg
<1>4. /\ host'[h] = cfg /\ pending'[h] = p /\ late'[h] = late[h] \cup (cfg.on \ host[h].on) /\ excused'[h] = ex
      /\ \A g \in Hosts \ {h} : /\ host'[g] = host[g] /\ pending'[g] = pending[g]
                                /\ late'[g] = late[g] /\ excused'[g] = excused[g]
  BY <1>1, HostTyped
<1> HIDE DEF ex
<1>5. /\ Gains(p) \subseteq Nets \cup {Bond} /\ Gains(p) \subseteq ex
      /\ ex \subseteq Nets \cup {Bond}
  <2>1. Gains(p) \subseteq Nets \cup {Bond}
    BY SmallRequests, GainsNets DEF Nets, Labelled
  <2>2. Present(cfg) \subseteq Nets \cup {Bond}
    BY <1>2, PresentNets
  <2> QED  BY <2>1, <2>2 DEF ex
<1>6. host' \in [Hosts -> HostConfigs]
  BY <1>1, <1>2, HostTyped DEF IsConfig
<1>7. pending' \in [Hosts -> Requests \cup {Nothing}]
  BY <1>1, HostTyped DEF IsRequested
<1>8. late' \in [Hosts -> SUBSET Nets]
  <2>1. late[h] \cup (cfg.on \ host[h].on) \in SUBSET Nets
    BY <1>2, ConfigFields, HostTyped
  <2> QED  BY <1>1, <2>1, HostTyped
<1>9. excused' \in [Hosts -> SUBSET (Nets \cup {Bond})]
  BY <1>1, <1>5, HostTyped
<1>10. HostInv'
  <2> SUFFICES ASSUME NEW g \in Hosts
               PROVE  /\ IsConfig(host'[g]) /\ (pending'[g] # Nothing => IsRequested(pending'[g]))
                      /\ Gains(pending'[g]) \subseteq excused'[g]
    BY DEF HostInv, Busy
  <2>1. CASE g = h
    BY <1>2, <1>4, <1>5, <2>1
  <2>2. CASE g # h
    BY <1>4, <2>2 DEF HostInv, Busy
  <2> QED  BY <2>1, <2>2
<1>11. ASSUME NEW g \in Hosts
       PROVE  host'[g].on \subseteq host[g].on \cup late'[g] /\ late[g] \subseteq late'[g]
  BY <1>4
<1>12. ASSUME NEW g \in Hosts, NEW x \in Present(host'[g]) \ ({MgmtNetwork} \cup excused'[g])
       PROVE  /\ g = h => x \notin blame
              /\ \/ g = h /\ x \in Gains(r)
                 \/ /\ x \in Present(host[g]) \ ({MgmtNetwork} \cup excused[g])
                    /\ g = h => Refuses(r, host[h]) \/ (x \notin r.drop /\ ~(x = Bond /\ r.dropBond))
  <2>1. CASE g # h
    BY <1>4, <2>1
  <2>2. CASE g = h
    <3>1. x \in Present(cfg) /\ x \notin ex /\ x # MgmtNetwork
      BY <1>4, <2>2
    <3>2. x \notin blame /\ x \notin excused[h]
      BY <3>1 DEF ex
    <3> QED  BY <1>3, <2>2, <3>1, <3>2
  <2> QED  BY <2>1, <2>2
<1> QED  BY <1>6, <1>7, <1>8, <1>9, <1>10, <1>11, <1>12

\* What the engine does behind the test leaves everything as it was to be removed.
LEMMA BehindFits ==
    ASSUME IInv, NEW h \in Hosts, NEW r, IsRequested(r),
           NEW p, p = Nothing \/ IsRequested(p), NEW blame, Gains(p) \subseteq blame,
           Gains(r) \subseteq excused[h] \cup blame,
           Effect(h, r, p, blame), run' = run, req' = req
    PROVE  HostInv' /\ RunInv' /\ ReqInv' /\ LeftInv'
<1>1. /\ HostInv'
      /\ \A g \in Hosts : /\ host'[g].on \subseteq host[g].on \cup late'[g]
                          /\ late[g] \subseteq late'[g]
  BY EffectFits DEF IInv
<1>2. ASSUME NEW g \in Hosts, NEW x \in Present(host'[g]) \ ({MgmtNetwork} \cup excused'[g])
      PROVE  x \in Present(host[g]) \ ({MgmtNetwork} \cup excused[g])
  <2>1. /\ g = h => x \notin blame
        /\ (g = h /\ x \in Gains(r)) \/ x \in Present(host[g]) \ ({MgmtNetwork} \cup excused[g])
    BY <1>2, EffectFits DEF IInv
  <2>2. CASE g = h /\ x \in Gains(r)
    <3>1. x \in excused[h]
      BY <2>1, <2>2
    <3>2. x \in excused'[h]
      <4>1. excused'[h] = (excused[h] \cup blame)
                             \cap (Present(host'[h]) \cup Gains(p))
        BY HostTyped DEF Effect, IInv
      <4> QED  BY <3>1, <4>1, <2>2
    <3> QED  BY <2>2, <3>2
  <2> QED  BY <2>1, <2>2
<1>3. RunInv'
  BY DEF IInv, RunInv, Kept, Open, Around, ToCome, Current
<1>4. LeftInv'
  BY <1>2 DEF IInv, LeftInv, Left, Around, ToCome
<1>5. ReqInv'
  <2> SUFFICES ASSUME Asked' PROVE ReqInv'
    BY DEF ReqInv
  <2>1. Asked
    BY DEF Asked
  <2>2. /\ IsRequested(req) /\ run.cmds # << >> /\ IsRequest(Current)
        /\ Gains(req) \subseteq Adds(Current)
        /\ Current.do = "setup" =>
               /\ req.set = Current.data.nets
               /\ host[Current.host].on
                      \subseteq req.drop \cup Current.data.nets \cup {MgmtNetwork} \cup late[Current.host]
        /\ \A g \in Hosts : \A x \in Present(host[g]) \ ({MgmtNetwork} \cup excused[g]) :
               Removes(Current, g, x) => x \in req.drop \/ (x = Bond /\ req.dropBond)
    BY <2>1 DEF IInv, ReqInv
  <2>3. Current' = Current
    BY DEF Current
  <2>4. Current.do = "setup" => Current.host \in Hosts
    BY <2>2, RunFields, CommandFields DEF IInv
  <2>5. Current.do = "setup" =>
           host'[Current.host].on
               \subseteq req.drop \cup Current.data.nets \cup {MgmtNetwork} \cup late'[Current.host]
    BY <1>1, <2>2, <2>4
  <2>6. \A g \in Hosts : \A x \in Present(host'[g]) \ ({MgmtNetwork} \cup excused'[g]) :
               Removes(Current, g, x) => x \in req.drop \/ (x = Bond /\ req.dropBond)
    BY <1>2, <2>2
  <2> QED  BY <2>2, <2>3, <2>5, <2>6 DEF ReqInv
<1> QED  BY <1>1, <1>3, <1>4, <1>5

-----------------------------------------------------------------------------
(* The steps.                                                                *)

HostsTyped == /\ host \in [Hosts -> HostConfigs]
              /\ pending \in [Hosts -> Requests \cup {Nothing}]
              /\ late \in [Hosts -> SUBSET Nets]
              /\ excused \in [Hosts -> SUBSET (Nets \cup {Bond})]
Counted == /\ old \in BOOLEAN /\ req \in Requests \cup {Nothing}
           /\ again \in BOOLEAN /\ (again => old) /\ result \in {"ok", "error"}
           /\ tests \in 0..MaxTests /\ faults \in 0..MaxFaults /\ labels \in 0..MaxLabels

LEMMA TypeParts == HostsTyped /\ Counted /\ HostInv /\ RunInv => TypeOK
<1> SUFFICES ASSUME HostsTyped, Counted, HostInv, RunInv PROVE TypeOK
  OBVIOUS
<1>1. \A h \in Hosts : host[h].bonded \subseteq host[h].on /\ (host[h].bonded # {} => host[h].bond)
  BY ConfigFields DEF HostInv
<1>2. run.leaving \in BOOLEAN /\ (run.leaving => run.undo = << >>)
  BY RunFields DEF RunInv
<1> QED  BY <1>1, <1>2 DEF TypeOK, HostsTyped, Counted

LEMMA NextTypeParts == (HostsTyped /\ Counted /\ HostInv /\ RunInv => TypeOK)'
BY TypeParts, PTL

LEMMA PartsOfType == TypeOK => HostsTyped /\ Counted
BY DEF TypeOK, HostsTyped, Counted

\* No request is under way unless a command of the kind is.
LEMMA AskedCommand ==
    ASSUME IInv
    PROVE  /\ Asked => run.cmds # << >> /\ IsRequest(Current) /\ IsRequested(req)
           /\ run.cmds = << >> \/ ~IsRequest(Current) => req = Nothing
BY DEF IInv, ReqInv, Asked

LEMMA NotAsked == req = Nothing => ReqInv
BY DEF ReqInv, Asked

LEMMA StartHolds == Init => IInv
<1> SUFFICES ASSUME Init PROVE IInv
  OBVIOUS
<1>1. /\ run.items = << >> /\ run.cmds = << >> /\ run.undo = << >> /\ run.stack = << >> /\ run.leaving = FALSE
      /\ run \in Runs
  BY DEF Init, Idle, Runs
<1>2. RunInv
  BY <1>1 DEF RunInv, AddsNothing
<1>3. HostInv
  BY SmallRequests DEF Init, HostInv, Busy
<1>4. ReqInv
  BY NotAsked DEF Init
<1>5. LeftInv
  BY DEF Init, LeftInv, Present, Bonds, Clean, MgmtNetwork
<1>6. Counted
  <2>1. old \in BOOLEAN
    BY Zenon DEF Init
  <2>2. again = FALSE /\ result = "ok" /\ req = Nothing /\ tests = 0 /\ faults = 0 /\ labels = 0
    BY Zenon DEF Init
  <2>3. 0 \in 0..MaxTests /\ 0 \in 0..MaxFaults /\ 0 \in 0..MaxLabels
    BY BoundsAssumption
  <2> QED  BY <2>1, <2>2, <2>3, Zenon DEF Counted
<1>7. HostsTyped
  <2>1. Clean \in HostConfigs
    BY DEF Clean, HostConfigs, Nets
  <2>2. \A h \in Hosts : Clean \in HostConfigs /\ Nothing \in Requests \cup {Nothing}
    BY <2>1
  <2> QED  BY <2>1, <2>2 DEF Init, HostsTyped
<1> QED  BY <1>2, <1>3, <1>4, <1>5, <1>6, <1>7, TypeParts DEF IInv

\* Nothing is left to be removed where there is no test.
LEMMA IdleLeavesNothing ==
    ASSUME run = Idle
    PROVE  \A h, x : ~Left(h, x)
<1>1. run.items = << >> /\ run.cmds = << >> /\ run.undo = << >> /\ run.stack = << >>
  BY DEF Idle
<1>2. \A h, x : ~Covers(<< >>, h, x) /\ ~Around(h, x) /\ ~ToCome(h, x)
  BY <1>1, CoversNothing DEF Around, ToCome, ItemsCover
<1> QED  BY <1>1, <1>2 DEF Left

LEMMA NextTestHolds == IInv /\ NextTest => IInv'
<1> SUFFICES ASSUME IInv, NextTest PROVE IInv'
  OBVIOUS
<1> PICK script \in Scripts : /\ run' = [Idle EXCEPT !.items = script]
                              /\ tests' = IF script = BasicTest THEN MaxTests ELSE tests + 1
  BY DEF NextTest
<1>1. /\ run = Idle /\ tests < MaxTests
      /\ UNCHANGED <<old, host, pending, req, again, result, late, excused, faults, labels>>
  BY DEF NextTest, Running
<1>2. Fits(script)
  BY ScriptsFit
<1>3. /\ run'.items = script /\ run'.cmds = << >> /\ run'.undo = << >> /\ run'.stack = << >>
      /\ run'.leaving = FALSE /\ run' \in Runs
  <2>1. script \in Seq(Items) /\ << >> \in Seq(Items) /\ << >> \in Seq(Commands) /\ << >> \in Seq(Seq(Commands))
    BY <1>2 DEF Fits
  <2>2. Idle \in Runs
    BY <2>1 DEF Idle, Runs
  <2> QED  BY <2>1, <2>2 DEF Idle, Runs
<1>4. RunInv'
  <2>1. AddsNothing(<< >>)
    BY DEF AddsNothing
  <2>2. \A k \in DOMAIN run'.items : AddsNothing(run'.items[k].undo)
    BY <1>2, <1>3 DEF Fits
  <2>3. \A k \in DOMAIN run'.items : run'.items[k].cmds # << >> => Kept(k)'
    BY <1>2, <1>3 DEF Fits, Kept
  <2> QED  BY <1>3, <2>1, <2>2, <2>3 DEF RunInv
<1>5. HostInv' /\ HostsTyped'
  BY <1>1, PartsOfType DEF IInv, HostInv, HostsTyped, Busy
<1>6. Counted'
  BY <1>1, BoundsAssumption, PartsOfType DEF IInv, Counted
<1>7. ReqInv'
  <2>1. run.cmds = << >>
    BY <1>1 DEF Idle
  <2>2. req = Nothing
    BY <2>1, AskedCommand
  <2> QED  BY <1>1, <2>2 DEF ReqInv, Asked
<1>8. LeftInv'
  BY <1>1, IdleLeavesNothing DEF IInv, LeftInv
<1> QED  BY <1>4, <1>5, <1>6, <1>7, <1>8, NextTypeParts DEF IInv

\* The tail of a test is kept by what has been entered and by itself.
LEMMA KeptInTail ==
    ASSUME NEW items \in Seq(Items), items # << >>, NEW k \in DOMAIN Tail(items), NEW x,
           KeptIn(items, k + 1, x)
    PROVE  LET h == items[k + 1].cmds[1].host IN
           Covers(items[1].undo, h, x) \/ KeptIn(Tail(items), k, x)
<1> DEFINE h == items[k + 1].cmds[1].host
<1>1. /\ k \in Nat /\ k + 1 \in DOMAIN items /\ Tail(items) \in Seq(Items)
      /\ \A j \in DOMAIN Tail(items) : Tail(items)[j] = items[j + 1]
  OBVIOUS
<1>2. Tail(items)[k] = items[k + 1]
  BY <1>1
<1> HIDE DEF h
<1>3. CASE \E j \in 1 .. k + 1 : Covers(items[j].undo, h, x)
  <2>1. PICK j \in 1 .. k + 1 : Covers(items[j].undo, h, x)
    BY <1>3
  <2>2. CASE j = 1
    BY <2>1, <2>2 DEF h
  <2>3. CASE j # 1
    <3>1. j - 1 \in 1 .. k /\ j - 1 \in DOMAIN Tail(items) /\ (j - 1) + 1 = j
      BY <1>1, <2>3
    <3>2. Tail(items)[j - 1] = items[j]
      BY <1>1, <3>1
    <3>3. KeptIn(Tail(items), k, x)
      BY <1>2, <2>1, <3>1, <3>2 DEF KeptIn, h
    <3> QED  BY <3>3
  <2> QED  BY <2>2, <2>3
<1>4. CASE items[k + 1].undo = << >> /\ ItemsCover(items, k + 1, h, x)
  <2>1. ItemsCover(Tail(items), k, h, x)
    BY <1>1, <1>4, ItemsShift
  <2> QED  BY <1>2, <1>4, <2>1 DEF KeptIn, h
<1> QED  BY <1>3, <1>4 DEF KeptIn, h

\* What the first item adds is removed by its own context or by what follows.
LEMMA KeptFirst ==
    ASSUME NEW items \in Seq(Items), items # << >>, NEW x, KeptIn(items, 1, x)
    PROVE  LET h == items[1].cmds[1].host IN
           Covers(items[1].undo, h, x) \/ (items[1].undo = << >> /\ ItemsCover(Tail(items), 0, h, x))
<1>1. 0 + 1 = 1 /\ \A j \in 1 .. 1 : j = 1
  OBVIOUS
<1>2. CASE items[1].undo = << >> /\ ItemsCover(items, 1, items[1].cmds[1].host, x)
  <2>1. ItemsCover(Tail(items), 0, items[1].cmds[1].host, x)
    BY <1>1, <1>2, ItemsShift
  <2> QED  BY <1>2, <2>1
<1>3. CASE \E j \in 1 .. 1 : Covers(items[j].undo, items[1].cmds[1].host, x)
  BY <1>1, <1>3
<1> QED  BY <1>2, <1>3 DEF KeptIn

LEMMA NextItem ==
    ASSUME RunInv, run.cmds = << >>, run.undo = << >>, ~run.leaving, run.items # << >>,
           run' = [run EXCEPT !.items = Tail(@), !.cmds = Head(run.items).cmds, !.undo = Head(run.items).undo]
    PROVE  RunInv' /\ \A h, x : Left(h, x) => Left(h, x)'
<1> DEFINE items == run.items
           i == items[1]
<1>1. /\ run'.items = Tail(items) /\ run'.cmds = i.cmds /\ run'.undo = i.undo /\ run'.stack = run.stack
      /\ run'.leaving = run.leaving
      /\ run' = [run EXCEPT !.items = Tail(items), !.cmds = i.cmds, !.undo = i.undo]
  BY RunFields
<1>2. /\ items \in Seq(Items) /\ Tail(items) \in Seq(Items) /\ i \in Items /\ 1 \in DOMAIN items
      /\ \A k \in DOMAIN Tail(items) : k + 1 \in DOMAIN items /\ Tail(items)[k] = items[k + 1]
  BY RunFields
<1>3. i.cmds \in Seq(Commands) /\ i.undo \in Seq(Commands) /\ Len(i.cmds) <= 1
  BY <1>2, ItemFields
<1> HIDE DEF i, items
<1>4. run' \in Runs
  BY <1>1, <1>2, <1>3 DEF RunInv, Runs
<1>5. \A h, x : Around(h, x)' <=> Around(h, x)
  BY <1>1 DEF Around
<1>6. \A h, x : ~Covers(run.undo, h, x)
  BY CoversNothing
<1>7. /\ \A k \in DOMAIN run'.items : AddsNothing(run'.items[k].undo)
      /\ AddsNothing(run'.undo)
      /\ \A j \in DOMAIN run'.stack : AddsNothing(run'.stack[j])
  BY <1>1, <1>2 DEF RunInv, i, items
<1>8. ASSUME NEW k \in DOMAIN run'.items, run'.items[k].cmds # << >>
      PROVE  Kept(k)'
  <2>1. /\ k + 1 \in DOMAIN items /\ Tail(items)[k] = items[k + 1] /\ items[k + 1].cmds # << >>
        /\ k \in DOMAIN Tail(items)
    BY <1>1, <1>2, <1>8
  <2>2. Kept(k + 1)
    BY <2>1 DEF RunInv, items
  <2> DEFINE c == items[k + 1].cmds[1]
  <2>3. ASSUME NEW x \in Adds(c)
        PROVE  Covers(run'.undo, c.host, x) \/ Around(c.host, x) \/ KeptIn(Tail(items), k, x)
    <3>1. Open(c.host, x) \/ KeptIn(items, k + 1, x)
      BY <2>2 DEF Kept, items
    <3>2. CASE KeptIn(items, k + 1, x)
      <4>1. Covers(i.undo, c.host, x) \/ KeptIn(Tail(items), k, x)
        BY <1>2, <2>1, <3>2, KeptInTail DEF i, items
      <4> QED  BY <1>1, <4>1
    <3>3. CASE Open(c.host, x)
      BY <1>6, <3>3 DEF Open
    <3> QED  BY <3>1, <3>2, <3>3
  <2>4. run'.items[k].cmds[1] = c
    BY <1>1, <2>1
  <2> HIDE DEF c
  <2> QED  BY <1>1, <1>5, <2>3, <2>4 DEF Kept, Open, Around
<1>9. ASSUME run'.cmds # << >>
      PROVE  \A x \in Adds(Current') : Open(Current.host, x)' \/ ToCome(Current.host, x)'
  <2> DEFINE c == i.cmds[1]
  <2>1. Current' = c
    BY <1>1, <1>3, <1>9 DEF Current
  <2>2. Kept(1)
    BY <1>1, <1>2, <1>9 DEF RunInv, items, i
  <2>3. ASSUME NEW x \in Adds(c)
        PROVE  Covers(run'.undo, c.host, x) \/ Around(c.host, x)
               \/ (run'.undo = << >> /\ ItemsCover(run'.items, 0, c.host, x))
    <3>1. Open(c.host, x) \/ KeptIn(items, 1, x)
      BY <2>2 DEF Kept, items, i
    <3>2. CASE KeptIn(items, 1, x)
      BY <1>1, <1>2, <3>2, KeptFirst DEF i, items
    <3>3. CASE Open(c.host, x)
      BY <1>6, <3>3 DEF Open
    <3> QED  BY <3>1, <3>2, <3>3
  <2> HIDE DEF c
  <2> QED  BY <1>1, <1>5, <2>1, <2>3 DEF Open, ToCome, Around
<1>10. RunInv'
  BY <1>1, <1>3, <1>4, <1>7, <1>8, <1>9 DEF RunInv
<1>11. ASSUME NEW h, NEW x, Left(h, x)
       PROVE  Left(h, x)'
  <2>1. Around(h, x) \/ ItemsCover(items, 0, h, x)
    BY <1>6, <1>11, CoversNothing DEF Left, ToCome, items
  <2>2. CASE Around(h, x)
    BY <1>5, <2>2 DEF Left
  <2>3. CASE ItemsCover(items, 0, h, x)
    <3>1. /\ i.undo = << >>
          /\ i.cmds # << >> => Answers(i.cmds[1], h, x)
          /\ \/ i.cmds # << >> /\ Removes(i.cmds[1], h, x)
             \/ ItemsCover(Tail(items), 0, h, x)
      BY <1>2, <2>3, FirstItem DEF i, items
    <3>2. \A j \in DOMAIN i.cmds : j = 1 /\ i.cmds # << >>
      BY <1>3
    <3>3. CASE i.cmds # << >> /\ Removes(i.cmds[1], h, x)
      <4>1. Covers(i.cmds, h, x)
        <5>1. 1 \in DOMAIN i.cmds /\ \A j \in 1 .. 1 - 1 : FALSE
          BY <1>3, <3>3
        <5> QED  BY <3>1, <3>3, <5>1 DEF Covers
      <4> QED  BY <1>1, <4>1 DEF Left
    <3>4. CASE ItemsCover(Tail(items), 0, h, x)
      <4>1. ToCome(h, x)'
        BY <1>1, <3>1, <3>4 DEF ToCome
      <4>2. \A j \in DOMAIN run'.cmds : Answers(run'.cmds[j], h, x)
        BY <1>1, <3>1, <3>2
      <4> QED  BY <4>1, <4>2 DEF Left
    <3> QED  BY <3>1, <3>3, <3>4
  <2> QED  BY <2>1, <2>2, <2>3
<1> QED  BY <1>10, <1>11

\* The context that a call opens is around everything that follows.
LEMMA Enter ==
    ASSUME RunInv, run.cmds = << >>, run.undo # << >>,
           run' = [run EXCEPT !.undo = << >>, !.stack = <<run.undo>> \o @]
    PROVE  RunInv' /\ \A h, x : Left(h, x) => Left(h, x)'
<1>1. run.undo \in Seq(Commands) /\ run.stack \in Seq(Seq(Commands))
  BY RunFields
<1> DEFINE st == <<run.undo>> \o run.stack
<1>2. /\ st \in Seq(Seq(Commands)) /\ 1 \in DOMAIN st /\ st[1] = run.undo
      /\ \A j \in DOMAIN run.stack : j + 1 \in DOMAIN st /\ st[j + 1] = run.stack[j]
      /\ \A j \in DOMAIN st : st[j] = run.undo \/ \E m \in DOMAIN run.stack : st[j] = run.stack[m]
  <2> DEFINE n == Len(run.stack)
  <2>1. /\ st \in Seq(Seq(Commands)) /\ n \in Nat
        /\ DOMAIN st = 1 .. 1 + n /\ DOMAIN run.stack = 1 .. n
        /\ st[1] = run.undo
        /\ \A j \in 1 .. n : st[1 + j] = run.stack[j]
    BY <1>1
  <2> HIDE DEF st, n
  <2>2. 1 \in 1 .. 1 + n /\ \A j \in 1 .. n : j + 1 \in 1 .. 1 + n /\ j + 1 = 1 + j
    BY <2>1
  <2>3. \A j \in 1 .. 1 + n : j = 1 \/ (j - 1 \in 1 .. n /\ 1 + (j - 1) = j)
    BY <2>1
  <2>4. \A j \in DOMAIN run.stack : j + 1 \in DOMAIN st /\ st[j + 1] = run.stack[j]
    BY <2>1, <2>2
  <2>5. \A j \in DOMAIN st : st[j] = run.undo \/ \E m \in DOMAIN run.stack : st[j] = run.stack[m]
    <3> TAKE j \in DOMAIN st
    <3>1. CASE j # 1
      <4>1. j - 1 \in DOMAIN run.stack /\ st[j] = run.stack[j - 1]
        BY <2>1, <2>3, <3>1
      <4> QED  BY <4>1
    <3> QED  BY <2>1, <3>1
  <2> QED  BY <2>1, <2>2, <2>4, <2>5
<1>3. /\ run'.items = run.items /\ run'.cmds = << >> /\ run'.undo = << >> /\ run'.stack = st
      /\ run'.leaving = run.leaving
      /\ run' = [run EXCEPT !.undo = << >>, !.stack = st]
  BY RunFields
<1> HIDE DEF st
<1>4. run' \in Runs
  <2>1. << >> \in Seq(Commands)
    OBVIOUS
  <2> QED  BY <1>2, <1>3, <2>1 DEF RunInv, Runs
<1>5. \A h, x : Open(h, x) => Around(h, x)'
  BY <1>2, <1>3 DEF Open, Around
<1>6. ~run.leaving
  BY DEF RunInv
<1>7. AddsNothing(<< >>) /\ \A j \in DOMAIN st : AddsNothing(st[j])
  <2>1. AddsNothing(<< >>)
    BY DEF AddsNothing
  <2> QED  BY <1>2, <2>1 DEF RunInv
<1>8. \A k \in DOMAIN run'.items : run'.items[k].cmds # << >> => Kept(k)'
  BY <1>3, <1>5, <1>6 DEF RunInv, Kept, Open
<1>9. RunInv'
  BY <1>3, <1>4, <1>6, <1>7, <1>8 DEF RunInv
<1>10. \A h, x : Left(h, x) => Open(h, x)
  BY CoversNothing DEF Left, Open, ToCome
<1> QED  BY <1>5, <1>9, <1>10 DEF Left

LEMMA LeaveContext ==
    ASSUME RunInv, run.cmds = << >>, run.undo = << >>, run.leaving \/ run.items = << >>, run.stack # << >>,
           run' = [run EXCEPT !.leaving = TRUE, !.cmds = Head(run.stack), !.stack = Tail(@)]
    PROVE  RunInv' /\ \A h, x : Left(h, x) => Left(h, x)'
<1> DEFINE st == run.stack
<1>1. /\ st \in Seq(Seq(Commands)) /\ Tail(st) \in Seq(Seq(Commands)) /\ 1 \in DOMAIN st
      /\ st[1] \in Seq(Commands)
      /\ \A j \in DOMAIN st : j = 1 \/ (j - 1 \in DOMAIN Tail(st) /\ Tail(st)[j - 1] = st[j])
      /\ \A j \in DOMAIN Tail(st) : j + 1 \in DOMAIN st /\ Tail(st)[j] = st[j + 1]
  BY RunFields
<1>2. /\ run'.items = run.items /\ run'.cmds = st[1] /\ run'.undo = << >> /\ run'.stack = Tail(st)
      /\ run'.leaving = TRUE
      /\ run' = [run EXCEPT !.leaving = TRUE, !.cmds = st[1], !.stack = Tail(st)]
  BY RunFields
<1> HIDE DEF st
<1>3. run' \in Runs
  BY <1>1, <1>2 DEF RunInv, Runs
<1>4. /\ AddsNothing(run'.cmds) /\ AddsNothing(run'.undo)
      /\ \A j \in DOMAIN run'.stack : AddsNothing(run'.stack[j])
      /\ \A k \in DOMAIN run'.items : AddsNothing(run'.items[k].undo)
  BY <1>1, <1>2 DEF RunInv, st
<1>5. run'.cmds # << >> => Adds(Current') = {}
  <2>1. SUFFICES ASSUME run'.cmds # << >> PROVE Adds(Current') = {}
    OBVIOUS
  <2>2. Current' = run'.cmds[1] /\ 1 \in DOMAIN run'.cmds
    BY <1>1, <1>2, <2>1 DEF Current
  <2> QED  BY <1>4, <2>2 DEF AddsNothing
<1>6. RunInv'
  BY <1>2, <1>3, <1>4, <1>5 DEF RunInv
<1>7. ASSUME NEW h, NEW x, Left(h, x)
      PROVE  Left(h, x)'
  <2>1. Around(h, x)
    BY <1>7, CoversNothing DEF Left, ToCome, ItemsCover
  <2>2. PICK j \in DOMAIN st : Covers(st[j], h, x)
    BY <2>1 DEF Around, st
  <2>3. CASE j = 1
    BY <1>2, <2>2, <2>3 DEF Left
  <2>4. CASE j # 1
    <3>1. Around(h, x)'
      BY <1>1, <1>2, <2>2, <2>4 DEF Around
    <3> QED  BY <3>1 DEF Left
  <2> QED  BY <2>3, <2>4
<1> QED  BY <1>6, <1>7

LEMMA TestEnds ==
    ASSUME RunInv, run.cmds = << >>, run.undo = << >>, run.leaving \/ run.items = << >>, run.stack = << >>,
           run' = Idle
    PROVE  RunInv' /\ \A h, x : Left(h, x) => Left(h, x)'
<1>1. << >> \in Seq(Items) /\ << >> \in Seq(Commands) /\ << >> \in Seq(Seq(Commands))
  OBVIOUS
<1>2. run' \in Runs
  BY <1>1 DEF Idle, Runs
<1>3. RunInv'
  BY <1>2 DEF RunInv, Idle, AddsNothing
<1>4. \A h, x : ~Left(h, x)
  BY CoversNothing DEF Left, ToCome, ItemsCover, Around
<1> QED  BY <1>3, <1>4

LEMMA ProceedHolds == IInv /\ Proceed => IInv'
<1> SUFFICES ASSUME IInv, Proceed PROVE IInv'
  OBVIOUS
<1>1. run.cmds = << >> /\ UNCHANGED <<old, host, pending, req, again, result, late, excused, tests, faults, labels>>
  BY DEF Proceed
<1>2. run' =
        CASE run.undo # << >> -> [run EXCEPT !.undo = << >>, !.stack = <<run.undo>> \o @]
          [] run.undo = << >> /\ ~run.leaving /\ run.items # << >> ->
                 [run EXCEPT !.items = Tail(@), !.cmds = Head(run.items).cmds, !.undo = Head(run.items).undo]
          [] run.undo = << >> /\ (run.leaving \/ run.items = << >>) /\ run.stack # << >> ->
                 [run EXCEPT !.leaving = TRUE, !.cmds = Head(run.stack), !.stack = Tail(@)]
          [] OTHER -> Idle
  BY DEF Proceed
<1>3. RunInv' /\ \A h, x : Left(h, x) => Left(h, x)'
  <2>1. CASE run.undo # << >>
    BY <1>1, <1>2, <2>1, Enter DEF IInv
  <2>2. CASE run.undo = << >> /\ ~run.leaving /\ run.items # << >>
    BY <1>1, <1>2, <2>2, NextItem DEF IInv
  <2>3. CASE run.undo = << >> /\ (run.leaving \/ run.items = << >>) /\ run.stack # << >>
    BY <1>1, <1>2, <2>3, LeaveContext DEF IInv
  <2>4. CASE run.undo = << >> /\ (run.leaving \/ run.items = << >>) /\ run.stack = << >>
    BY <1>1, <1>2, <2>4, TestEnds DEF IInv
  <2> QED  BY <2>1, <2>2, <2>3, <2>4
<1>4. HostInv' /\ HostsTyped' /\ Counted'
  BY <1>1, PartsOfType DEF IInv, HostInv, HostsTyped, Busy, Counted
<1>5. ReqInv'
  BY <1>1, AskedCommand DEF ReqInv, Asked
<1>6. LeftInv'
  BY <1>1, <1>3 DEF IInv, LeftInv
<1> QED  BY <1>3, <1>4, <1>5, <1>6, NextTypeParts DEF IInv

\* A call that failed is blamed for what it leaves, and for no more.
LEMMA BlamedFits ==
    ASSUME IInv, run.cmds # << >>, Current.host \in Hosts, Returned \/ Raised, req' = Nothing,
           excused' = Blamed(Current), UNCHANGED <<host, pending>>
    PROVE  /\ excused' \in [Hosts -> SUBSET (Nets \cup {Bond})]
           /\ HostInv' /\ RunInv' /\ ReqInv' /\ LeftInv'
<1> DEFINE c == Current
           h == c.host
           ex == (excused[h] \cup Answerable(c)) \cap (Present(host[h]) \cup Gains(pending[h]))
<1>1. /\ excused' = [excused EXCEPT ![h] = ex]
      /\ host \in [Hosts -> HostConfigs] /\ excused \in [Hosts -> SUBSET (Nets \cup {Bond})]
  BY HostTyped DEF Blamed, IInv
<1>2. /\ excused'[h] = ex /\ \A g \in Hosts \ {h} : excused'[g] = excused[g]
  BY <1>1
<1>3. /\ IsConfig(host[h]) /\ Gains(pending[h]) \subseteq excused[h]
      /\ Gains(pending[h]) \subseteq Nets \cup {Bond} /\ Present(host[h]) \subseteq Nets \cup {Bond}
  <2>1. IsConfig(host[h]) /\ (pending[h] # Nothing => IsRequested(pending[h])) /\ Gains(pending[h]) \subseteq excused[h]
    BY DEF IInv, HostInv, Busy
  <2>2. Gains(pending[h]) \subseteq Nets \cup {Bond}
    BY <2>1, SmallRequests, GainsNets DEF Nets, Labelled
  <2> QED  BY <2>1, <2>2, PresentNets
<1>4. ASSUME NEW g \in Hosts, NEW x \in Present(host[g]) \ ({MgmtNetwork} \cup excused'[g])
      PROVE  x \in Present(host[g]) \ ({MgmtNetwork} \cup excused[g]) /\ ~Answers(Current, g, x)
  <2>1. CASE g = h
    BY <1>2, <2>1 DEF Answers
  <2>2. CASE g # h
    BY <1>2, <2>2 DEF Answers
  <2> QED  BY <2>1, <2>2
<1>5. ex \subseteq Nets \cup {Bond} /\ Gains(pending[h]) \subseteq ex
  BY <1>3
<1>6. excused' \in [Hosts -> SUBSET (Nets \cup {Bond})]
  BY <1>1, <1>5
<1>7. HostInv'
  <2> SUFFICES ASSUME NEW g \in Hosts
               PROVE  IsConfig(host[g]) /\ (pending[g] # Nothing => IsRequested(pending[g]))
                      /\ Gains(pending[g]) \subseteq excused'[g]
    BY DEF HostInv, Busy
  <2> HIDE DEF ex, h
  <2>1. Gains(pending[g]) \subseteq excused'[g]
    BY <1>2, <1>5 DEF IInv, HostInv
  <2> QED  BY <2>1 DEF IInv, HostInv, Busy
<1>8. RunInv'
  BY EndedRun DEF IInv
<1>9. ReqInv'
  BY DEF ReqInv, Asked
<1>10. LeftInv'
  <2> SUFFICES ASSUME NEW g \in Hosts, NEW x \in Present(host[g]) \ ({MgmtNetwork} \cup excused'[g])
               PROVE  Left(g, x)'
    BY DEF LeftInv
  <2>1. Left(g, x) /\ ~Answers(Current, g, x)
    BY <1>4 DEF IInv, LeftInv
  <2> QED  BY <2>1, EndedLeft DEF IInv
<1> QED  BY <1>6, <1>7, <1>8, <1>9, <1>10

\* Success and failure end the call, and that it was made again is over.
LEMMA EndedCall ==
    ASSUME Succeeds \/ Fails, result \in {"ok", "error"}
    PROVE  /\ again' = FALSE /\ result' \in {"ok", "error"}
           /\ Succeeds => Returned
           /\ Fails => Returned \/ Raised
BY DEF Succeeds, Fails

LEMMA CommandAt ==
    ASSUME IInv, run.cmds # << >>
    PROVE  /\ Current \in Commands
           /\ Current.host \in Hosts \cup {"cluster"} /\ (Current.host = "cluster" <=> Current.do = "sync_all")
           /\ "cluster" \notin Hosts
<1>1. Current \in Commands
  BY RunFields DEF IInv
<1> QED  BY <1>1, CommandFields DEF Hosts

LEMMA ComposeHolds == IInv /\ Compose => IInv'
<1> SUFFICES ASSUME IInv, Compose PROVE IInv'
  OBVIOUS
<1> DEFINE c == Current
           cfg == IF c.host = "cluster" THEN Clean ELSE host[c.host]
<1>1. /\ run.cmds # << >> /\ IsRequest(c) /\ req = Nothing
      /\ UNCHANGED <<old, host, pending, tests, faults, labels>>
  BY DEF Compose, Waiting
<1>2. c \in Commands /\ c.host \in Hosts \cup {"cluster"} /\ (c.host = "cluster" <=> c.do = "sync_all")
      /\ "cluster" \notin Hosts
  BY <1>1, CommandAt
<1>3. IsConfig(cfg)
  BY <1>2, SmallRequests DEF IInv, HostInv
<1>4. CASE Readable(c, cfg)
  <2>1. req' = Request(c, cfg) /\ late' = [h \in Hosts |-> {}]
        /\ UNCHANGED <<run, again, result, excused>>
    BY <1>4 DEF Compose
  <2>2. /\ IsRequested(req') /\ Gains(req') \subseteq Adds(c)
        /\ c.do = "setup" => /\ req'.set = c.data.nets
                             /\ cfg.on \subseteq req'.drop \cup c.data.nets \cup {MgmtNetwork}
        /\ \A h \in Hosts : \A x \in Present(cfg) \ {MgmtNetwork} :
               Removes(c, h, x) => x \in req'.drop \/ (x = Bond /\ req'.dropBond)
    BY <1>1, <1>2, <1>3, <2>1, RequestFits
  <2>3. Current' = c
    BY <2>1 DEF Current
  <2>4. \A h \in Hosts : \A x \in Present(host[h]) \ {MgmtNetwork} :
            Removes(c, h, x) => x \in req'.drop \/ (x = Bond /\ req'.dropBond)
    BY <1>2, <2>2 DEF Removes
  <2>5. c.do = "setup" => host[c.host].on \subseteq req'.drop \cup c.data.nets \cup {MgmtNetwork}
    BY <1>2, <2>2
  <2> HIDE DEF c, cfg
  <2>6. ReqInv'
    BY <1>1, <2>1, <2>2, <2>3, <2>4, <2>5 DEF ReqInv
  <2>7. RunInv' /\ HostInv' /\ LeftInv'
    BY <1>1, <2>1 DEF IInv, RunInv, Kept, Open, Around, ToCome, Current, HostInv, Busy, LeftInv, Left
  <2>8. HostsTyped' /\ Counted'
    BY <1>1, <2>1, <2>2, PartsOfType DEF IInv, HostsTyped, Counted, IsRequested
  <2> QED  BY <2>6, <2>7, <2>8, NextTypeParts DEF IInv
<1>5. CASE ~Readable(c, cfg)
  <2>1. /\ Fails /\ excused' = Blamed(c) /\ UNCHANGED <<req, late>>
        /\ Returned \/ Raised
        /\ again' = FALSE /\ result' \in {"ok", "error"}
    BY <1>5, EndedCall DEF Compose, IInv, TypeOK
  <2>2. c.host \in Hosts
    BY <1>2, <1>5 DEF Readable
  <2> HIDE DEF cfg
  <2>3. /\ excused' \in [Hosts -> SUBSET (Nets \cup {Bond})]
        /\ HostInv' /\ RunInv' /\ ReqInv' /\ LeftInv'
    BY <1>1, <2>1, <2>2, BlamedFits
  <2>4. HostsTyped' /\ Counted'
    BY <1>1, <2>1, <2>3, PartsOfType DEF IInv, HostsTyped, Counted
  <2> QED  BY <2>3, <2>4, NextTypeParts DEF IInv
<1> QED  BY <1>4, <1>5

LEMMA RefusedHolds == IInv /\ Refused => IInv'
<1> SUFFICES ASSUME IInv, Refused PROVE IInv'
  OBVIOUS
<1>1. run.cmds # << >> /\ Current.host \in Hosts
  BY AskedCommand DEF Refused
<1>2. /\ Returned \/ Raised
      /\ again' = FALSE /\ result' \in {"ok", "error"}
      /\ req' = Nothing /\ excused' = Blamed(Current)
      /\ UNCHANGED <<old, host, pending, late, tests, faults, labels>>
  BY EndedCall DEF Refused, IInv, TypeOK
<1>3. /\ excused' \in [Hosts -> SUBSET (Nets \cup {Bond})]
      /\ HostInv' /\ RunInv' /\ ReqInv' /\ LeftInv'
  BY <1>1, <1>2, BlamedFits
<1>4. HostsTyped' /\ Counted'
  BY <1>2, <1>3, PartsOfType DEF IInv, HostsTyped, Counted
<1> QED  BY <1>3, <1>4, NextTypeParts DEF IInv

\* A command that ends, changes no network of a host and answers for none.
LEMMA HarmlessEnd ==
    ASSUME IInv, run.cmds # << >>, Returned \/ Raised, req' = Nothing, UNCHANGED excused,
           \A h \in Hosts : Present(host'[h]) = Present(host[h]),
           \A h \in Hosts : \A x : ~Answers(Current, h, x)
    PROVE  RunInv' /\ ReqInv' /\ LeftInv'
<1>1. RunInv'
  BY EndedRun DEF IInv
<1>2. ReqInv'
  BY DEF ReqInv, Asked
<1>3. \A h \in Hosts : \A x : Left(h, x) => Left(h, x)'
  <2> TAKE h \in Hosts
  <2> TAKE x
  <2> QED  BY EndedLeft DEF IInv
<1>4. LeftInv'
  BY <1>3 DEF IInv, LeftInv
<1> QED  BY <1>1, <1>2, <1>4

LEMMA ConflictHolds == IInv /\ Conflict => IInv'
<1> SUFFICES ASSUME IInv, Conflict PROVE IInv'
  OBVIOUS
<1>1. /\ run.cmds # << >> /\ old
      /\ UNCHANGED <<old, host, pending, late, tests, labels>>
  BY AskedCommand DEF Conflict
<1>2. CASE Repeat
  <2>1. again' = TRUE /\ (req' = Nothing \/ req' = req) /\ UNCHANGED <<run, result, excused, faults>>
    BY <1>2 DEF Repeat
  <2>2. RunInv' /\ HostInv' /\ LeftInv'
    BY <1>1, <2>1 DEF IInv, RunInv, Kept, Open, Around, ToCome, Current, HostInv, Busy, LeftInv, Left
  <2>3. ReqInv'
    <3>1. CASE req' = Nothing
      BY <3>1 DEF ReqInv, Asked
    <3>2. CASE req' = req
      BY <1>1, <2>1, <3>2 DEF IInv, ReqInv, Asked, Current
    <3> QED  BY <2>1, <3>1, <3>2
  <2>4. HostsTyped' /\ Counted'
    BY <1>1, <2>1, PartsOfType DEF IInv, HostsTyped, Counted
  <2> QED  BY <2>2, <2>3, <2>4, NextTypeParts DEF IInv
<1>3. CASE /\ Retried(Current) /\ ~again => faults < MaxFaults
           /\ faults' = IF Retried(Current) /\ ~again THEN faults + 1 ELSE faults
           /\ req' = Nothing
           /\ Fails
           /\ excused' = IF Current.host = "cluster" THEN excused ELSE Blamed(Current)
  <2>0. /\ Returned \/ Raised
        /\ again' = FALSE /\ result' \in {"ok", "error"}
    BY <1>3, EndedCall DEF IInv, TypeOK
  <2>1. faults' \in 0 .. MaxFaults
    <3>1. faults \in 0 .. MaxFaults /\ MaxFaults \in Nat
      BY BoundsAssumption DEF IInv, TypeOK
    <3>2. CASE Retried(Current) /\ ~again
      BY <1>3, <3>1, <3>2
    <3>3. CASE ~(Retried(Current) /\ ~again)
      BY <1>3, <3>1, <3>3
    <3> QED  BY <3>2, <3>3
  <2>2. CASE Current.host = "cluster"
    <3>1. \A h \in Hosts : \A x : ~Answers(Current, h, x)
      BY <2>2 DEF Answers, Hosts
    <3>2. HostInv' /\ RunInv' /\ ReqInv' /\ LeftInv'
      BY <1>1, <1>3, <2>0, <2>2, <3>1, HarmlessEnd DEF IInv, HostInv, Busy
    <3>3. HostsTyped' /\ Counted'
      BY <1>1, <1>3, <2>0, <2>1, <2>2, PartsOfType DEF IInv, HostsTyped, Counted
    <3> QED  BY <3>2, <3>3, NextTypeParts DEF IInv
  <2>3. CASE Current.host # "cluster"
    <3>1. Current.host \in Hosts
      BY <1>1, <2>3, CommandAt
    <3>2. /\ excused' \in [Hosts -> SUBSET (Nets \cup {Bond})]
          /\ HostInv' /\ RunInv' /\ ReqInv' /\ LeftInv'
      BY <1>1, <1>3, <2>0, <2>3, <3>1, BlamedFits
    <3>3. HostsTyped' /\ Counted'
      BY <1>1, <1>3, <2>0, <2>1, <3>2, PartsOfType DEF IInv, HostsTyped, Counted
    <3> QED  BY <3>2, <3>3, NextTypeParts DEF IInv
  <2> QED  BY <2>2, <2>3
<1> QED  BY <1>2, <1>3 DEF Conflict

\* What a request that has been asked for makes of the host in the end.
LEMMA EffectiveFits ==
    ASSUME IInv, Asked
    PROVE  /\ IsRequested(Effective) /\ Gains(Effective) \subseteq Adds(Current)
           /\ Current.do # "copy" => Effective = req
<1>1. IsRequested(req) /\ Gains(req) \subseteq Adds(Current)
  BY DEF IInv, ReqInv
<1>2. CASE Current.do = "copy"
  <2>1. IsRequested(CopyRequest) /\ Gains(CopyRequest) \subseteq Labelled \cup {Bond}
    BY CopyFits DEF IInv, HostInv, Hosts
  <2> QED  BY <1>2, <2>1 DEF Effective, Adds
<1>3. CASE Current.do # "copy"
  BY <1>1, <1>3 DEF Effective
<1> QED  BY <1>2, <1>3

LEMMA AcceptedHolds == IInv /\ Accepted => IInv'
<1> SUFFICES ASSUME IInv, Accepted PROVE IInv'
  OBVIOUS
<1>1. /\ Asked /\ run.cmds # << >> /\ ~Refuses(req, host[Current.host]) /\ req' = Nothing
      /\ Effect(Current.host, Effective, Nothing, {}) /\ Returned
      /\ again' = FALSE /\ result' = "ok"
      /\ UNCHANGED <<old, tests, faults, labels>>
  BY AskedCommand DEF Accepted, Succeeds
<1> PICK h \in Hosts : h = Current.host
  BY DEF Accepted
<1> PICK r : r = Effective
  OBVIOUS
<1>2. IsRequested(r) /\ Gains(r) \subseteq Adds(Current) /\ (Current.do # "copy" => r = req)
  BY <1>1, EffectiveFits
<1>3. Effect(h, r, Nothing, {}) /\ Gains(Nothing) \subseteq {}
  BY <1>1, SmallRequests
<1>4. /\ host' \in [Hosts -> HostConfigs]
      /\ pending' \in [Hosts -> Requests \cup {Nothing}]
      /\ late' \in [Hosts -> SUBSET Nets]
      /\ excused' \in [Hosts -> SUBSET (Nets \cup {Bond})]
      /\ HostInv'
      /\ \A g \in Hosts : \A x \in Present(host'[g]) \ ({MgmtNetwork} \cup excused'[g]) :
            \/ g = h /\ x \in Gains(r)
            \/ /\ x \in Present(host[g]) \ ({MgmtNetwork} \cup excused[g])
               /\ g = h => Refuses(r, host[h]) \/ (x \notin r.drop /\ ~(x = Bond /\ r.dropBond))
  BY <1>2, <1>3, EffectFits DEF IInv
<1>5. RunInv'
  BY <1>1, ReturnedRun DEF IInv
<1>6. ReqInv'
  BY <1>1 DEF ReqInv, Asked
<1>7. LeftInv'
  <2> SUFFICES ASSUME NEW g \in Hosts, NEW x \in Present(host'[g]) \ ({MgmtNetwork} \cup excused'[g])
               PROVE  Left(g, x)'
    BY DEF LeftInv
  <2>1. CASE g = h /\ x \in Gains(r)
    <3>1. x \in Adds(Current) /\ g = Current.host
      BY <1>2, <2>1
    <3> QED  BY <1>1, <3>1, AddedLeft DEF IInv
  <2>2. CASE ~(g = h /\ x \in Gains(r))
    <3>1. /\ x \in Present(host[g]) \ ({MgmtNetwork} \cup excused[g])
          /\ g = h => Refuses(r, host[h]) \/ (x \notin r.drop /\ ~(x = Bond /\ r.dropBond))
      BY <1>4, <2>2
    <3>2. Left(g, x)
      BY <3>1 DEF IInv, LeftInv
    <3>3. ~Removes(Current, g, x)
      <4>1. SUFFICES ASSUME Removes(Current, g, x) PROVE FALSE
        OBVIOUS
      <4>2. g = h /\ Current.do # "copy"
        BY <4>1 DEF Removes
      <4>3. r = req /\ ~Refuses(r, host[h])
        BY <1>1, <1>2, <4>2
      <4>4. x \in req.drop \/ (x = Bond /\ req.dropBond)
        BY <1>1, <3>1, <4>1 DEF IInv, ReqInv
      <4> QED  BY <3>1, <4>2, <4>3, <4>4
    <3> QED  BY <1>1, <3>2, <3>3, ReturnedLeft DEF IInv
  <2> QED  BY <2>1, <2>2
<1>8. HostsTyped' /\ Counted'
  BY <1>1, <1>4, PartsOfType DEF IInv, HostsTyped, Counted
<1> QED  BY <1>4, <1>5, <1>6, <1>7, <1>8, NextTypeParts DEF IInv

LEMMA AnswerLostHolds == IInv /\ AnswerLost => IInv'
<1> SUFFICES ASSUME IInv, AnswerLost PROVE IInv'
  OBVIOUS
<1>1. /\ Asked /\ run.cmds # << >> /\ req' = Nothing
      /\ Returned \/ Raised
      /\ again' = FALSE /\ result' \in {"ok", "error"}
      /\ faults < MaxFaults /\ faults' = faults + 1
      /\ UNCHANGED <<old, tests, labels>>
  BY AskedCommand, EndedCall DEF AnswerLost, IInv, TypeOK
<1> PICK h \in Hosts : h = Current.host
  BY DEF AnswerLost
<1> PICK e : e = Effective
  OBVIOUS
<1> PICK blame : blame = Answerable(Current) \cup Gains(Effective)
  OBVIOUS
<1>2. Effect(h, e, Nothing, blame) \/ Effect(h, Empty, e, blame)
  BY DEF AnswerLost
<1>3. IsRequested(e) /\ Gains(e) \subseteq blame
  BY <1>1, EffectiveFits
<1>4. /\ host' \in [Hosts -> HostConfigs]
      /\ pending' \in [Hosts -> Requests \cup {Nothing}]
      /\ late' \in [Hosts -> SUBSET Nets]
      /\ excused' \in [Hosts -> SUBSET (Nets \cup {Bond})]
      /\ HostInv'
      /\ \A g \in Hosts : \A x \in Present(host'[g]) \ ({MgmtNetwork} \cup excused'[g]) :
            /\ g = h => x \notin blame
            /\ x \in Present(host[g]) \ ({MgmtNetwork} \cup excused[g])
  <2>1. CASE Effect(h, e, Nothing, blame)
    <3>1. Gains(Nothing) \subseteq blame
      BY SmallRequests
    <3> QED  BY <1>3, <2>1, <3>1, EffectFits DEF IInv
  <2>2. CASE Effect(h, Empty, e, blame)
    <3>1. IsRequested(Empty) /\ Gains(Empty) = {}
      BY SmallRequests
    <3> QED  BY <1>3, <2>2, <3>1, EffectFits DEF IInv
  <2> QED  BY <1>2, <2>1, <2>2
<1>5. RunInv'
  BY <1>1, EndedRun DEF IInv
<1>6. ReqInv'
  BY <1>1 DEF ReqInv, Asked
<1>7. LeftInv'
  <2> SUFFICES ASSUME NEW g \in Hosts, NEW x \in Present(host'[g]) \ ({MgmtNetwork} \cup excused'[g])
               PROVE  Left(g, x)'
    BY DEF LeftInv
  <2>1. Left(g, x)
    BY <1>4 DEF IInv, LeftInv
  <2>2. ~Answers(Current, g, x)
    BY <1>4 DEF Answers
  <2> QED  BY <1>1, <2>1, <2>2, EndedLeft DEF IInv
<1>8. HostsTyped' /\ Counted'
  <2>1. faults' \in 0 .. MaxFaults
    BY <1>1, BoundsAssumption DEF IInv, TypeOK
  <2> QED  BY <1>1, <1>4, <2>1, PartsOfType DEF IInv, HostsTyped, Counted
<1> QED  BY <1>4, <1>5, <1>6, <1>7, <1>8, NextTypeParts DEF IInv

\* A command that changes no network of a host and returns.
LEMMA HarmlessReturn ==
    ASSUME IInv, run.cmds # << >>, Returned, req' = Nothing, UNCHANGED excused,
           \A h \in Hosts : Present(host'[h]) = Present(host[h]),
           \A h \in Hosts : \A x : ~Removes(Current, h, x)
    PROVE  RunInv' /\ ReqInv' /\ LeftInv'
<1>1. RunInv'
  BY ReturnedRun DEF IInv
<1>2. ReqInv'
  BY DEF ReqInv, Asked
<1>3. \A h \in Hosts : \A x : Left(h, x) => Left(h, x)'
  <2> TAKE h \in Hosts
  <2> TAKE x
  <2> QED  BY ReturnedLeft DEF IInv
<1>4. LeftInv'
  BY <1>3 DEF IInv, LeftInv
<1> QED  BY <1>1, <1>2, <1>4

LEMMA SyncAcceptedHolds == IInv /\ SyncAccepted => IInv'
<1> SUFFICES ASSUME IInv, SyncAccepted PROVE IInv'
  OBVIOUS
<1>1. /\ run.cmds # << >> /\ Current.host = "cluster" /\ req' = Nothing /\ Returned
      /\ again' = FALSE /\ result' = "ok"
      /\ pending' = [h \in Hosts |-> SyncRequest]
      /\ UNCHANGED <<old, host, late, excused, tests, faults, labels>>
  BY AskedCommand DEF SyncAccepted, Succeeds
<1>2. \A h \in Hosts : \A x : ~Removes(Current, h, x)
  BY <1>1 DEF Removes, Hosts
<1>3. RunInv' /\ ReqInv' /\ LeftInv'
  BY <1>1, <1>2, HarmlessReturn
<1>4. HostInv'
  BY <1>1, SmallRequests DEF IInv, HostInv
<1>5. HostsTyped' /\ Counted'
  <2>1. SyncRequest \in Requests
    BY SmallRequests DEF IsRequested
  <2> QED  BY <1>1, <2>1, PartsOfType DEF IInv, HostsTyped, Counted
<1> QED  BY <1>3, <1>4, <1>5, NextTypeParts DEF IInv

LEMMA SetMtuHolds == IInv /\ SetMtu => IInv'
<1> SUFFICES ASSUME IInv, SetMtu PROVE IInv'
  OBVIOUS
<1> DEFINE h == Current.host
           stale == IF Current.do = "mtu" THEN host[h].stale \cup (Current.data.nets \cap host[h].on)
                                          ELSE host[h].stale \ Current.data.nets
           changed == [host EXCEPT ![h].stale = stale]
<1>1. /\ run.cmds # << >> /\ Current.do \in {"mtu", "mtu_back"} /\ (Returned \/ Raised)
      /\ host' \in {host, changed} /\ faults' \in {faults} \cup (IF faults < MaxFaults THEN {faults + 1} ELSE {})
      /\ UNCHANGED <<old, pending, req, again, result, late, excused, tests, labels>>
  BY DEF SetMtu
<1>0. faults' \in 0 .. MaxFaults
  BY <1>1, BoundsAssumption DEF IInv, TypeOK
<1>2. h \in Hosts /\ req' = Nothing
  BY <1>1, CommandAt, AskedCommand DEF IsRequest
<1>3. host \in [Hosts -> HostConfigs] /\ IsConfig(host[h])
  BY <1>2, HostTyped DEF IInv, HostInv
<1>4. stale \subseteq Nets
  BY <1>3, ConfigFields
<1> HIDE DEF h, stale
<1>5. /\ host'[h] = host[h] \/ host'[h] = [host[h] EXCEPT !.stale = stale]
      /\ DOMAIN host' = Hosts
      /\ \A g \in Hosts \ {h} : host'[g] = host[g]
  BY <1>1, <1>2, <1>3
<1> HIDE DEF changed
<1>6. /\ host'[h] \in HostConfigs /\ host'[h].on = host[h].on /\ host'[h].bonded = host[h].bonded
      /\ host'[h].bond = host[h].bond
  BY <1>3, <1>4, <1>5 DEF IsConfig, HostConfigs
<1>7. host' \in [Hosts -> HostConfigs]
  <2>1. \A g \in Hosts : host'[g] \in HostConfigs
    BY <1>3, <1>5, <1>6
  <2>2. host' = [g \in Hosts |-> host'[g]]
    <3>1. CASE host' = host
      BY <1>3, <3>1
    <3>2. CASE host' = changed
      BY <1>3, <3>2 DEF changed
    <3> QED  BY <1>1, <3>1, <3>2
  <2> QED  BY <2>1, <2>2
<1>8. \A g \in Hosts : IsConfig(host'[g]) /\ Present(host'[g]) = Present(host[g])
  <2> TAKE g \in Hosts
  <2>1. CASE g = h
    BY <1>3, <1>6, <2>1 DEF IsConfig, Present, Bonds
  <2>2. CASE g # h
    BY <1>5, <2>2 DEF IInv, HostInv
  <2> QED  BY <2>1, <2>2
<1>9. \A g \in Hosts : \A x : ~Answers(Current, g, x)
  BY <1>1 DEF Answers, Answerable
<1>10. RunInv' /\ ReqInv' /\ LeftInv'
  BY <1>1, <1>2, <1>8, <1>9, HarmlessEnd
<1>11. HostInv'
  BY <1>1, <1>8 DEF IInv, HostInv, Busy
<1>12. HostsTyped' /\ Counted'
  BY <1>0, <1>1, <1>7, PartsOfType DEF IInv, HostsTyped, Counted
<1> QED  BY <1>10, <1>11, <1>12, NextTypeParts DEF IInv

\* A command that only looks.
LEMMA LookHolds ==
    ASSUME IInv, run.cmds # << >>, Current.do \in {"wait_in_sync", "compare"}, Returned \/ Raised,
           UNCHANGED <<old, host, pending, req, again, result, late, excused, tests, labels>>, faults' \in 0 .. MaxFaults
    PROVE  IInv'
<1>1. Current \in Commands /\ Current.data = NoData
  BY CommandAt, CommandFields
<1>2. req' = Nothing
  BY AskedCommand DEF IsRequest
<1>3. \A h \in Hosts : \A x : ~Removes(Current, h, x) /\ ~Answers(Current, h, x)
  BY <1>1 DEF Removes, Answers, Answerable, NoData, Data, ToBonds
<1>4. RunInv' /\ ReqInv' /\ LeftInv'
  BY <1>2, <1>3, HarmlessReturn, HarmlessEnd
<1>5. HostInv'
  BY DEF IInv, HostInv, Busy
<1>6. HostsTyped' /\ Counted'
  BY PartsOfType DEF IInv, HostsTyped, Counted
<1> QED  BY <1>4, <1>5, <1>6, NextTypeParts DEF IInv

LEMMA WaitHolds == IInv /\ WaitForNetworksInSync => IInv'
<1> SUFFICES ASSUME IInv, WaitForNetworksInSync PROVE IInv'
  OBVIOUS
<1>1. faults' \in 0 .. MaxFaults /\ (Returned \/ Raised)
  BY BoundsAssumption DEF WaitForNetworksInSync, IInv, TypeOK
<1> QED  BY <1>1, LookHolds DEF WaitForNetworksInSync

LEMMA CompareHolds == IInv /\ Compare => IInv'
<1> SUFFICES ASSUME IInv, Compare PROVE IInv'
  OBVIOUS
<1>1. faults' \in 0 .. MaxFaults /\ (Returned \/ Raised)
  BY DEF Compare, IInv, TypeOK
<1> QED  BY <1>1, LookHolds DEF Compare

LEMMA FinishHolds == ASSUME IInv, NEW h \in Hosts, Finish(h) PROVE IInv'
<1> PICK r : r = pending[h]
  OBVIOUS
<1>1. IsRequested(r) /\ Gains(r) \subseteq excused[h]
  BY DEF Finish, IInv, HostInv
<1>2. /\ Effect(h, r, Nothing, {}) /\ Gains(Nothing) \subseteq {}
      /\ UNCHANGED <<old, run, req, again, result, tests, faults, labels>>
  BY SmallRequests DEF Finish
<1>3. HostInv' /\ RunInv' /\ ReqInv' /\ LeftInv'
  BY <1>1, <1>2, BehindFits
<1>4. HostsTyped'
  BY <1>1, <1>2, EffectFits DEF IInv, HostsTyped
<1>5. Counted'
  BY <1>2, PartsOfType DEF IInv, Counted
<1> QED  BY <1>3, <1>4, <1>5, NextTypeParts DEF IInv

LEMMA AttachHolds == ASSUME IInv, NEW h \in Hosts, AttachByLabel(h) PROVE IInv'
<1> PICK p : p = [Empty EXCEPT !.set = {"b"}]
  OBVIOUS
<1> PICK blame : blame = {"b"}
  OBVIOUS
<1>1. IsRequested(Empty) /\ Gains(Empty) = {} /\ IsRequested(p) /\ Gains(p) \subseteq blame
  BY SmallRequests
<1>2. /\ Effect(h, Empty, p, blame) /\ labels < MaxLabels /\ labels' = labels + 1
      /\ UNCHANGED <<old, run, req, again, result, tests, faults>>
  BY DEF AttachByLabel
<1>3. HostInv' /\ RunInv' /\ ReqInv' /\ LeftInv'
  BY <1>1, <1>2, BehindFits
<1>4. HostsTyped'
  BY <1>1, <1>2, EffectFits DEF IInv, HostsTyped
<1>5. Counted'
  BY <1>2, BoundsAssumption, PartsOfType DEF IInv, Counted
<1> QED  BY <1>3, <1>4, <1>5, NextTypeParts DEF IInv

LEMMA IdleHolds == IInv /\ UNCHANGED vars => IInv'
BY DEF IInv, TypeOK, RunInv, Kept, Open, Around, ToCome, Current, HostInv, Busy, LeftInv, Left, ReqInv, Asked, vars

LEMMA NextHolds == IInv /\ [Next]_vars => IInv'
<1> SUFFICES ASSUME IInv, [Next]_vars PROVE IInv'
  OBVIOUS
<1>1. CASE \E h \in Hosts : Finish(h) \/ AttachByLabel(h)
  BY <1>1, FinishHolds, AttachHolds
<1>2. CASE UNCHANGED vars
  BY <1>2, IdleHolds
<1> QED  BY <1>1, <1>2, NextTestHolds, ProceedHolds, ComposeHolds, ConflictHolds, RefusedHolds, AcceptedHolds,
            AnswerLostHolds, SyncAcceptedHolds, SetMtuHolds, WaitHolds, CompareHolds DEF Next, Terminated

LEMMA Invariance == Spec => []IInv
BY StartHolds, NextHolds, PTL DEF Spec

-----------------------------------------------------------------------------
(* What follows.                                                             *)

\* Every variable of the hosts, of the engine behind them and of the test keeps its type: a bond
\* with networks on it is there, and a context whose setup raised was never entered.
THEOREM NetworksTypeCorrect == Spec => []TypeOK
BY Invariance, PTL DEF IInv

\* No request of the library asks for the removal of the management network, and every host has
\* it: setup_networks and its kin reckon it among the networks that stay.
THEOREM MgmtIsSpared == Spec => []MgmtSpared
<1>1. IInv => MgmtSpared
  <2> SUFFICES ASSUME IInv PROVE MgmtSpared
    OBVIOUS
  <2>1. \A h \in Hosts : MgmtNetwork \in host[h].on
    BY DEF IInv, HostInv, IsConfig
  <2>2. CASE req = Nothing
    BY <2>1, <2>2 DEF MgmtSpared, Nothing
  <2>3. CASE req # Nothing
    <3>1. IsRequested(req)
      BY <2>3, AskedCommand DEF Asked
    <3> QED  BY <2>1, <3>1 DEF MgmtSpared, IsRequested
  <2> QED  BY <2>2, <2>3
<1> QED  BY <1>1, Invariance, PTL

\* When setup_networks returns, its host has the management network, the requested ones and, of
\* all others, at most those that came after the call had read the host; or else it was made again
\* on a suite below 4.4, and what it returns is an error (hostlib.py:65-79).
THEOREM SetupsAreDeclarative == Spec => SetupIsDeclarative
<1> DEFINE Answered(h) ==
        Asked /\ Current.do = "setup" /\ Current.host = h /\ req' = Nothing /\ ~run'.leaving
            /\ run'.cmds = Tail(run.cmds)
           Declared(h) ==
        /\ result' = "ok"
        /\ Current.data.nets \cup {MgmtNetwork} \subseteq host'[h].on
        /\ host'[h].on \subseteq Current.data.nets \cup {MgmtNetwork} \cup late[h]
           Repeated == result' = "error" /\ old /\ again
<1>1. ASSUME IInv, Next, NEW h \in Hosts, Answered(h)
      PROVE  Declared(h) \/ Repeated
  <2>1. /\ run.cmds # << >> /\ Current \in Commands /\ ~Current.swallow /\ IsRequest(Current)
        /\ req # Nothing /\ req' # req /\ h # "cluster"
    BY <1>1, AskedCommand, CommandAt, CommandFields DEF Asked, IInv
  <2>2. ~Raised
    BY <1>1, <2>1, RaisedFields DEF IInv
  <2>3. run' # run
    <3>1. run.cmds \in Seq(Commands)
      BY <1>1, RunFields DEF IInv
    <3>2. \A cs \in Seq(Commands) : cs # << >> => Tail(cs) # cs
      OBVIOUS
    <3> QED  BY <1>1, <2>1, <3>1, <3>2
  <2>4. CASE Fails
    BY <1>1, <2>2, <2>4 DEF Fails, IInv, TypeOK
  <2>5. CASE ~Fails
    <3>1. Accepted
      <4>1. ~NextTest /\ ~Compose /\ ~SetMtu /\ ~WaitForNetworksInSync /\ ~Compare /\ ~Terminated /\ ~Proceed
        BY <2>1 DEF NextTest, Compose, Waiting, SetMtu, WaitForNetworksInSync, Compare, Terminated, Proceed, vars
      <4>2. ~Conflict /\ ~Refused /\ ~AnswerLost
        BY <2>3, <2>5 DEF Conflict, Repeat, Refused, AnswerLost
      <4>3. ~SyncAccepted
        BY <1>1, <2>1 DEF SyncAccepted
      <4>4. ~ \E g \in Hosts : Finish(g) \/ AttachByLabel(g)
        BY <2>1 DEF Finish, AttachByLabel
      <4> QED  BY <1>1, <4>1, <4>2, <4>3, <4>4 DEF Next
    <3>2. ~Refuses(req, host[h]) /\ Effect(h, req, Nothing, {}) /\ result' = "ok"
      BY <1>1, <3>1 DEF Accepted, Effective, Succeeds
    <3>3. host'[h] = Applied(req, host[h])
      BY <1>1, <3>2, HostTyped DEF Effect, IInv
    <3>4. host'[h].on = (host[h].on \ req.drop) \cup req.set
      BY <3>3 DEF Applied
    <3>5. /\ req.set = Current.data.nets
          /\ host[h].on \subseteq req.drop \cup Current.data.nets \cup {MgmtNetwork} \cup late[h]
      BY <1>1 DEF IInv, ReqInv
    <3>6. MgmtNetwork \in host[h].on /\ MgmtNetwork \notin req.drop
      BY <2>1, AskedCommand, <1>1 DEF IInv, HostInv, IsConfig, IsRequested
    <3> QED  BY <3>2, <3>4, <3>5, <3>6
  <2> QED  BY <2>4, <2>5
<1>2. IInv /\ [Next]_vars
        => [\A h \in Hosts : Answered(h)
              => \/ Declared(h)
                 \/ Repeated]_vars
  BY <1>1
<1> QED  BY <1>2, Invariance, PTL DEF Spec, SetupIsDeclarative

\* Between two tests a host has, beyond the management network, only what the engine attached
\* itself, what a request brought whose answer was lost, or what the very command that was to
\* remove it failed to remove, whether its error was raised, swallowed or, behind a conflict below
\* 4.4, returned.
THEOREM NothingIsLeftBehind == Spec => []NothingLeftBehind
<1>1. IInv => NothingLeftBehind
  BY IdleLeavesNothing DEF IInv, LeftInv, NothingLeftBehind, Running
<1> QED  BY <1>1, Invariance, PTL
=============================================================================
