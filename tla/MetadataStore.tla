--------------------------- MODULE MetadataStore ---------------------------
(***************************************************************************)
(* store/metadata.go: how MetadataStore.Reload turns the metadata service  *)
(* into the entries the backends work from; the two callers of it, the     *)
(* change handler (mdchandler, driven by the client's OnChange loop) and   *)
(* the HTTP handler (server/web.go); and the ARP proxy (arp_proxy.go),     *)
(* which looks addresses up while a Reload is publishing.                  *)
(*                                                                         *)
(* Reload makes one request after the other and the document may change    *)
(* between them; its result is published field by field without a lock.    *)
(* The documents that the modules IpsecConfigure and VxlanOverlay take as  *)
(* given are what this module publishes.                                   *)
(***************************************************************************)
EXTENDS Naturals, Sequences, FiniteSets

CONSTANTS
  Md, Web,        \* the change handler's goroutine; goroutines of the HTTP server
  Ip, NoIp,       \* primary addresses; the empty one
  Host, Agent, NoAgent,   \* host uuids; their agent addresses; the address of an unlisted host
  Net, NetName, NoName,   \* networks, their names, the name of an unlisted network
  Service,        \* names of system services, this agent's own among them
  Own,            \* this agent's own service
  Doc,            \* documents the metadata service may serve
  ClientIp,       \* the -metadata-client-ip flag, or NoIp
  MaxChange, MaxFault, MaxWeb   \* bounds: changes, failed requests, reloads over HTTP

Caller    == {Md} \cup Web
Container == [ip: Ip \cup {NoIp}, host: Host, net: Net, shared: BOOLEAN]
Entry     == [ip: Ip \cup {NoIp}, host: Agent \cup {NoAgent}, self: BOOLEAN, peer: BOOLEAN]

(* A document: this agent's container, the agents' addresses, all          *)
(* containers in the order served, the services with their links and       *)
(* containers, the networks' names.  The agent's container is listed, its  *)
(* network and host are known, and its address is its own but for the      *)
(* containers that share a network namespace with it; one of them does not *)
(* take its network from another.                                          *)
ASSUME MetadataDocAssumption ==
  \A d \in Doc :
    /\ d.self \in Container /\ d.self.ip \in Ip
    /\ d.hosts \in [Host -> Agent \cup {NoAgent}] /\ d.nets \in [Net -> NetName \cup {NoName}]
    /\ d.containers \in Seq(Container)
    /\ d.links \in [Service -> SUBSET Service] /\ d.members \in [Service -> SUBSET Container]
    /\ d.self \in {d.containers[i] : i \in DOMAIN d.containers}
    /\ \A i \in DOMAIN d.containers : d.containers[i].ip = d.self.ip =>
         d.containers[i].host = d.self.host /\ d.containers[i].net = d.self.net
    /\ \E i \in DOMAIN d.containers : d.containers[i].ip = d.self.ip /\ ~d.containers[i].shared
    /\ d.hosts[d.self.host] # NoAgent /\ d.nets[d.self.net] # NoName

(* The agent's container keeps its address, host and network as long as    *)
(* the agent runs in it.  The address of the flag is also the one by which *)
(* the metadata service recognises the agent (NewClientWithIPAndWait).     *)
ASSUME MetadataSelfAssumption ==
  \A d \in Doc : /\ ClientIp # NoIp => d.self.ip = ClientIp
                 /\ \A e \in Doc : /\ d.self.ip = e.self.ip /\ d.self.host = e.self.host
                                   /\ d.self.net = e.self.net

(* An agent's address is that of one host, so that it does not matter      *)
(* which of the peers with an address peersMap keeps.                      *)
ASSUME MetadataPeerAssumption ==
  \A d, e \in Doc : \A s, t \in Service : \A c \in d.members[s], b \in e.members[t] :
    c.ip = b.ip /\ c.ip # NoIp => c.host = b.host

ASSUME MetadataConstantAssumption ==
  /\ Md \notin Web /\ Own \in Service /\ NoIp \notin Ip /\ NoAgent \notin Agent
  /\ NoName \notin NetName /\ ClientIp \in Ip \cup {NoIp}
  /\ MaxChange \in Nat /\ MaxFault \in Nat /\ MaxWeb \in Nat

VARIABLES
  doc, version, seen,    \* the service's document and version; the version OnChange last acted on
  pc, got,               \* per caller: the next request of its Reload; the answers so far
  info, self, entries, peers, local, remote, nonPeers,   \* the store's fields
  built,                 \* per caller: the maps doInternalRefresh has built
  last,                  \* outcome of the last Reload that returned
  arp,                   \* the address the ARP proxy has not found in local and looks up in remote, or NoIp
  away,                  \* history: addresses that some document served so far puts on another host
  overlap,               \* history: have two Reloads been in progress together?
  changes, faults, webs

storeVars == <<info, self, entries, peers, local, remote, nonPeers>>
vars == <<doc, version, seen, pc, got, storeVars, built, last, arp, away, overlap, changes,
          faults, webs>>
arpVars == <<arp, away>>

Fault   == faults > 0 /\ faults' = faults - 1
NoFault == UNCHANGED faults

-----------------------------------------------------------------------------
(* doInternalRefresh as functions of the fetched information m.            *)

(* Mutant: an entry carries its host's uuid.                               *)
EntryByUuid(m, c) == [ip |-> c.ip, host |-> c.host, self |-> c.ip = m.self.ip, peer |-> FALSE]

(* getEntryFromContainer: the host's address is looked up in the hosts as  *)
(* fetched, and is empty for a host that was not listed then.              *)
EntryOf(m, c) == [ip |-> c.ip, host |-> m.hosts[c.host], self |-> c.ip = m.self.ip, peer |-> FALSE]
AsPeer(e)     == [e EXCEPT !.peer = TRUE]

(* getLinkedPeersInfo: the services this one links to or, if it links to   *)
(* none, those that link to it; of these the containers on networks with   *)
(* the name of this agent's network.  A link to itself finds nothing       *)
(* (getServicesMapByName leaves the own service out).                      *)
ServicesByName == Service \ {Own}

LinkedServices(m) ==
  ServicesByName \cap
    (IF m.links[Own] # {} THEN m.links[Own] ELSE {s \in Service : Own \in m.links[s]})

LinkedContainers(m) ==
  {c \in UNION {m.members[s] : s \in LinkedServices(m)} : m.nets[c.net] = m.nets[m.self.net]}

PeersNetworks(m) == {m.self.net} \cup {c.net : c \in LinkedContainers(m)}

(* peersMap, keyed by address (MetadataPeerAssumption); peers without an   *)
(* address are kept apart here and looked up by nobody.                    *)
PeersMap(m) == {AsPeer(EntryOf(m, c)) : c \in m.own \cup LinkedContainers(m)}

Eligible(m, i) ==
  LET c == m.containers[i] IN c.net \in PeersNetworks(m) /\ c.ip # NoIp /\ ~c.shared

(* Mutant: an address may occur in several entries.                        *)
Unseen(m, i) == Eligible(m, i)

(* The first of the eligible containers with its address (seen).           *)
First(m, i) ==
  Eligible(m, i) /\ \A j \in 1..(i - 1) : Eligible(m, j) => m.containers[j].ip # m.containers[i].ip

Entries(m) ==
  LET keys == {p.ip : p \in PeersMap(m)} IN
  {LET e == EntryOf(m, m.containers[i]) IN IF e.ip \in keys THEN AsPeer(e) ELSE e :
     i \in {j \in DOMAIN m.containers : First(m, j)}}

(* Mutant: only this agent's own address is local.                         *)
MapsBySelf(m, s) ==
  LET es == Entries(m) IN
  [entries |-> es, peers |-> PeersMap(m), local |-> {e \in es : e.self},
   remote |-> {e \in es : ~e.self}, nonPeers |-> {e \in es : ~e.self /\ ~e.peer}]

Maps(m, s) ==
  LET es == Entries(m) IN
  [entries  |-> es,
   peers    |-> PeersMap(m),
   local    |-> {e \in es : e.host = s.host},
   remote   |-> {e \in es : e.host # s.host},
   nonPeers |-> {e \in es : e.host # s.host /\ ~e.peer}]

(* Mutant: peers are kept in the map of the other remote entries.          *)
SimpleMapsPeers(es) ==
  LET me     == CHOOSE e \in es : e.self
      listed == {e \in es : e.ip # NoIp}
      remotes == {e \in listed : e.host # me.host}
  IN [entries |-> listed, peers |-> {e \in listed : e.peer}, local |-> listed \ remotes,
      remote |-> remotes, nonPeers |-> remotes]

(* store/simple.go: what Simple.Reload, without -local-ip, makes of a file *)
(* with the records es, one per address and one of them Self.              *)
SimpleMaps(es) ==
  LET me     == CHOOSE e \in es : e.self
      listed == {e \in es : e.ip # NoIp}
      remotes == {e \in listed : e.host # me.host}
  IN [entries |-> listed, peers |-> {e \in listed : e.peer}, local |-> listed \ remotes,
      remote |-> remotes, nonPeers |-> {e \in remotes : ~e.peer}]

NoMaps == [entries |-> {}, peers |-> {}, local |-> {}, remote |-> {}, nonPeers |-> {}]

(* The information as one request after the other collects it.             *)
Whole(d) == [self |-> d.self, hosts |-> d.hosts, containers |-> d.containers, links |-> d.links,
             members |-> d.members, own |-> d.members[Own], nets |-> d.nets]

Nothing == [self |-> NoIp, hosts |-> [h \in Host |-> NoAgent], containers |-> <<>>,
            links |-> [s \in Service |-> {}], members |-> [s \in Service |-> {}], own |-> {},
            nets |-> [n \in Net |-> NoName]]

Elsewhere(d) == {c.ip : c \in {d.containers[i] : i \in {j \in DOMAIN d.containers :
                                                            d.containers[j].host # d.self.host}}}

Init ==
  /\ doc \in Doc /\ version = 1 /\ seen = 0
  /\ pc = [r \in Caller |-> "idle"] /\ got = [r \in Caller |-> Nothing]
  /\ info = Whole(doc) /\ self = EntryOf(info, info.self)
  /\ LET m == Maps(info, self) IN
     entries = m.entries /\ peers = m.peers /\ local = m.local /\ remote = m.remote /\ nonPeers = m.nonPeers
  /\ built = [r \in Caller |-> NoMaps] /\ last = "nil" /\ overlap = FALSE
  /\ arp = NoIp /\ away = Elsewhere(doc)
  /\ changes = MaxChange /\ faults = MaxFault /\ webs = MaxWeb

ChangeDoc ==
  /\ changes > 0 /\ changes' = changes - 1
  /\ doc' \in Doc \ {doc} /\ version' = version + 1
  /\ away' = away \cup Elsewhere(doc')
  /\ UNCHANGED <<seen, arp, pc, got, storeVars, built, last, overlap, faults, webs>>

-----------------------------------------------------------------------------
(* Reload.  Goto moves on, Take stores an answer, Return ends the call.    *)
Goto(r, phase) == pc' = [pc EXCEPT ![r] = phase]
Take(r, field, value) == got' = [got EXCEPT ![r] = [@ EXCEPT ![field] = value]]

(* A request failed, or what it returned cannot be used: Reload returns an *)
(* error that the callers log or report, and nothing is published.         *)
Return(r, outcome) ==
  Goto(r, "idle") /\ last' = outcome /\ got' = [got EXCEPT ![r] = Nothing]
Failed(r) == Return(r, "err")

Begin(r) ==
  /\ pc[r] = "idle" /\ Goto(r, "self")
  /\ overlap' = (overlap \/ \E q \in Caller : pc[q] # "idle")
  /\ UNCHANGED <<doc, version, got, storeVars, built, last, arpVars, changes, faults>>

(* Mutants: the version is recorded only when the Reload has returned; a   *)
(* change that finds a Reload in progress is recorded and not acted on.    *)
OnChangeLate ==
  /\ \/ pc[Md] = "idle" /\ seen # version /\ Begin(Md) /\ UNCHANGED <<seen, webs>>
     \/ /\ seen # version /\ pc[Md] = "remote" /\ seen' = version
        /\ UNCHANGED <<doc, version, pc, got, storeVars, built, last, arpVars, overlap, changes, faults,
                       webs>>

OnChangeDropped ==
  /\ seen # version /\ seen' = version
  /\ IF pc[Md] = "idle" THEN Begin(Md)
     ELSE UNCHANGED <<doc, version, pc, got, storeVars, built, last, arpVars, overlap, changes, faults>>
  /\ UNCHANGED webs

(* The client's loop: a version other than the last one it acted on is     *)
(* recorded and then OnChangeHandler calls Reload, whatever comes of it.   *)
OnChange == seen # version /\ seen' = version /\ Begin(Md) /\ UNCHANGED webs

HttpReload(r) == webs > 0 /\ webs' = webs - 1 /\ Begin(r) /\ UNCHANGED seen

otherVars == <<doc, version, seen, storeVars, built, arpVars, overlap, changes, webs>>

(* GetSelfContainer: an error is kept and matters only further down.       *)
RequestSelf(r) ==
  /\ pc[r] = "self"
  /\ \/ NoFault /\ Goto(r, "hosts") /\ Take(r, "self", doc.self)
     \/ Fault /\ Goto(r, "hostsNoSelf") /\ UNCHANGED got
  /\ UNCHANGED <<otherVars, last>>

RequestHosts(r) ==
  /\ pc[r] \in {"hosts", "hostsNoSelf"}
  /\ \/ /\ NoFault /\ Take(r, "hosts", doc.hosts) /\ UNCHANGED last
        /\ Goto(r, IF pc[r] = "hosts" THEN "containers" ELSE "containersNoSelf")
     \/ Fault /\ Failed(r)
  /\ UNCHANGED otherVars

RequestContainers(r) ==
  /\ pc[r] \in {"containers", "containersNoSelf"}
  /\ \/ /\ NoFault /\ Take(r, "containers", doc.containers) /\ UNCHANGED last
        /\ Goto(r, IF pc[r] = "containers" THEN "services" ELSE "servicesNoSelf")
     \/ Fault /\ Failed(r)
  /\ UNCHANGED otherVars

(* findSelfContainerByIP (the first match), findHostByUUID; this agent's   *)
(* service is always among the services (findServiceForContainer).         *)
SelfCandidates(m) == {i \in DOMAIN m.containers : m.containers[i].ip = ClientIp}
SelfByIp(m) ==
  m.containers[CHOOSE i \in SelfCandidates(m) : \A j \in SelfCandidates(m) : i <= j]
FallbackFound(m) ==
  ClientIp # NoIp /\ SelfCandidates(m) # {} /\ m.hosts[SelfByIp(m).host] # NoAgent

(* With the services Reload knows whether it can do without the answer to  *)
(* GetSelfContainer.                                                       *)
RequestServices(r) ==
  LET m == [got[r] EXCEPT !.links = doc.links, !.members = doc.members] IN
  /\ pc[r] \in {"services", "servicesNoSelf"}
  /\ \/ Fault /\ Failed(r)
     \/ /\ pc[r] = "services" /\ NoFault /\ UNCHANGED last
        /\ got' = [got EXCEPT ![r] = m] /\ Goto(r, "ownService")
     \/ /\ pc[r] = "servicesNoSelf" /\ NoFault
        /\ IF FallbackFound(m)
           THEN /\ Goto(r, "networks") /\ UNCHANGED last
                /\ got' = [got EXCEPT ![r] = [m EXCEPT !.self = SelfByIp(m), !.own = doc.members[Own]]]
           ELSE Failed(r)
  /\ UNCHANGED otherVars

(* GetSelfHost (its answer is not used) and GetSelfService                 *)
RequestOwnService(r) ==
  /\ pc[r] = "ownService"
  /\ \/ /\ NoFault /\ Goto(r, "networks") /\ UNCHANGED last
        /\ got' = [got EXCEPT ![r] = [@ EXCEPT !.own = doc.members[Own], !.links[Own] = doc.links[Own]]]
     \/ Fault /\ Failed(r)
  /\ UNCHANGED otherVars

RequestNetworks(r) ==
  /\ pc[r] = "networks"
  /\ \/ /\ NoFault /\ doc.nets[got[r].self.net] # NoName
        /\ Take(r, "nets", doc.nets) /\ Goto(r, "publish") /\ UNCHANGED last
     \/ /\ IF doc.nets[got[r].self.net] = NoName THEN NoFault ELSE Fault
        /\ Failed(r)
  /\ UNCHANGED otherVars

(* ms.info = info, which another Reload may replace before it is read.     *)
PublishInfo(r) ==
  /\ pc[r] = "publish" /\ Goto(r, "self=") /\ info' = got[r]
  /\ UNCHANGED <<doc, version, seen, got, self, entries, peers, local, remote, nonPeers, built, last,
                 arpVars, overlap, changes, faults, webs>>

PublishSelf(r) ==
  /\ pc[r] = "self=" /\ Goto(r, "build") /\ self' = EntryOf(info, info.self)
  /\ UNCHANGED <<doc, version, seen, got, info, entries, peers, local, remote, nonPeers, built, last,
                 arpVars, overlap, changes, faults, webs>>

(* The loops of doInternalRefresh read ms.info and ms.self, whoever wrote  *)
(* them last; then the fields are assigned.  peers is what this assigns:   *)
(* PeerEntriesMap hands out the map itself (metadata.go:171-173), and the  *)
(* VXLAN backend deletes this host's own entry from it (vxlan.go:114-115), *)
(* so that under VXLAN ms.peersMap lacks that entry until the next Reload. *)
(* Nothing else reads ms.peersMap there.                                   *)
PublishLocal(r) ==
  LET m == Maps(info, self) IN
  /\ pc[r] = "build" /\ Goto(r, "remote") /\ built' = [built EXCEPT ![r] = m]
  /\ entries' = m.entries /\ peers' = m.peers /\ local' = m.local
  /\ UNCHANGED <<doc, version, seen, got, info, self, remote, nonPeers, last, arpVars, overlap, changes,
                 faults, webs>>

PublishRemote(r) ==
  /\ pc[r] = "remote" /\ Return(r, "nil")
  /\ remote' = built[r].remote /\ nonPeers' = built[r].nonPeers
  /\ built' = [built EXCEPT ![r] = NoMaps]
  /\ UNCHANGED <<doc, version, seen, info, self, entries, peers, local, arpVars, overlap, changes, faults,
                 webs>>

-----------------------------------------------------------------------------
(* The ARP proxy.  IsRemote looks an address up in local and then, if it   *)
(* is not there, in remote; the proxy answers if it is found then.         *)
Keys(es) == {e.ip : e \in es}

ArpRequest(i) ==
  /\ arp = NoIp /\ i \notin Keys(local) /\ arp' = i
  /\ UNCHANGED <<doc, version, seen, pc, got, storeVars, built, last, away, overlap, changes, faults, webs>>

Answers == arp # NoIp /\ arp \in Keys(remote)

ArpDone ==
  /\ arp # NoIp /\ arp' = NoIp
  /\ UNCHANGED <<doc, version, seen, pc, got, storeVars, built, last, away, overlap, changes, faults, webs>>

ReloadStep(r) ==
  \/ RequestSelf(r) \/ RequestHosts(r) \/ RequestContainers(r) \/ RequestServices(r)
  \/ RequestOwnService(r) \/ RequestNetworks(r) \/ PublishInfo(r) \/ PublishSelf(r)
  \/ PublishLocal(r) \/ PublishRemote(r)

Idle == (\A r \in Caller : pc[r] = "idle") /\ seen = version /\ UNCHANGED vars

Next ==
  \/ ChangeDoc \/ OnChange \/ Idle \/ ArpDone
  \/ \E i \in Ip : ArpRequest(i)
  \/ \E r \in Web : HttpReload(r)
  \/ \E r \in Caller : ReloadStep(r)

(* OnChange keeps polling, the goroutines run and requests end.            *)
Fairness == WF_vars(OnChange) /\ \A r \in Caller : WF_vars(ReloadStep(r))

Spec     == Init /\ [][Next]_vars
FairSpec == Spec /\ Fairness

-----------------------------------------------------------------------------
InfoOK(m) ==
  /\ m.self \in Container \cup {NoIp} /\ m.hosts \in [Host -> Agent \cup {NoAgent}]
  /\ m.own \in SUBSET Container /\ m.members \in [Service -> SUBSET Container]
  /\ m.links \in [Service -> SUBSET Service] /\ m.nets \in [Net -> NetName \cup {NoName}]

(* Type invariant of the store, its callers and the metadata service.      *)
TypeOK ==
  /\ doc \in Doc /\ version \in 1..(MaxChange + 1) /\ seen \in 0..version
  /\ DOMAIN pc = Caller /\ \A r \in Caller : InfoOK(got[r])
  /\ InfoOK(info) /\ self \in Entry
  /\ \A es \in {entries, peers, local, remote, nonPeers} : es \in SUBSET Entry
  /\ last \in {"nil", "err"} /\ overlap \in BOOLEAN /\ arp \in Ip \cup {NoIp} /\ away \subseteq Ip \cup {NoIp}

OnePerAddress(es) == \A e, f \in es : e.ip = f.ip => e = f

(* Whatever mixture of documents a Reload has seen, the list it publishes  *)
(* names an address once, and as long as Reloads do not overlap, what it   *)
(* has finished publishing splits that list into local and remote entries  *)
(* and keeps peers and other remote entries apart: the assumptions of the  *)
(* two backends on the store (DocAssumption, VxlanDocAssumption).          *)
(* metadata.go:280-351.                                                    *)
StoreSplitsEntries ==
  /\ OnePerAddress(entries) /\ OnePerAddress(remote) /\ OnePerAddress(nonPeers)
  /\ NoIp \notin Keys(entries)
  /\ (~overlap /\ \A r \in Caller : pc[r] # "remote") =>
       /\ local \cup remote = entries /\ Keys(local) \cap Keys(remote) = {}
       /\ Keys(nonPeers) \cap Keys(peers) = {} /\ nonPeers \subseteq remote

(* The ARP proxy never answers for a container that every document puts on *)
(* this host, although it reads local and remote at different moments of a *)
(* Reload, and although the Reload may have mixed documents.  Two Reloads  *)
(* that overlap while this host's agent address changes can make it do so: *)
(* one then splits the entries of the newer document with the address of   *)
(* the older.  metadata.go:131-143, 280-351, arp_proxy.go:26-46.           *)
LocalNeverProxied == ~overlap /\ Answers => arp \in away

View == Maps(Whole(doc), EntryOf(Whole(doc), doc.self))
Store == [entries |-> entries, peers |-> peers, local |-> local, remote |-> remote, nonPeers |-> nonPeers]

(* The two stores agree: a file with the entries the metadata store has    *)
(* published gives the file store the same maps, up to peers without an    *)
(* entry of their own, whichever documents the Reload has mixed, as long   *)
(* as they put an agent's address on one host.                             *)
(* simple.go:61-146, metadata.go:280-351; metadata_test.go:32-87.          *)
FileStoreAgrees ==
  (~overlap /\ \A r \in Caller : pc[r] \notin {"self=", "build", "remote"}) =>
    /\ \E e \in entries : e.self
    /\ SimpleMaps(entries) = [Store EXCEPT !.peers = {e \in @ : e.ip \in Keys(entries)}]

(* When nothing is in progress, the last version has been acted on, the    *)
(* last Reload succeeded and no two Reloads overlapped, the store holds    *)
(* exactly what the document says: a Reload that mixed two documents (a    *)
(* container whose host was not listed yet, say) is never the last one.    *)
(* metadata.go:379-472, vendored change.go:35-48.                          *)
SettledStoreIsCurrent ==
  (seen = version /\ last = "nil" /\ ~overlap /\ \A r \in Caller : pc[r] = "idle") => Store = View

(* And the store does settle: after the last change it stays current for   *)
(* good.  The two ways out are a Reload that failed, which is only logged  *)
(* (metadata_change_handler.go:37-40), and an older Reload that publishes  *)
(* after a newer one (metadata.go:470).                                    *)
StoreCatchesUp == <>[](last = "nil" /\ ~overlap => Store = View)

=============================================================================
