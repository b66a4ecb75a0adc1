------------------------- MODULE MetadataStoreProofs -------------------------
(***************************************************************************)
(* Type correctness, StoreSplitsEntries, LocalNeverProxied and             *)
(* SettledStoreIsCurrent of MetadataStore for any callers, containers,     *)
(* services and documents, and FileStoreAgrees for documents that keep an  *)
(* agent's address on one host.                                            *)
(***************************************************************************)
EXTENDS MetadataStore, WellFoundedInduction, TLAPS

Info ==
  [self: Container \cup {NoIp}, hosts: [Host -> Agent \cup {NoAgent}], containers: Seq(Container),
   links: [Service -> SUBSET Service], members: [Service -> SUBSET Container],
   own: SUBSET Container, nets: [Net -> NetName \cup {NoName}]]
MapsRec == [entries: SUBSET Entry, peers: SUBSET Entry, local: SUBSET Entry, remote: SUBSET Entry,
            nonPeers: SUBSET Entry]

(* The phases of Reload by what has been fetched.                          *)
Publishing    == {"self=", "build", "remote"}
NetsGot       == {"publish"}
OwnGot        == {"networks"} \cup NetsGot
ServicesGot   == {"ownService"} \cup OwnGot
ContainersGot == {"services", "servicesNoSelf"} \cup ServicesGot
HostsGot      == {"containers", "containersNoSelf"} \cup ContainersGot
SelfGot       == {"hosts", "containers", "services"} \cup ServicesGot
Phase == {"idle", "self", "hosts", "hostsNoSelf"} \cup HostsGot \cup Publishing

ServiceShape ==
  /\ doc \in Doc /\ version \in Nat /\ changes \in 0..MaxChange
  /\ version + changes = MaxChange + 1 /\ seen \in 0..version
  /\ last \in {"nil", "err"} /\ overlap \in BOOLEAN /\ arp \in Ip \cup {NoIp} /\ away \subseteq Ip \cup {NoIp}
CallerShape ==
  /\ pc \in [Caller -> Phase] /\ got \in [Caller -> Info] /\ built \in [Caller -> MapsRec]
  /\ \A r \in Caller : pc[r] \in SelfGot => got[r].self \in Container
StoreShape == info \in Info /\ info.self \in Container /\ self \in Entry /\ Store \in MapsRec

(* As long as Reloads have not overlapped one of them at most is running.  *)
Solo == ~overlap => \A q, r \in Caller : pc[q] # "idle" /\ pc[r] # "idle" => q = r

(* An address occurs once, in what is published and in what is about to be.*)
Unique ==
  /\ OnePerAddress(entries) /\ OnePerAddress(remote) /\ OnePerAddress(nonPeers) /\ NoIp \notin Keys(entries)
  /\ \A r \in Caller : pc[r] = "remote" => OnePerAddress(built[r].remote) /\ OnePerAddress(built[r].nonPeers)

(* What the maps promise of each other.                                    *)
SplitOK(m) ==
  /\ m.local \cup m.remote = m.entries /\ Keys(m.local) \cap Keys(m.remote) = {}
  /\ Keys(m.nonPeers) \cap Keys(m.peers) = {} /\ m.nonPeers \subseteq m.remote

Split == (~overlap /\ \A r \in Caller : pc[r] # "remote") => SplitOK(Store)

(* A Reload that is alone writes what it has built from what it published. *)
Written ==
  ~overlap => \A r \in Caller :
    /\ pc[r] \in {"build", "remote"} => self = EntryOf(info, info.self)
    /\ pc[r] = "remote" => /\ built[r] = Maps(info, self)
                           /\ entries = built[r].entries /\ peers = built[r].peers /\ local = built[r].local

(* The containers fetched are those of a document served before.           *)
Served(cs) == \E d \in Doc : cs = d.containers /\ Elsewhere(d) \subseteq away
SameSelf(c) == c.ip = doc.self.ip /\ c.host = doc.self.host /\ c.net = doc.self.net

Fetched ==
  /\ \A r \in Caller : /\ pc[r] \in ContainersGot => Served(got[r].containers)
                       /\ pc[r] \in SelfGot => SameSelf(got[r].self)
  /\ Elsewhere(doc) \subseteq away /\ Served(info.containers) /\ SameSelf(info.self)

Proxied ==
  ~overlap => /\ Keys(remote) \subseteq away
              /\ \A r \in Caller : pc[r] = "remote" => Keys(built[r].remote) \subseteq away

(* Once the last version has been acted on, a Reload that is alone fetches *)
(* the fields of one document.                                             *)
Agrees(phase, m) ==
  /\ phase \in HostsGot => m.hosts = doc.hosts
  /\ phase \in ContainersGot => m.containers = doc.containers
  /\ phase \in ServicesGot => m.links = doc.links /\ m.members = doc.members
  /\ phase \in OwnGot => m.own = doc.members[Own]
  /\ phase \in NetsGot => m.nets = doc.nets

(* And what it then publishes is that document.                            *)
Fresh ==
  seen = version /\ ~overlap =>
    \A r \in Caller : /\ Agrees(pc[r], got[r])
                      /\ pc[r] \in Publishing => Agrees("publish", info)

MetaInv ==
  /\ ServiceShape /\ CallerShape /\ StoreShape /\ Solo /\ Unique /\ Split /\ Written
  /\ Fetched /\ Proxied /\ Fresh /\ SettledStoreIsCurrent

-----------------------------------------------------------------------------
(* getEntryFromContainer returns an entry, with the fields it should have. *)
LEMMA EntryTypes ==
  ASSUME NEW m \in Info, NEW c \in Container
  PROVE  /\ EntryOf(m, c) \in Entry /\ AsPeer(EntryOf(m, c)) \in Entry
         /\ EntryOf(m, c).ip = c.ip /\ EntryOf(m, c).host = m.hosts[c.host] /\ EntryOf(m, c).peer = FALSE
         /\ AsPeer(EntryOf(m, c)).ip = c.ip /\ AsPeer(EntryOf(m, c)).host = m.hosts[c.host]
         /\ AsPeer(EntryOf(m, c)).peer = TRUE
<1>1. c.ip \in Ip \cup {NoIp} /\ c.host \in Host /\ m.hosts \in [Host -> Agent \cup {NoAgent}]
  BY DEF Container, Info
<1>2. m.hosts[c.host] \in Agent \cup {NoAgent} /\ (c.ip = m.self.ip) \in BOOLEAN
  BY <1>1
<1> DEFINE h == m.hosts[c.host]
           b == c.ip = m.self.ip
<1>3. EntryOf(m, c) = [ip |-> c.ip, host |-> h, self |-> b, peer |-> FALSE]
  BY DEF EntryOf
<1>4. h \in Agent \cup {NoAgent} /\ b \in BOOLEAN
  BY <1>2
<1> HIDE DEF h, b
<1>5. /\ EntryOf(m, c) \in Entry
      /\ EntryOf(m, c).ip = c.ip /\ EntryOf(m, c).host = h /\ EntryOf(m, c).peer = FALSE
  BY <1>1, <1>3, <1>4 DEF Entry
<1>6. \A e \in Entry : AsPeer(e) \in Entry /\ AsPeer(e).ip = e.ip /\ AsPeer(e).host = e.host /\ AsPeer(e).peer = TRUE
  BY DEF AsPeer, Entry
<1>7. /\ AsPeer(EntryOf(m, c)) \in Entry
      /\ AsPeer(EntryOf(m, c)).ip = c.ip /\ AsPeer(EntryOf(m, c)).host = h /\ AsPeer(EntryOf(m, c)).peer = TRUE
  BY <1>5, <1>6
<1> QED BY <1>5, <1>7 DEF h

(* Only containers become peers.                                           *)
LEMMA PeersTypes == ASSUME NEW m \in Info PROVE PeersMap(m) \in SUBSET Entry
<1>1. m.own \in SUBSET Container /\ m.members \in [Service -> SUBSET Container]
  BY DEF Info
<1>2. LinkedContainers(m) \in SUBSET Container
  BY <1>1 DEF LinkedContainers, LinkedServices, ServicesByName
<1>3. \A c \in Container : AsPeer(EntryOf(m, c)) \in Entry
  BY EntryTypes
<1> QED BY <1>1, <1>2, <1>3 DEF PeersMap

(* The entry a container of the list gets.                                 *)
EntryAt(m, i) ==
  LET e == EntryOf(m, m.containers[i]) IN IF e.ip \in Keys(PeersMap(m)) THEN AsPeer(e) ELSE e

(* The list of entries: one per address that a listed container has, with  *)
(* the address of that container's host, and marked as a peer exactly if   *)
(* the address is that of a peer.                                          *)
LEMMA EntriesTypes ==
  ASSUME NEW m \in Info
  PROVE  /\ Entries(m) \in SUBSET Entry /\ OnePerAddress(Entries(m)) /\ NoIp \notin Keys(Entries(m))
         /\ \A e \in Entries(m) : ~e.peer => e.ip \notin Keys(PeersMap(m))
         /\ \A e \in Entries(m) : \E i \in DOMAIN m.containers :
              e.ip = m.containers[i].ip /\ e.host = m.hosts[m.containers[i].host]
<1>1. m.containers \in Seq(Container)
  BY DEF Info
<1>2. \A i \in DOMAIN m.containers : i \in Nat /\ i >= 1 /\ m.containers[i] \in Container
  BY <1>1
<1>3. Entries(m) = {EntryAt(m, i) : i \in {j \in DOMAIN m.containers : First(m, j)}}
  BY DEF Entries, EntryAt, Keys
<1>4. ASSUME NEW i \in DOMAIN m.containers
      PROVE  /\ EntryAt(m, i) \in Entry /\ EntryAt(m, i).ip = m.containers[i].ip
             /\ EntryAt(m, i).host = m.hosts[m.containers[i].host]
             /\ ~EntryAt(m, i).peer => EntryAt(m, i).ip \notin Keys(PeersMap(m))
  <2> DEFINE e == EntryOf(m, m.containers[i])
  <2>1. EntryAt(m, i) = IF e.ip \in Keys(PeersMap(m)) THEN AsPeer(e) ELSE e
    BY DEF EntryAt
  <2>2. /\ e \in Entry /\ AsPeer(e) \in Entry /\ e.ip = m.containers[i].ip /\ AsPeer(e).ip = m.containers[i].ip
        /\ e.host = m.hosts[m.containers[i].host] /\ AsPeer(e).host = m.hosts[m.containers[i].host]
        /\ AsPeer(e).peer = TRUE
    BY <1>2, EntryTypes
  <2> HIDE DEF e
  <2> QED BY <2>1, <2>2
<1>5. ASSUME NEW i \in DOMAIN m.containers, NEW j \in DOMAIN m.containers, First(m, i), First(m, j),
             m.containers[i].ip = m.containers[j].ip
      PROVE  i = j
  <2>1. i \in Nat /\ j \in Nat /\ i >= 1 /\ j >= 1
    BY <1>2
  <2>2. Eligible(m, i) /\ Eligible(m, j)
    BY <1>5 DEF First
  <2>3. ~(i < j)
    <3> SUFFICES ASSUME i < j PROVE FALSE
      OBVIOUS
    <3>1. i \in 1..(j - 1)
      BY <2>1
    <3> QED BY <1>5, <2>2, <3>1 DEF First
  <2>4. ~(j < i)
    <3> SUFFICES ASSUME j < i PROVE FALSE
      OBVIOUS
    <3>1. j \in 1..(i - 1)
      BY <2>1
    <3> QED BY <1>5, <2>2, <3>1 DEF First
  <2> QED BY <2>1, <2>3, <2>4
<1>6. OnePerAddress(Entries(m))
  BY <1>3, <1>4, <1>5 DEF OnePerAddress
<1>7. NoIp \notin Keys(Entries(m))
  BY <1>3, <1>4 DEF Keys, First, Eligible
<1> QED BY <1>3, <1>4, <1>6, <1>7

(* A part of a list with one entry per address has one per address.        *)
LEMMA OnePerSubset ==
  ASSUME NEW es, NEW fs, fs \subseteq es, OnePerAddress(es) PROVE OnePerAddress(fs)
BY DEF OnePerAddress

(* doInternalRefresh: the maps it builds split the list of entries by host *)
(* and by peer, whatever information they are built from.                  *)
LEMMA MapsSplit ==
  ASSUME NEW m \in Info, NEW s
  PROVE  /\ Maps(m, s) \in MapsRec /\ SplitOK(Maps(m, s))
         /\ OnePerAddress(Maps(m, s).entries) /\ OnePerAddress(Maps(m, s).remote)
         /\ OnePerAddress(Maps(m, s).nonPeers) /\ NoIp \notin Keys(Maps(m, s).entries)
<1> DEFINE es == Entries(m)
           l == {e \in es : e.host = s.host}
           r == {e \in es : e.host # s.host}
           n == {e \in es : e.host # s.host /\ ~e.peer}
<1>1. Maps(m, s) = [entries |-> es, peers |-> PeersMap(m), local |-> l, remote |-> r, nonPeers |-> n]
  BY DEF Maps
<1>2. es \in SUBSET Entry /\ OnePerAddress(es) /\ NoIp \notin Keys(es)
  BY EntriesTypes
<1>3. l \cup r = es /\ n \subseteq r /\ r \subseteq es
  OBVIOUS
<1>4. Keys(l) \cap Keys(r) = {}
  BY <1>2 DEF Keys, OnePerAddress
<1>5. Keys(n) \cap Keys(PeersMap(m)) = {}
  BY EntriesTypes DEF Keys
<1>6. OnePerAddress(r) /\ OnePerAddress(n)
  BY <1>2 DEF OnePerAddress
<1>7. PeersMap(m) \in SUBSET Entry
  BY PeersTypes
<1> HIDE DEF es, l, r, n
<1>8. Maps(m, s) \in MapsRec
  BY <1>1, <1>2, <1>3, <1>7 DEF MapsRec
<1> QED BY <1>1, <1>2, <1>3, <1>4, <1>5, <1>6, <1>8 DEF SplitOK

-----------------------------------------------------------------------------
(* Nothing has been fetched before the first request.                      *)
LEMMA NothingTyped == Nothing \in Info
<1>1. <<>> \in Seq(Container)
  OBVIOUS
<1> QED BY <1>1 DEF Nothing, Info

(* What a caller does before it publishes leaves the store as it is.       *)
LEMMA StoreFrame ==
  ASSUME MetaInv, NEW r \in Caller, NEW phase \in Phase \ Publishing, pc[r] \notin Publishing,
         pc' = [pc EXCEPT ![r] = phase], UNCHANGED <<storeVars, built, away, overlap>>
  PROVE  /\ Unique' /\ Split' /\ Written' /\ Proxied'
         /\ \A q \in Caller : pc'[q] \in Publishing <=> pc[q] \in Publishing
         /\ pc'[r] = phase /\ \A q \in Caller \ {r} : pc'[q] = pc[q]
<1>1. pc \in [Caller -> Phase]
  BY DEF MetaInv, CallerShape
<1>2. pc'[r] = phase /\ \A q \in Caller \ {r} : pc'[q] = pc[q]
  BY <1>1
<1>3. \A q \in Caller : /\ pc'[q] \in Publishing <=> pc[q] \in Publishing
                        /\ pc'[q] \in Publishing => pc'[q] = pc[q]
  BY <1>2
<1>4. \A q \in Caller : /\ pc'[q] = "remote" <=> pc[q] = "remote"
                        /\ pc'[q] = "build" <=> pc[q] = "build"
  BY <1>3 DEF Publishing
<1>5. Unique' /\ Proxied'
  BY <1>4 DEF MetaInv, Unique, Proxied, storeVars
<1>6. Store' = Store
  BY DEF Store, storeVars
<1>7. Split'
  BY <1>4, <1>6 DEF MetaInv, Split
<1>8. Written'
  BY <1>4 DEF MetaInv, Written, storeVars
<1> QED BY <1>2, <1>3, <1>5, <1>7, <1>8

(* A request that succeeded: its answer is in place of the old information.*)
LEMMA RequestKeeps ==
  ASSUME MetaInv, NEW r \in Caller, NEW m \in Info, NEW phase \in Phase \ Publishing,
         pc[r] \notin Publishing, pc[r] # "idle", phase # "idle",
         pc' = [pc EXCEPT ![r] = phase], got' = [got EXCEPT ![r] = m], UNCHANGED <<otherVars, last>>,
         phase \in SelfGot => m.self \in Container /\ SameSelf(m.self),
         phase \in ContainersGot => Served(m.containers),
         seen = version /\ ~overlap => Agrees(phase, m)
  PROVE  MetaInv'
<1>1. /\ UNCHANGED <<doc, version, seen, storeVars, built, arp, away, overlap, changes, last>>
      /\ pc \in [Caller -> Phase] /\ got \in [Caller -> Info]
  BY DEF otherVars, arpVars, MetaInv, CallerShape
<1>2. /\ Unique' /\ Split' /\ Written' /\ Proxied'
      /\ \A q \in Caller : pc'[q] \in Publishing <=> pc[q] \in Publishing
      /\ pc'[r] = phase /\ \A q \in Caller \ {r} : pc'[q] = pc[q]
  BY <1>1, StoreFrame
<1>3. got'[r] = m /\ \A q \in Caller \ {r} : got'[q] = got[q]
  BY <1>1
<1>4. ServiceShape' /\ StoreShape'
  BY <1>1 DEF MetaInv, ServiceShape, StoreShape, Store, storeVars
<1>5. CallerShape'
  BY <1>1, <1>2, <1>3 DEF MetaInv, CallerShape
<1>6. Solo'
  BY <1>1, <1>2 DEF MetaInv, Solo
<1>7. Fetched'
  BY <1>1, <1>2, <1>3 DEF MetaInv, Fetched, Served, SameSelf, storeVars
<1>8. Fresh'
  BY <1>1, <1>2, <1>3 DEF MetaInv, Fresh, Agrees, storeVars
<1>9. SettledStoreIsCurrent'
  BY <1>2 DEF SettledStoreIsCurrent
<1> QED BY <1>2, <1>4, <1>5, <1>6, <1>7, <1>8, <1>9 DEF MetaInv

(* A request that failed: Reload returns the error and publishes nothing.  *)
LEMMA FailureKeeps ==
  ASSUME MetaInv, NEW r \in Caller, pc[r] \notin Publishing, Failed(r), UNCHANGED otherVars
  PROVE  MetaInv'
<1>1. /\ UNCHANGED <<doc, version, seen, storeVars, built, arp, away, overlap, changes>> /\ last' = "err"
      /\ pc' = [pc EXCEPT ![r] = "idle"] /\ got' = [got EXCEPT ![r] = Nothing]
      /\ pc \in [Caller -> Phase] /\ got \in [Caller -> Info]
  BY DEF Failed, Return, Goto, otherVars, arpVars, MetaInv, CallerShape
<1>2. "idle" \in Phase \ Publishing /\ "idle" \notin SelfGot /\ "idle" \notin HostsGot
  BY DEF Phase, Publishing, SelfGot, HostsGot, ContainersGot, ServicesGot, OwnGot, NetsGot
<1>3. /\ Unique' /\ Split' /\ Written' /\ Proxied'
      /\ \A q \in Caller : pc'[q] \in Publishing <=> pc[q] \in Publishing
      /\ pc'[r] = "idle" /\ \A q \in Caller \ {r} : pc'[q] = pc[q]
  BY <1>1, <1>2, StoreFrame
<1>4. got'[r] = Nothing /\ \A q \in Caller \ {r} : got'[q] = got[q]
  BY <1>1
<1>5. ServiceShape' /\ StoreShape'
  BY <1>1 DEF MetaInv, ServiceShape, StoreShape, Store, storeVars
<1>6. CallerShape'
  BY <1>1, <1>2, <1>3, <1>4, NothingTyped DEF MetaInv, CallerShape
<1>7. Solo'
  BY <1>1, <1>3 DEF MetaInv, Solo
<1>8. "idle" \notin ContainersGot \cup ServicesGot \cup OwnGot \cup NetsGot
  BY DEF ContainersGot, ServicesGot, OwnGot, NetsGot
<1>9. Fetched'
  BY <1>1, <1>2, <1>3, <1>4, <1>8 DEF MetaInv, Fetched, Served, SameSelf, storeVars
<1>10. Fresh'
  BY <1>1, <1>2, <1>3, <1>4, <1>8 DEF MetaInv, Fresh, Agrees, storeVars
<1>11. SettledStoreIsCurrent'
  BY <1>1 DEF SettledStoreIsCurrent
<1> QED BY <1>3, <1>5, <1>6, <1>7, <1>9, <1>10, <1>11 DEF MetaInv

(* Of the containers that match there is a first one.                      *)
LEMMA FirstCandidate ==
  ASSUME NEW T, T \subseteq Nat, T # {}
  PROVE  \E i \in T : \A j \in T : i <= j
<1> DEFINE R == OpToRel(<, Nat)
<1>1. IsWellFoundedOn(R, Nat)
  BY NatLessThanWellFounded
<1>2. R = {ss \in Nat \X Nat : ss[1] < ss[2]}
  BY DEF OpToRel
<1> HIDE DEF R
<1>3. PICK i \in T : \A j \in T : ~(<<j, i>> \in R)
  BY <1>1, WFMin
<1>4. \A j \in T : ~(j < i)
  BY <1>2, <1>3
<1> QED BY <1>4

(* The parts of a document, as the requests return them.                   *)
LEMMA DocTyped ==
  ASSUME MetaInv
  PROVE  /\ doc \in Doc /\ doc.self \in Container /\ doc.hosts \in [Host -> Agent \cup {NoAgent}]
         /\ doc.containers \in Seq(Container) /\ doc.links \in [Service -> SUBSET Service]
         /\ doc.members \in [Service -> SUBSET Container] /\ doc.members[Own] \in SUBSET Container
         /\ doc.nets \in [Net -> NetName \cup {NoName}] /\ Served(doc.containers) /\ SameSelf(doc.self)
<1>1. doc \in Doc
  BY DEF MetaInv, ServiceShape
<1>2. Served(doc.containers)
  BY <1>1 DEF MetaInv, Fetched, Served
<1> QED BY <1>1, <1>2, MetadataDocAssumption, MetadataConstantAssumption DEF SameSelf

(* The requests up to the containers: an answer goes to its field.         *)
LEMMA EarlyRequestsKeep ==
  ASSUME MetaInv, NEW r \in Caller, RequestSelf(r) \/ RequestHosts(r) \/ RequestContainers(r)
  PROVE  MetaInv'
<1> DEFINE g == got[r]
<1>1. g \in Info /\ pc \in [Caller -> Phase] /\ (pc[r] \in SelfGot => g.self \in Container /\ SameSelf(g.self))
  BY DEF MetaInv, CallerShape, Fetched
<1>2. seen = version /\ ~overlap => Agrees(pc[r], g)
  BY DEF MetaInv, Fresh
<1>3. CASE RequestSelf(r)
  <2>1. pc[r] = "self" /\ UNCHANGED <<otherVars, last>> /\ pc[r] \notin Publishing
    BY <1>3 DEF RequestSelf, Publishing
  <2>2. CASE NoFault /\ Goto(r, "hosts") /\ Take(r, "self", doc.self)
    <3> DEFINE m == [g EXCEPT !["self"] = doc.self]
    <3>1. got' = [got EXCEPT ![r] = m] /\ pc' = [pc EXCEPT ![r] = "hosts"]
      BY <2>2 DEF Take, Goto
    <3>2. m \in Info /\ m.self = doc.self
      BY <1>1, DocTyped DEF Info
    <3> HIDE DEF m
    <3>3. "hosts" \in Phase \ Publishing /\ "hosts" \notin ContainersGot /\ Agrees("hosts", m)
      BY DEF Agrees, Phase, Publishing, HostsGot, ContainersGot, ServicesGot, OwnGot, NetsGot
    <3> QED BY <2>1, <3>1, <3>2, <3>3, DocTyped, RequestKeeps
  <2>3. CASE Fault /\ Goto(r, "hostsNoSelf") /\ UNCHANGED got
    <3>1. got' = [got EXCEPT ![r] = g] /\ pc' = [pc EXCEPT ![r] = "hostsNoSelf"]
      BY <2>3 DEF Goto, MetaInv, CallerShape
    <3>2. /\ "hostsNoSelf" \in Phase \ Publishing /\ "hostsNoSelf" \notin ContainersGot \cup SelfGot
          /\ Agrees("hostsNoSelf", g)
      BY DEF Agrees, Phase, Publishing, SelfGot, HostsGot, ContainersGot, ServicesGot, OwnGot, NetsGot
    <3> QED BY <1>1, <2>1, <3>1, <3>2, RequestKeeps
  <2> QED BY <1>3, <2>2, <2>3 DEF RequestSelf
<1>4. CASE RequestHosts(r)
  <2>1. /\ pc[r] \in {"hosts", "hostsNoSelf"} /\ UNCHANGED otherVars
        /\ pc[r] \notin Publishing /\ (pc[r] \in SelfGot <=> pc[r] = "hosts")
    BY <1>4 DEF RequestHosts, Publishing, SelfGot, ServicesGot, OwnGot, NetsGot
  <2>2. CASE Failed(r)
    BY <2>1, <2>2, FailureKeeps
  <2>3. CASE /\ Take(r, "hosts", doc.hosts) /\ UNCHANGED last
             /\ Goto(r, IF pc[r] = "hosts" THEN "containers" ELSE "containersNoSelf")
    <3> DEFINE m == [g EXCEPT !["hosts"] = doc.hosts]
               phase == IF pc[r] = "hosts" THEN "containers" ELSE "containersNoSelf"
    <3>1. got' = [got EXCEPT ![r] = m] /\ pc' = [pc EXCEPT ![r] = phase]
      BY <2>3 DEF Take, Goto
    <3>2. m \in Info /\ m.self = g.self /\ m.hosts = doc.hosts
      BY <1>1, DocTyped DEF Info
    <3>3. /\ phase \in Phase \ Publishing /\ phase \notin ContainersGot /\ phase # "idle"
          /\ phase \in SelfGot => pc[r] \in SelfGot
          /\ phase \notin ServicesGot \cup OwnGot \cup NetsGot
      BY <2>1 DEF Phase, Publishing, SelfGot, HostsGot, ContainersGot, ServicesGot, OwnGot, NetsGot
    <3> HIDE DEF m, phase
    <3>4. Agrees(phase, m)
      BY <3>2, <3>3 DEF Agrees
    <3> QED BY <1>1, <2>1, <2>3, <3>1, <3>2, <3>3, <3>4, RequestKeeps
  <2> QED BY <1>4, <2>2, <2>3 DEF RequestHosts
<1>5. CASE RequestContainers(r)
  <2>1. /\ pc[r] \in {"containers", "containersNoSelf"} /\ UNCHANGED otherVars
        /\ pc[r] \notin Publishing /\ (pc[r] \in SelfGot <=> pc[r] = "containers") /\ pc[r] \in HostsGot
    BY <1>5 DEF RequestContainers, Publishing, SelfGot, HostsGot, ServicesGot, OwnGot, NetsGot
  <2>2. CASE Failed(r)
    BY <2>1, <2>2, FailureKeeps
  <2>3. CASE /\ Take(r, "containers", doc.containers) /\ UNCHANGED last
             /\ Goto(r, IF pc[r] = "containers" THEN "services" ELSE "servicesNoSelf")
    <3> DEFINE m == [g EXCEPT !["containers"] = doc.containers]
               phase == IF pc[r] = "containers" THEN "services" ELSE "servicesNoSelf"
    <3>1. got' = [got EXCEPT ![r] = m] /\ pc' = [pc EXCEPT ![r] = phase]
      BY <2>3 DEF Take, Goto
    <3>2. m \in Info /\ m.self = g.self /\ m.containers = doc.containers /\ m.hosts = g.hosts
      BY <1>1, DocTyped DEF Info
    <3>3. /\ phase \in Phase \ Publishing /\ phase # "idle"
          /\ phase \in SelfGot => pc[r] \in SelfGot
          /\ phase \notin ServicesGot \cup OwnGot \cup NetsGot
      BY <2>1 DEF Phase, Publishing, SelfGot, HostsGot, ContainersGot, ServicesGot, OwnGot, NetsGot
    <3> HIDE DEF m, phase
    <3>4. Agrees(pc[r], g) => Agrees(phase, m)
      BY <2>1, <3>2, <3>3 DEF Agrees
    <3> QED BY <1>1, <1>2, <2>1, <2>3, <3>1, <3>2, <3>3, <3>4, DocTyped, RequestKeeps
  <2> QED BY <1>5, <2>2, <2>3 DEF RequestContainers
<1> QED BY <1>3, <1>4, <1>5

(* findSelfContainerByIP: the container found has this agent's address,    *)
(* host and network, whichever document the containers come from.          *)
LEMMA SelfByIpFound ==
  ASSUME MetaInv, NEW m \in Info, Served(m.containers), FallbackFound(m)
  PROVE  SelfByIp(m) \in Container /\ SameSelf(SelfByIp(m))
<1> DEFINE low == CHOOSE i \in SelfCandidates(m) : \A j \in SelfCandidates(m) : i <= j
<1>1. m.containers \in Seq(Container) /\ DOMAIN m.containers = 1..Len(m.containers) /\ Len(m.containers) \in Nat
  BY DEF Info
<1>2. SelfCandidates(m) # {} /\ SelfCandidates(m) \subseteq Nat /\ ClientIp # NoIp
  BY <1>1 DEF FallbackFound, SelfCandidates
<1>3. \E i \in SelfCandidates(m) : \A j \in SelfCandidates(m) : i <= j
  BY <1>2, FirstCandidate
<1>4. low \in SelfCandidates(m)
  BY <1>3
<1>5. low \in DOMAIN m.containers /\ m.containers[low].ip = ClientIp /\ SelfByIp(m) = m.containers[low]
  BY <1>4 DEF SelfCandidates, SelfByIp
<1> HIDE DEF low
<1>6. PICK d \in Doc : m.containers = d.containers
  BY DEF Served
<1>7. d.self.ip = ClientIp
  BY <1>2, MetadataSelfAssumption
<1>8. m.containers[low].host = d.self.host /\ m.containers[low].net = d.self.net
  BY <1>5, <1>6, <1>7, MetadataDocAssumption
<1>9. doc \in Doc /\ d.self.ip = doc.self.ip /\ d.self.host = doc.self.host /\ d.self.net = doc.self.net
  BY MetadataSelfAssumption DEF MetaInv, ServiceShape
<1> QED BY <1>1, <1>5, <1>7, <1>8, <1>9 DEF SameSelf

(* The services, and whether Reload can do without GetSelfContainer; then  *)
(* the own service and the networks.                                       *)
LEMMA LateRequestsKeep ==
  ASSUME MetaInv, NEW r \in Caller, RequestServices(r) \/ RequestOwnService(r) \/ RequestNetworks(r)
  PROVE  MetaInv'
<1> DEFINE g == got[r]
<1>1. /\ g \in Info /\ pc \in [Caller -> Phase]
      /\ pc[r] \in SelfGot => g.self \in Container /\ SameSelf(g.self)
      /\ pc[r] \in ContainersGot => Served(g.containers)
  BY DEF MetaInv, CallerShape, Fetched
<1>2. seen = version /\ ~overlap => Agrees(pc[r], g)
  BY DEF MetaInv, Fresh
<1> USE DEF Publishing, SelfGot, HostsGot, ContainersGot, ServicesGot, OwnGot, NetsGot
<1>3. CASE RequestServices(r)
  <2> DEFINE m == [g EXCEPT !.links = doc.links, !.members = doc.members]
             f == [m EXCEPT !.self = SelfByIp(m), !.own = doc.members[Own]]
  <2>1. pc[r] \in {"services", "servicesNoSelf"} /\ UNCHANGED otherVars /\ pc[r] \notin Publishing
    BY <1>3 DEF RequestServices
  <2>2. /\ m \in Info /\ m.self = g.self /\ m.hosts = g.hosts /\ m.containers = g.containers
        /\ m.links = doc.links /\ m.members = doc.members
    BY <1>1, DocTyped DEF Info
  <2>3. \/ Failed(r)
        \/ /\ pc[r] = "services" /\ UNCHANGED last
           /\ got' = [got EXCEPT ![r] = m] /\ Goto(r, "ownService")
        \/ /\ FallbackFound(m) /\ Goto(r, "networks") /\ UNCHANGED last
           /\ got' = [got EXCEPT ![r] = f]
    BY <1>3 DEF RequestServices
  <2> HIDE DEF m
  <2>4. CASE Failed(r)
    BY <2>1, <2>4, FailureKeeps
  <2>5. CASE pc[r] = "services" /\ UNCHANGED last /\ got' = [got EXCEPT ![r] = m] /\ Goto(r, "ownService")
    <3>1. Agrees("services", g) => Agrees("ownService", m)
      BY <2>2 DEF Agrees
    <3>2. "ownService" \in Phase \ Publishing /\ pc' = [pc EXCEPT ![r] = "ownService"]
      BY <2>5 DEF Phase, Goto
    <3> QED BY <1>1, <1>2, <2>1, <2>2, <2>5, <3>1, <3>2, RequestKeeps
  <2>6. CASE FallbackFound(m) /\ Goto(r, "networks") /\ UNCHANGED last /\ got' = [got EXCEPT ![r] = f]
    <3>1. SelfByIp(m) \in Container /\ SameSelf(SelfByIp(m))
      BY <1>1, <2>1, <2>2, <2>6, SelfByIpFound
    <3>2. /\ f \in Info /\ f.self = SelfByIp(m) /\ f.own = doc.members[Own] /\ f.hosts = g.hosts
          /\ f.containers = g.containers /\ f.links = doc.links /\ f.members = doc.members
      BY <2>2, <3>1, DocTyped DEF Info
    <3> HIDE DEF f
    <3>3. Agrees(pc[r], g) => Agrees("networks", f)
      BY <2>1, <3>2 DEF Agrees
    <3>4. "networks" \in Phase \ Publishing /\ pc' = [pc EXCEPT ![r] = "networks"]
      BY <2>6 DEF Phase, Goto
    <3> QED BY <1>1, <1>2, <2>1, <2>6, <3>1, <3>2, <3>3, <3>4, RequestKeeps
  <2> QED BY <2>3, <2>4, <2>5, <2>6
<1>4. CASE RequestOwnService(r)
  <2> DEFINE l == [g.links EXCEPT ![Own] = doc.links[Own]]
             m == [g EXCEPT !.own = doc.members[Own], !.links = l]
  <2>1. pc[r] = "ownService" /\ UNCHANGED otherVars /\ pc[r] \notin Publishing
    BY <1>4 DEF RequestOwnService
  <2>2. CASE Failed(r)
    BY <2>1, <2>2, FailureKeeps
  <2>3. CASE /\ Goto(r, "networks") /\ UNCHANGED last
             /\ got' = [got EXCEPT ![r] = [@ EXCEPT !.own = doc.members[Own], !.links[Own] = doc.links[Own]]]
    <3>1. g.links \in [Service -> SUBSET Service] /\ l \in [Service -> SUBSET Service]
      BY <1>1, DocTyped, MetadataConstantAssumption DEF Info
    <3>2. got' = [got EXCEPT ![r] = m] /\ pc' = [pc EXCEPT ![r] = "networks"] /\ "networks" \in Phase \ Publishing
      BY <1>1, <2>3 DEF Goto, Phase, Info
    <3>3. g.links = doc.links => l = doc.links
      BY <3>1, DocTyped
    <3> HIDE DEF l
    <3>4. /\ m \in Info /\ m.self = g.self /\ m.own = doc.members[Own] /\ m.hosts = g.hosts
          /\ m.containers = g.containers /\ m.links = l /\ m.members = g.members
      BY <1>1, <3>1, DocTyped DEF Info
    <3> HIDE DEF m
    <3>5. Agrees("ownService", g) => Agrees("networks", m)
      BY <3>3, <3>4 DEF Agrees
    <3> QED BY <1>1, <1>2, <2>1, <2>3, <3>2, <3>4, <3>5, RequestKeeps
  <2> QED BY <1>4, <2>2, <2>3 DEF RequestOwnService
<1>5. CASE RequestNetworks(r)
  <2>1. pc[r] = "networks" /\ UNCHANGED otherVars /\ pc[r] \notin Publishing
    BY <1>5 DEF RequestNetworks
  <2>2. CASE Failed(r)
    BY <2>1, <2>2, FailureKeeps
  <2>3. CASE Take(r, "nets", doc.nets) /\ Goto(r, "publish") /\ UNCHANGED last
    <3> DEFINE m == [g EXCEPT !["nets"] = doc.nets]
    <3>1. got' = [got EXCEPT ![r] = m] /\ pc' = [pc EXCEPT ![r] = "publish"] /\ "publish" \in Phase \ Publishing
      BY <2>3 DEF Take, Goto, Phase
    <3>2. /\ m \in Info /\ m.self = g.self /\ m.own = g.own /\ m.hosts = g.hosts /\ m.nets = doc.nets
          /\ m.containers = g.containers /\ m.links = g.links /\ m.members = g.members
      BY <1>1, DocTyped DEF Info
    <3> HIDE DEF m
    <3>3. Agrees("networks", g) => Agrees("publish", m)
      BY <3>2 DEF Agrees
    <3> QED BY <1>1, <1>2, <2>1, <2>3, <3>1, <3>2, <3>3, RequestKeeps
  <2> QED BY <1>5, <2>2, <2>3 DEF RequestNetworks
<1> QED BY <1>3, <1>4, <1>5

(* The addresses a document puts on other hosts.                           *)
LEMMA ElsewhereTyped == ASSUME NEW d \in Doc PROVE Elsewhere(d) \subseteq Ip \cup {NoIp}
<1>1. d.containers \in Seq(Container)
  BY MetadataDocAssumption
<1>2. \A i \in DOMAIN d.containers : d.containers[i] \in Container
  BY <1>1
<1>3. \A c \in Container : c.ip \in Ip \cup {NoIp}
  BY DEF Container
<1> QED BY <1>2, <1>3 DEF Elsewhere

(* A new document, a new Reload, and the ARP proxy.  A version that has    *)
(* not been acted on releases Fresh; acting on it begins a Reload.         *)
LEMMA OutsideKeeps ==
  ASSUME MetaInv,
         \/ ChangeDoc \/ OnChange \/ Idle \/ ArpDone \/ UNCHANGED vars
         \/ \E i \in Ip : ArpRequest(i)
         \/ \E r \in Web : HttpReload(r)
  PROVE  MetaInv'
<1> USE MetadataConstantAssumption
<1>1. CASE ChangeDoc
  <2>1. /\ UNCHANGED <<seen, arp, pc, got, storeVars, built, last, overlap>>
        /\ changes > 0 /\ changes' = changes - 1 /\ doc' \in Doc /\ version' = version + 1
        /\ away' = away \cup Elsewhere(doc')
    BY <1>1 DEF ChangeDoc
  <2>2. Elsewhere(doc') \subseteq Ip \cup {NoIp}
    BY <2>1, ElsewhereTyped
  <2>3. ServiceShape'
    BY <2>1, <2>2 DEF MetaInv, ServiceShape
  <2>4. seen' # version'
    BY <2>1 DEF MetaInv, ServiceShape
  <2>5. \A c : SameSelf(c) => SameSelf(c)'
    BY <2>1, MetadataSelfAssumption DEF SameSelf, MetaInv, ServiceShape
  <2>6. \A cs : Served(cs) => Served(cs)'
    BY <2>1 DEF Served
  <2>7. Fetched'
    BY <2>1, <2>5, <2>6 DEF MetaInv, Fetched, storeVars
  <2>8. Store' = Store
    BY <2>1 DEF Store, storeVars
  <2>9. (CallerShape /\ StoreShape /\ Solo /\ Unique /\ Split /\ Written /\ Proxied)'
    BY <2>1, <2>8 DEF MetaInv, CallerShape, StoreShape, Solo, Unique, Split, Written, Proxied, storeVars
  <2> QED BY <2>3, <2>4, <2>7, <2>9 DEF MetaInv, Fresh, SettledStoreIsCurrent
<1>2. ASSUME NEW r \in Caller, Begin(r), seen' \in {seen, version} PROVE MetaInv'
  <2>1. /\ UNCHANGED <<doc, version, got, storeVars, built, last, arp, away, changes>>
        /\ pc[r] = "idle" /\ pc' = [pc EXCEPT ![r] = "self"] /\ overlap' = (overlap \/ \E q \in Caller : pc[q] # "idle")
    BY <1>2 DEF Begin, Goto, arpVars
  <2>2. pc \in [Caller -> Phase] /\ pc'[r] = "self" /\ \A q \in Caller \ {r} : pc'[q] = pc[q]
    BY <2>1 DEF MetaInv, CallerShape
  <2>3. /\ "self" \in Phase
        /\ "self" \notin Publishing \cup SelfGot \cup HostsGot \cup ContainersGot \cup ServicesGot \cup OwnGot \cup NetsGot
    BY DEF Phase, Publishing, SelfGot, HostsGot, ContainersGot, ServicesGot, OwnGot, NetsGot
  <2>4. ServiceShape' /\ StoreShape'
    BY <1>2, <2>1 DEF MetaInv, ServiceShape, StoreShape, Store, storeVars
  <2>5. CallerShape'
    BY <2>1, <2>2, <2>3 DEF MetaInv, CallerShape
  <2>6. ~overlap' => ~overlap /\ \A q \in Caller : pc[q] = "idle"
    BY <2>1
  <2>7. Solo'
    BY <2>2, <2>6 DEF Solo
  <2>8. \A q \in Caller : pc'[q] \in {"build", "remote"} <=> pc[q] \in {"build", "remote"}
    BY <2>1, <2>2
  <2>9. \A q \in Caller : pc'[q] = "remote" <=> pc[q] = "remote"
    BY <2>1, <2>2
  <2>10. Store' = Store
    BY <2>1 DEF Store, storeVars
  <2>11. (Unique /\ Split /\ Proxied)'
    BY <2>1, <2>6, <2>9, <2>10 DEF MetaInv, Unique, Split, Proxied, storeVars
  <2>12. Written'
    BY <2>2, <2>6 DEF Written
  <2>13. Fetched'
    BY <2>1, <2>2, <2>3 DEF MetaInv, Fetched, Served, SameSelf, storeVars
  <2>14. Fresh'
    <3> SUFFICES ASSUME ~overlap', NEW q \in Caller PROVE (Agrees(pc[q], got[q]) /\ pc[q] \notin Publishing)'
      BY DEF Fresh
    <3>1. pc'[q] \in {"self", "idle"}
      BY <2>2, <2>6
    <3>2. "idle" \notin Publishing \cup HostsGot \cup ContainersGot \cup ServicesGot \cup OwnGot \cup NetsGot
      BY DEF Publishing, HostsGot, ContainersGot, ServicesGot, OwnGot, NetsGot
    <3> QED BY <2>3, <3>1, <3>2 DEF Agrees
  <2>15. SettledStoreIsCurrent'
    BY <2>2 DEF SettledStoreIsCurrent
  <2> QED BY <2>4, <2>5, <2>7, <2>11, <2>12, <2>13, <2>14, <2>15 DEF MetaInv
<1>3. CASE OnChange
  BY <1>2, <1>3 DEF OnChange, Caller
<1>4. CASE \E r \in Web : HttpReload(r)
  BY <1>2, <1>4 DEF HttpReload, Caller
<1>5. ASSUME UNCHANGED <<doc, version, seen, pc, got, storeVars, built, last, away, overlap, changes>>,
             arp' \in Ip \cup {NoIp}
      PROVE  MetaInv'
  <2>1. Store' = Store /\ View' = View
    BY <1>5 DEF Store, storeVars, View
  <2>2. (ServiceShape /\ CallerShape /\ StoreShape /\ Solo /\ Unique)'
    BY <1>5, <2>1 DEF MetaInv, ServiceShape, CallerShape, StoreShape, Solo, Unique, storeVars
  <2>3. (Split /\ Written /\ Proxied /\ SettledStoreIsCurrent)'
    BY <1>5, <2>1 DEF MetaInv, Split, Written, Proxied, SettledStoreIsCurrent, storeVars
  <2>4. (Fetched /\ Fresh)'
    BY <1>5 DEF MetaInv, Fetched, Served, SameSelf, Fresh, Agrees, storeVars
  <2> QED BY <2>2, <2>3, <2>4 DEF MetaInv
<1>6. CASE Idle \/ ArpDone \/ UNCHANGED vars \/ \E i \in Ip : ArpRequest(i)
  <2>1. /\ UNCHANGED <<doc, version, seen, pc, got, storeVars, built, last, away, overlap, changes>>
        /\ arp' \in Ip \cup {NoIp}
    BY <1>6 DEF Idle, ArpDone, ArpRequest, vars, arpVars, MetaInv, ServiceShape
  <2> QED BY <1>5, <2>1
<1> QED BY <1>1, <1>3, <1>4, <1>6

-----------------------------------------------------------------------------
(* The maps built from all the answers of one document are those of the    *)
(* document, also if this agent's container was found by its address.      *)
LEMMA MapsCurrent ==
  ASSUME MetaInv, NEW m \in Info, Agrees("publish", m), SameSelf(m.self)
  PROVE  Maps(m, EntryOf(m, m.self)) = View
<1> DEFINE w == Whole(doc)
<1>1. /\ m.hosts = w.hosts /\ m.containers = w.containers /\ m.links = w.links /\ m.members = w.members
      /\ m.own = w.own /\ m.nets = w.nets /\ w.self = doc.self
      /\ m.self.ip = w.self.ip /\ m.self.host = w.self.host /\ m.self.net = w.self.net
  BY DEF Whole, SameSelf, Agrees, HostsGot, ContainersGot, ServicesGot, OwnGot, NetsGot
<1> HIDE DEF w
<1>2. \A c : EntryOf(m, c) = EntryOf(w, c)
  BY <1>1 DEF EntryOf
<1>3. LinkedServices(m) = LinkedServices(w)
  BY <1>1 DEF LinkedServices
<1>4. LinkedContainers(m) = LinkedContainers(w)
  BY <1>1, <1>3 DEF LinkedContainers
<1>5. PeersNetworks(m) = PeersNetworks(w)
  BY <1>1, <1>4 DEF PeersNetworks
<1>6. PeersMap(m) = PeersMap(w)
  BY <1>1, <1>2, <1>4 DEF PeersMap
<1>7. \A i : First(m, i) <=> First(w, i)
  BY <1>1, <1>5 DEF First, Eligible
<1>8. \A i : EntryAt(m, i) = EntryAt(w, i)
  BY <1>1, <1>2, <1>6 DEF EntryAt
<1>9. /\ Entries(m) = {EntryAt(m, i) : i \in {j \in DOMAIN m.containers : First(m, j)}}
      /\ Entries(w) = {EntryAt(w, i) : i \in {j \in DOMAIN w.containers : First(w, j)}}
  BY DEF Entries, EntryAt, Keys
<1>10. Entries(m) = Entries(w)
  BY <1>1, <1>7, <1>8, <1>9
<1>11. EntryOf(m, m.self).host = EntryOf(w, w.self).host
  BY <1>1 DEF EntryOf
<1>12. Maps(m, EntryOf(m, m.self)) = Maps(w, EntryOf(w, w.self))
  BY <1>6, <1>10, <1>11 DEF Maps
<1> QED BY <1>1, <1>12 DEF View, w

(* A remote entry is on another host according to some document served.    *)
LEMMA RemoteIsAway ==
  ASSUME MetaInv, self = EntryOf(info, info.self)
  PROVE  Keys(Maps(info, self).remote) \subseteq away
<1>1. /\ info \in Info /\ info.self \in Container /\ SameSelf(info.self) /\ doc \in Doc
  BY DEF MetaInv, StoreShape, Fetched, ServiceShape
<1>2. self.host = info.hosts[info.self.host]
  BY <1>1, EntryTypes
<1>3. PICK d \in Doc : info.containers = d.containers /\ Elsewhere(d) \subseteq away
  BY DEF MetaInv, Fetched, Served
<1>4. d.self.host = info.self.host
  BY <1>1, <1>3, MetadataSelfAssumption DEF SameSelf
<1>5. SUFFICES ASSUME NEW e \in Entries(info), e.host # self.host PROVE e.ip \in Elsewhere(d)
  BY <1>3 DEF Maps, Keys
<1>6. PICK i \in DOMAIN info.containers :
        e.ip = info.containers[i].ip /\ e.host = info.hosts[info.containers[i].host]
  BY <1>1, EntriesTypes
<1>7. info.containers[i].host # d.self.host
  BY <1>2, <1>4, <1>5, <1>6
<1> QED BY <1>3, <1>6, <1>7 DEF Elsewhere

(* The four steps of publishing.                                           *)
LEMMA PublishKeeps ==
  ASSUME MetaInv, NEW r \in Caller,
         PublishInfo(r) \/ PublishSelf(r) \/ PublishLocal(r) \/ PublishRemote(r)
  PROVE  MetaInv'
<1>1. /\ UNCHANGED <<doc, version, seen, arp, away, overlap, changes>>
      /\ pc \in [Caller -> Phase] /\ got \in [Caller -> Info] /\ built \in [Caller -> MapsRec]
      /\ info \in Info /\ info.self \in Container /\ self \in Entry /\ SameSelf(info.self)
  BY DEF PublishInfo, PublishSelf, PublishLocal, PublishRemote, arpVars, MetaInv, CallerShape, StoreShape, Fetched
<1>2. ~overlap => \A q \in Caller : pc[q] # "idle" /\ pc[r] # "idle" => q = r
  BY DEF MetaInv, Solo
<1>3. pc[r] = "publish" => /\ got[r].self \in Container /\ SameSelf(got[r].self) /\ Served(got[r].containers)
                           /\ seen = version /\ ~overlap => Agrees("publish", got[r])
  BY DEF MetaInv, CallerShape, Fetched, Fresh, SelfGot, ContainersGot, ServicesGot, OwnGot, NetsGot
<1>4. /\ Publishing \subseteq Phase /\ "idle" \in Phase
      /\ \A phase \in Publishing \cup {"idle"} :
           phase \notin SelfGot \cup HostsGot \cup ContainersGot \cup ServicesGot \cup OwnGot \cup NetsGot
  BY DEF Phase, Publishing, SelfGot, HostsGot, ContainersGot, ServicesGot, OwnGot, NetsGot
<1>5. ASSUME NEW phase \in Publishing \cup {"idle"}, pc' = [pc EXCEPT ![r] = phase],
             \A q \in Caller \ {r} : got'[q] = got[q] /\ built'[q] = built[q]
      PROVE  /\ pc'[r] = phase /\ \A q \in Caller \ {r} : pc'[q] = pc[q]
             /\ \A q \in Caller : pc'[q] \in SelfGot => got'[q].self \in Container /\ SameSelf(got'[q].self)
             /\ \A q \in Caller : pc'[q] \in ContainersGot => Served(got'[q].containers)
             /\ seen = version /\ ~overlap => \A q \in Caller : Agrees(pc'[q], got'[q])
  <2>1. pc'[r] = phase /\ \A q \in Caller \ {r} : pc'[q] = pc[q]
    BY <1>1, <1>5
  <2>2. \A q \in Caller \ {r} : /\ pc[q] \in SelfGot => got[q].self \in Container /\ SameSelf(got[q].self)
                                /\ pc[q] \in ContainersGot => Served(got[q].containers)
    BY DEF MetaInv, CallerShape, Fetched
  <2>3. seen = version /\ ~overlap => \A q \in Caller : Agrees(pc[q], got[q])
    BY DEF MetaInv, Fresh
  <2>4. Agrees(phase, got'[r])
    BY <1>4 DEF Agrees
  <2> QED BY <1>4, <1>5, <2>1, <2>2, <2>3, <2>4
<1>6. ServiceShape' <=> last' \in {"nil", "err"}
  BY <1>1 DEF MetaInv, ServiceShape
<1>7. \A c : SameSelf(c)' <=> SameSelf(c)
  BY <1>1 DEF SameSelf
<1>8. \A cs : Served(cs)' <=> Served(cs)
  BY <1>1 DEF Served
<1>9. \A phase, m : Agrees(phase, m)' <=> Agrees(phase, m)
  BY <1>1 DEF Agrees
<1>10. Elsewhere(doc) \subseteq away /\ Served(info.containers)
  BY DEF MetaInv, Fetched
<1>11. CASE PublishInfo(r)
  <2>1. /\ pc[r] = "publish" /\ pc' = [pc EXCEPT ![r] = "self="] /\ info' = got[r]
        /\ UNCHANGED <<got, self, entries, peers, local, remote, nonPeers, built, last>>
    BY <1>11 DEF PublishInfo, Goto
  <2>2. "self=" \in Publishing
    BY DEF Publishing
  <2>3. /\ pc'[r] = "self=" /\ \A q \in Caller \ {r} : pc'[q] = pc[q]
        /\ \A q \in Caller : pc'[q] \in SelfGot => got[q].self \in Container /\ SameSelf(got[q].self)
        /\ \A q \in Caller : pc'[q] \in ContainersGot => Served(got[q].containers)
        /\ seen = version /\ ~overlap => \A q \in Caller : Agrees(pc'[q], got[q])
    BY <1>5, <2>1, <2>2
  <2>4. Store' = Store
    BY <2>1 DEF Store
  <2>5. ServiceShape' /\ StoreShape'
    BY <1>1, <1>3, <1>6, <2>1, <2>4 DEF MetaInv, StoreShape, ServiceShape
  <2>6. CallerShape'
    BY <1>1, <1>4, <2>1, <2>2, <2>3 DEF CallerShape
  <2>7. Solo'
    BY <1>1, <2>1, <2>3 DEF MetaInv, Solo
  <2>8. \A q \in Caller : pc'[q] = "remote" <=> pc[q] = "remote"
    BY <2>1, <2>3
  <2>9. (Unique /\ Split /\ Proxied)'
    BY <1>1, <2>1, <2>4, <2>8 DEF MetaInv, Unique, Split, Proxied
  <2>10. ~overlap => \A q \in Caller : pc'[q] \notin {"build", "remote"}
    BY <1>2, <2>1, <2>3
  <2>11. Written'
    BY <1>1, <2>10 DEF Written
  <2>12. Fetched'
    BY <1>1, <1>3, <1>7, <1>8, <1>10, <2>1, <2>3 DEF Fetched
  <2>13. seen = version /\ ~overlap => Agrees("publish", got[r])
    BY <1>3, <2>1
  <2>14. Fresh'
    BY <1>1, <1>9, <2>1, <2>3, <2>13 DEF Fresh
  <2>15. SettledStoreIsCurrent'
    BY <2>3 DEF SettledStoreIsCurrent
  <2> QED BY <2>5, <2>6, <2>7, <2>9, <2>11, <2>12, <2>14, <2>15 DEF MetaInv
<1>12. CASE PublishSelf(r)
  <2>1. /\ pc[r] = "self=" /\ pc' = [pc EXCEPT ![r] = "build"] /\ self' = EntryOf(info, info.self)
        /\ UNCHANGED <<got, info, entries, peers, local, remote, nonPeers, built, last>>
    BY <1>12 DEF PublishSelf, Goto
  <2>2. "build" \in Publishing /\ "self=" \in Publishing
    BY DEF Publishing
  <2>3. /\ pc'[r] = "build" /\ \A q \in Caller \ {r} : pc'[q] = pc[q]
        /\ \A q \in Caller : pc'[q] \in SelfGot => got[q].self \in Container /\ SameSelf(got[q].self)
        /\ \A q \in Caller : pc'[q] \in ContainersGot => Served(got[q].containers)
        /\ seen = version /\ ~overlap => \A q \in Caller : Agrees(pc'[q], got[q])
    BY <1>5, <2>1, <2>2
  <2>4. Store' = Store
    BY <2>1 DEF Store
  <2>5. self' \in Entry
    BY <1>1, <2>1, EntryTypes
  <2>6. ServiceShape' /\ StoreShape'
    BY <1>1, <1>6, <2>1, <2>4, <2>5 DEF MetaInv, StoreShape, ServiceShape
  <2>7. CallerShape'
    BY <1>1, <1>4, <2>1, <2>2, <2>3 DEF CallerShape
  <2>8. Solo'
    BY <1>1, <2>1, <2>3 DEF MetaInv, Solo
  <2>9. \A q \in Caller : pc'[q] = "remote" <=> pc[q] = "remote"
    BY <2>1, <2>3
  <2>10. (Unique /\ Split /\ Proxied)'
    BY <1>1, <2>1, <2>4, <2>9 DEF MetaInv, Unique, Split, Proxied
  <2>11. ~overlap => \A q \in Caller : pc'[q] # "remote"
    BY <1>2, <2>1, <2>3
  <2>12. Written'
    BY <1>1, <2>1, <2>11 DEF Written
  <2>13. Fetched'
    BY <1>1, <1>7, <1>8, <1>10, <2>1, <2>3 DEF Fetched
  <2>14. seen = version /\ ~overlap => Agrees("publish", info)
    BY <2>1, <2>2 DEF MetaInv, Fresh
  <2>15. Fresh'
    BY <1>1, <1>9, <2>1, <2>3, <2>14 DEF Fresh
  <2>16. SettledStoreIsCurrent'
    BY <2>3 DEF SettledStoreIsCurrent
  <2> QED BY <2>6, <2>7, <2>8, <2>10, <2>12, <2>13, <2>15, <2>16 DEF MetaInv
<1>13. CASE PublishLocal(r)
  <2> DEFINE m == Maps(info, self)
  <2>1. /\ pc[r] = "build" /\ pc' = [pc EXCEPT ![r] = "remote"] /\ built' = [built EXCEPT ![r] = m]
        /\ entries' = m.entries /\ peers' = m.peers /\ local' = m.local
        /\ UNCHANGED <<got, info, self, remote, nonPeers, last>>
    BY <1>13 DEF PublishLocal, Goto
  <2>2. /\ m \in MapsRec /\ OnePerAddress(m.entries) /\ OnePerAddress(m.remote) /\ OnePerAddress(m.nonPeers)
        /\ NoIp \notin Keys(m.entries)
    BY <1>1, MapsSplit
  <2>3. built'[r] = m /\ \A q \in Caller \ {r} : built'[q] = built[q]
    BY <1>1, <2>1
  <2>4. "build" \in Publishing /\ "remote" \in Publishing
    BY DEF Publishing
  <2>5. /\ pc'[r] = "remote" /\ \A q \in Caller \ {r} : pc'[q] = pc[q]
        /\ \A q \in Caller : pc'[q] \in SelfGot => got[q].self \in Container /\ SameSelf(got[q].self)
        /\ \A q \in Caller : pc'[q] \in ContainersGot => Served(got[q].containers)
        /\ seen = version /\ ~overlap => \A q \in Caller : Agrees(pc'[q], got[q])
    BY <1>5, <2>1, <2>3, <2>4
  <2>6. ~overlap => self = EntryOf(info, info.self)
    BY <2>1 DEF MetaInv, Written
  <2>7. ~overlap => Keys(m.remote) \subseteq away
    BY <2>6, RemoteIsAway
  <2> HIDE DEF m
  <2>8. Store' \in MapsRec
    BY <2>1, <2>2 DEF MetaInv, StoreShape, Store, MapsRec
  <2>9. ServiceShape' /\ StoreShape'
    BY <1>1, <1>6, <2>1, <2>8 DEF MetaInv, StoreShape, ServiceShape
  <2>10. CallerShape'
    BY <1>1, <1>4, <2>1, <2>2, <2>4, <2>5 DEF CallerShape
  <2>11. Solo'
    BY <1>1, <2>1, <2>5 DEF MetaInv, Solo
  <2>12. Unique'
    BY <2>1, <2>2, <2>3, <2>5 DEF MetaInv, Unique
  <2>13. Split'
    BY <2>5 DEF Split
  <2>14. ~overlap => \A q \in Caller \ {r} : pc'[q] = "idle"
    BY <1>2, <2>1, <2>5
  <2>15. Written'
    BY <1>1, <2>1, <2>3, <2>6, <2>14 DEF Written, m
  <2>16. Proxied'
    BY <1>1, <2>1, <2>3, <2>7, <2>14 DEF MetaInv, Proxied
  <2>17. Fetched'
    BY <1>1, <1>7, <1>8, <1>10, <2>1, <2>5 DEF Fetched
  <2>18. seen = version /\ ~overlap => Agrees("publish", info)
    BY <2>1, <2>4 DEF MetaInv, Fresh
  <2>19. Fresh'
    BY <1>1, <1>9, <2>1, <2>5, <2>18 DEF Fresh
  <2>20. SettledStoreIsCurrent'
    BY <2>5 DEF SettledStoreIsCurrent
  <2> QED BY <2>9, <2>10, <2>11, <2>12, <2>13, <2>15, <2>16, <2>17, <2>19, <2>20 DEF MetaInv
<1>14. CASE PublishRemote(r)
  <2>1. /\ pc[r] = "remote" /\ pc' = [pc EXCEPT ![r] = "idle"] /\ got' = [got EXCEPT ![r] = Nothing] /\ last' = "nil"
        /\ remote' = built[r].remote /\ nonPeers' = built[r].nonPeers /\ built' = [built EXCEPT ![r] = NoMaps]
        /\ UNCHANGED <<info, self, entries, peers, local>>
    BY <1>14 DEF PublishRemote, Return, Goto
  <2>2. NoMaps \in MapsRec /\ Nothing \in Info
    BY NothingTyped DEF NoMaps, MapsRec
  <2>3. \A q \in Caller \ {r} : got'[q] = got[q] /\ built'[q] = built[q]
    BY <1>1, <2>1
  <2>4. /\ pc'[r] = "idle" /\ \A q \in Caller \ {r} : pc'[q] = pc[q]
        /\ \A q \in Caller : pc'[q] \in SelfGot => got'[q].self \in Container /\ SameSelf(got'[q].self)
        /\ \A q \in Caller : pc'[q] \in ContainersGot => Served(got'[q].containers)
        /\ seen = version /\ ~overlap => \A q \in Caller : Agrees(pc'[q], got'[q])
    BY <1>5, <2>1, <2>3
  <2>5. built[r] \in MapsRec
    BY <1>1
  <2>6. Store' \in MapsRec
    BY <2>1, <2>5 DEF MetaInv, StoreShape, Store, MapsRec
  <2>7. ServiceShape' /\ StoreShape'
    BY <1>1, <1>6, <2>1, <2>6 DEF MetaInv, StoreShape
  <2>8. CallerShape'
    BY <1>1, <1>4, <2>1, <2>2, <2>4 DEF CallerShape
  <2>9. Solo'
    BY <1>1, <2>4 DEF MetaInv, Solo
  <2>10. Unique'
    BY <2>1, <2>3, <2>4 DEF MetaInv, Unique
  <2>11. ~overlap => \A q \in Caller : pc'[q] = "idle"
    BY <1>2, <2>1, <2>4
  <2>12. ~overlap => /\ built[r] = Maps(info, self) /\ self = EntryOf(info, info.self)
                     /\ entries = built[r].entries /\ peers = built[r].peers /\ local = built[r].local
    BY <2>1 DEF MetaInv, Written
  <2>13. ~overlap => Store' = Maps(info, self)
    BY <2>1, <2>5, <2>12 DEF Store, MapsRec
  <2>14. SplitOK(Maps(info, self))
    BY <1>1, MapsSplit
  <2>15. Split'
    <3>1. SplitOK(Store)' <=> SplitOK(Store')
      BY DEF SplitOK, Keys
    <3> QED BY <1>1, <2>13, <2>14, <3>1 DEF Split
  <2>16. Written'
    BY <1>1, <2>11 DEF Written
  <2>17. Proxied'
    BY <1>1, <2>1, <2>11 DEF MetaInv, Proxied
  <2>18. Fetched'
    BY <1>1, <1>7, <1>8, <1>10, <2>1, <2>4 DEF Fetched
  <2>19. Fresh'
    <3>1. "idle" \notin Publishing
      BY DEF Publishing
    <3> QED BY <1>1, <1>9, <2>4, <2>11, <3>1 DEF Fresh
  <2>20. seen = version /\ ~overlap => Agrees("publish", info)
    BY <2>1 DEF MetaInv, Fresh, Publishing
  <2>21. seen = version /\ ~overlap => Store' = View
    BY <1>1, <2>12, <2>13, <2>20, MapsCurrent
  <2>22. View' = View
    BY <1>1 DEF View
  <2>23. SettledStoreIsCurrent'
    BY <1>1, <2>21, <2>22 DEF SettledStoreIsCurrent
  <2> QED BY <2>7, <2>8, <2>9, <2>10, <2>15, <2>16, <2>17, <2>18, <2>19, <2>23 DEF MetaInv
<1> QED BY <1>11, <1>12, <1>13, <1>14

(* Every step keeps the store, its callers and its history consistent.     *)
LEMMA MetaInvInductive == MetaInv /\ [Next]_vars => MetaInv'
BY OutsideKeeps, EarlyRequestsKeep, LateRequestsKeep, PublishKeeps DEF Next, ReloadStep

(* The store has loaded a document when the callers start.                 *)
LEMMA InitMetaInv == Init => MetaInv
<1> SUFFICES ASSUME Init PROVE MetaInv
  OBVIOUS
<1> USE MetadataConstantAssumption
<1>1. /\ doc \in Doc /\ doc.self \in Container /\ doc.hosts \in [Host -> Agent \cup {NoAgent}]
      /\ doc.containers \in Seq(Container) /\ doc.links \in [Service -> SUBSET Service]
      /\ doc.members \in [Service -> SUBSET Container] /\ doc.members[Own] \in SUBSET Container
      /\ doc.nets \in [Net -> NetName \cup {NoName}]
  BY MetadataDocAssumption DEF Init
<1>2. info = Whole(doc) /\ Whole(doc) \in Info /\ info.self = doc.self /\ info.containers = doc.containers
  BY <1>1 DEF Init, Whole, Info
<1>3. self = EntryOf(info, info.self) /\ self \in Entry
  BY <1>1, <1>2, EntryTypes DEF Init
<1>4. Maps(info, self) \in MapsRec /\ SplitOK(Maps(info, self))
  BY <1>2, MapsSplit
<1>5. Store = Maps(info, self)
  BY <1>4 DEF Init, Store, MapsRec
<1>6. ServiceShape
  <2>1. Elsewhere(doc) \subseteq Ip \cup {NoIp}
    BY <1>1, ElsewhereTyped
  <2>2. /\ version = 1 /\ seen = 0 /\ changes = MaxChange /\ MaxChange \in Nat /\ last = "nil"
        /\ overlap = FALSE /\ arp = NoIp /\ away = Elsewhere(doc)
    BY DEF Init
  <2>3. version \in Nat /\ changes \in 0..MaxChange /\ version + changes = MaxChange + 1 /\ seen \in 0..version
    BY <2>2
  <2>4. last \in {"nil", "err"} /\ overlap \in BOOLEAN /\ arp \in Ip \cup {NoIp} /\ away \subseteq Ip \cup {NoIp}
    BY <2>1, <2>2
  <2> QED BY <1>1, <2>3, <2>4 DEF ServiceShape
<1>7. \A r \in Caller : pc[r] = "idle" /\ pc \in [Caller -> Phase]
  BY DEF Init, Phase
<1>8. "idle" \notin Publishing \cup SelfGot \cup HostsGot \cup ContainersGot \cup ServicesGot \cup OwnGot \cup NetsGot
  BY DEF Publishing, SelfGot, HostsGot, ContainersGot, ServicesGot, OwnGot, NetsGot
<1>9. NoMaps \in MapsRec
  BY DEF NoMaps, MapsRec
<1>10. CallerShape
  BY <1>7, <1>8, <1>9, NothingTyped DEF Init, CallerShape, Phase
<1>11. StoreShape
  BY <1>1, <1>2, <1>3, <1>4, <1>5 DEF StoreShape
<1>12. Solo /\ Split /\ Written
  BY <1>4, <1>5, <1>7 DEF Solo, Split, Written
<1>13. Unique
  BY <1>2, <1>7, MapsSplit DEF Init, Unique
<1>14. Fetched
  BY <1>1, <1>2, <1>7, <1>8 DEF Init, Fetched, Served, SameSelf
<1>15. Fresh
  BY DEF Init, Fresh
<1>16. SettledStoreIsCurrent
  BY DEF Init, SettledStoreIsCurrent
<1>17. Proxied
  <2>1. self.host = info.hosts[info.self.host]
    BY <1>1, <1>2, <1>3, EntryTypes
  <2>2. SUFFICES ASSUME NEW e \in Entries(info), e.host # self.host PROVE e.ip \in Elsewhere(doc)
    BY <1>5, <1>7 DEF Init, Proxied, Maps, Keys
  <2>3. PICK i \in DOMAIN info.containers :
          e.ip = info.containers[i].ip /\ e.host = info.hosts[info.containers[i].host]
    BY <1>2, EntriesTypes
  <2>4. info.containers[i].host # doc.self.host
    BY <1>2, <2>1, <2>2, <2>3
  <2> QED BY <1>2, <2>3, <2>4 DEF Elsewhere
<1> QED BY <1>6, <1>10, <1>11, <1>12, <1>13, <1>14, <1>15, <1>16, <1>17 DEF MetaInv

(* The invariant implies the model's properties.                           *)
LEMMA MetaInvImplies ==
  MetaInv => TypeOK /\ StoreSplitsEntries /\ LocalNeverProxied /\ SettledStoreIsCurrent
<1> SUFFICES ASSUME MetaInv PROVE TypeOK /\ StoreSplitsEntries /\ LocalNeverProxied /\ SettledStoreIsCurrent
  OBVIOUS
<1>1. version \in 1..(MaxChange + 1)
  BY MetadataConstantAssumption DEF MetaInv, ServiceShape
<1>2. \A m \in Info : InfoOK(m)
  BY DEF Info, InfoOK
<1>3. \A es \in {entries, peers, local, remote, nonPeers} : es \in SUBSET Entry
  BY DEF MetaInv, StoreShape, Store, MapsRec
<1>4. TypeOK
  BY <1>1, <1>2, <1>3 DEF MetaInv, ServiceShape, CallerShape, StoreShape, TypeOK
<1>5. StoreSplitsEntries
  BY DEF MetaInv, Unique, Split, SplitOK, Store, StoreSplitsEntries
<1>6. LocalNeverProxied
  BY DEF MetaInv, Proxied, LocalNeverProxied, Answers
<1> QED BY <1>4, <1>5, <1>6 DEF MetaInv

(* The types of the store, its callers and the metadata service.           *)
(* metadata.go:131-472.                                                    *)
THEOREM MetadataTypeCorrect == Spec => []TypeOK
BY InitMetaInv, MetaInvInductive, MetaInvImplies, PTL DEF Spec

(* For any callers, containers and documents, and any mixture of documents *)
(* that a Reload has seen: the published list names an address once, and   *)
(* outside overlapping Reloads the maps split it, which is what the two    *)
(* backends assume of the store.  metadata.go:280-351.                     *)
THEOREM StoreSplitsEntriesHolds == Spec => []StoreSplitsEntries
BY InitMetaInv, MetaInvInductive, MetaInvImplies, PTL DEF Spec

(* For any documents in which the agent's own container stays where it is: *)
(* the ARP proxy answers only for addresses that some document has put on  *)
(* another host.  metadata.go:131-143, arp_proxy.go:26-46.                 *)
THEOREM LocalNeverProxiedHolds == Spec => []LocalNeverProxied
BY InitMetaInv, MetaInvInductive, MetaInvImplies, PTL DEF Spec

(* For any documents and any failed requests: when the last version has    *)
(* been acted on by a Reload that succeeded, and Reloads did not overlap,  *)
(* the store is what the document says.  metadata.go:379-472.              *)
THEOREM SettledStoreIsCurrentHolds == Spec => []SettledStoreIsCurrent
BY InitMetaInv, MetaInvInductive, MetaInvImplies, PTL DEF Spec

-----------------------------------------------------------------------------
(* Containers listed with the address of an agent are on the agent's host, *)
(* also if the list and the services are of different documents.           *)
PeersKeepHost ==
  \A d, f \in Doc : \A s \in Service : \A c \in d.members[s] : \A i \in DOMAIN f.containers :
    c.ip # NoIp /\ f.containers[i].ip = c.ip => f.containers[i].host = c.host

(* The services fetched are those of some document.                        *)
Sourced ==
  /\ \A r \in Caller : /\ pc[r] \in ServicesGot => \E d \in Doc : got[r].members = d.members
                       /\ pc[r] \in OwnGot => \E d \in Doc : got[r].own = d.members[Own]
  /\ \E d \in Doc : info.members = d.members
  /\ \E d \in Doc : info.own = d.members[Own]

(* Unless it is being published, the store is what its information says.   *)
Published ==
  (~overlap /\ \A r \in Caller : pc[r] \notin Publishing) =>
    self = EntryOf(info, info.self) /\ Store = Maps(info, self)

(* Every step keeps the services and containers those of some document.    *)
LEMMA SourcedKept ==
  ASSUME MetaInv, Sourced, [Next]_vars
  PROVE  Sourced'
<1>1. pc \in [Caller -> Phase] /\ got \in [Caller -> Info] /\ doc \in Doc
  BY DEF MetaInv, CallerShape, ServiceShape
<1> USE DEF ServicesGot, OwnGot, NetsGot
<1>2. CASE UNCHANGED vars
  BY <1>2 DEF Sourced, vars, storeVars
<1>3. CASE ChangeDoc \/ Idle \/ ArpDone \/ \E i \in Ip : ArpRequest(i)
  <2>1. UNCHANGED <<pc, got, info>>
    BY <1>3 DEF ChangeDoc, Idle, ArpDone, ArpRequest, vars, storeVars
  <2>2. QED
    BY <2>1 DEF Sourced
<1>4. CASE OnChange \/ \E r \in Web : HttpReload(r)
  <2>1. PICK r \in Caller : Begin(r)
    BY <1>4 DEF OnChange, HttpReload, Caller
  <2>2. pc' = [pc EXCEPT ![r] = "self"] /\ UNCHANGED <<got, info>>
    BY <2>1 DEF Begin, Goto, storeVars
  <2>3. QED
    BY <1>1, <2>2 DEF Sourced
<1>5. ASSUME NEW r \in Caller, ReloadStep(r) PROVE Sourced'
  <2> DEFINE g == got[r]
  <2> SUFFICES
             /\ \A q \in Caller : /\ pc'[q] \in ServicesGot => \E d \in Doc : got'[q].members = d.members
                                  /\ pc'[q] \in OwnGot => \E d \in Doc : got'[q].own = d.members[Own]
             /\ \E d \in Doc : info'.members = d.members
             /\ \E d \in Doc : info'.own = d.members[Own]
    BY DEF Sourced
  <2>1. g \in Info
    BY <1>1
  <2>2. CASE \E phase \in {"idle", "hosts", "hostsNoSelf", "containers", "containersNoSelf", "services",
                           "servicesNoSelf", "self=", "build", "remote"} :
               /\ pc' = [pc EXCEPT ![r] = phase] /\ \A q \in Caller \ {r} : got'[q] = got[q]
               /\ UNCHANGED info
    BY <2>2, <1>1 DEF Sourced
  <2>3. CASE Failed(r) /\ UNCHANGED info
    BY <2>2, <2>3, <1>1 DEF Failed, Return, Goto
  <2>4. CASE RequestSelf(r) \/ RequestHosts(r) \/ RequestContainers(r)
    BY <2>2, <2>3, <2>4, <1>1 DEF RequestSelf, RequestHosts, RequestContainers, Goto, Take, otherVars, storeVars
  <2>5. CASE RequestServices(r)
    <3> DEFINE m == [g EXCEPT !.links = doc.links, !.members = doc.members]
               f == [m EXCEPT !.self = SelfByIp(m), !.own = doc.members[Own]]
    <3>1. m.members = doc.members /\ f.members = doc.members /\ f.own = doc.members[Own]
      BY <2>1 DEF Info
    <3>2. \/ Failed(r)
          \/ got' = [got EXCEPT ![r] = m] /\ pc' = [pc EXCEPT ![r] = "ownService"]
          \/ got' = [got EXCEPT ![r] = f] /\ pc' = [pc EXCEPT ![r] = "networks"]
      BY <2>5 DEF RequestServices, Goto
    <3>3. UNCHANGED info
      BY <2>5 DEF RequestServices, otherVars, storeVars
    <3> HIDE DEF m, f
    <3>4. QED
      BY <2>3, <3>1, <3>2, <3>3, <1>1 DEF Sourced
  <2>6. CASE RequestOwnService(r)
    <3> DEFINE m == [g EXCEPT !.own = doc.members[Own], !.links[Own] = doc.links[Own]]
    <3>1. m.own = doc.members[Own] /\ m.members = g.members
      BY <2>1 DEF Info
    <3>2. \/ Failed(r)
          \/ got' = [got EXCEPT ![r] = m] /\ pc' = [pc EXCEPT ![r] = "networks"]
      BY <2>6 DEF RequestOwnService, Goto
    <3>3. UNCHANGED info /\ pc[r] = "ownService"
      BY <2>6 DEF RequestOwnService, otherVars, storeVars
    <3> HIDE DEF m
    <3>4. QED
      BY <2>3, <3>1, <3>2, <3>3, <1>1 DEF Sourced
  <2>7. CASE RequestNetworks(r)
    <3> DEFINE m == [g EXCEPT !["nets"] = doc.nets]
    <3>1. m.own = g.own /\ m.members = g.members
      BY <2>1 DEF Info
    <3>2. \/ Failed(r)
          \/ got' = [got EXCEPT ![r] = m] /\ pc' = [pc EXCEPT ![r] = "publish"]
      BY <2>7 DEF RequestNetworks, Goto, Take
    <3>3. UNCHANGED info /\ pc[r] = "networks"
      BY <2>7 DEF RequestNetworks, otherVars, storeVars
    <3> HIDE DEF m
    <3>4. QED
      BY <2>3, <3>1, <3>2, <3>3, <1>1 DEF Sourced
  <2>8. CASE PublishInfo(r)
    <3>1. pc[r] = "publish" /\ pc' = [pc EXCEPT ![r] = "self="] /\ info' = g /\ UNCHANGED got
      BY <2>8 DEF PublishInfo, Goto
    <3>2. QED
      BY <3>1, <1>1 DEF Sourced
  <2>9. CASE PublishSelf(r) \/ PublishLocal(r) \/ PublishRemote(r)
    BY <2>2, <2>9, <1>1 DEF PublishSelf, PublishLocal, PublishRemote, Goto, Return
  <2>10. QED
    BY <1>5, <2>4, <2>5, <2>6, <2>7, <2>8, <2>9 DEF ReloadStep
<1>6. QED
  BY <1>2, <1>3, <1>4, <1>5 DEF Next

(* Every step keeps the store what its information says.                   *)
LEMMA PublishedKept ==
  ASSUME MetaInv, Published, [Next]_vars
  PROVE  Published'
<1>1. pc \in [Caller -> Phase] /\ built \in [Caller -> MapsRec]
  BY DEF MetaInv, CallerShape
<1> USE DEF Publishing
<1>2. CASE UNCHANGED <<storeVars, pc>> /\ overlap' = overlap
  <2>1. Store' = Store
    BY <1>2 DEF Store, storeVars
  <2>2. QED
    BY <1>2, <2>1 DEF Published, storeVars
<1>3. ASSUME NEW r \in Caller, NEW phase, pc' = [pc EXCEPT ![r] = phase], pc[r] \notin Publishing, UNCHANGED storeVars,
             overlap' \/ overlap' = overlap
      PROVE  Published'
  <2>1. Store' = Store
    BY <1>3 DEF Store, storeVars
  <2>2. (\A q \in Caller : pc'[q] \notin Publishing) => \A q \in Caller : pc[q] \notin Publishing
    BY <1>1, <1>3
  <2>3. QED
    BY <1>3, <2>1, <2>2 DEF Published, storeVars
<1>4. CASE ChangeDoc \/ Idle \/ ArpDone \/ (\E i \in Ip : ArpRequest(i)) \/ UNCHANGED vars
  BY <1>2, <1>4 DEF ChangeDoc, Idle, ArpDone, ArpRequest, vars
<1>5. CASE OnChange \/ \E r \in Web : HttpReload(r)
  <2>1. PICK r \in Caller : Begin(r)
    BY <1>5 DEF OnChange, HttpReload, Caller
  <2>2. pc[r] = "idle" /\ pc' = [pc EXCEPT ![r] = "self"] /\ UNCHANGED storeVars /\ (overlap' \/ overlap' = overlap)
    BY <2>1 DEF Begin, Goto, MetaInv, ServiceShape
  <2>3. QED
    BY <1>3, <2>2
<1>6. ASSUME NEW r \in Caller, RequestSelf(r) \/ RequestHosts(r) \/ RequestContainers(r) \/ RequestServices(r)
                               \/ RequestOwnService(r) \/ RequestNetworks(r)
      PROVE  Published'
  <2>1. pc[r] \notin Publishing /\ UNCHANGED <<storeVars, overlap>>
    BY <1>6 DEF RequestSelf, RequestHosts, RequestContainers, RequestServices, RequestOwnService, RequestNetworks,
       otherVars
  <2>2. \E phase : pc' = [pc EXCEPT ![r] = phase]
    BY <1>6 DEF RequestSelf, RequestHosts, RequestContainers, RequestServices, RequestOwnService, RequestNetworks,
       Goto, Failed, Return
  <2>3. QED
    BY <1>3, <2>1, <2>2
<1>7. ASSUME NEW r \in Caller, PublishInfo(r) \/ PublishSelf(r) \/ PublishLocal(r) PROVE Published'
  <2>1. pc'[r] \in Publishing
    BY <1>1, <1>7 DEF PublishInfo, PublishSelf, PublishLocal, Goto
  <2>2. QED
    BY <2>1 DEF Published
<1>8. ASSUME NEW r \in Caller, PublishRemote(r) PROVE Published'
  <2>1. /\ pc[r] = "remote" /\ remote' = built[r].remote /\ nonPeers' = built[r].nonPeers
        /\ UNCHANGED <<info, self, entries, peers, local, overlap>>
    BY <1>8 DEF PublishRemote
  <2>2. SUFFICES ASSUME ~overlap PROVE self = EntryOf(info, info.self) /\ Store' = Maps(info, self)
    BY <2>1 DEF Published
  <2>3. /\ built[r] = Maps(info, self) /\ self = EntryOf(info, info.self)
        /\ entries = built[r].entries /\ peers = built[r].peers /\ local = built[r].local
    BY <2>1, <2>2 DEF MetaInv, Written
  <2>4. built[r] \in MapsRec
    BY <1>1
  <2>5. QED
    BY <2>1, <2>3, <2>4 DEF Store, MapsRec
<1>9. QED
  BY <1>4, <1>5, <1>6, <1>7, <1>8 DEF Next, ReloadStep

(* The entries, one by one: the first container with an address gives the  *)
(* entry, which is this agent's if the address is.                         *)
LEMMA EntriesAre ==
  ASSUME NEW m \in Info, m.self \in Container
  PROVE  /\ Entries(m) = {EntryAt(m, i) : i \in {j \in DOMAIN m.containers : First(m, j)}}
         /\ \A i \in DOMAIN m.containers :
              /\ EntryAt(m, i).ip = m.containers[i].ip /\ EntryAt(m, i).host = m.hosts[m.containers[i].host]
              /\ EntryAt(m, i).self <=> m.containers[i].ip = m.self.ip
              /\ EntryAt(m, i).peer <=> m.containers[i].ip \in Keys(PeersMap(m))
<1>1. Entries(m) = {EntryAt(m, i) : i \in {j \in DOMAIN m.containers : First(m, j)}}
  BY DEF Entries, EntryAt, Keys
<1>2. ASSUME NEW i \in DOMAIN m.containers
      PROVE  /\ EntryAt(m, i).ip = m.containers[i].ip /\ EntryAt(m, i).host = m.hosts[m.containers[i].host]
             /\ EntryAt(m, i).self <=> m.containers[i].ip = m.self.ip
             /\ EntryAt(m, i).peer <=> m.containers[i].ip \in Keys(PeersMap(m))
  <2> DEFINE c == m.containers[i]
             e == EntryOf(m, c)
  <2>1. c \in Container
    BY DEF Info
  <2>2. e.ip = c.ip /\ e.host = m.hosts[c.host] /\ e.peer = FALSE /\ e \in Entry
    BY <2>1, EntryTypes
  <2>3. e.self <=> c.ip = m.self.ip
    BY DEF EntryOf
  <2>4. EntryAt(m, i) = IF e.ip \in Keys(PeersMap(m)) THEN AsPeer(e) ELSE e
    BY DEF EntryAt
  <2>5. AsPeer(e).ip = e.ip /\ AsPeer(e).host = e.host /\ AsPeer(e).self = e.self /\ AsPeer(e).peer = TRUE
    BY <2>2 DEF AsPeer, Entry
  <2> HIDE DEF e, c
  <2>6. QED
    BY <2>2, <2>3, <2>4, <2>5 DEF c
<1>3. QED
  BY <1>1, <1>2

(* This agent has an entry, and every container with its address is on its *)
(* host, whichever document the list is from.                              *)
LEMMA SelfListed ==
  ASSUME MetaInv
  PROVE  /\ \E i \in DOMAIN info.containers : First(info, i) /\ info.containers[i].ip = info.self.ip
         /\ \A i \in DOMAIN info.containers :
              info.containers[i].ip = info.self.ip => info.containers[i].host = info.self.host
<1>1. doc \in Doc /\ Served(info.containers) /\ SameSelf(info.self) /\ info \in Info
  BY DEF MetaInv, ServiceShape, Fetched, StoreShape
<1>2. PICK d \in Doc : info.containers = d.containers
  BY <1>1 DEF Served
<1>3. /\ info.self.ip = d.self.ip /\ info.self.host = d.self.host /\ info.self.net = d.self.net
  BY <1>1, MetadataSelfAssumption DEF SameSelf
<1>4. /\ d.self.ip \in Ip
      /\ \A i \in DOMAIN d.containers : d.containers[i].ip = d.self.ip =>
           d.containers[i].host = d.self.host /\ d.containers[i].net = d.self.net
      /\ \E i \in DOMAIN d.containers : d.containers[i].ip = d.self.ip /\ ~d.containers[i].shared
  BY MetadataDocAssumption
<1>5. \A i \in DOMAIN info.containers :
        info.containers[i].ip = info.self.ip => info.containers[i].host = info.self.host
  BY <1>2, <1>3, <1>4
<1> DEFINE T == {i \in DOMAIN info.containers : Eligible(info, i) /\ info.containers[i].ip = info.self.ip}
<1>6. DOMAIN info.containers = 1..Len(info.containers) /\ Len(info.containers) \in Nat
  BY <1>1 DEF Info
<1>7. T \subseteq Nat
  BY <1>6
<1>8. T # {}
  <2>1. PICK i \in DOMAIN d.containers : d.containers[i].ip = d.self.ip /\ ~d.containers[i].shared
    BY <1>4
  <2>2. info.containers[i].net \in PeersNetworks(info)
    BY <1>2, <1>3, <1>4, <2>1 DEF PeersNetworks
  <2>3. info.containers[i].ip # NoIp
    BY <1>2, <1>4, <2>1, MetadataConstantAssumption
  <2>4. Eligible(info, i)
    BY <1>2, <2>1, <2>2, <2>3 DEF Eligible
  <2>5. QED
    BY <1>2, <1>3, <2>1, <2>4
<1>9. PICK i \in T : \A j \in T : i <= j
  <2> HIDE DEF T
  <2>1. QED
    BY <1>7, <1>8, FirstCandidate
<1>10. First(info, i)
  <2>1. SUFFICES ASSUME NEW j \in 1..(i - 1), Eligible(info, j) PROVE info.containers[j].ip # info.containers[i].ip
    BY <1>9 DEF First
  <2>2. j \in DOMAIN info.containers /\ ~(i <= j)
    BY <1>6, <1>9
  <2>3. QED
    BY <1>9, <2>1, <2>2
<1>11. QED
  BY <1>5, <1>9, <1>10

(* A peer with a listed address has the entry that the list has.           *)
LEMMA PeersListed ==
  ASSUME MetaInv, Sourced, PeersKeepHost
  PROVE  {p \in PeersMap(info) : p.ip \in Keys(Entries(info))} = {e \in Entries(info) : e.peer}
<1>1. info \in Info /\ info.self \in Container /\ Served(info.containers)
  BY DEF MetaInv, StoreShape, Fetched
<1>2. PICK f \in Doc : info.containers = f.containers
  BY <1>1 DEF Served
<1>3. /\ Entries(info) = {EntryAt(info, i) : i \in {j \in DOMAIN info.containers : First(info, j)}}
      /\ \A i \in DOMAIN info.containers :
           /\ EntryAt(info, i).ip = info.containers[i].ip
           /\ EntryAt(info, i).peer <=> info.containers[i].ip \in Keys(PeersMap(info))
  BY <1>1, EntriesAre
<1>4. ASSUME NEW c \in info.own \cup LinkedContainers(info)
      PROVE  \E d \in Doc, s \in Service : c \in d.members[s]
  <2>1. CASE c \in info.own
    BY <2>1, MetadataConstantAssumption DEF Sourced
  <2>2. CASE c \in LinkedContainers(info)
    <3>1. PICK s \in LinkedServices(info) : c \in info.members[s]
      BY <2>2 DEF LinkedContainers
    <3>2. s \in Service
      BY <3>1 DEF LinkedServices, ServicesByName
    <3>3. QED
      BY <3>1, <3>2 DEF Sourced
  <2>3. QED
    BY <2>1, <2>2
<1>5. ASSUME NEW c \in info.own \cup LinkedContainers(info), NEW i \in DOMAIN info.containers, First(info, i),
             info.containers[i].ip = c.ip
      PROVE  AsPeer(EntryOf(info, c)) = EntryAt(info, i)
  <2>1. info.containers[i].ip # NoIp
    BY <1>5 DEF First, Eligible
  <2>2. info.containers[i].host = c.host
    BY <1>2, <1>4, <1>5, <2>1 DEF PeersKeepHost
  <2>3. EntryOf(info, c) = EntryOf(info, info.containers[i])
    BY <1>5, <2>2 DEF EntryOf
  <2>4. EntryOf(info, info.containers[i]).ip \in Keys(PeersMap(info))
    <3>1. AsPeer(EntryOf(info, c)).ip = c.ip
      BY DEF AsPeer, EntryOf
    <3>2. EntryOf(info, info.containers[i]).ip = c.ip
      BY <1>5 DEF EntryOf
    <3>3. AsPeer(EntryOf(info, c)) \in PeersMap(info)
      BY DEF PeersMap
    <3>4. QED
      BY <3>1, <3>2, <3>3 DEF Keys
  <2>5. QED
    BY <2>3, <2>4 DEF EntryAt
<1>6. \A c \in info.own \cup LinkedContainers(info) : AsPeer(EntryOf(info, c)).ip = c.ip
  BY DEF AsPeer, EntryOf
<1>7. ASSUME NEW p \in PeersMap(info), p.ip \in Keys(Entries(info)) PROVE p \in Entries(info) /\ p.peer
  <2>1. PICK c \in info.own \cup LinkedContainers(info) : p = AsPeer(EntryOf(info, c))
    BY DEF PeersMap
  <2>2. PICK e \in Entries(info) : e.ip = p.ip
    BY <1>7 DEF Keys
  <2>3. PICK i \in DOMAIN info.containers : First(info, i) /\ e = EntryAt(info, i)
    BY <1>3
  <2>4. p = e
    BY <1>3, <1>5, <1>6, <2>1, <2>2, <2>3
  <2>5. p.ip \in Keys(PeersMap(info))
    BY DEF Keys
  <2>6. QED
    BY <1>3, <2>2, <2>3, <2>4, <2>5
<1>8. ASSUME NEW e \in Entries(info), e.peer PROVE e \in PeersMap(info) /\ e.ip \in Keys(Entries(info))
  <2>1. PICK i \in DOMAIN info.containers : First(info, i) /\ e = EntryAt(info, i)
    BY <1>3
  <2>2. PICK p \in PeersMap(info) : p.ip = info.containers[i].ip
    BY <1>3, <1>8, <2>1 DEF Keys
  <2>3. PICK c \in info.own \cup LinkedContainers(info) : p = AsPeer(EntryOf(info, c))
    BY DEF PeersMap
  <2>4. e = p
    BY <1>5, <1>6, <2>1, <2>2, <2>3
  <2>5. QED
    BY <2>4 DEF Keys
<1>9. QED
  BY <1>7, <1>8

(* A store that is what its information says agrees with the file store.   *)
LEMMA PublishedImplies ==
  ASSUME MetaInv, Sourced, Published, PeersKeepHost
  PROVE  FileStoreAgrees
<1> SUFFICES ASSUME ~overlap, \A r \in Caller : pc[r] \notin Publishing
             PROVE  /\ \E e \in entries : e.self
                    /\ SimpleMaps(entries) = [Store EXCEPT !.peers = {e \in @ : e.ip \in Keys(entries)}]
  BY DEF FileStoreAgrees, Publishing
<1> DEFINE es == Entries(info)
<1>1. info \in Info /\ info.self \in Container
  BY DEF MetaInv, StoreShape
<1>2. self = EntryOf(info, info.self) /\ Store = Maps(info, self)
  BY DEF Published
<1>3. /\ entries = es /\ peers = PeersMap(info) /\ local = {e \in es : e.host = self.host}
      /\ remote = {e \in es : e.host # self.host} /\ nonPeers = {e \in es : e.host # self.host /\ ~e.peer}
  BY <1>2 DEF Store, Maps
<1>4. self.host = info.hosts[info.self.host]
  BY <1>1, <1>2, EntryTypes
<1>5. \E e \in es : e.self
  BY <1>1, EntriesAre, SelfListed
<1>6. \A e \in es : e.self => e.host = self.host
  <2>1. SUFFICES ASSUME NEW e \in es, e.self PROVE e.host = self.host
    OBVIOUS
  <2>2. PICK i \in DOMAIN info.containers : e = EntryAt(info, i)
    BY <1>1, EntriesAre
  <2>3. info.containers[i].ip = info.self.ip /\ e.host = info.hosts[info.containers[i].host]
    BY <1>1, <2>1, <2>2, EntriesAre
  <2>4. QED
    BY <1>4, <2>3, SelfListed
<1>7. {p \in PeersMap(info) : p.ip \in Keys(es)} = {e \in es : e.peer}
  BY PeersListed
<1>8. {e \in es : e.ip # NoIp} = es
  BY <1>1, EntriesTypes DEF Keys
<1> HIDE DEF es
<1> DEFINE me == CHOOSE e \in es : e.self
<1>9. me \in es /\ me.self
  BY <1>5
<1>10. me.host = self.host
  BY <1>6, <1>9
<1> HIDE DEF me
<1>11. SimpleMaps(es) = [entries |-> es, peers |-> {e \in es : e.peer}, local |-> es \ remote, remote |-> remote,
                         nonPeers |-> {e \in remote : ~e.peer}]
  BY <1>3, <1>8, <1>10 DEF SimpleMaps, me
<1>12. es \ remote = local /\ {e \in remote : ~e.peer} = nonPeers
  BY <1>3
<1>13. [Store EXCEPT !.peers = {e \in @ : e.ip \in Keys(entries)}]
         = [entries |-> es, peers |-> {e \in es : e.peer}, local |-> local, remote |-> remote, nonPeers |-> nonPeers]
  <2>1. {e \in Store.peers : e.ip \in Keys(entries)} = {e \in es : e.peer}
    BY <1>3, <1>7 DEF Store
  <2>2. \A x : [Store EXCEPT !.peers = x]
                = [entries |-> entries, peers |-> x, local |-> local, remote |-> remote, nonPeers |-> nonPeers]
    BY DEF Store
  <2>3. QED
    BY <1>3, <2>1, <2>2
<1>14. QED
  BY <1>3, <1>5, <1>11, <1>12, <1>13

(* For any callers and any documents that keep an agent's address on one   *)
(* host: once a Reload has published its fields and none overlapped, a     *)
(* file with the published entries has a Self record and gives the file    *)
(* store the same maps.  simple.go:61-146, metadata.go:280-351.            *)
THEOREM FileStoreAgreesHolds ==
  ASSUME PeersKeepHost
  PROVE  Spec => []FileStoreAgrees
<1>1. Init => MetaInv /\ Sourced /\ Published
  <2> SUFFICES ASSUME Init PROVE Sourced /\ Published
    BY InitMetaInv
  <2>1. MetaInv
    BY InitMetaInv
  <2>2. /\ doc \in Doc /\ info.members = doc.members /\ info.own = doc.members[Own]
        /\ \A r \in Caller : pc[r] = "idle"
    BY DEF Init, Whole
  <2>3. Sourced
    BY <2>2 DEF Sourced, ServicesGot, OwnGot, NetsGot
  <2>4. info \in Info
    BY <2>1 DEF MetaInv, StoreShape
  <2>5. Maps(info, self) \in MapsRec
    BY <2>4, MapsSplit
  <2>6. Store = Maps(info, self)
    BY <2>5 DEF Init, Store, MapsRec
  <2>7. QED
    BY <2>3, <2>6 DEF Published, Init
<1>2. MetaInv /\ Sourced /\ Published /\ [Next]_vars => MetaInv' /\ Sourced' /\ Published'
  BY MetaInvInductive, SourcedKept, PublishedKept
<1>3. MetaInv /\ Sourced /\ Published => FileStoreAgrees
  BY PublishedImplies
<1>4. QED
  BY <1>1, <1>2, <1>3, PTL DEF Spec

=============================================================================
