---------------------------- MODULE VxlanOverlay ----------------------------
(***************************************************************************)
(* The VXLAN backend, backend/vxlan: Reload and configure with the diff of *)
(* utils.go, and the kernel's routes, neighbour (ARP) entries and vxlan    *)
(* forwarding entries they maintain through netlink.                       *)
(*                                                                         *)
(* The mutex in configure is commented out, so every Reload in progress    *)
(* interleaves with every other.  configure remembers what it installed in *)
(* prevPeerEntries and prevNonPeerRemoteEntries and works on differences.  *)
(* A peer's VTEP MAC is a function of its overlay address                  *)
(* (getMACAddressForVxlanIP is injective), so MACs are overlay addresses.  *)
(***************************************************************************)
EXTENDS Naturals, FiniteSets

CONSTANTS
  Reloader,   \* goroutines that may be inside Overlay.Reload
  Ip, Host,   \* overlay addresses; host addresses
  Doc,        \* documents the metadata service may serve
  NoIp, NoHost,
  MaxChange, MaxFault   \* bounds: metadata changes, failing netlink calls

(* An entry of the store has no host address if the metadata does not list *)
(* its host; what is recorded has one.                                     *)
Entry  == [ip: Ip, host: Host \cup {NoHost}]
Placed == [ip: Ip, host: Host]

(* PeerEntriesMap without this host's own entry (configure deletes it) and *)
(* RemoteNonPeerEntriesMap: maps keyed by address, with disjoint keys.     *)
ASSUME VxlanDocAssumption ==
  \A d \in Doc : /\ d \in [peers: SUBSET Entry, remotes: SUBSET Entry]
                 /\ \A e, f \in d.peers \cup d.remotes : e.ip = f.ip => e = f
                 /\ d.peers \cap d.remotes = {}

ASSUME VxlanBoundAssumption ==
  /\ Reloader # {} /\ NoIp \notin Ip /\ NoHost \notin Host /\ MaxChange \in Nat /\ MaxFault \in Nat

VARIABLES
  doc,                       \* the metadata service
  info, peers, remotes,      \* the store's info, peersMap and remoteNonPeersMap
  prevPeers, prevRemotes,    \* Overlay.prevPeerEntries, prevNonPeerRemoteEntries
  mapping,                   \* Overlay.peersMapping: host -> its agent's address
  vtep, routes, arp, fdb,    \* kernel: interface, /32 routes on it, neighbours, forwarding
  pc, snap, add, del, upd, old,   \* per caller: position, fetched document, the diff, the local copy of prev
  moved, hit,                \* history: has a store field changed since the last configure began?
                             \*   the addresses for which a netlink call has failed
  changes, faults

vars == <<doc, info, peers, remotes, prevPeers, prevRemotes, mapping, vtep, routes, arp, fdb, pc, snap,
          add, del, upd, old, moved, hit, changes, faults>>
storeVars  == <<info, peers, remotes>>
kernelVars == <<vtep, routes, arp, fdb>>
diffVars   == <<add, del, upd, old>>
faultVars  == <<faults, hit>>

Fault(is) == faults > 0 /\ faults' = faults - 1 /\ hit' = hit \cup is
NoFault   == UNCHANGED faultVars
At(r, phase)   == pc[r] = phase
Goto(r, phase) == pc' = [pc EXCEPT ![r] = phase]

-----------------------------------------------------------------------------
(* calculateDiffOfEntries: maps as sets of entries with distinct keys.     *)
HasKey(ip, entries)   == \E e \in entries : e.ip = ip
ToAdd(prev, current)  == {e \in current : ~HasKey(e.ip, prev)}
ToUpd(prev, current)  == {e \in current : HasKey(e.ip, prev) /\ e \notin prev}
ToDel(prev, current)  == {e \in prev : ~HasKey(e.ip, current)}
Noop(prev, current)   == prev \cap current

(* m[e.ip] = e                                                             *)
Put(entries, e) == {f \in entries : f.ip # e.ip} \cup {e}

(* buildPeersMapping: of two peers on a host, Go's map order picks one.    *)
PeersMappings(entries) ==
  {m \in [Host -> Ip \cup {NoIp}] :
     \A h \in Host : LET at == {e.ip : e \in {f \in entries : f.host = h}} IN
                     IF at = {} THEN m[h] = NoIp ELSE m[h] \in at}

-----------------------------------------------------------------------------
Init ==
  /\ doc \in Doc /\ info = doc /\ peers = doc.peers /\ remotes = doc.remotes
  /\ prevPeers = {} /\ prevRemotes = {} /\ mapping = [h \in Host |-> NoIp]
  /\ vtep = "none" /\ routes = {} /\ arp = [i \in Ip |-> NoIp] /\ fdb = [i \in Ip |-> NoHost]
  /\ pc = [r \in Reloader |-> "idle"] /\ snap = [r \in Reloader |-> doc]
  /\ add = [r \in Reloader |-> {}] /\ del = [r \in Reloader |-> {}]
  /\ upd = [r \in Reloader |-> {}] /\ old = [r \in Reloader |-> {}]
  /\ moved = TRUE /\ hit = {} /\ changes = MaxChange /\ faults = MaxFault

ChangeDoc ==
  /\ changes > 0 /\ changes' = changes - 1
  /\ \E d \in Doc \ {doc} : doc' = d
  /\ UNCHANGED <<storeVars, prevPeers, prevRemotes, mapping, kernelVars, pc, snap, diffVars, moved,
                 faultVars>>

(* db.Reload: fetch, publish ms.info, then assign the maps one after the   *)
(* other; the second is built from ms.info, whoever wrote it last.         *)
Fetch(r) ==
  /\ At(r, "idle") /\ Goto(r, "fetched") /\ snap' = [snap EXCEPT ![r] = doc]
  /\ UNCHANGED <<doc, storeVars, prevPeers, prevRemotes, mapping, kernelVars, diffVars, moved,
                 changes, faultVars>>

StorePeers(r) ==
  /\ At(r, "fetched") /\ Goto(r, "peersSet")
  /\ info' = snap[r] /\ peers' = snap[r].peers /\ moved' = (moved \/ peers' # peers)
  /\ UNCHANGED <<doc, remotes, prevPeers, prevRemotes, mapping, kernelVars, snap, diffVars, changes,
                 faultVars>>

StoreRemotes(r) ==
  /\ At(r, "peersSet") /\ Goto(r, "vtep")
  /\ remotes' = info.remotes /\ moved' = (moved \/ remotes' # remotes)
  /\ UNCHANGED <<doc, info, peers, prevPeers, prevRemotes, mapping, kernelVars, snap, diffVars, changes,
                 faultVars>>

(* createVxlanInterface adds the link, sets its MAC and brings it up; what  *)
(* fails after the first call leaves a link that is down.                  *)
VtepCreated     == NoFault /\ vtep' = "up"
VtepHalfCreated == Fault({}) /\ vtep' \in {vtep, "down"}

(* checkAndCreateVTEP: the only error configure returns.  A link that is   *)
(* found by its name is taken as it is; if the lookup itself fails, the    *)
(* link is set up again.                                                   *)
CheckVtep(r) ==
  /\ At(r, "vtep")
  /\ \/ vtep # "none" /\ NoFault /\ UNCHANGED vtep /\ Goto(r, "peerDiff") /\ moved' = FALSE
     \/ vtep # "none" /\ Fault({}) /\ vtep' = "up" /\ Goto(r, "peerDiff") /\ moved' = FALSE
     \/ vtep = "none" /\ VtepCreated /\ Goto(r, "peerDiff") /\ moved' = FALSE
     \/ vtep = "none" /\ VtepHalfCreated /\ Goto(r, "idle") /\ UNCHANGED moved
  /\ UNCHANGED <<doc, storeVars, prevPeers, prevRemotes, mapping, routes, arp, fdb, snap, diffVars,
                 changes>>

(* The diff of the peers; prevPeerEntries starts again from the unchanged. *)
PeerDiff(r) ==
  /\ At(r, "peerDiff") /\ Goto(r, "peers")
  /\ add' = [add EXCEPT ![r] = ToAdd(prevPeers, peers)]
  /\ del' = [del EXCEPT ![r] = ToDel(prevPeers, peers)]
  /\ upd' = [upd EXCEPT ![r] = ToUpd(prevPeers, peers)]
  /\ old' = [old EXCEPT ![r] = prevPeers]
  /\ prevPeers' = Noop(prevPeers, peers)
  /\ UNCHANGED <<doc, storeVars, prevRemotes, mapping, kernelVars, snap, moved, changes, faultVars>>

(* addRoute then addARPEntry; RouteAdd refuses an existing route and a     *)
(* link that is down, the append of a neighbour leaves an existing one as  *)
(* it is.                                                                  *)
RouteAccepted(e) == e.ip \notin routes /\ vtep = "up"
NeighbourIsItself(ip, mac) == arp' = [arp EXCEPT ![ip] = IF @ = NoIp THEN ip ELSE @]   \* mutant
NeighbourAdded(ip, mac) == arp' = [arp EXCEPT ![ip] = IF @ = NoIp THEN mac ELSE @]

(* addVxlanForwardingEntry and deleteVxlanForwardingEntry: NeighAdd        *)
(* refuses a MAC that has an entry, NeighDel one that has none.            *)
ForwardingAdded(e)   == fdb[e.ip] = NoHost /\ fdb' = [fdb EXCEPT ![e.ip] = e.host]
ForwardingDeleted(e) == fdb[e.ip] # NoHost /\ fdb' = [fdb EXCEPT ![e.ip] = NoHost]

(* Mutant: the forwarding entry gets the overlay address.                  *)
PeerAddedToItself(e) ==
  /\ NoFault /\ RouteAccepted(e) /\ fdb[e.ip] = NoHost
  /\ routes' = routes \cup {e.ip} /\ NeighbourAdded(e.ip, e.ip)
  /\ fdb' = [fdb EXCEPT ![e.ip] = e.ip]

(* peerVxlanEntry.add: every way it can end.                               *)
PeerAdded(e) ==
  /\ NoFault /\ RouteAccepted(e) /\ ForwardingAdded(e)
  /\ routes' = routes \cup {e.ip} /\ NeighbourAdded(e.ip, e.ip)

PeerAddFails(e) ==
  \/ UNCHANGED <<routes, arp, fdb>> /\ IF RouteAccepted(e) THEN Fault({e.ip}) ELSE NoFault
  \/ /\ RouteAccepted(e) /\ Fault({e.ip})
     /\ routes' = routes \cup {e.ip} /\ UNCHANGED <<arp, fdb>>
  \/ /\ RouteAccepted(e) /\ (IF fdb[e.ip] = NoHost THEN Fault({e.ip}) ELSE NoFault)
     /\ routes' = routes \cup {e.ip} /\ arp' = [arp EXCEPT ![e.ip] = NoIp] /\ UNCHANGED fdb

(* newPeerVxlanEntry fails for an entry without a host address.            *)
PeerAdd(r) ==
  /\ At(r, "peers") /\ UNCHANGED <<pc, del, upd, old>>
  /\ \E e \in add[r] :
       /\ add' = [add EXCEPT ![r] = @ \ {e}]
       /\ \/ e.host = NoHost /\ NoFault /\ UNCHANGED <<routes, arp, fdb, prevPeers>>
          \/ e.host # NoHost /\ PeerAdded(e) /\ prevPeers' = Put(prevPeers, e)
          \/ e.host # NoHost /\ PeerAddFails(e) /\ UNCHANGED prevPeers
  /\ UNCHANGED <<doc, storeVars, prevRemotes, mapping, vtep, snap, moved, changes>>

(* Mutant: the forwarding entry is left behind.                            *)
PeerDeletedButForwarding(e) ==
  /\ NoFault /\ e.ip \in routes /\ arp[e.ip] # NoIp /\ UNCHANGED fdb
  /\ routes' = routes \ {e.ip} /\ arp' = [arp EXCEPT ![e.ip] = NoIp]

(* peerVxlanEntry.del stops at the first call that fails; the kernel       *)
(* refuses to delete what is not there.                                    *)
PeerDeleted(e) ==
  /\ NoFault /\ e.ip \in routes /\ arp[e.ip] # NoIp /\ ForwardingDeleted(e)
  /\ routes' = routes \ {e.ip} /\ arp' = [arp EXCEPT ![e.ip] = NoIp]

PeerDelFails(e) ==
  \/ UNCHANGED <<routes, arp, fdb>> /\ IF e.ip \in routes THEN Fault({e.ip}) ELSE NoFault
  \/ /\ e.ip \in routes /\ (IF arp[e.ip] # NoIp THEN Fault({e.ip}) ELSE NoFault)
     /\ routes' = routes \ {e.ip} /\ UNCHANGED <<arp, fdb>>
  \/ /\ e.ip \in routes /\ arp[e.ip] # NoIp /\ (IF fdb[e.ip] # NoHost THEN Fault({e.ip}) ELSE NoFault)
     /\ routes' = routes \ {e.ip} /\ arp' = [arp EXCEPT ![e.ip] = NoIp] /\ UNCHANGED fdb

(* Mutant: an entry whose removal failed is forgotten.                     *)
PeerDelForgets(r) ==
  /\ At(r, "peers") /\ add[r] = {} /\ UNCHANGED <<pc, add, upd, old>>
  /\ \E e \in del[r] : del' = [del EXCEPT ![r] = @ \ {e}] /\ (PeerDeleted(e) \/ PeerDelFails(e))
  /\ UNCHANGED <<doc, storeVars, prevPeers, prevRemotes, mapping, vtep, snap, moved, changes>>

PeerDel(r) ==
  /\ At(r, "peers") /\ add[r] = {} /\ UNCHANGED <<pc, add, upd, old>>
  /\ \E e \in del[r] :
       /\ del' = [del EXCEPT ![r] = @ \ {e}]
       /\ \/ PeerDeleted(e) /\ UNCHANGED prevPeers
          \/ PeerDelFails(e) /\ prevPeers' = Put(prevPeers, e)
  /\ UNCHANGED <<doc, storeVars, prevRemotes, mapping, vtep, snap, moved, changes>>

(* "Not processing update": the previous entry is kept; then               *)
(* buildPeersMapping.                                                      *)
PeerUpdAndMapping(r) ==
  /\ At(r, "peers") /\ add[r] = {} /\ del[r] = {} /\ Goto(r, "remoteDiff")
  /\ prevPeers' = {e \in prevPeers : ~HasKey(e.ip, upd[r])} \cup {e \in old[r] : HasKey(e.ip, upd[r])}
  /\ mapping' \in PeersMappings(prevPeers')
  /\ upd' = [upd EXCEPT ![r] = {}] /\ old' = [old EXCEPT ![r] = {}]
  /\ UNCHANGED <<doc, storeVars, prevRemotes, kernelVars, snap, add, del, moved, changes, faultVars>>

RemoteDiff(r) ==
  /\ At(r, "remoteDiff") /\ Goto(r, "remotes")
  /\ add' = [add EXCEPT ![r] = ToAdd(prevRemotes, remotes)]
  /\ del' = [del EXCEPT ![r] = ToDel(prevRemotes, remotes)]
  /\ upd' = [upd EXCEPT ![r] = ToUpd(prevRemotes, remotes)]
  /\ old' = [old EXCEPT ![r] = prevRemotes]
  /\ prevRemotes' = Noop(prevRemotes, remotes)
  /\ UNCHANGED <<doc, storeVars, prevPeers, mapping, kernelVars, snap, moved, changes, faultVars>>

(* newRemoteVxlanEntry: a remote container is reached through its host's   *)
(* agent; without one it is skipped and tried again by the next Reload.    *)
Via(e) == IF e.host = NoHost THEN NoIp ELSE mapping[e.host]

RemoteAdded(e) ==
  /\ NoFault /\ RouteAccepted(e)
  /\ routes' = routes \cup {e.ip} /\ NeighbourAdded(e.ip, Via(e))

RemoteAddFails(e) ==
  \/ UNCHANGED <<routes, arp>> /\ IF RouteAccepted(e) THEN Fault({e.ip}) ELSE NoFault
  \/ RouteAccepted(e) /\ Fault({e.ip}) /\ routes' = routes \cup {e.ip} /\ UNCHANGED arp

RemoteAdd(r) ==
  /\ At(r, "remotes") /\ UNCHANGED <<pc, del, upd, old>>
  /\ \E e \in add[r] :
       /\ add' = [add EXCEPT ![r] = @ \ {e}]
       /\ \/ Via(e) = NoIp /\ NoFault /\ UNCHANGED <<routes, arp, prevRemotes>>
          \/ Via(e) # NoIp /\ RemoteAdded(e) /\ prevRemotes' = Put(prevRemotes, e)
          \/ Via(e) # NoIp /\ RemoteAddFails(e) /\ UNCHANGED prevRemotes
  /\ UNCHANGED <<doc, storeVars, prevPeers, mapping, vtep, fdb, snap, moved, changes>>

RemoteDeleted(e) ==
  /\ NoFault /\ e.ip \in routes /\ arp[e.ip] # NoIp
  /\ routes' = routes \ {e.ip} /\ arp' = [arp EXCEPT ![e.ip] = NoIp]

RemoteDelFails(e) ==
  \/ UNCHANGED <<routes, arp>> /\ IF e.ip \in routes THEN Fault({e.ip}) ELSE NoFault
  \/ /\ e.ip \in routes /\ (IF arp[e.ip] # NoIp THEN Fault({e.ip}) ELSE NoFault)
     /\ routes' = routes \ {e.ip} /\ UNCHANGED arp

RemoteDel(r) ==
  /\ At(r, "remotes") /\ add[r] = {} /\ UNCHANGED <<pc, add, upd, old>>
  /\ \E e \in del[r] :
       /\ del' = [del EXCEPT ![r] = @ \ {e}]
       /\ \/ RemoteDeleted(e) /\ UNCHANGED prevRemotes
          \/ RemoteDelFails(e) /\ prevRemotes' = Put(prevRemotes, e)
  /\ UNCHANGED <<doc, storeVars, prevPeers, mapping, vtep, fdb, snap, moved, changes>>

(* Updates are kept as they were, and Reload returns nil.                  *)
RemoteUpdAndReturn(r) ==
  /\ At(r, "remotes") /\ add[r] = {} /\ del[r] = {} /\ Goto(r, "idle")
  /\ prevRemotes' = {e \in prevRemotes : ~HasKey(e.ip, upd[r])} \cup {e \in old[r] : HasKey(e.ip, upd[r])}
  /\ upd' = [upd EXCEPT ![r] = {}] /\ old' = [old EXCEPT ![r] = {}]
  /\ UNCHANGED <<doc, storeVars, prevPeers, mapping, kernelVars, snap, add, del, moved, changes,
                 faultVars>>

Next ==
  \/ ChangeDoc
  \/ \E r \in Reloader :
       \/ Fetch(r) \/ StorePeers(r) \/ StoreRemotes(r) \/ CheckVtep(r) \/ PeerDiff(r) \/ PeerAdd(r)
       \/ PeerDel(r) \/ PeerUpdAndMapping(r) \/ RemoteDiff(r) \/ RemoteAdd(r) \/ RemoteDel(r)
       \/ RemoteUpdAndReturn(r)

Spec == Init /\ [][Next]_vars

-----------------------------------------------------------------------------
(* Type invariant of the VXLAN overlay and the kernel tables it keeps.     *)
TypeOK ==
  /\ doc \in Doc /\ info \in Doc /\ snap \in [Reloader -> Doc]
  /\ peers \subseteq Entry /\ remotes \subseteq Entry
  /\ prevPeers \subseteq Placed /\ prevRemotes \subseteq Placed
  /\ mapping \in [Host -> Ip \cup {NoIp}]
  /\ vtep \in {"none", "down", "up"} /\ moved \in BOOLEAN /\ routes \subseteq Ip /\ hit \subseteq Ip
  /\ arp \in [Ip -> Ip \cup {NoIp}] /\ fdb \in [Ip -> Host \cup {NoHost}]
  /\ pc \in [Reloader -> {"idle", "fetched", "peersSet", "vtep", "peerDiff", "peers", "remoteDiff", "remotes"}]
  /\ \A f \in {add, upd} : f \in [Reloader -> SUBSET Entry]
  /\ \A f \in {del, old} : f \in [Reloader -> SUBSET Placed]
  /\ changes \in 0..MaxChange /\ faults \in 0..MaxFault

AllIdle == \A r \in Reloader : pc[r] = "idle"

(* An address that has one role and one host in every document that lists  *)
(* it, and the only agent a host has in any document.                      *)
SteadyPeer(e) ==
  /\ e.host # NoHost
  /\ \A d \in Doc : ~HasKey(e.ip, d.remotes) /\ \A f \in d.peers : f.ip = e.ip => f = e
SteadyRemote(e) ==
  \A d \in Doc : ~HasKey(e.ip, d.peers) /\ \A f \in d.remotes : f.ip = e.ip => f = e
SoleAgent(a) == SteadyPeer(a) /\ \A d \in Doc : \A f \in d.peers : f.host = a.host => f = a

(* After a Reload the kernel forwards as the store says: to a peer through *)
(* its host, to another remote container through the agent of its host,    *)
(* and to no address the store does not list.  This is said of every       *)
(* address for which no netlink call has failed, whatever failed for       *)
(* others, and that keeps its role, its host and its host's only agent,    *)
(* whatever happens to the roles, hosts and agents of the others: the code *)
(* ignores a new host (vxlan.go:260), and a new agent for the containers   *)
(* already installed (vxlan.go:119).  The comment at vxlan.go:83-84        *)
(* ("reconfigures the configuration with the new data").                   *)
Reconfigured ==
  (AllIdle /\ vtep = "up" /\ ~moved) =>
    /\ \A e \in peers : SteadyPeer(e) /\ e.ip \notin hit =>
         e.ip \in routes /\ arp[e.ip] = e.ip /\ fdb[e.ip] = e.host
    /\ \A e \in remotes, a \in peers :
         SteadyRemote(e) /\ SoleAgent(a) /\ a.host = e.host /\ {e.ip, a.ip} \cap hit = {} =>
           e.ip \in routes /\ arp[e.ip] = a.ip
    /\ \A i \in routes \ hit : HasKey(i, peers \cup remotes)

(* A failing netlink call harms no address but its own: for every other    *)
(* address bookkeeping and kernel agree between Reloads, whatever becomes  *)
(* of its role and host.  What is recorded is installed and what is        *)
(* installed is recorded, so that the next diff neither skips a missing    *)
(* entry nor trips over one nobody remembers.  handlePeerEntries and       *)
(* handleNonPeerRemoteEntries, vxlan.go:187-337.                           *)
BookkeepingTrue ==
  AllIdle => \A i \in Ip \ hit :
    /\ i \in routes <=> HasKey(i, prevPeers \cup prevRemotes)
    /\ arp[i] # NoIp <=> i \in routes
    /\ fdb[i] # NoHost <=> HasKey(i, prevPeers)

(* Whatever netlink calls fail, for this address too: between Reloads      *)
(* every forwarding entry still has a record, and the record names the     *)
(* host it forwards to.  A removal that failed at any of its calls is put  *)
(* back into prevPeerEntries, an ignored update keeps the former host, and *)
(* a failed addition leaves no forwarding entry.  It does not say that the *)
(* entry goes away: a removal that failed after delRoute fails there again *)
(* (peer_vxlan_entry.go:77), and an ignored update forwards to the former  *)
(* host for good.  vxlan.go:187-265, peerVxlanEntry.add and del.           *)
ForwardingRecorded ==
  AllIdle => \A i \in Ip : fdb[i] # NoHost => \E e \in prevPeers : e.ip = i /\ e.host = fdb[i]
=============================================================================
