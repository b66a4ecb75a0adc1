------------------------- MODULE VxlanOverlayProofs -------------------------
(***************************************************************************)
(* Type correctness of VxlanOverlay for any number of Reloads in progress, *)
(* and ForwardingRecorded, BookkeepingTrue and Reconfigured for any number *)
(* of callers as long as no two of their Reloads overlap.  configure takes *)
(* what it has recorded apart and puts it together again; the invariants   *)
(* follow the records through that: what is recorded together with what is *)
(* still to be deleted or to be kept as it was.                            *)
(***************************************************************************)
EXTENDS VxlanOverlay, TLAPS

OneEach(es)   == \A e, f \in es : e.ip = f.ip => e = f
AllPeers      == UNION {d.peers : d \in Doc}
AllRemotes    == UNION {d.remotes : d \in Doc}

(* The records of a map while its diff is worked off: what is recorded,    *)
(* what is to be deleted, and what an ignored update will put back.        *)
KeptAsWas(u, o)   == {e \in o : HasKey(e.ip, u)}
Whole(prev, d, u, o) == prev \cup d \cup KeptAsWas(u, o)
Pending(r, phase) == IF pc[r] = phase THEN del[r] \cup KeptAsWas(upd[r], old[r]) ELSE {}
PeerRecords(r)    == prevPeers \cup Pending(r, "peers")
RemoteRecords(r)  == prevRemotes \cup Pending(r, "remotes")

(* An address is recorded once, also while a diff is being worked off.     *)
DiffOK(prev, a, d, u, o) ==
  /\ OneEach(Whole(prev, d, u, o)) /\ OneEach(a)
  /\ \A e \in a : ~HasKey(e.ip, Whole(prev, d, u, o))
  /\ \A e \in d : e \notin prev /\ ~HasKey(e.ip, u)
  /\ \A e \in u : HasKey(e.ip, o)

RecordsOK(r) ==
  /\ OneEach(peers) /\ OneEach(remotes) /\ OneEach(PeerRecords(r)) /\ OneEach(RemoteRecords(r))
  /\ pc[r] = "peers" => DiffOK(prevPeers, add[r], del[r], upd[r], old[r])
  /\ pc[r] = "remotes" => DiffOK(prevRemotes, add[r], del[r], upd[r], old[r])

(* Every forwarding entry has its record.                                  *)
Forwarded(r) ==
  \A i \in Ip : fdb[i] # NoHost => \E e \in PeerRecords(r) : e.ip = i /\ e.host = fdb[i]

RecordInv(r) == TypeOK /\ RecordsOK(r) /\ Forwarded(r)

(* For an address no call has failed for, records and kernel agree.        *)
Installed(r) ==
  \A i \in Ip \ hit :
    /\ i \in routes <=> HasKey(i, PeerRecords(r)) \/ HasKey(i, RemoteRecords(r))
    /\ arp[i] # NoIp <=> i \in routes
    /\ fdb[i] = NoHost <=> ~HasKey(i, PeerRecords(r))
    /\ ~(HasKey(i, PeerRecords(r)) /\ HasKey(i, RemoteRecords(r)))

(* Everything recorded, mapped or to be added stems from a document.       *)
Listed(r) ==
  /\ PeerRecords(r) \subseteq AllPeers /\ RemoteRecords(r) \subseteq AllRemotes
  /\ peers \subseteq AllPeers /\ remotes \subseteq AllRemotes
  /\ pc[r] = "peers" => add[r] \subseteq peers
  /\ pc[r] = "remotes" => add[r] \subseteq remotes
  /\ \A h \in Host : mapping[h] # NoIp => \E f \in AllPeers : f.host = h /\ f.ip = mapping[h]

(* Where the neighbour entries of recorded addresses lead.                 *)
Neighbours(r) ==
  /\ \A e \in PeerRecords(r) : e.ip \notin hit => arp[e.ip] = e.ip
  /\ \A e \in RemoteRecords(r) : e.ip \notin hit => \E f \in AllPeers : f.host = e.host /\ arp[e.ip] = f.ip

(* What a pass with the link up has achieved: only listed addresses stay   *)
(* recorded, and the steady ones of the store are.                         *)
Kept(es, listed) == \A e \in es : e.ip \notin hit => HasKey(e.ip, listed)
Wanted(e)        == e \in peers /\ SteadyPeer(e) /\ e.ip \notin hit
Served(e, a)     == /\ e \in remotes /\ SteadyRemote(e) /\ a \in peers /\ SoleAgent(a) /\ a.host = e.host
                    /\ e.ip \notin hit /\ a.ip \notin hit
Finished(r)      == pc[r] = "idle" /\ ~moved

PeerProgress(r) ==
  /\ pc[r] = "peers" =>
       /\ Kept(prevPeers \cup KeptAsWas(upd[r], old[r]), peers)
       /\ \A e : Wanted(e) => e \in prevPeers \cup add[r]
  /\ pc[r] \in {"remoteDiff", "remotes"} \/ Finished(r) =>
       Kept(prevPeers, peers) /\ \A e : Wanted(e) => e \in prevPeers
  /\ pc[r] \in {"remoteDiff", "remotes"} => mapping \in PeersMappings(prevPeers)

RemoteProgress(r) ==
  /\ pc[r] = "remotes" =>
       /\ Kept(prevRemotes \cup KeptAsWas(upd[r], old[r]), remotes)
       /\ \A e, a : Served(e, a) => e \in prevRemotes \cup add[r]
  /\ Finished(r) =>
       Kept(prevRemotes, remotes) /\ \A e, a : Served(e, a) => e \in prevRemotes

Progress(r) == vtep = "up" => PeerProgress(r) /\ RemoteProgress(r)

ReloadInv(r) == RecordInv(r) /\ Installed(r) /\ Listed(r) /\ Neighbours(r) /\ Progress(r)

(* No two Reloads are in progress at a time, and the invariant holds of    *)
(* the one that is, or of all of them if none is.                          *)
OneAtATime == \A r, s \in Reloader : pc[r] # "idle" /\ pc[s] # "idle" => r = s
Alone(r)   == \A s \in Reloader : s # r => pc[s] = "idle"
AloneInv   == \A r \in Reloader : Alone(r) => ReloadInv(r)

-----------------------------------------------------------------------------
(* The documents, taken apart.                                             *)
LEMMA DocParts ==
  ASSUME NEW d \in Doc
  PROVE  /\ d.peers \subseteq Entry /\ d.remotes \subseteq Entry
         /\ OneEach(d.peers) /\ OneEach(d.remotes)
BY VxlanDocAssumption DEF OneEach

(* Recording an entry keeps the records placed.                            *)
LEMMA PutType ==
  ASSUME NEW es, es \subseteq Placed, NEW e \in Placed
  PROVE  Put(es, e) \subseteq Placed
BY DEF Put

(* An entry with a host address can be recorded.                           *)
LEMMA EntryParts ==
  ASSUME NEW e \in Entry
  PROVE  e.ip \in Ip /\ (e.host # NoHost => e \in Placed /\ e.host \in Host)
BY DEF Entry, Placed

(* What a recorded entry consists of.                                      *)
LEMMA PlacedParts ==
  ASSUME NEW e \in Placed
  PROVE  e \in Entry /\ e.ip \in Ip /\ e.host \in Host /\ e.host # NoHost
BY VxlanBoundAssumption DEF Entry, Placed

(* A counted fault stays in its range, and is remembered for its address.  *)
LEMMA FaultType ==
  ASSUME faults \in 0..MaxFault, hit \subseteq Ip, NEW is \in SUBSET Ip, Fault(is) \/ NoFault
  PROVE  faults' \in 0..MaxFault /\ hit' \subseteq Ip /\ hit \subseteq hit'
BY VxlanBoundAssumption DEF Fault, NoFault, faultVars

(* The types hold initially.                                               *)
LEMMA TypesInit == Init => TypeOK
<1> SUFFICES ASSUME Init PROVE TypeOK
  OBVIOUS
<1> USE VxlanBoundAssumption DEF Init
<1>1. /\ doc \in Doc /\ info \in Doc /\ snap \in [Reloader -> Doc]
      /\ peers \subseteq Entry /\ remotes \subseteq Entry
  BY DocParts
<1>2. /\ \A f \in {add, upd} : f \in [Reloader -> SUBSET Entry]
      /\ \A f \in {del, old} : f \in [Reloader -> SUBSET Placed]
  <2>1. /\ [r \in Reloader |-> {}] \in [Reloader -> SUBSET Entry]
        /\ [r \in Reloader |-> {}] \in [Reloader -> SUBSET Placed]
    OBVIOUS
  <2>2. QED
    BY <2>1
<1>3. changes \in 0..MaxChange /\ faults \in 0..MaxFault
  OBVIOUS
<1>4. mapping \in [Host -> Ip \cup {NoIp}] /\ arp \in [Ip -> Ip \cup {NoIp}] /\ fdb \in [Ip -> Host \cup {NoHost}]
  OBVIOUS
<1>5. QED
  BY <1>1, <1>2, <1>3, <1>4 DEF TypeOK

(* What a netlink call leaves in the tables has their types, however it    *)
(* ends.                                                                   *)
LEMMA KernelTypes ==
  ASSUME TypeOK, NEW e \in Entry,
         \/ PeerAdded(e) \/ PeerAddFails(e) \/ PeerDeleted(e) \/ PeerDelFails(e)
         \/ (RemoteAdded(e) \/ RemoteAddFails(e) \/ RemoteDeleted(e) \/ RemoteDelFails(e)) /\ UNCHANGED fdb
  PROVE  /\ routes' \subseteq Ip /\ arp' \in [Ip -> Ip \cup {NoIp}] /\ fdb' \in [Ip -> Host \cup {NoHost}]
         /\ faults' \in 0..MaxFault /\ hit' \subseteq Ip
<1> USE DEF TypeOK, RouteAccepted, NeighbourAdded, ForwardingAdded, ForwardingDeleted
<1>1. e.ip \in Ip /\ e.host \in Host \cup {NoHost}
  BY DEF Entry
<1>2. Via(e) \in Ip \cup {NoIp}
  BY <1>1 DEF Via
<1>3. \A x \in Ip \cup {NoIp} : [arp EXCEPT ![e.ip] = x] \in [Ip -> Ip \cup {NoIp}]
  BY <1>1
<1>4. \A x \in Host \cup {NoHost} : [fdb EXCEPT ![e.ip] = x] \in [Ip -> Host \cup {NoHost}]
  BY <1>1
<1> DEFINE Kernel == routes' \subseteq Ip /\ arp' \in [Ip -> Ip \cup {NoIp}] /\ fdb' \in [Ip -> Host \cup {NoHost}]
           Counted == Fault({e.ip}) \/ NoFault
<1>5. CASE PeerAdded(e) \/ PeerAddFails(e)
  <2>1. Kernel
    BY <1>5, <1>1, <1>3, <1>4 DEF PeerAdded, PeerAddFails
  <2>2. Counted
    BY <1>5 DEF PeerAdded, PeerAddFails
  <2>3. QED
    BY <2>1, <2>2, <1>1, FaultType
<1>6. CASE PeerDeleted(e) \/ PeerDelFails(e)
  <2>1. Kernel
    BY <1>6, <1>1, <1>3, <1>4 DEF PeerDeleted, PeerDelFails
  <2>2. Counted
    BY <1>6 DEF PeerDeleted, PeerDelFails
  <2>3. QED
    BY <2>1, <2>2, <1>1, FaultType
<1>7. CASE (RemoteAdded(e) \/ RemoteAddFails(e)) /\ UNCHANGED fdb
  <2>1. Kernel
    BY <1>7, <1>1, <1>2, <1>3 DEF RemoteAdded, RemoteAddFails
  <2>2. Counted
    BY <1>7 DEF RemoteAdded, RemoteAddFails
  <2>3. QED
    BY <2>1, <2>2, <1>1, FaultType
<1>8. CASE (RemoteDeleted(e) \/ RemoteDelFails(e)) /\ UNCHANGED fdb
  <2>1. Kernel
    BY <1>8, <1>1, <1>3 DEF RemoteDeleted, RemoteDelFails
  <2>2. Counted
    BY <1>8 DEF RemoteDeleted, RemoteDelFails
  <2>3. QED
    BY <2>1, <2>2, <1>1, FaultType
<1>9. QED
  BY <1>5, <1>6, <1>7, <1>8

(* Every step keeps the types, with any number of Reloads in progress.     *)
LEMMA TypesKept == TypeOK /\ [Next]_vars => TypeOK'
<1> SUFFICES ASSUME TypeOK, [Next]_vars PROVE TypeOK'
  OBVIOUS
<1> DEFINE Diffs == add \in [Reloader -> SUBSET Entry] /\ del \in [Reloader -> SUBSET Placed]
                    /\ upd \in [Reloader -> SUBSET Entry] /\ old \in [Reloader -> SUBSET Placed]
           Rest  == /\ doc \in Doc /\ info \in Doc /\ snap \in [Reloader -> Doc]
                    /\ peers \subseteq Entry /\ remotes \subseteq Entry
                    /\ prevPeers \subseteq Placed /\ prevRemotes \subseteq Placed
                    /\ mapping \in [Host -> Ip \cup {NoIp}]
                    /\ vtep \in {"none", "down", "up"} /\ moved \in BOOLEAN /\ routes \subseteq Ip /\ hit \subseteq Ip
                    /\ arp \in [Ip -> Ip \cup {NoIp}] /\ fdb \in [Ip -> Host \cup {NoHost}]
                    /\ pc \in [Reloader -> {"idle", "fetched", "peersSet", "vtep", "peerDiff", "peers", "remoteDiff",
                                            "remotes"}]
                    /\ changes \in 0..MaxChange /\ faults \in 0..MaxFault
<1>1. Diffs /\ Rest
  BY DEF TypeOK
<1>2. SUFFICES Diffs' /\ Rest'
  BY DEF TypeOK
<1> USE DEF At, Goto, storeVars, kernelVars, diffVars, faultVars, NoFault
<1>3. CASE ChangeDoc
  BY <1>3, <1>1, VxlanBoundAssumption DEF ChangeDoc
<1>4. ASSUME NEW r \in Reloader, Fetch(r) \/ StorePeers(r) \/ StoreRemotes(r) \/ CheckVtep(r) PROVE Diffs' /\ Rest'
  <2>1. CASE Fetch(r)
    BY <2>1, <1>1 DEF Fetch
  <2>2. CASE StorePeers(r)
    BY <2>2, <1>1, DocParts DEF StorePeers
  <2>3. CASE StoreRemotes(r)
    BY <2>3, <1>1, DocParts DEF StoreRemotes
  <2>4. CASE CheckVtep(r)
    <3>1. Fault({}) \/ NoFault
      BY <2>4 DEF CheckVtep, VtepCreated, VtepHalfCreated
    <3>2. faults' \in 0..MaxFault /\ hit' \subseteq Ip
      BY <3>1, <1>1, FaultType
    <3>3. QED
      BY <2>4, <1>1, <3>2 DEF CheckVtep, VtepCreated, VtepHalfCreated
  <2>5. QED
    BY <1>4, <2>1, <2>2, <2>3, <2>4
<1>5. ASSUME NEW r \in Reloader, PeerDiff(r) \/ RemoteDiff(r) PROVE Diffs' /\ Rest'
  <2>1. \A a \in SUBSET Placed, b \in SUBSET Entry :
           /\ ToAdd(a, b) \in SUBSET Entry /\ ToDel(a, b) \in SUBSET Placed
           /\ ToUpd(a, b) \in SUBSET Entry /\ Noop(a, b) \in SUBSET Placed
    BY DEF ToAdd, ToDel, ToUpd, Noop
  <2>2. CASE PeerDiff(r)
    BY <2>2, <2>1, <1>1 DEF PeerDiff
  <2>3. CASE RemoteDiff(r)
    BY <2>3, <2>1, <1>1 DEF RemoteDiff
  <2>4. QED
    BY <1>5, <2>2, <2>3
<1>6. ASSUME NEW r \in Reloader, PeerAdd(r) \/ PeerDel(r) \/ RemoteAdd(r) \/ RemoteDel(r) PROVE Diffs' /\ Rest'
  <2>1. CASE PeerAdd(r)
    <3>1. PICK e \in add[r] : /\ add' = [add EXCEPT ![r] = @ \ {e}]
                              /\ \/ NoFault /\ UNCHANGED <<routes, arp, fdb, prevPeers>>
                                 \/ e.host # NoHost /\ PeerAdded(e) /\ prevPeers' = Put(prevPeers, e)
                                 \/ PeerAddFails(e) /\ UNCHANGED prevPeers
      BY <2>1 DEF PeerAdd
    <3>2. e \in Entry /\ (e.host # NoHost => e \in Placed)
      BY <1>1, EntryParts
    <3>3. /\ routes' \subseteq Ip /\ arp' \in [Ip -> Ip \cup {NoIp}] /\ fdb' \in [Ip -> Host \cup {NoHost}]
          /\ faults' \in 0..MaxFault /\ hit' \subseteq Ip /\ prevPeers' \subseteq Placed
      BY <1>1, <3>1, <3>2, KernelTypes, PutType
    <3>4. QED
      BY <2>1, <1>1, <3>1, <3>3 DEF PeerAdd
  <2>2. CASE PeerDel(r)
    <3>1. PICK e \in del[r] : /\ del' = [del EXCEPT ![r] = @ \ {e}]
                              /\ \/ PeerDeleted(e) /\ UNCHANGED prevPeers
                                 \/ PeerDelFails(e) /\ prevPeers' = Put(prevPeers, e)
      BY <2>2 DEF PeerDel
    <3>2. e \in Entry /\ e \in Placed
      BY <1>1, PlacedParts
    <3>3. /\ routes' \subseteq Ip /\ arp' \in [Ip -> Ip \cup {NoIp}] /\ fdb' \in [Ip -> Host \cup {NoHost}]
          /\ faults' \in 0..MaxFault /\ hit' \subseteq Ip /\ prevPeers' \subseteq Placed
      BY <1>1, <3>1, <3>2, KernelTypes, PutType
    <3>4. QED
      BY <2>2, <1>1, <3>1, <3>3 DEF PeerDel
  <2>3. CASE RemoteAdd(r)
    <3>1. PICK e \in add[r] : /\ add' = [add EXCEPT ![r] = @ \ {e}]
                              /\ \/ NoFault /\ UNCHANGED <<routes, arp, prevRemotes>>
                                 \/ Via(e) # NoIp /\ RemoteAdded(e) /\ prevRemotes' = Put(prevRemotes, e)
                                 \/ RemoteAddFails(e) /\ UNCHANGED prevRemotes
      BY <2>3 DEF RemoteAdd
    <3>2. e \in Entry /\ UNCHANGED fdb /\ (Via(e) # NoIp => e \in Placed)
      BY <1>1, <2>3, EntryParts DEF RemoteAdd, Via
    <3>3. /\ routes' \subseteq Ip /\ arp' \in [Ip -> Ip \cup {NoIp}] /\ fdb' \in [Ip -> Host \cup {NoHost}]
          /\ faults' \in 0..MaxFault /\ hit' \subseteq Ip /\ prevRemotes' \subseteq Placed
      BY <1>1, <3>1, <3>2, KernelTypes, PutType
    <3>4. QED
      BY <2>3, <1>1, <3>1, <3>3 DEF RemoteAdd
  <2>4. CASE RemoteDel(r)
    <3>1. PICK e \in del[r] : /\ del' = [del EXCEPT ![r] = @ \ {e}]
                              /\ \/ RemoteDeleted(e) /\ UNCHANGED prevRemotes
                                 \/ RemoteDelFails(e) /\ prevRemotes' = Put(prevRemotes, e)
      BY <2>4 DEF RemoteDel
    <3>2. e \in Entry /\ e \in Placed /\ UNCHANGED fdb
      BY <1>1, <2>4, PlacedParts DEF RemoteDel
    <3>3. /\ routes' \subseteq Ip /\ arp' \in [Ip -> Ip \cup {NoIp}] /\ fdb' \in [Ip -> Host \cup {NoHost}]
          /\ faults' \in 0..MaxFault /\ hit' \subseteq Ip /\ prevRemotes' \subseteq Placed
      BY <1>1, <3>1, <3>2, KernelTypes, PutType
    <3>4. QED
      BY <2>4, <1>1, <3>1, <3>3 DEF RemoteDel
  <2>5. QED
    BY <1>6, <2>1, <2>2, <2>3, <2>4
<1>7. ASSUME NEW r \in Reloader, PeerUpdAndMapping(r) \/ RemoteUpdAndReturn(r) PROVE Diffs' /\ Rest'
  <2>1. CASE PeerUpdAndMapping(r)
    <3>1. mapping' \in [Host -> Ip \cup {NoIp}]
      BY <2>1 DEF PeerUpdAndMapping, PeersMappings
    <3>2. QED
      BY <2>1, <1>1, <3>1 DEF PeerUpdAndMapping
  <2>2. CASE RemoteUpdAndReturn(r)
    BY <2>2, <1>1 DEF RemoteUpdAndReturn
  <2>3. QED
    BY <1>7, <2>1, <2>2
<1>8. CASE UNCHANGED vars
  BY <1>8, <1>1 DEF vars
<1>9. QED
  BY <1>3, <1>4, <1>5, <1>6, <1>7, <1>8 DEF Next

(* Overlay.Reload, configure, handlePeerEntries and                        *)
(* handleNonPeerRemoteEntries keep the types of the bookkeeping, the       *)
(* kernel's tables and each caller's diff, however many Reloads overlap    *)
(* and whichever netlink calls fail.                                       *)
THEOREM VxlanTypeCorrect == Spec => []TypeOK
BY TypesInit, TypesKept, PTL DEF Spec

-----------------------------------------------------------------------------
(* calculateDiffOfEntries splits what was recorded into what is unchanged, *)
(* to be deleted and to be kept, and adds only addresses not recorded.     *)
LEMMA DiffSplits ==
  ASSUME NEW prev, NEW cur, OneEach(prev), OneEach(cur)
  PROVE  /\ Whole(Noop(prev, cur), ToDel(prev, cur), ToUpd(prev, cur), prev) = prev
         /\ DiffOK(Noop(prev, cur), ToAdd(prev, cur), ToDel(prev, cur), ToUpd(prev, cur), prev)
<1> USE DEF OneEach, HasKey, ToAdd, ToDel, ToUpd, Noop, KeptAsWas
<1>1. Whole(Noop(prev, cur), ToDel(prev, cur), ToUpd(prev, cur), prev) = prev
  <2>1. ASSUME NEW e \in prev PROVE e \in Noop(prev, cur) \cup ToDel(prev, cur) \cup KeptAsWas(ToUpd(prev, cur), prev)
    <3>1. CASE ~HasKey(e.ip, cur)
      BY <3>1
    <3>2. CASE HasKey(e.ip, cur) /\ e \notin cur
      <4>1. PICK f \in cur : f.ip = e.ip
        BY <3>2
      <4>2. f \notin prev
        BY <4>1, <3>2
      <4>3. f \in ToUpd(prev, cur)
        BY <4>1, <4>2
      <4>4. QED
        BY <4>1, <4>3
    <3>3. CASE e \in cur
      BY <3>3
    <3>4. QED
      BY <3>1, <3>2, <3>3
  <2>2. QED
    BY <2>1 DEF Whole
<1>2. \A e \in ToDel(prev, cur) : e \notin Noop(prev, cur) /\ ~HasKey(e.ip, ToUpd(prev, cur))
  OBVIOUS
<1>3. \A e \in ToUpd(prev, cur) : HasKey(e.ip, prev)
  OBVIOUS
<1>4. OneEach(ToAdd(prev, cur)) /\ \A e \in ToAdd(prev, cur) : ~HasKey(e.ip, prev)
  OBVIOUS
<1>5. QED
  BY <1>1, <1>2, <1>3, <1>4 DEF DiffOK

(* An addition that worked is recorded; one that did not is dropped.       *)
LEMMA AddKeeps ==
  ASSUME NEW prev, NEW a, NEW d, NEW u, NEW o, DiffOK(prev, a, d, u, o), NEW e \in a
  PROVE  /\ Put(prev, e) = prev \cup {e}
         /\ Whole(prev \cup {e}, d, u, o) = Whole(prev, d, u, o) \cup {e}
         /\ DiffOK(prev \cup {e}, a \ {e}, d, u, o) /\ DiffOK(prev, a \ {e}, d, u, o)
<1> USE DEF OneEach, HasKey, DiffOK
<1>1. \A f \in Whole(prev, d, u, o) : f.ip # e.ip
  OBVIOUS
<1>2. prev \subseteq Whole(prev, d, u, o) /\ d \subseteq Whole(prev, d, u, o)
  BY DEF Whole
<1>3. Put(prev, e) = prev \cup {e}
  BY <1>1, <1>2 DEF Put
<1>4. Whole(prev \cup {e}, d, u, o) = Whole(prev, d, u, o) \cup {e}
  BY DEF Whole
<1>5. DiffOK(prev, a \ {e}, d, u, o)
  OBVIOUS
<1>6. OneEach(Whole(prev \cup {e}, d, u, o))
  BY <1>1, <1>4
<1>7. \A f \in a \ {e} : ~HasKey(f.ip, Whole(prev \cup {e}, d, u, o))
  BY <1>4
<1>8. \A f \in d : f \notin prev \cup {e}
  BY <1>1, <1>2
<1>9. QED
  BY <1>3, <1>4, <1>5, <1>6, <1>7, <1>8

(* A deletion that worked drops its record, one that did not keeps it.     *)
LEMMA DelKeeps ==
  ASSUME NEW prev, NEW a, NEW d, NEW u, NEW o, DiffOK(prev, a, d, u, o), NEW e \in d
  PROVE  /\ Put(prev, e) = prev \cup {e}
         /\ Whole(prev \cup {e}, d \ {e}, u, o) = Whole(prev, d, u, o)
         /\ Whole(prev, d \ {e}, u, o) = Whole(prev, d, u, o) \ {e}
         /\ DiffOK(prev \cup {e}, a, d \ {e}, u, o) /\ DiffOK(prev, a, d \ {e}, u, o)
<1> USE DEF OneEach, HasKey, DiffOK
<1>1. e \notin prev /\ e \notin KeptAsWas(u, o) /\ e \in Whole(prev, d, u, o)
  BY DEF KeptAsWas, Whole
<1>2. prev \subseteq Whole(prev, d, u, o)
  BY DEF Whole
<1>3. Put(prev, e) = prev \cup {e}
  BY <1>1, <1>2 DEF Put
<1>4. Whole(prev \cup {e}, d \ {e}, u, o) = Whole(prev, d, u, o)
  BY DEF Whole
<1>5. Whole(prev, d \ {e}, u, o) = Whole(prev, d, u, o) \ {e}
  BY <1>1 DEF Whole
<1>6. DiffOK(prev \cup {e}, a, d \ {e}, u, o)
  BY <1>4
<1>7. DiffOK(prev, a, d \ {e}, u, o)
  BY <1>5
<1>8. QED
  BY <1>3, <1>4, <1>5, <1>6, <1>7

(* Putting the old entries of the updates back completes the records.      *)
PutBack(prev, u, o) == {e \in prev : ~HasKey(e.ip, u)} \cup {e \in o : HasKey(e.ip, u)}

(* Putting the ignored updates back leaves the records as a whole.         *)
LEMMA UpdKeeps ==
  ASSUME NEW prev, NEW a, NEW u, NEW o, DiffOK(prev, a, {}, u, o)
  PROVE  PutBack(prev, u, o) = Whole(prev, {}, u, o)
<1>1. ASSUME NEW e \in prev, HasKey(e.ip, u) PROVE e \in KeptAsWas(u, o)
  <2>1. PICK f \in u : f.ip = e.ip
    BY <1>1 DEF HasKey
  <2>2. PICK g \in o : g.ip = e.ip
    BY <2>1 DEF DiffOK, HasKey
  <2>3. g \in KeptAsWas(u, o)
    BY <2>1, <2>2 DEF KeptAsWas, HasKey
  <2>4. g = e
    BY <2>2, <2>3 DEF DiffOK, OneEach, Whole
  <2>5. QED
    BY <2>3, <2>4
<1>2. QED
  BY <1>1 DEF Whole, KeptAsWas, PutBack

-----------------------------------------------------------------------------
(* A step while no Reload but r's is in progress, and what it does to the  *)
(* records and to the kernel's tables.                                     *)
Step(r) ==
  \/ ChangeDoc \/ UNCHANGED vars
  \/ Fetch(r) \/ StorePeers(r) \/ StoreRemotes(r) \/ CheckVtep(r)
  \/ PeerDiff(r) \/ PeerAdd(r) \/ PeerDel(r) \/ PeerUpdAndMapping(r)
  \/ RemoteDiff(r) \/ RemoteAdd(r) \/ RemoteDel(r) \/ RemoteUpdAndReturn(r)

SamePeers(r)   == PeerRecords(r)' = PeerRecords(r)
SameRemotes(r) == RemoteRecords(r)' = RemoteRecords(r)

PeerEffect(r) ==
  /\ pc[r] = "peers" /\ SameRemotes(r)
  /\ \/ \E e \in add[r] :
          /\ ~HasKey(e.ip, PeerRecords(r)) /\ e.host # NoHost
          /\ \/ PeerAdded(e) /\ PeerRecords(r)' = PeerRecords(r) \cup {e}
             \/ PeerAddFails(e) /\ SamePeers(r)
     \/ \E e \in del[r] :
          /\ e \in PeerRecords(r)
          /\ \/ PeerDeleted(e) /\ PeerRecords(r)' = PeerRecords(r) \ {e}
             \/ PeerDelFails(e) /\ SamePeers(r)

RemoteEffect(r) ==
  /\ pc[r] = "remotes" /\ SamePeers(r) /\ UNCHANGED fdb
  /\ \/ \E e \in add[r] :
          /\ ~HasKey(e.ip, RemoteRecords(r)) /\ Via(e) # NoIp
          /\ \/ RemoteAdded(e) /\ RemoteRecords(r)' = RemoteRecords(r) \cup {e}
             \/ RemoteAddFails(e) /\ SameRemotes(r)
     \/ \E e \in del[r] :
          /\ e \in RemoteRecords(r)
          /\ \/ RemoteDeleted(e) /\ RemoteRecords(r)' = RemoteRecords(r) \ {e}
             \/ RemoteDelFails(e) /\ SameRemotes(r)

NoEffect(r) == SamePeers(r) /\ SameRemotes(r) /\ UNCHANGED <<routes, arp, fdb, hit>>

Effect(r) == NoEffect(r) \/ PeerEffect(r) \/ RemoteEffect(r)

(* Adding a peer: one entry in records and kernel, or a failed call.       *)
LEMMA EffectOfPeerAdd ==
  ASSUME NEW r \in Reloader, TypeOK, RecordsOK(r), PeerAdd(r)
  PROVE  RecordsOK(r)' /\ Effect(r)
<1> USE DEF At
<1>1. pc[r] = "peers" /\ DiffOK(prevPeers, add[r], del[r], upd[r], old[r])
  BY DEF PeerAdd, RecordsOK
<1>2. PICK e \in add[r] : /\ add' = [add EXCEPT ![r] = @ \ {e}]
                          /\ \/ e.host = NoHost /\ NoFault /\ UNCHANGED <<routes, arp, fdb, prevPeers>>
                             \/ e.host # NoHost /\ PeerAdded(e) /\ prevPeers' = Put(prevPeers, e)
                             \/ e.host # NoHost /\ PeerAddFails(e) /\ UNCHANGED prevPeers
  BY DEF PeerAdd
<1>3. UNCHANGED <<pc, del, upd, old, peers, remotes, prevRemotes>> /\ add'[r] = add[r] \ {e}
  BY <1>2 DEF PeerAdd, storeVars, TypeOK
<1>4. /\ PeerRecords(r) = Whole(prevPeers, del[r], upd[r], old[r])
      /\ PeerRecords(r)' = Whole(prevPeers', del[r], upd[r], old[r])
  BY <1>1, <1>3 DEF PeerRecords, Pending, Whole
<1>5. RemoteRecords(r)' = RemoteRecords(r)
  BY <1>1, <1>3 DEF RemoteRecords, Pending
<1>6. /\ Put(prevPeers, e) = prevPeers \cup {e}
      /\ Whole(prevPeers \cup {e}, del[r], upd[r], old[r]) = Whole(prevPeers, del[r], upd[r], old[r]) \cup {e}
      /\ DiffOK(prevPeers \cup {e}, add[r] \ {e}, del[r], upd[r], old[r])
      /\ DiffOK(prevPeers, add[r] \ {e}, del[r], upd[r], old[r])
  BY <1>1, AddKeeps, Zenon
<1>7. DiffOK(prevPeers', add'[r], del'[r], upd'[r], old'[r])
  BY <1>2, <1>3, <1>6
<1>8. OneEach(PeerRecords(r)')
  BY <1>7, <1>4, <1>3 DEF DiffOK
<1>9. RecordsOK(r)'
  <2>1. OneEach(peers') /\ OneEach(remotes') /\ OneEach(RemoteRecords(r)')
    BY <1>3, <1>5 DEF RecordsOK
  <2>2. pc'[r] = "peers"
    BY <1>1, <1>3
  <2>3. QED
    BY <2>1, <2>2, <1>7, <1>8 DEF RecordsOK, OneEach, DiffOK, HasKey, Whole, KeptAsWas
<1>10. ~HasKey(e.ip, PeerRecords(r))
  BY <1>1, <1>4 DEF DiffOK
<1>11. CASE e.host = NoHost
  BY <1>11, <1>2, <1>4, <1>5, <1>9 DEF NoEffect, SamePeers, SameRemotes, Effect, NoFault, faultVars
<1>12. CASE e.host # NoHost
  <2>1. PeerEffect(r)
    BY <1>12, <1>1, <1>2, <1>4, <1>5, <1>6, <1>10 DEF PeerEffect, SamePeers, SameRemotes
  <2>2. QED
    BY <2>1, <1>9 DEF Effect
<1>13. QED
  BY <1>11, <1>12

(* Deleting a peer: one entry out of records and kernel, or a failed call. *)
LEMMA EffectOfPeerDel ==
  ASSUME NEW r \in Reloader, TypeOK, RecordsOK(r), PeerDel(r)
  PROVE  RecordsOK(r)' /\ Effect(r)
<1> USE DEF At
<1>1. pc[r] = "peers" /\ DiffOK(prevPeers, add[r], del[r], upd[r], old[r])
  BY DEF PeerDel, RecordsOK
<1>2. PICK e \in del[r] : /\ del' = [del EXCEPT ![r] = @ \ {e}]
                          /\ \/ PeerDeleted(e) /\ UNCHANGED prevPeers
                             \/ PeerDelFails(e) /\ prevPeers' = Put(prevPeers, e)
  BY DEF PeerDel
<1>3. /\ UNCHANGED <<pc, add, upd, old, peers, remotes, prevRemotes>>
      /\ del'[r] = del[r] \ {e}
  BY <1>2 DEF PeerDel, storeVars, TypeOK
<1>4. /\ PeerRecords(r) = Whole(prevPeers, del[r], upd[r], old[r])
      /\ PeerRecords(r)' = Whole(prevPeers', del'[r], upd[r], old[r])
  BY <1>1, <1>3 DEF PeerRecords, Pending, Whole
<1>5. RemoteRecords(r)' = RemoteRecords(r)
  BY <1>1, <1>3 DEF RemoteRecords, Pending
<1>6. /\ Put(prevPeers, e) = prevPeers \cup {e}
      /\ Whole(prevPeers \cup {e}, del[r] \ {e}, upd[r], old[r]) = Whole(prevPeers, del[r], upd[r], old[r])
      /\ Whole(prevPeers, del[r] \ {e}, upd[r], old[r]) = Whole(prevPeers, del[r], upd[r], old[r]) \ {e}
      /\ DiffOK(prevPeers \cup {e}, add[r], del[r] \ {e}, upd[r], old[r])
      /\ DiffOK(prevPeers, add[r], del[r] \ {e}, upd[r], old[r])
  BY <1>1, DelKeeps, Zenon
<1>7. DiffOK(prevPeers', add'[r], del'[r], upd'[r], old'[r])
  BY <1>2, <1>3, <1>6
<1>8. OneEach(PeerRecords(r)')
  BY <1>7, <1>4, <1>3 DEF DiffOK
<1>9. RecordsOK(r)'
  <2>1. OneEach(peers') /\ OneEach(remotes') /\ OneEach(RemoteRecords(r)')
    BY <1>3, <1>5 DEF RecordsOK
  <2>2. pc'[r] = "peers"
    BY <1>1, <1>3
  <2>3. QED
    BY <2>1, <2>2, <1>7, <1>8 DEF RecordsOK, OneEach, DiffOK, HasKey, Whole, KeptAsWas
<1>10. e \in PeerRecords(r)
  BY <1>4 DEF Whole
<1>11. PeerEffect(r)
  BY <1>1, <1>2, <1>3, <1>4, <1>5, <1>6, <1>10 DEF PeerEffect, SamePeers, SameRemotes
<1>12. QED
  BY <1>9, <1>11 DEF Effect

(* Adding a container: one entry in records and kernel, or a failed call.  *)
LEMMA EffectOfRemoteAdd ==
  ASSUME NEW r \in Reloader, TypeOK, RecordsOK(r), RemoteAdd(r)
  PROVE  RecordsOK(r)' /\ Effect(r)
<1> USE DEF At
<1>1. pc[r] = "remotes" /\ DiffOK(prevRemotes, add[r], del[r], upd[r], old[r])
  BY DEF RemoteAdd, RecordsOK
<1>2. PICK e \in add[r] :
        /\ add' = [add EXCEPT ![r] = @ \ {e}]
        /\ \/ Via(e) = NoIp /\ NoFault /\ UNCHANGED <<routes, arp, prevRemotes>>
           \/ Via(e) # NoIp /\ RemoteAdded(e) /\ prevRemotes' = Put(prevRemotes, e)
           \/ Via(e) # NoIp /\ RemoteAddFails(e) /\ UNCHANGED prevRemotes
  BY DEF RemoteAdd
<1>3. /\ UNCHANGED <<pc, del, upd, old, peers, remotes, prevPeers, fdb>>
      /\ add'[r] = add[r] \ {e}
  BY <1>2 DEF RemoteAdd, storeVars, TypeOK
<1>4. /\ RemoteRecords(r) = Whole(prevRemotes, del[r], upd[r], old[r])
      /\ RemoteRecords(r)' = Whole(prevRemotes', del[r], upd[r], old[r])
  BY <1>1, <1>3 DEF RemoteRecords, Pending, Whole
<1>5. PeerRecords(r)' = PeerRecords(r)
  BY <1>1, <1>3 DEF PeerRecords, Pending
<1>6. /\ Put(prevRemotes, e) = prevRemotes \cup {e}
      /\ Whole(prevRemotes \cup {e}, del[r], upd[r], old[r]) = Whole(prevRemotes, del[r], upd[r], old[r]) \cup {e}
      /\ DiffOK(prevRemotes \cup {e}, add[r] \ {e}, del[r], upd[r], old[r])
      /\ DiffOK(prevRemotes, add[r] \ {e}, del[r], upd[r], old[r])
  BY <1>1, AddKeeps, Zenon
<1>7. DiffOK(prevRemotes', add'[r], del'[r], upd'[r], old'[r])
  BY <1>2, <1>3, <1>6
<1>8. OneEach(RemoteRecords(r)')
  BY <1>7, <1>4, <1>3 DEF DiffOK
<1>9. RecordsOK(r)'
  <2>1. OneEach(peers') /\ OneEach(remotes') /\ OneEach(PeerRecords(r)')
    BY <1>3, <1>5 DEF RecordsOK
  <2>2. pc'[r] = "remotes"
    BY <1>1, <1>3
  <2>3. QED
    BY <2>1, <2>2, <1>7, <1>8 DEF RecordsOK, OneEach, DiffOK, HasKey, Whole, KeptAsWas
<1>10. ~HasKey(e.ip, RemoteRecords(r))
  BY <1>1, <1>4 DEF DiffOK
<1>11. CASE Via(e) = NoIp /\ NoFault /\ UNCHANGED <<routes, arp, prevRemotes>>
  BY <1>11, <1>3, <1>4, <1>5, <1>9 DEF NoEffect, SamePeers, SameRemotes, Effect, NoFault, faultVars
<1>12. CASE Via(e) # NoIp
  <2>1. RemoteEffect(r)
    BY <1>12, <1>1, <1>2, <1>3, <1>4, <1>5, <1>6, <1>10 DEF RemoteEffect, SamePeers, SameRemotes
  <2>2. QED
    BY <2>1, <1>9 DEF Effect
<1>13. QED
  BY <1>2, <1>11, <1>12

(* Deleting a container: one entry out of both, or a failed call.          *)
LEMMA EffectOfRemoteDel ==
  ASSUME NEW r \in Reloader, TypeOK, RecordsOK(r), RemoteDel(r)
  PROVE  RecordsOK(r)' /\ Effect(r)
<1> USE DEF At
<1>1. pc[r] = "remotes" /\ DiffOK(prevRemotes, add[r], del[r], upd[r], old[r])
  BY DEF RemoteDel, RecordsOK
<1>2. PICK e \in del[r] : /\ del' = [del EXCEPT ![r] = @ \ {e}]
                          /\ \/ RemoteDeleted(e) /\ UNCHANGED prevRemotes
                             \/ RemoteDelFails(e) /\ prevRemotes' = Put(prevRemotes, e)
  BY DEF RemoteDel
<1>3. /\ UNCHANGED <<pc, add, upd, old, peers, remotes, prevPeers, fdb>>
      /\ del'[r] = del[r] \ {e}
  BY <1>2 DEF RemoteDel, storeVars, TypeOK
<1>4. /\ RemoteRecords(r) = Whole(prevRemotes, del[r], upd[r], old[r])
      /\ RemoteRecords(r)' = Whole(prevRemotes', del'[r], upd[r], old[r])
  BY <1>1, <1>3 DEF RemoteRecords, Pending, Whole
<1>5. PeerRecords(r)' = PeerRecords(r)
  BY <1>1, <1>3 DEF PeerRecords, Pending
<1>6. /\ Put(prevRemotes, e) = prevRemotes \cup {e}
      /\ Whole(prevRemotes \cup {e}, del[r] \ {e}, upd[r], old[r]) = Whole(prevRemotes, del[r], upd[r], old[r])
      /\ Whole(prevRemotes, del[r] \ {e}, upd[r], old[r]) = Whole(prevRemotes, del[r], upd[r], old[r]) \ {e}
      /\ DiffOK(prevRemotes \cup {e}, add[r], del[r] \ {e}, upd[r], old[r])
      /\ DiffOK(prevRemotes, add[r], del[r] \ {e}, upd[r], old[r])
  BY <1>1, DelKeeps, Zenon
<1>7. DiffOK(prevRemotes', add'[r], del'[r], upd'[r], old'[r])
  BY <1>2, <1>3, <1>6
<1>8. OneEach(RemoteRecords(r)')
  BY <1>7, <1>4, <1>3 DEF DiffOK
<1>9. RecordsOK(r)'
  <2>1. OneEach(peers') /\ OneEach(remotes') /\ OneEach(PeerRecords(r)')
    BY <1>3, <1>5 DEF RecordsOK
  <2>2. pc'[r] = "remotes"
    BY <1>1, <1>3
  <2>3. QED
    BY <2>1, <2>2, <1>7, <1>8 DEF RecordsOK, OneEach, DiffOK, HasKey, Whole, KeptAsWas
<1>10. e \in RemoteRecords(r)
  BY <1>4 DEF Whole
<1>11. RemoteEffect(r)
  BY <1>1, <1>2, <1>3, <1>4, <1>5, <1>6, <1>10 DEF RemoteEffect, SamePeers, SameRemotes
<1>12. QED
  BY <1>9, <1>11 DEF Effect

(* The diff of the peers splits the records and loses none.                *)
LEMMA EffectOfPeerDiff ==
  ASSUME NEW r \in Reloader, TypeOK, RecordsOK(r), PeerDiff(r)
  PROVE  RecordsOK(r)' /\ Effect(r)
<1> USE DEF At, Goto
<1>1. pc[r] = "peerDiff" /\ pc'[r] = "peers"
  BY DEF PeerDiff, TypeOK
<1>2. /\ UNCHANGED <<peers, remotes, prevRemotes, routes, arp, fdb, hit>>
      /\ prevPeers' = Noop(prevPeers, peers) /\ add'[r] = ToAdd(prevPeers, peers)
      /\ del'[r] = ToDel(prevPeers, peers)
      /\ upd'[r] = ToUpd(prevPeers, peers) /\ old'[r] = prevPeers
  BY DEF PeerDiff, storeVars, kernelVars, faultVars, TypeOK
<1>3. PeerRecords(r) = prevPeers /\ OneEach(prevPeers) /\ OneEach(peers)
  BY <1>1 DEF PeerRecords, Pending, RecordsOK, OneEach
<1>4. /\ Whole(Noop(prevPeers, peers), ToDel(prevPeers, peers), ToUpd(prevPeers, peers), prevPeers) = prevPeers
      /\ DiffOK(Noop(prevPeers, peers), ToAdd(prevPeers, peers), ToDel(prevPeers, peers),
                ToUpd(prevPeers, peers), prevPeers)
  BY <1>3, DiffSplits, Zenon
<1>5. PeerRecords(r)' = Whole(prevPeers', del'[r], upd'[r], old'[r])
  BY <1>1 DEF PeerRecords, Pending, Whole
<1>6. PeerRecords(r)' = PeerRecords(r)
  BY <1>2, <1>3, <1>4, <1>5
<1>7. RemoteRecords(r)' = RemoteRecords(r)
  BY <1>1, <1>2 DEF RemoteRecords, Pending
<1>8. DiffOK(prevPeers', add'[r], del'[r], upd'[r], old'[r])
  BY <1>2, <1>4
<1>9. RecordsOK(r)'
  <2>1. OneEach(peers') /\ OneEach(remotes') /\ OneEach(RemoteRecords(r)') /\ OneEach(PeerRecords(r)')
    BY <1>2, <1>6, <1>7 DEF RecordsOK
  <2>2. QED
    BY <2>1, <1>1, <1>8 DEF RecordsOK, OneEach, DiffOK, HasKey, Whole, KeptAsWas
<1>10. QED
  BY <1>2, <1>6, <1>7, <1>9 DEF Effect, NoEffect, SamePeers, SameRemotes

(* The diff of the containers splits the records and loses none.           *)
LEMMA EffectOfRemoteDiff ==
  ASSUME NEW r \in Reloader, TypeOK, RecordsOK(r), RemoteDiff(r)
  PROVE  RecordsOK(r)' /\ Effect(r)
<1> USE DEF At, Goto
<1>1. pc[r] = "remoteDiff" /\ pc'[r] = "remotes"
  BY DEF RemoteDiff, TypeOK
<1>2. /\ UNCHANGED <<peers, remotes, prevPeers, routes, arp, fdb, hit>>
      /\ prevRemotes' = Noop(prevRemotes, remotes) /\ add'[r] = ToAdd(prevRemotes, remotes)
      /\ del'[r] = ToDel(prevRemotes, remotes)
      /\ upd'[r] = ToUpd(prevRemotes, remotes) /\ old'[r] = prevRemotes
  BY DEF RemoteDiff, storeVars, kernelVars, faultVars, TypeOK
<1>3. RemoteRecords(r) = prevRemotes /\ OneEach(prevRemotes) /\ OneEach(remotes)
  BY <1>1 DEF RemoteRecords, Pending, RecordsOK, OneEach
<1>4. /\ Whole(Noop(prevRemotes, remotes), ToDel(prevRemotes, remotes),
               ToUpd(prevRemotes, remotes), prevRemotes) = prevRemotes
      /\ DiffOK(Noop(prevRemotes, remotes), ToAdd(prevRemotes, remotes), ToDel(prevRemotes, remotes),
                ToUpd(prevRemotes, remotes), prevRemotes)
  BY <1>3, DiffSplits, Zenon
<1>5. RemoteRecords(r)' = Whole(prevRemotes', del'[r], upd'[r], old'[r])
  BY <1>1 DEF RemoteRecords, Pending, Whole
<1>6. RemoteRecords(r)' = RemoteRecords(r)
  BY <1>2, <1>3, <1>4, <1>5
<1>7. PeerRecords(r)' = PeerRecords(r)
  BY <1>1, <1>2 DEF PeerRecords, Pending
<1>8. DiffOK(prevRemotes', add'[r], del'[r], upd'[r], old'[r])
  BY <1>2, <1>4
<1>9. RecordsOK(r)'
  <2>1. OneEach(peers') /\ OneEach(remotes') /\ OneEach(PeerRecords(r)') /\ OneEach(RemoteRecords(r)')
    BY <1>2, <1>6, <1>7 DEF RecordsOK
  <2>2. QED
    BY <2>1, <1>1, <1>8 DEF RecordsOK, OneEach, DiffOK, HasKey, Whole, KeptAsWas
<1>10. QED
  BY <1>2, <1>6, <1>7, <1>9 DEF Effect, NoEffect, SamePeers, SameRemotes

(* The end of the peers: ignored updates are recorded as they were.        *)
LEMMA EffectOfPeerUpd ==
  ASSUME NEW r \in Reloader, TypeOK, RecordsOK(r), PeerUpdAndMapping(r)
  PROVE  RecordsOK(r)' /\ Effect(r)
<1> USE DEF At, Goto
<1>1. pc[r] = "peers" /\ pc'[r] = "remoteDiff" /\ del[r] = {}
  BY DEF PeerUpdAndMapping, TypeOK
<1>2. /\ UNCHANGED <<peers, remotes, prevRemotes, routes, arp, fdb, hit>>
      /\ prevPeers' = PutBack(prevPeers, upd[r], old[r])
  BY DEF PutBack, PeerUpdAndMapping, storeVars, kernelVars, faultVars
<1>3. DiffOK(prevPeers, add[r], {}, upd[r], old[r])
  BY <1>1 DEF RecordsOK
<1>4. prevPeers' = Whole(prevPeers, {}, upd[r], old[r])
  <2>1. PutBack(prevPeers, upd[r], old[r]) = Whole(prevPeers, {}, upd[r], old[r])
    BY <1>3, UpdKeeps, Zenon
  <2>2. QED
    BY <1>2, <2>1
<1>5. PeerRecords(r)' = PeerRecords(r)
  BY <1>1, <1>4 DEF PeerRecords, Pending, Whole
<1>6. RemoteRecords(r)' = RemoteRecords(r)
  BY <1>1, <1>2 DEF RemoteRecords, Pending
<1>7. RecordsOK(r)'
  <2>1. OneEach(peers') /\ OneEach(remotes') /\ OneEach(RemoteRecords(r)') /\ OneEach(PeerRecords(r)')
    BY <1>2, <1>5, <1>6 DEF RecordsOK
  <2>2. QED
    BY <2>1, <1>1 DEF RecordsOK, OneEach
<1>8. QED
  BY <1>2, <1>5, <1>6, <1>7 DEF Effect, NoEffect, SamePeers, SameRemotes

(* The end of the containers: ignored updates are recorded as they were.   *)
LEMMA EffectOfRemoteUpd ==
  ASSUME NEW r \in Reloader, TypeOK, RecordsOK(r), RemoteUpdAndReturn(r)
  PROVE  RecordsOK(r)' /\ Effect(r)
<1> USE DEF At, Goto
<1>1. pc[r] = "remotes" /\ pc'[r] = "idle" /\ del[r] = {}
  BY DEF RemoteUpdAndReturn, TypeOK
<1>2. /\ UNCHANGED <<peers, remotes, prevPeers, routes, arp, fdb, hit>>
      /\ prevRemotes' = PutBack(prevRemotes, upd[r], old[r])
  BY DEF PutBack, RemoteUpdAndReturn, storeVars, kernelVars, faultVars
<1>3. DiffOK(prevRemotes, add[r], {}, upd[r], old[r])
  BY <1>1 DEF RecordsOK
<1>4. prevRemotes' = Whole(prevRemotes, {}, upd[r], old[r])
  <2>1. PutBack(prevRemotes, upd[r], old[r]) = Whole(prevRemotes, {}, upd[r], old[r])
    BY <1>3, UpdKeeps, Zenon
  <2>2. QED
    BY <1>2, <2>1
<1>5. RemoteRecords(r)' = RemoteRecords(r)
  BY <1>1, <1>4 DEF RemoteRecords, Pending, Whole
<1>6. PeerRecords(r)' = PeerRecords(r)
  BY <1>1, <1>2 DEF PeerRecords, Pending
<1>7. RecordsOK(r)'
  <2>1. OneEach(peers') /\ OneEach(remotes') /\ OneEach(PeerRecords(r)') /\ OneEach(RemoteRecords(r)')
    BY <1>2, <1>5, <1>6 DEF RecordsOK
  <2>2. QED
    BY <2>1, <1>1 DEF RecordsOK, OneEach
<1>8. QED
  BY <1>2, <1>5, <1>6, <1>7 DEF Effect, NoEffect, SamePeers, SameRemotes

(* The steps before the diffs: neither map is being worked off.            *)
LEMMA EffectOfStore ==
  ASSUME NEW r \in Reloader, TypeOK, RecordsOK(r),
         Fetch(r) \/ StorePeers(r) \/ StoreRemotes(r) \/ CheckVtep(r)
  PROVE  RecordsOK(r)' /\ Effect(r)
<1> USE DEF At, Goto
<1>1. pc[r] \notin {"peers", "remotes"} /\ pc'[r] \notin {"peers", "remotes"}
  BY DEF Fetch, StorePeers, StoreRemotes, CheckVtep, TypeOK
<1>2. UNCHANGED <<prevPeers, prevRemotes, routes, arp, fdb, hit>>
  BY DEF Fetch, StorePeers, StoreRemotes, CheckVtep, VtepCreated, VtepHalfCreated, Fault, NoFault, faultVars, kernelVars
<1>3. OneEach(peers') /\ OneEach(remotes')
  <2>1. peers' = peers \/ \E d \in Doc : peers' = d.peers
    BY DEF Fetch, StorePeers, StoreRemotes, CheckVtep, TypeOK, storeVars
  <2>2. remotes' = remotes \/ \E d \in Doc : remotes' = d.remotes
    BY DEF Fetch, StorePeers, StoreRemotes, CheckVtep, TypeOK, storeVars
  <2>3. OneEach(peers) /\ OneEach(remotes)
    BY DEF RecordsOK
  <2>4. QED
    BY <2>1, <2>2, <2>3, DocParts
<1>4. PeerRecords(r)' = PeerRecords(r) /\ RemoteRecords(r)' = RemoteRecords(r)
  BY <1>1, <1>2 DEF PeerRecords, RemoteRecords, Pending
<1>5. RecordsOK(r)'
  BY <1>1, <1>3, <1>4 DEF RecordsOK, OneEach
<1>6. QED
  BY <1>2, <1>4, <1>5 DEF Effect, NoEffect, SamePeers, SameRemotes

(* The other steps touch neither records nor tables.                       *)
LEMMA EffectOfOthers ==
  ASSUME NEW r \in Reloader, RecordsOK(r), ChangeDoc \/ UNCHANGED vars
  PROVE  RecordsOK(r)' /\ Effect(r)
<1>1. UNCHANGED <<pc, peers, remotes, prevPeers, prevRemotes, add, del, upd, old, routes, arp, fdb, hit>>
  BY DEF ChangeDoc, vars, storeVars, kernelVars, diffVars, faultVars
<1>2. PeerRecords(r)' = PeerRecords(r) /\ RemoteRecords(r)' = RemoteRecords(r)
  BY <1>1 DEF PeerRecords, RemoteRecords, Pending
<1>3. RecordsOK(r)'
  BY <1>1, <1>2 DEF RecordsOK, OneEach, DiffOK
<1>4. QED
  BY <1>1, <1>2, <1>3 DEF Effect, NoEffect, SamePeers, SameRemotes

(* Every step of a Reload has one of these effects.                        *)
LEMMA StepEffect ==
  ASSUME NEW r \in Reloader, TypeOK, RecordsOK(r), Step(r)
  PROVE  RecordsOK(r)' /\ Effect(r)
<1>1. CASE ChangeDoc \/ UNCHANGED vars
  BY <1>1, EffectOfOthers
<1>2. CASE Fetch(r) \/ StorePeers(r) \/ StoreRemotes(r) \/ CheckVtep(r)
  BY <1>2, EffectOfStore
<1>3. CASE PeerDiff(r) \/ PeerAdd(r) \/ PeerDel(r) \/ PeerUpdAndMapping(r)
  BY <1>3, EffectOfPeerDiff, EffectOfPeerAdd, EffectOfPeerDel, EffectOfPeerUpd
<1>4. CASE RemoteDiff(r) \/ RemoteAdd(r) \/ RemoteDel(r) \/ RemoteUpdAndReturn(r)
  BY <1>4, EffectOfRemoteDiff, EffectOfRemoteAdd, EffectOfRemoteDel, EffectOfRemoteUpd
<1>5. QED
  BY <1>1, <1>2, <1>3, <1>4 DEF Step

-----------------------------------------------------------------------------
(* Records and deletes have a host, adds are entries.                      *)
LEMMA RecordTypes ==
  ASSUME NEW r \in Reloader, TypeOK
  PROVE  /\ PeerRecords(r) \subseteq Placed /\ RemoteRecords(r) \subseteq Placed
         /\ add[r] \subseteq Entry /\ del[r] \subseteq Placed
<1>1. /\ add[r] \subseteq Entry /\ del[r] \subseteq Placed /\ old[r] \subseteq Placed
      /\ prevPeers \subseteq Placed /\ prevRemotes \subseteq Placed
  BY DEF TypeOK
<1>2. KeptAsWas(upd[r], old[r]) \subseteq Placed
  BY <1>1 DEF KeptAsWas
<1>3. QED
  BY <1>1, <1>2 DEF PeerRecords, RemoteRecords, Pending

(* An entry is only forgotten once its forwarding entry is deleted.        *)
LEMMA ForwardedKept ==
  ASSUME NEW r \in Reloader, TypeOK, RecordsOK(r), Forwarded(r), Effect(r)
  PROVE  Forwarded(r)'
<1> SUFFICES ASSUME NEW i \in Ip, fdb'[i] # NoHost
             PROVE  \E e \in PeerRecords(r)' : e.ip = i /\ e.host = fdb'[i]
  BY DEF Forwarded
<1>1. fdb[i] # NoHost => \E e \in PeerRecords(r) : e.ip = i /\ e.host = fdb[i]
  BY DEF Forwarded
<1>2. CASE UNCHANGED fdb /\ SamePeers(r)
  BY <1>1, <1>2 DEF SamePeers
<1>3. CASE PeerEffect(r)
  <2>1. ASSUME NEW e \in add[r], PeerAdded(e), PeerRecords(r)' = PeerRecords(r) \cup {e}
                    PROVE  \E f \in PeerRecords(r)' : f.ip = i /\ f.host = fdb'[i]
    <3>1. e.ip \in Ip
      BY RecordTypes, EntryParts
    <3>2. fdb' = [fdb EXCEPT ![e.ip] = e.host]
      BY <2>1 DEF PeerAdded, ForwardingAdded
    <3>3. CASE i = e.ip
      BY <3>1, <3>2, <3>3, <2>1 DEF TypeOK
    <3>4. CASE i # e.ip
      BY <3>1, <3>2, <3>4, <2>1, <1>1 DEF TypeOK
    <3>5. QED
      BY <3>3, <3>4
  <2>2. ASSUME NEW e \in del[r], PeerDeleted(e), PeerRecords(r)' = PeerRecords(r) \ {e}
                    PROVE  \E f \in PeerRecords(r)' : f.ip = i /\ f.host = fdb'[i]
    <3>1. e.ip \in Ip
      BY RecordTypes, PlacedParts
    <3>2. fdb' = [fdb EXCEPT ![e.ip] = NoHost]
      BY <2>2 DEF PeerDeleted, ForwardingDeleted
    <3>3. i # e.ip
      BY <3>1, <3>2 DEF TypeOK
    <3>4. QED
      BY <3>1, <3>2, <3>3, <2>2, <1>1 DEF TypeOK
  <2>3. ASSUME NEW e, PeerAddFails(e) \/ PeerDelFails(e), SamePeers(r)
                    PROVE  \E f \in PeerRecords(r)' : f.ip = i /\ f.host = fdb'[i]
    BY <2>3, <1>2 DEF PeerAddFails, PeerDelFails
  <2>4. QED
    BY <1>3, <2>1, <2>2, <2>3 DEF PeerEffect
<1>4. QED
  BY <1>2, <1>3 DEF Effect, NoEffect, RemoteEffect

(* The record invariant holds initially.                                   *)
LEMMA RecordInit ==
  ASSUME NEW r \in Reloader, Init
  PROVE  RecordInv(r) /\ Installed(r)
<1>1. TypeOK
  BY TypesInit
<1>2. OneEach(peers) /\ OneEach(remotes)
  BY DocParts DEF Init
<1>3. PeerRecords(r) = {} /\ RemoteRecords(r) = {}
  BY DEF Init, PeerRecords, RemoteRecords, Pending
<1>4. pc[r] = "idle"
  BY DEF Init
<1>5. RecordsOK(r)
  BY <1>2, <1>3, <1>4 DEF RecordsOK, OneEach
<1>6. Forwarded(r)
  BY DEF Forwarded, Init
<1>7. Installed(r)
  BY <1>3 DEF Installed, Init, HasKey
<1>8. QED
  BY <1>1, <1>5, <1>6, <1>7 DEF RecordInv

(* Every step of the only Reload in progress keeps the record invariant.   *)
LEMMA RecordStep ==
  ASSUME NEW r \in Reloader, RecordInv(r), Step(r)
  PROVE  RecordInv(r)' /\ Effect(r)
<1>1. TypeOK /\ RecordsOK(r) /\ Forwarded(r)
  BY DEF RecordInv
<1>2. TypeOK'
  BY <1>1, TypesKept DEF Step, Next
<1>3. RecordsOK(r)' /\ Effect(r)
  BY <1>1, StepEffect
<1>4. Forwarded(r)'
  BY <1>1, <1>3, ForwardedKept
<1>5. QED
  BY <1>2, <1>3, <1>4 DEF RecordInv

-----------------------------------------------------------------------------
(* A call for an address touches the kernel's tables at no other address,  *)
(* and a failure of it is remembered.                                      *)
Call(e) ==
  \/ PeerAdded(e) \/ PeerAddFails(e) \/ PeerDeleted(e) \/ PeerDelFails(e)
  \/ (RemoteAdded(e) \/ RemoteAddFails(e) \/ RemoteDeleted(e) \/ RemoteDelFails(e)) /\ UNCHANGED fdb

(* A netlink call for an entry leaves the tables alone elsewhere.          *)
LEMMA CallsElsewhere ==
  ASSUME TypeOK, NEW e, e.ip \in Ip, Call(e)
  PROVE  /\ \A i \in Ip : i # e.ip => /\ i \in routes' <=> i \in routes
                                      /\ arp'[i] = arp[i] /\ fdb'[i] = fdb[i]
         /\ hit \subseteq hit' /\ (e.ip \notin hit' => UNCHANGED hit)
<1> USE DEF TypeOK, RouteAccepted, NeighbourAdded, ForwardingAdded, ForwardingDeleted
<1> DEFINE Elsewhere == \A i \in Ip : i # e.ip => /\ i \in routes' <=> i \in routes
                                                  /\ arp'[i] = arp[i] /\ fdb'[i] = fdb[i]
<1>1. CASE PeerAdded(e) \/ PeerAddFails(e)
  <2>1. Elsewhere
    BY <1>1 DEF PeerAdded, PeerAddFails
  <2>2. QED
    BY <1>1, <2>1 DEF PeerAdded, PeerAddFails, Fault, NoFault, faultVars
<1>2. CASE PeerDeleted(e) \/ PeerDelFails(e)
  <2>1. Elsewhere
    BY <1>2 DEF PeerDeleted, PeerDelFails
  <2>2. QED
    BY <1>2, <2>1 DEF PeerDeleted, PeerDelFails, Fault, NoFault, faultVars
<1>3. CASE (RemoteAdded(e) \/ RemoteAddFails(e)) /\ UNCHANGED fdb
  <2>1. Elsewhere
    BY <1>3 DEF RemoteAdded, RemoteAddFails
  <2>2. QED
    BY <1>3, <2>1 DEF RemoteAdded, RemoteAddFails, Fault, NoFault, faultVars
<1>4. CASE (RemoteDeleted(e) \/ RemoteDelFails(e)) /\ UNCHANGED fdb
  <2>1. Elsewhere
    BY <1>4 DEF RemoteDeleted, RemoteDelFails
  <2>2. QED
    BY <1>4, <2>1 DEF RemoteDeleted, RemoteDelFails, Fault, NoFault, faultVars
<1>5. QED
  BY <1>1, <1>2, <1>3, <1>4 DEF Call

(* What a call that did not fail for its address did.                      *)
LEMMA CleanCalls ==
  ASSUME TypeOK, NEW e, e.ip \in Ip \ hit'
  PROVE  /\ PeerAddFails(e) /\ fdb[e.ip] = NoHost => ~RouteAccepted(e) /\ UNCHANGED <<routes, arp, fdb>>
         /\ PeerDelFails(e) => e.ip \notin routes \/ arp[e.ip] = NoIp \/ fdb[e.ip] = NoHost
         /\ RemoteAddFails(e) => ~RouteAccepted(e) /\ UNCHANGED <<routes, arp>>
         /\ RemoteDelFails(e) => e.ip \notin routes \/ arp[e.ip] = NoIp
<1>1. ~Fault({e.ip})
  BY DEF Fault
<1>2. PeerAddFails(e) /\ fdb[e.ip] = NoHost => ~RouteAccepted(e) /\ UNCHANGED <<routes, arp, fdb>>
  BY <1>1 DEF PeerAddFails
<1>3. PeerDelFails(e) => e.ip \notin routes \/ arp[e.ip] = NoIp \/ fdb[e.ip] = NoHost
  BY <1>1 DEF PeerDelFails
<1>4. RemoteAddFails(e) => ~RouteAccepted(e) /\ UNCHANGED <<routes, arp>>
  BY <1>1 DEF RemoteAddFails
<1>5. RemoteDelFails(e) => e.ip \notin routes \/ arp[e.ip] = NoIp
  BY <1>1 DEF RemoteDelFails
<1>6. QED
  BY <1>2, <1>3, <1>4, <1>5

(* One more or one less entry changes the keys of a map at its address.    *)
LEMMA KeysChange ==
  ASSUME NEW es, NEW e, NEW i
  PROVE  /\ HasKey(i, es \cup {e}) <=> HasKey(i, es) \/ i = e.ip
         /\ OneEach(es) /\ e \in es => (HasKey(i, es \ {e}) <=> HasKey(i, es) /\ i # e.ip)
BY DEF HasKey, OneEach

(* An effect is a call for one entry, or none, and addresses other than    *)
(* the entry's keep their records.                                         *)
LEMMA EffectIsCall ==
  ASSUME NEW r \in Reloader, TypeOK, RecordsOK(r), Effect(r)
  PROVE  \/ NoEffect(r)
         \/ \E e \in add[r] \cup del[r] :
              /\ Call(e) /\ e.ip \in Ip
              /\ \A i \in Ip : i # e.ip => /\ HasKey(i, PeerRecords(r)') <=> HasKey(i, PeerRecords(r))
                                           /\ HasKey(i, RemoteRecords(r)') <=> HasKey(i, RemoteRecords(r))
<1> DEFINE PR == PeerRecords(r)
           RR == RemoteRecords(r)
           Keeps(e) == \A i \in Ip : i # e.ip => /\ HasKey(i, PR') <=> HasKey(i, PR)
                                                 /\ HasKey(i, RR') <=> HasKey(i, RR)
<1>1. OneEach(PR) /\ OneEach(RR)
  BY DEF RecordsOK
<1>2. \A e \in add[r] \cup del[r] : e.ip \in Ip
  BY RecordTypes, EntryParts, PlacedParts
<1>3. CASE PeerEffect(r)
  <2>1. PICK e \in add[r] \cup del[r] :
          /\ Call(e) /\ (PR' = PR \/ PR' = PR \cup {e} \/ (e \in PR /\ PR' = PR \ {e}))
    BY <1>3 DEF PeerEffect, SamePeers, Call
  <2>2. RR' = RR
    BY <1>3 DEF PeerEffect, SameRemotes
  <2>3. Keeps(e)
    <3> HIDE DEF PR, RR
    <3>1. ASSUME NEW i \in Ip, i # e.ip PROVE HasKey(i, PR') <=> HasKey(i, PR)
      BY <2>1, <3>1, <1>1, KeysChange
    <3>2. QED
      BY <2>2, <3>1
  <2>4. QED
    BY <2>1, <2>3, <1>2
<1>4. CASE RemoteEffect(r)
  <2>1. PICK e \in add[r] \cup del[r] :
          /\ Call(e) /\ (RR' = RR \/ RR' = RR \cup {e} \/ (e \in RR /\ RR' = RR \ {e}))
    BY <1>4 DEF RemoteEffect, SameRemotes, Call
  <2>2. PR' = PR
    BY <1>4 DEF RemoteEffect, SamePeers
  <2>3. Keeps(e)
    <3> HIDE DEF PR, RR
    <3>1. ASSUME NEW i \in Ip, i # e.ip PROVE HasKey(i, RR') <=> HasKey(i, RR)
      BY <2>1, <3>1, <1>1, KeysChange
    <3>2. QED
      BY <2>2, <3>1
  <2>4. QED
    BY <2>1, <2>3, <1>2
<1>5. QED
  BY <1>3, <1>4 DEF Effect

(* A failed call is never forgotten.                                       *)
LEMMA HitGrows ==
  ASSUME NEW r \in Reloader, TypeOK, RecordsOK(r), Effect(r)
  PROVE  hit \subseteq hit'
<1>1. CASE NoEffect(r)
  BY <1>1 DEF NoEffect
<1>2. ASSUME NEW e \in add[r] \cup del[r], Call(e), e.ip \in Ip PROVE hit \subseteq hit'
  BY <1>2, CallsElsewhere
<1>3. QED
  BY <1>1, <1>2, EffectIsCall

(* As long as no call fails for an address, its record and its entries in  *)
(* the kernel change together.                                             *)
LEMMA InstalledKept ==
  ASSUME NEW r \in Reloader, TypeOK, RecordsOK(r), Installed(r), Effect(r)
  PROVE  Installed(r)'
<1> DEFINE PR == PeerRecords(r)
           RR == RemoteRecords(r)
           Agree(i, ps, rs, ro, ar, fd) ==
             /\ i \in ro <=> HasKey(i, ps) \/ HasKey(i, rs)
             /\ ar[i] # NoIp <=> i \in ro
             /\ fd[i] = NoHost <=> ~HasKey(i, ps)
             /\ ~(HasKey(i, ps) /\ HasKey(i, rs))
           Goal(i) == Agree(i, PR', RR', routes', arp', fdb')
<1> SUFFICES ASSUME NEW i \in Ip \ hit' PROVE Goal(i)
  BY DEF Installed
<1>1. i \in Ip \ hit /\ Agree(i, PR, RR, routes, arp, fdb)
  BY HitGrows DEF Installed
<1>2. OneEach(PR) /\ OneEach(RR)
  BY DEF RecordsOK
<1>3. /\ PR \subseteq Placed /\ RR \subseteq Placed
      /\ \A e \in add[r] : e.ip \in Ip /\ (e.host # NoHost => e.host \in Host)
      /\ \A e \in del[r] : e.ip \in Ip
  BY RecordTypes, EntryParts, PlacedParts
<1>4. /\ routes \subseteq Ip /\ arp \in [Ip -> Ip \cup {NoIp}] /\ fdb \in [Ip -> Host \cup {NoHost}]
      /\ mapping \in [Host -> Ip \cup {NoIp}] /\ NoIp \notin Ip /\ NoHost \notin Host
  BY VxlanBoundAssumption DEF TypeOK
<1> HIDE DEF PR, RR
<1>5. ASSUME UNCHANGED <<routes, arp, fdb>>, PR' = PR, RR' = RR PROVE Goal(i)
  BY <1>5, <1>1
<1>6. ASSUME NEW e, Call(e), e.ip \in Ip, e.ip # i,
             HasKey(i, PR') <=> HasKey(i, PR), HasKey(i, RR') <=> HasKey(i, RR)
      PROVE  Goal(i)
  <2>1. (i \in routes' <=> i \in routes) /\ arp'[i] = arp[i] /\ fdb'[i] = fdb[i]
    BY <1>6, CallsElsewhere
  <2>2. QED
    BY <1>6, <2>1, <1>1
<1>7. ASSUME NEW e \in add[r], PeerAdded(e), e.host # NoHost, PR' = PR \cup {e}, RR' = RR PROVE Goal(i)
  <2>1. CASE i # e.ip
    BY <2>1, <1>7, <1>6, <1>3, KeysChange DEF Call
  <2>2. CASE i = e.ip
    <3>1. e.ip \notin routes /\ routes' = routes \cup {e.ip} /\ fdb' = [fdb EXCEPT ![e.ip] = e.host]
      BY <1>7 DEF PeerAdded, RouteAccepted, ForwardingAdded
    <3>2. arp'[i] = e.ip
      BY <1>7, <3>1, <2>2, <1>1, <1>4 DEF PeerAdded, NeighbourAdded
    <3>3. fdb'[i] = e.host
      BY <3>1, <2>2, <1>4
    <3>4. HasKey(i, PR') /\ ~HasKey(i, RR')
      BY <1>7, <3>1, <2>2, <1>1, KeysChange
    <3>5. QED
      BY <3>1, <3>2, <3>3, <3>4, <2>2, <1>4, <1>7
  <2>3. QED
    BY <2>1, <2>2
<1>8. ASSUME NEW e \in add[r], PeerAddFails(e), ~HasKey(e.ip, PR), PR' = PR, RR' = RR PROVE Goal(i)
  <2>1. CASE i # e.ip
    BY <2>1, <1>8, <1>6, <1>3 DEF Call
  <2>2. CASE i = e.ip
    BY <2>2, <1>8, <1>5, <1>1, CleanCalls
  <2>3. QED
    BY <2>1, <2>2
<1>9. ASSUME NEW e \in del[r], e \in PR, PeerDeleted(e), PR' = PR \ {e}, RR' = RR PROVE Goal(i)
  <2>1. CASE i # e.ip
    BY <2>1, <1>9, <1>6, <1>3, <1>2, KeysChange DEF Call
  <2>2. CASE i = e.ip
    <3>1. i \notin routes' /\ arp'[i] = NoIp /\ fdb'[i] = NoHost
      BY <1>9, <2>2, <1>4 DEF PeerDeleted, ForwardingDeleted
    <3>2. ~HasKey(i, PR')
      BY <1>9, <2>2, <1>2, KeysChange
    <3>3. ~HasKey(i, RR')
      BY <1>9, <2>2, <1>1 DEF HasKey
    <3>4. QED
      BY <3>1, <3>2, <3>3
  <2>3. QED
    BY <2>1, <2>2
<1>10. ASSUME NEW e \in del[r], e \in PR, PeerDelFails(e), PR' = PR, RR' = RR PROVE Goal(i)
  <2>1. CASE i # e.ip
    BY <2>1, <1>10, <1>6, <1>3 DEF Call
  <2>2. CASE i = e.ip
    <3>1. HasKey(i, PR)
      BY <2>2, <1>10 DEF HasKey
    <3>2. QED
      BY <2>2, <3>1, <1>10, <1>1, CleanCalls
  <2>3. QED
    BY <2>1, <2>2
<1>11. ASSUME NEW e \in add[r], RemoteAdded(e), Via(e) # NoIp, UNCHANGED fdb, PR' = PR, RR' = RR \cup {e} PROVE Goal(i)
  <2>1. CASE i # e.ip
    BY <2>1, <1>11, <1>6, <1>3, KeysChange DEF Call
  <2>2. CASE i = e.ip
    <3>1. e.ip \notin routes /\ routes' = routes \cup {e.ip}
      BY <1>11 DEF RemoteAdded, RouteAccepted
    <3>2. arp'[i] = Via(e)
      BY <1>11, <3>1, <2>2, <1>1, <1>4 DEF RemoteAdded, NeighbourAdded
    <3>3. HasKey(i, RR') /\ ~HasKey(i, PR')
      BY <1>11, <3>1, <2>2, <1>1, KeysChange
    <3>4. fdb'[i] = NoHost
      BY <1>11, <3>1, <2>2, <1>1
    <3>5. QED
      BY <3>1, <3>2, <3>3, <3>4, <2>2, <1>11
  <2>3. QED
    BY <2>1, <2>2
<1>12. ASSUME NEW e \in add[r], RemoteAddFails(e), UNCHANGED fdb, PR' = PR, RR' = RR PROVE Goal(i)
  <2>1. CASE i # e.ip
    BY <2>1, <1>12, <1>6, <1>3 DEF Call
  <2>2. CASE i = e.ip
    BY <2>2, <1>12, <1>5, <1>1, CleanCalls
  <2>3. QED
    BY <2>1, <2>2
<1>13. ASSUME NEW e \in del[r], e \in RR, RemoteDeleted(e), UNCHANGED fdb, PR' = PR, RR' = RR \ {e} PROVE Goal(i)
  <2>1. CASE i # e.ip
    BY <2>1, <1>13, <1>6, <1>3, <1>2, KeysChange DEF Call
  <2>2. CASE i = e.ip
    <3>1. i \notin routes' /\ arp'[i] = NoIp
      BY <1>13, <2>2, <1>4 DEF RemoteDeleted
    <3>2. ~HasKey(i, RR')
      BY <1>13, <2>2, <1>2, KeysChange
    <3>3. ~HasKey(i, PR')
      BY <1>13, <2>2, <1>1 DEF HasKey
    <3>4. fdb'[i] = NoHost
      BY <1>13, <3>3, <1>1
    <3>5. QED
      BY <3>1, <3>2, <3>3, <3>4
  <2>3. QED
    BY <2>1, <2>2
<1>14. ASSUME NEW e \in del[r], e \in RR, RemoteDelFails(e), UNCHANGED fdb, PR' = PR, RR' = RR PROVE Goal(i)
  <2>1. CASE i # e.ip
    BY <2>1, <1>14, <1>6, <1>3 DEF Call
  <2>2. CASE i = e.ip
    <3>1. HasKey(i, RR)
      BY <2>2, <1>14 DEF HasKey
    <3>2. QED
      BY <2>2, <3>1, <1>14, <1>1, CleanCalls
  <2>3. QED
    BY <2>1, <2>2
<1>15. CASE NoEffect(r)
  BY <1>15, <1>5 DEF NoEffect, SamePeers, SameRemotes, PR, RR
<1>16. CASE PeerEffect(r)
  BY <1>16, <1>7, <1>8, <1>9, <1>10 DEF PeerEffect, SamePeers, SameRemotes, PR, RR
<1>17. CASE RemoteEffect(r)
  BY <1>17, <1>11, <1>12, <1>13, <1>14 DEF RemoteEffect, SamePeers, SameRemotes, PR, RR
<1>18. QED
  BY <1>15, <1>16, <1>17 DEF Effect

-----------------------------------------------------------------------------
(* What a document lists, some document lists.                             *)
LEMMA DocEntries ==
  ASSUME NEW d \in Doc
  PROVE  d.peers \subseteq AllPeers /\ d.remotes \subseteq AllRemotes
BY DEF AllPeers, AllRemotes

(* The agents a mapping may hold for a host.                               *)
LEMMA MappedAgent ==
  ASSUME NEW es, NEW m, m \in PeersMappings(es), NEW h \in Host, es \subseteq Placed
  PROVE  /\ m[h] # NoIp => \E f \in es : f.host = h /\ f.ip = m[h]
         /\ m[h] = NoIp => \A f \in es : f.host # h
<1> DEFINE at == {e.ip : e \in {f \in es : f.host = h}}
<1>1. IF at = {} THEN m[h] = NoIp ELSE m[h] \in at
  BY DEF PeersMappings
<1>2. NoIp \notin at
  BY VxlanBoundAssumption DEF Placed
<1>3. QED
  BY <1>1, <1>2

(* What is recorded, mapped or to be added was listed by a document.       *)
LEMMA ListedKept ==
  ASSUME NEW r \in Reloader, TypeOK, TypeOK', Listed(r), Step(r), Effect(r)
  PROVE  Listed(r)'
<1> USE DEF At, Goto, storeVars, kernelVars, diffVars
<1>1. /\ PeerRecords(r) \subseteq AllPeers /\ RemoteRecords(r) \subseteq AllRemotes
      /\ peers \subseteq AllPeers /\ remotes \subseteq AllRemotes
      /\ pc[r] = "peers" => add[r] \subseteq peers
      /\ pc[r] = "remotes" => add[r] \subseteq remotes
      /\ \A h \in Host : mapping[h] # NoIp => \E f \in AllPeers : f.host = h /\ f.ip = mapping[h]
  BY DEF Listed
<1>2. PeerRecords(r)' \subseteq AllPeers /\ RemoteRecords(r)' \subseteq AllRemotes
  <2>1. CASE NoEffect(r)
    BY <2>1, <1>1 DEF NoEffect, SamePeers, SameRemotes
  <2>2. CASE PeerEffect(r)
    BY <2>2, <1>1 DEF PeerEffect, SamePeers, SameRemotes
  <2>3. CASE RemoteEffect(r)
    BY <2>3, <1>1 DEF RemoteEffect, SamePeers, SameRemotes
  <2>4. QED
    BY <2>1, <2>2, <2>3 DEF Effect
<1>3. peers' \subseteq AllPeers /\ remotes' \subseteq AllRemotes
  <2>1. peers' = peers \/ \E d \in Doc : peers' = d.peers
    BY DEF Step, ChangeDoc, vars, Fetch, StorePeers, StoreRemotes, CheckVtep, PeerDiff, PeerAdd, PeerDel,
       PeerUpdAndMapping, RemoteDiff, RemoteAdd, RemoteDel, RemoteUpdAndReturn, TypeOK
  <2>2. remotes' = remotes \/ \E d \in Doc : remotes' = d.remotes
    BY DEF Step, ChangeDoc, vars, Fetch, StorePeers, StoreRemotes, CheckVtep, PeerDiff, PeerAdd, PeerDel,
       PeerUpdAndMapping, RemoteDiff, RemoteAdd, RemoteDel, RemoteUpdAndReturn, TypeOK
  <2>3. QED
    BY <2>1, <2>2, <1>1, DocEntries
<1> DEFINE Adds == /\ pc[r] = "peers" => add[r] \subseteq peers
                   /\ pc[r] = "remotes" => add[r] \subseteq remotes
           Maps == \A h \in Host : mapping[h] # NoIp => \E f \in AllPeers : f.host = h /\ f.ip = mapping[h]
<1>4. Adds' /\ Maps'
  <2>1. CASE ChangeDoc \/ UNCHANGED vars
    BY <2>1, <1>1 DEF ChangeDoc, vars
  <2>2. CASE Fetch(r) \/ StorePeers(r) \/ StoreRemotes(r) \/ CheckVtep(r)
    BY <2>2, <1>1 DEF Fetch, StorePeers, StoreRemotes, CheckVtep, TypeOK
  <2>3. CASE PeerDiff(r) \/ RemoteDiff(r)
    BY <2>3, <1>1 DEF PeerDiff, RemoteDiff, ToAdd, TypeOK
  <2>4. CASE PeerAdd(r) \/ PeerDel(r)
    BY <2>4, <1>1 DEF PeerAdd, PeerDel, TypeOK
  <2>5. CASE RemoteAdd(r) \/ RemoteDel(r)
    BY <2>5, <1>1 DEF RemoteAdd, RemoteDel, TypeOK
  <2>6. CASE PeerUpdAndMapping(r)
    <3>1. Adds' /\ mapping' \in PeersMappings(prevPeers')
      BY <2>6 DEF PeerUpdAndMapping, TypeOK
    <3>2. prevPeers' \subseteq AllPeers /\ prevPeers' \subseteq Placed
      BY <1>2 DEF PeerRecords, TypeOK
    <3>3. ASSUME NEW h \in Host, mapping'[h] # NoIp PROVE \E f \in AllPeers : f.host = h /\ f.ip = mapping'[h]
      BY <3>1, <3>2, <3>3, MappedAgent
    <3>4. QED
      BY <3>1, <3>3
  <2>7. CASE RemoteUpdAndReturn(r)
    BY <2>7, <1>1 DEF RemoteUpdAndReturn, TypeOK
  <2>8. QED
    BY <2>1, <2>2, <2>3, <2>4, <2>5, <2>6, <2>7 DEF Step
<1>5. QED
  BY <1>2, <1>3, <1>4 DEF Listed

(* The neighbour entry of a peer is its own, that of another container one *)
(* of an agent that some document put on its host.                         *)
LEMMA NeighboursKept ==
  ASSUME NEW r \in Reloader, TypeOK, RecordsOK(r), Installed(r), Listed(r), Neighbours(r), Effect(r)
  PROVE  Neighbours(r)'
<1> DEFINE PR == PeerRecords(r)
           RR == RemoteRecords(r)
           Goal == /\ \A e \in PR' : e.ip \notin hit' => arp'[e.ip] = e.ip
                   /\ \A e \in RR' : e.ip \notin hit' => \E f \in AllPeers : f.host = e.host /\ arp'[e.ip] = f.ip
<1>1. /\ \A i \in Ip \ hit : /\ i \in routes <=> HasKey(i, PR) \/ HasKey(i, RR)
                             /\ arp[i] # NoIp <=> i \in routes
                             /\ fdb[i] = NoHost <=> ~HasKey(i, PR)
                             /\ ~(HasKey(i, PR) /\ HasKey(i, RR))
  BY DEF Installed
<1>2. OneEach(PR) /\ OneEach(RR)
  BY DEF RecordsOK
<1>3. /\ \A e \in PR \cup RR : e.ip \in Ip
      /\ \A e \in add[r] : e.ip \in Ip
      /\ \A e \in del[r] : e.ip \in Ip
  BY RecordTypes, EntryParts, PlacedParts
<1>4. /\ \A e \in PR : e.ip \notin hit => arp[e.ip] = e.ip
      /\ \A e \in RR : e.ip \notin hit => \E f \in AllPeers : f.host = e.host /\ arp[e.ip] = f.ip
  BY DEF Neighbours
<1>5. arp \in [Ip -> Ip \cup {NoIp}] /\ hit \subseteq hit'
  BY HitGrows DEF TypeOK
<1>6. SUFFICES Goal
  BY DEF Neighbours
<1> HIDE DEF PR, RR
<1>7. ASSUME NEW e, Call(e), e.ip \in Ip, NEW f \in PR \cup RR, f.ip # e.ip PROVE arp'[f.ip] = arp[f.ip]
  BY <1>7, <1>3, CallsElsewhere
<1>8. ASSUME NEW e \in del[r], e \in PR, e.ip \notin hit', PeerDelFails(e) PROVE FALSE
  <2>1. e.ip \in Ip /\ e.ip \notin hit /\ HasKey(e.ip, PR)
    BY <1>8, <1>3, <1>5 DEF HasKey
  <2>2. QED
    BY <2>1, <1>8, <1>1, CleanCalls
<1>9. ASSUME NEW e \in del[r], e \in RR, e.ip \notin hit', RemoteDelFails(e) PROVE FALSE
  <2>1. e.ip \in Ip /\ e.ip \notin hit /\ HasKey(e.ip, RR)
    BY <1>9, <1>3, <1>5 DEF HasKey
  <2>2. QED
    BY <2>1, <1>9, <1>1, CleanCalls
<1>10. CASE NoEffect(r)
  BY <1>10, <1>4 DEF NoEffect, SamePeers, SameRemotes, PR, RR
<1>11. CASE PeerEffect(r)
  <2>1. RR' = RR
    BY <1>11 DEF PeerEffect, SameRemotes, RR
  <2>2. ASSUME NEW e \in add[r], PeerAdded(e), ~HasKey(e.ip, PR), PR' = PR \cup {e} PROVE Goal
    <3>1. e.ip \in Ip /\ Call(e) /\ e.ip \notin routes
      BY <2>2, <1>3 DEF PeerAdded, RouteAccepted, Call
    <3>2. e.ip \notin hit' => arp'[e.ip] = e.ip
      BY <2>2, <3>1, <1>1, <1>5 DEF PeerAdded, NeighbourAdded
    <3>3. \A f \in PR : f.ip # e.ip
      BY <2>2 DEF HasKey
    <3>4. \A f \in RR : f.ip \notin hit' => f.ip # e.ip
      BY <3>1, <1>1, <1>5 DEF HasKey
    <3>5. QED
      BY <2>1, <2>2, <3>1, <3>2, <3>3, <3>4, <1>4, <1>5, <1>7
  <2>3. ASSUME NEW e \in add[r], PeerAddFails(e), ~HasKey(e.ip, PR), PR' = PR PROVE Goal
    <3>1. e.ip \in Ip /\ Call(e)
      BY <2>3, <1>3 DEF Call
    <3>2. e.ip \notin hit' => arp' = arp
      BY <2>3, <3>1, <1>1, <1>5, CleanCalls
    <3>3. QED
      BY <2>1, <2>3, <3>1, <3>2, <1>4, <1>5, <1>7
  <2>4. ASSUME NEW e \in del[r], e \in PR, PeerDeleted(e), PR' = PR \ {e} PROVE Goal
    <3>1. e.ip \in Ip /\ Call(e)
      BY <2>4, <1>3 DEF Call
    <3>2. \A f \in PR \ {e} : f.ip # e.ip
      BY <2>4, <1>2 DEF OneEach
    <3>3. \A f \in RR : f.ip \notin hit' => f.ip # e.ip
      BY <2>4, <3>1, <1>1, <1>5 DEF HasKey
    <3>4. QED
      BY <2>1, <2>4, <3>1, <3>2, <3>3, <1>4, <1>5, <1>7
  <2>5. ASSUME NEW e \in del[r], e \in PR, PeerDelFails(e), PR' = PR PROVE Goal
    <3>1. e.ip \in Ip /\ Call(e) /\ e.ip \in hit'
      BY <2>5, <1>3, <1>8 DEF Call
    <3>2. QED
      BY <2>1, <2>5, <3>1, <1>4, <1>5, <1>7
  <2>6. QED
    BY <1>11, <2>2, <2>3, <2>4, <2>5 DEF PeerEffect, SamePeers, PR
<1>12. CASE RemoteEffect(r)
  <2>1. PR' = PR /\ UNCHANGED fdb
    BY <1>12 DEF RemoteEffect, SamePeers, PR
  <2>2. ASSUME NEW e \in add[r], RemoteAdded(e), Via(e) # NoIp, ~HasKey(e.ip, RR), RR' = RR \cup {e} PROVE Goal
    <3>1. e.ip \in Ip /\ Call(e) /\ e.ip \notin routes
      BY <2>1, <2>2, <1>3 DEF RemoteAdded, RouteAccepted, Call
    <3>2. e.ip \notin hit' => arp'[e.ip] = Via(e)
      BY <2>2, <3>1, <1>1, <1>5 DEF RemoteAdded, NeighbourAdded
    <3>3. \E f \in AllPeers : f.host = e.host /\ f.ip = Via(e)
      <4>1. e.host \in Host /\ Via(e) = mapping[e.host]
        BY <2>2, RecordTypes, EntryParts DEF Via
      <4>2. QED
        BY <2>2, <4>1 DEF Listed
    <3>4. \A f \in RR : f.ip # e.ip
      BY <2>2 DEF HasKey
    <3>5. \A f \in PR : f.ip \notin hit' => f.ip # e.ip
      BY <3>1, <1>1, <1>5 DEF HasKey
    <3>6. QED
      BY <2>1, <2>2, <3>1, <3>2, <3>3, <3>4, <3>5, <1>4, <1>5, <1>7
  <2>3. ASSUME NEW e \in add[r], RemoteAddFails(e), RR' = RR PROVE Goal
    <3>1. e.ip \in Ip /\ Call(e)
      BY <2>1, <2>3, <1>3 DEF Call
    <3>2. e.ip \notin hit' => arp' = arp
      BY <2>3, <3>1, CleanCalls
    <3>3. QED
      BY <2>1, <2>3, <3>1, <3>2, <1>4, <1>5, <1>7
  <2>4. ASSUME NEW e \in del[r], e \in RR, RemoteDeleted(e), RR' = RR \ {e} PROVE Goal
    <3>1. e.ip \in Ip /\ Call(e)
      BY <2>1, <2>4, <1>3 DEF Call
    <3>2. \A f \in RR \ {e} : f.ip # e.ip
      BY <2>4, <1>2 DEF OneEach
    <3>3. \A f \in PR : f.ip \notin hit' => f.ip # e.ip
      BY <2>4, <3>1, <1>1, <1>5 DEF HasKey
    <3>4. QED
      BY <2>1, <2>4, <3>1, <3>2, <3>3, <1>4, <1>5, <1>7
  <2>5. ASSUME NEW e \in del[r], e \in RR, RemoteDelFails(e), RR' = RR PROVE Goal
    <3>1. e.ip \in Ip /\ Call(e) /\ e.ip \in hit'
      BY <2>1, <2>5, <1>3, <1>9 DEF Call
    <3>2. QED
      BY <2>1, <2>5, <3>1, <1>4, <1>5, <1>7
  <2>6. QED
    BY <1>12, <2>2, <2>3, <2>4, <2>5 DEF RemoteEffect, SameRemotes, RR
<1>13. QED
  BY <1>10, <1>11, <1>12 DEF Effect

-----------------------------------------------------------------------------
(* The constraints of the documents on an address do not change.           *)
LEMMA WantedBefore ==
  ASSUME NEW e, hit \subseteq hit', peers' = peers, Wanted(e)'
  PROVE  Wanted(e) /\ e.ip \notin hit' /\ SteadyPeer(e)
BY DEF Wanted, SteadyPeer, HasKey

(* What is served after a step that leaves the store alone was so before.  *)
LEMMA ServedBefore ==
  ASSUME NEW e, NEW a, hit \subseteq hit', peers' = peers, remotes' = remotes, Served(e, a)'
  PROVE  Served(e, a) /\ e.ip \notin hit' /\ SteadyRemote(e)
BY DEF Served, SteadyRemote, SoleAgent, SteadyPeer, HasKey

(* The diff keeps what is listed, and a listed steady entry is kept or to  *)
(* be added.                                                               *)
LEMMA DiffProgress ==
  ASSUME NEW prev, NEW cur
  PROVE  /\ \A e \in Noop(prev, cur) \cup KeptAsWas(ToUpd(prev, cur), prev) : HasKey(e.ip, cur)
         /\ \A e \in cur : (\A f \in prev : f.ip = e.ip => f = e) => e \in Noop(prev, cur) \cup ToAdd(prev, cur)
BY DEF Noop, KeptAsWas, ToUpd, ToAdd, HasKey

(* A steady peer is recorded as soon as it is added.                       *)
LEMMA PeerAddWorks ==
  ASSUME NEW r \in Reloader, TypeOK, RecordsOK(r), Installed(r), Listed(r), vtep = "up", pc[r] = "peers",
         NEW e \in add[r], SteadyPeer(e), hit \subseteq hit', e.ip \notin hit'
  PROVE  ~PeerAddFails(e)
<1>1. e.ip \in Ip \ hit'
  BY RecordTypes, EntryParts
<1>2. ~HasKey(e.ip, PeerRecords(r))
  BY DEF RecordsOK, DiffOK, PeerRecords, Pending, Whole
<1>3. ~HasKey(e.ip, RemoteRecords(r))
  <2>1. \A f \in AllRemotes : f.ip # e.ip
    BY DEF SteadyPeer, AllRemotes, HasKey
  <2>2. QED
    BY <2>1 DEF Listed, HasKey
<1>4. RouteAccepted(e) /\ fdb[e.ip] = NoHost
  BY <1>1, <1>2, <1>3 DEF Installed, RouteAccepted
<1>5. QED
  BY <1>1, <1>4, CleanCalls

(* A steady remote container is recorded as soon as it is added.           *)
LEMMA RemoteAddWorks ==
  ASSUME NEW r \in Reloader, TypeOK, RecordsOK(r), Installed(r), Listed(r), vtep = "up", pc[r] = "remotes",
         NEW e \in add[r], SteadyRemote(e), hit \subseteq hit', e.ip \notin hit'
  PROVE  ~RemoteAddFails(e)
<1>1. e.ip \in Ip \ hit'
  BY RecordTypes, EntryParts
<1>2. ~HasKey(e.ip, RemoteRecords(r))
  BY DEF RecordsOK, DiffOK, RemoteRecords, Pending, Whole
<1>3. ~HasKey(e.ip, PeerRecords(r))
  <2>1. \A f \in AllPeers : f.ip # e.ip
    BY DEF SteadyRemote, AllPeers, HasKey
  <2>2. QED
    BY <2>1 DEF Listed, HasKey
<1>4. RouteAccepted(e)
  BY <1>1, <1>2, <1>3 DEF Installed, RouteAccepted
<1>5. QED
  BY <1>1, <1>4, CleanCalls

(* A deletion only fails where a call of it does.                          *)
LEMMA DelWorks ==
  ASSUME NEW r \in Reloader, TypeOK, Installed(r), hit \subseteq hit',
         NEW e \in del[r], e.ip \notin hit'
  PROVE  /\ pc[r] = "peers" => ~PeerDelFails(e)
         /\ pc[r] = "remotes" => ~RemoteDelFails(e)
<1>1. e.ip \in Ip \ hit'
  BY RecordTypes, PlacedParts
<1>2. ASSUME pc[r] = "peers" PROVE ~PeerDelFails(e)
  <2>1. HasKey(e.ip, PeerRecords(r))
    BY <1>2 DEF HasKey, PeerRecords, Pending
  <2>2. QED
    BY <1>1, <2>1, CleanCalls DEF Installed
<1>3. ASSUME pc[r] = "remotes" PROVE ~RemoteDelFails(e)
  <2>1. HasKey(e.ip, RemoteRecords(r))
    BY <1>3 DEF HasKey, RemoteRecords, Pending
  <2>2. QED
    BY <1>1, <2>1, CleanCalls DEF Installed
<1>4. QED
  BY <1>2, <1>3

(* Every step of the only Reload in progress keeps what it has achieved.   *)
LEMMA ProgressKept ==
  ASSUME NEW r \in Reloader, ReloadInv(r), Step(r), Effect(r)
  PROVE  Progress(r)'
<1>1. TypeOK /\ RecordsOK(r) /\ Installed(r) /\ Listed(r) /\ Progress(r)
  BY DEF ReloadInv, RecordInv
<1>2. hit \subseteq hit'
  BY <1>1, HitGrows
<1>3. /\ pc \in [Reloader -> {"idle", "fetched", "peersSet", "vtep", "peerDiff", "peers", "remoteDiff", "remotes"}]
      /\ add \in [Reloader -> SUBSET Entry] /\ del \in [Reloader -> SUBSET Placed]
      /\ upd \in [Reloader -> SUBSET Entry] /\ old \in [Reloader -> SUBSET Placed]
      /\ prevPeers \subseteq Placed
  BY <1>1 DEF TypeOK
<1>4. /\ prevPeers \subseteq AllPeers /\ prevRemotes \subseteq AllRemotes
      /\ pc[r] = "peers" => add[r] \subseteq peers
      /\ pc[r] = "remotes" => add[r] \subseteq remotes
  BY <1>1 DEF Listed, PeerRecords, RemoteRecords
<1> USE DEF At, Goto, storeVars, kernelVars, diffVars
<1>5. CASE ChangeDoc \/ UNCHANGED vars
  <2>1. UNCHANGED <<pc, prevPeers, prevRemotes, peers, remotes, mapping, vtep, add, upd, old, moved, hit>>
    BY <1>5 DEF ChangeDoc, vars, faultVars
  <2>2. QED
    BY <2>1, <1>1 DEF Progress, PeerProgress, RemoteProgress, Finished, Kept, KeptAsWas, Wanted, Served,
       SteadyPeer, SteadyRemote, SoleAgent, PeersMappings, HasKey
<1>6. CASE Fetch(r) \/ StorePeers(r) \/ StoreRemotes(r)
  <2>1. pc'[r] \in {"fetched", "peersSet", "vtep"}
    BY <1>6, <1>3 DEF Fetch, StorePeers, StoreRemotes
  <2>2. QED
    BY <2>1 DEF Progress, PeerProgress, RemoteProgress, Finished
<1>7. CASE CheckVtep(r)
  <2>1. pc'[r] = "peerDiff" \/ vtep' # "up"
    BY <1>7, <1>3 DEF CheckVtep, VtepCreated, VtepHalfCreated
  <2>2. QED
    BY <2>1 DEF Progress, PeerProgress, RemoteProgress, Finished
<1> SUFFICES ASSUME vtep' = "up",
                    \/ PeerDiff(r) \/ PeerAdd(r) \/ PeerDel(r) \/ PeerUpdAndMapping(r)
                    \/ RemoteDiff(r) \/ RemoteAdd(r) \/ RemoteDel(r) \/ RemoteUpdAndReturn(r)
             PROVE  PeerProgress(r)' /\ RemoteProgress(r)'
  BY <1>5, <1>6, <1>7 DEF Step, Progress
<1>8. vtep = "up" /\ peers' = peers /\ remotes' = remotes
  BY DEF PeerDiff, PeerAdd, PeerDel, PeerUpdAndMapping, RemoteDiff, RemoteAdd, RemoteDel, RemoteUpdAndReturn
<1>9. PeerProgress(r) /\ RemoteProgress(r)
  BY <1>1, <1>8 DEF Progress
<1>10. /\ \A e : Wanted(e)' => Wanted(e) /\ e.ip \notin hit' /\ SteadyPeer(e)
       /\ \A e, a : Served(e, a)' => Served(e, a) /\ e.ip \notin hit' /\ SteadyRemote(e)
  BY <1>2, <1>8, WantedBefore, ServedBefore
<1>11. CASE PeerDiff(r)
  <2>1. /\ pc'[r] = "peers" /\ prevPeers' = Noop(prevPeers, peers)
        /\ add'[r] = ToAdd(prevPeers, peers) /\ upd'[r] = ToUpd(prevPeers, peers) /\ old'[r] = prevPeers
    BY <1>11, <1>3 DEF PeerDiff
  <2>2. \A e \in prevPeers' \cup KeptAsWas(upd'[r], old'[r]) : HasKey(e.ip, peers')
    BY <2>1, <1>8, DiffProgress
  <2>3. ASSUME NEW e, Wanted(e)' PROVE e \in prevPeers' \cup add'[r]
    <3>1. e \in peers /\ SteadyPeer(e)
      BY <2>3, <1>10 DEF Wanted
    <3>2. \A f \in prevPeers : f.ip = e.ip => f = e
      BY <3>1, <1>4 DEF SteadyPeer, AllPeers
    <3>3. QED
      BY <3>1, <3>2, <2>1, DiffProgress
  <2>4. PeerProgress(r)'
    BY <2>1, <2>2, <2>3 DEF PeerProgress, Kept, Finished
  <2>5. QED
    BY <2>1, <2>4 DEF RemoteProgress, Finished
<1>12. CASE PeerAdd(r)
  <2>1. PICK e \in add[r] : /\ add' = [add EXCEPT ![r] = @ \ {e}]
                            /\ \/ e.host = NoHost /\ UNCHANGED prevPeers
                               \/ prevPeers' = Put(prevPeers, e)
                               \/ PeerAddFails(e) /\ UNCHANGED prevPeers
    BY <1>12 DEF PeerAdd
  <2>2. pc[r] = "peers" /\ UNCHANGED <<pc, upd, old>>
    BY <1>12 DEF PeerAdd
  <2>3. Put(prevPeers, e) = prevPeers \cup {e}
    <3>1. DiffOK(prevPeers, add[r], del[r], upd[r], old[r])
      BY <2>2, <1>1 DEF RecordsOK
    <3>2. QED
      BY <3>1, AddKeeps, Zenon
  <2>4. \A f \in prevPeers' \cup KeptAsWas(upd'[r], old'[r]) : f.ip \notin hit' => HasKey(f.ip, peers')
    <3>1. HasKey(e.ip, peers)
      BY <2>1, <2>2, <1>4 DEF HasKey
    <3>2. \A f \in prevPeers \cup KeptAsWas(upd[r], old[r]) : f.ip \notin hit => HasKey(f.ip, peers)
      BY <2>2, <1>9 DEF PeerProgress, Kept
    <3>3. prevPeers' \subseteq prevPeers \cup {e}
      BY <2>1, <2>3
    <3>4. QED
      BY <2>2, <3>1, <3>2, <3>3, <1>2, <1>8
  <2>5. ASSUME NEW g, Wanted(g)' PROVE g \in prevPeers' \cup add'[r]
    <3>1. g \in prevPeers \cup add[r] /\ SteadyPeer(g) /\ g.ip \notin hit'
      BY <2>5, <2>2, <1>9, <1>10 DEF PeerProgress
    <3>2. add'[r] = add[r] \ {e} /\ prevPeers \subseteq prevPeers'
      BY <2>1, <2>3, <1>3
    <3>3. CASE g = e
      <4>1. e.host # NoHost /\ ~PeerAddFails(e)
        BY <3>1, <3>3, <2>2, <1>1, <1>2, <1>8, PeerAddWorks DEF SteadyPeer
      <4>2. QED
        BY <4>1, <2>1, <2>3, <3>3
    <3>4. QED
      BY <3>1, <3>2, <3>3
  <2>6. PeerProgress(r)'
    BY <2>2, <2>4, <2>5 DEF PeerProgress, Kept, Finished
  <2>7. QED
    BY <2>2, <2>6 DEF RemoteProgress, Finished
<1>13. CASE PeerDel(r)
  <2>1. PICK e \in del[r] : UNCHANGED prevPeers \/ (PeerDelFails(e) /\ prevPeers' = Put(prevPeers, e))
    BY <1>13 DEF PeerDel
  <2>2. pc[r] = "peers" /\ UNCHANGED <<pc, add, upd, old>>
    BY <1>13 DEF PeerDel
  <2>3. Put(prevPeers, e) = prevPeers \cup {e}
    <3>1. DiffOK(prevPeers, add[r], del[r], upd[r], old[r])
      BY <2>2, <1>1 DEF RecordsOK
    <3>2. QED
      BY <3>1, DelKeeps, Zenon
  <2>4. UNCHANGED prevPeers \/ (prevPeers' = prevPeers \cup {e} /\ e.ip \in hit')
    BY <2>1, <2>2, <2>3, <1>1, <1>2, DelWorks
  <2>5. \A f \in prevPeers' \cup KeptAsWas(upd'[r], old'[r]) : f.ip \notin hit' => HasKey(f.ip, peers')
    <3>1. \A f \in prevPeers \cup KeptAsWas(upd[r], old[r]) : f.ip \notin hit => HasKey(f.ip, peers)
      BY <2>2, <1>9 DEF PeerProgress, Kept
    <3>2. QED
      BY <2>2, <2>4, <3>1, <1>2, <1>8
  <2>6. ASSUME NEW g, Wanted(g)' PROVE g \in prevPeers' \cup add'[r]
    BY <2>6, <2>2, <2>4, <1>9, <1>10 DEF PeerProgress
  <2>7. PeerProgress(r)'
    BY <2>2, <2>5, <2>6 DEF PeerProgress, Kept, Finished
  <2>8. QED
    BY <2>2, <2>7 DEF RemoteProgress, Finished
<1>14. CASE PeerUpdAndMapping(r)
  <2>1. /\ pc[r] = "peers" /\ pc'[r] = "remoteDiff" /\ add[r] = {} /\ del[r] = {}
        /\ prevPeers' = PutBack(prevPeers, upd[r], old[r]) /\ mapping' \in PeersMappings(prevPeers')
    BY <1>14, <1>3 DEF PeerUpdAndMapping, PutBack
  <2>2. PutBack(prevPeers, upd[r], old[r]) = Whole(prevPeers, {}, upd[r], old[r])
    <3>1. DiffOK(prevPeers, add[r], {}, upd[r], old[r])
      BY <2>1, <1>1 DEF RecordsOK
    <3>2. QED
      BY <3>1, UpdKeeps, Zenon
  <2>3. prevPeers' = prevPeers \cup KeptAsWas(upd[r], old[r])
    BY <2>1, <2>2 DEF Whole
  <2>4. \A f \in prevPeers' : f.ip \notin hit' => HasKey(f.ip, peers')
    BY <2>1, <2>3, <1>2, <1>8, <1>9 DEF PeerProgress, Kept
  <2>5. ASSUME NEW g, Wanted(g)' PROVE g \in prevPeers'
    BY <2>5, <2>1, <2>3, <1>9, <1>10 DEF PeerProgress
  <2>6. PeerProgress(r)'
    BY <2>1, <2>4, <2>5 DEF PeerProgress, Kept, Finished, PeersMappings
  <2>7. QED
    BY <2>1, <2>6 DEF RemoteProgress, Finished
<1>15. ASSUME pc[r] \in {"remoteDiff", "remotes"}, UNCHANGED prevPeers, UNCHANGED mapping \/ pc'[r] = "idle",
              pc'[r] # "peers"
       PROVE  PeerProgress(r)'
  <2>1. (\A f \in prevPeers : f.ip \notin hit => HasKey(f.ip, peers)) /\ mapping \in PeersMappings(prevPeers)
    BY <1>15, <1>9 DEF PeerProgress, Kept
  <2>2. ASSUME NEW g, Wanted(g)' PROVE g \in prevPeers'
    BY <2>2, <1>15, <1>9, <1>10 DEF PeerProgress
  <2>3. \A f \in prevPeers' : f.ip \notin hit' => HasKey(f.ip, peers')
    BY <2>1, <1>2, <1>8, <1>15
  <2>4. QED
    BY <2>1, <2>2, <2>3, <1>15 DEF PeerProgress, Kept, PeersMappings
<1>16. CASE RemoteDiff(r)
  <2>1. /\ pc[r] = "remoteDiff" /\ pc'[r] = "remotes" /\ prevRemotes' = Noop(prevRemotes, remotes)
        /\ add'[r] = ToAdd(prevRemotes, remotes) /\ upd'[r] = ToUpd(prevRemotes, remotes) /\ old'[r] = prevRemotes
        /\ UNCHANGED <<prevPeers, mapping>>
    BY <1>16, <1>3 DEF RemoteDiff
  <2>2. \A e \in prevRemotes' \cup KeptAsWas(upd'[r], old'[r]) : HasKey(e.ip, remotes')
    BY <2>1, <1>8, DiffProgress
  <2>3. ASSUME NEW e, NEW a, Served(e, a)' PROVE e \in prevRemotes' \cup add'[r]
    <3>1. e \in remotes /\ SteadyRemote(e)
      BY <2>3, <1>10 DEF Served
    <3>2. \A f \in prevRemotes : f.ip = e.ip => f = e
      BY <3>1, <1>4 DEF SteadyRemote, AllRemotes
    <3>3. QED
      BY <3>1, <3>2, <2>1, DiffProgress
  <2>4. RemoteProgress(r)'
    BY <2>1, <2>2, <2>3 DEF RemoteProgress, Kept, Finished
  <2>5. QED
    BY <2>1, <2>4, <1>15
<1>17. CASE RemoteAdd(r)
  <2>1. PICK e \in add[r] : /\ add' = [add EXCEPT ![r] = @ \ {e}]
                            /\ \/ Via(e) = NoIp /\ UNCHANGED prevRemotes
                               \/ prevRemotes' = Put(prevRemotes, e)
                               \/ RemoteAddFails(e) /\ UNCHANGED prevRemotes
    BY <1>17 DEF RemoteAdd
  <2>2. pc[r] = "remotes" /\ UNCHANGED <<pc, upd, old, prevPeers, mapping>>
    BY <1>17 DEF RemoteAdd
  <2>3. Put(prevRemotes, e) = prevRemotes \cup {e}
    <3>1. DiffOK(prevRemotes, add[r], del[r], upd[r], old[r])
      BY <2>2, <1>1 DEF RecordsOK
    <3>2. QED
      BY <3>1, AddKeeps, Zenon
  <2>4. \A f \in prevRemotes' \cup KeptAsWas(upd'[r], old'[r]) : f.ip \notin hit' => HasKey(f.ip, remotes')
    <3>1. HasKey(e.ip, remotes)
      BY <2>1, <2>2, <1>4 DEF HasKey
    <3>2. \A f \in prevRemotes \cup KeptAsWas(upd[r], old[r]) : f.ip \notin hit => HasKey(f.ip, remotes)
      BY <2>2, <1>9 DEF RemoteProgress, Kept
    <3>3. prevRemotes' \subseteq prevRemotes \cup {e}
      BY <2>1, <2>3
    <3>4. QED
      BY <2>2, <3>1, <3>2, <3>3, <1>2, <1>8
  <2>5. ASSUME NEW g, NEW a, Served(g, a)' PROVE g \in prevRemotes' \cup add'[r]
    <3>1. g \in prevRemotes \cup add[r] /\ Served(g, a) /\ SteadyRemote(g) /\ g.ip \notin hit'
      BY <2>5, <2>2, <1>9, <1>10 DEF RemoteProgress
    <3>2. add'[r] = add[r] \ {e} /\ prevRemotes \subseteq prevRemotes'
      BY <2>1, <2>3, <1>3
    <3>3. CASE g = e
      <4>1. ~RemoteAddFails(e)
        BY <3>1, <3>3, <2>2, <1>1, <1>2, <1>8, RemoteAddWorks
      <4>2. a \in prevPeers /\ a.host = e.host /\ mapping \in PeersMappings(prevPeers)
        BY <3>1, <3>3, <2>2, <1>9 DEF PeerProgress, Wanted, Served, SoleAgent
      <4>3. e.host \in Host /\ e.host # NoHost
        BY <4>2, <1>3, PlacedParts
      <4>4. Via(e) # NoIp
        BY <4>2, <4>3, <1>3, MappedAgent DEF Via
      <4>5. QED
        BY <4>1, <4>4, <2>1, <2>3, <3>3
    <3>4. QED
      BY <3>1, <3>2, <3>3
  <2>6. RemoteProgress(r)'
    BY <2>2, <2>4, <2>5 DEF RemoteProgress, Kept, Finished
  <2>7. QED
    BY <2>2, <2>6, <1>15
<1>18. CASE RemoteDel(r)
  <2>1. PICK e \in del[r] : UNCHANGED prevRemotes \/ (RemoteDelFails(e) /\ prevRemotes' = Put(prevRemotes, e))
    BY <1>18 DEF RemoteDel
  <2>2. pc[r] = "remotes" /\ UNCHANGED <<pc, add, upd, old, prevPeers, mapping>>
    BY <1>18 DEF RemoteDel
  <2>3. Put(prevRemotes, e) = prevRemotes \cup {e}
    <3>1. DiffOK(prevRemotes, add[r], del[r], upd[r], old[r])
      BY <2>2, <1>1 DEF RecordsOK
    <3>2. QED
      BY <3>1, DelKeeps, Zenon
  <2>4. UNCHANGED prevRemotes \/ (prevRemotes' = prevRemotes \cup {e} /\ e.ip \in hit')
    BY <2>1, <2>2, <2>3, <1>1, <1>2, DelWorks
  <2>5. \A f \in prevRemotes' \cup KeptAsWas(upd'[r], old'[r]) : f.ip \notin hit' => HasKey(f.ip, remotes')
    <3>1. \A f \in prevRemotes \cup KeptAsWas(upd[r], old[r]) : f.ip \notin hit => HasKey(f.ip, remotes)
      BY <2>2, <1>9 DEF RemoteProgress, Kept
    <3>2. QED
      BY <2>2, <2>4, <3>1, <1>2, <1>8
  <2>6. ASSUME NEW g, NEW a, Served(g, a)' PROVE g \in prevRemotes' \cup add'[r]
    BY <2>6, <2>2, <2>4, <1>9, <1>10 DEF RemoteProgress
  <2>7. RemoteProgress(r)'
    BY <2>2, <2>5, <2>6 DEF RemoteProgress, Kept, Finished
  <2>8. QED
    BY <2>2, <2>7, <1>15
<1>19. CASE RemoteUpdAndReturn(r)
  <2>1. /\ pc[r] = "remotes" /\ pc'[r] = "idle" /\ add[r] = {} /\ del[r] = {}
        /\ prevRemotes' = PutBack(prevRemotes, upd[r], old[r]) /\ UNCHANGED <<prevPeers, mapping>>
    BY <1>19, <1>3 DEF RemoteUpdAndReturn, PutBack
  <2>2. PutBack(prevRemotes, upd[r], old[r]) = Whole(prevRemotes, {}, upd[r], old[r])
    <3>1. DiffOK(prevRemotes, add[r], {}, upd[r], old[r])
      BY <2>1, <1>1 DEF RecordsOK
    <3>2. QED
      BY <3>1, UpdKeeps, Zenon
  <2>3. prevRemotes' = prevRemotes \cup KeptAsWas(upd[r], old[r])
    BY <2>1, <2>2 DEF Whole
  <2>4. \A f \in prevRemotes' : f.ip \notin hit' => HasKey(f.ip, remotes')
    BY <2>1, <2>3, <1>2, <1>8, <1>9 DEF RemoteProgress, Kept
  <2>5. ASSUME NEW g, NEW a, Served(g, a)' PROVE g \in prevRemotes'
    BY <2>5, <2>1, <2>3, <1>9, <1>10 DEF RemoteProgress
  <2>6. RemoteProgress(r)'
    BY <2>1, <2>4, <2>5 DEF RemoteProgress, Kept, Finished
  <2>7. QED
    BY <2>1, <2>6, <1>15
<1>20. QED
  BY <1>11, <1>12, <1>13, <1>14, <1>16, <1>17, <1>18, <1>19

-----------------------------------------------------------------------------
(* The invariant of the Reload in progress.                                *)
LEMMA ReloadStep ==
  ASSUME NEW r \in Reloader, ReloadInv(r), Step(r)
  PROVE  ReloadInv(r)'
<1>1. RecordInv(r) /\ TypeOK /\ RecordsOK(r) /\ Installed(r) /\ Listed(r) /\ Neighbours(r)
  BY DEF ReloadInv, RecordInv
<1>2. RecordInv(r)' /\ TypeOK' /\ Effect(r)
  BY <1>1, RecordStep DEF RecordInv
<1>3. Installed(r)' /\ Listed(r)' /\ Neighbours(r)' /\ Progress(r)'
  BY <1>1, <1>2, InstalledKept, ListedKept, NeighboursKept, ProgressKept
<1>4. QED
  BY <1>2, <1>3 DEF ReloadInv

(* Between Reloads it is the same for every caller.                        *)
LEMMA HandOver ==
  ASSUME NEW r \in Reloader, NEW s \in Reloader, pc'[r] = "idle", pc'[s] = "idle", ReloadInv(s)'
  PROVE  ReloadInv(r)'
<1>1. PeerRecords(r)' = PeerRecords(s)' /\ RemoteRecords(r)' = RemoteRecords(s)'
  BY DEF PeerRecords, RemoteRecords, Pending
<1>2. TypeOK' /\ RecordsOK(r)' /\ Forwarded(r)'
  BY <1>1 DEF ReloadInv, RecordInv, RecordsOK, Forwarded, OneEach
<1>3. Installed(r)'
  BY <1>1 DEF ReloadInv, Installed, HasKey
<1>4. Listed(r)' /\ Neighbours(r)'
  BY <1>1 DEF ReloadInv, Listed, Neighbours
<1>5. Progress(r)'
  BY DEF ReloadInv, Progress, PeerProgress, RemoteProgress, Finished
<1>6. QED
  BY <1>2, <1>3, <1>4, <1>5 DEF ReloadInv, RecordInv

(* The invariant holds initially, of every caller.                         *)
LEMMA AloneInit == Init => AloneInv
<1> SUFFICES ASSUME Init, NEW r \in Reloader PROVE ReloadInv(r)
  BY DEF AloneInv
<1>1. RecordInv(r) /\ Installed(r)
  BY RecordInit
<1>2. PeerRecords(r) = {} /\ RemoteRecords(r) = {} /\ pc[r] = "idle"
  BY DEF Init, PeerRecords, RemoteRecords, Pending
<1>3. peers \subseteq AllPeers /\ remotes \subseteq AllRemotes
  BY DocEntries DEF Init
<1>4. Listed(r) /\ Neighbours(r) /\ Progress(r)
  BY <1>2, <1>3 DEF Listed, Neighbours, Progress, Init
<1>5. QED
  BY <1>1, <1>4 DEF ReloadInv

(* It is kept by every step as long as no two Reloads overlap.             *)
LEMMA AloneKept == TypeOK /\ AloneInv /\ OneAtATime /\ [Next]_vars => AloneInv'
<1> SUFFICES ASSUME TypeOK, AloneInv, OneAtATime, [Next]_vars, NEW r \in Reloader, Alone(r)'
             PROVE  ReloadInv(r)'
  BY DEF AloneInv
<1>1. CASE ChangeDoc \/ UNCHANGED vars
  <2>1. Alone(r)
    BY <1>1 DEF Alone, ChangeDoc, vars
  <2>2. QED
    BY <1>1, <2>1, ReloadStep DEF AloneInv, Step
<1>2. ASSUME NEW s \in Reloader, Step(s), ~ChangeDoc, ~UNCHANGED vars PROVE ReloadInv(r)'
  <2>1. /\ \A t \in Reloader : t # s => pc'[t] = pc[t]
        /\ pc[s] = "idle" => pc'[s] = "fetched"
    <3> USE DEF At, Goto, TypeOK
    <3>1. CASE Fetch(s) \/ StorePeers(s) \/ StoreRemotes(s) \/ CheckVtep(s)
      BY <3>1 DEF Fetch, StorePeers, StoreRemotes, CheckVtep
    <3>2. CASE PeerDiff(s) \/ PeerAdd(s) \/ PeerDel(s) \/ PeerUpdAndMapping(s)
      BY <3>2 DEF PeerDiff, PeerAdd, PeerDel, PeerUpdAndMapping
    <3>3. CASE RemoteDiff(s) \/ RemoteAdd(s) \/ RemoteDel(s) \/ RemoteUpdAndReturn(s)
      BY <3>3 DEF RemoteDiff, RemoteAdd, RemoteDel, RemoteUpdAndReturn
    <3>4. QED
      BY <1>2, <3>1, <3>2, <3>3 DEF Step
  <2>2. CASE s = r
    <3>1. Alone(r)
      BY <2>1, <2>2 DEF Alone
    <3>2. QED
      BY <3>1, <1>2, <2>2, ReloadStep DEF AloneInv
  <2>3. CASE s # r
    <3>1. pc'[s] = "idle" /\ pc[s] # "idle"
      BY <2>1, <2>3 DEF Alone
    <3>2. pc[r] = "idle" /\ pc'[r] = "idle"
      BY <3>1, <2>1, <2>3 DEF OneAtATime
    <3>3. Alone(s)
      BY <3>1 DEF OneAtATime, Alone
    <3>4. ReloadInv(s)'
      BY <3>3, <1>2, ReloadStep DEF AloneInv
    <3>5. QED
      BY <3>1, <3>2, <3>4, HandOver
  <2>4. QED
    BY <2>2, <2>3
<1>3. QED
  BY <1>1, <1>2 DEF Next, Step

(* Hence it always holds where Reloads never overlap.                      *)
LEMMA AloneAlways == Spec /\ []OneAtATime => []AloneInv
BY AloneInit, AloneKept, VxlanTypeCorrect, PTL DEF Spec

(* Between Reloads the records are what the last one left.                 *)
LEMMA AtRest ==
  ASSUME AloneInv, AllIdle
  PROVE  \E r \in Reloader : /\ ReloadInv(r) /\ pc[r] = "idle"
                             /\ PeerRecords(r) = prevPeers /\ RemoteRecords(r) = prevRemotes
BY VxlanBoundAssumption DEF AloneInv, Alone, AllIdle, PeerRecords, RemoteRecords, Pending

(* As long as no two Reloads overlap, whoever calls them, no vxlan         *)
(* forwarding entry outlives its record, whichever netlink calls fail and  *)
(* whatever the documents say: peerVxlanEntry.del forgets an entry only    *)
(* after deleteVxlanForwardingEntry worked, peerVxlanEntry.add records it  *)
(* whenever the forwarding entry was added, and an ignored update keeps    *)
(* the entry it was.                                                       *)
THEOREM ForwardingRecordedHolds == Spec /\ []OneAtATime => []ForwardingRecorded
<1>1. AloneInv => ForwardingRecorded
  BY AtRest DEF ReloadInv, RecordInv, Forwarded, ForwardingRecorded
<1>2. QED
  BY <1>1, AloneAlways, PTL

(* As long as no two Reloads overlap, what handlePeerEntries and           *)
(* handleNonPeerRemoteEntries have recorded of an address is what the      *)
(* kernel has for it, until a netlink call fails for that very address;    *)
(* calls failing for others, new hosts, new roles and refused additions do *)
(* not matter.                                                             *)
THEOREM BookkeepingTrueHolds == Spec /\ []OneAtATime => []BookkeepingTrue
<1>1. AloneInv => BookkeepingTrue
  <2> SUFFICES ASSUME AloneInv, AllIdle, NEW i \in Ip \ hit
               PROVE  /\ i \in routes <=> HasKey(i, prevPeers \cup prevRemotes)
                      /\ arp[i] # NoIp <=> i \in routes
                      /\ fdb[i] # NoHost <=> HasKey(i, prevPeers)
    BY DEF BookkeepingTrue
  <2>1. PICK r \in Reloader : Installed(r) /\ PeerRecords(r) = prevPeers /\ RemoteRecords(r) = prevRemotes
    BY AtRest DEF ReloadInv
  <2>2. HasKey(i, prevPeers \cup prevRemotes) <=> HasKey(i, prevPeers) \/ HasKey(i, prevRemotes)
    BY DEF HasKey
  <2>3. QED
    BY <2>1, <2>2 DEF Installed
<1>2. QED
  BY <1>1, AloneAlways, PTL

(* As long as no two Reloads overlap, every Reload that finds the link up  *)
(* leaves the kernel forwarding as the store says ("reconfigures the       *)
(* configuration with the new data", Overlay.Reload): to each peer that    *)
(* keeps its role and host through that host, to each other container that *)
(* does and whose host keeps its agent through that agent, and to nothing  *)
(* else.  Failed calls for other addresses, and new hosts, roles and       *)
(* agents of others, whether before or after, do not change that.          *)
THEOREM ReconfiguredHolds == Spec /\ []OneAtATime => []Reconfigured
<1>1. AloneInv => Reconfigured
  <2> SUFFICES ASSUME AloneInv, AllIdle, vtep = "up", ~moved
               PROVE  /\ \A e \in peers : SteadyPeer(e) /\ e.ip \notin hit =>
                           e.ip \in routes /\ arp[e.ip] = e.ip /\ fdb[e.ip] = e.host
                      /\ \A e \in remotes, a \in peers :
                           SteadyRemote(e) /\ SoleAgent(a) /\ a.host = e.host /\ {e.ip, a.ip} \cap hit = {} =>
                             e.ip \in routes /\ arp[e.ip] = a.ip
                      /\ \A i \in routes \ hit : HasKey(i, peers \cup remotes)
    BY DEF Reconfigured
  <2>1. PICK r \in Reloader : /\ TypeOK /\ RecordsOK(r) /\ Forwarded(r) /\ Installed(r) /\ Neighbours(r)
                              /\ PeerProgress(r) /\ RemoteProgress(r) /\ Finished(r)
                              /\ PeerRecords(r) = prevPeers /\ RemoteRecords(r) = prevRemotes
    BY AtRest DEF ReloadInv, RecordInv, Progress, Finished
  <2>2. prevPeers \subseteq Placed /\ prevRemotes \subseteq Placed /\ routes \subseteq Ip /\ OneEach(prevPeers)
    BY <2>1 DEF TypeOK, RecordsOK
  <2>3. /\ Kept(prevPeers, peers) /\ Kept(prevRemotes, remotes)
        /\ \A e : Wanted(e) => e \in prevPeers
        /\ \A e, a : Served(e, a) => e \in prevRemotes
    BY <2>1 DEF PeerProgress, RemoteProgress
  <2>4. /\ \A i \in Ip \ hit : /\ i \in routes <=> HasKey(i, prevPeers) \/ HasKey(i, prevRemotes)
                               /\ fdb[i] = NoHost <=> ~HasKey(i, prevPeers)
        /\ \A i \in Ip : fdb[i] # NoHost => \E e \in prevPeers : e.ip = i /\ e.host = fdb[i]
        /\ \A e \in prevPeers : e.ip \notin hit => arp[e.ip] = e.ip
        /\ \A e \in prevRemotes : e.ip \notin hit => \E f \in AllPeers : f.host = e.host /\ arp[e.ip] = f.ip
    BY <2>1 DEF Installed, Forwarded, Neighbours
  <2>5. ASSUME NEW e \in peers, SteadyPeer(e), e.ip \notin hit
        PROVE  e.ip \in routes /\ arp[e.ip] = e.ip /\ fdb[e.ip] = e.host
    <3>1. e \in prevPeers /\ e.ip \in Ip /\ HasKey(e.ip, prevPeers)
      BY <2>5, <2>2, <2>3, PlacedParts DEF Wanted, HasKey
    <3>2. PICK f \in prevPeers : f.ip = e.ip /\ f.host = fdb[e.ip]
      BY <3>1, <2>4, <2>5
    <3>3. QED
      BY <3>1, <3>2, <2>2, <2>4, <2>5 DEF OneEach
  <2>6. ASSUME NEW e \in remotes, NEW a \in peers, SteadyRemote(e), SoleAgent(a), a.host = e.host,
               {e.ip, a.ip} \cap hit = {}
        PROVE  e.ip \in routes /\ arp[e.ip] = a.ip
    <3>1. e \in prevRemotes /\ e.ip \in Ip /\ e.ip \notin hit /\ HasKey(e.ip, prevRemotes)
      BY <2>6, <2>2, <2>3, PlacedParts DEF Served, HasKey
    <3>2. PICK f \in AllPeers : f.host = e.host /\ arp[e.ip] = f.ip
      BY <3>1, <2>4
    <3>3. f = a
      BY <3>2, <2>6 DEF SoleAgent, AllPeers
    <3>4. QED
      BY <3>1, <3>2, <3>3, <2>4
  <2>7. ASSUME NEW i \in routes \ hit PROVE HasKey(i, peers \cup remotes)
    BY <2>2, <2>3, <2>4 DEF Kept, HasKey
  <2>8. QED
    BY <2>5, <2>6, <2>7
<1>2. QED
  BY <1>1, AloneAlways, PTL

=============================================================================
