------------------------- MODULE ConnectivityCheck -------------------------
(***************************************************************************)
(* The connectivity-check sidecar, connectivitycheck/checker.go: the watch *)
(* goroutine that follows the metadata, one goroutine per peer container   *)
(* that probes it, the HTTP handlers, and the wait for the port that the   *)
(* previous sidecar still holds.                                           *)
(*                                                                         *)
(* A peer object is named by the container's uuid and a slot, so that the  *)
(* object of a container that left the metadata and the new object of the  *)
(* same container when it came back can be alive together.  time.Since(    *)
(* lastChecked) < checkInterval is the flag fresh, cleared by Elapse.      *)
(***************************************************************************)
EXTENDS Naturals, FiniteSets

CONSTANTS
  Uuid,        \* containers of the overlay's service on other hosts
  Slot,        \* bound: objects of one container alive at the same time
  Host, Ip,    \* other hosts; primary addresses
  Doc,         \* documents the metadata service may serve
  NoPeer,
  Outage,      \* may the metadata stay unreadable for ever?
  MaxPoll,     \* polls of an occupied port before the deadline
  MaxChange,   \* bound on changes of the metadata and of the network
  MaxFault     \* bound on failed requests and lost probes

Obj  == Uuid \X Slot
Full == 3      \* the cap of peer.count
Peer == [uuid: Uuid, host: Host, ip: Ip, running: BOOLEAN]

(* One container per uuid, as in the service's container list.  enabled:   *)
(* the overlay's own service is active and asks for the check; active: the *)
(* connectivity-check service is active, and checks are the hosts of its   *)
(* containers.                                                             *)
ASSUME CheckDocAssumption ==
  \A d \in Doc :
    /\ d \in [hosts: SUBSET Host, peers: SUBSET Peer, enabled: BOOLEAN,
              checks: SUBSET Host, active: BOOLEAN]
    /\ \A p, q \in d.peers : p.uuid = q.uuid => p = q

ASSUME CheckBoundAssumption ==
  /\ NoPeer \notin Slot /\ NoPeer \notin Obj /\ Outage \in BOOLEAN
  /\ MaxPoll \in Nat /\ MaxChange \in Nat /\ MaxFault \in Nat

VARIABLES
  doc, answers, calls,     \* the metadata; addresses that answer /ping; addresses whose pings get here
  life, prior, polls,      \* listening?; does the previous sidecar hold the port?; polls left
  watch, got,              \* requests made by the running getMetadataSnapshot and what they returned
  peers, byIp, ok,         \* checker.peers/peersByIP/ok
  obj,                     \* the peer objects and their goroutines
  inbound,                 \* the object a /ping handler has looked up and not credited yet
  changes, faults

vars == <<doc, answers, calls, life, prior, polls, watch, got, peers, byIp, ok, obj, inbound,
          changes, faults>>
envVars   == <<doc, answers, calls, prior, changes>>
watchVars == <<watch, got, peers, byIp, ok>>

NoGot  == [hosts |-> {}, peers |-> {}, enabled |-> FALSE]
NoObj  == [run |-> "none", ip |-> NoPeer, to |-> NoPeer, consider |-> FALSE, count |-> 0,
           fresh |-> FALSE, stopped |-> FALSE]

Fault   == faults > 0 /\ faults' = faults - 1
NoFault == UNCHANGED faults
MetadataFails == (Outage /\ NoFault) \/ Fault

Serving == life = "serving"

Init ==
  /\ doc \in Doc /\ answers = Ip /\ calls = Ip
  /\ life = "binding" /\ prior \in BOOLEAN /\ polls = MaxPoll
  /\ watch = "idle" /\ got = NoGot
  /\ peers = [u \in Uuid |-> NoPeer] /\ byIp = [i \in Ip |-> NoPeer] /\ ok = TRUE
  /\ obj = [o \in Obj |-> NoObj] /\ inbound = NoPeer
  /\ changes = MaxChange /\ faults = MaxFault

-----------------------------------------------------------------------------
(* The environment.  An address may become reachable in one direction      *)
(* only.                                                                   *)

ChangeDoc ==
  /\ changes > 0 /\ changes' = changes - 1
  /\ doc' \in Doc \ {doc}
  /\ UNCHANGED <<answers, calls, life, prior, polls, watchVars, obj, inbound, faults>>

ChangeNetwork ==
  /\ changes > 0 /\ changes' = changes - 1
  /\ \E i \in Ip : /\ answers' \in {answers \cup {i}, answers \ {i}}
                   /\ calls' \in {calls \cup {i}, calls \ {i}}
  /\ <<answers', calls'>> # <<answers, calls>>
  /\ UNCHANGED <<doc, life, prior, polls, watchVars, obj, inbound, faults>>

PriorLeaves ==
  /\ prior /\ prior' = FALSE
  /\ UNCHANGED <<doc, answers, calls, life, polls, watchVars, obj, inbound, changes, faults>>

-----------------------------------------------------------------------------
(* Mutant: the deadline is not checked, the port is polled for ever.       *)
ListenForever ==
  /\ life = "binding"
  /\ life' = IF prior THEN "binding" ELSE "serving"
  /\ UNCHANGED <<envVars, polls, watchVars, obj, inbound, faults>>

(* listenWithPortHandoff: wait while the port is in use and the deadline   *)
(* is ahead; any other error, or the deadline, ends the process.           *)
Listen ==
  /\ life = "binding"
  /\ \/ ~prior /\ life' = "serving" /\ NoFault /\ UNCHANGED polls
     \/ prior /\ polls > 0 /\ polls' = polls - 1 /\ NoFault /\ UNCHANGED life
     \/ prior /\ polls = 0 /\ life' = "failed" /\ NoFault /\ UNCHANGED polls
     \/ Fault /\ life' = "failed" /\ UNCHANGED polls
  /\ UNCHANGED <<envVars, watchVars, obj, inbound>>

-----------------------------------------------------------------------------
(* watch: getMetadataSnapshot makes four requests, and the document may    *)
(* change between them.  A failed one ends the round: the peers and the    *)
(* verdict stay as they are.                                               *)

RequestFails ==
  /\ MetadataFails /\ watch' = "idle" /\ got' = NoGot
  /\ UNCHANGED <<peers, byIp, ok, obj>>

(* /self/host and /hosts                                                   *)
ReadHosts ==
  /\ Serving /\ watch = "idle"
  /\ \/ RequestFails
     \/ /\ NoFault /\ watch' = "hosts" /\ got' = [NoGot EXCEPT !.hosts = doc.hosts]
        /\ UNCHANGED <<peers, byIp, ok, obj>>
  /\ UNCHANGED <<envVars, life, polls, inbound>>

(* /self/service: the containers of this service on other hosts, its state *)
(* and its flag                                                            *)
ReadService ==
  /\ Serving /\ watch = "hosts"
  /\ \/ RequestFails
     \/ /\ NoFault /\ watch' = "service"
        /\ got' = [got EXCEPT !.peers = doc.peers, !.enabled = doc.enabled]
        /\ UNCHANGED <<peers, byIp, ok, obj>>
  /\ UNCHANGED <<envVars, life, polls, inbound>>

FreeSlot(u) == CHOOSE s \in Slot : obj[<<u, s>>].run = "none"

(* peer.consider on the data doWork has just given the peer.               *)
Considered(p, checks) == p.running /\ p.host \in got.hosts /\ p.host \in checks

(* Mutant: a kept peer stays in the old map and is taken for a vanished    *)
(* one.                                                                    *)
StaleObjectsAll == {o \in Obj : peers[o[1]] = o[2]}

(* The objects of the old map that the snapshot does not name.             *)
StaleObjects == {o \in Obj : peers[o[1]] = o[2] /\ \A p \in got.peers : p.uuid # o[1]}

(* The own service, as /self/service gave it, is active and asks for the   *)
(* check, and the checking service is active in /services.                 *)
ShouldConsider == got.enabled /\ doc.active

(* computeOK over peersByIP                                                *)
ComputeOk(map, object) ==
  ShouldConsider => \A i \in Ip : map[i] # NoPeer =>
    (object[map[i]].consider => object[map[i]].count > 0)

(* /services and then doWork's critical section.  Nothing of this process  *)
(* depends on when the last answer came, so both are one step; the locks   *)
(* computeOK takes one after the other are taken together here.  A         *)
(* container whose uuid is new gets a new object and a goroutine; two      *)
(* containers with one address compete for its place in peersByIP.         *)
Refresh ==
  LET slot == [u \in Uuid |-> IF \A p \in got.peers : p.uuid # u THEN NoPeer
                              ELSE IF peers[u] # NoPeer THEN peers[u] ELSE FreeSlot(u)]
      of(p) == <<p.uuid, slot[p.uuid]>>
      given == {of(p) : p \in got.peers}
      data(o) == CHOOSE p \in got.peers : of(p) = o
      told == [o \in Obj |-> [obj[o] EXCEPT !.stopped = @ \/ o \in StaleObjects]]
      object == [o \in Obj |->
        IF o \in given
        THEN [told[o] EXCEPT !.run = IF @ = "none" THEN "sleep" ELSE @, !.ip = data(o).ip,
                             !.consider = Considered(data(o), doc.checks)]
        ELSE told[o]]
  IN
  /\ \A p \in got.peers : peers[p.uuid] # NoPeer \/ \E s \in Slot : obj[<<p.uuid, s>>].run = "none"
  /\ NoFault /\ watch' = "idle" /\ got' = NoGot
  /\ peers' = slot /\ obj' = object
  /\ byIp' \in {f \in [Ip -> given \cup {NoPeer}] :
                  \A i \in Ip : IF \E o \in given : object[o].ip = i
                                THEN f[i] \in given /\ object[f[i]].ip = i ELSE f[i] = NoPeer}
  /\ ok' = ComputeOk(byIp', object)

ReadServices ==
  /\ Serving /\ watch = "service"
  /\ RequestFails \/ Refresh
  /\ UNCHANGED <<envVars, life, polls, inbound>>

-----------------------------------------------------------------------------
(* A peer's goroutine: run and peer.doWork.                                *)

(* Mutants: a failed probe leaves the count alone; so does a successful    *)
(* one; the count is not capped.                                           *)
FailureForgiven(p)  == [p EXCEPT !.fresh = TRUE]
SuccessIgnored(p)   == [p EXCEPT !.fresh = TRUE]
SuccessUncapped(p)  == [p EXCEPT !.count = @ + 1, !.fresh = TRUE]

UpdateSuccess(p) == [p EXCEPT !.count = IF @ < Full THEN @ + 1 ELSE @, !.fresh = TRUE]
UpdateFailure(p) == [p EXCEPT !.count = IF @ > 0 THEN @ - 1 ELSE @, !.fresh = TRUE]

(* The unlocked part of doWork begins; the address is read before it.  A   *)
(* wake-up that finds the check fresh, or the peer not to be considered,   *)
(* changes nothing.  The test of p.stop just before commutes with this.    *)
ProbeStart(o) ==
  /\ obj[o].run = "sleep" /\ ~obj[o].stopped /\ obj[o].consider /\ ~obj[o].fresh
  /\ obj' = [obj EXCEPT ![o].run = "probe", ![o].to = obj[o].ip]
  /\ UNCHANGED <<envVars, life, polls, watchVars, inbound, faults>>

(* The object whose count an answer to o's probe changes.                  *)
(* Mutant: the current object of the same container.                       *)
CreditedByUuid(o) == IF peers[o[1]] = NoPeer THEN o ELSE <<o[1], peers[o[1]]>>

Credited(o) == o

(* isReachable: a probe gets the expected answer, unless it is lost.       *)
IsReachable(ip) == ip \in answers

(* isReachable has returned: the answer, or a refusal, timeout or wrong    *)
(* reply, which a reachable address may produce too.                       *)
ProbeEnd(o) ==
  LET idle == [obj EXCEPT ![o].run = "sleep", ![o].to = NoPeer] IN
  /\ obj[o].run = "probe"
  /\ \/ /\ IsReachable(obj[o].to) /\ NoFault
        /\ obj' = [idle EXCEPT ![Credited(o)] = UpdateSuccess(@)]
     \/ /\ IF IsReachable(obj[o].to) THEN Fault ELSE NoFault
        /\ obj' = [idle EXCEPT ![Credited(o)] = UpdateFailure(@)]
  /\ UNCHANGED <<envVars, life, polls, watchVars, inbound>>

(* checkInterval has passed since lastChecked.                             *)
Elapse(o) ==
  /\ obj[o].fresh /\ obj' = [obj EXCEPT ![o].fresh = FALSE]
  /\ UNCHANGED <<envVars, life, polls, watchVars, inbound, faults>>

(* Mutant: p.stop is looked at only where a peer is not considered.        *)
ReturnUnconsidered(o) ==
  /\ obj[o].run = "sleep" /\ obj[o].stopped /\ ~obj[o].consider /\ inbound # o
  /\ obj' = [obj EXCEPT ![o] = NoObj]
  /\ UNCHANGED <<envVars, life, polls, watchVars, inbound, faults>>

(* run sees p.stop closed and returns; the object is garbage once no /ping *)
(* handler holds it.                                                       *)
Return(o) ==
  /\ obj[o].run = "sleep" /\ obj[o].stopped /\ inbound # o
  /\ obj' = [obj EXCEPT ![o] = NoObj]
  /\ UNCHANGED <<envVars, life, polls, watchVars, inbound, faults>>

(* The /ping handler finds the sender under the checker's lock ...         *)
Ping(i) ==
  /\ Serving /\ i \in calls /\ inbound = NoPeer /\ byIp[i] # NoPeer
  /\ inbound' = byIp[i]
  /\ UNCHANGED <<envVars, life, polls, watchVars, obj, faults>>

(* ... and credits it after giving the lock up.                            *)
PingDone ==
  /\ inbound # NoPeer /\ inbound' = NoPeer
  /\ obj' = [obj EXCEPT ![inbound] = UpdateSuccess(@)]
  /\ UNCHANGED <<envVars, life, polls, watchVars, faults>>

(* A process that could not listen has ended.                              *)
Ended == life = "failed" /\ UNCHANGED vars

WatchStep == ReadHosts \/ ReadService \/ ReadServices
PeerStep(o) == ProbeStart(o) \/ ProbeEnd(o) \/ Elapse(o) \/ Return(o)

Next ==
  \/ ChangeDoc \/ ChangeNetwork \/ PriorLeaves \/ Listen \/ WatchStep \/ PingDone \/ Ended
  \/ \E o \in Obj : PeerStep(o)
  \/ \E i \in Ip : Ping(i)

(* The runtime schedules every goroutine, time passes, and a probe ends    *)
(* within connectionTimeout.  Nothing obliges the peers to call.           *)
Fairness ==
  /\ WF_vars(Listen) /\ WF_vars(WatchStep) /\ WF_vars(PingDone)
  /\ \A o \in Obj : WF_vars(ProbeStart(o)) /\ WF_vars(ProbeEnd(o)) /\ WF_vars(Elapse(o))
                    /\ WF_vars(Return(o))

Spec     == Init /\ [][Next]_vars
FairSpec == Spec /\ Fairness

-----------------------------------------------------------------------------
ObjOK(p) ==
  /\ p.run \in {"none", "sleep", "probe"} /\ p.ip \in Ip \cup {NoPeer} /\ p.to \in Ip \cup {NoPeer}
  /\ p.consider \in BOOLEAN /\ p.count \in 0..Full /\ p.fresh \in BOOLEAN /\ p.stopped \in BOOLEAN

(* Type invariant of the checker, its peers and its environment.           *)
TypeOK ==
  /\ doc \in Doc /\ answers \in SUBSET Ip /\ calls \in SUBSET Ip
  /\ life \in {"binding", "serving", "failed"} /\ prior \in BOOLEAN /\ polls \in 0..MaxPoll
  /\ watch \in {"idle", "hosts", "service"}
  /\ got.hosts \in SUBSET Host /\ got.peers \in SUBSET Peer /\ got.enabled \in BOOLEAN
  /\ peers \in [Uuid -> Slot \cup {NoPeer}] /\ byIp \in [Ip -> Obj \cup {NoPeer}] /\ ok \in BOOLEAN
  /\ \A o \in Obj : ObjOK(obj[o])
  /\ inbound \in Obj \cup {NoPeer}
  /\ changes \in 0..MaxChange /\ faults \in 0..MaxFault

(* Every container the checker knows is probed by exactly one goroutine    *)
(* that nobody has told to stop, every other goroutine has been told, and  *)
(* the address index only leads to known containers.  checker.go:247-278.  *)
OneProbePerPeer ==
  /\ \A o \in Obj : (peers[o[1]] = o[2]) <=> (obj[o].run # "none" /\ ~obj[o].stopped)
  /\ \A i \in Ip : byIp[i] # NoPeer => peers[byIp[i][1]] = byIp[i][2]

(* A container that left and came back has to prove itself again: what a   *)
(* goroutine or a /ping handler of the old object still brings in changes  *)
(* no count but the old object's.  checker.go:249-258, 302-315, 341-362.   *)
LateAnswersStayBehind ==
  [][\A o \in Obj : obj'[o].count # obj[o].count =>
       \/ obj[o].run = "probe" /\ obj'[o].run = "sleep"
       \/ inbound = o /\ inbound' # o
       \/ obj[o].stopped /\ obj'[o].run = "none"]_vars

(* What the document says should be checked, and what the network allows.  *)
Open == Serving /\ doc.enabled /\ doc.active
InCheck(p) == p.running /\ p.host \in doc.hosts /\ p.host \in doc.checks
Dead(i) == /\ i \notin answers /\ i \notin calls
           /\ \E p \in doc.peers : p.ip = i
           /\ \A p \in doc.peers : p.ip = i => InCheck(p)

(* If an address whose containers should all be checked stays silent for   *)
(* good, /connectivity says NOT OK for good: neither hysteresis, earlier   *)
(* successes, half-read documents nor the skipping of fresh checks hide    *)
(* it.  Needs the metadata to become readable again.  checker.go:240-300,  *)
(* 341-401.                                                                *)
SilenceReported == \A i \in Ip : <>[](Open /\ Dead(i)) => <>[]~ok

(* If every address that should be checked answers for good, the verdict   *)
(* becomes OK for good, whatever failures came before.                     *)
HealthReported ==
  <>[](Serving /\ \A p \in doc.peers : InCheck(p) => p.ip \in answers) => <>[]ok

(* A goroutine that has been told to stop ends: churn leaks no goroutine.  *)
(* checker.go:270, 329-339.                                                *)
StoppedGoroutinesEnd == \A o \in Obj : obj[o].stopped ~> obj[o].run = "none"

(* The wait for the port ends, with the port or with an error, even if the *)
(* previous sidecar never leaves.  checker.go:201-226.                     *)
BindingEnds == <>(life # "binding")

=============================================================================
