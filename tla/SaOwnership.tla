---------------------------- MODULE SaOwnership ----------------------------
(***************************************************************************)
(* Which security associations the IPsec overlay may end, and when:        *)
(* addHostConnection, loadHostConnection, reapStaleLocalSAs,               *)
(* restartForStalePeerIdentities and removeHosts, run by one configure     *)
(* after the other while this host's address changes, peers are replaced,  *)
(* leave and return, and charon and the process die and come back.  Module *)
(* IpsecConfigure models the rest of configure and leaves the SAs out.     *)
(*                                                                         *)
(* The overlay runs with host tunnels, so both addresses of a fingerprint  *)
(* are the store's local host address, read at two moments.  An SA is told *)
(* apart by its peer, its local address, the identity the peer presented   *)
(* and whether it has the name, children and reqid of a connection of this *)
(* overlay; charon's unique ids are unique.                                *)
(***************************************************************************)
EXTENDS Naturals, FiniteSets

CONSTANTS
  Peer,        \* other hosts, by address
  Addr,        \* addresses this host may have
  Id,          \* overlay addresses a peer's agent may have
  NoAddr,      \* no connection, no address
  NoId,        \* the identity of a peer that the metadata does not list
  Nobody,      \* no peer
  Found,       \* a connection that was there when the process started
  MaxChange,   \* bound on changes of addresses and identities
  MaxFault     \* bound on failing requests and crashes

(* A peer presents its own host address or its agent's overlay address.    *)
Identity == Peer \cup Id
Sa == [peer: Peer, local: Addr, id: Identity, ours: BOOLEAN]

(* What a fingerprint says of this host: the agent address and the address *)
(* the connection is tied to.                                              *)
Fingerprint == [agent: Addr, tunnel: Addr]

ASSUME OwnershipAssumption ==
  /\ NoAddr \notin Addr \cup Fingerprint /\ Found \notin Fingerprint /\ NoAddr # Found
  /\ Nobody \notin Peer /\ NoId \notin Identity
  /\ Peer \cap Id = {} /\ MaxChange \in Nat /\ MaxFault \in Nat

VARIABLES
  addr, listed, real,         \* the store's local host address and peers with their identities; what the peers really present
  proc, due,                  \* "up" or "down"; is a Reload due?
  hosts, staleLocal,          \* Overlay.hosts and Overlay.staleLocal
  charon, conns, sas,         \* "up" or "dead"; local address of each loaded connection; the SAs
  phase, todo, cur, agent,    \* the running configure: step, peers to work on, the one worked on and the address read for it,
  attempt, done, victims,     \*   Overlay.hostAttempt, peers loaded, SAs to end
  last,                       \* outcome of the last configure
  past, moved, doubt, torn,   \* history: see below
  changes, faults

(* History.  past: the addresses this process loaded for a peer and answers *)
(* for.  moved: has addr been replaced since the pass began?  doubt: the    *)
(* addresses whose load went unanswered.  torn: the addresses of            *)
(* fingerprints whose two reads disagreed.  An address leaves doubt and     *)
(* torn when a whole load of it is answered.                                *)
history == <<past, doubt, torn>>

vars == <<addr, listed, real, proc, due, hosts, staleLocal, charon, conns, sas, phase, todo, cur, agent,
          attempt, done, victims, last, past, moved, doubt, torn, changes, faults>>
envVars   == <<addr, listed, real, changes>>
cacheVars == <<hosts, staleLocal, history>>
passVars  == <<phase, todo, cur, agent, attempt, done, victims, last>>

Fault   == faults > 0 /\ faults' = faults - 1
NoFault == UNCHANGED faults

None == [p \in Peer |-> {}]

Init ==
  /\ addr \in Addr /\ listed \in [Peer -> Id] /\ real = listed
  /\ proc = "up" /\ due = TRUE
  /\ hosts = [p \in Peer |-> NoAddr] /\ staleLocal = None
  /\ charon = "up" /\ conns = [p \in Peer |-> NoAddr] /\ sas = {}
  /\ phase = "idle" /\ todo = {} /\ cur = Nobody /\ agent = NoAddr
  /\ attempt = {} /\ done = {} /\ victims = {} /\ last = "none"
  /\ past = None /\ moved = TRUE /\ doubt = None /\ torn = None
  /\ changes = MaxChange /\ faults = MaxFault

-----------------------------------------------------------------------------
(* Metadata and peers.  A change of the metadata makes a Reload due.       *)

Change == changes > 0 /\ changes' = changes - 1

MoveAddr ==
  /\ Change /\ addr' \in Addr \ {addr} /\ moved' = TRUE /\ due' = TRUE
  /\ UNCHANGED <<listed, real, proc, cacheVars, charon, conns, sas, passVars, faults>>

(* The agent of a peer is replaced, or the peer leaves; a peer that has    *)
(* left returns.                                                           *)
ListPeer(p) ==
  /\ IF listed[p] = NoId THEN UNCHANGED changes ELSE Change
  /\ \E i \in (Id \cup {NoId}) \ {listed[p]} : listed' = [listed EXCEPT ![p] = i]
  /\ due' = TRUE
  /\ UNCHANGED <<addr, real, proc, cacheVars, charon, conns, sas, passVars, moved, faults>>

ReplacePeer(p) ==
  /\ Change /\ \E i \in ({p} \cup Id) \ {real[p]} : real' = [real EXCEPT ![p] = i]
  /\ UNCHANGED <<addr, listed, proc, due, cacheVars, charon, conns, sas, passVars, moved, faults>>

(* charon: an SA of a loaded connection comes up, from either side; one of *)
(* somebody else's connections does; an SA ends.                           *)
Establish(p) ==
  /\ charon = "up" /\ conns[p] # NoAddr
  /\ sas' = sas \cup {[peer |-> p, local |-> conns[p], id |-> real[p], ours |-> TRUE]}
  /\ UNCHANGED <<envVars, proc, due, cacheVars, charon, conns, passVars, moved, faults>>

EstablishForeign(p) ==
  /\ charon = "up" /\ Change
  /\ \E a \in Addr : sas' = sas \cup {[peer |-> p, local |-> a, id |-> p, ours |-> FALSE]}
  /\ UNCHANGED <<addr, listed, real, proc, due, cacheVars, charon, conns, passVars, moved, faults>>

Expire ==
  /\ \E s \in sas : sas' = sas \ {s}
  /\ UNCHANGED <<envVars, proc, due, cacheVars, charon, conns, passVars, moved, faults>>

-----------------------------------------------------------------------------
(* configure                                                               *)

Begin ==
  /\ proc = "up" /\ phase = "idle" /\ last # "fatal" /\ due /\ due' = FALSE
  /\ phase' = "load" /\ todo' = {p \in Peer : listed[p] # NoId}
  /\ attempt' = {} /\ done' = {} /\ moved' = FALSE
  /\ UNCHANGED <<envVars, proc, cacheVars, charon, conns, sas, cur, agent, victims, last, faults>>

(* appMain returns if the first Reload of the process fails.               *)
End(outcome) ==
  /\ phase' = "idle" /\ todo' = {} /\ attempt' = {} /\ done' = {} /\ victims' = {}
  /\ last' = (IF outcome = "err" /\ last = "none" THEN "fatal" ELSE outcome)
  /\ UNCHANGED <<cur, agent>>

(* addHostConnection reads the agent address ...                           *)
ReadAgent(p) ==
  /\ proc = "up" /\ phase = "load" /\ cur = Nobody /\ p \in todo
  /\ todo' = todo \ {p} /\ cur' = p /\ agent' = addr /\ attempt' = attempt \cup {p}
  /\ UNCHANGED <<envVars, proc, due, cacheVars, charon, conns, sas, phase, done, victims, last, moved,
                 faults>>

(* Mutant: what cannot be parsed has the empty address.                    *)
QueuedUnparsed(old, new) == IF old = Found THEN {NoAddr} ELSE {}

(* The address a completed load hands to the reaper: the agent address of  *)
(* an earlier load by this process that was also its tunnel address, if    *)
(* the agent address has changed.                                          *)
Queued(old, new) ==
  IF old \in Fingerprint /\ old.agent # new.agent /\ old.tunnel = old.agent THEN {old.agent} ELSE {}

Loaded(p, new) ==
  /\ NoFault /\ done' = done \cup {p}
  /\ conns' = [conns EXCEPT ![p] = new.tunnel]
  /\ staleLocal' = [staleLocal EXCEPT ![p] = @ \cup Queued(hosts[p], new)]
  /\ hosts' = [hosts EXCEPT ![p] = new]
  /\ past' = [past EXCEPT ![p] = @ \cup {new.tunnel}]
  /\ doubt' = [doubt EXCEPT ![p] = @ \ {new.tunnel}]
  /\ torn' = [torn EXCEPT ![p] = IF new.agent = new.tunnel THEN @ \ {new.tunnel}
                                                         ELSE @ \cup {new.agent, new.tunnel}]

(* ... and then the tunnel address; loadHostConnection: nothing to do,     *)
(* loaded, or refused three times, with charon perhaps having obeyed.      *)
Load(p) ==
  LET new == [agent |-> agent, tunnel |-> addr] IN
  /\ proc = "up" /\ phase = "load" /\ cur = p /\ cur' = Nobody /\ agent' = NoAddr
  /\ \/ hosts[p] = new /\ done' = done \cup {p} /\ NoFault /\ UNCHANGED <<conns, cacheVars>>
     \/ hosts[p] # new /\ charon = "up" /\ Loaded(p, new)
     \/ /\ hosts[p] # new /\ UNCHANGED <<done, hosts, staleLocal, past, torn>>
        /\ \/ charon = "dead" /\ NoFault /\ UNCHANGED <<conns, doubt>>
           \/ Fault /\ UNCHANGED <<conns, doubt>>
           \/ /\ Fault /\ charon = "up" /\ conns' = [conns EXCEPT ![p] = addr]
              /\ doubt' = [doubt EXCEPT ![p] = @ \cup {addr}]
  /\ UNCHANGED <<envVars, proc, due, charon, sas, phase, todo, attempt, victims, last, moved>>

LoopOver == proc = "up" /\ phase = "load" /\ cur = Nobody /\ todo = {}

(* A host that could not be loaded makes the pass fail before it reaps.    *)
LoadFailed ==
  /\ LoopOver /\ done # attempt /\ End("err")
  /\ UNCHANGED <<envVars, proc, due, cacheVars, charon, conns, sas, moved, faults>>

(* Mutant: the address in use is not spared.                               *)
StaleLocalAny == {s \in sas : s.ours /\ s.peer \in done /\ s.local \in staleLocal[s.peer]}

(* staleLocalIKEIDs                                                        *)
StaleLocal ==
  {s \in sas : s.ours /\ s.peer \in done /\ s.local \in staleLocal[s.peer] /\ s.local # addr}

(* ListSas of reapStaleLocalSAs, skipped when nothing is queued; it, or    *)
(* one of the steps between the loop and it, may fail.                     *)
ReapList ==
  /\ LoopOver /\ done = attempt
  /\ \/ /\ charon = "up" \/ staleLocal = None
        /\ NoFault /\ phase' = "reap" /\ victims' = StaleLocal
        /\ UNCHANGED <<todo, cur, agent, attempt, done, last>>
     \/ charon = "dead" /\ staleLocal # None /\ NoFault /\ End("err")
     \/ Fault /\ End("err")
  /\ UNCHANGED <<envVars, proc, due, cacheVars, charon, conns, sas, moved>>

(* terminateIKEID: an SA that is gone already is no error.                 *)
Terminate ==
  /\ proc = "up" /\ phase = "reap"
  /\ \E s \in victims :
       \/ /\ charon = "up" /\ NoFault
          /\ sas' = sas \ {s} /\ victims' = victims \ {s}
          /\ UNCHANGED <<phase, todo, cur, agent, attempt, done, last>>
       \/ /\ IF charon = "dead" THEN NoFault ELSE Fault
          /\ End("err") /\ UNCHANGED sas
  /\ UNCHANGED <<envVars, proc, due, cacheVars, charon, conns, moved>>

Consumed(queue) == [p \in Peer |-> IF p \in done THEN {} ELSE queue[p]]

(* Mutant: the queue is emptied before the SAs have been ended.            *)
ReapEndsEarly ==
  /\ proc = "up" /\ phase = "reap" /\ phase' = "peers"
  /\ staleLocal' = Consumed(staleLocal)
  /\ UNCHANGED <<envVars, proc, due, hosts, history, charon, conns, sas, todo, cur, agent, attempt, done,
                 victims, last, moved, faults>>

(* Only after every termination has succeeded is the queue emptied.  It is *)
(* emptied even if the host has moved back meanwhile and the SAs of a      *)
(* queued address were spared: past then gives the queued addresses up.    *)
ReapEnd ==
  /\ proc = "up" /\ phase = "reap" /\ victims = {} /\ phase' = "peers"
  /\ staleLocal' = Consumed(staleLocal)
  /\ past' = [p \in Peer |-> IF moved /\ p \in done THEN past[p] \ (staleLocal[p] \ {hosts[p].tunnel})
                                                 ELSE past[p]]
  /\ UNCHANGED <<envVars, proc, due, hosts, doubt, torn, charon, conns, sas, todo, cur, agent, attempt, done,
                 victims, last, moved, faults>>

(* Mutant: a peer is expected to present its overlay address only.         *)
OverlayIdentity(p) == {listed[p]}

(* expectedPeerIdentitiesByHost                                            *)
ExpectedIdentities(p) == {p, listed[p]}

(* The SAs whose children are named for a listed peer that should not      *)
(* present their identity.                                                 *)
StalePeers == {s \in sas : s.ours /\ listed[s.peer] # NoId /\ s.id \notin ExpectedIdentities(s.peer)}

CharonDead == charon' = "dead" /\ sas' = {} /\ conns' = [p \in Peer |-> NoAddr]

(* The hosts in o.hosts that the pass did not attempt.                     *)
Leavers == {p \in Peer : hosts[p] # NoAddr /\ p \notin attempt}

(* restartForStalePeerIdentities: with no peer listed nothing is asked;    *)
(* one stale SA and charon is killed (if its pid file can be read), and    *)
(* the pass fails either way.                                              *)
CheckPeers ==
  /\ proc = "up" /\ phase = "peers"
  /\ \/ /\ (charon = "up" /\ StalePeers = {}) \/ \A p \in Peer : listed[p] = NoId
        /\ NoFault /\ phase' = "remove" /\ todo' = Leavers
        /\ UNCHANGED <<cur, agent, attempt, done, victims, last, charon, conns, sas>>
     \/ /\ charon = "up" /\ StalePeers # {} /\ NoFault /\ End("err") /\ CharonDead
     \/ /\ \E p \in Peer : listed[p] # NoId
        /\ IF charon = "dead" THEN NoFault ELSE Fault
        /\ End("err") /\ UNCHANGED <<charon, conns, sas>>
  /\ UNCHANGED <<envVars, proc, due, cacheVars, moved>>

(* Without its connection a peer is forgotten, and with it the authority   *)
(* to end its SAs.                                                         *)
Forgotten(p) ==
  /\ hosts' = [hosts EXCEPT ![p] = NoAddr] /\ staleLocal' = [staleLocal EXCEPT ![p] = {}]
  /\ past' = [past EXCEPT ![p] = {}] /\ doubt' = [doubt EXCEPT ![p] = {}]
  /\ torn' = [torn EXCEPT ![p] = {}]

(* removeHosts: unloading fails if charon is gone, does not have the       *)
(* connection or refuses, and it may have obeyed.  The SAs stay.           *)
RemoveHost(p) ==
  /\ proc = "up" /\ phase = "remove" /\ p \in todo /\ todo' = todo \ {p}
  /\ \/ /\ conns[p] # NoAddr /\ NoFault
        /\ conns' = [conns EXCEPT ![p] = NoAddr] /\ Forgotten(p)
     \/ conns[p] = NoAddr /\ NoFault /\ UNCHANGED <<conns, cacheVars>>
     \/ conns[p] # NoAddr /\ Fault /\ conns' \in {conns, [conns EXCEPT ![p] = NoAddr]} /\ UNCHANGED cacheVars
  /\ UNCHANGED <<envVars, proc, due, charon, sas, phase, cur, agent, attempt, done, victims, last, moved>>

(* The end of configure: nil unless a host could not be removed.           *)
RemoveEnd ==
  /\ proc = "up" /\ phase = "remove" /\ todo = {}
  /\ IF Leavers = {} THEN End("nil") ELSE End("err")
  /\ UNCHANGED <<envVars, proc, due, cacheVars, charon, conns, sas, moved, faults>>

(* charon dies by itself, or is killed because it does not answer.         *)
CharonDies ==
  /\ charon = "up" /\ Fault /\ CharonDead
  /\ UNCHANGED <<envVars, proc, due, cacheVars, passVars, moved>>

(* The process ends because charon is gone or its first Reload failed, or  *)
(* crashes by itself; a charon it does not launch survives it.             *)
Doomed == charon = "dead" \/ last = "fatal"

Exit ==
  /\ proc = "up" /\ proc' = "down"
  /\ IF Doomed THEN NoFault ELSE Fault
  /\ hosts' = [p \in Peer |-> NoAddr] /\ staleLocal' = None
  /\ phase' = "idle" /\ todo' = {} /\ cur' = Nobody /\ agent' = NoAddr
  /\ attempt' = {} /\ done' = {} /\ victims' = {} /\ last' = "none"
  /\ past' = None /\ moved' = TRUE /\ doubt' = None /\ torn' = None
  /\ UNCHANGED <<envVars, due, charon, conns, sas>>

(* Start: a new charon if there is none, loadConns, and the first Reload.  *)
Boot ==
  /\ proc = "down" /\ proc' = "up" /\ charon' = "up" /\ due' = TRUE
  /\ hosts' = [p \in Peer |-> IF conns[p] = NoAddr THEN NoAddr ELSE Found]
  /\ UNCHANGED <<envVars, staleLocal, history, conns, sas, passVars, moved, faults>>

PassStep ==
  \/ LoadFailed \/ ReapList \/ Terminate \/ ReapEnd \/ CheckPeers \/ RemoveEnd
  \/ \E p \in Peer : ReadAgent(p) \/ Load(p) \/ RemoveHost(p)

Next ==
  \/ MoveAddr \/ Expire \/ Begin \/ PassStep \/ CharonDies \/ Exit \/ Boot
  \/ \E p \in Peer : ListPeer(p) \/ ReplacePeer(p) \/ Establish(p) \/ EstablishForeign(p)

(* A due Reload and a running pass go on, a process that must end does,    *)
(* and the supervisor starts it again.  Nothing makes an SA come up or go. *)
Fairness == WF_vars(Begin) /\ WF_vars(PassStep) /\ WF_vars(Doomed /\ Exit) /\ WF_vars(Boot)

Spec     == Init /\ [][Next]_vars
FairSpec == Spec /\ Fairness

-----------------------------------------------------------------------------
(* Type invariant of the overlay's bookkeeping, charon and the pass.       *)
TypeOK ==
  /\ addr \in Addr /\ listed \in [Peer -> Id \cup {NoId}] /\ real \in [Peer -> Identity]
  /\ \A p \in Peer : real[p] \in {p} \cup Id
  /\ proc \in {"up", "down"} /\ due \in BOOLEAN /\ charon \in {"up", "dead"}
  /\ hosts \in [Peer -> Fingerprint \cup {NoAddr, Found}] /\ conns \in [Peer -> Addr \cup {NoAddr}]
  /\ staleLocal \in [Peer -> SUBSET Addr] /\ past \in [Peer -> SUBSET Addr]
  /\ doubt \in [Peer -> SUBSET Addr] /\ torn \in [Peer -> SUBSET Addr]
  /\ sas \in SUBSET Sa /\ victims \in SUBSET Sa /\ moved \in BOOLEAN
  /\ phase \in {"idle", "load", "reap", "peers", "remove"} /\ cur \in Peer \cup {Nobody}
  /\ agent \in (IF cur = Nobody THEN {NoAddr} ELSE Addr)
  /\ todo \in SUBSET Peer /\ attempt \in SUBSET Peer /\ done \in SUBSET Peer
  /\ last \in {"none", "nil", "err", "fatal"}
  /\ changes \in 0..MaxChange /\ faults \in 0..MaxFault

(* What the reaper is about to end is an SA of this overlay, with a local  *)
(* address this very process loaded for that peer and, unless the store    *)
(* was replaced under the pass, not one of the connection now loaded: not  *)
(* even when the host went back to an address that an earlier, failed pass *)
(* queued.  The exception is an address that charon took without an answer *)
(* (doubt): if the host then goes back to the address before, the cache    *)
(* matches again and the connection stays wrong.                           *)
(* connection.go:75-110, 127-180, 193-207.                                 *)
OnlyOwnStaleReaped ==
  \A s \in victims :
    /\ s.ours /\ s.local \in past[s.peer]
    /\ ~moved /\ s.local \notin doubt[s.peer] => s.local # conns[s.peer]

(* After a pass that returned nil, and as long as the address stands, no   *)
(* SA of this overlay is left on an address the process used before: the   *)
(* authority to end it outlives failed passes and is spent only on         *)
(* success.  Three things are excepted, because the code loses track of    *)
(* them: an address whose load went unanswered (doubt); the two addresses  *)
(* of a fingerprint whose reads disagreed (torn), which are never queued   *)
(* (connection.go:90, 92); and what was used for a peer before it was      *)
(* removed (past), or was spared by a pass overtaken by a new address.     *)
(* connection.go:75-110, 193-207, ipsec.go:901-917, 994.                   *)
StaleSasGone ==
  (phase = "idle" /\ last = "nil" /\ ~moved) =>
    \A s \in sas : s.ours /\ s.local \in past[s.peer] \ (doubt[s.peer] \cup torn[s.peer]) => s.local = addr

(* Once the listed peers present what the metadata says, charon stops being*)
(* killed for stale identities and the process stops being restarted:      *)
(* every restart gets rid of the old SAs, and new ones are accepted.       *)
(* ipsec.go:364-432, main.go:304-307.                                      *)
RestartsEnd ==
  <>[](\A p \in Peer : listed[p] # NoId => real[p] \in {p, listed[p]}) => <>[](charon = "up" /\ proc = "up")

=============================================================================
