-------------------------- MODULE SaOwnershipProofs --------------------------
(***************************************************************************)
(* Type correctness, OnlyOwnStaleReaped and StaleSasGone of SaOwnership    *)
(* for any peers, addresses, identities and bounds.  The invariant that    *)
(* carries both follows the authority to end an SA: an address that may    *)
(* have SAs of this overlay is the one in the cache, is queued, was loaded *)
(* without an answer, or stems from a torn fingerprint.                    *)
(***************************************************************************)
EXTENDS SaOwnership, TLAPS

(* A queued address and the one in the cache were loaded by this process,  *)
(* a fingerprint of two addresses is known as torn, and charon's connection*)
(* has the address in the cache unless it is gone or charon has taken an   *)
(* address without an answer.                                              *)
Authority ==
  \A p \in Peer :
    /\ staleLocal[p] \subseteq past[p]
    /\ hosts[p] \in Fingerprint =>
         /\ hosts[p].tunnel \in past[p] /\ conns[p] \in {hosts[p].tunnel, NoAddr} \cup doubt[p]
         /\ hosts[p].agent # hosts[p].tunnel => hosts[p].tunnel \in torn[p]
    /\ hosts[p] \notin Fingerprint => past[p] = {}

Current == [agent |-> addr, tunnel |-> addr]

(* The running pass, and the process between its end and its start.        *)
PassShape ==
  /\ cur # Nobody => phase = "load" /\ cur \in attempt /\ (~moved => agent = addr)
  /\ done \subseteq attempt
  /\ \A p \in done : hosts[p] \in Fingerprint /\ (~moved => hosts[p] = Current)
  /\ phase \in {"reap", "peers", "remove"} => done = attempt
  /\ phase = "remove" => todo \cap attempt = {}
  /\ phase = "idle" => attempt = {}
  /\ phase # "reap" => victims = {}
  /\ proc = "down" => phase = "idle" /\ last = "none" /\ \A p \in Peer : past[p] = {}

(* What the reaper has listed.                                             *)
VictimsListed ==
  \A s \in victims : /\ s.ours /\ s.peer \in done /\ s.local \in staleLocal[s.peer]
                     /\ ~moved => s.local # addr

(* The SAs that StaleSasGone speaks of.                                    *)
Answered(s) == s.ours /\ s.local \in past[s.peer] \ (doubt[s.peer] \cup torn[s.peer])

(* The SA of the connection in the cache.                                  *)
InUse(s) == hosts[s.peer] \in Fingerprint /\ s.local = hosts[s.peer].tunnel

(* No SA of an address this process answers for escapes the queue.         *)
SasQueued == \A s \in sas : Answered(s) => s.local \in staleLocal[s.peer] \/ InUse(s)

(* Nor does one come up behind the reaper's list.                          *)
Reaping ==
  phase = "reap" /\ ~moved =>
    \A s \in sas : s.peer \in done /\ Answered(s) => s \in victims \/ s.local = addr

(* Behind the reaper the queue of the peers of this pass is empty, and at  *)
(* its end there are no others.                                            *)
Spent ==
  /\ phase \in {"peers", "remove"} => \A p \in done : staleLocal[p] = {}
  /\ phase = "idle" /\ last = "nil" /\ ~moved =>
       \A p \in Peer : hosts[p] # NoAddr => staleLocal[p] = {} /\ hosts[p] = Current

OwnershipInv == TypeOK /\ Authority /\ PassShape /\ VictimsListed /\ SasQueued /\ Reaping /\ Spent

-----------------------------------------------------------------------------
(* The bookkeeping, charon and the pass keep their types.                  *)
LEMMA TypesKept == TypeOK /\ [Next]_vars => TypeOK'
<1> SUFFICES ASSUME TypeOK, [Next]_vars PROVE TypeOK'
  OBVIOUS
<1> USE OwnershipAssumption
<1>0. ASSUME UNCHANGED vars PROVE TypeOK'
  BY <1>0 DEF TypeOK, vars
<1>1. ASSUME MoveAddr PROVE TypeOK'
  BY <1>1 DEF MoveAddr, Change, TypeOK, cacheVars, history, passVars
<1>2. ASSUME NEW p \in Peer, ListPeer(p) PROVE TypeOK'
  <2>1. PICK i \in Id \cup {NoId} : listed' = [listed EXCEPT ![p] = i]
    BY <1>2 DEF ListPeer
  <2> QED BY <1>2, <2>1 DEF ListPeer, Change, TypeOK, cacheVars, history, passVars
<1>3. ASSUME NEW p \in Peer, ReplacePeer(p) PROVE TypeOK'
  <2>1. PICK i \in {p} \cup Id : real' = [real EXCEPT ![p] = i]
    BY <1>3 DEF ReplacePeer
  <2> QED BY <1>3, <2>1 DEF ReplacePeer, Change, TypeOK, cacheVars, history, passVars, Identity
<1>4. ASSUME NEW p \in Peer, Establish(p) PROVE TypeOK'
  <2>1. [peer |-> p, local |-> conns[p], id |-> real[p], ours |-> TRUE] \in Sa
    BY <1>4 DEF Establish, TypeOK, Sa
  <2> QED BY <1>4, <2>1 DEF Establish, TypeOK, envVars, cacheVars, history, passVars
<1>5. ASSUME NEW p \in Peer, EstablishForeign(p) PROVE TypeOK'
  <2>1. PICK a \in Addr : sas' = sas \cup {[peer |-> p, local |-> a, id |-> p, ours |-> FALSE]}
    BY <1>5 DEF EstablishForeign
  <2>2. [peer |-> p, local |-> a, id |-> p, ours |-> FALSE] \in Sa
    BY DEF Sa, Identity
  <2>3. sas' \in SUBSET Sa
    BY <2>1, <2>2 DEF TypeOK
  <2>4. /\ UNCHANGED <<addr, listed, real, proc, due, cacheVars, charon, conns, passVars, moved, faults>>
        /\ Change
    BY <1>5 DEF EstablishForeign
  <2> QED BY <2>3, <2>4 DEF Change, TypeOK, cacheVars, history, passVars
<1>6. ASSUME Expire PROVE TypeOK'
  BY <1>6 DEF Expire, TypeOK, envVars, cacheVars, history, passVars
<1>7. ASSUME Begin PROVE TypeOK'
  BY <1>7 DEF Begin, TypeOK, envVars, cacheVars, history
<1>8. ASSUME LoadFailed PROVE TypeOK'
  BY <1>8 DEF LoadFailed, End, TypeOK, envVars, cacheVars, history
<1>9. ASSUME ReapList PROVE TypeOK'
  <2>1. StaleLocal \in SUBSET Sa
    BY DEF StaleLocal, TypeOK
  <2> QED BY <1>9, <2>1 DEF ReapList, End, NoFault, Fault, TypeOK, envVars, cacheVars, history
<1>10. ASSUME Terminate PROVE TypeOK'
  BY <1>10 DEF Terminate, End, NoFault, Fault, TypeOK, envVars, cacheVars, history
<1>11. ASSUME ReapEnd PROVE TypeOK'
  BY <1>11 DEF ReapEnd, Consumed, TypeOK, envVars
<1>12. ASSUME CheckPeers PROVE TypeOK'
  BY <1>12 DEF CheckPeers, CharonDead, Leavers, End, NoFault, Fault, TypeOK, envVars, cacheVars, history
<1>13. ASSUME NEW p \in Peer, ReadAgent(p) PROVE TypeOK'
  BY <1>13 DEF ReadAgent, TypeOK, envVars, cacheVars, history
<1>14. ASSUME NEW p \in Peer, Load(p) PROVE TypeOK'
  <2> DEFINE new == [agent |-> agent, tunnel |-> addr]
  <2>1. agent \in Addr /\ new \in Fingerprint
    BY <1>14 DEF Load, TypeOK, Fingerprint
  <2>2. Queued(hosts[p], new) \in SUBSET Addr
    BY DEF Queued, Fingerprint
  <2> QED BY <1>14, <2>1, <2>2 DEF Load, Loaded, NoFault, Fault, TypeOK, envVars, cacheVars, history
<1>15. ASSUME NEW p \in Peer, RemoveHost(p) PROVE TypeOK'
  BY <1>15 DEF RemoveHost, Forgotten, NoFault, Fault, TypeOK, envVars, cacheVars, history
<1>16. ASSUME RemoveEnd PROVE TypeOK'
  BY <1>16 DEF RemoveEnd, End, TypeOK, envVars, cacheVars, history
<1>17. ASSUME CharonDies PROVE TypeOK'
  BY <1>17 DEF CharonDies, CharonDead, Fault, TypeOK, envVars, cacheVars, history, passVars
<1>18. ASSUME Exit PROVE TypeOK'
  BY <1>18 DEF Exit, None, NoFault, Fault, TypeOK, envVars
<1>19. ASSUME Boot PROVE TypeOK'
  BY <1>19 DEF Boot, TypeOK, envVars, history, passVars
<1> QED
  BY <1>0, <1>1, <1>2, <1>3, <1>4, <1>5, <1>6, <1>7, <1>8, <1>9, <1>10, <1>11, <1>12, <1>13, <1>14, <1>15,
     <1>16, <1>17, <1>18, <1>19
  DEF Next, PassStep

Kept == Authority /\ PassShape /\ VictimsListed /\ SasQueued /\ Reaping /\ Spent

(* The metadata and the peers: only a new address of this host matters,    *)
(* and it makes the running pass outdated.                                 *)
LEMMA EnvironmentKeeps ==
  ASSUME OwnershipInv,
         UNCHANGED vars \/ MoveAddr \/ \E p \in Peer : ListPeer(p) \/ ReplacePeer(p)
  PROVE  Kept'
<1>1. /\ UNCHANGED <<proc, hosts, staleLocal, past, doubt, torn, conns, sas>>
      /\ UNCHANGED <<phase, todo, cur, agent, attempt, done, victims, last>>
      /\ UNCHANGED <<moved, addr>> \/ moved' = TRUE
  BY DEF vars, MoveAddr, ListPeer, ReplacePeer, cacheVars, history, passVars
<1>2. (Authority /\ SasQueued)'
  BY <1>1 DEF OwnershipInv, Authority, SasQueued, Answered, InUse
<1>3. (PassShape /\ VictimsListed /\ Reaping /\ Spent)'
  BY <1>1 DEF OwnershipInv, PassShape, Current, VictimsListed, Answered, Reaping, Spent
<1> QED BY <1>2, <1>3 DEF Kept

(* charon: an SA that comes up is on the cached address, on one that was   *)
(* loaded without an answer, or on one this process does not answer for.   *)
LEMMA CharonKeeps ==
  ASSUME OwnershipInv, Expire \/ \E p \in Peer : Establish(p) \/ EstablishForeign(p)
  PROVE  Kept'
<1> USE OwnershipAssumption
<1>1. /\ UNCHANGED <<addr, proc, hosts, staleLocal, past, doubt, torn, conns, moved>>
      /\ UNCHANGED <<phase, todo, cur, agent, attempt, done, victims, last>>
  BY DEF Expire, Establish, EstablishForeign, envVars, cacheVars, history, passVars
<1>2. (Authority /\ PassShape /\ VictimsListed /\ Spent)'
  BY <1>1 DEF OwnershipInv, Authority, PassShape, Current, VictimsListed, Spent
<1>3. ASSUME NEW s \in sas', Answered(s)
      PROVE  s \in sas \/ (InUse(s) /\ s.peer \in Peer)
  <2>1. CASE Expire
    BY <1>3, <2>1 DEF Expire
  <2>2. ASSUME NEW p \in Peer, Establish(p), s \notin sas PROVE InUse(s) /\ s.peer \in Peer
    <3>1. s = [peer |-> p, local |-> conns[p], id |-> real[p], ours |-> TRUE] /\ conns[p] # NoAddr
      BY <1>3, <2>2 DEF Establish
    <3>2. s.peer = p /\ s.local = conns[p]
      BY <3>1
    <3>3. hosts[p] \in Fingerprint => conns[p] \in {hosts[p].tunnel, NoAddr} \cup doubt[p]
      BY DEF OwnershipInv, Authority
    <3>4. hosts[p] \notin Fingerprint => past[p] = {}
      BY DEF OwnershipInv, Authority
    <3> QED BY <1>3, <3>1, <3>2, <3>3, <3>4 DEF Answered, InUse
  <2>3. ASSUME NEW p \in Peer, EstablishForeign(p) PROVE s \in sas
    <3>1. PICK a \in Addr : sas' = sas \cup {[peer |-> p, local |-> a, id |-> p, ours |-> FALSE]}
      BY <2>3 DEF EstablishForeign
    <3> QED BY <1>3, <3>1 DEF Answered
  <2> QED BY <2>1, <2>2, <2>3
<1>4. \A s : (Answered(s)' <=> Answered(s)) /\ (InUse(s)' <=> InUse(s))
  BY <1>1 DEF Answered, InUse
<1>5. SasQueued'
  BY <1>1, <1>3, <1>4 DEF OwnershipInv, SasQueued
<1>6. Reaping'
  <2> SUFFICES ASSUME phase = "reap", ~moved, NEW s \in sas', s.peer \in done, Answered(s)
               PROVE  s \in victims \/ s.local = addr
    BY <1>1, <1>4 DEF Reaping
  <2>1. hosts[s.peer] = Current
    BY DEF OwnershipInv, PassShape
  <2> QED BY <1>3, <2>1 DEF OwnershipInv, Reaping, InUse, Current
<1> QED BY <1>2, <1>5, <1>6 DEF Kept

(* The SAs and connections of a charon that is gone are gone too.          *)
LEMMA CharonDeadKeeps ==
  ASSUME OwnershipInv, CharonDies PROVE Kept'
<1>1. /\ UNCHANGED <<addr, proc, hosts, staleLocal, past, doubt, torn, moved>>
      /\ UNCHANGED <<phase, todo, cur, agent, attempt, done, victims, last>>
      /\ sas' = {} /\ \A p \in Peer : conns'[p] = NoAddr
  BY DEF CharonDies, CharonDead, envVars, cacheVars, history, passVars
<1>2. (Authority /\ SasQueued /\ Reaping)'
  BY <1>1 DEF OwnershipInv, Authority, SasQueued, Reaping
<1>3. (PassShape /\ VictimsListed /\ Spent)'
  BY <1>1 DEF OwnershipInv, PassShape, Current, VictimsListed, Spent
<1> QED BY <1>2, <1>3 DEF Kept

(* A pass that ends without having returned nil leaves no claim behind.    *)
LEMMA FailedEndKeeps ==
  ASSUME OwnershipInv, End("err"), cur = Nobody, proc = "up", UNCHANGED <<addr, proc, cacheVars, moved>>,
         UNCHANGED <<conns, sas>> \/ CharonDead
  PROVE  Kept'
<1>1. /\ phase' = "idle" /\ attempt' = {} /\ done' = {} /\ victims' = {} /\ last' # "nil" /\ cur' = Nobody
      /\ UNCHANGED <<hosts, staleLocal, past, doubt, torn>>
  BY DEF End, cacheVars, history
<1>2. UNCHANGED <<conns, sas>> \/ (sas' = {} /\ \A p \in Peer : conns'[p] = NoAddr)
  BY DEF CharonDead
<1>3. (Authority /\ SasQueued)'
  BY <1>1, <1>2 DEF OwnershipInv, Authority, SasQueued, Answered, InUse
<1>4. (PassShape /\ VictimsListed /\ Reaping /\ Spent)'
  BY <1>1 DEF OwnershipInv, PassShape, VictimsListed, Reaping, Spent
<1> QED BY <1>3, <1>4 DEF Kept

(* The pass begins, or ends in failure, and the process ends or starts: no *)
(* load and no reap is under way behind any of these.                      *)
LEMMA BoundaryKeeps ==
  ASSUME OwnershipInv, Begin \/ LoadFailed \/ Exit \/ Boot
  PROVE  Kept'
<1> USE OwnershipAssumption
<1>1. CASE Begin
  <2>1. /\ UNCHANGED <<addr, proc, hosts, staleLocal, past, doubt, torn, conns, sas, cur, victims>>
        /\ phase = "idle" /\ phase' = "load" /\ done' = {} /\ cur = Nobody /\ proc = "up"
    BY <1>1 DEF Begin, envVars, cacheVars, history, OwnershipInv, PassShape
  <2> QED BY <2>1 DEF OwnershipInv, Kept, Authority, PassShape, VictimsListed, SasQueued, Answered, InUse, Reaping, Spent
<1>2. CASE LoadFailed
  BY <1>2, FailedEndKeeps DEF LoadFailed, LoopOver, envVars
<1>3. CASE Exit
  <2>1. /\ \A p \in Peer : hosts'[p] = NoAddr /\ staleLocal'[p] = {} /\ past'[p] = {}
        /\ phase' = "idle" /\ attempt' = {} /\ done' = {} /\ victims' = {} /\ last' = "none" /\ moved' = TRUE
        /\ cur' = Nobody /\ UNCHANGED sas
    BY <1>3 DEF Exit, None
  <2>2. \A s \in sas : s.peer \in Peer
    BY DEF OwnershipInv, TypeOK, Sa
  <2> QED BY <2>1, <2>2 DEF Kept, Authority, PassShape, VictimsListed, SasQueued, Answered, Reaping, Spent
<1>4. CASE Boot
  <2>1. /\ \A p \in Peer : hosts'[p] \notin Fingerprint /\ past[p] = {}
        /\ UNCHANGED <<addr, staleLocal, past, doubt, torn, conns, sas, moved>>
        /\ UNCHANGED <<phase, todo, cur, agent, attempt, done, victims, last>>
        /\ phase = "idle" /\ last = "none" /\ attempt = {} /\ done = {} /\ victims = {} /\ proc' = "up"
    BY <1>4 DEF Boot, envVars, history, passVars, OwnershipInv, PassShape, TypeOK
  <2>2. \A s \in sas : s.peer \in Peer
    BY DEF OwnershipInv, TypeOK, Sa
  <2>3. (Authority /\ SasQueued)'
    BY <2>1, <2>2 DEF OwnershipInv, Authority, SasQueued, Answered
  <2>4. (PassShape /\ VictimsListed /\ Reaping /\ Spent)'
    BY <2>1 DEF OwnershipInv, PassShape, VictimsListed, Reaping, Spent
  <2> QED BY <2>3, <2>4 DEF Kept
<1> QED BY <1>1, <1>2, <1>3, <1>4

(* addHostConnection reads the agent address: nothing is loaded yet.       *)
LEMMA ReadAgentKeeps ==
  ASSUME OwnershipInv, NEW p \in Peer, ReadAgent(p)
  PROVE  Kept'
<1>1. /\ UNCHANGED <<addr, proc, hosts, staleLocal, past, doubt, torn, conns, sas>>
      /\ UNCHANGED <<phase, done, victims, last, moved>>
      /\ phase = "load" /\ proc = "up" /\ agent' = addr /\ cur' = p /\ attempt' = attempt \cup {p}
  BY DEF ReadAgent, envVars, cacheVars, history
<1>2. (Authority /\ SasQueued)'
  BY <1>1 DEF OwnershipInv, Authority, SasQueued, Answered, InUse
<1>3. (PassShape /\ VictimsListed /\ Reaping /\ Spent)'
  BY <1>1 DEF OwnershipInv, PassShape, Current, VictimsListed, Reaping, Spent
<1> QED BY <1>2, <1>3 DEF Kept

(* loadHostConnection: a replaced fingerprint of one address has it queued,*)
(* one of two addresses is remembered as torn, an unanswered load as one,  *)
(* and a failed load leaves the cache alone.                               *)
LEMMA LoadKeeps ==
  ASSUME OwnershipInv, NEW p \in Peer, Load(p)
  PROVE  Kept'
<1> USE OwnershipAssumption
<1> DEFINE new == [agent |-> agent, tunnel |-> addr]
<1>1. /\ phase = "load" /\ cur = p /\ cur' = Nobody /\ victims = {} /\ proc = "up"
      /\ UNCHANGED <<addr, proc, sas, phase, todo, attempt, victims, last, moved>>
  BY DEF Load, OwnershipInv, PassShape, envVars
<1>2. (VictimsListed /\ Reaping /\ Spent)'
  BY <1>1 DEF VictimsListed, Reaping, Spent
<1>3. \A s \in sas : s.peer \in Peer /\ s.local \in Addr
  BY DEF OwnershipInv, TypeOK, Sa
<1>4. /\ hosts \in [Peer -> Fingerprint \cup {NoAddr, Found}] /\ conns \in [Peer -> Addr \cup {NoAddr}]
      /\ staleLocal \in [Peer -> SUBSET Addr] /\ past \in [Peer -> SUBSET Addr]
      /\ doubt \in [Peer -> SUBSET Addr] /\ torn \in [Peer -> SUBSET Addr]
      /\ addr \in Addr /\ agent \in Addr /\ p \in attempt /\ done \subseteq attempt /\ attempt \in SUBSET Peer
  BY <1>1 DEF OwnershipInv, TypeOK, PassShape
<1>5. new \in Fingerprint /\ new.agent = agent /\ new.tunnel = addr /\ (~moved => new = Current)
  BY <1>1, <1>4 DEF OwnershipInv, PassShape, Fingerprint, Current
<1> HIDE DEF new
<1>6. ASSUME done' \in SUBSET (done \cup {p}), p \in done' => hosts'[p] = new,
             \A q \in Peer \ {p} : hosts'[q] = hosts[q]
      PROVE  PassShape'
  BY <1>1, <1>4, <1>5, <1>6 DEF OwnershipInv, PassShape, Current
<1>7. CASE hosts[p] = new /\ done' = done \cup {p} /\ UNCHANGED <<conns, cacheVars>>
  <2>1. UNCHANGED <<conns, hosts, staleLocal, past, doubt, torn>>
    BY <1>7 DEF cacheVars, history
  <2>2. (Authority /\ SasQueued)'
    BY <1>1, <2>1 DEF OwnershipInv, Authority, SasQueued, Answered, InUse
  <2> QED BY <1>2, <1>6, <1>7, <2>1, <2>2 DEF Kept
<1>8. CASE Loaded(p, new)
  <2>1. /\ done' = done \cup {p} /\ conns' = [conns EXCEPT ![p] = new.tunnel] /\ hosts' = [hosts EXCEPT ![p] = new]
        /\ staleLocal' = [staleLocal EXCEPT ![p] = @ \cup Queued(hosts[p], new)]
        /\ past' = [past EXCEPT ![p] = @ \cup {new.tunnel}] /\ doubt' = [doubt EXCEPT ![p] = @ \ {new.tunnel}]
        /\ torn' = [torn EXCEPT ![p] = IF new.agent = new.tunnel THEN @ \ {new.tunnel}
                                                               ELSE @ \cup {new.agent, new.tunnel}]
    BY <1>8 DEF Loaded
  <2>2. /\ conns'[p] = addr /\ hosts'[p] = new /\ staleLocal'[p] = staleLocal[p] \cup Queued(hosts[p], new)
        /\ past'[p] = past[p] \cup {addr} /\ doubt'[p] = doubt[p] \ {addr}
        /\ torn'[p] = IF agent = addr THEN torn[p] \ {addr} ELSE torn[p] \cup {agent, addr}
    BY <1>4, <1>5, <2>1
  <2>3. \A q \in Peer \ {p} : /\ conns'[q] = conns[q] /\ hosts'[q] = hosts[q] /\ staleLocal'[q] = staleLocal[q]
                              /\ past'[q] = past[q] /\ doubt'[q] = doubt[q] /\ torn'[q] = torn[q]
    BY <1>4, <2>1
  <2>4. Queued(hosts[p], new) \subseteq past[p]
    <3>1. CASE hosts[p] \in Fingerprint
      BY <3>1 DEF Queued, OwnershipInv, Authority
    <3>2. CASE hosts[p] \notin Fingerprint
      BY <3>2 DEF Queued
    <3> QED BY <3>1, <3>2
  <2>5. Authority'
    <3> SUFFICES ASSUME NEW q \in Peer
                 PROVE  /\ staleLocal'[q] \subseteq past'[q]
                        /\ hosts'[q] \in Fingerprint =>
                             /\ hosts'[q].tunnel \in past'[q]
                             /\ conns'[q] \in {hosts'[q].tunnel, NoAddr} \cup doubt'[q]
                             /\ hosts'[q].agent # hosts'[q].tunnel => hosts'[q].tunnel \in torn'[q]
                        /\ hosts'[q] \notin Fingerprint => past'[q] = {}
      BY DEF Authority
    <3>1. CASE q = p
      <4>1. staleLocal[p] \subseteq past[p]
        BY DEF OwnershipInv, Authority
      <4> QED BY <1>5, <2>2, <2>4, <3>1, <4>1
    <3>2. CASE q # p
      BY <2>3, <3>2 DEF OwnershipInv, Authority
    <3> QED BY <3>1, <3>2
  <2>6. PassShape'
    BY <1>6, <2>1, <2>2, <2>3
  <2>7. SasQueued'
    <3> SUFFICES ASSUME NEW s \in sas, Answered(s)' PROVE s.local \in staleLocal'[s.peer] \/ InUse(s)'
      BY <1>1 DEF SasQueued
    <3>1. CASE s.peer # p
      BY <1>3, <2>3, <3>1 DEF Answered, InUse, OwnershipInv, SasQueued
    <3>2. CASE s.peer = p /\ s.local # addr
      <4>1. Answered(s) /\ s.local \notin torn'[p]
        BY <2>2, <3>2 DEF Answered
      <4>2. s.local \in staleLocal[p] \/ InUse(s)
        BY <3>2, <4>1 DEF OwnershipInv, SasQueued
      <4>3. CASE InUse(s)
        <5>1. hosts[p] \in Fingerprint /\ s.local = hosts[p].tunnel /\ hosts[p].agent = hosts[p].tunnel
          BY <3>2, <4>1, <4>3 DEF InUse, Answered, OwnershipInv, Authority
        <5>2. hosts[p].agent # new.agent
          BY <1>5, <2>2, <3>2, <4>1, <5>1
        <5> QED BY <2>2, <3>2, <5>1, <5>2 DEF Queued
      <4> QED BY <2>2, <3>2, <4>2, <4>3
    <3>3. CASE s.peer = p /\ s.local = addr
      BY <1>5, <2>2, <3>3 DEF InUse
    <3> QED BY <3>1, <3>2, <3>3
  <2> QED BY <1>2, <2>5, <2>6, <2>7 DEF Kept
<1>9. CASE UNCHANGED <<done, hosts, staleLocal, past, torn, conns, doubt>>
  <2>1. (Authority /\ SasQueued)'
    BY <1>1, <1>9 DEF OwnershipInv, Authority, SasQueued, Answered, InUse
  <2>2. PassShape'
    BY <1>1, <1>9 DEF OwnershipInv, PassShape, Current
  <2> QED BY <1>2, <2>1, <2>2 DEF Kept
<1>10. CASE /\ UNCHANGED <<done, hosts, staleLocal, past, torn>>
            /\ conns' = [conns EXCEPT ![p] = addr] /\ doubt' = [doubt EXCEPT ![p] = @ \cup {addr}]
  <2>1. conns'[p] = addr /\ doubt'[p] = doubt[p] \cup {addr}
    BY <1>4, <1>10
  <2>2. \A q \in Peer \ {p} : conns'[q] = conns[q] /\ doubt'[q] = doubt[q]
    BY <1>4, <1>10
  <2>3. Authority'
    BY <1>10, <2>1, <2>2 DEF OwnershipInv, Authority
  <2>4. PassShape'
    BY <1>1, <1>10 DEF OwnershipInv, PassShape, Current
  <2>5. SasQueued'
    BY <1>1, <1>3, <1>10, <2>1, <2>2 DEF OwnershipInv, SasQueued, Answered, InUse
  <2> QED BY <1>2, <2>3, <2>4, <2>5 DEF Kept
<1> QED BY <1>7, <1>8, <1>9, <1>10 DEF Load, new

(* reapStaleLocalSAs: the list holds every SA on a queued address but the  *)
(* one in use, and the queue is spent only when they are gone.             *)
LEMMA ReapKeeps ==
  ASSUME OwnershipInv, ReapList \/ Terminate \/ ReapEnd
  PROVE  Kept'
<1> USE OwnershipAssumption
<1>1. UNCHANGED <<addr, proc, hosts, doubt, torn, conns, moved>> /\ proc = "up" /\ cur = Nobody
  BY DEF ReapList, Terminate, ReapEnd, LoopOver, envVars, cacheVars, history, OwnershipInv, PassShape
<1>2. \A s \in sas : s.peer \in Peer
  BY DEF OwnershipInv, TypeOK, Sa
<1>3. CASE ReapList
  <2>1. UNCHANGED <<staleLocal, past, sas, cacheVars>> /\ done = attempt /\ phase = "load"
    BY <1>3 DEF ReapList, LoopOver, cacheVars, history
  <2>2. CASE End("err")
    BY <1>1, <2>1, <2>2, FailedEndKeeps
  <2>3. CASE phase' = "reap" /\ victims' = StaleLocal /\ UNCHANGED <<todo, cur, agent, attempt, done, last>>
    <3>1. (Authority /\ SasQueued)'
      BY <1>1, <2>1 DEF OwnershipInv, Authority, SasQueued, Answered, InUse
    <3>2. (PassShape /\ Spent)'
      BY <1>1, <2>1, <2>3 DEF OwnershipInv, PassShape, Current, Spent
    <3>3. VictimsListed'
      BY <1>1, <2>1, <2>3 DEF VictimsListed, StaleLocal
    <3>4. Reaping'
      <4> SUFFICES ASSUME ~moved, NEW s \in sas, s.peer \in done, Answered(s), s.local # addr PROVE s \in StaleLocal
        BY <1>1, <2>1, <2>3 DEF Reaping, Answered
      <4>1. hosts[s.peer] = Current
        BY DEF OwnershipInv, PassShape
      <4>2. s.local \in staleLocal[s.peer]
        BY <4>1 DEF OwnershipInv, SasQueued, InUse, Current
      <4> QED BY <4>2 DEF StaleLocal, Answered
    <3> QED BY <3>1, <3>2, <3>3, <3>4 DEF Kept
  <2> QED BY <1>3, <2>2, <2>3 DEF ReapList
<1>4. CASE Terminate
  <2>1. UNCHANGED <<staleLocal, past, cacheVars>> /\ phase = "reap"
    BY <1>4 DEF Terminate, cacheVars, history
  <2>2. CASE End("err") /\ UNCHANGED sas
    BY <1>1, <2>1, <2>2, FailedEndKeeps
  <2>3. ASSUME NEW s \in victims, sas' = sas \ {s}, victims' = victims \ {s},
               UNCHANGED <<phase, todo, cur, agent, attempt, done, last>>
        PROVE  Kept'
    <3>1. (Authority /\ SasQueued)'
      BY <1>1, <2>1, <2>3 DEF OwnershipInv, Authority, SasQueued, Answered, InUse
    <3>2. (PassShape /\ VictimsListed /\ Spent)'
      BY <1>1, <2>1, <2>3 DEF OwnershipInv, PassShape, Current, VictimsListed, Spent
    <3>3. Reaping'
      BY <1>1, <2>1, <2>3 DEF OwnershipInv, Reaping, Answered
    <3> QED BY <3>1, <3>2, <3>3 DEF Kept
  <2> QED BY <1>4, <2>2, <2>3 DEF Terminate
<1>5. CASE ReapEnd
  <2>1. /\ phase = "reap" /\ victims = {} /\ phase' = "peers" /\ done = attempt
        /\ UNCHANGED <<sas, todo, cur, agent, attempt, done, victims, last>>
        /\ \A q \in Peer : staleLocal'[q] = IF q \in done THEN {} ELSE staleLocal[q]
        /\ \A q \in Peer : past'[q] = IF moved /\ q \in done THEN past[q] \ (staleLocal[q] \ {hosts[q].tunnel})
                                                             ELSE past[q]
    BY <1>5 DEF ReapEnd, Consumed, OwnershipInv, PassShape
  <2>2. done \in SUBSET Peer
    BY DEF OwnershipInv, TypeOK
  <2>3. Authority'
    BY <1>1, <2>1 DEF OwnershipInv, Authority
  <2>4. (PassShape /\ VictimsListed /\ Reaping)'
    BY <1>1, <2>1 DEF OwnershipInv, PassShape, Current, VictimsListed, Reaping
  <2>5. Spent'
    BY <1>1, <2>1, <2>2 DEF Spent
  <2>6. SasQueued'
    <3> SUFFICES ASSUME NEW s \in sas, Answered(s)' PROVE s.local \in staleLocal'[s.peer] \/ InUse(s)
      BY <1>1, <2>1 DEF SasQueued, InUse
    <3>1. s.peer \in Peer
      BY <1>2
    <3>2. Answered(s) /\ (moved /\ s.peer \in done => s.local \notin staleLocal[s.peer] \ {hosts[s.peer].tunnel})
      BY <1>1, <2>1, <3>1 DEF Answered
    <3>3. s.local \in staleLocal[s.peer] \/ InUse(s)
      BY <3>2 DEF OwnershipInv, SasQueued
    <3>4. CASE s.peer \notin done
      BY <2>1, <3>1, <3>3, <3>4
    <3>5. CASE s.peer \in done /\ moved
      BY <3>2, <3>3, <3>5 DEF InUse, OwnershipInv, PassShape
    <3>6. CASE s.peer \in done /\ ~moved
      <4>1. hosts[s.peer] \in Fingerprint /\ hosts[s.peer] = Current
        BY <3>6 DEF OwnershipInv, PassShape
      <4>2. s.local = addr
        BY <2>1, <3>2, <3>6 DEF OwnershipInv, Reaping
      <4> QED BY <4>1, <4>2 DEF InUse, Current
    <3> QED BY <3>4, <3>5, <3>6
  <2> QED BY <2>3, <2>4, <2>5, <2>6 DEF Kept
<1> QED BY <1>3, <1>4, <1>5

(* restartForStalePeerIdentities fails the pass, with charon dead or not,  *)
(* or leaves everything as it is.                                          *)
LEMMA CheckPeersKeeps ==
  ASSUME OwnershipInv, CheckPeers
  PROVE  Kept'
<1>1. UNCHANGED <<addr, proc, cacheVars, moved>> /\ proc = "up" /\ phase = "peers" /\ cur = Nobody
  BY DEF CheckPeers, envVars, OwnershipInv, PassShape
<1>2. CASE End("err") /\ (UNCHANGED <<conns, sas>> \/ CharonDead)
  BY <1>1, <1>2, FailedEndKeeps
<1>3. CASE /\ phase' = "remove" /\ todo' = Leavers
           /\ UNCHANGED <<cur, agent, attempt, done, victims, last, charon, conns, sas>>
  <2>1. UNCHANGED <<hosts, staleLocal, past, doubt, torn>>
    BY <1>1 DEF cacheVars, history
  <2>2. (Authority /\ SasQueued)'
    BY <1>3, <2>1 DEF OwnershipInv, Authority, SasQueued, Answered, InUse
  <2>3. (PassShape /\ VictimsListed /\ Reaping /\ Spent)'
    BY <1>1, <1>3, <2>1 DEF OwnershipInv, PassShape, Current, VictimsListed, Reaping, Spent, Leavers
  <2> QED BY <2>2, <2>3 DEF Kept
<1> QED BY <1>2, <1>3 DEF CheckPeers

(* removeHosts forgets a peer whole or not at all, and only peers the pass *)
(* did not attempt; a pass that returns nil has left none of those.        *)
LEMMA RemoveKeeps ==
  ASSUME OwnershipInv, RemoveEnd \/ \E p \in Peer : RemoveHost(p)
  PROVE  Kept'
<1> USE OwnershipAssumption
<1>0. cur = Nobody /\ done = attempt /\ phase = "remove" /\ victims = {}
  BY DEF RemoveEnd, RemoveHost, OwnershipInv, PassShape
<1>1. ASSUME NEW p \in Peer, RemoveHost(p) PROVE Kept'
  <2>1. /\ p \in todo /\ p \notin done /\ todo' = todo \ {p}
        /\ UNCHANGED <<addr, proc, sas, phase, cur, agent, attempt, done, victims, last, moved>>
    BY <1>0, <1>1 DEF RemoveHost, envVars, OwnershipInv, PassShape
  <2>2. CASE UNCHANGED cacheVars /\ conns' \in {conns, [conns EXCEPT ![p] = NoAddr]}
    <3>1. UNCHANGED <<hosts, staleLocal, past, doubt, torn>>
      BY <2>2 DEF cacheVars, history
    <3>2. \A q \in Peer : conns'[q] \in {conns[q], NoAddr}
      BY <2>2 DEF OwnershipInv, TypeOK
    <3>3. (Authority /\ SasQueued)'
      BY <2>1, <3>1, <3>2 DEF OwnershipInv, Authority, SasQueued, Answered, InUse
    <3>4. (PassShape /\ VictimsListed /\ Reaping /\ Spent)'
      BY <1>0, <2>1, <3>1 DEF OwnershipInv, PassShape, Current, VictimsListed, Reaping, Spent
    <3> QED BY <3>3, <3>4 DEF Kept
  <2>3. CASE Forgotten(p) /\ conns' = [conns EXCEPT ![p] = NoAddr]
    <3>1. /\ hosts'[p] = NoAddr /\ staleLocal'[p] = {} /\ past'[p] = {}
          /\ \A q \in Peer \ {p} : /\ conns'[q] = conns[q] /\ hosts'[q] = hosts[q] /\ staleLocal'[q] = staleLocal[q]
                                   /\ past'[q] = past[q] /\ doubt'[q] = doubt[q] /\ torn'[q] = torn[q]
      BY <2>3 DEF Forgotten, OwnershipInv, TypeOK
    <3>2. \A s \in sas : s.peer \in Peer
      BY DEF OwnershipInv, TypeOK, Sa
    <3>3. Authority'
      BY <3>1 DEF OwnershipInv, Authority
    <3>4. SasQueued'
      <4> SUFFICES ASSUME NEW s \in sas, Answered(s)' PROVE s.local \in staleLocal'[s.peer] \/ InUse(s)'
        BY <2>1 DEF SasQueued
      <4>1. s.peer \in Peer \ {p}
        BY <3>1, <3>2 DEF Answered
      <4> QED BY <3>1, <4>1 DEF OwnershipInv, SasQueued, Answered, InUse
    <3>5. \A q \in done : q \in Peer \ {p}
      BY <2>1 DEF OwnershipInv, TypeOK
    <3>6. (PassShape /\ VictimsListed /\ Reaping /\ Spent)'
      BY <1>0, <2>1, <3>1, <3>5 DEF OwnershipInv, PassShape, Current, VictimsListed, Reaping, Spent
    <3> QED BY <3>3, <3>4, <3>6 DEF Kept
  <2> QED BY <1>1, <2>2, <2>3 DEF RemoveHost
<1>2. CASE RemoveEnd
  <2>1. UNCHANGED <<addr, proc, cacheVars, conns, sas, moved>> /\ proc = "up"
    BY <1>2 DEF RemoveEnd, envVars
  <2>2. CASE End("err")
    BY <1>0, <2>1, <2>2, FailedEndKeeps
  <2>3. CASE End("nil") /\ Leavers = {}
    <3>1. /\ phase' = "idle" /\ attempt' = {} /\ done' = {} /\ victims' = {} /\ cur' = Nobody
          /\ UNCHANGED <<hosts, staleLocal, past, doubt, torn>>
      BY <1>0, <2>1, <2>3 DEF End, cacheVars, history
    <3>2. (Authority /\ SasQueued)'
      BY <2>1, <3>1 DEF OwnershipInv, Authority, SasQueued, Answered, InUse
    <3>3. \A q \in Peer : hosts[q] # NoAddr => q \in done
      BY <1>0, <2>3 DEF Leavers
    <3>4. Spent'
      BY <1>0, <2>1, <3>1, <3>3 DEF OwnershipInv, PassShape, Current, Spent
    <3>5. (PassShape /\ VictimsListed /\ Reaping)'
      BY <2>1, <3>1 DEF PassShape, VictimsListed, Reaping
    <3> QED BY <3>2, <3>4, <3>5 DEF Kept
  <2> QED BY <1>2, <2>2, <2>3 DEF RemoveEnd
<1> QED BY <1>1, <1>2

(* Every step keeps the authority to end SAs in step with the SAs.         *)
LEMMA OwnershipInvInductive == OwnershipInv /\ [Next]_vars => OwnershipInv'
<1> SUFFICES ASSUME OwnershipInv, [Next]_vars PROVE OwnershipInv'
  OBVIOUS
<1>1. TypeOK'
  BY TypesKept DEF OwnershipInv
<1>2. Kept'
  BY EnvironmentKeeps, CharonKeeps, CharonDeadKeeps, BoundaryKeeps, ReadAgentKeeps, LoadKeeps, ReapKeeps,
     CheckPeersKeeps, RemoveKeeps
  DEF Next, PassStep
<1> QED BY <1>1, <1>2 DEF OwnershipInv, Kept

(* The process starts with an empty cache, an empty queue and no SA.       *)
LEMMA InitOwnershipInv == Init => OwnershipInv
<1> SUFFICES ASSUME Init PROVE OwnershipInv
  OBVIOUS
<1> USE OwnershipAssumption DEF Init, None
<1>1. \A p \in Peer : real[p] \in Id
  OBVIOUS
<1>2. TypeOK
  BY <1>1 DEF TypeOK, Identity
<1>3. Authority
  BY DEF Authority
<1>4. PassShape /\ VictimsListed /\ SasQueued /\ Reaping /\ Spent
  BY DEF PassShape, VictimsListed, SasQueued, Reaping, Spent
<1> QED BY <1>2, <1>3, <1>4 DEF OwnershipInv

(* The types of the overlay's bookkeeping, charon and the pass, for any    *)
(* peers, addresses and identities.  connection.go:75-207.                 *)
THEOREM OwnershipTypeCorrect == Spec => []TypeOK
<1>1. OwnershipInv => TypeOK
  BY DEF OwnershipInv
<1> QED BY <1>1, InitOwnershipInv, OwnershipInvInductive, PTL DEF Spec

(* For any peers and addresses, with failing and unanswered calls, moves   *)
(* of the host and restarts between any two steps: the reaper is only ever *)
(* about to end SAs of this overlay on addresses this process loaded, and  *)
(* not those of the connection in use.  connection.go:75-110, 127-180.     *)
THEOREM OnlyOwnStaleReapedHolds == Spec => []OnlyOwnStaleReaped
<1>1. OwnershipInv => OnlyOwnStaleReaped
  <2> SUFFICES ASSUME OwnershipInv, NEW s \in victims
               PROVE  /\ s.ours /\ s.local \in past[s.peer]
                      /\ ~moved /\ s.local \notin doubt[s.peer] => s.local # conns[s.peer]
    BY DEF OnlyOwnStaleReaped
  <2>1. s.peer \in Peer /\ s.local \in Addr /\ addr \in Addr
    BY DEF OwnershipInv, TypeOK, Sa
  <2>2. s.ours /\ s.local \in past[s.peer]
    BY <2>1 DEF OwnershipInv, VictimsListed, Authority
  <2>3. ASSUME ~moved, s.local \notin doubt[s.peer] PROVE s.local # conns[s.peer]
    <3>1. hosts[s.peer] = Current /\ hosts[s.peer] \in Fingerprint /\ s.local # addr
      BY <2>3 DEF OwnershipInv, VictimsListed, PassShape
    <3>2. conns[s.peer] \in {addr, NoAddr} \cup doubt[s.peer]
      BY <2>1, <3>1 DEF OwnershipInv, Authority, Current
    <3> QED BY <2>1, <2>3, <3>1, <3>2, OwnershipAssumption
  <2> QED BY <2>2, <2>3
<1> QED BY <1>1, InitOwnershipInv, OwnershipInvInductive, PTL DEF Spec

(* For any peers and addresses, with the address read twice for each load, *)
(* peers leaving and returning, and any failure: after a pass that returned*)
(* nil no SA is left on an address this process used before, but for the   *)
(* torn, unanswered and forgotten ones that StaleSasGone names, however    *)
(* many passes failed on the way.  connection.go:75-110, 193-207.          *)
THEOREM StaleSasGoneHolds == Spec => []StaleSasGone
<1>1. OwnershipInv => StaleSasGone
  <2> SUFFICES ASSUME OwnershipInv, phase = "idle", last = "nil", ~moved, NEW s \in sas, Answered(s)
               PROVE  s.local = addr
    BY DEF StaleSasGone, Answered
  <2>1. s.peer \in Peer
    BY DEF OwnershipInv, TypeOK, Sa
  <2>2. hosts[s.peer] \in Fingerprint
    BY <2>1 DEF OwnershipInv, Authority, Answered
  <2>3. staleLocal[s.peer] = {} /\ hosts[s.peer] = Current
    BY <2>1, <2>2, OwnershipAssumption DEF OwnershipInv, Spent
  <2> QED BY <2>3 DEF OwnershipInv, SasQueued, InUse, Current
<1> QED BY <1>1, InitOwnershipInv, OwnershipInvInductive, PTL DEF Spec

=============================================================================
