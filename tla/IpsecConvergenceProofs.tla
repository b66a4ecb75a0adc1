----------------------- MODULE IpsecConvergenceProofs -----------------------
(***************************************************************************)
(* Converged, PoliciesCovered, and that the overlay implements the         *)
(* abstract Reconciler for its policies and its routes, proved for any     *)
(* sets of callers, hosts, addresses, documents, keys and templates and    *)
(* any budgets.                                                            *)
(*                                                                         *)
(* Converged speaks of a pass that is over.  The invariant behind it says, *)
(* at every position of a pass whose inputs stand, how far the pass has    *)
(* got: which policies the handled entries have claimed or queued, which   *)
(* hosts carry the current connection, which keys are current (LoopGoals), *)
(* and, once the loop is over, which tables already are what the store     *)
(* asks for (TailGoals).                                                   *)
(***************************************************************************)
EXTENDS IpsecConfigureProofs, IpsecRefinement

(* The remote entries the loop is done with, and their policies.           *)
Done           == {e \in RemoteEntries : Handled(e)}
PoliciesFor(S) == UNION {PoliciesOf(e, LocalTunnelAddress(self)) : e \in S}

(* Between o.Lock() and the loop.                                          *)
StartGoals ==
  /\ want = {} /\ attempt = {} /\ passHosts = {}
  /\ ~firstErr => existing = policies /\ toAdd = {}

(* In the loop: who is wanted, attempted and set up.                       *)
LoopProgress ==
  /\ todo \subseteq entries
  /\ pc[mu] \in BusyPhase => cur \in RemoteEntries \ todo
  /\ want = RemoteEntries \ todo
  /\ attempt \subseteq {e.host : e \in want} /\ passHosts \subseteq attempt
  /\ pc[mu] = "conn" => agent = self.host /\ cur.host \in attempt

(* In the loop, before the first error: policies, connections, keys.       *)
PolicyProgress ==
  /\ existing \subseteq policies
  /\ (policies \ existing) \cup toAdd = PoliciesFor(Done)
ConnProgress ==
  /\ \A e \in Done : e.host \in passHosts
  /\ pc[mu] = "rules" => cur.host \in passHosts
  /\ \A h \in passHosts : hosts[h] = CurrentConn
KeyProgress ==
  /\ keys[AnyPeer] = psk
  /\ \A h \in passHosts : keys[h] = psk
  /\ pc[mu] = "conn" => keys[cur.host] = psk
  /\ \A e \in entries \ todo : e.peer => keys[e.ip] = psk

LoopGoals == LoopProgress /\ (~firstErr => PolicyProgress /\ ConnProgress /\ KeyProgress)

(* After the loop.                                                         *)
Served ==
  /\ want = RemoteEntries /\ attempt = RemoteHosts /\ passHosts = RemoteHosts
  /\ \A h \in RemoteHosts : hosts[h] = CurrentConn
  /\ \A o \in KeyOwners : keys[o] = psk
RoutesSet  == SyncRoutes => routes = {RouteOf(e) : e \in RemoteEntries}
StaleSpent == HostTunnel => \A h \in RemoteHosts : staleLocal[h] = {}
OthersGone == \A h \in Host \ RemoteHosts : hosts[h] = NoConn

TailGoals ==
  pc[mu] \in TailPhase \/ (pc[mu] = "end" /\ ~firstErr) =>
    /\ ~firstErr /\ Served
    /\ IF pc[mu] = "add" THEN policies \cup toAdd = Desired ELSE policies = Desired
    /\ pc[mu] \in {"reap", "peers", "remove", "end"} => RoutesSet
    /\ pc[mu] \in {"peers", "remove", "end"} => StaleSpent
    /\ pc[mu] = "end" => OthersGone

PassGoals ==
  /\ pc[mu] = "keys" => StartGoals
  /\ pc[mu] \in LoopPhase => LoopGoals
  /\ TailGoals

(* Between passes, after one that returned nil.                            *)
Settled ==
  /\ policies = Desired /\ RoutesSet /\ StaleSpent /\ OthersGone /\ tmpl \in Rev
  /\ \A h \in RemoteHosts : hosts[h] = CurrentConn
  /\ \A o \in KeyOwners : keys[o] = psk

GoalInv ==
  ~moved => (mu # Nobody => PassGoals) /\ (mu = Nobody /\ last = "nil" => Settled)

(* What the caches say at any time: a host the process does not know owes  *)
(* no stale address, and outside doubt charon has what o.hosts says (Found *)
(* is a connection of an earlier process).                                 *)
CacheInv ==
  /\ ~up => mu = Nobody /\ moved /\ last = "none" /\ \A h \in Host : staleLocal[h] = {}
  /\ \A h \in Host : hosts[h] = NoConn => staleLocal[h] = {}
  /\ up => \A h \in Host \ doubt : conns[h] = hosts[h] \/ hosts[h] = Found

-----------------------------------------------------------------------------
(* What the store asks for depends on the store alone.                     *)
LEMMA TargetKept ==
  ASSUME UNCHANGED <<self, entries>>
  PROVE  /\ RemoteEntries' = RemoteEntries /\ RemoteHosts' = RemoteHosts
         /\ Desired' = Desired /\ KeyOwners' = KeyOwners
         /\ LocalTunnelAddress(self)' = LocalTunnelAddress(self)
         /\ \A S : PoliciesFor(S)' = PoliciesFor(S)
<1>1. LocalTunnelAddress(self)' = LocalTunnelAddress(self)
  BY DEF LocalTunnelAddress
<1>2. RemoteEntries' = RemoteEntries
  BY DEF RemoteEntries
<1>3. RemoteHosts' = RemoteHosts
  BY <1>2 DEF RemoteHosts
<1>4. \A S : PoliciesFor(S)' = PoliciesFor(S)
  BY <1>1 DEF PoliciesFor, PoliciesOf
<1>5. Desired' = Desired
  BY <1>1, <1>2 DEF Desired, PoliciesOf
<1>6. KeyOwners' = KeyOwners
  BY <1>3 DEF KeyOwners
<1> QED BY <1>1, <1>2, <1>3, <1>4, <1>5, <1>6

(* The policies of all remote entries are the desired ones.                *)
LEMMA DesiredIsAll == Desired = PoliciesFor(RemoteEntries)
  BY DEF Desired, PoliciesFor

(* A step that leaves the running pass, its tables and caches alone, and   *)
(* admits it when it replaces the store.                                   *)
LEMMA GoalsFrame ==
  ASSUME GoalInv, mu' = mu, mu # Nobody => pc'[mu] = pc[mu],
         ~moved' => ~moved /\ UNCHANGED <<self, entries, psk>>,
         last' = last \/ (mu = Nobody /\ last' # "nil"),
         UNCHANGED <<passVars, hosts, keys, staleLocal, policies, routes>>
  PROVE  GoalInv'
<1> SUFFICES ASSUME ~moved' PROVE (mu # Nobody => PassGoals') /\ (mu = Nobody /\ last' = "nil" => Settled')
  BY DEF GoalInv
<1>1. UNCHANGED <<self, entries, psk>> /\ ~moved
  OBVIOUS
<1>2. /\ RemoteEntries' = RemoteEntries /\ RemoteHosts' = RemoteHosts /\ Desired' = Desired
      /\ KeyOwners' = KeyOwners /\ LocalTunnelAddress(self)' = LocalTunnelAddress(self)
      /\ \A S : PoliciesFor(S)' = PoliciesFor(S)
  BY <1>1, TargetKept
<1>3. CurrentConn' = CurrentConn
  BY <1>1, <1>2 DEF CurrentConn, passVars
<1>4. RoutesSet' = RoutesSet /\ StaleSpent' = StaleSpent /\ OthersGone' = OthersGone
  BY <1>2 DEF RoutesSet, StaleSpent, OthersGone
<1>5. ASSUME mu # Nobody PROVE PassGoals'
  <2>1. PassGoals
    BY <1>1, <1>5 DEF GoalInv
  <2>2. \A e : Handled(e)' <=> Handled(e)
    BY <1>5 DEF Handled, passVars
  <2>3. Done' = Done
    BY <1>2, <2>2 DEF Done
  <2>4. PoliciesFor(Done)' = PoliciesFor(Done)
    BY <1>2, <2>3 DEF PoliciesFor
  <2>5. pc[mu] \in LoopPhase => LoopGoals'
    BY <1>1, <1>2, <1>3, <1>5, <2>1, <2>3, <2>4
       DEF PassGoals, LoopGoals, LoopProgress, PolicyProgress, ConnProgress, KeyProgress, passVars
  <2>6. pc[mu] = "keys" => StartGoals'
    BY <1>5, <2>1 DEF PassGoals, StartGoals, passVars
  <2>7. TailGoals'
    BY <1>1, <1>2, <1>3, <1>4, <1>5, <2>1 DEF PassGoals, TailGoals, Served, passVars
  <2> QED BY <1>5, <2>5, <2>6, <2>7 DEF PassGoals
<1>6. ASSUME mu = Nobody, last' = "nil" PROVE Settled'
  BY <1>1, <1>2, <1>3, <1>4, <1>6 DEF GoalInv, Settled, passVars
<1> QED BY <1>5, <1>6

(* The connection cache: every step keeps it in step with charon outside   *)
(* doubt.                                                                  *)
LEMMA CacheInvInductive ==
  ASSUME TypeInv, CacheInv, [Next]_vars
  PROVE  CacheInv'
<1> USE SentinelAssumption
<1>1. /\ hosts \in [Host -> Fingerprint \cup {NoConn, Found}]
      /\ conns \in [Host -> Fingerprint \cup {NoConn}]
      /\ staleLocal \in [Host -> SUBSET Host]
  BY DEF TypeInv, TypeOK, CacheOK, CharonOK
<1>2. ASSUME UNCHANGED <<hosts, staleLocal, conns, doubt>>, up' = up,
             ~up => UNCHANGED <<mu, moved, last>>
      PROVE  CacheInv'
  BY <1>2 DEF CacheInv
<1>3. ASSUME UNCHANGED vars \/ ChangeDoc \/ ChangeFiles \/ \E h \in Host : InitiateDone(h)
      PROVE  CacheInv'
  BY <1>2, <1>3 DEF vars, ChangeDoc, ChangeFiles, InitiateDone, cacheVars, charonVars
<1>4. ASSUME CharonRestart PROVE CacheInv'
  BY <1>4 DEF CharonRestart, CharonGone, cacheVars, CacheInv
<1>5. ASSUME Exit PROVE CacheInv'
  BY <1>5 DEF Exit, CacheInv
<1>6. ASSUME Boot PROVE CacheInv'
  BY <1>1, <1>6 DEF Boot, CacheInv
<1>7. ASSUME NEW r \in Reloader,
             \/ Fetch(r) \/ StoreSelf(r) \/ StoreEntries(r) \/ ReadPsk(r) \/ ConfigureBegin(r)
             \/ LoadDefaultKey(r) \/ TakeEntry(r) \/ AddHostKey(r)
      PROVE  CacheInv'
  <2>1. up /\ UNCHANGED <<up, hosts, staleLocal, conns, doubt>>
    BY <1>7 DEF Fetch, StoreSelf, StoreEntries, ReadPsk, ConfigureBegin, LoadDefaultKey, TakeEntry,
                AddHostKey, InPass, cacheVars, charonVars
  <2> QED BY <1>2, <2>1
<1>8. ASSUME NEW r \in Reloader,
             AddRules(r) \/ DeletePolicies(r) \/ AddPolicies(r) \/ SyncHostRoutes(r) \/ ConfigureEnd(r)
      PROVE  CacheInv'
  <2>1. up /\ UNCHANGED <<up, hosts, staleLocal, conns, doubt>>
    BY <1>8 DEF AddRules, DeletePolicies, AddPolicies, SyncHostRoutes, ConfigureEnd, InPass,
                cacheVars, charonVars
  <2> QED BY <1>2, <2>1
<1>9. ASSUME NEW r \in Reloader, AddHostConnection(r) PROVE CacheInv'
  <2> DEFINE h == cur.host
             fp == [rev |-> tmpl, agent |-> agent, tunnel |-> LocalTunnelAddress(self)]
  <2>1. fp \in Fingerprint /\ h \in Host /\ up /\ up'
    BY <1>9, TunnelType DEF AddHostConnection, InPass, TypeInv, TypeOK, StoreOK, LocalsSet, BusyPhase,
                            Entry, Fingerprint
  <2> HIDE DEF fp, h
  <2>2. CASE UNCHANGED <<hosts, staleLocal, conns, doubt>>
    BY <1>2, <2>1, <2>2
  <2>3. CASE ConnectionLoaded(h, fp)
    BY <1>1, <2>1, <2>3 DEF ConnectionLoaded, CacheInv
  <2>4. CASE /\ UNCHANGED <<hosts, staleLocal>>
             /\ conns' = [conns EXCEPT ![h] = fp] /\ doubt' = doubt \cup {h}
    BY <1>1, <2>1, <2>4 DEF CacheInv
  <2> QED BY <1>9, <2>2, <2>3, <2>4 DEF AddHostConnection, ConnectionRefused, charonVars, h, fp
<1>10. ASSUME NEW r \in Reloader, ReapStaleLocal(r) PROVE CacheInv'
  BY <1>1, <1>10 DEF ReapStaleLocal, InPass, charonVars, CacheInv
<1>11. ASSUME NEW r \in Reloader, RestartForStalePeers(r) PROVE CacheInv'
  <2>1. up /\ UNCHANGED <<up, hosts, staleLocal>>
        /\ (UNCHANGED <<conns, doubt>> \/ doubt' = Host)
    BY <1>11 DEF RestartForStalePeers, InPass, CharonGone, cacheVars, charonVars
  <2> QED BY <2>1 DEF CacheInv
<1>12. ASSUME NEW r \in Reloader, RemoveHosts(r) PROVE CacheInv'
  <2>1. PICK gone \in SUBSET Host, lost \in SUBSET Host :
          /\ hosts' = [h \in Host |-> IF h \in gone THEN NoConn ELSE hosts[h]]
          /\ staleLocal' = [h \in Host |-> IF h \in gone THEN {} ELSE staleLocal[h]]
          /\ conns' = [h \in Host |-> IF h \in gone \cup lost THEN NoConn ELSE conns[h]]
          /\ doubt' = (doubt \cup lost) \ gone
    BY <1>12 DEF RemoveHosts, Victims
  <2>2. up /\ up'
    BY <1>12 DEF RemoveHosts, InPass
  <2> QED BY <1>1, <2>1, <2>2 DEF CacheInv
<1> QED BY <1>3, <1>4, <1>5, <1>6, <1>7, <1>8, <1>9, <1>10, <1>11, <1>12 DEF Next, ReloadStep

-----------------------------------------------------------------------------
(* ConfigureBegin: nothing is wanted, attempted or queued yet.             *)
LEMMA BeginGoals ==
  ASSUME TypeInv, ClaimedInv, GoalInv, NEW r \in Reloader, ConfigureBegin(r)
  PROVE  GoalInv'
<1> USE SentinelAssumption
<1>0. pc \in [Reloader -> OutsidePhase \cup PassPhase]
  BY DEF TypeInv, TypeOK, ControlOK
<1>1. CASE Goto(r, "idle") /\ last' = "err" /\ UNCHANGED <<mu, passVars, moved>>
  <2>1. mu = Nobody /\ UNCHANGED <<self, entries, psk, hosts, keys, staleLocal, policies, routes>>
    BY DEF ConfigureBegin, storeVars, cacheVars, kernelVars
  <2> QED BY <1>1, <2>1, GoalsFrame
<1>2. CASE /\ mu' = r /\ Goto(r, "keys") /\ toAdd' = {} /\ passHosts' = {} /\ want' = {} /\ attempt' = {}
           /\ (existing' = policies \/ firstErr' = TRUE)
  <2>1. pc'[mu'] = "keys" /\ policies' = policies
    BY <1>0, <1>2 DEF Goto, ConfigureBegin, kernelVars
  <2> QED BY <1>2, <2>1 DEF GoalInv, PassGoals, StartGoals, TailGoals, LoopPhase, TailPhase
<1> QED BY <1>1, <1>2 DEF ConfigureBegin

(* LoadDefaultKey: the default key is current, all entries are to come.    *)
LEMMA DefaultKeyGoals ==
  ASSUME TypeInv, ClaimedInv, GoalInv, NEW r \in Reloader, LoadDefaultKey(r)
  PROVE  GoalInv'
<1> USE SentinelAssumption
<1>1. /\ mu = r /\ mu # Nobody /\ mu' = mu /\ pc[mu] = "keys" /\ pc'[mu'] = "loop" /\ moved' = moved
      /\ todo' = entries
      /\ UNCHANGED <<self, entries, psk, existing, toAdd, want, passHosts, attempt, policies>>
      /\ ~firstErr' => ~firstErr /\ keys' = [keys EXCEPT ![AnyPeer] = psk]
  BY DEF LoadDefaultKey, InPass, Goto, KeyLoaded, storeVars, kernelVars, TypeInv, TypeOK, ControlOK
<1> SUFFICES ASSUME ~moved PROVE LoopGoals'
  BY <1>1 DEF GoalInv, PassGoals, TailGoals, LoopPhase, TailPhase
<1>2. StartGoals
  BY <1>1 DEF GoalInv, PassGoals
<1>3. RemoteEntries' = RemoteEntries /\ RemoteEntries \subseteq entries
  BY <1>1, TargetKept DEF RemoteEntries
<1>4. Done' = {}
  BY <1>1, <1>3 DEF Done, Handled, BusyPhase
<1>5. PoliciesFor(Done)' = {}
  BY <1>4 DEF PoliciesFor
<1>6. LoopProgress'
  BY <1>1, <1>2, <1>3 DEF StartGoals, LoopProgress, BusyPhase
<1>7. ~firstErr' => PolicyProgress'
  BY <1>1, <1>2, <1>5 DEF StartGoals, PolicyProgress
<1>8. ~firstErr' => ConnProgress'
  BY <1>1, <1>2, <1>4 DEF StartGoals, ConnProgress
<1>9. ~firstErr' => KeyProgress'
  BY <1>1, <1>2 DEF StartGoals, KeyProgress, TypeInv, TypeOK, CacheOK, Owner
<1> QED BY <1>6, <1>7, <1>8, <1>9 DEF LoopGoals

(* TakeEntry: a remote entry becomes the current one and its host wanted;  *)
(* a local one is done with.                                               *)
LEMMA TakeEntryGoals ==
  ASSUME TypeInv, ClaimedInv, GoalInv, NEW r \in Reloader, TakeEntry(r)
  PROVE  GoalInv'
<1> USE SentinelAssumption
<1>1. /\ mu = r /\ mu # Nobody /\ mu' = mu /\ pc[mu] = "loop" /\ moved' = moved
      /\ UNCHANGED <<self, entries, psk, existing, toAdd, passHosts, attempt, policies, hosts, tmpl, agent>>
  BY DEF TakeEntry, InPass, storeVars, kernelVars
<1>2. PICK e \in todo :
        /\ todo' = todo \ {e} /\ cur' = e
        /\ ~firstErr' => ~firstErr /\ (keys' = [keys EXCEPT ![e.ip] = psk] \/ (~e.peer /\ keys' = keys))
        /\ IF e.host = localHost
           THEN pc'[mu'] = "loop" /\ want' = want
           ELSE want' = want \cup {e} /\ pc'[mu'] = (IF e.host \in passHosts THEN "rules" ELSE "host")
  BY <1>1 DEF TakeEntry, Goto, KeyLoaded, TypeInv, TypeOK, ControlOK
<1> SUFFICES ASSUME ~moved PROVE LoopGoals'
  BY <1>1, <1>2 DEF GoalInv, PassGoals, TailGoals, LoopPhase, TailPhase
<1>3. LoopGoals /\ localHost = self.host
  BY <1>1 DEF GoalInv, PassGoals, LoopPhase, ClaimedInv
<1>4. /\ RemoteEntries' = RemoteEntries /\ \A S : PoliciesFor(S)' = PoliciesFor(S)
      /\ LocalTunnelAddress(self)' = LocalTunnelAddress(self)
  BY <1>1, TargetKept
<1>5. e \in RemoteEntries <=> e.host # localHost
  BY <1>2, <1>3 DEF LoopGoals, LoopProgress, RemoteEntries
<1>6. Done' = Done
  BY <1>1, <1>2, <1>4, <1>5 DEF Done, Handled, BusyPhase
<1>7. PoliciesFor(Done)' = PoliciesFor(Done)
  BY <1>4, <1>6 DEF PoliciesFor
<1>8. LoopProgress'
  BY <1>1, <1>2, <1>3, <1>4, <1>5 DEF LoopGoals, LoopProgress, BusyPhase
<1>9. ~firstErr' => PolicyProgress'
  BY <1>1, <1>2, <1>3, <1>7 DEF LoopGoals, PolicyProgress
<1>10. CurrentConn' = CurrentConn
  BY <1>1, <1>4 DEF CurrentConn
<1>11. ~firstErr' => ConnProgress'
  BY <1>1, <1>2, <1>3, <1>6, <1>10 DEF LoopGoals, ConnProgress
<1>12. ~firstErr' => KeyProgress'
  BY <1>1, <1>2, <1>3 DEF LoopGoals, KeyProgress, TypeInv, TypeOK, CacheOK, PassOK, StoreOK, Owner, Entry
<1> QED BY <1>8, <1>9, <1>11, <1>12 DEF LoopGoals

(* AddHostKey: the host's key is current and the host attempted.           *)
LEMMA HostKeyGoals ==
  ASSUME TypeInv, ClaimedInv, GoalInv, NEW r \in Reloader, AddHostKey(r)
  PROVE  GoalInv'
<1> USE SentinelAssumption
<1>1. /\ mu = r /\ mu # Nobody /\ mu' = mu /\ pc[mu] = "host" /\ moved' = moved
      /\ UNCHANGED <<self, entries, psk, existing, toAdd, passHosts, want, todo, cur, policies, hosts, tmpl>>
  BY DEF AddHostKey, InPass, storeVars, kernelVars
<1>2. \/ /\ pc'[mu'] = "conn" /\ keys' = [keys EXCEPT ![cur.host] = psk]
         /\ attempt' = attempt \cup {cur.host} /\ agent' = self.host /\ firstErr' = firstErr
      \/ pc'[mu'] = "rules" /\ firstErr' /\ attempt' = attempt
  BY <1>1 DEF AddHostKey, Goto, KeyLoaded, KeyRefused, TypeInv, TypeOK, ControlOK
<1> SUFFICES ASSUME ~moved PROVE LoopGoals'
  BY <1>1, <1>2 DEF GoalInv, PassGoals, TailGoals, LoopPhase, TailPhase
<1>3. LoopGoals
  BY <1>1 DEF GoalInv, PassGoals, LoopPhase
<1>4. RemoteEntries' = RemoteEntries /\ LocalTunnelAddress(self)' = LocalTunnelAddress(self)
  BY <1>1, TargetKept
<1>5. Done' = Done
  BY <1>1, <1>2, <1>4 DEF Done, Handled, BusyPhase
<1>6. PoliciesFor(Done)' = PoliciesFor(Done)
  BY <1>4, <1>5 DEF PoliciesFor, PoliciesOf
<1>7. LoopProgress'
  BY <1>1, <1>2, <1>3, <1>4 DEF LoopGoals, LoopProgress, BusyPhase
<1>8. CurrentConn' = CurrentConn
  BY <1>1, <1>4 DEF CurrentConn
<1>9. ~firstErr' => PolicyProgress'
  BY <1>1, <1>2, <1>3, <1>6 DEF LoopGoals, PolicyProgress
<1>10. ~firstErr' => ConnProgress'
  BY <1>1, <1>2, <1>3, <1>5, <1>8 DEF LoopGoals, ConnProgress
<1>11. ~firstErr' => KeyProgress'
  BY <1>1, <1>2, <1>3 DEF LoopGoals, LoopProgress, KeyProgress, BusyPhase, TypeInv, TypeOK, LocalsSet,
                          CacheOK, PassOK, StoreOK, Owner, Entry
<1> QED BY <1>7, <1>9, <1>10, <1>11 DEF LoopGoals

(* AddHostConnection: the host carries the current connection, built from  *)
(* two reads of a store that stood still.                                  *)
LEMMA ConnectionGoals ==
  ASSUME TypeInv, ClaimedInv, GoalInv, NEW r \in Reloader, AddHostConnection(r)
  PROVE  GoalInv'
<1> USE SentinelAssumption
<1> DEFINE h == cur.host
           fp == [rev |-> tmpl, agent |-> agent, tunnel |-> LocalTunnelAddress(self)]
<1>1. /\ mu = r /\ mu # Nobody /\ mu' = mu /\ pc[mu] = "conn" /\ moved' = moved /\ pc'[mu'] = "rules"
      /\ UNCHANGED <<self, entries, psk, existing, toAdd, attempt, want, todo, cur, policies, keys, tmpl>>
  BY DEF AddHostConnection, InPass, Goto, storeVars, kernelVars, TypeInv, TypeOK, ControlOK
<1>2. \/ /\ passHosts' = passHosts \cup {h} /\ firstErr' = firstErr
         /\ hosts' = [hosts EXCEPT ![h] = fp]
      \/ firstErr' /\ passHosts' = passHosts
  BY DEF AddHostConnection, ConnectionLoaded, TypeInv, TypeOK, CacheOK
<1> SUFFICES ASSUME ~moved PROVE LoopGoals'
  BY <1>1 DEF GoalInv, PassGoals, TailGoals, LoopPhase, TailPhase
<1>3. LoopGoals /\ h \in Host
  BY <1>1 DEF GoalInv, PassGoals, LoopPhase, TypeInv, LocalsSet, BusyPhase, Entry
<1>4. RemoteEntries' = RemoteEntries /\ LocalTunnelAddress(self)' = LocalTunnelAddress(self)
  BY <1>1, TargetKept
<1>5. Done' = Done
  BY <1>1, <1>4 DEF Done, Handled, BusyPhase
<1>6. PoliciesFor(Done)' = PoliciesFor(Done)
  BY <1>4, <1>5 DEF PoliciesFor, PoliciesOf
<1>7. CurrentConn' = CurrentConn /\ fp = CurrentConn
  BY <1>1, <1>3, <1>4 DEF CurrentConn, LoopGoals, LoopProgress
<1> HIDE DEF fp
<1>8. LoopProgress'
  BY <1>1, <1>2, <1>3, <1>4 DEF LoopGoals, LoopProgress, BusyPhase
<1>9. ~firstErr' => PolicyProgress'
  BY <1>1, <1>2, <1>3, <1>6 DEF LoopGoals, PolicyProgress
<1>10. ~firstErr' => ConnProgress'
  BY <1>1, <1>2, <1>3, <1>5, <1>7 DEF LoopGoals, ConnProgress, TypeInv, TypeOK, CacheOK, PassOK
<1>11. ~firstErr' => KeyProgress'
  BY <1>1, <1>2, <1>3 DEF LoopGoals, KeyProgress
<1> QED BY <1>8, <1>9, <1>10, <1>11 DEF LoopGoals

(* AddRules: the current entry's policies are claimed or queued.           *)
LEMMA RulesGoals ==
  ASSUME TypeInv, ClaimedInv, GoalInv, NEW r \in Reloader, AddRules(r)
  PROVE  GoalInv'
<1> USE SentinelAssumption
<1> DEFINE P == PoliciesOf(cur, LocalTunnelAddress(self))
<1>1. /\ mu = r /\ mu # Nobody /\ mu' = mu /\ pc[mu] = "rules" /\ moved' = moved /\ pc'[mu'] = "loop"
      /\ UNCHANGED <<self, entries, psk, firstErr, attempt, passHosts, want, todo, cur, policies, keys,
                     hosts, tmpl>>
      /\ existing' = existing \ P /\ toAdd' = toAdd \cup (P \ existing)
  BY DEF AddRules, InPass, Goto, storeVars, cacheVars, kernelVars, TypeInv, TypeOK, ControlOK
<1> SUFFICES ASSUME ~moved PROVE LoopGoals'
  BY <1>1 DEF GoalInv, PassGoals, TailGoals, LoopPhase, TailPhase
<1>2. LoopGoals
  BY <1>1 DEF GoalInv, PassGoals, LoopPhase
<1>3. RemoteEntries' = RemoteEntries /\ LocalTunnelAddress(self)' = LocalTunnelAddress(self)
  BY <1>1, TargetKept
<1>4. Done' = Done \cup {cur}
  BY <1>1, <1>2, <1>3 DEF Done, Handled, BusyPhase, LoopGoals, LoopProgress
<1>5. PoliciesFor(Done)' = PoliciesFor(Done) \cup P
  BY <1>3, <1>4 DEF PoliciesFor, PoliciesOf
<1> HIDE DEF P
<1>6. LoopProgress'
  BY <1>1, <1>2, <1>3 DEF LoopGoals, LoopProgress, BusyPhase
<1>7. ~firstErr' => PolicyProgress'
  BY <1>1, <1>2, <1>5 DEF LoopGoals, PolicyProgress
<1>8. CurrentConn' = CurrentConn
  BY <1>1, <1>3 DEF CurrentConn
<1>9. ~firstErr' => ConnProgress'
  BY <1>1, <1>2, <1>4, <1>8 DEF LoopGoals, ConnProgress
<1>10. ~firstErr' => KeyProgress'
  BY <1>1, <1>2 DEF LoopGoals, KeyProgress
<1> QED BY <1>6, <1>7, <1>9, <1>10 DEF LoopGoals

-----------------------------------------------------------------------------
(* When the loop is over without an error every remote entry is served.    *)
LEMMA LoopServes ==
  ASSUME TypeInv, LoopGoals, mu # Nobody, pc[mu] = "loop", todo = {}, ~firstErr
  PROVE  Served /\ existing \subseteq policies /\ (policies \ existing) \cup toAdd = Desired
<1>1. Done = RemoteEntries
  BY DEF Done, Handled, BusyPhase
<1>2. existing \subseteq policies /\ (policies \ existing) \cup toAdd = Desired
  BY <1>1, DesiredIsAll DEF LoopGoals, PolicyProgress
<1>3. want = RemoteEntries
  BY DEF LoopGoals, LoopProgress
<1>4. RemoteHosts \subseteq passHosts /\ passHosts \subseteq attempt /\ attempt \subseteq RemoteHosts
  BY <1>1, <1>3 DEF LoopGoals, LoopProgress, ConnProgress, RemoteHosts
<1>5. \A h \in RemoteHosts : hosts[h] = CurrentConn
  BY <1>4 DEF LoopGoals, ConnProgress
<1>6. \A o \in KeyOwners : keys[o] = psk
  BY <1>4 DEF LoopGoals, KeyProgress, KeyOwners
<1> QED BY <1>2, <1>3, <1>4, <1>5, <1>6 DEF Served

(* Served, through a step that leaves the store and its caches alone.      *)
LEMMA ServedKept ==
  ASSUME Served, UNCHANGED <<self, entries, psk, want, attempt, passHosts, keys, tmpl>>,
         \A h \in RemoteHosts : hosts'[h] = hosts[h]
  PROVE  Served'
<1>1. /\ RemoteEntries' = RemoteEntries /\ RemoteHosts' = RemoteHosts /\ KeyOwners' = KeyOwners
      /\ LocalTunnelAddress(self)' = LocalTunnelAddress(self)
  BY TargetKept
<1>2. CurrentConn' = CurrentConn
  BY <1>1 DEF CurrentConn
<1> QED BY <1>1, <1>2 DEF Served

(* DeletePolicies: of the desired policies only those queued are missing.  *)
LEMMA DeleteGoals ==
  ASSUME TypeInv, ClaimedInv, GoalInv, NEW r \in Reloader, DeletePolicies(r)
  PROVE  GoalInv'
<1> USE SentinelAssumption
<1>1. /\ mu = r /\ mu # Nobody /\ mu' = mu /\ pc[mu] = "loop" /\ moved' = moved /\ todo = {} /\ ~firstErr
      /\ UNCHANGED <<self, entries, psk, attempt, passHosts, want, keys, hosts, tmpl, toAdd>>
  BY DEF DeletePolicies, InPass, storeVars, cacheVars
<1>2. \/ pc'[mu'] = "add" /\ policies' = policies \ existing /\ ~firstErr'
      \/ pc'[mu'] = "end" /\ firstErr'
  BY <1>1 DEF DeletePolicies, Goto, TypeInv, TypeOK, ControlOK
<1>3. CASE ~moved /\ pc'[mu'] = "add"
  <2>1. LoopGoals
    BY <1>1, <1>3 DEF GoalInv, PassGoals, LoopPhase
  <2>2. Served /\ (policies \ existing) \cup toAdd = Desired
    BY <1>1, <2>1, LoopServes
  <2>3. Served' /\ Desired' = Desired
    BY <1>1, <2>2, ServedKept, TargetKept
  <2> QED BY <1>1, <1>2, <1>3, <2>2, <2>3 DEF GoalInv, PassGoals, TailGoals, LoopPhase, TailPhase
<1>4. CASE moved \/ pc'[mu'] = "end"
  BY <1>1, <1>2, <1>4 DEF GoalInv, PassGoals, TailGoals, LoopPhase, TailPhase
<1> QED BY <1>2, <1>3, <1>4

(* AddPolicies: if nothing is refused the kernel has the desired policies. *)
LEMMA AddGoals ==
  ASSUME TypeInv, ClaimedInv, GoalInv, NEW r \in Reloader, AddPolicies(r)
  PROVE  GoalInv'
<1> USE SentinelAssumption
<1>1. /\ mu = r /\ mu # Nobody /\ mu' = mu /\ pc[mu] = "add" /\ moved' = moved
      /\ UNCHANGED <<self, entries, psk, attempt, passHosts, want, keys, hosts, tmpl>>
  BY DEF AddPolicies, InPass, storeVars, cacheVars
<1>2. \/ pc'[mu'] = "routes" /\ policies' = policies \cup toAdd /\ firstErr' = firstErr
      \/ pc'[mu'] = "end" /\ firstErr'
  BY <1>1 DEF AddPolicies, Goto, TypeInv, TypeOK, ControlOK
<1>3. CASE ~moved /\ pc'[mu'] = "routes"
  <2>1. Served /\ ~firstErr /\ policies \cup toAdd = Desired
    BY <1>1, <1>3 DEF GoalInv, PassGoals, TailGoals, TailPhase
  <2>2. Served' /\ Desired' = Desired
    BY <1>1, <2>1, ServedKept, TargetKept
  <2> QED BY <1>1, <1>2, <1>3, <2>1, <2>2 DEF GoalInv, PassGoals, TailGoals, LoopPhase, TailPhase
<1>4. CASE moved \/ pc'[mu'] = "end"
  BY <1>1, <1>2, <1>4 DEF GoalInv, PassGoals, TailGoals, LoopPhase, TailPhase
<1> QED BY <1>2, <1>3, <1>4

(* SyncHostRoutes: the routes are those of the wanted entries, which are   *)
(* the remote ones.                                                        *)
LEMMA RouteGoals ==
  ASSUME TypeInv, ClaimedInv, GoalInv, NEW r \in Reloader, SyncHostRoutes(r)
  PROVE  GoalInv'
<1> USE SentinelAssumption
<1>1. /\ mu = r /\ mu # Nobody /\ mu' = mu /\ pc[mu] = "routes" /\ moved' = moved
      /\ UNCHANGED <<self, entries, psk, attempt, passHosts, want, keys, hosts, tmpl, policies>>
  BY DEF SyncHostRoutes, InPass, storeVars, cacheVars
<1>2. \/ pc'[mu'] = "reap" /\ firstErr' = firstErr /\ (SyncRoutes => routes' = {RouteOf(e) : e \in want})
      \/ pc'[mu'] = "end" /\ firstErr'
  BY <1>1 DEF SyncHostRoutes, Goto, TypeInv, TypeOK, ControlOK
<1>3. CASE ~moved /\ pc'[mu'] = "reap"
  <2>1. Served /\ ~firstErr /\ policies = Desired
    BY <1>1, <1>3 DEF GoalInv, PassGoals, TailGoals, TailPhase
  <2>2. Served' /\ Desired' = Desired /\ RemoteEntries' = RemoteEntries
    BY <1>1, <2>1, ServedKept, TargetKept
  <2>3. RoutesSet'
    BY <1>2, <1>3, <2>1, <2>2 DEF RoutesSet, Served
  <2> QED BY <1>1, <1>2, <1>3, <2>1, <2>2, <2>3 DEF GoalInv, PassGoals, TailGoals, LoopPhase, TailPhase
<1>4. CASE moved \/ pc'[mu'] = "end"
  BY <1>1, <1>2, <1>4 DEF GoalInv, PassGoals, TailGoals, LoopPhase, TailPhase
<1> QED BY <1>2, <1>3, <1>4

(* ReapStaleLocal: the hosts of the pass, the remote ones, owe nothing.    *)
LEMMA ReapGoals ==
  ASSUME TypeInv, ClaimedInv, GoalInv, NEW r \in Reloader, ReapStaleLocal(r)
  PROVE  GoalInv'
<1> USE SentinelAssumption
<1>1. /\ mu = r /\ mu # Nobody /\ mu' = mu /\ pc[mu] = "reap" /\ moved' = moved
      /\ UNCHANGED <<self, entries, psk, attempt, passHosts, want, keys, hosts, tmpl, policies, routes>>
  BY DEF ReapStaleLocal, InPass, storeVars, kernelVars
<1>2. \/ /\ pc'[mu'] = "peers" /\ firstErr' = firstErr
         /\ HostTunnel => \A h \in passHosts : staleLocal'[h] = {}
      \/ pc'[mu'] = "end" /\ firstErr'
  BY <1>1 DEF ReapStaleLocal, Goto, TypeInv, TypeOK, ControlOK, PassOK
<1>3. CASE ~moved /\ pc'[mu'] = "peers"
  <2>1. Served /\ ~firstErr /\ policies = Desired /\ RoutesSet
    BY <1>1, <1>3 DEF GoalInv, PassGoals, TailGoals, TailPhase
  <2>2. Served' /\ Desired' = Desired /\ RemoteEntries' = RemoteEntries /\ RemoteHosts' = RemoteHosts
    BY <1>1, <2>1, ServedKept, TargetKept
  <2>3. RoutesSet' /\ StaleSpent'
    BY <1>1, <1>2, <1>3, <2>1, <2>2 DEF RoutesSet, StaleSpent, Served
  <2> QED BY <1>1, <1>2, <1>3, <2>1, <2>2, <2>3 DEF GoalInv, PassGoals, TailGoals, LoopPhase, TailPhase
<1>4. CASE moved \/ pc'[mu'] = "end"
  BY <1>1, <1>2, <1>4 DEF GoalInv, PassGoals, TailGoals, LoopPhase, TailPhase
<1> QED BY <1>2, <1>3, <1>4

(* RestartForStalePeers: charon may be gone, the pass' own tables stand.   *)
LEMMA PeersGoals ==
  ASSUME TypeInv, ClaimedInv, GoalInv, NEW r \in Reloader, RestartForStalePeers(r)
  PROVE  GoalInv'
<1> USE SentinelAssumption
<1>1. /\ mu = r /\ mu # Nobody /\ mu' = mu /\ pc[mu] = "peers" /\ moved' = moved
      /\ UNCHANGED <<self, entries, psk, attempt, passHosts, want, keys, hosts, tmpl, policies, routes,
                     staleLocal>>
  BY DEF RestartForStalePeers, InPass, storeVars, cacheVars, kernelVars
<1>2. (pc'[mu'] = "remove" /\ firstErr' = firstErr) \/ (pc'[mu'] = "end" /\ firstErr')
  BY <1>1 DEF RestartForStalePeers, Goto, TypeInv, TypeOK, ControlOK
<1>3. CASE ~moved /\ pc'[mu'] = "remove"
  <2>1. Served /\ ~firstErr /\ policies = Desired /\ RoutesSet /\ StaleSpent
    BY <1>1, <1>3 DEF GoalInv, PassGoals, TailGoals, TailPhase
  <2>2. Served' /\ Desired' = Desired /\ RemoteEntries' = RemoteEntries /\ RemoteHosts' = RemoteHosts
    BY <1>1, <2>1, ServedKept, TargetKept
  <2>3. RoutesSet' /\ StaleSpent'
    BY <1>1, <2>1, <2>2 DEF RoutesSet, StaleSpent
  <2> QED BY <1>1, <1>2, <1>3, <2>1, <2>2, <2>3 DEF GoalInv, PassGoals, TailGoals, LoopPhase, TailPhase
<1>4. CASE moved \/ pc'[mu'] = "end"
  BY <1>1, <1>2, <1>4 DEF GoalInv, PassGoals, TailGoals, LoopPhase, TailPhase
<1> QED BY <1>2, <1>3, <1>4

(* RemoveHosts: if every victim went, only the remote hosts are known.     *)
LEMMA RemoveGoals ==
  ASSUME TypeInv, ClaimedInv, GoalInv, NEW r \in Reloader, RemoveHosts(r)
  PROVE  GoalInv'
<1> USE SentinelAssumption
<1>1. /\ mu = r /\ mu # Nobody /\ mu' = mu /\ pc[mu] = "remove" /\ moved' = moved /\ pc'[mu'] = "end"
      /\ UNCHANGED <<self, entries, psk, attempt, passHosts, want, keys, tmpl, policies, routes>>
  BY DEF RemoveHosts, InPass, Goto, storeVars, kernelVars, TypeInv, TypeOK, ControlOK
<1>2. PICK gone \in SUBSET Victims :
        /\ hosts' = [h \in Host |-> IF h \in gone THEN NoConn ELSE hosts[h]]
        /\ staleLocal' = [h \in Host |-> IF h \in gone THEN {} ELSE staleLocal[h]]
        /\ firstErr' = (gone # Victims)
  BY DEF RemoveHosts
<1>3. CASE ~moved /\ gone = Victims
  <2>1. Served /\ ~firstErr /\ policies = Desired /\ RoutesSet /\ StaleSpent
    BY <1>1, <1>3 DEF GoalInv, PassGoals, TailGoals, TailPhase
  <2>2. RemoteHosts \subseteq Host \ Victims
    BY <2>1 DEF Served, Victims, RemoteHosts, RemoteEntries, TypeInv, TypeOK, StoreOK, Entry
  <2>3. \A h \in RemoteHosts : hosts'[h] = hosts[h] /\ staleLocal'[h] = staleLocal[h]
    BY <1>2, <2>2
  <2>4. Served' /\ Desired' = Desired /\ RemoteEntries' = RemoteEntries /\ RemoteHosts' = RemoteHosts
    BY <1>1, <2>1, <2>3, ServedKept, TargetKept
  <2>5. RoutesSet' /\ StaleSpent'
    BY <1>1, <2>1, <2>3, <2>4 DEF RoutesSet, StaleSpent
  <2>6. OthersGone'
    BY <1>2, <1>3, <2>1, <2>4 DEF OthersGone, Served, Victims
  <2> QED BY <1>1, <2>1, <2>4, <2>5, <2>6, <1>2, <1>3 DEF GoalInv, PassGoals, TailGoals, LoopPhase, TailPhase
<1>4. CASE moved \/ gone # Victims
  BY <1>1, <1>2, <1>4 DEF GoalInv, PassGoals, TailGoals, LoopPhase, TailPhase
<1> QED BY <1>3, <1>4

(* ConfigureEnd: a pass that returns nil leaves what it has reached.       *)
LEMMA EndGoals ==
  ASSUME TypeInv, ClaimedInv, GoalInv, NEW r \in Reloader, ConfigureEnd(r)
  PROVE  GoalInv'
<1> USE SentinelAssumption
<1>1. /\ mu = r /\ mu # Nobody /\ mu' = Nobody /\ moved' = moved
      /\ pc[mu] = "end" \/ firstErr
      /\ last' = (IF firstErr THEN "err" ELSE "nil")
      /\ UNCHANGED <<self, entries, psk, keys, hosts, tmpl, policies, routes, staleLocal>>
  BY DEF ConfigureEnd, InPass, storeVars, kernelVars
<1> SUFFICES ASSUME ~moved, last' = "nil" PROVE Settled'
  BY <1>1 DEF GoalInv
<1>2. pc[mu] = "end" /\ ~firstErr
  BY <1>1
<1>3. Served /\ policies = Desired /\ RoutesSet /\ StaleSpent /\ OthersGone /\ tmpl \in Rev
  BY <1>1, <1>2 DEF GoalInv, PassGoals, TailGoals, TypeInv, LocalsSet
<1>4. /\ RemoteEntries' = RemoteEntries /\ RemoteHosts' = RemoteHosts /\ KeyOwners' = KeyOwners
      /\ Desired' = Desired /\ LocalTunnelAddress(self)' = LocalTunnelAddress(self)
  BY <1>1, TargetKept
<1>5. CurrentConn' = CurrentConn
  BY <1>1, <1>4 DEF CurrentConn
<1> QED BY <1>1, <1>3, <1>4, <1>5 DEF Settled, Served, RoutesSet, StaleSpent, OthersGone

(* Every step keeps the goals the running pass has reached.                *)
LEMMA GoalInvInductive ==
  ASSUME TypeInv, ClaimedInv, CacheInv, GoalInv, [Next]_vars
  PROVE  GoalInv'
<1> USE SentinelAssumption
<1>1. pc \in [Reloader -> OutsidePhase \cup PassPhase]
  BY DEF TypeInv, TypeOK, ControlOK
<1>2. ASSUME UNCHANGED vars \/ ChangeDoc \/ ChangeFiles \/ CharonRestart
             \/ \E h \in Host : InitiateDone(h)
      PROVE  GoalInv'
  <2>1. UNCHANGED <<mu, pc, moved, self, entries, psk, last, passVars, hosts, keys, staleLocal,
                    policies, routes>>
    BY <1>2 DEF vars, ChangeDoc, ChangeFiles, CharonRestart, InitiateDone, storeVars, passVars,
                cacheVars, kernelVars
  <2> QED BY <2>1, GoalsFrame
<1>3. ASSUME Exit \/ Boot PROVE GoalInv'
  BY <1>3 DEF Exit, Boot, GoalInv, CacheInv
<1>4. ASSUME NEW r \in Reloader, Fetch(r) \/ StoreSelf(r) \/ StoreEntries(r) \/ ReadPsk(r)
      PROVE  GoalInv'
  <2>1. /\ pc[r] \in OutsidePhase /\ \E ph \in OutsidePhase : Goto(r, ph)
        /\ UNCHANGED <<mu, last, passVars, hosts, keys, staleLocal, policies, routes>>
    BY <1>4 DEF Fetch, StoreSelf, StoreEntries, ReadPsk, OutsidePhase, cacheVars, kernelVars
  <2>2. ASSUME Fetch(r) \/ ReadPsk(r) PROVE ~moved' => ~moved /\ UNCHANGED <<self, entries, psk>>
    BY <2>2 DEF Fetch, ReadPsk, storeVars
  <2>3. ASSUME StoreSelf(r) \/ StoreEntries(r) PROVE ~moved' => ~moved /\ UNCHANGED <<self, entries, psk>>
    BY <2>3 DEF StoreSelf, StoreEntries
  <2>4. r # mu
    BY <2>1 DEF TypeInv, LocalsSet, OutsidePhase, PassPhase
  <2>5. mu # Nobody => pc'[mu] = pc[mu]
    BY <1>1, <2>1, <2>4 DEF Goto, TypeInv, TypeOK, ControlOK
  <2> QED BY <1>4, <2>1, <2>2, <2>3, <2>5, GoalsFrame
<1> QED BY <1>2, <1>3, <1>4, BeginGoals, DefaultKeyGoals, TakeEntryGoals, HostKeyGoals, ConnectionGoals,
           RulesGoals, DeleteGoals, AddGoals, RouteGoals, ReapGoals, PeersGoals, RemoveGoals, EndGoals
        DEF Next, ReloadStep

(* All that holds of a pass and of the caches.                             *)
ConvergenceInv == TypeInv /\ ClaimedInv /\ CacheInv /\ GoalInv

(* The convergence invariant holds in every reachable state.               *)
LEMMA ConvergenceInvHolds == Spec => []ConvergenceInv
<1>1. Init => ConvergenceInv
  <2>1. ASSUME Init PROVE ClaimedInv /\ CacheInv /\ GoalInv
    BY <2>1 DEF Init, ClaimedInv, CacheInv, GoalInv
  <2> QED BY <2>1, InitTypeInv DEF ConvergenceInv
<1>2. ConvergenceInv /\ [Next]_vars => ConvergenceInv'
  BY TypeInvInductive, ClaimedInvInductive, CacheInvInductive, GoalInvInductive DEF ConvergenceInv
<1> QED BY <1>1, <1>2, PTL DEF Spec

(* For any callers, hosts, documents, keys and templates, and whatever     *)
(* failed before: a configure that returned nil and whose inputs nobody    *)
(* has replaced since has brought policies, routes, the connection cache,  *)
(* charon's connections outside doubt, stale-local authority and keys to   *)
(* what the store asks for.  configure, ipsec.go:229-317.                  *)
THEOREM ConvergedHolds == Spec => []Converged
<1>1. ConvergenceInv => Converged
  <2> SUFFICES ASSUME ConvergenceInv, up, mu = Nobody, last = "nil", ~moved PROVE Converged
    BY DEF Converged
  <2>1. Settled
    BY DEF ConvergenceInv, GoalInv
  <2>2. CurrentConn \in Fingerprint
    BY <2>1, TunnelType DEF Settled, CurrentConn, Fingerprint, ConvergenceInv, TypeInv, TypeOK, StoreOK, Self
  <2>3. \A h \in Host : hosts[h] = IF h \in RemoteHosts THEN CurrentConn ELSE NoConn
    BY <2>1 DEF Settled, OthersGone
  <2>4. \A h \in Host \ doubt : conns[h] = hosts[h]
    BY <2>2, <2>3, SentinelAssumption DEF ConvergenceInv, CacheInv
  <2>5. \A h \in Host : HostTunnel => staleLocal[h] = {}
    BY <2>1, <2>3 DEF Settled, StaleSpent, ConvergenceInv, CacheInv
  <2> QED BY <2>1, <2>3, <2>4, <2>5 DEF Converged, Settled, RoutesSet
<1> QED BY <1>1, ConvergenceInvHolds, PTL

-----------------------------------------------------------------------------
(***************************************************************************)
(* PoliciesCovered, for a pass whose inputs may be replaced under it.  The *)
(* hosts in passHosts have a confirmed key and connection, and as long as  *)
(* the pass has met no error every policy to be added leads to one of      *)
(* them.                                                                   *)
(***************************************************************************)
Confirmed(h)  == hosts[h] \in Fingerprint /\ keys[h] \in Psk
QueuedCovered == \A p \in toAdd : p.rem \in passHosts
QueuePhase    == LoopPhase \cup {"add"}

CoveredInv ==
  /\ \A r \in Reloader : pc[r] = "ready" => psk \in Psk
  /\ mu # Nobody =>
       /\ psk \in Psk
       /\ pc[mu] = "keys" => passHosts = {} /\ toAdd = {}
       /\ pc[mu] \in QueuePhase => \A h \in passHosts : Confirmed(h)
       /\ pc[mu] = "conn" => keys[cur.host] \in Psk
       /\ pc[mu] = "rules" /\ ~firstErr => cur.host \in passHosts
       /\ pc[mu] \in LoopPhase /\ ~firstErr => QueuedCovered
       /\ pc[mu] = "add" => QueuedCovered

(* Every step keeps the queued policies covered.                           *)
LEMMA CoveredInvInductive ==
  ASSUME TypeInv, ClaimedInv, CoveredInv, [Next]_vars
  PROVE  CoveredInv'
<1> USE SentinelAssumption DEF QueuedCovered, QueuePhase, LoopPhase, Confirmed
<1>1. pc \in [Reloader -> OutsidePhase \cup PassPhase]
  BY DEF TypeInv, TypeOK, ControlOK
<1>2. keys \in [Owner -> Psk \cup {NoPsk}] /\ hosts \in [Host -> Fingerprint \cup {NoConn, Found}]
  BY DEF TypeInv, TypeOK, CacheOK
<1>3. ASSUME UNCHANGED vars \/ ChangeDoc \/ ChangeFiles \/ CharonRestart
             \/ \E h \in Host : InitiateDone(h)
      PROVE  CoveredInv'
  <2>1. UNCHANGED <<mu, pc, psk, passVars, hosts, keys>>
    BY <1>3 DEF vars, ChangeDoc, ChangeFiles, CharonRestart, InitiateDone, storeVars, passVars, cacheVars
  <2> QED BY <2>1 DEF CoveredInv, passVars
<1>4. ASSUME Exit PROVE CoveredInv'
  BY <1>4 DEF Exit, CoveredInv
<1>5. ASSUME Boot PROVE CoveredInv'
  BY <1>5 DEF Boot, ClaimedInv, CoveredInv
<1>6. ASSUME NEW r \in Reloader, pc[r] \in OutsidePhase, NEW ph \in OutsidePhase, Goto(r, ph),
             UNCHANGED <<mu, passVars, hosts, keys>>, psk' = psk \/ psk' \in Psk,
             ph = "ready" => psk' \in Psk
      PROVE  CoveredInv'
  <2>1. r # mu
    BY <1>6 DEF TypeInv, LocalsSet, OutsidePhase, PassPhase
  <2>2. mu # Nobody => pc'[mu] = pc[mu]
    BY <1>1, <1>6, <2>1 DEF Goto, TypeInv, TypeOK, ControlOK
  <2>3. \A q \in Reloader : pc'[q] = "ready" => psk' \in Psk
    BY <1>1, <1>6 DEF Goto, CoveredInv
  <2> QED BY <1>6, <2>2, <2>3 DEF CoveredInv, passVars
<1>7. ASSUME NEW r \in Reloader, Fetch(r) \/ StoreSelf(r) \/ StoreEntries(r) PROVE CoveredInv'
  <2>1. /\ pc[r] \in OutsidePhase /\ \E ph \in OutsidePhase \ {"ready"} : Goto(r, ph)
        /\ UNCHANGED <<mu, passVars, hosts, keys, psk>>
    BY <1>7 DEF Fetch, StoreSelf, StoreEntries, OutsidePhase, storeVars, cacheVars
  <2> QED BY <1>6, <2>1
<1>8. ASSUME NEW r \in Reloader, ReadPsk(r) PROVE CoveredInv'
  <2>1. files.psk \in Psk
    BY DEF TypeInv, TypeOK, StoreOK
  <2>2. /\ pc[r] \in OutsidePhase /\ UNCHANGED <<mu, passVars, hosts, keys>>
        /\ (Goto(r, "ready") /\ psk' \in Psk) \/ (Goto(r, "idle") /\ psk' = psk)
    BY <1>8, <2>1 DEF ReadPsk, OutsidePhase, cacheVars
  <2>3. CASE Goto(r, "ready") /\ psk' \in Psk
    BY <1>6, <2>2, <2>3 DEF OutsidePhase
  <2>4. CASE Goto(r, "idle") /\ psk' = psk
    BY <1>6, <2>2, <2>4 DEF OutsidePhase
  <2> QED BY <2>2, <2>3, <2>4
<1>9. ASSUME NEW r \in Reloader, ConfigureBegin(r) PROVE CoveredInv'
  <2>1. CASE Goto(r, "idle") /\ UNCHANGED <<mu, passVars, moved>>
    BY <1>6, <1>9, <2>1 DEF ConfigureBegin, OutsidePhase, storeVars, cacheVars
  <2>2. CASE mu' = r /\ Goto(r, "keys") /\ toAdd' = {} /\ passHosts' = {}
    BY <1>1, <1>9, <2>2 DEF ConfigureBegin, CoveredInv, Goto, storeVars
  <2> QED BY <1>9, <2>1, <2>2 DEF ConfigureBegin
<1>10. ASSUME NEW r \in Reloader, mu = r, mu' = mu, psk' = psk, NEW ph \in PassPhase, Goto(r, ph)
       PROVE  /\ \A q \in Reloader : pc'[q] = "ready" => psk' \in Psk
              /\ pc'[mu] = ph /\ mu # Nobody /\ psk' \in Psk
  BY <1>1, <1>10 DEF CoveredInv, Goto, PassPhase
<1>11. ASSUME NEW r \in Reloader, LoadDefaultKey(r) PROVE CoveredInv'
  <2>1. /\ mu = r /\ pc[mu] = "keys" /\ mu' = mu /\ psk' = psk /\ Goto(r, "loop")
        /\ UNCHANGED <<toAdd, passHosts>>
    BY <1>11 DEF LoadDefaultKey, InPass, storeVars
  <2> QED BY <1>10, <2>1 DEF CoveredInv, PassPhase
<1>12. ASSUME NEW o \in Owner, psk \in Psk, KeyLoaded(o) \/ KeyRefused(o)
       PROVE  /\ \A h \in Owner : keys[h] \in Psk => keys'[h] \in Psk
              /\ KeyLoaded(o) => keys'[o] \in Psk
  BY <1>2, <1>12 DEF KeyLoaded, KeyRefused
<1>13. ASSUME NEW r \in Reloader, TakeEntry(r) PROVE CoveredInv'
  <2>1. PICK e \in todo :
          /\ cur' = e
          /\ IF e.peer
             THEN \/ KeyLoaded(e.ip) /\ UNCHANGED firstErr
                  \/ KeyRefused(e.ip) /\ firstErr' = TRUE
             ELSE UNCHANGED <<keys, faults, firstErr>>
          /\ \/ Goto(r, "loop") \/ Goto(r, "host")
             \/ Goto(r, "rules") /\ e.host \in passHosts
    BY <1>13 DEF TakeEntry
  <2>2. /\ mu = r /\ pc[mu] = "loop" /\ mu' = mu /\ psk' = psk
        /\ UNCHANGED <<toAdd, passHosts, hosts>> /\ psk \in Psk
    BY <1>13 DEF TakeEntry, InPass, storeVars, CoveredInv
  <2>3. e.ip \in Owner /\ passHosts \subseteq Owner
    BY DEF TypeInv, TypeOK, PassOK, Entry, Owner, Addr
  <2>4. /\ \A h \in passHosts : keys[h] \in Psk => keys'[h] \in Psk
        /\ ~firstErr' => ~firstErr
    BY <1>12, <2>1, <2>2, <2>3
  <2>5. \E ph \in PassPhase : Goto(r, ph) /\ pc'[mu] = ph /\ ph \in {"loop", "host", "rules"}
    BY <1>1, <2>1, <2>2 DEF Goto, PassPhase
  <2>6. pc'[mu] = "rules" => cur'.host \in passHosts
    BY <1>1, <2>1, <2>2 DEF Goto
  <2> QED BY <1>10, <2>2, <2>4, <2>5, <2>6 DEF CoveredInv
<1>14. ASSUME NEW r \in Reloader, AddHostKey(r) PROVE CoveredInv'
  <2>1. /\ mu = r /\ pc[mu] = "host" /\ mu' = mu /\ psk' = psk
        /\ UNCHANGED <<toAdd, passHosts, hosts, cur>> /\ psk \in Psk
    BY <1>14 DEF AddHostKey, InPass, storeVars, CoveredInv
  <2>2. cur.host \in Owner /\ passHosts \subseteq Owner
    BY <2>1 DEF TypeInv, TypeOK, LocalsSet, BusyPhase, PassOK, Entry, Owner, Addr
  <2>3. \/ KeyLoaded(cur.host) /\ Goto(r, "conn") /\ UNCHANGED firstErr
        \/ KeyRefused(cur.host) /\ Goto(r, "rules") /\ firstErr' = TRUE
    BY <1>14 DEF AddHostKey
  <2>4. CASE KeyLoaded(cur.host) /\ Goto(r, "conn") /\ UNCHANGED firstErr
    BY <1>10, <1>12, <2>1, <2>2, <2>4 DEF CoveredInv, PassPhase
  <2>5. CASE KeyRefused(cur.host) /\ Goto(r, "rules") /\ firstErr' = TRUE
    BY <1>10, <1>12, <2>1, <2>2, <2>5 DEF CoveredInv, PassPhase
  <2> QED BY <2>3, <2>4, <2>5
<1>15. ASSUME NEW r \in Reloader, AddHostConnection(r) PROVE CoveredInv'
  <2> DEFINE fp == [rev |-> tmpl, agent |-> agent, tunnel |-> LocalTunnelAddress(self)]
  <2>1. /\ mu = r /\ pc[mu] = "conn" /\ mu' = mu /\ psk' = psk /\ Goto(r, "rules")
        /\ UNCHANGED <<toAdd, keys, cur>>
    BY <1>15 DEF AddHostConnection, InPass, storeVars
  <2>2. fp \in Fingerprint /\ cur.host \in Host
    BY <2>1, TunnelType DEF TypeInv, TypeOK, LocalsSet, BusyPhase, StoreOK, Entry, Fingerprint
  <2>3. \/ hosts[cur.host] = fp /\ hosts' = hosts /\ passHosts' = passHosts \cup {cur.host} /\ UNCHANGED firstErr
        \/ /\ hosts' = [hosts EXCEPT ![cur.host] = fp] /\ passHosts' = passHosts \cup {cur.host}
           /\ UNCHANGED firstErr
        \/ hosts' = hosts /\ passHosts' = passHosts /\ firstErr' = TRUE
    BY <1>15 DEF AddHostConnection, ConnectionLoaded, ConnectionRefused
  <2> HIDE DEF fp
  <2>4. (cur.host \in passHosts' => hosts'[cur.host] \in Fingerprint)
        /\ \A h \in Host : h # cur.host => hosts'[h] = hosts[h]
    BY <1>2, <2>1, <2>2, <2>3 DEF CoveredInv
  <2>5. passHosts \subseteq Host
    BY DEF TypeInv, TypeOK, PassOK
  <2> QED BY <1>10, <2>1, <2>2, <2>3, <2>4, <2>5 DEF CoveredInv, PassPhase
<1>16. ASSUME NEW r \in Reloader, AddRules(r) PROVE CoveredInv'
  <2>1. /\ mu = r /\ pc[mu] = "rules" /\ mu' = mu /\ psk' = psk /\ Goto(r, "loop")
        /\ UNCHANGED <<passHosts, keys, hosts, firstErr>>
        /\ toAdd' \subseteq toAdd \cup PoliciesOf(cur, LocalTunnelAddress(self))
    BY <1>16 DEF AddRules, InPass, storeVars, cacheVars
  <2>2. \A p \in PoliciesOf(cur, LocalTunnelAddress(self)) : p.rem = cur.host
    BY DEF PoliciesOf
  <2> QED BY <1>10, <2>1, <2>2 DEF CoveredInv, PassPhase
<1>17. ASSUME NEW r \in Reloader, DeletePolicies(r) PROVE CoveredInv'
  <2>1. /\ mu = r /\ pc[mu] = "loop" /\ ~firstErr /\ mu' = mu /\ psk' = psk
        /\ Goto(r, "add") \/ Goto(r, "end")
        /\ UNCHANGED <<toAdd, passHosts, keys, hosts>>
    BY <1>17 DEF DeletePolicies, InPass, storeVars, cacheVars
  <2> QED BY <1>10, <2>1 DEF CoveredInv, PassPhase
<1>18. ASSUME NEW r \in Reloader,
              AddPolicies(r) \/ SyncHostRoutes(r) \/ ReapStaleLocal(r) \/ RestartForStalePeers(r)
              \/ RemoveHosts(r)
       PROVE  CoveredInv'
  <2>1. /\ mu = r /\ mu' = mu /\ psk' = psk
        /\ \E ph \in {"routes", "reap", "peers", "remove", "end"} : Goto(r, ph)
    BY <1>18 DEF AddPolicies, SyncHostRoutes, ReapStaleLocal, RestartForStalePeers, RemoveHosts,
                 InPass, storeVars
  <2> QED BY <1>10, <2>1 DEF CoveredInv, PassPhase
<1>19. ASSUME NEW r \in Reloader, ConfigureEnd(r) PROVE CoveredInv'
  <2>1. mu' = Nobody /\ psk' = psk /\ Goto(r, "idle")
    BY <1>19 DEF ConfigureEnd, storeVars
  <2> QED BY <1>1, <2>1 DEF CoveredInv, Goto
<1> QED BY <1>3, <1>4, <1>5, <1>7, <1>8, <1>9, <1>11, <1>13, <1>14, <1>15, <1>16, <1>17, <1>18, <1>19
        DEF Next, ReloadStep

(* Only addPolicies puts policies into the kernel, and only queued ones.   *)
LEMMA OnlyAddPoliciesAdds ==
  ASSUME SelectorInv, [Next]_vars, NEW p \in policies' \ policies
  PROVE  \E r \in Reloader : AddPolicies(r) /\ p \in toAdd
<1>1. ASSUME UNCHANGED vars \/ ChangeDoc \/ ChangeFiles \/ CharonRestart \/ Exit \/ Boot
             \/ \E h \in Host : InitiateDone(h)
      PROVE  policies' = policies
  BY <1>1 DEF vars, ChangeDoc, ChangeFiles, CharonRestart, Exit, Boot, InitiateDone, kernelVars
<1>2. ASSUME NEW r \in Reloader, AddPolicies(r) PROVE policies' \subseteq policies \cup toAdd
  BY <1>2 DEF AddPolicies
<1>3. ASSUME NEW r \in Reloader, DeletePolicies(r) PROVE policies' \subseteq policies
  <2>1. existing \subseteq policies
    BY <1>3, SentinelAssumption DEF SelectorInv, PassInv, Reconciling, LoopPhase, DeletePolicies, InPass
  <2> QED BY <1>3, <2>1 DEF DeletePolicies
<1>4. ASSUME NEW r \in Reloader, Fetch(r) \/ ReloadStep(r), ~AddPolicies(r), ~DeletePolicies(r)
      PROVE  policies' = policies
  BY <1>4 DEF Fetch, ReloadStep, StoreSelf, StoreEntries, ReadPsk, ConfigureBegin, LoadDefaultKey,
              TakeEntry, AddHostKey, AddHostConnection, AddRules, SyncHostRoutes, ReapStaleLocal,
              RestartForStalePeers, RemoveHosts, ConfigureEnd, kernelVars
<1> QED BY <1>1, <1>2, <1>3, <1>4 DEF Next

(* For any callers, hosts and documents, whatever fails and whoever        *)
(* replaces the store: a policy appears in the kernel only for a host      *)
(* whose key and connection charon has confirmed to this process, and,     *)
(* outside doubt, still has; they are the current ones if the inputs of    *)
(* the pass stand.  ipsec.go:251-287, 750-765, 951-1021.                   *)
THEOREM PoliciesCoveredHolds == Spec => PoliciesCovered
<1> DEFINE Covers(p) == /\ hosts[p.rem] \in Fingerprint /\ keys[p.rem] \in Psk
                        /\ p.rem \notin doubt => conns[p.rem] = hosts[p.rem]
                        /\ ~moved => hosts[p.rem] = CurrentConn /\ keys[p.rem] = psk
<1>1. Init => CoveredInv
  BY DEF Init, CoveredInv
<1>2. ConvergenceInv /\ CoveredInv /\ [Next]_vars => CoveredInv'
  BY CoveredInvInductive DEF ConvergenceInv
<1>3. ConvergenceInv /\ CoveredInv /\ SelectorInv /\ [Next]_vars
        => [\A p \in policies' \ policies : Covers(p)]_vars
  <2> SUFFICES ASSUME ConvergenceInv, CoveredInv, SelectorInv, [Next]_vars, NEW p \in policies' \ policies
               PROVE  Covers(p)
    OBVIOUS
  <2>1. PICK r \in Reloader : AddPolicies(r) /\ p \in toAdd
    BY OnlyAddPoliciesAdds
  <2>2. up /\ mu = r /\ mu # Nobody /\ pc[mu] = "add"
    BY <2>1, SentinelAssumption DEF AddPolicies, InPass
  <2>3. p.rem \in passHosts /\ p.rem \in Host
    BY <2>1, <2>2 DEF CoveredInv, QueuedCovered, ConvergenceInv, TypeInv, TypeOK, PassOK
  <2>4. hosts[p.rem] \in Fingerprint /\ keys[p.rem] \in Psk
    BY <2>2, <2>3 DEF CoveredInv, QueuePhase, Confirmed
  <2>5. p.rem \notin doubt => conns[p.rem] = hosts[p.rem]
    BY <2>2, <2>3, <2>4, SentinelAssumption DEF ConvergenceInv, CacheInv
  <2>6. ASSUME ~moved PROVE hosts[p.rem] = CurrentConn /\ keys[p.rem] = psk
    <3>1. Served
      BY <2>2, <2>6 DEF ConvergenceInv, GoalInv, PassGoals, TailGoals, TailPhase
    <3> QED BY <2>3, <3>1 DEF Served, KeyOwners
  <2> QED BY <2>4, <2>5, <2>6
<1> QED BY <1>1, <1>2, <1>3, SelectorInvHolds, ConvergenceInvHolds, PTL DEF Spec, PoliciesCovered

-----------------------------------------------------------------------------
(***************************************************************************)
(* The refinements.  A step of the overlay is, for the policy table, one   *)
(* of: a change of inputs (Retarget), a start, the begin, refusal, success *)
(* or failure of a pass, an edit, a crash, or nothing.                     *)
(***************************************************************************)

(* Everything the tables' abstract variables are made of.                  *)
tableVars == <<self, entries, policies, routes, mu, last, moved>>

(* Steps that no table sees.                                               *)
LEMMA Unseen ==
  ASSUME UNCHANGED tableVars
  PROVE  UNCHANGED PolicyTable!vars /\ UNCHANGED RouteTable!vars
<1>1. Desired' = Desired /\ RemoteEntries' = RemoteEntries
  BY TargetKept DEF tableVars
<1>2. WantedRoutes' = WantedRoutes
  BY <1>1 DEF WantedRoutes, tableVars
<1> QED BY <1>1, <1>2 DEF tableVars, PolicyTable!vars, RouteTable!vars

(* The steps no table sees are all but the ten that follow.                *)
LEMMA StepsSeen ==
  ASSUME [Next]_vars
  PROVE  \/ UNCHANGED tableVars \/ Exit \/ Boot
         \/ \E r \in Reloader : \/ StoreSelf(r) \/ StoreEntries(r) \/ ReadPsk(r) \/ ConfigureBegin(r)
                                \/ DeletePolicies(r) \/ AddPolicies(r) \/ SyncHostRoutes(r)
                                \/ ConfigureEnd(r)
<1>1. ASSUME UNCHANGED vars \/ ChangeDoc \/ ChangeFiles \/ CharonRestart
             \/ \E h \in Host : InitiateDone(h)
      PROVE  UNCHANGED tableVars
  BY <1>1 DEF vars, ChangeDoc, ChangeFiles, CharonRestart, InitiateDone, storeVars, kernelVars, tableVars
<1>2. ASSUME NEW r \in Reloader, Fetch(r) \/ LoadDefaultKey(r) \/ TakeEntry(r) \/ AddHostKey(r)
      PROVE  UNCHANGED tableVars
  BY <1>2 DEF Fetch, LoadDefaultKey, TakeEntry, AddHostKey, storeVars, kernelVars, tableVars
<1>3. ASSUME NEW r \in Reloader,
             \/ AddHostConnection(r) \/ AddRules(r) \/ ReapStaleLocal(r) \/ RestartForStalePeers(r)
             \/ RemoveHosts(r)
      PROVE  UNCHANGED tableVars
  BY <1>3 DEF AddHostConnection, AddRules, ReapStaleLocal, RestartForStalePeers, RemoveHosts,
              storeVars, kernelVars, tableVars
<1> QED BY <1>1, <1>2, <1>3 DEF Next, ReloadStep

(* The wanted items of both tables are items.                              *)
LEMMA TargetsTyped ==
  ASSUME TypeInv
  PROVE  Desired \in SUBSET Policy /\ WantedRoutes \in SUBSET Route
<1>1. RemoteEntries \subseteq Entry /\ LocalTunnelAddress(self) \in Addr
  BY TunnelType DEF RemoteEntries, TypeInv, TypeOK, StoreOK
<1>2. Desired \in SUBSET Policy
  BY <1>1, PoliciesType DEF Desired
<1>3. WantedRoutes \in SUBSET Route
  BY <1>1 DEF WantedRoutes, RouteOf, Route, Entry, TypeInv, TypeOK, KernelOK
<1> QED BY <1>2, <1>3

(* What the edits of a pass do to the policies: while the inputs stand     *)
(* they remove nothing wanted and add nothing unwanted.                    *)
LEMMA PolicyEdits ==
  ASSUME ConvergenceInv, NEW r \in Reloader, DeletePolicies(r) \/ AddPolicies(r), ~moved
  PROVE  policies \cap Desired \subseteq policies' /\ policies' \subseteq policies \cup Desired
<1> USE SentinelAssumption
<1>1. CASE DeletePolicies(r)
  <2>1. mu # Nobody /\ pc[mu] = "loop" /\ todo = {} /\ ~firstErr
    BY <1>1 DEF DeletePolicies, InPass
  <2>2. LoopGoals
    BY <2>1 DEF ConvergenceInv, GoalInv, PassGoals, LoopPhase
  <2>3. existing \subseteq policies
    BY <2>1, <2>2, LoopServes DEF ConvergenceInv
  <2>4. existing \cap Desired = {}
    <3>1. \A e \in RemoteEntries : e \in entries /\ e.host # self.host /\ Handled(e)
      BY <2>1 DEF RemoteEntries, Handled, BusyPhase
    <3>2. \A e \in RemoteEntries : existing \cap PoliciesOf(e, LocalTunnelAddress(self)) = {}
      BY <2>1, <3>1 DEF ConvergenceInv, ClaimedInv, LoopPhase
    <3> QED BY <3>2 DEF Desired
  <2> QED BY <1>1, <2>3, <2>4 DEF DeletePolicies
<1>2. CASE AddPolicies(r)
  <2>1. mu # Nobody /\ pc[mu] = "add"
    BY <1>2 DEF AddPolicies, InPass
  <2>2. policies \cup toAdd = Desired
    BY <2>1 DEF ConvergenceInv, GoalInv, PassGoals, TailGoals, TailPhase
  <2>3. policies \subseteq policies' /\ policies' \subseteq policies \cup toAdd
    BY <1>2 DEF AddPolicies
  <2> QED BY <2>2, <2>3
<1> QED BY <1>1, <1>2

(* The same for the routes: a failed replacement keeps the old next hop.   *)
LEMMA RouteEdits ==
  ASSUME ConvergenceInv, NEW r \in Reloader, SyncHostRoutes(r), ~moved, SyncRoutes
  PROVE  routes \cap WantedRoutes \subseteq routes' /\ routes' \subseteq routes \cup WantedRoutes
<1>1. mu # Nobody /\ pc[mu] = "routes"
  BY SentinelAssumption DEF SyncHostRoutes, InPass
<1>2. want = RemoteEntries
  BY <1>1 DEF ConvergenceInv, GoalInv, PassGoals, TailGoals, TailPhase, Served
<1>3. {RouteOf(e) : e \in want} = WantedRoutes
  BY <1>2 DEF WantedRoutes
<1> DEFINE wanted == {RouteOf(e) : e \in want}
<1>4. \/ routes' = wanted
      \/ \E done \in SUBSET Ip : routes' = {x \in routes : x.ip \notin done} \cup {x \in wanted : x.ip \in done}
  BY DEF SyncHostRoutes
<1> HIDE DEF wanted
<1>5. routes \cap wanted \subseteq routes' /\ routes' \subseteq routes \cup wanted
  BY <1>4
<1> QED BY <1>3, <1>5 DEF wanted

(* Every step is one the abstract policy table allows.                     *)
LEMMA PolicyStep ==
  ASSUME ConvergenceInv, TypeInv', [Next]_vars
  PROVE  [PolicyTable!Next]_(PolicyTable!vars)
<1> USE SentinelAssumption
<1>0. /\ moved \in BOOLEAN /\ moved' \in BOOLEAN /\ Desired' \in SUBSET Policy /\ policies' \in SUBSET Policy
      /\ Desired \in SUBSET Policy
  <2>1. self' \in Self /\ RemoteEntries' \subseteq Entry
    BY DEF RemoteEntries, TypeInv, TypeOK, StoreOK
  <2>2. LocalTunnelAddress(self)' \in Addr
    BY <2>1 DEF LocalTunnelAddress, Self, Addr
  <2>3. Desired' \in SUBSET Policy
    BY <2>1, <2>2 DEF Desired, PoliciesOf, Policy, Entry
  <2> QED BY <2>3, TargetsTyped DEF ConvergenceInv, TypeInv, TypeOK, ControlOK, KernelOK
<1>1. CASE UNCHANGED tableVars
  BY <1>1, Unseen
<1>2. CASE Exit
  <2>1. Desired' = Desired /\ UNCHANGED policies
    BY <1>2, TargetKept DEF Exit, kernelVars
  <2>2. PolicyTable!Crash
    BY <1>2, <2>1 DEF Exit, PolicyTable!Crash
  <2> QED BY <2>2 DEF PolicyTable!Next
<1>3. CASE Boot
  <2>1. PolicyTable!Start
    BY <1>0, <1>3 DEF Boot, PolicyTable!Start, kernelVars, ConvergenceInv, CacheInv
  <2> QED BY <2>1 DEF PolicyTable!Next
<1>4. ASSUME NEW r \in Reloader, StoreSelf(r) \/ StoreEntries(r) \/ ReadPsk(r)
      PROVE  PolicyTable!Next
  <2>1. UNCHANGED <<policies, mu, last>>
    BY <1>4 DEF StoreSelf, StoreEntries, ReadPsk, kernelVars
  <2>2. ~moved' => ~moved /\ UNCHANGED <<self, entries>>
    <3>1. CASE StoreSelf(r) \/ StoreEntries(r)
      BY <3>1 DEF StoreSelf, StoreEntries
    <3>2. CASE ReadPsk(r)
      BY <3>2 DEF ReadPsk
    <3> QED BY <1>4, <3>1, <3>2
  <2>3. ~moved' => Desired' = Desired
    BY <2>2, TargetKept
  <2>4. PolicyTable!Retarget
    BY <1>0, <2>1, <2>2, <2>3 DEF PolicyTable!Retarget
  <2> QED BY <2>4 DEF PolicyTable!Next
<1>5. ASSUME NEW r \in Reloader, ConfigureBegin(r) PROVE PolicyTable!Next
  <2>1. UNCHANGED <<self, entries, policies>> /\ mu = Nobody
    BY <1>5 DEF ConfigureBegin, storeVars, kernelVars
  <2>2. Desired' = Desired
    BY <2>1, TargetKept
  <2>3. CASE mu' = mu /\ last' = "err" /\ moved' = moved
    BY <2>1, <2>2, <2>3 DEF PolicyTable!Refuse, PolicyTable!Next
  <2>4. CASE mu' = r /\ last' = last /\ moved' = FALSE
    BY <2>1, <2>2, <2>4 DEF PolicyTable!Begin, PolicyTable!Next
  <2> QED BY <1>5, <2>3, <2>4 DEF ConfigureBegin
<1>6. ASSUME NEW r \in Reloader, DeletePolicies(r) \/ AddPolicies(r) PROVE PolicyTable!Next
  <2>1. UNCHANGED <<self, entries, mu, last, moved>> /\ mu = r /\ mu # Nobody
    BY <1>6 DEF DeletePolicies, AddPolicies, InPass, storeVars
  <2>2. Desired' = Desired
    BY <2>1, TargetKept
  <2>3. ~moved => policies \cap Desired \subseteq policies' /\ policies' \subseteq policies \cup Desired
    BY <1>6, PolicyEdits
  <2>4. PolicyTable!Edit
    BY <1>0, <2>1, <2>2, <2>3 DEF PolicyTable!Edit
  <2> QED BY <2>4 DEF PolicyTable!Next
<1>7. ASSUME NEW r \in Reloader, SyncHostRoutes(r) PROVE UNCHANGED PolicyTable!vars
  <2>1. UNCHANGED <<self, entries, policies, mu, last, moved>>
    BY <1>7 DEF SyncHostRoutes, storeVars
  <2> QED BY <2>1, TargetKept DEF PolicyTable!vars
<1>8. ASSUME NEW r \in Reloader, ConfigureEnd(r) PROVE PolicyTable!Next
  <2>1. /\ UNCHANGED <<self, entries, policies, moved>> /\ mu # Nobody /\ mu' = Nobody
        /\ last' = (IF firstErr THEN "err" ELSE "nil") /\ (pc[mu] = "end" \/ firstErr)
    BY <1>8 DEF ConfigureEnd, InPass, storeVars, kernelVars
  <2>2. Desired' = Desired
    BY <2>1, TargetKept
  <2>3. CASE firstErr
    BY <2>1, <2>2, <2>3 DEF PolicyTable!Fail, PolicyTable!Next
  <2>4. CASE ~firstErr
    <3>1. ~moved => policies = Desired
      BY <2>1, <2>4 DEF ConvergenceInv, GoalInv, PassGoals, TailGoals
    <3> QED BY <2>1, <2>2, <2>4, <3>1 DEF PolicyTable!Succeed, PolicyTable!Next
  <2> QED BY <2>3, <2>4
<1> QED BY <1>1, <1>2, <1>3, <1>4, <1>5, <1>6, <1>7, <1>8, StepsSeen

(* Every step is one the abstract route table allows.  Where routes are    *)
(* not synchronised no step changes them.                                  *)
LEMMA RouteStep ==
  ASSUME ConvergenceInv, TypeInv', [Next]_vars
  PROVE  [RouteTable!Next]_(RouteTable!vars)
<1> USE SentinelAssumption
<1>0. /\ moved \in BOOLEAN /\ moved' \in BOOLEAN /\ routes' \in SUBSET Route
      /\ WantedRoutes' \in SUBSET Route
  <2>1. RemoteEntries' \subseteq Entry
    BY DEF RemoteEntries, TypeInv, TypeOK, StoreOK
  <2>2. WantedRoutes' \in SUBSET Route
    BY <2>1 DEF WantedRoutes, RouteOf, Route, Entry, TypeInv, TypeOK, KernelOK
  <2> QED BY <2>2 DEF ConvergenceInv, TypeInv, TypeOK, ControlOK, KernelOK
<1>1. ASSUME UNCHANGED <<self, entries>>, SyncRoutes \/ UNCHANGED routes
      PROVE  WantedRoutes' = WantedRoutes
  BY <1>1, TargetKept DEF WantedRoutes
<1>2. CASE UNCHANGED tableVars
  BY <1>2, Unseen
<1>3. CASE Exit
  <2>1. UNCHANGED <<self, entries, routes>>
    BY <1>3 DEF Exit, kernelVars
  <2>2. RouteTable!Crash
    BY <1>1, <1>3, <2>1 DEF Exit, RouteTable!Crash
  <2> QED BY <2>2 DEF RouteTable!Next
<1>4. CASE Boot
  <2>1. RouteTable!Start
    BY <1>0, <1>4 DEF Boot, RouteTable!Start, kernelVars, ConvergenceInv, CacheInv
  <2> QED BY <2>1 DEF RouteTable!Next
<1>5. ASSUME NEW r \in Reloader, StoreSelf(r) \/ StoreEntries(r) \/ ReadPsk(r)
      PROVE  RouteTable!Next
  <2>1. UNCHANGED <<routes, mu, last>>
    BY <1>5 DEF StoreSelf, StoreEntries, ReadPsk, kernelVars
  <2>2. ~moved' => ~moved /\ UNCHANGED <<self, entries>>
    <3>1. CASE StoreSelf(r) \/ StoreEntries(r)
      BY <3>1 DEF StoreSelf, StoreEntries
    <3>2. CASE ReadPsk(r)
      BY <3>2 DEF ReadPsk
    <3> QED BY <1>5, <3>1, <3>2
  <2>3. ~moved' => WantedRoutes' = WantedRoutes
    BY <1>1, <2>1, <2>2
  <2>4. RouteTable!Retarget
    BY <1>0, <2>1, <2>2, <2>3 DEF RouteTable!Retarget
  <2> QED BY <2>4 DEF RouteTable!Next
<1>6. ASSUME NEW r \in Reloader, ConfigureBegin(r) PROVE RouteTable!Next
  <2>1. UNCHANGED <<self, entries, routes>> /\ mu = Nobody
    BY <1>6 DEF ConfigureBegin, storeVars, kernelVars
  <2>2. CASE mu' = mu /\ last' = "err" /\ moved' = moved
    BY <1>1, <2>1, <2>2 DEF RouteTable!Refuse, RouteTable!Next
  <2>3. CASE mu' = r /\ last' = last /\ moved' = FALSE
    BY <1>1, <2>1, <2>3 DEF RouteTable!Begin, RouteTable!Next
  <2> QED BY <1>6, <2>2, <2>3 DEF ConfigureBegin
<1>7. ASSUME NEW r \in Reloader, DeletePolicies(r) \/ AddPolicies(r) PROVE UNCHANGED RouteTable!vars
  <2>1. UNCHANGED <<self, entries, routes, mu, last, moved>>
    BY <1>7 DEF DeletePolicies, AddPolicies, storeVars
  <2> QED BY <1>1, <2>1 DEF RouteTable!vars
<1>8. ASSUME NEW r \in Reloader, SyncHostRoutes(r) PROVE [RouteTable!Next]_(RouteTable!vars)
  <2>1. UNCHANGED <<self, entries, mu, last, moved>> /\ mu # Nobody /\ (SyncRoutes \/ UNCHANGED routes)
    BY <1>8, FlagAssumption DEF SyncHostRoutes, InPass, storeVars
  <2>2. WantedRoutes' = WantedRoutes
    BY <1>1, <2>1
  <2>3. CASE UNCHANGED routes
    BY <2>1, <2>2, <2>3 DEF RouteTable!vars
  <2>4. CASE SyncRoutes
    <3>1. ~moved => routes \cap WantedRoutes \subseteq routes' /\ routes' \subseteq routes \cup WantedRoutes
      BY <1>8, <2>4, RouteEdits
    <3>2. RouteTable!Edit
      BY <1>0, <2>1, <2>2, <3>1 DEF RouteTable!Edit
    <3> QED BY <3>2 DEF RouteTable!Next
  <2> QED BY <2>1, <2>3, <2>4
<1>9. ASSUME NEW r \in Reloader, ConfigureEnd(r) PROVE RouteTable!Next
  <2>1. /\ UNCHANGED <<self, entries, routes, moved>> /\ mu # Nobody /\ mu' = Nobody
        /\ last' = (IF firstErr THEN "err" ELSE "nil") /\ (pc[mu] = "end" \/ firstErr)
    BY <1>9 DEF ConfigureEnd, InPass, storeVars, kernelVars
  <2>2. CASE firstErr
    BY <1>1, <2>1, <2>2 DEF RouteTable!Fail, RouteTable!Next
  <2>3. CASE ~firstErr
    <3>1. ~moved => RoutesSet
      BY <2>1, <2>3 DEF ConvergenceInv, GoalInv, PassGoals, TailGoals
    <3>2. ~moved => routes = WantedRoutes
      BY <3>1 DEF RoutesSet, WantedRoutes
    <3> QED BY <1>1, <2>1, <2>3, <3>2 DEF RouteTable!Succeed, RouteTable!Next
  <2> QED BY <2>2, <2>3
<1> QED BY <1>2, <1>3, <1>4, <1>5, <1>6, <1>7, <1>8, <1>9, StepsSeen

(* For any callers, hosts and documents, with failing calls, charon's      *)
(* deaths and restarts of the process: what happens to the kernel's        *)
(* policies is what the abstract reconciler allows.  Nothing changes       *)
(* outside a pass, a pass whose inputs stand neither removes a wanted      *)
(* policy nor installs an unwanted one, and nil means exactly the wanted   *)
(* policies.  configure, ipsec.go:229-317.                                 *)
THEOREM PoliciesReconciledHolds == Spec => PoliciesReconciled
<1>1. Init => PolicyTable!Init
  <2> SUFFICES ASSUME Init PROVE PolicyTable!Init
    OBVIOUS
  <2>1. TypeInv
    BY InitTypeInv
  <2>2. Desired \in SUBSET Policy /\ policies \in SUBSET Policy
    BY <2>1, TargetsTyped DEF TypeInv, TypeOK, KernelOK
  <2> QED BY <2>2 DEF Init, PolicyTable!Init
<1>2. ConvergenceInv /\ ConvergenceInv' /\ [Next]_vars => [PolicyTable!Next]_(PolicyTable!vars)
  BY PolicyStep DEF ConvergenceInv
<1> QED BY <1>1, <1>2, ConvergenceInvHolds, PTL DEF Spec, PoliciesReconciled, PolicyTable!Spec

(* The same for the host routes of protocol 186, where they are            *)
(* synchronised.  syncHostRoutes, ipsec.go:836-899.                        *)
THEOREM RoutesReconciledHolds == Spec => RoutesReconciled
<1>1. Init => RouteTable!Init
  <2> SUFFICES ASSUME Init PROVE RouteTable!Init
    OBVIOUS
  <2>1. TypeInv
    BY InitTypeInv
  <2>2. WantedRoutes \in SUBSET Route /\ routes \in SUBSET Route
    BY <2>1, TargetsTyped DEF TypeInv, TypeOK, KernelOK
  <2> QED BY <2>2 DEF Init, RouteTable!Init
<1>2. ConvergenceInv /\ ConvergenceInv' /\ [Next]_vars => [RouteTable!Next]_(RouteTable!vars)
  BY RouteStep DEF ConvergenceInv
<1> QED BY <1>1, <1>2, ConvergenceInvHolds, PTL DEF Spec, RoutesReconciled, RouteTable!Spec

=============================================================================
