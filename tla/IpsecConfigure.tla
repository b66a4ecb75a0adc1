--------------------------- MODULE IpsecConfigure ---------------------------
(***************************************************************************)
(* Overlay.Reload and Overlay.configure of backend/ipsec/ipsec.go: the     *)
(* reconciliation of one host's XFRM policies, host routes, pre-shared     *)
(* keys and strongSwan connections with the metadata store.                *)
(*                                                                         *)
(* Two callers may be inside Reload at once: the HTTP handler of           *)
(* server/web.go and the metadata change handler of mdchandler.  Only      *)
(* configure takes the overlay's mutex.  The store's fields (MetadataStore *)
(* of store/metadata.go, which has no lock) and o.psk are written outside  *)
(* it, so a pass may read a store that another caller is replacing.        *)
(*                                                                         *)
(* Names, addresses and templates are opaque values.  A metadata document  *)
(* is what one MetadataStore.Reload sees: this host's identity and the     *)
(* de-duplicated container entries.                                        *)
(***************************************************************************)
EXTENDS Naturals, FiniteSets

CONSTANTS
  Reloader,     \* goroutines that may be inside Overlay.Reload
  Host,         \* host agent addresses
  Ip,           \* overlay addresses of containers
  Dir,          \* XFRM policy directions; the code has out, in and fwd
  Psk,          \* contents the psk file may have
  Rev,          \* revisions the connection templates may have
  Doc,          \* documents the metadata service may serve
  Leftover,     \* policies found in the kernel when the process first starts
  HostTunnel,   \* Overlay.UseHostTunnelSource
  SyncRoutes,   \* Overlay.SyncHostRoutes
  LostReplies,  \* may charon act on a request and its answer be lost?
  AnyPeer,      \* the owner "" of the default key
  Nobody, NoHost, NoEntry, NoPsk, NoRev, NoConn, Found,
  MaxChange,    \* bound on changes of the metadata, psk and template files
  MaxFault      \* bound on failed calls, charon deaths and process exits

Entry       == [ip: Ip, host: Host, peer: BOOLEAN]
Self        == [host: Host, ip: Ip]
Addr        == Host \cup Ip
Policy      == [ip: Ip, dir: Dir, loc: Addr, rem: Host]
Route       == [ip: Ip, via: Host]
Owner       == Ip \cup Host \cup {AnyPeer}
Fingerprint == [rev: Rev, agent: Host, tunnel: Addr]

(* MetadataStore.doInternalRefresh keeps one entry per address (seen).     *)
ASSUME DocAssumption ==
  \A d \in Doc : /\ d \in [self: Self, entries: SUBSET Entry]
                 /\ \A e, f \in d.entries : e.ip = f.ip => e = f

(* The kernel holds at most one policy per selector and direction.         *)
ASSUME LeftoverAssumption ==
  /\ Leftover \subseteq Policy
  /\ \A p, q \in Leftover : p.ip = q.ip /\ p.dir = q.dir => p = q

ASSUME FlagAssumption ==
  /\ HostTunnel \in BOOLEAN /\ SyncRoutes \in BOOLEAN /\ LostReplies \in BOOLEAN
  /\ MaxChange \in Nat /\ MaxFault \in Nat

ASSUME SentinelAssumption ==
  /\ Nobody \notin Reloader /\ NoHost \notin Host /\ NoEntry \notin Entry
  /\ NoPsk \notin Psk /\ NoRev \notin Rev /\ AnyPeer \notin Addr
  /\ NoConn \notin Fingerprint /\ Found \notin Fingerprint /\ NoConn # Found

VARIABLES
  doc, files,                 \* the metadata service; the psk and template files
  info, self, entries, psk,   \* MetadataStore.info/self/entries; Overlay.psk
  up, pc, snap, mu,           \* process alive; position and fetched document of each caller; o.Mutex
  localHost, tmpl, todo, cur, agent, existing, toAdd, passHosts, want, attempt, firstErr,
                              \* locals of the running configure (and o.hostAttempt)
  hosts, staleLocal, keys, initiating,   \* Overlay.hosts/staleLocal/keys/initiating
  conns, orphan,              \* connections loaded in charon; has charon died under this process?
  policies, routes,           \* the kernel's XFRM policies and protocol-186 routes
  last,                       \* outcome of the last configure
  moved, doubt,               \* history: see Converged
  changes, faults             \* remaining budgets

storeVars  == <<info, self, entries, psk>>
passVars   == <<localHost, tmpl, todo, cur, agent, existing, toAdd, passHosts, want, attempt, firstErr>>
cacheVars  == <<hosts, staleLocal, keys, initiating>>
charonVars == <<conns, doubt, orphan>>
kernelVars == <<policies, routes>>
envVars    == <<doc, files, changes>>
vars == <<doc, files, info, self, entries, psk, up, pc, snap, mu, localHost, tmpl, todo, cur,
          agent, existing, toAdd, passHosts, want, attempt, firstErr, hosts, staleLocal, keys,
          initiating, conns, orphan, policies, routes, last, moved, doubt, changes, faults>>

OutsidePhase == {"idle", "fetched", "selfSet", "stored", "ready"}
PassPhase == {"keys", "loop", "host", "conn", "rules", "add", "routes", "reap", "peers", "remove", "end"}

-----------------------------------------------------------------------------
(* Derived values.                                                         *)

(* localTunnelAddress: the local endpoint of every tunnel.                 *)
LocalTunnelAddress(s) == IF HostTunnel THEN s.host ELSE s.ip

(* The three policies addRules builds for an entry.                        *)
PoliciesOf(e, loc) == {[ip |-> e.ip, dir |-> d, loc |-> loc, rem |-> e.host] : d \in Dir}

(* Two policies the kernel cannot hold together (XfrmPolicyAdd: EEXIST).   *)
SameSelector(p, q) == p.ip = q.ip /\ p.dir = q.dir

(* Mutant: destination and gateway swapped.                                *)
RouteSwapped(e) == [ip |-> e.host, via |-> e.ip]

RouteOf(e) == [ip |-> e.ip, via |-> e.host]

(* The previous local endpoint that a completed load may hand to the       *)
(* stale-SA reaper: only one this process loaded itself, in host-tunnel    *)
(* mode, under another agent address.  Templates that would forbid it (no  *)
(* psk, a "%" identity) are outside this module's Fingerprint.             *)
QueuedLocal(old, new) ==
  IF HostTunnel /\ old \in Fingerprint /\ old.agent # new.agent /\ old.tunnel = old.agent
  THEN {old.agent} ELSE {}

(* A call that may fail uses one unit of the fault budget when it does.    *)
Fault   == faults > 0 /\ faults' = faults - 1
NoFault == UNCHANGED faults

InPass(r, phase) == up /\ mu = r /\ pc[r] = phase
Goto(r, phase)   == pc' = [pc EXCEPT ![r] = phase]

-----------------------------------------------------------------------------
Init ==
  /\ doc \in Doc /\ info = doc /\ self = doc.self /\ entries = doc.entries
  /\ files \in [psk: Psk, rev: Rev]
  /\ psk = NoPsk
  /\ up = FALSE /\ mu = Nobody
  /\ pc = [r \in Reloader |-> "idle"] /\ snap = [r \in Reloader |-> doc]
  /\ localHost = NoHost /\ tmpl = NoRev /\ todo = {} /\ cur = NoEntry /\ agent = NoHost
  /\ existing = {} /\ toAdd = {} /\ passHosts = {} /\ want = {} /\ attempt = {}
  /\ firstErr = FALSE
  /\ hosts = [h \in Host |-> NoConn] /\ staleLocal = [h \in Host |-> {}]
  /\ keys = [o \in Owner |-> NoPsk] /\ initiating = {}
  /\ conns = [h \in Host |-> NoConn] /\ orphan = FALSE
  /\ policies = Leftover /\ routes = {}
  /\ last = "none" /\ moved = TRUE /\ doubt = {}
  /\ changes = MaxChange /\ faults = MaxFault

(***************************************************************************)
(* The environment: metadata and files change, charon dies and is          *)
(* replaced, the process exits (charon's death makes it exit, see          *)
(* monitorCharon and runCharon, but not at once) and is started again.     *)
(***************************************************************************)
ChangeDoc ==
  /\ changes > 0 /\ changes' = changes - 1
  /\ \E d \in Doc \ {doc} : doc' = d
  /\ UNCHANGED <<files, storeVars, up, pc, snap, mu, passVars, cacheVars, charonVars, kernelVars,
                 last, moved, faults>>

ChangeFiles ==
  /\ changes > 0 /\ changes' = changes - 1
  /\ \E f \in [psk: Psk, rev: Rev] \ {files} : files' = f
  /\ UNCHANGED <<doc, storeVars, up, pc, snap, mu, passVars, cacheVars, charonVars, kernelVars,
                 last, moved, faults>>

CharonGone == conns' = [h \in Host |-> NoConn] /\ doubt' = Host /\ orphan' = TRUE

CharonRestart ==
  /\ Fault /\ CharonGone
  /\ UNCHANGED <<envVars, storeVars, up, pc, snap, mu, passVars, cacheVars, kernelVars, last, moved>>

PassOver ==
  /\ localHost' = NoHost /\ todo' = {} /\ cur' = NoEntry /\ agent' = NoHost /\ existing' = {}
  /\ toAdd' = {} /\ passHosts' = {} /\ want' = {} /\ attempt' = {} /\ firstErr' = FALSE

(* log.Fatal or a kill: the process' memory is lost, the kernel's state is *)
(* not.  A charon this process launched ends with it (Pdeathsig), one it   *)
(* only monitors lives on with its connections.                            *)
Exit ==
  /\ up /\ up' = FALSE
  /\ IF orphan THEN NoFault ELSE Fault
  /\ mu' = Nobody /\ pc' = [r \in Reloader |-> "idle"]
  /\ PassOver /\ tmpl' = NoRev
  /\ hosts' = [h \in Host |-> NoConn] /\ staleLocal' = [h \in Host |-> {}]
  /\ keys' = [o \in Owner |-> NoPsk] /\ initiating' = {} /\ psk' = NoPsk
  /\ last' = "none" /\ moved' = TRUE
  /\ UNCHANGED charonVars \/ CharonGone
  /\ UNCHANGED <<envVars, info, self, entries, snap, kernelVars>>

(* appMain reloads the store, then Overlay.Start imports the names of the  *)
(* connections charon has (loadConns): known, but with no fingerprint.     *)
Boot ==
  /\ ~up /\ up' = TRUE
  /\ info' = doc /\ self' = doc.self /\ entries' = doc.entries
  /\ hosts' = [h \in Host |-> IF conns[h] = NoConn THEN NoConn ELSE Found]
  /\ doubt' = {} /\ orphan' = FALSE
  /\ UNCHANGED <<envVars, psk, pc, snap, mu, passVars, staleLocal, keys, initiating, conns,
                 kernelVars, last, moved, faults>>

-----------------------------------------------------------------------------
(***************************************************************************)
(* Reload: fetch the document, publish it field by field, read the psk     *)
(* file, configure.  None of this is under the mutex.                      *)
(***************************************************************************)
Fetch(r) ==
  /\ up /\ pc[r] = "idle" /\ Goto(r, "fetched")
  /\ snap' = [snap EXCEPT ![r] = doc]
  /\ UNCHANGED <<envVars, storeVars, up, mu, passVars, cacheVars, charonVars, kernelVars, last,
                 moved, faults>>

(* ms.info = info; ms.self = ...                                           *)
StoreSelf(r) ==
  /\ up /\ pc[r] = "fetched" /\ Goto(r, "selfSet")
  /\ info' = snap[r] /\ self' = snap[r].self
  /\ moved' = (moved \/ self' # self)
  /\ UNCHANGED <<envVars, entries, psk, up, snap, mu, passVars, cacheVars, charonVars, kernelVars,
                 last, faults>>

(* The rest of doInternalRefresh reads the shared ms.info, whoever wrote   *)
(* it last.                                                                *)
StoreEntries(r) ==
  /\ up /\ pc[r] = "selfSet" /\ Goto(r, "stored")
  /\ entries' = info.entries
  /\ moved' = (moved \/ entries' # entries)
  /\ UNCHANGED <<envVars, info, self, psk, up, snap, mu, passVars, cacheVars, charonVars,
                 kernelVars, last, faults>>

ReadPsk(r) ==
  /\ up /\ pc[r] = "stored"
  /\ \/ /\ NoFault /\ Goto(r, "ready")
        /\ psk' = files.psk /\ moved' = (moved \/ psk' # psk)
     \/ Fault /\ Goto(r, "idle") /\ UNCHANGED <<psk, moved>>
  /\ UNCHANGED <<envVars, info, self, entries, up, snap, mu, passVars, cacheVars, charonVars,
                 kernelVars, last>>

-----------------------------------------------------------------------------
(***************************************************************************)
(* configure, from o.Lock() to the deferred o.Unlock().                    *)
(***************************************************************************)

(* Templates are read again; getRules lists the kernel's policies.  A      *)
(* failed listing is remembered and leaves the list empty.                 *)
ConfigureBegin(r) ==
  /\ up /\ pc[r] = "ready" /\ mu = Nobody
  /\ \/ /\ Fault /\ Goto(r, "idle") /\ last' = "err"
        /\ UNCHANGED <<mu, passVars, moved>>
     \/ /\ mu' = r /\ Goto(r, "keys") /\ moved' = FALSE
        /\ tmpl' = files.rev /\ localHost' = self.host
        /\ todo' = {} /\ cur' = NoEntry /\ agent' = NoHost
        /\ toAdd' = {} /\ passHosts' = {} /\ want' = {} /\ attempt' = {}
        /\ \/ NoFault /\ existing' = policies /\ firstErr' = FALSE
           \/ Fault /\ existing' = {} /\ firstErr' = TRUE
        /\ UNCHANGED last
  /\ UNCHANGED <<envVars, storeVars, up, snap, cacheVars, charonVars, kernelVars>>

(* Mutant: a key that is loaded is taken for current, whatever its value.  *)
KeyLoadedOnce(o) == NoFault /\ keys' = [keys EXCEPT ![o] = IF @ = NoPsk THEN psk ELSE @]

(* loadSharedKey: a key already loaded with this value is not sent again.  *)
KeyLoaded(o) == NoFault /\ keys' = [keys EXCEPT ![o] = psk]
KeyRefused(o) == Fault /\ keys[o] # psk /\ UNCHANGED keys

(* loadSharedKey(""), then the range over o.db.Entries().                  *)
LoadDefaultKey(r) ==
  /\ InPass(r, "keys") /\ Goto(r, "loop")
  /\ \/ KeyLoaded(AnyPeer) /\ UNCHANGED firstErr
     \/ KeyRefused(AnyPeer) /\ firstErr' = TRUE
  /\ todo' = entries
  /\ UNCHANGED <<envVars, storeVars, up, snap, mu, localHost, tmpl, cur, agent, existing, toAdd,
                 passHosts, want, attempt, hosts, staleLocal, initiating, charonVars, kernelVars,
                 last, moved>>

(* The top of the loop: a peer's own key, the test for a local container,  *)
(* hostRoutes, and whether this pass already set up the entry's host.      *)
TakeEntry(r) ==
  /\ InPass(r, "loop")
  /\ \E e \in todo :
       /\ todo' = todo \ {e} /\ cur' = e
       /\ IF e.peer
          THEN \/ KeyLoaded(e.ip) /\ UNCHANGED firstErr
               \/ KeyRefused(e.ip) /\ firstErr' = TRUE
          ELSE UNCHANGED <<keys, faults, firstErr>>
       /\ IF e.host = localHost
          THEN Goto(r, "loop") /\ UNCHANGED want
          ELSE /\ want' = want \cup {e}
               /\ Goto(r, IF e.host \in passHosts THEN "rules" ELSE "host")
  /\ UNCHANGED <<envVars, storeVars, up, snap, mu, localHost, tmpl, agent, existing, toAdd,
                 passHosts, attempt, hosts, staleLocal, initiating, charonVars, kernelVars, last,
                 moved>>

(* Mutant: a host whose key cannot be loaded is skipped, not an error.     *)
AddHostKeySkipped(r) ==
  /\ InPass(r, "host")
  /\ \/ /\ KeyLoaded(cur.host) /\ Goto(r, "conn")
        /\ attempt' = attempt \cup {cur.host} /\ agent' = self.host
     \/ KeyRefused(cur.host) /\ Goto(r, "rules") /\ UNCHANGED <<attempt, agent>>
  /\ UNCHANGED <<envVars, storeVars, up, snap, mu, localHost, tmpl, todo, cur, existing, toAdd,
                 passHosts, want, firstErr, hosts, staleLocal, initiating, charonVars, kernelVars,
                 last, moved>>

(* addHost: the host's key, then hostAttempt and the agent address that    *)
(* goes into the connection's fingerprint.                                 *)
AddHostKey(r) ==
  /\ InPass(r, "host")
  /\ \/ /\ KeyLoaded(cur.host) /\ Goto(r, "conn")
        /\ attempt' = attempt \cup {cur.host} /\ agent' = self.host
        /\ UNCHANGED firstErr
     \/ /\ KeyRefused(cur.host) /\ Goto(r, "rules")
        /\ firstErr' = TRUE /\ UNCHANGED <<attempt, agent>>
  /\ UNCHANGED <<envVars, storeVars, up, snap, mu, localHost, tmpl, todo, cur, existing, toAdd,
                 passHosts, want, hosts, staleLocal, initiating, charonVars, kernelVars, last,
                 moved>>

(* Mutant: the loaded connection is not entered in o.hosts.                *)
ConnectionUncached(h, fp) ==
  /\ conns' = [conns EXCEPT ![h] = fp] /\ doubt' = doubt \ {h}
  /\ UNCHANGED <<staleLocal, hosts, orphan>>

ConnectionLoaded(h, fp) ==
  /\ conns' = [conns EXCEPT ![h] = fp]
  /\ staleLocal' = [staleLocal EXCEPT ![h] = @ \cup QueuedLocal(hosts[h], fp)]
  /\ hosts' = [hosts EXCEPT ![h] = fp]
  /\ doubt' = doubt \ {h} /\ UNCHANGED orphan

(* Mutant: the connection is entered in o.hosts before charon confirms it. *)
ConnectionCachedEarly(h, fp) ==
  Fault /\ hosts' = [hosts EXCEPT ![h] = fp] /\ UNCHANGED <<charonVars, staleLocal>>

(* All three load-conn requests failed; charon may have obeyed one of      *)
(* them, and the cache then describes an older connection.                 *)
ConnectionRefused(h, fp) ==
  /\ Fault
  /\ \/ UNCHANGED charonVars
     \/ LostReplies /\ conns' = [conns EXCEPT ![h] = fp] /\ doubt' = doubt \cup {h} /\ UNCHANGED orphan
  /\ UNCHANGED <<hosts, staleLocal>>

(* addHostConnection after the agent address: the tunnel address is a      *)
(* second read of the store.                                               *)
AddHostConnection(r) ==
  LET h  == cur.host
      fp == [rev |-> tmpl, agent |-> agent, tunnel |-> LocalTunnelAddress(self)]
  IN
  /\ InPass(r, "conn") /\ Goto(r, "rules")
  /\ \/ /\ hosts[h] = fp /\ NoFault
        /\ passHosts' = passHosts \cup {h} /\ UNCHANGED <<hosts, staleLocal, charonVars, firstErr>>
     \/ /\ hosts[h] # fp /\ NoFault /\ ConnectionLoaded(h, fp)
        /\ passHosts' = passHosts \cup {h} /\ UNCHANGED firstErr
     \/ /\ hosts[h] # fp /\ ConnectionRefused(h, fp)
        /\ firstErr' = TRUE /\ UNCHANGED passHosts
  /\ UNCHANGED <<envVars, storeVars, up, snap, mu, localHost, tmpl, todo, cur, agent, existing,
                 toAdd, want, attempt, keys, initiating, kernelVars, last, moved>>

(* Mutant: a policy is recognised by its selector only, not its template.  *)
AddRulesBySelector(r) ==
  LET P == PoliciesOf(cur, LocalTunnelAddress(self)) IN
  /\ InPass(r, "rules") /\ Goto(r, "loop")
  /\ existing' = {q \in existing : \A p \in P : ~SameSelector(p, q)}
  /\ toAdd' = toAdd \cup (P \ existing)
  /\ UNCHANGED <<envVars, storeVars, up, snap, mu, localHost, tmpl, todo, cur, agent, passHosts,
                 want, attempt, firstErr, cacheVars, charonVars, kernelVars, last, moved, faults>>

(* Mutant: every policy is deleted and added again.                        *)
AddRulesReplacing(r) ==
  /\ InPass(r, "rules") /\ Goto(r, "loop")
  /\ toAdd' = toAdd \cup PoliciesOf(cur, LocalTunnelAddress(self))
  /\ UNCHANGED <<envVars, storeVars, up, snap, mu, localHost, tmpl, todo, cur, agent, existing,
                 passHosts, want, attempt, firstErr, cacheVars, charonVars, kernelVars, last, moved,
                 faults>>

(* addRules: what is already in the kernel is taken off the list of        *)
(* policies to delete, the rest is put on the list to add.                 *)
AddRules(r) ==
  LET P == PoliciesOf(cur, LocalTunnelAddress(self)) IN
  /\ InPass(r, "rules") /\ Goto(r, "loop")
  /\ existing' = existing \ P
  /\ toAdd' = toAdd \cup (P \ existing)
  /\ UNCHANGED <<envVars, storeVars, up, snap, mu, localHost, tmpl, todo, cur, agent, passHosts,
                 want, attempt, firstErr, cacheVars, charonVars, kernelVars, last, moved, faults>>

(* deletePolicies tries every policy and reports a failure at the end.     *)
DeletePolicies(r) ==
  /\ InPass(r, "loop") /\ todo = {} /\ ~firstErr
  /\ \/ NoFault /\ policies' = policies \ existing /\ Goto(r, "add") /\ UNCHANGED firstErr
     \/ /\ Fault
        /\ \E kept \in (SUBSET existing) \ {{}} : policies' = (policies \ existing) \cup kept
        /\ Goto(r, "end") /\ firstErr' = TRUE
  /\ UNCHANGED <<envVars, storeVars, up, snap, mu, localHost, tmpl, todo, cur, agent, existing,
                 toAdd, passHosts, want, attempt, cacheVars, charonVars, routes, last, moved>>

(* addPolicies tries every policy; the kernel refuses an occupied selector. *)
AddPolicies(r) ==
  LET refused == {p \in toAdd : \E q \in policies : SameSelector(p, q)} IN
  /\ InPass(r, "add")
  /\ \/ /\ refused = {} /\ NoFault
        /\ policies' = policies \cup toAdd /\ Goto(r, "routes") /\ UNCHANGED firstErr
     \/ /\ refused # {} /\ NoFault
        /\ policies' = policies \cup (toAdd \ refused) /\ Goto(r, "end") /\ firstErr' = TRUE
     \/ /\ Fault
        /\ \E failed \in (SUBSET toAdd) \ {{}} : policies' = policies \cup (toAdd \ (failed \cup refused))
        /\ Goto(r, "end") /\ firstErr' = TRUE
  /\ UNCHANGED <<envVars, storeVars, up, snap, mu, localHost, tmpl, todo, cur, agent, existing,
                 toAdd, passHosts, want, attempt, cacheVars, charonVars, routes, last, moved>>

(* Mutant: routes that are no longer wanted stay.                          *)
SyncHostRoutesKeeping(r) ==
  /\ InPass(r, "routes") /\ NoFault /\ Goto(r, "reap")
  /\ routes' = (IF SyncRoutes THEN routes \cup {RouteOf(e) : e \in want} ELSE routes)
  /\ UNCHANGED <<envVars, storeVars, up, snap, mu, localHost, tmpl, todo, cur, agent, existing,
                 toAdd, passHosts, want, attempt, firstErr, cacheVars, charonVars, policies, last, moved>>

(* syncHostRoutes: replace every wanted route, then delete the others.  A  *)
(* route whose replacement failed keeps its old next hop.                  *)
SyncHostRoutes(r) ==
  LET wanted == {RouteOf(e) : e \in want} IN
  /\ InPass(r, "routes")
  /\ \/ NoFault /\ routes' = (IF SyncRoutes THEN wanted ELSE routes) /\ Goto(r, "reap") /\ UNCHANGED firstErr
     \/ /\ SyncRoutes /\ Fault
        /\ \E done \in (SUBSET Ip) \ {Ip} :
             routes' = {x \in routes : x.ip \notin done} \cup {x \in wanted : x.ip \in done}
        /\ Goto(r, "end") /\ firstErr' = TRUE
  /\ UNCHANGED <<envVars, storeVars, up, snap, mu, localHost, tmpl, todo, cur, agent, existing,
                 toAdd, passHosts, want, attempt, cacheVars, charonVars, policies, last, moved>>

(* reapStaleLocalSAs: after listing and terminating (which SAs is data     *)
(* left out here) the authority of the hosts of this pass is spent.        *)
ReapStaleLocal(r) ==
  /\ InPass(r, "reap")
  /\ \/ /\ NoFault /\ Goto(r, "peers") /\ UNCHANGED firstErr
        /\ staleLocal' = [h \in Host |-> IF HostTunnel /\ h \in passHosts THEN {} ELSE staleLocal[h]]
     \/ /\ HostTunnel /\ (\E h \in Host : staleLocal[h] # {})
        /\ Fault /\ Goto(r, "end") /\ firstErr' = TRUE /\ UNCHANGED staleLocal
  /\ UNCHANGED <<envVars, storeVars, up, snap, mu, localHost, tmpl, todo, cur, agent, existing,
                 toAdd, passHosts, want, attempt, hosts, keys, initiating, charonVars, kernelVars,
                 last, moved>>

(* restartForStalePeerIdentities: nothing found; or charon could not be    *)
(* asked; or an SA has an identity the metadata no longer lists, and       *)
(* charon is killed.                                                       *)
RestartForStalePeers(r) ==
  /\ InPass(r, "peers")
  /\ \/ NoFault /\ Goto(r, "remove") /\ UNCHANGED <<firstErr, charonVars>>
     \/ Fault /\ Goto(r, "end") /\ firstErr' = TRUE /\ UNCHANGED charonVars
     \/ Fault /\ Goto(r, "end") /\ firstErr' = TRUE /\ CharonGone
  /\ UNCHANGED <<envVars, storeVars, up, snap, mu, localHost, tmpl, todo, cur, agent, existing,
                 toAdd, passHosts, want, attempt, cacheVars, kernelVars, last, moved>>

(* Mutants: the hosts to keep are those of peers; those now in the store.  *)
VictimsWithoutPeer == {h \in Host : hosts[h] # NoConn /\ \A e \in want : e.peer => e.host # h}
VictimsByStore     == {h \in Host : hosts[h] # NoConn /\ \A e \in entries : e.host # h}

(* The known hosts this pass did not attempt.                              *)
Victims == {h \in Host : hosts[h] # NoConn /\ h \notin attempt}

(* removeHosts: unload the victims.  charon refuses to unload a connection *)
(* it does not have.                                                       *)
RemoveHosts(r) ==
  LET there == {h \in Victims : conns[h] # NoConn} IN
  /\ InPass(r, "remove") /\ Goto(r, "end")
  /\ \E gone \in SUBSET there : \E lost \in SUBSET (there \ gone) :
       /\ IF gone = there THEN NoFault ELSE Fault
       /\ lost = {} \/ LostReplies
       /\ hosts' = [h \in Host |-> IF h \in gone THEN NoConn ELSE hosts[h]]
       /\ staleLocal' = [h \in Host |-> IF h \in gone THEN {} ELSE staleLocal[h]]
       /\ conns' = [h \in Host |-> IF h \in gone \cup lost THEN NoConn ELSE conns[h]]
       /\ doubt' = (doubt \cup lost) \ gone
       /\ firstErr' = (gone # Victims)
  /\ UNCHANGED <<envVars, storeVars, up, snap, mu, localHost, tmpl, todo, cur, agent, existing,
                 toAdd, passHosts, want, attempt, keys, initiating, orphan, kernelVars, last, moved>>

(* Mutant: a pass with an error is repeated before Reload returns.         *)
ConfigureEndRetries(r) ==
  /\ InPass(r, "end") \/ (InPass(r, "loop") /\ todo = {} /\ firstErr)
  /\ Goto(r, IF firstErr THEN "ready" ELSE "idle") /\ mu' = Nobody
  /\ last' = IF firstErr THEN "err" ELSE "nil"
  /\ initiating' = IF firstErr THEN initiating ELSE initiating \cup passHosts
  /\ PassOver
  /\ UNCHANGED <<envVars, storeVars, up, snap, tmpl, hosts, staleLocal, keys, charonVars,
                 kernelVars, moved, faults>>

(* The end of configure: schedule the initiates of a successful pass and   *)
(* unlock.  A pass with an error gets here straight from the loop.         *)
ConfigureEnd(r) ==
  /\ InPass(r, "end") \/ (InPass(r, "loop") /\ todo = {} /\ firstErr)
  /\ Goto(r, "idle") /\ mu' = Nobody
  /\ last' = IF firstErr THEN "err" ELSE "nil"
  /\ initiating' = IF firstErr THEN initiating ELSE initiating \cup passHosts
  /\ PassOver
  /\ UNCHANGED <<envVars, storeVars, up, snap, tmpl, hosts, staleLocal, keys, charonVars,
                 kernelVars, moved, faults>>

(* The initiating goroutine is done with a host (module IpsecHealth).      *)
InitiateDone(h) ==
  /\ up /\ mu = Nobody /\ h \in initiating /\ initiating' = initiating \ {h}
  /\ UNCHANGED <<envVars, storeVars, up, pc, snap, mu, passVars, hosts, staleLocal, keys,
                 charonVars, kernelVars, last, moved, faults>>

ReloadStep(r) ==
  \/ StoreSelf(r) \/ StoreEntries(r) \/ ReadPsk(r) \/ ConfigureBegin(r) \/ LoadDefaultKey(r)
  \/ TakeEntry(r) \/ AddHostKey(r) \/ AddHostConnection(r) \/ AddRules(r) \/ DeletePolicies(r)
  \/ AddPolicies(r) \/ SyncHostRoutes(r) \/ ReapStaleLocal(r) \/ RestartForStalePeers(r)
  \/ RemoveHosts(r) \/ ConfigureEnd(r)

Next ==
  \/ ChangeDoc \/ ChangeFiles \/ CharonRestart \/ Exit \/ Boot
  \/ \E r \in Reloader : Fetch(r) \/ ReloadStep(r)
  \/ \E h \in Host : InitiateDone(h)

Spec == Init /\ [][Next]_vars

-----------------------------------------------------------------------------
StoreOK ==
  /\ doc \in Doc /\ info \in Doc /\ snap \in [Reloader -> Doc]
  /\ files \in [psk: Psk, rev: Rev] /\ psk \in Psk \cup {NoPsk}
  /\ self \in Self /\ entries \in SUBSET Entry
ControlOK ==
  /\ up \in BOOLEAN /\ moved \in BOOLEAN /\ last \in {"none", "nil", "err"}
  /\ pc \in [Reloader -> OutsidePhase \cup PassPhase]
  /\ mu \in Reloader \cup {Nobody}
  /\ changes \in 0..MaxChange /\ faults \in 0..MaxFault
PassOK ==
  /\ localHost \in Host \cup {NoHost} /\ agent \in Host \cup {NoHost}
  /\ tmpl \in Rev \cup {NoRev} /\ firstErr \in BOOLEAN
  /\ todo \in SUBSET Entry /\ want \in SUBSET Entry /\ cur \in Entry \cup {NoEntry}
  /\ existing \in SUBSET Policy /\ toAdd \in SUBSET Policy
  /\ passHosts \in SUBSET Host /\ attempt \in SUBSET Host
CacheOK ==
  /\ hosts \in [Host -> Fingerprint \cup {NoConn, Found}]
  /\ staleLocal \in [Host -> SUBSET Host]
  /\ keys \in [Owner -> Psk \cup {NoPsk}] /\ initiating \in SUBSET Host
CharonOK ==
  conns \in [Host -> Fingerprint \cup {NoConn}] /\ doubt \in SUBSET Host /\ orphan \in BOOLEAN
KernelOK == policies \in SUBSET Policy /\ routes \in SUBSET Route

(* Type invariant of the overlay, its callers, charon and the kernel.      *)
TypeOK == StoreOK /\ ControlOK /\ PassOK /\ CacheOK /\ CharonOK /\ KernelOK

(* What the store asks for: the entries on other hosts, their hosts, the   *)
(* policies of their addresses and the owners of the keys they need.       *)
RemoteEntries == {e \in entries : e.host # self.host}
RemoteHosts   == {e.host : e \in RemoteEntries}
Desired       == UNION {PoliciesOf(e, LocalTunnelAddress(self)) : e \in RemoteEntries}
KeyOwners     == {AnyPeer} \cup RemoteHosts \cup {e.ip : e \in {x \in entries : x.peer}}
CurrentConn   == [rev |-> tmpl, agent |-> self.host, tunnel |-> LocalTunnelAddress(self)]

(* A configure that returned nil and whose inputs nobody has replaced      *)
(* since it took the mutex (~moved) has brought every piece of state it    *)
(* owns to what the store asks for: kernel policies and routes exactly,    *)
(* the connection cache exactly, charon's connections wherever no reply    *)
(* was lost (doubt), every key, and no stale-local authority left over.    *)
(* configure, ipsec.go:229-317.                                            *)
Converged ==
  (up /\ mu = Nobody /\ last = "nil" /\ ~moved) =>
    /\ policies = Desired
    /\ SyncRoutes => routes = {RouteOf(e) : e \in RemoteEntries}
    /\ \A h \in Host : hosts[h] = IF h \in RemoteHosts THEN CurrentConn ELSE NoConn
    /\ \A h \in Host \ doubt : conns[h] = hosts[h]
    /\ \A h \in Host : HostTunnel => staleLocal[h] = {}
    /\ \A o \in KeyOwners : keys[o] = psk

(* When addPolicies runs, no policy it adds meets an occupied selector:    *)
(* the deletions of the same pass freed it, and no other pass has run in   *)
(* between.  This needs the mutex, the order delete-then-add and the       *)
(* store's one entry per address.  addRules/deletePolicies/addPolicies,    *)
(* ipsec.go:281-287, 733-765, 1104-1114.                                   *)
AddsFindFreeSelectors ==
  \A r \in Reloader : InPass(r, "add") =>
    \A p \in toAdd : \A q \in policies : ~SameSelector(p, q)

(* Traffic is sent only into tunnels that charon can build: a policy that  *)
(* appears in the kernel leads to a host whose key and connection charon   *)
(* has confirmed to this very process and, unless a reply was lost (doubt),*)
(* still has; they are the current ones unless the store was replaced      *)
(* under the pass.  One entry's failing key or connection keeps the        *)
(* policies of all entries out of the kernel, those of another entry of    *)
(* the same host and those queued before the failure too.                  *)
(* ipsec.go:251-287, 750-765, 951-1021.                                    *)
PoliciesCovered ==
  [][\A p \in policies' \ policies :
       /\ hosts[p.rem] \in Fingerprint /\ keys[p.rem] \in Psk
       /\ p.rem \notin doubt => conns[p.rem] = hosts[p.rem]
       /\ ~moved => hosts[p.rem] = CurrentConn /\ keys[p.rem] = psk]_vars

(* removeHosts never unloads the connection of a host that has an entry in *)
(* the running pass, whatever failed before and whoever replaced the store *)
(* meanwhile.  ipsec.go:251-279, 901-917, 993.                             *)
UsedConnectionKept ==
  [][\A r \in Reloader : InPass(r, "remove") /\ pc'[r] = "end" =>
       \A e \in want : conns[e.host] # NoConn => conns'[e.host] # NoConn]_vars

(* Every caller returns from Reload: it is never stuck behind the mutex.   *)
ReloadReturns == \A r \in Reloader : pc[r] # "idle" ~> pc[r] = "idle"

(* An unload that charon obeyed and whose answer was lost: the host stays  *)
(* in the cache, and charon refuses to unload what it does not have.       *)
Ghost == \E h \in Host \ RemoteHosts : hosts[h] # NoConn /\ conns[h] = NoConn

(* Retrying is enough: if Reload keeps being called, from some point on    *)
(* every pass ends with nil, whatever failed half-way before, unless a     *)
(* lost answer to an unload has left a host behind that no later pass can  *)
(* remove (only a restart of the process can).  ipsec.go:229-317, 901-930. *)
RetrySucceeds ==
  []<>(\E r \in Reloader : pc[r] # "idle") => <>[](last = "nil" \/ Ghost)

(* The goroutines run, the mutex is handed over to whoever keeps asking    *)
(* (Go's mutexes have a starvation mode), the supervisor restarts a dead   *)
(* process, and a process whose charon died exits.                         *)
Fairness ==
  /\ \A r \in Reloader : WF_vars(ReloadStep(r)) /\ SF_vars(ConfigureBegin(r))
  /\ WF_vars(Boot) /\ WF_vars(orphan /\ Exit)

FairSpec == Spec /\ Fairness

=============================================================================
