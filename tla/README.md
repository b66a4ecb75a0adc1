# Verification of the IPsec / VXLAN overlay network

TLA+ modules for the agent that connects the containers of several hosts: it
reads a metadata service, and keeps the host's kernel (XFRM policies, routes,
neighbours, VXLAN forwarding) and its strongSwan daemon (charon) as the metadata
asks. The modules follow the code in `src/`; `PROJECT.json` maps every
definition to the lines it stands for, and lists the runs, the mutants of the
code that each property detects, the hazards and the theorems.

## 1. The system

| Component | Code | State | Operations | Works with |
|---|---|---|---|---|
| IPsec overlay | `backend/ipsec/ipsec.go` | `hosts` (name -> fingerprint), `keys`, `staleLocal`, `initiating`, `psk`, `templates`, a mutex | `Start`, `Reload`, `configure` and its steps | store, kernel (netlink), charon (vici, swanctl) |
| Connection ownership | `backend/ipsec/connection.go` | the fingerprints above | `hostConnectionConfig`, `loadHostConnection`, `reapStaleLocalSAs`, `staleLocalIKEIDs` | charon |
| Health monitor | `ipsec.go` (`monitorIpsecHealth` ...) | `initiating` | a tick every 30 s, initiating goroutines with retries, the duplicate reaper | charon, store, overlay mutex |
| Charon supervision | `ipsec.go` (`runCharon`, `monitorCharon`) | the child process, a pid file | start, watch, `log.Fatal` when it is gone | process supervisor |
| VXLAN overlay | `backend/vxlan` | `prevPeerEntries`, `prevNonPeerRemoteEntries`, `peersMapping` | `Start`, `Reload`, `configure`, diff, add/del of entries | store, kernel (netlink) |
| Metadata store | `store/metadata.go` | `info`, `self`, `entries`, the peer and remote maps, no lock | `Reload` | metadata service |
| Simple store | `store/simple.go` | the same interface over a file | `Reload` | - |
| Change handler, HTTP server | `mdchandler`, `server` | - | both call `Reload` of the overlay | overlay |
| ARP proxy | `arp` | - | answers ARP requests for remote addresses | store |
| Connectivity check | `connectivitycheck` | peers, per-peer counters, the verdict | a watch goroutine, an HTTP probe per peer, `/ping`, `/connectivity` | metadata service |
| Firewall backend, topology planner, CNI resolver | `docker_firewall_driver.go`, `internal/topology`, `cmd/...` | none or one document | decisions over their inputs | - |

What is hard in it:

* **Two callers.** The HTTP handler and the metadata change handler may both be
  inside `Reload`. IPsec's `configure` is under a mutex, but the store and
  `o.psk` are written before it is taken, so a running pass reads a store that
  is being replaced. VXLAN's `configure` has its lock commented out.
* **Many steps, each of which may fail.** A pass makes dozens of netlink, vici
  and swanctl calls, keeps caches of what it believes charon has, and stops
  half-way on errors. The next pass starts from whatever is left.
* **Answers that are lost.** charon may load or unload a connection although
  the caller sees a timeout.
* **Two restarts.** charon dies and takes connections and keys with it; the
  process exits, loses its own state, leaves the kernel's and takes charon with
  it or not, depending on who launched charon.
* **Documents that change while they are read.** The store and the connectivity
  check make several requests for one document, and publish it field by field.
* **Decisions from snapshots.** The reaper terminates SAs picked from a list
  that is out of date when it is used, at both ends of a tunnel at once.

What correctness means, component by component:

* IPsec reconciliation: a successful pass has converged; no pass interrupts what
  stays wanted or directs traffic to a host charon is not ready for; nobody waits for
  ever.
* Health monitor: one goroutine per peer; a reachable peer gets its tunnel back;
  duplicates are removed without removing the last good SA.
* VXLAN: after a Reload the kernel forwards as the store says, the bookkeeping is a
  true record of the kernel, and a failing call harms only the address it is about.
* Connection ownership: only SAs of this overlay, on addresses this process gave
  up, are ended, and all it still answers for are; restarts for stale identities come to an end.
* Store: what is published is well-formed whatever was mixed in it, and is the
  current document in the end; the file store and the metadata store agree.
* Connectivity check: one probe per peer; the verdict follows the network in both
  directions.

## 2. Modules

### `IpsecConfigure` - `Overlay.Reload` and `Overlay.configure`

A *metadata document* is this host's identity and the set of container entries,
one per address (`DocAssumption`; `doInternalRefresh` keeps the first entry of
an address). A caller (`Reloader`) goes through the positions

    idle -Fetch-> fetched -StoreSelf-> selfSet -StoreEntries-> stored -ReadPsk-> ready
         -ConfigureBegin (lock)-> keys -LoadDefaultKey-> loop
         loop -TakeEntry-> host -AddHostKey-> conn -AddHostConnection-> rules -AddRules-> loop
         loop -DeletePolicies-> add -AddPolicies-> routes -SyncHostRoutes-> reap
              -ReapStaleLocal-> peers -RestartForStalePeers-> remove -RemoveHosts-> end
         -ConfigureEnd (unlock)-> idle

| Variable | Code |
|---|---|
| `info, self, entries` | `MetadataStore.info`, `.self`, `.entries`, written one by one |
| `psk, hosts, keys, staleLocal, initiating, mu` | fields of `Overlay` and its mutex |
| `localHost, todo, cur, agent, existing, toAdd, passHosts, want, attempt, firstErr` | locals of `configure` (`hosts`, `hostRoutes`, `existingPolicies`, `policiesToAdd` ...) and `o.hostAttempt` |
| `conns` | the connections charon has loaded |
| `policies, routes` | the kernel's XFRM policies and the protocol-186 routes |
| `moved`, `doubt`, `orphan`, `last` | history: a store field or the psk has changed since the pass began; connections about which a reply was lost; charon has died under this process; the result of the last pass |

The fingerprint of a connection is the template revision, the agent address and
the tunnel address, which `addHostConnection` reads from the store at two
different moments. Every call that can fail has its failing disjunct, paid for
from `faults`: listing rules, loading a key, loading a connection (with and
without effect), deleting or adding any subset of the policies, replacing any
subset of the routes, listing SAs, killing charon, unloading a subset of the
connections. `Exit` and `CharonRestart` may come at any moment (a charon that the
process launched ends with it, one that it only monitors does not); `Boot` imports the
names of charon's connections without their contents (`Found`), as `loadConns`
does.

Simplifications: an entry that fails to parse is not modelled, so `addRules`
always succeeds; a failing `db.Reload` changes nothing and is the caller not
fetching; a first `Reload` that fails in `main` makes the process exit, which is
an `Exit`; entries are taken in any order (the code's order is that of the
metadata); policies are deleted and added in one step, since nothing else
touches them under the mutex, but for a death of the process in between, which
the failing disjuncts followed by `Exit` produce.

### `Reconciler`, `IpsecRefinement` - what a reconciling overlay promises

`Reconciler` is the abstract specification of one kernel table: nothing is touched
outside a pass; while the inputs of the pass stand it neither removes a wanted item
nor installs an unwanted one; a pass that reports success has left exactly the wanted
items. `IpsecRefinement` instantiates it twice over `IpsecConfigure`, for the XFRM
policies (`PoliciesReconciled`) and for the routes of protocol 186
(`RoutesReconciled`). A pass is the time the mutex is held, `moved` and `last` are
the history variables of `IpsecConfigure`; a pass that fails to reload its templates
is `Refuse`. The VXLAN backend does not implement it: its `configure` drops every
error but that of the interface.

### `SaOwnership` - which SAs may be ended

`addHostConnection`, `loadHostConnection`, `staleLocalIKEIDs`, `reapStaleLocalSAs`,
`terminateIKEID`, `restartForStalePeerIdentities` and `removeHosts`, run by one configure
after the other:

    idle -Begin-> load -ReadAgent, Load (each listed peer)-> -ReapList-> reap
         -Terminate*, ReapEnd-> peers -CheckPeers-> remove -RemoveHost*, RemoveEnd-> idle

beside a charon whose SAs come and go, a host address that changes, peers whose agents
are replaced and that leave and return, failing and unanswered requests, deaths of charon
and of the process. An SA is its peer, its local address, the identity the peer presented,
and `ours`: the name, children and reqid of a connection of this overlay. `hosts` keeps of
a fingerprint the agent address and the tunnel address, which alone decide about the
authority (`Queued`) and which `ipsec.go:994` reads at two moments: `ReadAgent` takes the
first, `Load` the second. `removeHosts` unloads the connection of a peer the pass did not
attempt and forgets its fingerprint and the authority; its SAs stay (`RemoveHost`,
`Forgotten`). The first Reload of a process that fails ends the process
(`last = "fatal"`). History: `past` (addresses this process loaded and answers for),
`moved`, `doubt` (per peer the addresses whose load went unanswered) and `torn` (the
addresses of fingerprints whose two reads disagreed); an address leaves `doubt` and `torn`
when a whole load of it is answered. The steps of configure that touch neither
connections nor SAs are those of `IpsecConfigure`.

### `IkeSa`, `IpsecHealth` - health monitor and initiating goroutines

`IkeSa` has the selections over a list-sas answer as operators:
`InstalledChildren`, `DeletingDuplicates`, `IdleDuplicates`. An SA is a record of
what they look at; byte counters are reduced to zero or not zero, ages to before
or after the quiet period.

`IpsecHealth` has the marks `initiating`, the goroutines `jobs` (the target being
worked on, the targets left, the attempts made) and the monitor (`tick`), beside
a charon whose SAs appear, carry traffic, become busy, are being deleted or
vanish (`churn`) and peers that stop answering. The list the duplicates are
picked from stays in `snapSas` until the last terminate request.

### `DuplicatePair` - both ends of a tunnel pair

Two hosts that hold the same two SAs, each with its own byte counters, packets
and deletes in flight, and the reaper of `IkeSa` at one or both ends.

### `VxlanOverlay` - the VXLAN backend

Each caller goes through `Fetch`, `StorePeers`, `StoreRemotes`, `CheckVtep`,
`PeerDiff`, then one step per entry added or deleted, `PeerUpdAndMapping`,
`RemoteDiff`, again one step per entry, `RemoteUpdAndReturn`. There is no mutex:
every step interleaves with every other. Adding or deleting a peer is a route, a
neighbour and a forwarding entry; each call may fail, by itself (`faults`; `hit` remembers
for which address) or because the kernel refuses to add what exists or to delete what does
not. An entry of the store has no host address if the metadata does not list its host
(`NoHost`): as a peer it is an error and not recorded, as a container it is skipped; what
is recorded has one (`Placed`). An entry whose host changed is recorded with its *previous* value and not
programmed, as in the code. The MAC of a peer is a function of its address, so
addresses stand for MACs. `Start`'s first configure is a Reload with the
document at boot. The interface is absent, down (created, but its MAC or its state
could not be set) or up; `checkAndCreateVTEP` takes any interface of the name as it
is, and the kernel refuses routes over one that is down.

### `MetadataStore` - store, change handler, HTTP reload, ARP proxy

`Reload` makes one request per step (`RequestSelf` ... `RequestNetworks`); the document
may change between any two, and any may fail. A failed `GetSelfContainer` is survived
with the client address (`FallbackFound`). `Entries`, `PeersMap` and `Maps` are
`doInternalRefresh` as functions of what was fetched; `PublishInfo`, `PublishSelf`,
`PublishLocal` and `PublishRemote` are its assignments, during which other goroutines
read. `OnChange` is the client's polling loop with the handler it calls, `HttpReload`
the HTTP handler, `ArpRequest` and `ArpDone` the proxy between its two look-ups.
`SimpleMaps` is what the file store makes of a file. `overlap` remembers that two
Reloads were in progress together. The documents `IpsecConfigure` and `VxlanOverlay`
take as given are the ones published here: `StoreSplitsEntries` is what they assume.
Assumed of the documents: the agent's container is listed and keeps its address, host
and network while the agent runs in it (`MetadataDocAssumption`,
`MetadataSelfAssumption`; containers that share its network namespace may be listed
before it), and an agent's address is that of one host (`MetadataPeerAssumption`).

### `ConnectivityCheck` - the connectivity-check sidecar

The watch goroutine with its requests (`/self/host` and `/hosts` are one step,
`/services` and the critical section of `doWork` another; whether the own service is
active and asks for the check is read with `/self/service`, the state of the check's
service with `/services`), the objects and goroutines
of the peers (`ProbeStart`, `ProbeEnd`, `Elapse`, `Return`), `/ping` as look-up and
credit, and `listenWithPortHandoff`. A peer object is a container and a slot, so that
the object of a container that left and the new one of the same container can live
together. `time.Since(lastChecked) < checkInterval` is a flag. The network is what
answers probes (`answers`) and what reaches this host (`calls`), independently.

### MC modules

`MCIpsecConfigure`, `MCIpsecHealth`, `MCVxlanOverlay`, `MCMetadataStore` and
`MCConnectivityCheck` give the document sets and model values of the instances; the
`.cfg` files choose among them. `DuplicatePair` and `SaOwnership` need none.

## 3. Runs

| Run | Question | Bounds |
|---|---|---|
| `ipsec_faults` | Does a nil result mean convergence, does no pass disturb what stays wanted, and does a policy appear only when charon is ready for it, whatever fails? | one caller, two containers on three hosts, foreign policies in the kernel, 2 metadata changes, 2 failures |
| `ipsec_races` | Convergence, free selectors, used connections and the policies' refinement with two callers and this host moving to another address | 2 callers (interchangeable: symmetry), 2 changes, 1 failure, no lost replies |
| `ipsec_live` | Does every caller return from `Reload`, and does calling it again end in success? Convergence with the overlay address as tunnel source, no routes, a psk that changes | 2 callers, three directions, 1 change, 1 failure or lost answer, exits included |
| `health_two_peers` | Exactly one goroutine per peer; recovery of a peer although another does not answer | 2 peers, 2 attempts, 2 unasked changes |
| `health_one_peer` | Duplicates never cost the last good SA; recovery with failing requests | 1 peer, 4 unasked changes, 1 failure |
| `duplicates_both_reap` | Does a pair of tunnels survive two reapers? **No** (section 6) | 2 tunnels, 2 packets |
| `sa_ownership` | Which SAs are ended, and do the restarts end? | 2 peers that may leave and return, 2 addresses (away and back), 2 identities, 2 changes, 1 failure or crash |
| `vxlan_stable` | Does the kernel forward as the store says after a Reload, for the addresses that keep their place, while others do not? | an agent and its container that keep host and role, two addresses that change host, role and agent or lose their host, 2 changes, 1 failure |
| `vxlan_faults` | Does a failing call harm no address but its own, and does every forwarding entry keep its record? | 2 addresses in any role on any of 2 hosts or none (addresses and hosts interchangeable: symmetry), 2 changes, 2 failures |
| `vxlan_two_reloads` | `Reconfigured` with two Reloads. **No** (section 6) | 1 change |
| `metadata_store` | Is what the store publishes well-formed, and current in the end? | change handler, one HTTP reload, ARP proxy, 3 documents, 1 change at any point, 1 failed request |
| `connectivity` | Does the verdict follow the network, with one live goroutine per peer? | 1 container with 2 objects and 2 addresses, 2 changes, 1 lost request or probe |

Why the bounds are enough. Three hosts are the smallest number with a local host,
a host that stays and one that goes. Two containers allow one to move while
another shares or keeps its host. Two changes give three documents, so that an
input can go and come back. Two failures are one that leaves debris and one in
the pass that repairs it; where a run has one, the passes after it are free to repair
what it left, or to trip over it. In the health module two SAs of a peer are the case
the reaper is about; three and four occur as well. One direction is enough
where only the policies of one selector matter; all three are used in `ipsec_live`. The
three documents of `metadata_store` are an agent alone, a second host that registers
while this host's address changes, and a list with a shared address, a container
without address, one in another's network and a linked environment; one change is
enough for every mixture of two of them. Two addresses and two changes let a host move
away and back, also between the two reads of a fingerprint, which is the case
`SaOwnership` is about (a peer's return costs no change, so that a removed peer can come
back after a move). In `vxlan_stable` an agent and its container keep their place while
two other addresses take every role on either host and none; in `vxlan_faults` all do. One container suffices in
`connectivity` because the peers share only the verdict, which is a conjunction.

**The properties.**

* `Converged` - a configure that returned nil and whose inputs still stand has
  made kernel policies, routes, the connection cache and (where no reply was
  lost) charon's connections exactly what the store asks for, loaded every key
  and spent every stale-local authority.
* `AddsFindFreeSelectors` - no policy being added meets an occupied selector.
* `PoliciesCovered` - a policy appears in the kernel only for a host whose key and
  connection charon has confirmed to this process and (where no reply was lost) still has;
  they are the current ones if the inputs of the pass stand. One failing host keeps the
  policies of the whole pass out.
* `UsedConnectionKept` - `removeHosts` never unloads the connection of a host
  with an entry in the running pass.
* `ReloadReturns` - no caller is stuck behind the mutex.
* `RetrySucceeds` - if `Reload` keeps being called, every pass succeeds from some point
  on, unless a lost answer to an unload left a host that only a restart removes
  (`Ghost`).
* `PoliciesReconciled`, `RoutesReconciled` - the refinement of `Reconciler`: a wanted
  policy or route is never removed, not even to be added again, while the inputs stand.
* `OnlyOwnStaleReaped` - what the reaper is about to end is an SA of this overlay on an
  address this process loaded before, and not of the connection now loaded.
* `StaleSasGone` - after a pass that returned nil no SA is left on such an address, but for
  the three exceptions of section 6.
* `RestartsEnd` - once the peers present what the metadata lists, charon and the process
  stay up.
* `OneInitiator` - `o.initiating` is exactly the set of hosts of live goroutines,
  and no host has two.
* `ReaperSparesThePeer` - the SAs picked leave an established SA with an
  installed child of the same peer.
* `PeerRecovers` - a reachable expected peer without a child gets one.
* `PairKeepsOne` - two hosts that reap duplicates keep a tunnel.
* `Reconfigured` - after a Reload, an address that has one role and one host in all
  documents and for which no call has failed is reached as the store says, a container
  through its host's only agent; and no route leads to an address the store does not list
  (but for addresses with a failed call). Other addresses may do what they like.
* `BookkeepingTrue` - between Reloads record and kernel agree for every address for which
  no call has failed, whatever becomes of its role and host.
* `ForwardingRecorded` - between Reloads every forwarding entry, also one whose removal
  failed, has a record that names the host it forwards to. It does not say that the entry
  goes away (section 6).
* `StoreSplitsEntries` - an address occurs once in the list and, while Reloads do not
  overlap, the maps split the list and keep peers and others apart.
* `LocalNeverProxied` - the ARP proxy does not answer for a container that every
  document puts on this host.
* `FileStoreAgrees` - a file with the published entries gives the file store the same
  maps, in documents where an agent's address stays on one host.
* `SettledStoreIsCurrent`, `StoreCatchesUp` - a settled store holds the document, and it
  settles, unless the last Reload failed or Reloads overlapped.
* `OneProbePerPeer` - every known container has one goroutine that was not told to stop,
  every other one was told.
* `LateAnswersStayBehind` - late probes and pings of an old object change no other count.
* `SilenceReported`, `HealthReported` - lasting silence of a checked address is reported
  for good, lasting health too.
* `StoppedGoroutinesEnd`, `BindingEnds` - no goroutine leaks, the wait for the port ends.

`Converged` says nothing of a host in `doubt`: an unload whose answer was lost
makes every later pass fail (charon refuses to unload what it does not have) until
the process restarts (the exception `Ghost` of `RetrySucceeds`), and a connection loaded with a lost answer is only repaired
when its fingerprint next changes or the load is retried. Both behaviours are in
the model.

## 4. Fairness

* `IpsecConfigure`: every step of a caller inside `Reload` is taken (goroutines
  are scheduled, every request has a timeout), the mutex is granted to a caller
  that asks again and again (strong fairness of `ConfigureBegin`; Go's mutexes
  hand over after 1 ms of waiting), the container is started again after an exit
  (`Boot`), and a process whose charon died exits (`monitorCharon` polls,
  `runCharon` waits; both end in `log.Fatal`). A new `Reload` need not start.
* `IpsecHealth`: the ticker fires, each goroutine runs (per host, so that one
  does not starve another), and charon ends a deletion after its
  retransmissions. Peers, metadata and traffic have no fairness.
* `SaOwnership`: a due Reload and a running pass go on, a process that must end does
  (`monitorCharon`, `appMain` returning), the supervisor starts it again. Nothing makes
  an SA come up or go.
* `MetadataStore`: the client's loop keeps polling, goroutines run and requests end. The
  HTTP caller and the ARP proxy need not come.
* `ConnectivityCheck`: every goroutine is scheduled, time passes, a probe ends within its
  timeout. Peers need not call, the previous sidecar need not leave.
* In all of them the failures are bounded: what fails for ever is not expected to
  succeed.

## 5. Proofs

Proved by TLAPS for all values of the constants: any number of callers, hosts,
addresses, documents, changes and failures. Every safety invariant and every action
property that a passing run checks has its theorem, and so has the refinement. The
theorems about VXLAN but for its types have a hypothesis, `[]OneAtATime`: no two Reloads are
inside the backend together.

| Theorem | Statement |
|---|---|
| `IpsecConfigureTypes!TypeCorrect` | `Spec => []TypeOK` |
| `IpsecConfigureProofs!AddsFindFreeSelectorsHolds` | `Spec => []AddsFindFreeSelectors` |
| `IpsecConfigureProofs!UsedConnectionKeptHolds` | `Spec => UsedConnectionKept` |
| `IpsecConvergenceProofs!ConvergedHolds` | `Spec => []Converged` |
| `IpsecConvergenceProofs!PoliciesCoveredHolds` | `Spec => PoliciesCovered` |
| `IpsecConvergenceProofs!PoliciesReconciledHolds` | `Spec => PoliciesReconciled` |
| `IpsecConvergenceProofs!RoutesReconciledHolds` | `Spec => RoutesReconciled` |
| `IpsecHealthProofs!HealthTypeCorrect` | `Spec => []TypeOK` |
| `IpsecHealthProofs!OneInitiatorHolds` | `Spec => []OneInitiator` |
| `IpsecHealthProofs!ReaperSparesThePeerHolds` | `Spec => []ReaperSparesThePeer` |
| `SaOwnershipProofs!OwnershipTypeCorrect` | `Spec => []TypeOK` |
| `SaOwnershipProofs!OnlyOwnStaleReapedHolds` | `Spec => []OnlyOwnStaleReaped` |
| `SaOwnershipProofs!StaleSasGoneHolds` | `Spec => []StaleSasGone` |
| `MetadataStoreProofs!MetadataTypeCorrect` | `Spec => []TypeOK` |
| `MetadataStoreProofs!StoreSplitsEntriesHolds` | `Spec => []StoreSplitsEntries` |
| `MetadataStoreProofs!LocalNeverProxiedHolds` | `Spec => []LocalNeverProxied` |
| `MetadataStoreProofs!SettledStoreIsCurrentHolds` | `Spec => []SettledStoreIsCurrent` |
| `MetadataStoreProofs!FileStoreAgreesHolds` | `PeersKeepHost` : `Spec => []FileStoreAgrees` |
| `ConnectivityCheckProofs!CheckTypeCorrect` | `Spec => []TypeOK` |
| `ConnectivityCheckProofs!OneProbePerPeerHolds` | `Spec => []OneProbePerPeer` |
| `ConnectivityCheckProofs!LateAnswersStayBehindHolds` | `Spec => LateAnswersStayBehind` |
| `VxlanOverlayProofs!VxlanTypeCorrect` | `Spec => []TypeOK` |
| `VxlanOverlayProofs!ForwardingRecordedHolds` | `Spec /\ []OneAtATime => []ForwardingRecorded` |
| `VxlanOverlayProofs!BookkeepingTrueHolds` | `Spec /\ []OneAtATime => []BookkeepingTrue` |
| `VxlanOverlayProofs!ReconfiguredHolds` | `Spec /\ []OneAtATime => []Reconfigured` |

Assumptions on the constants, all evaluated by TLC: `DocAssumption` (one entry per
address, from the store's de-duplication), `LeftoverAssumption` (the kernel holds one
policy per selector and direction), `FlagAssumption`, `SentinelAssumption` ("none"
values differ from real ones), `HealthAssumption`, `OwnershipAssumption`,
`MetadataDocAssumption`, `MetadataSelfAssumption`, `MetadataPeerAssumption`,
`MetadataConstantAssumption`, `CheckDocAssumption`, `CheckBoundAssumption`,
`VxlanDocAssumption`, `VxlanBoundAssumption`.

*Types.* `TypeOK` of `IpsecConfigure` alone is not inductive: `AddHostConnection` uses
`cur`, `agent` and `tmpl`. `LocalsSet` says at which positions of the pass they are set;
`TypeInv == TypeOK /\ LocalsSet` is.

*Free selectors.* `SelectorInv` has four parts. `MutexInv`: the caller that holds the
mutex is the only one inside a pass. `DocInv`: every document in the store has one
entry per address. `KernelInv`: one policy per selector. `PassInv`: while the loop
runs (`Reconciling`), the policies are the list still to be deleted plus the ones
claimed by entries already handled; what is to be added belongs to handled
entries; nothing handled is still in `todo`. Hence when the loop is over and the
deletions are done, a selector to be added is free (`ReadyToAdd`). The pass that
could not list the kernel's policies is the exception that needs `firstErr`: it
never reaches the deletions.

*Used connections.* `UsedInv`: after the loop of a pass without error, every entry in
`want` has its host in `attempt`; an entry whose key failed has set `firstErr`.
Only `RemoveHosts` takes connections away in that step.

*Wanted policies.* `ClaimedInv`: while the inputs stand, the entries of the store are
`todo` and the ones already handled, so after the loop the policies to be deleted are
disjoint from `Desired`. Only `DeletePolicies` removes policies.

*Covered policies.* `CoveredInv` also holds of a pass whose store is replaced under it:
the hosts in `passHosts` have a confirmed key and connection, and as long as there is no
error every queued policy leads to one of them (`QueuedCovered`). Only `AddPolicies` adds,
since `SelectorInv` makes what `DeletePolicies` may keep part of the kernel. The charon
side is `CacheInv`, the current values are `GoalInv`.

*Convergence.* `ConvergenceInv == TypeInv /\ ClaimedInv /\ CacheInv /\ GoalInv`.
`CacheInv`: a host not in doubt has in charon what the cache says. `GoalInv` says, at
every position of a pass whose inputs stand, how far it has got: in the loop the handled
entries have claimed or queued their policies and have their connection and keys
(`LoopGoals`); after it the tables become what the store asks for one by one
(`TailGoals`); between passes, after a nil result, all are (`Settled`). `Converged` is
`Settled` with `CacheInv`.

*Refinement.* Every step maps to a step of `Reconciler` or a stutter, once for the
policies and once for the routes: wanted items stay by the argument of *Wanted policies*,
nothing unwanted is installed because what is queued is in `Desired`, and the successful
end of a pass leaves exactly the wanted items by `GoalInv`.

*Health.* `JobInv`: the marks and the targets agree, a goroutine's current target is not
among the ones left, and the hosts scheduled are hosts. `ReapInv`: ids are unique in the
SAs and in the list, and what is still to be terminated are duplicates of that list;
lemmas about the operators of `IkeSa` show that a pick of duplicates leaves the peer an
established SA with an installed child.

*Ownership.* `OwnershipInv` follows the authority to end an SA. `Authority`: queued and
cached addresses were loaded by this process, a cached fingerprint of two addresses is
known as torn, and charon's connection is at the cached address unless charon is gone or
the address is in doubt. `SasQueued`: an SA on an address this process answers for is at
the cached or at a queued one. `PassShape` ties the peers loaded, attempted and still to be
removed to the phase of the pass. `VictimsListed`, `Reaping`, `Spent`: what the reaper has
listed is queued and not current, nothing comes up behind its list, and at the end of a
successful pass no known peer has anything queued. The attempt to prove this with one
doubt per peer failed; TLC then found the case of three addresses (an unanswered load of
the second, an answered one of the third), so the history variables are kept per address.

*Store.* `MetaInv`: as long as Reloads have not overlapped only one runs (`Solo`) and
what it writes is built from what it published (`Written`); the fetched containers are
those of a document served before (`Fetched`); once the last version has been acted on,
all fetched fields are those of the one document (`Fresh`). Lemmas about
`doInternalRefresh` give the rest: `EntriesTypes` (an address once), `MapsSplit`,
`MapsCurrent`, `EntriesAre`. For `FileStoreAgrees` there are `Sourced` (services come
from documents too) and `Published` (the store is what its information says), and the
hypothesis `PeersKeepHost`: the list of containers, taken from one document, puts the
address of an agent, taken from another, on the same host. The instance of
`metadata_store` satisfies it.

*Connectivity.* `ProbeInv` adds to `OneProbePerPeer` that an object without a goroutine
does not carry a stop meant for an earlier one (`Unused`). The action property follows
step by step: refreshing leaves the counts of objects it keeps, every other step changes
one object.

*VXLAN.* `configure` takes its records apart and puts them together again.
`PeerRecords` and `RemoteRecords` are what is recorded together with what is still to be
deleted or to be kept as it was; `RecordsOK` says that an address is in them once, and
`DiffSplits`, `AddKeeps`, `DelKeeps`, `UpdKeeps` what the parts of the diff do to them.
Every step then either leaves the records and the kernel alone, or adds or deletes one
entry in both, or is a call that fails for one address (`Effect`, `Call`;
`CallsElsewhere`: it leaves the tables alone at every other address). On that rest, for a
caller whose Reload is the only one: `Forwarded` (every forwarding entry has its record),
kept by failing steps too; `Installed` (routes, neighbours and forwarding are those of the
records) for every address outside `hit`; `Listed` and `Neighbours` (what is recorded
stems from a document, and where its neighbour entry leads); and `Progress` (how far the
pass has got with the addresses that keep their place). `PeerAddWorks`, `RemoteAddWorks`
and `DelWorks` show that the kernel refuses no call for such an address, whatever the
others do. Their conjunction is `ReloadInv(r)`. The theorems allow any number of callers:
the inductive invariant is `AloneInv`, which says `ReloadInv(r)` of every caller beside
which nobody else is inside, and `HandOver` passes it from the one that has finished to
the one that starts. What is excluded is the overlap of two Reloads (`[]OneAtATime`), for
which `vxlan_two_reloads` shows the opposite; changes of host, role and agent, failing
calls, failed creations of the interface and several callers in turn are all included.
`vxlan_stable` and `vxlan_faults` have one caller and so satisfy the hypothesis.

Only model-checked: the liveness properties (`ReloadReturns`, `RetrySucceeds`,
`PeerRecovers`, `RestartsEnd`, `StoreCatchesUp`, `SilenceReported`, `HealthReported`,
`StoppedGoroutinesEnd`, `BindingEnds`), which are outside what the prover handles
(fairness and ENABLED). No definition needs induction over data and no module uses a
RECURSIVE operator; the one place where an order matters, the first container with an
address, rests on the well-foundedness of the naturals (`FirstCandidate`). The two
violated properties (section 6) have no theorem.

## 6. Where the code and its comments differ

* `duplicates_both_reap`: "unused" is judged by local byte counters. When the
  first packets of two hosts go out on different tunnels and are late, each host
  ends the tunnel the other one uses. The comments promise to leave ambiguous
  groups alone. The next health tick repairs it.
* `vxlan_two_reloads`: with the lock commented out two Reloads mix their diffs and
  end with the kernel and the store apart.

Cases the properties leave out, because the code does not promise them:

* An entry whose host changes is skipped by the VXLAN backend ("Not processing
  update", `vxlan.go:260`) and forwards to the former host for as long as it exists, and
  when a host's agent gets a new address the neighbour entries of its containers keep the
  MAC of the old one. `Reconfigured` speaks of addresses that keep their role, their host
  and their host's only agent; `ForwardingRecorded` shows that the record names the host
  still forwarded to.
* An addition in the VXLAN backend that fails half-way leaves a route without a record,
  and every later one of that address is refused. A removal that fails after `delRoute`
  fails there again on every later pass (`peer_vxlan_entry.go:77`): its forwarding entry
  stays, with its record. `Reconfigured` and `BookkeepingTrue` leave the address out
  (`hit`) and say that no other is harmed.
* An interface that was added but could not be brought up is taken as it is by every
  later `configure`; no route over it is accepted and `Reload` returns nil.
* A Reload that takes the list of containers from one document and the services from
  another, in which an agent's address is on another host, publishes a peer whose host
  differs from that of its entry; the file store cannot reproduce it
  (`FileStoreAgreesHolds` has the hypothesis `PeersKeepHost`).
* Two overlapping Reloads of the metadata store may publish entries of one document
  split by the host address of another. The ARP proxy then answers for local
  containers (`LocalNeverProxied` without `~overlap` is violated).
* A failed Reload after a metadata change is only logged; the store stays behind until
  the next change or an HTTP reload.
* While the metadata cannot be read, `/connectivity` keeps its last answer;
  `SilenceReported` needs it to become readable again (`Outage = FALSE`).
* charon may obey a load whose answer is lost; if the host then returns to the address
  before, the cached fingerprint matches again and the wrong connection stays loaded.
  `doubt` in `SaOwnership` excepts that address, and only that one, until a later load
  of it is answered: with three addresses the doubt about one outlives the answered load
  of another.
* A pass overtaken by a new host address may give up the authority to end SAs that it
  spared (`past` in `SaOwnership`).
* `addHostConnection` reads the host address twice. If the store is replaced between the
  reads, the fingerprint has two addresses; neither that load nor the next queues the
  address given up (`connection.go:90, 92`), and `configure` returns nil with an SA left on
  it. `torn` in `SaOwnership` excepts the two addresses until a whole load of them.
* A peer that is removed loses its fingerprint and authority (`ipsec.go:912-913`), but not
  its SAs. If it returns after the host has moved, nobody ends the SAs from before
  (`past` is emptied with the removal).
* `LocalNeverProxied` allows an answer for an address that some document put on another
  host: a container that arrives here between the two look-ups of the proxy may be
  answered for.

## 7. Not modelled

The contents of templates (an opaque revision); the `-local-ip` override of the file
store; `cleanup`, `DeleteVTEP` and the `upd` methods of the VXLAN backend, which nothing
calls; a restart of the process under VXLAN with its routes left in the kernel (the
records are only in memory, so that every addition is refused by the route of the previous
process: the code has no recovery to check); the deletion of this host's own entry from
the store's live map of peers by the VXLAN backend (`metadata.go:171-173`,
`vxlan.go:114-115`: `peers` of `MetadataStore` is what a Reload publishes, and
`VxlanOverlay` starts from the map without that entry, until the next Reload); the choice
of the firewall backend, the topology planner and the CNI resolver
(one-shot decisions over a document or the output of commands, without state,
concurrency or recovery: unit tests reach their cases); ARP frames, logging, flag
parsing, shell scripts (pure I/O).

## 8. Plan

The components of the first plan are modelled and their safety properties proved. Left:

1. `Reconfigured` for hosts with several agents, of which Go's map order picks one: a
   container is then reached through one of them.
2. Safety cores of the liveness properties: the measure that decreases from pass to pass
   in `RestartsEnd` and `RetrySucceeds` as an invariant of its own.
3. `DuplicatePair` with a single reaping host: under which delays `PairKeepsOne` holds then.
