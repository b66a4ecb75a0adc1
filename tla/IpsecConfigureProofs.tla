------------------------ MODULE IpsecConfigureProofs ------------------------
(***************************************************************************)
(* AddsFindFreeSelectors and UsedConnectionKept, proved for any sets of    *)
(* callers, hosts, addresses, documents, keys and templates and any        *)
(* budgets, and the invariant behind "what stays wanted is not removed",   *)
(* which the refinement in IpsecConvergenceProofs uses.                    *)
(*                                                                         *)
(* AddsFindFreeSelectors speaks of one moment of a pass.  What makes it    *)
(* true is built up entry by entry: as long as the pass has met no error,  *)
(* existing is the part of the kernel's policies not yet claimed by an     *)
(* entry, an address that is still to come has all its policies there, and *)
(* whatever would collide with a policy to add is among those to delete    *)
(* (Reconciling).                                                          *)
(***************************************************************************)
EXTENDS IpsecConfigureTypes

UniqueIp(S)        == \A e, f \in S : e.ip = f.ip => e = f
UniqueSelectors(S) == \A p, q \in S : SameSelector(p, q) => p = q

LoopPhase == {"loop", "host", "conn", "rules"}

(* The mutex is held by a caller that is inside configure.                 *)
MutexInv ==
  /\ mu \in Reloader \cup {Nobody}
  /\ pc \in [Reloader -> OutsidePhase \cup PassPhase]
  /\ mu # Nobody => pc[mu] \in PassPhase

(* Every copy of the metadata has one entry per address.                   *)
DocInv == doc \in Doc /\ info \in Doc /\ snap \in [Reloader -> Doc] /\ UniqueIp(entries)

(* p belongs to an address the pass has still to handle.                   *)
Pending(p) == (\E e \in todo : e.ip = p.ip) \/ (pc[mu] \in BusyPhase /\ p.ip = cur.ip)

Reconciling ==
  /\ existing \subseteq policies
  /\ UniqueIp(todo)
  /\ pc[mu] \in BusyPhase => \A e \in todo : e.ip # cur.ip
  /\ \A p \in toAdd \cup (policies \ existing) : ~Pending(p)
  /\ \A p \in toAdd, q \in policies : SameSelector(p, q) => q \in existing
  /\ UniqueSelectors(toAdd)

ReadyToAdd ==
  /\ ~firstErr
  /\ UniqueSelectors(toAdd)
  /\ \A p \in toAdd, q \in policies : ~SameSelector(p, q)

PassInv ==
  mu # Nobody =>
    /\ (pc[mu] = "keys" /\ ~firstErr) => toAdd = {} /\ existing = policies
    /\ (pc[mu] \in LoopPhase /\ ~firstErr) => Reconciling
    /\ pc[mu] = "add" => ReadyToAdd

KernelInv == UniqueSelectors(policies)

SelectorInv == MutexInv /\ DocInv /\ KernelInv /\ PassInv

-----------------------------------------------------------------------------
(* Steps that touch neither the pass nor the kernel: they move only a      *)
(* caller that does not hold the mutex.                                    *)
LEMMA OutsideKeeps ==
  ASSUME SelectorInv, NEW r \in Reloader, NEW ph \in OutsidePhase,
         pc[r] \in OutsidePhase, Goto(r, ph), UNCHANGED <<mu, passVars, policies>>
  PROVE  MutexInv' /\ KernelInv' /\ PassInv'
<1>a. r # mu
  BY SentinelAssumption DEF SelectorInv, MutexInv, OutsidePhase, PassPhase
<1>1. mu # Nobody => pc'[mu] = pc[mu]
  BY <1>a DEF SelectorInv, MutexInv, Goto
<1>2. MutexInv'
  BY <1>1 DEF SelectorInv, MutexInv, Goto
<1>3. PassInv'
  BY <1>1 DEF SelectorInv, PassInv, passVars, Reconciling, Pending, ReadyToAdd, UniqueSelectors,
              UniqueIp, SameSelector
<1> QED BY <1>2, <1>3 DEF SelectorInv, KernelInv, UniqueSelectors, SameSelector

(* Steps of the pass after the loop: past "add" nothing is claimed.        *)
LEMMA TailKeeps ==
  ASSUME SelectorInv, NEW r \in Reloader, mu = r, NEW ph \in {"routes", "reap", "peers", "remove", "end"},
         Goto(r, ph), UNCHANGED <<mu, policies>>
  PROVE  MutexInv' /\ KernelInv' /\ PassInv'
<1>1. pc'[mu'] = ph
  BY DEF SelectorInv, MutexInv, Goto
<1>2. MutexInv'
  BY DEF SelectorInv, MutexInv, Goto, PassPhase
<1>3. PassInv'
  BY <1>1 DEF PassInv, LoopPhase
<1> QED BY <1>2, <1>3 DEF SelectorInv, KernelInv, UniqueSelectors, SameSelector

(* Unlocking: between passes nothing is claimed.                           *)
LEMMA UnlockKeeps ==
  ASSUME SelectorInv, mu' = Nobody, pc' \in [Reloader -> OutsidePhase \cup PassPhase],
         UNCHANGED policies
  PROVE  MutexInv' /\ KernelInv' /\ PassInv'
  BY DEF SelectorInv, MutexInv, KernelInv, PassInv, UniqueSelectors, SameSelector

-----------------------------------------------------------------------------
(* ConfigureBegin: a fresh pass has nothing to add, and if the kernel's    *)
(* list was read, all of it is up for deletion.                            *)
LEMMA BeginKeeps ==
  ASSUME SelectorInv, NEW r \in Reloader, ConfigureBegin(r)
  PROVE  MutexInv' /\ KernelInv' /\ PassInv'
<1>1. CASE Goto(r, "idle") /\ UNCHANGED <<mu, passVars>>
  BY <1>1, OutsideKeeps DEF ConfigureBegin, OutsidePhase, kernelVars
<1>2. CASE /\ mu' = r /\ Goto(r, "keys") /\ toAdd' = {}
           /\ (existing' = policies \/ firstErr' = TRUE)
  <2>1. pc'[r] = "keys" /\ mu' \in Reloader
    BY <1>2 DEF SelectorInv, MutexInv, Goto
  <2>2. MutexInv'
    BY <1>2, <2>1 DEF SelectorInv, MutexInv, Goto, PassPhase
  <2>3. policies' = policies
    BY DEF ConfigureBegin, kernelVars
  <2>4. PassInv'
    BY <1>2, <2>1, <2>3 DEF PassInv, LoopPhase
  <2> QED BY <2>2, <2>3, <2>4 DEF SelectorInv, KernelInv, UniqueSelectors, SameSelector
<1> QED BY <1>1, <1>2 DEF ConfigureBegin

(* LoadDefaultKey: the range over the entries starts, one per address.     *)
LEMMA DefaultKeyKeeps ==
  ASSUME SelectorInv, NEW r \in Reloader, LoadDefaultKey(r)
  PROVE  MutexInv' /\ KernelInv' /\ PassInv'
<1>1. /\ mu = r /\ pc[r] = "keys" /\ mu' = mu /\ pc' = [pc EXCEPT ![r] = "loop"]
      /\ todo' = entries /\ policies' = policies /\ existing' = existing /\ toAdd' = toAdd
      /\ ~firstErr' => ~firstErr
  BY DEF LoadDefaultKey, InPass, Goto, kernelVars
<1>2. mu # Nobody /\ pc'[mu'] = "loop"
  BY <1>1, SentinelAssumption DEF SelectorInv, MutexInv
<1>3. MutexInv'
  BY <1>1, <1>2 DEF SelectorInv, MutexInv, PassPhase
<1>4. ASSUME ~firstErr' PROVE Reconciling'
  <2>1. toAdd = {} /\ existing = policies
    BY <1>1, <1>2, <1>4 DEF SelectorInv, PassInv
  <2>2. UniqueIp(todo')
    BY <1>1 DEF SelectorInv, DocInv, UniqueIp
  <2> QED BY <1>1, <1>2, <2>1, <2>2 DEF Reconciling, BusyPhase, UniqueSelectors, UniqueIp
<1>5. PassInv'
  BY <1>2, <1>4 DEF PassInv
<1> QED BY <1>1, <1>3, <1>5 DEF SelectorInv, KernelInv, UniqueSelectors, SameSelector

(* TakeEntry: an address moves from the entries to come to the current     *)
(* one, or is done with (a local container).                               *)
LEMMA TakeEntryKeeps ==
  ASSUME SelectorInv, NEW r \in Reloader, TakeEntry(r)
  PROVE  MutexInv' /\ KernelInv' /\ PassInv'
<1>1. PICK e \in todo, ph \in {"loop", "host", "rules"} :
        /\ todo' = todo \ {e} /\ cur' = e /\ pc' = [pc EXCEPT ![r] = ph]
        /\ ~firstErr' => ~firstErr
  BY DEF TakeEntry, Goto
<1>2. /\ mu = r /\ pc[r] = "loop" /\ mu' = mu
      /\ policies' = policies /\ existing' = existing /\ toAdd' = toAdd
  BY DEF TakeEntry, InPass, kernelVars
<1>3. mu # Nobody /\ pc'[mu'] = ph
  BY <1>1, <1>2, SentinelAssumption DEF SelectorInv, MutexInv
<1>4. MutexInv'
  BY <1>1, <1>2, <1>3 DEF SelectorInv, MutexInv, PassPhase
<1>5. ASSUME ~firstErr' PROVE Reconciling'
  <2>1. Reconciling
    BY <1>1, <1>2, <1>3, <1>5 DEF SelectorInv, PassInv, LoopPhase
  <2>2. \A f \in todo' : f.ip # e.ip
    BY <1>1, <2>1 DEF Reconciling, UniqueIp
  <2>3. \A p : Pending(p)' => Pending(p)
    BY <1>1, <1>2 DEF Pending
  <2> QED BY <1>1, <1>2, <1>3, <2>1, <2>2, <2>3 DEF Reconciling, UniqueSelectors, UniqueIp, SameSelector
<1>6. PassInv'
  BY <1>3, <1>5 DEF PassInv
<1> QED BY <1>2, <1>4, <1>6 DEF SelectorInv, KernelInv, UniqueSelectors, SameSelector

(* addHost: the entry stays the current one.                               *)
LEMMA AddHostKeeps ==
  ASSUME SelectorInv, NEW r \in Reloader, AddHostKey(r) \/ AddHostConnection(r)
  PROVE  MutexInv' /\ KernelInv' /\ PassInv'
<1>1. PICK ph \in {"conn", "rules"} : pc' = [pc EXCEPT ![r] = ph]
  BY DEF AddHostKey, AddHostConnection, Goto
<1>2. /\ mu = r /\ pc[r] \in {"host", "conn"} /\ mu' = mu /\ todo' = todo /\ cur' = cur
      /\ policies' = policies /\ existing' = existing /\ toAdd' = toAdd
      /\ ~firstErr' => ~firstErr
  BY DEF AddHostKey, AddHostConnection, InPass, kernelVars
<1>3. mu # Nobody /\ pc'[mu'] = ph
  BY <1>1, <1>2, SentinelAssumption DEF SelectorInv, MutexInv
<1>4. MutexInv'
  BY <1>1, <1>2, <1>3 DEF SelectorInv, MutexInv, PassPhase
<1>5. ASSUME ~firstErr' PROVE Reconciling'
  <2>1. Reconciling /\ pc[mu] \in BusyPhase /\ pc'[mu'] \in BusyPhase
    BY <1>2, <1>3, <1>5 DEF SelectorInv, PassInv, LoopPhase, BusyPhase
  <2>2. \A p : Pending(p)' <=> Pending(p)
    BY <1>2, <2>1 DEF Pending
  <2> QED BY <1>2, <2>1, <2>2 DEF Reconciling, UniqueSelectors, UniqueIp, SameSelector
<1>6. PassInv'
  BY <1>3, <1>5 DEF PassInv
<1> QED BY <1>2, <1>4, <1>6 DEF SelectorInv, KernelInv, UniqueSelectors, SameSelector

(* The policies of one entry have its address and distinct directions.     *)
LEMMA PoliciesOfEntry ==
  ASSUME NEW e, NEW loc
  PROVE  /\ \A p \in PoliciesOf(e, loc) : p.ip = e.ip
         /\ UniqueSelectors(PoliciesOf(e, loc))
  BY DEF PoliciesOf, UniqueSelectors, SameSelector

(* AddRules: the current address' policies leave existing or join toAdd;   *)
(* what collides with them is left in existing.                            *)
LEMMA AddRulesKeeps ==
  ASSUME SelectorInv, NEW r \in Reloader, AddRules(r)
  PROVE  MutexInv' /\ KernelInv' /\ PassInv'
<1> DEFINE P == PoliciesOf(cur, LocalTunnelAddress(self))
<1>1. /\ mu = r /\ pc[r] = "rules" /\ mu' = mu /\ pc' = [pc EXCEPT ![r] = "loop"]
      /\ todo' = todo /\ cur' = cur /\ policies' = policies /\ firstErr' = firstErr
      /\ existing' = existing \ P /\ toAdd' = toAdd \cup (P \ existing)
  BY DEF AddRules, InPass, Goto, kernelVars
<1>2. mu # Nobody /\ pc'[mu'] = "loop" /\ pc[mu] \in BusyPhase
  BY <1>1, SentinelAssumption DEF SelectorInv, MutexInv, BusyPhase
<1>3. MutexInv'
  BY <1>1, <1>2 DEF SelectorInv, MutexInv, PassPhase
<1>4. (\A p \in P : p.ip = cur.ip) /\ UniqueSelectors(P)
  BY PoliciesOfEntry
<1> HIDE DEF P
<1>5. ASSUME ~firstErr' PROVE Reconciling'
  <2>1. Reconciling
    BY <1>1, <1>2, <1>5 DEF SelectorInv, PassInv, LoopPhase
  <2>2. \A p \in toAdd \cup (policies \ existing) : p.ip # cur.ip /\ \A e \in todo : e.ip # p.ip
    BY <1>2, <2>1 DEF Reconciling, Pending
  <2>3. \A e \in todo : e.ip # cur.ip
    BY <1>2, <2>1 DEF Reconciling
  <2>4. \A p : Pending(p)' <=> \E e \in todo : e.ip = p.ip
    BY <1>1, <1>2 DEF Pending, BusyPhase
  <2>5. \A p \in toAdd' \cup (policies' \ existing') : ~Pending(p)'
    BY <1>1, <1>4, <2>2, <2>3, <2>4
  <2>6. ASSUME NEW p \in toAdd', NEW q \in policies', SameSelector(p, q) PROVE q \in existing'
    <3>1. CASE p \in toAdd
      BY <1>1, <1>4, <2>1, <2>2, <2>6, <3>1 DEF Reconciling, SameSelector
    <3>2. CASE p \in P \ existing
      <4>1. q \in existing
        BY <1>1, <1>4, <2>2, <2>6, <3>2 DEF SameSelector
      <4>2. q \notin P
        BY <1>4, <2>6, <3>2, <4>1 DEF UniqueSelectors
      <4> QED BY <1>1, <4>1, <4>2
    <3> QED BY <1>1, <3>1, <3>2
  <2>7. UniqueSelectors(toAdd')
    BY <1>1, <1>4, <2>1, <2>2 DEF Reconciling, UniqueSelectors, SameSelector
  <2> QED BY <1>1, <1>2, <2>1, <2>5, <2>6, <2>7 DEF Reconciling, BusyPhase, UniqueIp, UniqueSelectors, SameSelector
<1>6. PassInv'
  BY <1>2, <1>5 DEF PassInv
<1> QED BY <1>1, <1>3, <1>6 DEF SelectorInv, KernelInv, UniqueSelectors, SameSelector

(* DeletePolicies: once all of existing is gone nothing collides.          *)
LEMMA DeleteKeeps ==
  ASSUME SelectorInv, NEW r \in Reloader, DeletePolicies(r)
  PROVE  MutexInv' /\ KernelInv' /\ PassInv'
<1>1. mu = r /\ pc[r] = "loop" /\ mu' = mu /\ ~firstErr /\ toAdd' = toAdd /\ mu # Nobody
  BY SentinelAssumption DEF DeletePolicies, InPass
<1>2. Reconciling
  BY <1>1 DEF SelectorInv, PassInv, LoopPhase
<1>3. policies' \subseteq policies
  BY <1>2 DEF DeletePolicies, Reconciling
<1>4. KernelInv'
  BY <1>3 DEF SelectorInv, KernelInv, UniqueSelectors
<1>5. CASE Goto(r, "add") /\ policies' = policies \ existing /\ UNCHANGED firstErr
  <2>1. pc'[mu'] = "add"
    BY <1>1, <1>5 DEF SelectorInv, MutexInv, Goto
  <2>2. MutexInv'
    BY <1>1, <1>5, <2>1 DEF SelectorInv, MutexInv, Goto, PassPhase
  <2>3. ReadyToAdd'
    BY <1>1, <1>2, <1>5 DEF ReadyToAdd, Reconciling, UniqueSelectors
  <2> QED BY <1>4, <2>1, <2>2, <2>3 DEF PassInv, LoopPhase
<1>6. CASE Goto(r, "end")
  <2>1. pc'[mu'] = "end"
    BY <1>1, <1>6 DEF SelectorInv, MutexInv, Goto
  <2>2. MutexInv'
    BY <1>1, <1>6, <2>1 DEF SelectorInv, MutexInv, Goto, PassPhase
  <2> QED BY <1>4, <2>1, <2>2 DEF PassInv, LoopPhase
<1> QED BY <1>5, <1>6 DEF DeletePolicies

(* AddPolicies: the kernel keeps one policy per selector.                  *)
LEMMA AddKeeps ==
  ASSUME SelectorInv, NEW r \in Reloader, AddPolicies(r)
  PROVE  MutexInv' /\ KernelInv' /\ PassInv'
<1>1. mu = r /\ pc[r] = "add" /\ mu' = mu /\ mu # Nobody
  BY SentinelAssumption DEF AddPolicies, InPass
<1>2. PICK ph \in {"routes", "end"} : Goto(r, ph)
  BY DEF AddPolicies
<1>3. ReadyToAdd
  BY <1>1 DEF SelectorInv, PassInv
<1>4. policies' \subseteq policies \cup toAdd
  BY DEF AddPolicies
<1>5. UniqueSelectors(policies \cup toAdd)
  BY <1>3 DEF SelectorInv, KernelInv, ReadyToAdd, UniqueSelectors, SameSelector
<1>6. KernelInv'
  BY <1>4, <1>5 DEF KernelInv, UniqueSelectors
<1>7. pc'[mu'] = ph
  BY <1>1, <1>2 DEF SelectorInv, MutexInv, Goto
<1>8. MutexInv'
  BY <1>1, <1>2, <1>7 DEF SelectorInv, MutexInv, Goto, PassPhase
<1> QED BY <1>6, <1>7, <1>8 DEF PassInv, LoopPhase

-----------------------------------------------------------------------------
(* The documents the store and its callers hold all come from the metadata *)
(* service, which de-duplicates by address.                                *)
LEMMA DocKeeps ==
  ASSUME DocInv, [Next]_vars
  PROVE  DocInv'
<1> USE DocAssumption DEF UniqueIp
<1>1. ASSUME ChangeDoc \/ Boot PROVE DocInv'
  BY <1>1 DEF DocInv, ChangeDoc, Boot, storeVars, envVars
<1>2. ASSUME NEW r \in Reloader, Fetch(r) PROVE DocInv'
  BY <1>2 DEF DocInv, Fetch, storeVars, envVars
<1>3. ASSUME NEW r \in Reloader, StoreSelf(r) \/ StoreEntries(r) PROVE DocInv'
  BY <1>3 DEF DocInv, StoreSelf, StoreEntries, envVars
<1>4. ASSUME UNCHANGED <<doc, info, snap, entries>> PROVE DocInv'
  BY <1>4 DEF DocInv
<1>5. ASSUME ChangeFiles \/ CharonRestart \/ Exit \/ UNCHANGED vars \/ \E h \in Host : InitiateDone(h)
      PROVE  UNCHANGED <<doc, info, snap, entries>>
  BY <1>5 DEF ChangeFiles, CharonRestart, Exit, InitiateDone, vars, storeVars, envVars
<1>6. ASSUME NEW r \in Reloader,
             \/ ReadPsk(r) \/ ConfigureBegin(r) \/ LoadDefaultKey(r) \/ TakeEntry(r)
             \/ AddHostKey(r) \/ AddHostConnection(r) \/ AddRules(r)
      PROVE  UNCHANGED <<doc, info, snap, entries>>
  BY <1>6 DEF ReadPsk, ConfigureBegin, LoadDefaultKey, TakeEntry, AddHostKey, AddHostConnection,
              AddRules, storeVars, envVars
<1>7. ASSUME NEW r \in Reloader,
             \/ DeletePolicies(r) \/ AddPolicies(r) \/ SyncHostRoutes(r) \/ ReapStaleLocal(r)
             \/ RestartForStalePeers(r) \/ RemoveHosts(r) \/ ConfigureEnd(r)
      PROVE  UNCHANGED <<doc, info, snap, entries>>
  BY <1>7 DEF DeletePolicies, AddPolicies, SyncHostRoutes, ReapStaleLocal, RestartForStalePeers,
              RemoveHosts, ConfigureEnd, storeVars, envVars
<1> QED BY <1>1, <1>2, <1>3, <1>4, <1>5, <1>6, <1>7 DEF Next, ReloadStep

(* Steps that leave the callers, the pass and the kernel's policies alone. *)
LEMMA QuietKeeps ==
  ASSUME SelectorInv, UNCHANGED <<mu, pc, passVars, policies>>
  PROVE  MutexInv' /\ KernelInv' /\ PassInv'
<1>1. MutexInv' /\ KernelInv'
  BY DEF SelectorInv, MutexInv, KernelInv, UniqueSelectors, SameSelector
<1>2. PassInv'
  BY DEF SelectorInv, PassInv, passVars, Reconciling, Pending, ReadyToAdd, UniqueSelectors,
         UniqueIp, SameSelector
<1> QED BY <1>1, <1>2

(* Every step preserves the inductive invariant.                           *)
LEMMA SelectorInvInductive ==
  ASSUME SelectorInv, [Next]_vars
  PROVE  SelectorInv'
<1> DEFINE Kept == MutexInv' /\ KernelInv' /\ PassInv'
<1>1. ASSUME UNCHANGED vars \/ ChangeDoc \/ ChangeFiles \/ CharonRestart \/ Boot
             \/ \E h \in Host : InitiateDone(h)
      PROVE  Kept
  <2>1. UNCHANGED <<mu, pc, passVars, policies>>
    BY <1>1 DEF vars, ChangeDoc, ChangeFiles, CharonRestart, Boot, InitiateDone, passVars, kernelVars
  <2> QED BY <2>1, QuietKeeps
<1>2. ASSUME Exit PROVE Kept
  <2>1. mu' = Nobody /\ pc' \in [Reloader -> OutsidePhase \cup PassPhase] /\ UNCHANGED policies
    BY <1>2 DEF Exit, OutsidePhase, kernelVars
  <2> QED BY <2>1, UnlockKeeps
<1>3. ASSUME NEW r \in Reloader, Fetch(r) \/ StoreSelf(r) \/ StoreEntries(r) \/ ReadPsk(r)
      PROVE  Kept
  <2>1. /\ pc[r] \in OutsidePhase /\ \E ph \in OutsidePhase : Goto(r, ph)
        /\ UNCHANGED <<mu, passVars, policies>>
    BY <1>3 DEF Fetch, StoreSelf, StoreEntries, ReadPsk, OutsidePhase, kernelVars
  <2> QED BY <2>1, OutsideKeeps
<1>4. ASSUME NEW r \in Reloader, ConfigureBegin(r) PROVE Kept
  BY <1>4, BeginKeeps
<1>5. ASSUME NEW r \in Reloader, LoadDefaultKey(r) PROVE Kept
  BY <1>5, DefaultKeyKeeps
<1>6. ASSUME NEW r \in Reloader, TakeEntry(r) PROVE Kept
  BY <1>6, TakeEntryKeeps
<1>7. ASSUME NEW r \in Reloader, AddHostKey(r) \/ AddHostConnection(r) PROVE Kept
  BY <1>7, AddHostKeeps
<1>8. ASSUME NEW r \in Reloader, AddRules(r) PROVE Kept
  BY <1>8, AddRulesKeeps
<1>9. ASSUME NEW r \in Reloader, DeletePolicies(r) PROVE Kept
  BY <1>9, DeleteKeeps
<1>10. ASSUME NEW r \in Reloader, AddPolicies(r) PROVE Kept
  BY <1>10, AddKeeps
<1>11. ASSUME NEW r \in Reloader,
              SyncHostRoutes(r) \/ ReapStaleLocal(r) \/ RestartForStalePeers(r) \/ RemoveHosts(r)
       PROVE  Kept
  <2>1. /\ mu = r /\ \E ph \in {"routes", "reap", "peers", "remove", "end"} : Goto(r, ph)
        /\ UNCHANGED <<mu, policies>>
    BY <1>11 DEF SyncHostRoutes, ReapStaleLocal, RestartForStalePeers, RemoveHosts, InPass, kernelVars
  <2> QED BY <2>1, TailKeeps
<1>12. ASSUME NEW r \in Reloader, ConfigureEnd(r) PROVE Kept
  <2>1. mu' = Nobody /\ pc' \in [Reloader -> OutsidePhase \cup PassPhase] /\ UNCHANGED policies
    BY <1>12 DEF ConfigureEnd, SelectorInv, MutexInv, Goto, OutsidePhase, kernelVars
  <2> QED BY <2>1, UnlockKeeps
<1>13. Kept
  <2> HIDE DEF Kept
  <2> QED BY <1>1, <1>2, <1>3, <1>4, <1>5, <1>6, <1>7, <1>8, <1>9, <1>10, <1>11, <1>12 DEF Next, ReloadStep
<1>14. DocInv'
  BY DocKeeps DEF SelectorInv
<1> QED BY <1>13, <1>14 DEF SelectorInv

(* The selector invariant holds in every reachable state.                  *)
LEMMA SelectorInvHolds == Spec => []SelectorInv
<1>1. Init => SelectorInv
  <2> SUFFICES ASSUME Init PROVE SelectorInv
    OBVIOUS
  <2>1. MutexInv
    BY DEF Init, MutexInv, OutsidePhase
  <2>2. DocInv
    BY DocAssumption DEF Init, DocInv, UniqueIp
  <2>3. KernelInv
    BY LeftoverAssumption DEF Init, KernelInv, UniqueSelectors, SameSelector
  <2>4. PassInv
    BY DEF Init, PassInv
  <2> QED BY <2>1, <2>2, <2>3, <2>4 DEF SelectorInv
<1>2. SelectorInv /\ [Next]_vars => SelectorInv'
  BY SelectorInvInductive
<1> QED BY <1>1, <1>2, PTL DEF Spec

(* For any callers, hosts, addresses and documents, and whatever fails:    *)
(* addPolicies never meets an occupied selector (ipsec.go:281-287), so the *)
(* delete-then-add of a pass cannot leave a tunnel without its policy      *)
(* because of EEXIST, nor is a policy of another pass ever in the way.     *)
THEOREM AddsFindFreeSelectorsHolds == Spec => []AddsFindFreeSelectors
<1>1. SelectorInv => AddsFindFreeSelectors
  BY SentinelAssumption DEF SelectorInv, PassInv, ReadyToAdd, AddsFindFreeSelectors, InPass
<1> QED BY <1>1, SelectorInvHolds, PTL

-----------------------------------------------------------------------------
(***************************************************************************)
(* UsedConnectionKept.  removeHosts goes by hostAttempt, and gets to run   *)
(* only when no entry of the pass failed: then every host with an entry    *)
(* was attempted.                                                          *)
(***************************************************************************)
Attempted == \A e \in want : e.host \in attempt
TailPhase == {"add", "routes", "reap", "peers", "remove"}

UsedInv ==
  mu # Nobody =>
    /\ passHosts \subseteq attempt
    /\ pc[mu] = "keys" => want = {}
    /\ (pc[mu] \in LoopPhase \ {"host"} /\ ~firstErr) => Attempted
    /\ pc[mu] = "host" => \A e \in want : ~firstErr => (e.host \in attempt \/ e = cur)
    /\ pc[mu] = "conn" => cur.host \in attempt
    /\ pc[mu] \in TailPhase => Attempted

(* Every step keeps the attempts ahead of the wanted entries.              *)
LEMMA UsedInvInductive ==
  ASSUME TypeInv, UsedInv, [Next]_vars
  PROVE  UsedInv'
<1> USE SentinelAssumption DEF Attempted, TailPhase, LoopPhase
<1>1. pc \in [Reloader -> OutsidePhase \cup PassPhase]
  BY DEF TypeInv, TypeOK, ControlOK
<1>2. ASSUME UNCHANGED vars \/ ChangeDoc \/ ChangeFiles \/ CharonRestart \/ Boot
             \/ \E h \in Host : InitiateDone(h)
      PROVE  UsedInv'
  <2>1. UNCHANGED <<mu, pc, passVars>>
    BY <1>2 DEF vars, ChangeDoc, ChangeFiles, CharonRestart, Boot, InitiateDone, passVars
  <2> QED BY <2>1 DEF UsedInv, passVars
<1>3. ASSUME Exit \/ \E r \in Reloader : ConfigureEnd(r) PROVE UsedInv'
  BY <1>3 DEF Exit, ConfigureEnd, UsedInv
<1>4. ASSUME NEW r \in Reloader, pc[r] \in OutsidePhase, NEW ph \in OutsidePhase, Goto(r, ph),
             UNCHANGED <<mu, passVars>>
      PROVE  UsedInv'
  <2>1. r # mu
    BY <1>4 DEF TypeInv, LocalsSet, OutsidePhase, PassPhase
  <2>2. mu # Nobody => pc'[mu] = pc[mu]
    BY <1>1, <1>4, <2>1 DEF Goto
  <2> QED BY <1>4, <2>2 DEF UsedInv, passVars
<1>5. ASSUME NEW r \in Reloader, Fetch(r) \/ StoreSelf(r) \/ StoreEntries(r) \/ ReadPsk(r)
      PROVE  UsedInv'
  <2>1. /\ pc[r] \in OutsidePhase /\ \E ph \in OutsidePhase : Goto(r, ph)
        /\ UNCHANGED <<mu, passVars>>
    BY <1>5 DEF Fetch, StoreSelf, StoreEntries, ReadPsk, OutsidePhase
  <2> QED BY <1>4, <2>1
<1>6. ASSUME NEW r \in Reloader, ConfigureBegin(r) PROVE UsedInv'
  <2>1. CASE Goto(r, "idle") /\ UNCHANGED <<mu, passVars>>
    BY <1>4, <1>6, <2>1 DEF ConfigureBegin, OutsidePhase
  <2>2. CASE mu' = r /\ Goto(r, "keys") /\ want' = {} /\ passHosts' = {} /\ attempt' = {}
    BY <1>1, <2>2 DEF UsedInv, Goto
  <2> QED BY <1>6, <2>1, <2>2 DEF ConfigureBegin
<1>7. ASSUME NEW r \in Reloader, LoadDefaultKey(r) PROVE UsedInv'
  BY <1>1, <1>7 DEF UsedInv, LoadDefaultKey, InPass, Goto
<1>8. ASSUME NEW r \in Reloader, TakeEntry(r) PROVE UsedInv'
  BY <1>1, <1>8 DEF UsedInv, TakeEntry, InPass, Goto
<1>9. ASSUME NEW r \in Reloader, AddHostKey(r) PROVE UsedInv'
  BY <1>1, <1>9 DEF UsedInv, AddHostKey, InPass, Goto
<1>10. ASSUME NEW r \in Reloader, AddHostConnection(r) PROVE UsedInv'
  BY <1>1, <1>10 DEF UsedInv, AddHostConnection, InPass, Goto
<1>11. ASSUME NEW r \in Reloader, AddRules(r) PROVE UsedInv'
  BY <1>1, <1>11 DEF UsedInv, AddRules, InPass, Goto
<1>12. ASSUME NEW r \in Reloader,
              \/ DeletePolicies(r) \/ AddPolicies(r) \/ SyncHostRoutes(r) \/ ReapStaleLocal(r)
              \/ RestartForStalePeers(r) \/ RemoveHosts(r)
       PROVE  UsedInv'
  <2>1. /\ mu = r /\ mu # Nobody
        /\ pc[r] \in TailPhase \/ (pc[r] = "loop" /\ ~firstErr)
        /\ \E ph \in TailPhase \cup {"end"} : Goto(r, ph)
        /\ UNCHANGED <<mu, passHosts, want, attempt>>
    BY <1>12 DEF DeletePolicies, AddPolicies, SyncHostRoutes, ReapStaleLocal, RestartForStalePeers,
                 RemoveHosts, InPass
  <2> QED BY <1>1, <2>1 DEF UsedInv, Goto
<1> QED BY <1>2, <1>3, <1>5, <1>6, <1>7, <1>8, <1>9, <1>10, <1>11, <1>12 DEF Next, ReloadStep

(* A caller leaves "remove" for "end" only by RemoveHosts.                 *)
LEMMA OnlyRemoveHostsRemoves ==
  ASSUME TypeInv, [Next]_vars, NEW r \in Reloader, InPass(r, "remove"), pc'[r] = "end"
  PROVE  RemoveHosts(r)
<1>1. pc \in [Reloader -> OutsidePhase \cup PassPhase]
  BY DEF TypeInv, TypeOK, ControlOK
<1>2. pc' # pc /\ pc[r] = "remove" /\ mu = r /\ r # Nobody
  BY SentinelAssumption DEF InPass
<1>3. ~(UNCHANGED vars \/ ChangeDoc \/ ChangeFiles \/ CharonRestart \/ Boot \/ Exit
        \/ \E h \in Host : InitiateDone(h))
  BY <1>2 DEF vars, ChangeDoc, ChangeFiles, CharonRestart, Boot, Exit, InitiateDone
<1>4. ASSUME NEW q \in Reloader, NEW ph, Goto(q, ph) PROVE q = r
  BY <1>1, <1>2, <1>4 DEF Goto
<1>5. ASSUME NEW q \in Reloader, Fetch(q) \/ ReloadStep(q) PROVE q = r
  BY <1>4, <1>5 DEF Fetch, ReloadStep, StoreSelf, StoreEntries, ReadPsk, ConfigureBegin,
                    LoadDefaultKey, TakeEntry, AddHostKey, AddHostConnection, AddRules,
                    DeletePolicies, AddPolicies, SyncHostRoutes, ReapStaleLocal,
                    RestartForStalePeers, RemoveHosts, ConfigureEnd
<1>6. Fetch(r) \/ ReloadStep(r)
  BY <1>3, <1>5 DEF Next
<1> QED BY <1>2, <1>6 DEF Fetch, ReloadStep, StoreSelf, StoreEntries, ReadPsk, ConfigureBegin,
                    LoadDefaultKey, TakeEntry, AddHostKey, AddHostConnection, AddRules,
                    DeletePolicies, AddPolicies, SyncHostRoutes, ReapStaleLocal,
                    RestartForStalePeers, ConfigureEnd, InPass

(* For any callers, hosts and documents, and whatever fails or is replaced *)
(* meanwhile: removeHosts never unloads the connection of a host that has  *)
(* an entry in the running pass.  ipsec.go:251-279, 901-917, 993.          *)
THEOREM UsedConnectionKeptHolds == Spec => UsedConnectionKept
<1> DEFINE Kept == \A r \in Reloader : InPass(r, "remove") /\ pc'[r] = "end" =>
                     \A e \in want : conns[e.host] # NoConn => conns'[e.host] # NoConn
<1>1. Init => UsedInv
  BY DEF Init, UsedInv
<1>2. TypeInv /\ UsedInv /\ [Next]_vars => UsedInv'
  BY UsedInvInductive
<1>3. TypeInv /\ UsedInv /\ [Next]_vars => [Kept]_vars
  <2> SUFFICES ASSUME TypeInv, UsedInv, [Next]_vars, NEW r \in Reloader, InPass(r, "remove"),
                      pc'[r] = "end", NEW e \in want, conns[e.host] # NoConn
               PROVE  conns'[e.host] # NoConn
    OBVIOUS
  <2>1. RemoveHosts(r)
    BY OnlyRemoveHostsRemoves
  <2>2. e.host \in attempt /\ e.host \in Host
    BY SentinelAssumption DEF UsedInv, Attempted, TailPhase, InPass, TypeInv, TypeOK, PassOK, Entry
  <2> QED BY <2>1, <2>2 DEF RemoveHosts, Victims
<1>4. Init => TypeInv
  BY InitTypeInv
<1>5. TypeInv /\ [Next]_vars => TypeInv'
  BY TypeInvInductive
<1> QED BY <1>1, <1>2, <1>3, <1>4, <1>5, PTL DEF Spec, UsedConnectionKept

-----------------------------------------------------------------------------
(***************************************************************************)
(* As long as nobody replaces the store, existing holds no policy of an    *)
(* entry the loop has handled; when the loop is over that is every entry,  *)
(* and deletePolicies deletes nothing that is wanted.                      *)
(***************************************************************************)
Handled(e) == e \notin todo /\ ~(pc[mu] \in BusyPhase /\ e = cur)

ClaimedInv ==
  /\ ~up => mu = Nobody
  /\ (mu # Nobody /\ ~moved) =>
       /\ localHost = self.host
       /\ pc[mu] \in LoopPhase =>
            \A e \in entries : e.host # self.host /\ Handled(e) =>
              existing \cap PoliciesOf(e, LocalTunnelAddress(self)) = {}

(* Every step of the pass keeps the policies of handled entries out of     *)
(* existing, or the store has moved.                                       *)
LEMMA ClaimedInvInductive ==
  ASSUME TypeInv, ClaimedInv, [Next]_vars
  PROVE  ClaimedInv'
<1> USE SentinelAssumption DEF LoopPhase
<1>1. pc \in [Reloader -> OutsidePhase \cup PassPhase]
  BY DEF TypeInv, TypeOK, ControlOK
<1>2. ASSUME UNCHANGED <<up, mu, pc, self, entries, moved, passVars>> PROVE ClaimedInv'
  BY <1>2 DEF ClaimedInv, Handled, passVars, LocalTunnelAddress, PoliciesOf
<1>3. ASSUME UNCHANGED vars \/ ChangeDoc \/ ChangeFiles \/ CharonRestart
             \/ \E h \in Host : InitiateDone(h)
      PROVE  ClaimedInv'
  BY <1>2, <1>3 DEF vars, ChangeDoc, ChangeFiles, CharonRestart, InitiateDone, storeVars, passVars
<1>4. ASSUME Exit \/ Boot \/ \E r \in Reloader : ConfigureEnd(r) PROVE ClaimedInv'
  BY <1>4 DEF Exit, Boot, ConfigureEnd, InPass, ClaimedInv
<1>5. ASSUME NEW r \in Reloader, pc[r] \in OutsidePhase, NEW ph \in OutsidePhase, Goto(r, ph),
             UNCHANGED <<up, mu, passVars>>, ~moved' => ~moved /\ UNCHANGED <<self, entries>>
      PROVE  ClaimedInv'
  <2>1. r # mu
    BY <1>5 DEF TypeInv, LocalsSet, OutsidePhase, PassPhase
  <2>2. mu # Nobody => pc'[mu] = pc[mu]
    BY <1>1, <1>5, <2>1 DEF Goto
  <2> QED BY <1>5, <2>2 DEF ClaimedInv, Handled, passVars, LocalTunnelAddress, PoliciesOf
<1>6. ASSUME NEW r \in Reloader, Fetch(r) \/ StoreSelf(r) \/ StoreEntries(r) \/ ReadPsk(r)
      PROVE  ClaimedInv'
  <2>1. /\ pc[r] \in OutsidePhase /\ \E ph \in OutsidePhase : Goto(r, ph)
        /\ UNCHANGED <<up, mu, passVars>>
    BY <1>6 DEF Fetch, StoreSelf, StoreEntries, ReadPsk, OutsidePhase, storeVars
  <2>2. ASSUME Fetch(r) PROVE ~moved' => ~moved /\ UNCHANGED <<self, entries>>
    BY <2>2 DEF Fetch, storeVars
  <2>3. ASSUME StoreSelf(r) PROVE ~moved' => ~moved /\ UNCHANGED <<self, entries>>
    BY <2>3 DEF StoreSelf
  <2>4. ASSUME StoreEntries(r) PROVE ~moved' => ~moved /\ UNCHANGED <<self, entries>>
    BY <2>4 DEF StoreEntries
  <2>5. ASSUME ReadPsk(r) PROVE ~moved' => ~moved /\ UNCHANGED <<self, entries>>
    BY <2>5 DEF ReadPsk
  <2> QED BY <1>5, <1>6, <2>1, <2>2, <2>3, <2>4, <2>5
<1>7. ASSUME NEW r \in Reloader, ConfigureBegin(r) PROVE ClaimedInv'
  <2>1. CASE Goto(r, "idle") /\ UNCHANGED <<mu, passVars, moved>>
    BY <1>5, <1>7, <2>1 DEF ConfigureBegin, OutsidePhase, storeVars
  <2>2. CASE mu' = r /\ Goto(r, "keys") /\ localHost' = self.host
    BY <1>1, <1>7, <2>2 DEF ClaimedInv, ConfigureBegin, Goto, storeVars
  <2> QED BY <1>7, <2>1, <2>2 DEF ConfigureBegin
<1>8. ASSUME NEW r \in Reloader, LoadDefaultKey(r) PROVE ClaimedInv'
  BY <1>1, <1>8 DEF ClaimedInv, Handled, LoadDefaultKey, InPass, Goto, storeVars
<1>9. ASSUME NEW r \in Reloader, TakeEntry(r) PROVE ClaimedInv'
  <2>1. PICK e \in todo :
          /\ todo' = todo \ {e} /\ cur' = e
          /\ IF e.host = localHost THEN pc' = [pc EXCEPT ![r] = "loop"]
             ELSE \E ph \in {"rules", "host"} : pc' = [pc EXCEPT ![r] = ph]
    BY <1>9 DEF TakeEntry, Goto
  <2>2. /\ mu = r /\ pc[r] = "loop" /\ mu' = mu /\ up' = up /\ moved' = moved /\ self' = self
        /\ entries' = entries /\ existing' = existing /\ localHost' = localHost
    BY <1>9 DEF TakeEntry, InPass, storeVars
  <2> QED BY <1>1, <2>1, <2>2 DEF ClaimedInv, Handled, BusyPhase, LocalTunnelAddress, PoliciesOf
<1>10. ASSUME NEW r \in Reloader, AddHostKey(r) \/ AddHostConnection(r) PROVE ClaimedInv'
  <2>1. \E ph \in {"conn", "rules"} : pc' = [pc EXCEPT ![r] = ph]
    BY <1>10 DEF AddHostKey, AddHostConnection, Goto
  <2>2. /\ mu = r /\ pc[r] \in {"host", "conn"} /\ mu' = mu /\ up' = up /\ moved' = moved
        /\ self' = self /\ entries' = entries /\ existing' = existing /\ localHost' = localHost
        /\ todo' = todo /\ cur' = cur
    BY <1>10 DEF AddHostKey, AddHostConnection, InPass, storeVars
  <2> QED BY <1>1, <2>1, <2>2 DEF ClaimedInv, Handled, BusyPhase, LocalTunnelAddress, PoliciesOf
<1>11. ASSUME NEW r \in Reloader, AddRules(r) PROVE ClaimedInv'
  <2>1. /\ pc' = [pc EXCEPT ![r] = "loop"] /\ mu = r /\ pc[r] = "rules" /\ mu' = mu /\ up' = up
        /\ moved' = moved /\ self' = self /\ entries' = entries /\ localHost' = localHost
        /\ todo' = todo /\ cur' = cur
        /\ existing' = existing \ PoliciesOf(cur, LocalTunnelAddress(self))
    BY <1>11 DEF AddRules, InPass, Goto, storeVars
  <2>2. LocalTunnelAddress(self)' = LocalTunnelAddress(self)
    BY <2>1 DEF LocalTunnelAddress
  <2>3. ASSUME NEW e \in entries, mu # Nobody, ~moved, e.host # self.host, Handled(e)'
        PROVE  existing' \cap PoliciesOf(e, LocalTunnelAddress(self)) = {}
    <3>1. e = cur \/ Handled(e)
      BY <2>1, <2>3 DEF Handled, BusyPhase
    <3> QED BY <2>1, <2>3, <3>1 DEF ClaimedInv
  <2>4. \A e : PoliciesOf(e, LocalTunnelAddress(self))' = PoliciesOf(e, LocalTunnelAddress(self))
    BY <2>1, <2>2 DEF PoliciesOf
  <2> QED BY <2>1, <2>2, <2>3, <2>4 DEF ClaimedInv
<1>12. ASSUME NEW r \in Reloader,
              \/ DeletePolicies(r) \/ AddPolicies(r) \/ SyncHostRoutes(r) \/ ReapStaleLocal(r)
              \/ RestartForStalePeers(r) \/ RemoveHosts(r)
       PROVE  ClaimedInv'
  <2>1. /\ mu = r /\ UNCHANGED <<up, mu, moved, self, localHost>>
        /\ \E ph \in {"add", "routes", "reap", "peers", "remove", "end"} : Goto(r, ph)
    BY <1>12 DEF DeletePolicies, AddPolicies, SyncHostRoutes, ReapStaleLocal, RestartForStalePeers,
                 RemoveHosts, InPass, storeVars
  <2> QED BY <1>1, <2>1 DEF ClaimedInv, Goto
<1> QED BY <1>3, <1>4, <1>6, <1>7, <1>8, <1>9, <1>10, <1>11, <1>12 DEF Next, ReloadStep
=============================================================================
