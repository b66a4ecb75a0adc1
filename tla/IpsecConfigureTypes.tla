------------------------- MODULE IpsecConfigureTypes -------------------------
(***************************************************************************)
(* Type correctness of IpsecConfigure, proved for any sets of callers,     *)
(* hosts, addresses, documents, keys and templates and any budgets.        *)
(*                                                                         *)
(* TypeOK alone is not inductive: the locals of a pass start out unset,    *)
(* and a connection is built from three of them.  LocalsSet says when they *)
(* are set.                                                                *)
(***************************************************************************)
EXTENDS IpsecConfigure, TLAPS

(* Positions at which the loop is handling an entry.                       *)
BusyPhase == {"host", "conn", "rules"}

(* The locals of a pass have values when they are used: a template from    *)
(* the start, an entry while one is handled, its agent address before the  *)
(* connection is built.                                                    *)
LocalsSet ==
  mu # Nobody =>
    /\ pc[mu] \in PassPhase /\ tmpl \in Rev
    /\ pc[mu] \in BusyPhase => cur \in Entry
    /\ pc[mu] = "conn" => agent \in Host

TypeInv == TypeOK /\ LocalsSet

(* localTunnelAddress returns a host or an overlay address.                *)
LEMMA TunnelType == ASSUME NEW s \in Self PROVE LocalTunnelAddress(s) \in Addr
  BY DEF Self, Addr, LocalTunnelAddress

(* addRules builds policies.                                               *)
LEMMA PoliciesType ==
  ASSUME NEW e \in Entry, NEW loc \in Addr PROVE PoliciesOf(e, loc) \subseteq Policy
  BY DEF PoliciesOf, Policy, Entry

(* A step uses at most one unit of the fault budget.                       *)
LEMMA BudgetKept ==
  ASSUME faults \in 0..MaxFault, Fault \/ NoFault PROVE faults' \in 0..MaxFault
  BY FlagAssumption DEF Fault, NoFault

(* Every step preserves the types and sets the locals before their use.    *)
LEMMA TypeInvInductive ==
  ASSUME TypeInv, [Next]_vars
  PROVE  TypeInv'
<1> USE FlagAssumption, SentinelAssumption DEF TypeInv, TypeOK
<1>1. ASSUME UNCHANGED vars PROVE TypeInv'
  <2>1. StoreOK' /\ ControlOK' /\ PassOK' /\ CacheOK' /\ CharonOK' /\ KernelOK'
    BY <1>1 DEF vars, StoreOK, ControlOK, PassOK, CacheOK, CharonOK, KernelOK
  <2>2. LocalsSet'
    BY <1>1 DEF vars, LocalsSet
  <2> QED BY <2>1, <2>2
<1>2. ASSUME ChangeDoc PROVE TypeInv'
  <2>1. PassOK' /\ CacheOK' /\ CharonOK' /\ KernelOK'
    BY <1>2 DEF ChangeDoc, PassOK, CacheOK, CharonOK, KernelOK, passVars, cacheVars, charonVars,
                kernelVars
  <2>2. StoreOK'
    BY <1>2 DEF ChangeDoc, StoreOK, envVars, storeVars
  <2>3. ControlOK'
    BY <1>2 DEF ChangeDoc, ControlOK, envVars
  <2>4. LocalsSet'
    BY <1>2 DEF ChangeDoc, LocalsSet, passVars
  <2> QED BY <2>1, <2>2, <2>3, <2>4
<1>3. ASSUME ChangeFiles PROVE TypeInv'
  <2>1. PassOK' /\ CacheOK' /\ CharonOK' /\ KernelOK'
    BY <1>3 DEF ChangeFiles, PassOK, CacheOK, CharonOK, KernelOK, passVars, cacheVars,
                charonVars, kernelVars
  <2>2. StoreOK'
    BY <1>3 DEF ChangeFiles, StoreOK, envVars, storeVars
  <2>3. ControlOK'
    BY <1>3 DEF ChangeFiles, ControlOK, envVars
  <2>4. LocalsSet'
    BY <1>3 DEF ChangeFiles, LocalsSet, passVars
  <2> QED BY <2>1, <2>2, <2>3, <2>4
<1>4. ASSUME CharonRestart PROVE TypeInv'
  <2>1. StoreOK' /\ PassOK' /\ CacheOK' /\ KernelOK'
    BY <1>4 DEF CharonRestart, StoreOK, PassOK, CacheOK, KernelOK, envVars, storeVars, passVars,
                cacheVars, kernelVars
  <2>2. ControlOK'
    BY <1>4 DEF CharonRestart, ControlOK, Fault, envVars
  <2>3. CharonOK'
    BY <1>4 DEF CharonRestart, CharonOK, CharonGone, charonVars
  <2>4. LocalsSet'
    BY <1>4 DEF CharonRestart, LocalsSet, passVars
  <2> QED BY <2>1, <2>2, <2>3, <2>4
<1>5. ASSUME Exit PROVE TypeInv'
  <2>1. CharonOK' /\ KernelOK'
    BY <1>5 DEF Exit, CharonGone, CharonOK, KernelOK, charonVars, kernelVars
  <2>2. StoreOK'
    BY <1>5 DEF Exit, StoreOK, envVars, storeVars
  <2>3. ControlOK'
    <3>1. faults' \in 0..MaxFault
      BY <1>5, BudgetKept DEF Exit, ControlOK
    <3>2. pc' \in [Reloader -> OutsidePhase \cup PassPhase]
      BY <1>5 DEF Exit, OutsidePhase
    <3> QED BY <1>5, <3>1, <3>2 DEF Exit, ControlOK, envVars
  <2>4. PassOK'
    BY <1>5 DEF Exit, PassOK, PassOver, passVars
  <2>5. CacheOK'
    BY <1>5 DEF Exit, CacheOK, cacheVars
  <2>6. LocalsSet'
    BY <1>5 DEF Exit, LocalsSet
  <2> QED BY <2>1, <2>2, <2>3, <2>4, <2>5, <2>6
<1>6. ASSUME Boot PROVE TypeInv'
  <2>1. PassOK' /\ KernelOK'
    BY <1>6 DEF Boot, PassOK, KernelOK, passVars, kernelVars
  <2>2. StoreOK'
    BY <1>6, DocAssumption DEF Boot, StoreOK, envVars, storeVars
  <2>3. ControlOK'
    BY <1>6 DEF Boot, ControlOK, envVars
  <2>4. CacheOK'
    BY <1>6 DEF Boot, CacheOK, cacheVars
  <2>5. CharonOK'
    BY <1>6 DEF Boot, CharonOK, charonVars
  <2>6. LocalsSet'
    BY <1>6 DEF Boot, LocalsSet, passVars
  <2> QED BY <2>1, <2>2, <2>3, <2>4, <2>5, <2>6
<1>7. ASSUME NEW r \in Reloader, Fetch(r) PROVE TypeInv'
  <2>1. PassOK' /\ CacheOK' /\ CharonOK' /\ KernelOK'
    BY <1>7 DEF Fetch, PassOK, CacheOK, CharonOK, KernelOK, passVars, cacheVars, charonVars,
                kernelVars
  <2>2. StoreOK'
    BY <1>7 DEF Fetch, StoreOK, envVars, storeVars
  <2>3. ControlOK'
    BY <1>7 DEF Fetch, ControlOK, Goto, InPass, Fault, NoFault, OutsidePhase, PassPhase, envVars
  <2>4. LocalsSet'
    BY <1>7 DEF Fetch, LocalsSet, ControlOK, BusyPhase, InPass, Goto, OutsidePhase, PassPhase,
                passVars
  <2> QED BY <2>1, <2>2, <2>3, <2>4
<1>8. ASSUME NEW r \in Reloader, StoreSelf(r) PROVE TypeInv'
  <2>1. PassOK' /\ CacheOK' /\ CharonOK' /\ KernelOK'
    BY <1>8 DEF StoreSelf, PassOK, CacheOK, CharonOK, KernelOK, passVars, cacheVars, charonVars,
                kernelVars
  <2>2. StoreOK'
    BY <1>8, DocAssumption DEF StoreSelf, StoreOK, envVars, storeVars
  <2>3. ControlOK'
    BY <1>8 DEF StoreSelf, ControlOK, Goto, InPass, Fault, NoFault, OutsidePhase, PassPhase, envVars
  <2>4. LocalsSet'
    BY <1>8 DEF StoreSelf, LocalsSet, ControlOK, BusyPhase, InPass, Goto, OutsidePhase,
                PassPhase, passVars
  <2> QED BY <2>1, <2>2, <2>3, <2>4
<1>9. ASSUME NEW r \in Reloader, StoreEntries(r) PROVE TypeInv'
  <2>1. PassOK' /\ CacheOK' /\ CharonOK' /\ KernelOK'
    BY <1>9 DEF StoreEntries, PassOK, CacheOK, CharonOK, KernelOK, passVars, cacheVars,
                charonVars, kernelVars
  <2>2. StoreOK'
    BY <1>9, DocAssumption DEF StoreEntries, StoreOK, envVars, storeVars
  <2>3. ControlOK'
    BY <1>9 DEF StoreEntries, ControlOK, Goto, InPass, Fault, NoFault, OutsidePhase, PassPhase,
                envVars
  <2>4. LocalsSet'
    BY <1>9 DEF StoreEntries, LocalsSet, ControlOK, BusyPhase, InPass, Goto, OutsidePhase,
                PassPhase, passVars
  <2> QED BY <2>1, <2>2, <2>3, <2>4
<1>10. ASSUME NEW r \in Reloader, ReadPsk(r) PROVE TypeInv'
  <2>1. PassOK' /\ CacheOK' /\ CharonOK' /\ KernelOK'
    BY <1>10 DEF ReadPsk, PassOK, CacheOK, CharonOK, KernelOK, passVars, cacheVars, charonVars,
                 kernelVars
  <2>2. StoreOK'
    BY <1>10 DEF ReadPsk, StoreOK, envVars, storeVars
  <2>3. ControlOK'
    <3>1. faults' \in 0..MaxFault
      BY <1>10, BudgetKept DEF ReadPsk, ControlOK
    <3>2. pc' \in [Reloader -> OutsidePhase \cup PassPhase]
      BY <1>10 DEF ReadPsk, ControlOK, Goto, OutsidePhase
    <3>3. moved' \in BOOLEAN
      BY <1>10 DEF ReadPsk, ControlOK
    <3> QED BY <1>10, <3>1, <3>2, <3>3 DEF ReadPsk, ControlOK, envVars
  <2>4. LocalsSet'
    BY <1>10 DEF ReadPsk, LocalsSet, ControlOK, BusyPhase, InPass, Goto, OutsidePhase, PassPhase,
                 passVars
  <2> QED BY <2>1, <2>2, <2>3, <2>4
<1>11. ASSUME NEW r \in Reloader, ConfigureBegin(r) PROVE TypeInv'
  <2>1. StoreOK' /\ CacheOK' /\ CharonOK' /\ KernelOK'
    BY <1>11 DEF ConfigureBegin, StoreOK, CacheOK, CharonOK, KernelOK, envVars, storeVars,
                 cacheVars, charonVars, kernelVars
  <2>2. ControlOK'
    <3>1. faults' \in 0..MaxFault
      BY <1>11, BudgetKept DEF ConfigureBegin, ControlOK
    <3>2. pc' \in [Reloader -> OutsidePhase \cup PassPhase]
      BY <1>11 DEF ConfigureBegin, ControlOK, Goto, OutsidePhase, PassPhase
    <3>3. moved' \in BOOLEAN /\ last' \in {"none", "nil", "err"} /\ mu' \in Reloader \cup {Nobody}
      BY <1>11 DEF ConfigureBegin, ControlOK
    <3> QED BY <1>11, <3>1, <3>2, <3>3 DEF ConfigureBegin, ControlOK, envVars
  <2>3. PassOK'
    BY <1>11 DEF ConfigureBegin, PassOK, StoreOK, KernelOK, Self, passVars
  <2>4. LocalsSet'
    BY <1>11 DEF ConfigureBegin, LocalsSet, ControlOK, BusyPhase, InPass, Goto, OutsidePhase,
                 PassPhase, passVars, StoreOK
  <2> QED BY <2>1, <2>2, <2>3, <2>4
<1>12. ASSUME NEW r \in Reloader, LoadDefaultKey(r) PROVE TypeInv'
  <2>1. StoreOK' /\ CharonOK' /\ KernelOK'
    BY <1>12 DEF LoadDefaultKey, StoreOK, CharonOK, KernelOK, envVars, storeVars, charonVars,
                 kernelVars
  <2>2. ControlOK'
    BY <1>12 DEF LoadDefaultKey, ControlOK, Goto, InPass, Fault, NoFault, OutsidePhase,
                 PassPhase, KeyLoaded, KeyRefused, envVars
  <2>3. PassOK'
    BY <1>12 DEF LoadDefaultKey, PassOK, StoreOK, passVars
  <2>4. CacheOK'
    BY <1>12 DEF LoadDefaultKey, CacheOK, KeyLoaded, KeyRefused, NoFault, StoreOK, Owner, cacheVars
  <2>5. LocalsSet'
    BY <1>12 DEF LoadDefaultKey, LocalsSet, ControlOK, BusyPhase, InPass, Goto, OutsidePhase,
                 PassPhase, passVars
  <2> QED BY <2>1, <2>2, <2>3, <2>4, <2>5
<1>13. ASSUME NEW r \in Reloader, TakeEntry(r) PROVE TypeInv'
  <2>1. StoreOK' /\ CharonOK' /\ KernelOK'
    BY <1>13 DEF TakeEntry, StoreOK, CharonOK, KernelOK, envVars, storeVars, charonVars, kernelVars
  <2>2. ControlOK'
    BY <1>13 DEF TakeEntry, ControlOK, Goto, InPass, Fault, NoFault, OutsidePhase, PassPhase,
                 KeyLoaded, KeyRefused, envVars
  <2>3. PassOK'
    BY <1>13 DEF TakeEntry, PassOK, passVars
  <2>4. CacheOK'
    BY <1>13 DEF TakeEntry, CacheOK, KeyLoaded, KeyRefused, NoFault, StoreOK, cacheVars
  <2>5. LocalsSet'
    BY <1>13 DEF TakeEntry, LocalsSet, ControlOK, BusyPhase, InPass, Goto, OutsidePhase,
                 PassPhase, passVars, PassOK
  <2> QED BY <2>1, <2>2, <2>3, <2>4, <2>5
<1>14. ASSUME NEW r \in Reloader, AddHostKey(r) PROVE TypeInv'
  <2>1. StoreOK' /\ CharonOK' /\ KernelOK'
    BY <1>14 DEF AddHostKey, StoreOK, CharonOK, KernelOK, envVars, storeVars, charonVars, kernelVars
  <2>2. ControlOK'
    BY <1>14 DEF AddHostKey, ControlOK, Goto, InPass, Fault, NoFault, OutsidePhase, PassPhase,
                 KeyLoaded, KeyRefused, envVars
  <2>3. PassOK'
    BY <1>14 DEF AddHostKey, PassOK, StoreOK, Self, Entry, LocalsSet, InPass, BusyPhase, passVars
  <2>4. CacheOK'
    BY <1>14 DEF AddHostKey, CacheOK, KeyLoaded, KeyRefused, NoFault, StoreOK, LocalsSet, InPass,
                 BusyPhase, cacheVars
  <2>5. LocalsSet'
    BY <1>14 DEF AddHostKey, LocalsSet, ControlOK, BusyPhase, InPass, Goto, OutsidePhase,
                 PassPhase, passVars, StoreOK, Self
  <2> QED BY <2>1, <2>2, <2>3, <2>4, <2>5
<1>15. ASSUME NEW r \in Reloader, AddHostConnection(r) PROVE TypeInv'
  <2> DEFINE fp == [rev |-> tmpl, agent |-> agent, tunnel |-> LocalTunnelAddress(self)]
             g  == cur.host
  <2>1. g \in Host /\ fp \in Fingerprint
    BY <1>15, TunnelType DEF AddHostConnection, InPass, LocalsSet, BusyPhase, StoreOK, Fingerprint, Entry
  <2>2. QueuedLocal(hosts[g], fp) \in SUBSET Host
    BY DEF QueuedLocal, Fingerprint
  <2>3. CacheOK' /\ CharonOK'
    <3>1. CASE UNCHANGED <<hosts, staleLocal, keys, initiating, charonVars>>
      BY <3>1 DEF CacheOK, CharonOK, charonVars
    <3>2. CASE ConnectionLoaded(g, fp) /\ UNCHANGED <<keys, initiating>>
      BY <2>1, <2>2, <3>2 DEF CacheOK, CharonOK, ConnectionLoaded
    <3>3. CASE ConnectionRefused(g, fp) /\ UNCHANGED <<keys, initiating>>
      BY <2>1, <3>3 DEF CacheOK, CharonOK, ConnectionRefused, charonVars
    <3> QED BY <1>15, <3>1, <3>2, <3>3 DEF AddHostConnection
  <2>4. PassOK'
    BY <1>15, <2>1 DEF AddHostConnection, PassOK
  <2>5. ControlOK'
    BY <1>15 DEF AddHostConnection, ControlOK, ConnectionRefused, Goto, InPass, Fault, NoFault,
                 OutsidePhase, PassPhase, envVars
  <2>6. StoreOK' /\ KernelOK'
    BY <1>15 DEF AddHostConnection, StoreOK, KernelOK, envVars, storeVars, kernelVars
  <2>7. LocalsSet'
    BY <1>15 DEF AddHostConnection, LocalsSet, ControlOK, BusyPhase, InPass, Goto, PassPhase
  <2> QED BY <2>3, <2>4, <2>5, <2>6, <2>7
<1>16. ASSUME NEW r \in Reloader, AddRules(r) PROVE TypeInv'
  <2>1. StoreOK' /\ CacheOK' /\ CharonOK' /\ KernelOK'
    BY <1>16 DEF AddRules, StoreOK, CacheOK, CharonOK, KernelOK, envVars, storeVars, cacheVars,
                 charonVars, kernelVars
  <2>2. PoliciesOf(cur, LocalTunnelAddress(self)) \subseteq Policy
    BY <1>16, TunnelType, PoliciesType DEF AddRules, InPass, StoreOK, LocalsSet, BusyPhase
  <2>3. ControlOK'
    BY <1>16 DEF AddRules, ControlOK, Goto, InPass, Fault, NoFault, OutsidePhase, PassPhase, envVars
  <2>4. PassOK'
    BY <1>16, <2>2 DEF AddRules, PassOK, StoreOK, LocalsSet, InPass, BusyPhase, passVars
  <2>5. LocalsSet'
    BY <1>16 DEF AddRules, LocalsSet, ControlOK, BusyPhase, InPass, Goto, OutsidePhase,
                 PassPhase, passVars
  <2> QED BY <2>1, <2>2, <2>3, <2>4, <2>5
<1>17. ASSUME NEW r \in Reloader, DeletePolicies(r) PROVE TypeInv'
  <2>1. StoreOK' /\ CacheOK' /\ CharonOK'
    BY <1>17 DEF DeletePolicies, StoreOK, CacheOK, CharonOK, envVars, storeVars, cacheVars,
                 charonVars
  <2>2. ControlOK'
    BY <1>17 DEF DeletePolicies, ControlOK, Goto, InPass, Fault, NoFault, OutsidePhase,
                 PassPhase, envVars
  <2>3. PassOK'
    BY <1>17 DEF DeletePolicies, PassOK, passVars
  <2>4. KernelOK'
    BY <1>17 DEF DeletePolicies, KernelOK, PassOK, kernelVars
  <2>5. LocalsSet'
    BY <1>17 DEF DeletePolicies, LocalsSet, ControlOK, BusyPhase, InPass, Goto, OutsidePhase,
                 PassPhase, passVars
  <2> QED BY <2>1, <2>2, <2>3, <2>4, <2>5
<1>18. ASSUME NEW r \in Reloader, AddPolicies(r) PROVE TypeInv'
  <2>1. StoreOK' /\ CacheOK' /\ CharonOK'
    BY <1>18 DEF AddPolicies, StoreOK, CacheOK, CharonOK, envVars, storeVars, cacheVars, charonVars
  <2>2. ControlOK'
    BY <1>18 DEF AddPolicies, ControlOK, Goto, InPass, Fault, NoFault, OutsidePhase, PassPhase,
                 envVars
  <2>3. PassOK'
    BY <1>18 DEF AddPolicies, PassOK, passVars
  <2>4. KernelOK'
    BY <1>18 DEF AddPolicies, KernelOK, PassOK, kernelVars
  <2>5. LocalsSet'
    BY <1>18 DEF AddPolicies, LocalsSet, ControlOK, BusyPhase, InPass, Goto, OutsidePhase,
                 PassPhase, passVars
  <2> QED BY <2>1, <2>2, <2>3, <2>4, <2>5
<1>19. ASSUME NEW r \in Reloader, SyncHostRoutes(r) PROVE TypeInv'
  <2>1. StoreOK' /\ CacheOK' /\ CharonOK'
    BY <1>19 DEF SyncHostRoutes, StoreOK, CacheOK, CharonOK, envVars, storeVars, cacheVars,
                 charonVars
  <2>2. ControlOK'
    BY <1>19 DEF SyncHostRoutes, ControlOK, Goto, InPass, Fault, NoFault, OutsidePhase,
                 PassPhase, envVars
  <2>3. PassOK'
    BY <1>19 DEF SyncHostRoutes, PassOK, passVars
  <2>4. KernelOK'
    BY <1>19 DEF SyncHostRoutes, KernelOK, PassOK, RouteOf, Route, Entry, kernelVars
  <2>5. LocalsSet'
    BY <1>19 DEF SyncHostRoutes, LocalsSet, ControlOK, BusyPhase, InPass, Goto, OutsidePhase,
                 PassPhase, passVars
  <2> QED BY <2>1, <2>2, <2>3, <2>4, <2>5
<1>20. ASSUME NEW r \in Reloader, ReapStaleLocal(r) PROVE TypeInv'
  <2>1. StoreOK' /\ CharonOK' /\ KernelOK'
    BY <1>20 DEF ReapStaleLocal, StoreOK, CharonOK, KernelOK, envVars, storeVars, charonVars,
                 kernelVars
  <2>2. ControlOK'
    BY <1>20 DEF ReapStaleLocal, ControlOK, Goto, InPass, Fault, NoFault, OutsidePhase,
                 PassPhase, envVars
  <2>3. PassOK'
    BY <1>20 DEF ReapStaleLocal, PassOK, passVars
  <2>4. CacheOK'
    BY <1>20 DEF ReapStaleLocal, CacheOK, cacheVars
  <2>5. LocalsSet'
    BY <1>20 DEF ReapStaleLocal, LocalsSet, ControlOK, BusyPhase, InPass, Goto, OutsidePhase,
                 PassPhase, passVars
  <2> QED BY <2>1, <2>2, <2>3, <2>4, <2>5
<1>21. ASSUME NEW r \in Reloader, RestartForStalePeers(r) PROVE TypeInv'
  <2>1. StoreOK' /\ CacheOK' /\ KernelOK'
    BY <1>21 DEF RestartForStalePeers, StoreOK, CacheOK, KernelOK, envVars, storeVars, cacheVars,
                 kernelVars
  <2>2. ControlOK'
    BY <1>21 DEF RestartForStalePeers, ControlOK, Goto, InPass, Fault, NoFault, OutsidePhase,
                 PassPhase, envVars
  <2>3. PassOK'
    BY <1>21 DEF RestartForStalePeers, PassOK, passVars
  <2>4. CharonOK'
    BY <1>21 DEF RestartForStalePeers, CharonOK, CharonGone, charonVars
  <2>5. LocalsSet'
    BY <1>21 DEF RestartForStalePeers, LocalsSet, ControlOK, BusyPhase, InPass, Goto,
                 OutsidePhase, PassPhase, passVars
  <2> QED BY <2>1, <2>2, <2>3, <2>4, <2>5
<1>22. ASSUME NEW r \in Reloader, RemoveHosts(r) PROVE TypeInv'
  <2>1. StoreOK' /\ KernelOK'
    BY <1>22 DEF RemoveHosts, StoreOK, KernelOK, envVars, storeVars, kernelVars
  <2>2. ControlOK'
    BY <1>22 DEF RemoveHosts, ControlOK, Goto, InPass, Fault, NoFault, OutsidePhase, PassPhase,
                 envVars
  <2>3. PassOK'
    BY <1>22 DEF RemoveHosts, PassOK, passVars
  <2>4. CacheOK'
    BY <1>22 DEF RemoveHosts, CacheOK, cacheVars
  <2>5. CharonOK'
    BY <1>22 DEF RemoveHosts, Victims, CharonOK, charonVars
  <2>6. LocalsSet'
    BY <1>22 DEF RemoveHosts, LocalsSet, ControlOK, BusyPhase, InPass, Goto, OutsidePhase,
                 PassPhase, passVars
  <2> QED BY <2>1, <2>2, <2>3, <2>4, <2>5, <2>6
<1>23. ASSUME NEW r \in Reloader, ConfigureEnd(r) PROVE TypeInv'
  <2>1. StoreOK' /\ CharonOK' /\ KernelOK'
    BY <1>23 DEF ConfigureEnd, StoreOK, CharonOK, KernelOK, envVars, storeVars, charonVars,
                 kernelVars
  <2>2. ControlOK'
    BY <1>23 DEF ConfigureEnd, ControlOK, Goto, InPass, Fault, NoFault, OutsidePhase, PassPhase,
                 envVars
  <2>3. PassOK'
    BY <1>23 DEF ConfigureEnd, PassOK, PassOver, passVars
  <2>4. CacheOK'
    BY <1>23 DEF ConfigureEnd, CacheOK, PassOK, cacheVars
  <2>5. LocalsSet'
    BY <1>23 DEF ConfigureEnd, LocalsSet, ControlOK, BusyPhase, InPass, Goto, OutsidePhase,
                 PassPhase, passVars
  <2> QED BY <2>1, <2>2, <2>3, <2>4, <2>5
<1>24. ASSUME NEW h \in Host, InitiateDone(h) PROVE TypeInv'
  <2>1. StoreOK' /\ ControlOK' /\ PassOK' /\ CharonOK' /\ KernelOK'
    BY <1>24 DEF InitiateDone, StoreOK, ControlOK, PassOK, CharonOK, KernelOK, envVars,
                 storeVars, passVars, charonVars, kernelVars
  <2>2. CacheOK'
    BY <1>24 DEF InitiateDone, CacheOK, cacheVars
  <2>3. LocalsSet'
    BY <1>24 DEF InitiateDone, LocalsSet, passVars
  <2> QED BY <2>1, <2>2, <2>3
<1> HIDE DEF TypeInv, TypeOK
<1> QED BY <1>1, <1>2, <1>3, <1>4, <1>5, <1>6, <1>7, <1>8, <1>9, <1>10, <1>11, <1>12, <1>13, <1>14, <1>15,
           <1>16, <1>17, <1>18, <1>19, <1>20, <1>21, <1>22, <1>23, <1>24 DEF Next, ReloadStep

(* The initial states have the types.                                      *)
LEMMA InitTypeInv == Init => TypeInv
<1> SUFFICES ASSUME Init PROVE TypeInv
  OBVIOUS
<1>1. StoreOK
  BY DocAssumption DEF Init, StoreOK
<1>2. ControlOK
  <2>1. pc \in [Reloader -> OutsidePhase \cup PassPhase]
    BY DEF Init, OutsidePhase
  <2>2. changes \in 0..MaxChange /\ faults \in 0..MaxFault
    BY FlagAssumption DEF Init
  <2>3. up \in BOOLEAN /\ moved \in BOOLEAN /\ last \in {"none", "nil", "err"} /\ mu = Nobody
    BY DEF Init
  <2> QED BY <2>1, <2>2, <2>3 DEF ControlOK
<1>3. PassOK
  BY DEF Init, PassOK
<1>4. CacheOK /\ CharonOK
  BY DEF Init, CacheOK, CharonOK
<1>5. KernelOK
  BY LeftoverAssumption DEF Init, KernelOK
<1> QED BY <1>1, <1>2, <1>3, <1>4, <1>5 DEF Init, TypeInv, TypeOK, LocalsSet

(* The overlay's variables, its callers' positions, charon's connections   *)
(* and the kernel's state keep their types, for every value of the         *)
(* constants; in particular a pass never builds a connection or a policy   *)
(* from a local it has not set (configure, ipsec.go:229-317).              *)
THEOREM TypeCorrect == Spec => []TypeOK
<1>1. Init => TypeInv
  BY InitTypeInv
<1>2. TypeInv /\ [Next]_vars => TypeInv'
  BY TypeInvInductive
<1>3. TypeInv => TypeOK
  BY DEF TypeInv
<1> QED BY <1>1, <1>2, <1>3, PTL DEF Spec
=============================================================================
