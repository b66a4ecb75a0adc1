--------------------------- MODULE MCVxlanOverlay ---------------------------
(***************************************************************************)
(* VxlanOverlay for TLC: agents p1 and p2, containers c1 and c2, hosts h1  *)
(* and h2.                                                                 *)
(***************************************************************************)
EXTENDS VxlanOverlay, TLC

CONSTANTS h1, h2, p1, p2, c1, c2

E(i, h) == [ip |-> i, host |-> h]
D(ps, rs) == [peers |-> ps, remotes |-> rs]

(* Addresses come and go but keep their host and their role, and no agent  *)
(* is removed while its host stays in use.                                 *)
GrowingAgents ==
  {d \in {D(ps, rs) : ps \in SUBSET {E(p1, h1), E(p2, h2)}, rs \in SUBSET {E(c1, h1), E(c2, h2)}} :
     \A e \in d.remotes : \E f \in d.peers : f.host = e.host}

(* Agent p1 and its container c1, of which either may be missing.          *)
Steady == {D({E(p1, h1)}, {}), D({}, {E(c1, h1)}), D({E(p1, h1)}, {E(c1, h1)})}

(* What happens beside them: p2 and c2 may each be the agent of h2, p2 may *)
(* have lost its host, and c2 may be a container on h1.                    *)
Drifting ==
  {D({}, {}), D({E(p2, h2)}, {}), D({E(p2, NoHost)}, {}), D({E(c2, h2)}, {}), D({E(p2, h2), E(c2, h2)}, {}),
   D({}, {E(c2, h1)}), D({E(p2, h2)}, {E(c2, h1)})}

SteadyAmongDrifting == {D(d.peers \cup f.peers, d.remotes \cup f.remotes) : d \in Steady, f \in Drifting}

(* Any address may be absent, a peer or a plain container, on any host or  *)
(* on one the metadata does not list.                                      *)
AnyDocs ==
  {d \in [peers: SUBSET Entry, remotes: SUBSET Entry] :
     /\ d.peers \cap d.remotes = {}
     /\ \A e, f \in d.peers \cup d.remotes : e.ip = f.ip => e = f}

(* AnyDocs tells neither addresses nor hosts apart.                        *)
Symmetry == Permutations(Ip) \cup Permutations(Host)
=============================================================================
