-------------------------- MODULE MCIpsecConfigure --------------------------
(***************************************************************************)
(* Instances of IpsecConfigure for TLC: this host is at h1 or moves to h2; *)
(* containers c1 and c2 live on h1, h2 or h3; p1 is this host's own agent  *)
(* container.                                                              *)
(***************************************************************************)
EXTENDS IpsecRefinement, TLC

CONSTANTS h1, h2, h3, p1, c1, c2

MCHost == {h1, h2, h3}
MCIp   == {p1, c1, c2}
AllDir == {"out", "in", "fwd"}
OneDir == {"out"}

DocOf(me, at1, at2) ==
  [self    |-> [host |-> me, ip |-> p1],
   entries |-> {[ip |-> c1, host |-> at1, peer |-> TRUE], [ip |-> c2, host |-> at2, peer |-> FALSE]}]

OneContainer(me, at1) ==
  [self |-> [host |-> me, ip |-> p1], entries |-> {[ip |-> c1, host |-> at1, peer |-> TRUE]}]

(* A container moves, a container comes home, one disappears.              *)
MovingContainers == {DocOf(h1, h2, h2), DocOf(h1, h3, h2), OneContainer(h1, h2), OneContainer(h1, h1)}

(* This host's agent address changes under a running overlay.              *)
MovingSelf == {OneContainer(h1, h3), OneContainer(h2, h3), OneContainer(h2, h1)}

(* The container comes home, for liveness.                                 *)
MovingOnce == {OneContainer(h1, h3), OneContainer(h1, h1)}

NoPolicies == {}

(* The two callers of Reload are interchangeable.                          *)
Callers == Permutations(Reloader)

ForeignPolicies == {[ip |-> c1, dir |-> "out", loc |-> h1, rem |-> h3],
                    [ip |-> c2, dir |-> "out", loc |-> h3, rem |-> h2]}
=============================================================================
