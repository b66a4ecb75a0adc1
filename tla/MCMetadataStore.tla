-------------------------- MODULE MCMetadataStore --------------------------
(* MetadataStore for TLC.  Documents: this agent and a container; a second *)
(* host that registers together with its agent, while this host's agent    *)
(* address changes; an address listed on both hosts, with a container      *)
(* without address, two that share a network namespace, one of them the    *)
(* agent's, and a linked environment.                                      *)
EXTENDS MetadataStore, TLC

CONSTANTS web, x, y, ax, ay, az, a, b, ct, n1, n2, overlay, own, other

C(ip, host, net) == [ip |-> ip, host |-> host, net |-> net, shared |-> FALSE]
Me   == C(a, x, n1)
Peer == C(b, y, n1)
Far  == C(b, y, n2)

At(me, there) == [h \in Host |-> IF h = x THEN me ELSE there]

D(hosts, containers, links, members, far) ==
  [self |-> Me, hosts |-> hosts,
   containers |-> containers,
   links |-> [s \in Service |-> IF s = other THEN links ELSE {}],
   members |-> [s \in Service |-> IF s = own THEN members ELSE far],
   nets |-> [n \in Net |-> IF n = n1 \/ far # {} THEN overlay ELSE NoName]]

MCDoc == {D(At(ax, NoAgent), <<Me, C(ct, x, n1)>>, {}, {Me}, {}),
          D(At(az, ay), <<Me, Peer, C(ct, x, n1)>>, {}, {Me, Peer}, {}),
          D(At(ax, ay), <<C(ct, x, n1), [Me EXCEPT !.shared = TRUE], Me, C(ct, y, n1), C(NoIp, y, n1),
                          [Far EXCEPT !.shared = TRUE], Far>>,
            {own}, {Me, C(NoIp, y, n1)}, {Far})}
=============================================================================
