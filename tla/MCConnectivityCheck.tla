------------------------ MODULE MCConnectivityCheck ------------------------
(* ConnectivityCheck for TLC: one container that leaves and comes back,    *)
(* moves to another address, or is not to be checked.                      *)
EXTENDS ConnectivityCheck

CONSTANTS u1, h1, i1, i2

D(ps, checks) == [hosts |-> Host, peers |-> ps, enabled |-> TRUE, checks |-> checks, active |-> TRUE]
At(i) == {[uuid |-> u1, host |-> h1, ip |-> i, running |-> TRUE]}

MCDoc == {D(At(i1), Host), D(At(i2), Host), D({}, Host), D(At(i1), {})}
=============================================================================
