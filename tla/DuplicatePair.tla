---------------------------- MODULE DuplicatePair ----------------------------
(***************************************************************************)
(* Two hosts with redundant SAs between them, both running the duplicate   *)
(* reaper of backend/ipsec/ipsec.go (reapDuplicateSAs) on what their own   *)
(* charon lists.  Byte counters are local: the sender counts a packet when *)
(* it leaves, the receiver when it arrives.  Terminating an SA removes it  *)
(* here and sends a delete to the peer, which removes it there.            *)
(***************************************************************************)
EXTENDS IkeSa

CONSTANTS
  x, y,       \* the two hosts
  Tunnel,     \* SAs established between them (same ids at both ends)
  Reaper,     \* hosts whose health monitor runs
  MaxPacket   \* bound on packets sent

Node == {x, y}
Other(n) == IF n = x THEN y ELSE x

VARIABLES
  alive,     \* the tunnels each host's charon lists
  carried,   \* the tunnels whose byte counters are not zero at each host
  settled,   \* has the quiet period passed?
  data,      \* packets under way: <<sender, tunnel>>
  deletes,   \* IKE deletes under way: <<sender, tunnel>>
  ids,       \* ids each monitor has picked and not terminated yet
  packets

vars == <<alive, carried, settled, data, deletes, ids, packets>>

(* One host's list-sas answer.                                             *)
ListSas(n) ==
  {[id |-> t, name |-> Other(n), remote |-> Other(n), local |-> n, lid |-> n, rid |-> Other(n),
    state |-> "ESTABLISHED", settled |-> settled, busy |-> FALSE,
    children |-> {[host |-> Other(n), installed |-> TRUE, reqid |-> TRUE, traffic |-> t \in carried[n]]}]
   : t \in alive[n]}

Init ==
  /\ alive = [n \in Node |-> Tunnel] /\ carried = [n \in Node |-> {}] /\ settled = FALSE
  /\ data = {} /\ deletes = {} /\ ids = [n \in Node |-> {}] /\ packets = MaxPacket

Settle ==
  /\ ~settled /\ settled' = TRUE
  /\ UNCHANGED <<alive, carried, data, deletes, ids, packets>>

(* The kernel of each host chooses among its SAs for outbound traffic.     *)
Send(n, t) ==
  /\ packets > 0 /\ t \in alive[n]
  /\ packets' = packets - 1 /\ data' = data \cup {<<n, t>>}
  /\ carried' = [carried EXCEPT ![n] = @ \cup {t}]
  /\ UNCHANGED <<alive, settled, deletes, ids>>

Receive(n, t) ==
  /\ <<Other(n), t>> \in data /\ data' = data \ {<<Other(n), t>>}
  /\ carried' = [carried EXCEPT ![n] = @ \cup ({t} \cap alive[n])]
  /\ UNCHANGED <<alive, settled, deletes, ids, packets>>

LosePacket ==
  /\ \E p \in data : data' = data \ {p}
  /\ UNCHANGED <<alive, carried, settled, deletes, ids, packets>>

(* reapDuplicateSAs: list, then terminate what was picked.                 *)
PickDuplicates(n) ==
  /\ n \in Reaper /\ ids[n] = {}
  /\ ids' = [ids EXCEPT ![n] = DuplicateIds(ListSas(n), {Other(n)})]
  /\ UNCHANGED <<alive, carried, settled, data, deletes, packets>>

TerminateIkeId(n, t) ==
  /\ t \in ids[n] /\ ids' = [ids EXCEPT ![n] = @ \ {t}]
  /\ alive' = [alive EXCEPT ![n] = @ \ {t}]
  /\ deletes' = IF t \in alive[n] THEN deletes \cup {<<n, t>>} ELSE deletes
  /\ UNCHANGED <<carried, settled, data, packets>>

DeleteArrives(n, t) ==
  /\ <<Other(n), t>> \in deletes /\ deletes' = deletes \ {<<Other(n), t>>}
  /\ alive' = [alive EXCEPT ![n] = @ \ {t}]
  /\ UNCHANGED <<carried, settled, data, ids, packets>>

Next ==
  \/ Settle \/ LosePacket
  \/ \E n \in Node : PickDuplicates(n)
  \/ \E n \in Node, t \in Tunnel :
       Send(n, t) \/ Receive(n, t) \/ TerminateIkeId(n, t) \/ DeleteArrives(n, t)

Spec == Init /\ [][Next]_vars

-----------------------------------------------------------------------------
(* The reapers never terminate the last tunnel of a pair of hosts: one is  *)
(* still up at both ends.  "Reap only unambiguous redundant associations"  *)
(* and "leave all ambiguous groups alone rather than risking the live data *)
(* path" (ipsec.go:510-513, 571-573).                                      *)
PairKeepsOne == alive[x] \cap alive[y] # {}
=============================================================================
