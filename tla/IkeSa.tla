-------------------------------- MODULE IkeSa --------------------------------
(***************************************************************************)
(* What the IPsec overlay reads off charon's list of IKE SAs: which peers  *)
(* have an installed child and which SAs are redundant.  Pure operators    *)
(* over one list-sas answer.                                               *)
(*                                                                         *)
(* An SA is a record: id (charon's unique id), name (the peer whose        *)
(* connection "conn-<peer>" it belongs to, or a foreign name), remote and  *)
(* local addresses, lid and rid (identities), state, settled (established  *)
(* for the quiet period, four health cycles), busy (tasks active or        *)
(* queued) and its children.  A child has the peer its name encodes        *)
(* (childHostIP: "child-<peer>" or "child-<peer>-<n>"), whether it is      *)
(* INSTALLED, whether it has the overlay's reqid and whether it has        *)
(* carried any byte.                                                       *)
(***************************************************************************)
EXTENDS Naturals, FiniteSets

CONSTANTS NoId   \* an identity charon has not reported yet

IkeState == {"CONNECTING", "ESTABLISHED", "REKEYING", "DELETING"}

(* installedChildren: peers with an installed child, whatever SA it is on. *)
InstalledChildren(sas) ==
  {c.host : c \in {d \in UNION {s.children : s \in sas} : d.installed}}

(* An SA of the overlay's own connection to an expected peer.              *)
OursFor(s, expected) == s.remote \in expected /\ s.name = s.remote

HasInstalled(s) == \E c \in s.children : c.installed /\ c.host = s.remote

(* Mutant: an established SA is enough, with or without a child.           *)
HealthyWithoutChild(sas, expected) ==
  {s.remote : s \in {t \in sas : OursFor(t, expected) /\ t.state = "ESTABLISHED"}}

(* deletingDuplicateIKEIDs: an SA being deleted, of a peer that also has   *)
(* an established one with an installed child.                             *)
HealthyPeers(sas, expected) ==
  {s.remote : s \in {t \in sas : OursFor(t, expected) /\ t.state = "ESTABLISHED" /\ HasInstalled(t)}}

DeletingDuplicates(sas, expected) ==
  {s.id : s \in {t \in sas : /\ t.remote \in HealthyPeers(sas, expected)
                             /\ t.name = t.remote /\ t.state = "DELETING"}}

(* idleDuplicateIKEIDs: candidates, the children that count, their bytes.  *)
CountedChildren(s) == {c \in s.children : c.installed /\ c.host = s.remote /\ c.reqid}

IdleCandidates(sas, expected) ==
  {s \in sas : /\ OursFor(s, expected) /\ s.state = "ESTABLISHED"
               /\ ~s.busy /\ s.lid # NoId /\ s.rid # NoId /\ s.settled
               /\ CountedChildren(s) # {}}

Carried(s) == \E c \in CountedChildren(s) : c.traffic

SamePair(s, t) == s.remote = t.remote /\ s.lid = t.lid /\ s.rid = t.rid

(* Exactly two candidates with one pair of identities, one used, one not.  *)
IdleDuplicates(sas, expected) ==
  LET cand == IdleCandidates(sas, expected) IN
  {s.id : s \in {t \in cand : /\ ~Carried(t)
                              /\ \E u \in cand : /\ u # t /\ SamePair(t, u) /\ Carried(u)
                                                 /\ \A v \in cand : SamePair(t, v) => v \in {t, u}}}

(* The ids reapDuplicateSAs terminates.                                    *)
DuplicateIds(sas, expected) == DeletingDuplicates(sas, expected) \cup IdleDuplicates(sas, expected)
=============================================================================
