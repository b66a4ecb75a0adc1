----------------------------- MODULE IpsecHealth -----------------------------
(***************************************************************************)
(* The health monitor and the initiating goroutines of                     *)
(* backend/ipsec/ipsec.go: scheduleInitiatesLocked, initiateHostWithRetry, *)
(* monitorIpsecHealth, reconcileIpsecHealth and reapDuplicateSAs, beside a *)
(* charon whose SAs come and go by themselves and by the peers' doing.     *)
(*                                                                         *)
(* Every list-sas answer is a snapshot that may be out of date when it is  *)
(* used.  o.initiating is only touched under the overlay's mutex; nothing  *)
(* else here is.                                                           *)
(***************************************************************************)
EXTENDS IkeSa

CONSTANTS
  Host,       \* remote hosts
  Local,      \* this host's address
  SaId,       \* charon's unique ids, enough for every SA alive at once
  NoHost,
  Attempts,   \* ipsecInitiateAttempts
  MaxChurn,   \* bound on what charon, the peers and the metadata do unasked
  MaxFault    \* bound on requests to charon that fail

ASSUME HealthAssumption ==
  /\ NoHost \notin Host /\ Local \notin Host /\ NoId \notin Host \cup {Local}
  /\ SaId \subseteq Nat /\ Attempts \in Nat \ {0} /\ MaxChurn \in Nat /\ MaxFault \in Nat

VARIABLES
  expected,    \* remote hosts with an entry in the store
  reach,       \* peers that answer
  sas,         \* charon's SAs
  initiating,  \* Overlay.initiating
  jobs,        \* initiating goroutines
  tick, seen, missing, ids,   \* the monitor: position, its expectedHosts and missingHosts, ids left to terminate
  snapSas,     \* the list the duplicates were picked from
  churn, faults

vars == <<expected, reach, sas, initiating, jobs, tick, seen, missing, ids, snapSas, churn, faults>>
monitorVars == <<tick, seen, missing, ids, snapSas>>

Child == [host: Host, installed: BOOLEAN, reqid: BOOLEAN, traffic: BOOLEAN]
Sa == [id: SaId, name: Host \cup {NoHost}, remote: Host, local: {Local}, lid: {Local}, rid: Host, state: IkeState,
       settled: BOOLEAN, busy: BOOLEAN, children: SUBSET Child]
Job == [at: Host \cup {NoHost}, left: SUBSET Host, step: {"next", "check", "initiate", "done"},
        tries: 0..Attempts]

Targets(j) == j.left \cup (IF j.at = NoHost THEN {} ELSE {j.at})

Fault   == faults > 0 /\ faults' = faults - 1
NoFault == UNCHANGED faults
Churn   == churn > 0 /\ churn' = churn - 1

FreshSa(h, i) ==
  [id |-> i, name |-> h, remote |-> h, local |-> Local, lid |-> Local, rid |-> h,
   state |-> "ESTABLISHED", settled |-> FALSE, busy |-> FALSE,
   children |-> {[host |-> h, installed |-> TRUE, reqid |-> TRUE, traffic |-> FALSE]}]

(* charon numbers its SAs upwards and never reuses an id; the model takes  *)
(* the smallest id that nobody, the monitor included, still remembers.     *)
FreeIds == {i \in SaId : (\A s \in sas \cup snapSas : s.id # i) /\ i \notin ids}
NewId(i) == i \in FreeIds /\ \A k \in FreeIds : i <= k

Init ==
  /\ expected \in SUBSET Host /\ reach = Host
  /\ sas = {} /\ initiating = {} /\ jobs = {}
  /\ tick = "wait" /\ seen = {} /\ missing = {} /\ ids = {} /\ snapSas = {}
  /\ churn = MaxChurn /\ faults = MaxFault

-----------------------------------------------------------------------------
(* Mutant: hosts that are being initiated are scheduled again.             *)
ScheduleAll(H) ==
  /\ initiating' = initiating \cup H
  /\ jobs' = IF H = {} THEN jobs
             ELSE jobs \cup {[at |-> NoHost, left |-> H, step |-> "next", tries |-> 0]}

(* scheduleInitiatesLocked: a goroutine for the hosts nobody is initiating. *)
ScheduleInitiates(H) ==
  LET targets == H \ initiating IN
  /\ initiating' = initiating \cup targets
  /\ jobs' = IF targets = {} THEN jobs
             ELSE jobs \cup {[at |-> NoHost, left |-> targets, step |-> "next", tries |-> 0]}

(* A successful configure schedules every host of its pass.                *)
ConfigureSchedules ==
  /\ Churn /\ ScheduleInitiates(expected)
  /\ UNCHANGED <<expected, reach, sas, monitorVars, faults>>

Advance(j, k) == jobs' = (jobs \ {j}) \cup {k}

(* The goroutine's loop over its targets.                                  *)
JobNext(j) ==
  /\ j.step = "next"
  /\ \E h \in j.left : Advance(j, [at |-> h, left |-> j.left \ {h}, step |-> "check", tries |-> 0])
  /\ UNCHANGED <<expected, reach, sas, initiating, monitorVars, churn, faults>>

(* childInstalled; a list that fails counts as "not installed".            *)
JobCheck(j) ==
  /\ j.step = "check"
  /\ \/ /\ NoFault
        /\ Advance(j, [j EXCEPT !.step = IF j.at \in InstalledChildren(sas) THEN "done" ELSE "initiate"])
     \/ Fault /\ Advance(j, [j EXCEPT !.step = "initiate"])
  /\ UNCHANGED <<expected, reach, sas, initiating, monitorVars, churn>>

(* Mutant: one attempt too many.                                           *)
JobInitiateOnceMore(j) ==
  /\ j.step = "initiate"
  /\ \/ /\ j.at \in reach /\ NoFault /\ Advance(j, [j EXCEPT !.step = "done"])
        /\ \E i \in SaId : NewId(i) /\ sas' = sas \cup {FreshSa(j.at, i)}
     \/ /\ IF j.at \in reach THEN Fault ELSE NoFault
        /\ Advance(j, [j EXCEPT !.tries = @ + 1, !.step = IF j.tries = Attempts THEN "done" ELSE "check"])
        /\ UNCHANGED sas
  /\ UNCHANGED <<expected, reach, initiating, monitorVars, churn>>

(* swanctl --initiate: it succeeds if the peer answers; after the last     *)
(* failed attempt the goroutine gives the host up.                         *)
JobInitiate(j) ==
  /\ j.step = "initiate"
  /\ \/ /\ j.at \in reach /\ NoFault /\ Advance(j, [j EXCEPT !.step = "done"])
        /\ \E i \in SaId : NewId(i) /\ sas' = sas \cup {FreshSa(j.at, i)}
     \/ /\ IF j.at \in reach THEN Fault ELSE NoFault
        /\ Advance(j, [j EXCEPT !.tries = @ + 1, !.step = IF j.tries + 1 = Attempts THEN "done" ELSE "check"])
        /\ UNCHANGED sas
  /\ UNCHANGED <<expected, reach, initiating, monitorVars, churn>>

(* Mutant: a host that was given up keeps its mark.                        *)
JobDoneKeepsMark(j) ==
  /\ j.step = "done"
  /\ initiating' = IF j.tries = Attempts THEN initiating ELSE initiating \ {j.at}
  /\ jobs' = (jobs \ {j}) \cup
             (IF j.left = {} THEN {} ELSE {[at |-> NoHost, left |-> j.left, step |-> "next", tries |-> 0]})
  /\ UNCHANGED <<expected, reach, sas, monitorVars, churn, faults>>

(* o.Lock(); delete(o.initiating, host); o.Unlock(); the goroutine ends    *)
(* after its last target.                                                  *)
JobDone(j) ==
  /\ j.step = "done"
  /\ initiating' = initiating \ {j.at}
  /\ jobs' = (jobs \ {j}) \cup
             (IF j.left = {} THEN {} ELSE {[at |-> NoHost, left |-> j.left, step |-> "next", tries |-> 0]})
  /\ UNCHANGED <<expected, reach, sas, monitorVars, churn, faults>>

-----------------------------------------------------------------------------
(* A tick of monitorIpsecHealth: the expected hosts ...                    *)
TickStart ==
  /\ tick = "wait" /\ seen' = expected
  /\ tick' = IF expected = {} THEN "wait" ELSE "list"
  /\ UNCHANGED <<expected, reach, sas, initiating, jobs, missing, ids, snapSas, churn, faults>>

(* ... the installed children; a failed list ends the tick ...             *)
TickList ==
  /\ tick = "list"
  /\ \/ NoFault /\ missing' = seen \ InstalledChildren(sas) /\ tick' = "schedule" /\ UNCHANGED seen
     \/ Fault /\ tick' = "wait" /\ missing' = {} /\ seen' = {}
  /\ UNCHANGED <<expected, reach, sas, initiating, jobs, ids, snapSas, churn>>

(* ... a goroutine for the missing ones ...                                *)
TickSchedule ==
  /\ tick = "schedule" /\ tick' = "reap"
  /\ ScheduleInitiates(missing) /\ missing' = {}
  /\ UNCHANGED <<expected, reach, sas, seen, ids, snapSas, churn, faults>>

(* ... a second list, from which reapDuplicateSAs picks the duplicates ... *)
TickReap ==
  /\ tick = "reap"
  /\ \/ /\ NoFault /\ tick' = "terminate" /\ UNCHANGED seen
        /\ snapSas' = sas /\ ids' = DuplicateIds(sas, seen)
     \/ Fault /\ tick' = "wait" /\ seen' = {} /\ UNCHANGED <<snapSas, ids>>
  /\ UNCHANGED <<expected, reach, sas, initiating, jobs, missing, churn>>

(* ... and their termination, one by one.  An id that is gone ("matches"   *)
(* is 0) is no error; an error leaves the rest for the next tick.          *)
TickTerminate ==
  /\ tick = "terminate"
  /\ \/ /\ ids # {} /\ NoFault
        /\ \E i \in ids : sas' = {s \in sas : s.id # i} /\ ids' = ids \ {i}
        /\ UNCHANGED <<tick, seen, snapSas>>
     \/ /\ ids # {} /\ Fault
        /\ ids' = {} /\ snapSas' = {} /\ seen' = {} /\ tick' = "wait" /\ UNCHANGED sas
     \/ /\ ids = {} /\ NoFault
        /\ snapSas' = {} /\ seen' = {} /\ tick' = "wait" /\ UNCHANGED <<sas, ids>>
  /\ UNCHANGED <<expected, reach, initiating, jobs, missing, churn>>

-----------------------------------------------------------------------------
(* Charon, the peers and the metadata on their own.                        *)
Quiet == UNCHANGED <<initiating, jobs, monitorVars, faults>>

(* The peer opens an SA: charon matches it to conn-h or, NoHost, to a      *)
(* connection that is not the overlay's.                                   *)
PeerInitiates(h) ==
  /\ Churn /\ h \in reach
  /\ \E i \in SaId : \E n \in {h, NoHost} :
       NewId(i) /\ sas' = sas \cup {[FreshSa(h, i) EXCEPT !.name = n]}
  /\ Quiet /\ UNCHANGED <<expected, reach>>

(* Traffic, tasks, deletion and the loss of its children change one SA.    *)
Changed(s) ==
  {[s EXCEPT !.children = {[c EXCEPT !.traffic = TRUE] : c \in s.children}],
   [s EXCEPT !.busy = ~s.busy], [s EXCEPT !.state = "DELETING"], [s EXCEPT !.children = {}]}

SaChanges ==
  /\ Churn
  /\ \E s \in sas : s.state # "DELETING" /\ \E t \in Changed(s) \ {s} : sas' = (sas \ {s}) \cup {t}
  /\ Quiet /\ UNCHANGED <<expected, reach>>

(* The quiet period passes without a new SA.                               *)
SasSettle ==
  /\ Churn /\ sas # {} /\ sas' = {[s EXCEPT !.settled = TRUE] : s \in sas}
  /\ Quiet /\ UNCHANGED <<expected, reach>>

SaLost ==
  /\ Churn /\ \E s \in sas : sas' = sas \ {s}
  /\ Quiet /\ UNCHANGED <<expected, reach>>

(* charon gives a deletion up after its retransmissions.                   *)
SaDeleted(s) ==
  /\ s.state = "DELETING" /\ sas' = sas \ {s}
  /\ Quiet /\ UNCHANGED <<expected, reach, churn>>

PeerReach ==
  /\ Churn /\ \E R \in SUBSET Host : R # reach /\ reach' = R
  /\ Quiet /\ UNCHANGED <<expected, sas>>

ExpectedChanges ==
  /\ Churn /\ \E E \in SUBSET Host : E # expected /\ expected' = E
  /\ Quiet /\ UNCHANGED <<reach, sas>>

JobStep == \E j \in jobs : JobNext(j) \/ JobCheck(j) \/ JobInitiate(j) \/ JobDone(j)
TickStep == TickStart \/ TickList \/ TickSchedule \/ TickReap \/ TickTerminate

Next ==
  \/ JobStep \/ TickStep \/ ConfigureSchedules
  \/ \E h \in Host : PeerInitiates(h)
  \/ \E s \in sas : SaDeleted(s)
  \/ SaChanges \/ SasSettle \/ SaLost \/ PeerReach \/ ExpectedChanges

Spec == Init /\ [][Next]_vars

(* The ticker fires, the goroutines run and charon ends its deletions.     *)
Fairness ==
  /\ WF_vars(TickStep)
  /\ \A h \in Host : WF_vars(\E j \in jobs : h \in Targets(j) /\
                               (JobNext(j) \/ JobCheck(j) \/ JobInitiate(j) \/ JobDone(j)))
  /\ \A i \in SaId : WF_vars(\E s \in sas : s.id = i /\ SaDeleted(s))

FairSpec == Spec /\ Fairness

-----------------------------------------------------------------------------
(* Type invariant of the monitor, its goroutines and charon's SAs.         *)
TypeOK ==
  /\ expected \in SUBSET Host /\ reach \in SUBSET Host
  /\ sas \subseteq Sa /\ snapSas \subseteq Sa
  /\ initiating \in SUBSET Host /\ jobs \subseteq Job
  /\ tick \in {"wait", "list", "schedule", "reap", "terminate"}
  /\ seen \in SUBSET Host /\ missing \in SUBSET Host /\ ids \in SUBSET SaId
  /\ churn \in 0..MaxChurn /\ faults \in 0..MaxFault

(* At most one goroutine initiates a peer, whoever scheduled it, and the   *)
(* marks in o.initiating are exactly the hosts of live goroutines: none is *)
(* left behind to block a peer's recovery for ever, none is removed while  *)
(* a goroutine still works on its host.  ipsec.go:434-464, 613-639.        *)
OneInitiator ==
  /\ initiating = UNION {Targets(j) : j \in jobs}
  /\ \A j, k \in jobs : j # k => Targets(j) \cap Targets(k) = {}

(* The duplicates picked from a list never include every established SA    *)
(* with an installed child of a peer in that list, and are SAs of the      *)
(* overlay's own connections only.  Comments at ipsec.go:510-513, 571-573. *)
ReaperSparesThePeer ==
  \A i \in ids : \E s \in snapSas : s.id = i /\ OursFor(s, seen) /\
     \E t \in snapSas : /\ t.id \notin DuplicateIds(snapSas, seen)
                        /\ t.remote = s.remote /\ t.name = t.remote
                        /\ t.state = "ESTABLISHED" /\ HasInstalled(t)

(* A reachable expected peer without an installed child gets one: the      *)
(* health check keeps scheduling attempts (comment at ipsec.go:633-637).   *)
PeerRecovers ==
  \A h \in Host : (h \in expected /\ h \notin InstalledChildren(sas)) ~>
                    (h \in InstalledChildren(sas) \/ h \notin expected \/ h \notin reach)
=============================================================================
