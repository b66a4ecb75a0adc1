-------------------------- MODULE IpsecHealthProofs --------------------------
(***************************************************************************)
(* OneInitiator, the types and ReaperSparesThePeer of IpsecHealth for any  *)
(* number of peers, SAs, attempts and goroutines.                          *)
(*                                                                         *)
(* OneInitiator is not inductive alone: a goroutine that takes its next    *)
(* target must not hold one, the target it works on must not also be among *)
(* those it has left, and a goroutine that will try again must have tries  *)
(* to spare (JobShape).                                                    *)
(***************************************************************************)
EXTENDS IpsecHealth, TLAPS

ShapeOf(j) ==
  /\ j \in Job
  /\ j.step = "next" <=> j.at = NoHost
  /\ j.at \notin j.left
  /\ j.step \in {"check", "initiate"} => j.tries < Attempts

JobShape == \A j \in jobs : ShapeOf(j)

(* The hosts the two schedulers pass on are hosts.                         *)
HostSets == expected \subseteq Host /\ seen \subseteq Host /\ missing \subseteq Host

JobInv == HostSets /\ JobShape /\ OneInitiator

(* Replacing a goroutine by its next state keeps the partition when it     *)
(* keeps the goroutine's targets.                                          *)
LEMMA AdvanceKeeps ==
  ASSUME JobInv, NEW j \in jobs, NEW k, Advance(j, k), Targets(k) = Targets(j), ShapeOf(k),
         UNCHANGED initiating
  PROVE  JobShape' /\ OneInitiator'
<1>1. jobs' = (jobs \ {j}) \cup {k}
  BY DEF Advance
<1>2. JobShape'
  BY <1>1 DEF JobInv, JobShape
<1>3. \A m, n \in jobs' : m # n => Targets(m) \cap Targets(n) = {}
  BY <1>1 DEF JobInv, OneInitiator
<1>4. UNION {Targets(m) : m \in jobs'} = UNION {Targets(m) : m \in jobs}
  BY <1>1
<1> QED BY <1>2, <1>3, <1>4 DEF JobInv, OneInitiator

(* Scheduling hosts nobody is initiating adds one more part.               *)
LEMMA ScheduleKeeps ==
  ASSUME JobInv, NEW H \in SUBSET Host, ScheduleInitiates(H)
  PROVE  JobShape' /\ OneInitiator'
<1> DEFINE T == H \ initiating
           n == [at |-> NoHost, left |-> T, step |-> "next", tries |-> 0]
<1>1. CASE T = {}
  BY <1>1 DEF ScheduleInitiates, JobInv, JobShape, OneInitiator
<1>2. CASE T # {}
  <2>1. jobs' = jobs \cup {n} /\ initiating' = initiating \cup T
    BY <1>2 DEF ScheduleInitiates
  <2>2. n \in Job
    BY HealthAssumption DEF Job
  <2>3. Targets(n) = T
    BY DEF Targets
  <2>4. JobShape'
    BY <2>1, <2>2, HealthAssumption DEF JobInv, JobShape, ShapeOf
  <2>5. \A j \in jobs : Targets(j) \cap T = {}
    BY DEF JobInv, OneInitiator
  <2>6. \A j, k \in jobs' : j # k => Targets(j) \cap Targets(k) = {}
    BY <2>1, <2>3, <2>5 DEF JobInv, OneInitiator
  <2>7. UNION {Targets(j) : j \in jobs'} = (UNION {Targets(j) : j \in jobs}) \cup T
    <3> HIDE DEF n, T
    <3> QED BY <2>1, <2>3
  <2> QED BY <2>1, <2>4, <2>6, <2>7 DEF JobInv, OneInitiator
<1> QED BY <1>1, <1>2

(* A goroutine that is done with a host gives up exactly that host.        *)
LEMMA DoneKeeps ==
  ASSUME JobInv, NEW j \in jobs, JobDone(j)
  PROVE  JobShape' /\ OneInitiator'
<1> DEFINE n == [at |-> NoHost, left |-> j.left, step |-> "next", tries |-> 0]
<1>1. j \in Job /\ j.at # NoHost /\ j.at \notin j.left
  BY DEF JobInv, JobShape, ShapeOf, JobDone
<1>2. Targets(j) = j.left \cup {j.at}
  BY <1>1 DEF Targets
<1>3. n \in Job /\ Targets(n) = j.left
  BY <1>1, HealthAssumption DEF Job, Targets
<1>4. jobs' = (jobs \ {j}) \cup (IF j.left = {} THEN {} ELSE {n}) /\ initiating' = initiating \ {j.at}
  BY DEF JobDone
<1>5. JobShape'
  BY <1>1, <1>3, <1>4, HealthAssumption DEF JobInv, JobShape, ShapeOf, Job
<1>6. \A k \in jobs \ {j} : Targets(k) \cap (j.left \cup {j.at}) = {}
  BY <1>2 DEF JobInv, OneInitiator
<1>7. \A k, m \in jobs' : k # m => Targets(k) \cap Targets(m) = {}
  BY <1>3, <1>4, <1>6 DEF JobInv, OneInitiator
<1>8. initiating = (UNION {Targets(k) : k \in jobs \ {j}}) \cup j.left \cup {j.at}
  BY <1>2 DEF JobInv, OneInitiator
<1>9. UNION {Targets(k) : k \in jobs'} = (UNION {Targets(k) : k \in jobs \ {j}}) \cup j.left
  BY <1>3, <1>4
<1>10. initiating' = UNION {Targets(k) : k \in jobs'}
  BY <1>1, <1>4, <1>6, <1>8, <1>9
<1> QED BY <1>5, <1>7, <1>10 DEF OneInitiator

(* Every step of the goroutines, the monitor and the environment preserves *)
(* the inductive invariant.                                                *)
LEMMA JobInvInductive == JobInv /\ [Next]_vars => JobInv'
<1> SUFFICES ASSUME JobInv, [Next]_vars PROVE JobInv'
  OBVIOUS
<1>1. HostSets'
  BY DEF JobInv, HostSets, Next, vars, JobStep, TickStep, JobNext, JobCheck, JobInitiate, JobDone,
         TickStart, TickList, TickSchedule, TickReap, TickTerminate, ConfigureSchedules,
         PeerInitiates, SaDeleted, SaChanges, SasSettle, SaLost, PeerReach, ExpectedChanges, Quiet,
         monitorVars
<1>2. ASSUME NEW j \in jobs, JobNext(j) PROVE JobShape' /\ OneInitiator'
  <2>1. PICK h \in j.left : Advance(j, [at |-> h, left |-> j.left \ {h}, step |-> "check", tries |-> 0])
    BY <1>2 DEF JobNext
  <2>2. j \in Job /\ j.at = NoHost /\ h \in Host /\ h # NoHost
    BY <1>2, HealthAssumption DEF JobNext, JobInv, JobShape, ShapeOf, Job
  <2> DEFINE k == [at |-> h, left |-> j.left \ {h}, step |-> "check", tries |-> 0]
  <2>3. ShapeOf(k)
    BY <2>2, HealthAssumption DEF Job, ShapeOf
  <2>4. Targets(k) = Targets(j)
    BY <2>1, <2>2 DEF Targets
  <2> QED BY <1>2, <2>1, <2>3, <2>4, AdvanceKeeps DEF JobNext
<1>3. ASSUME NEW j \in jobs, JobCheck(j) PROVE JobShape' /\ OneInitiator'
  <2>1. PICK s \in {"done", "initiate"} : Advance(j, [j EXCEPT !.step = s])
    BY <1>3 DEF JobCheck
  <2>2. j \in Job /\ j.at # NoHost /\ j.at \notin j.left /\ j.tries < Attempts
    BY <1>3 DEF JobCheck, JobInv, JobShape, ShapeOf
  <2>3. ShapeOf([j EXCEPT !.step = s]) /\ Targets([j EXCEPT !.step = s]) = Targets(j)
    BY <2>2 DEF Job, Targets, ShapeOf
  <2> QED BY <1>3, <2>1, <2>3, AdvanceKeeps DEF JobCheck
<1>4. ASSUME NEW j \in jobs, JobInitiate(j) PROVE JobShape' /\ OneInitiator'
  <2>1. j \in Job /\ j.at # NoHost /\ j.at \notin j.left /\ j.tries < Attempts
    BY <1>4 DEF JobInitiate, JobInv, JobShape, ShapeOf
  <2>2. CASE Advance(j, [j EXCEPT !.step = "done"])
    <3>1. ShapeOf([j EXCEPT !.step = "done"]) /\ Targets([j EXCEPT !.step = "done"]) = Targets(j)
      BY <2>1 DEF Job, Targets, ShapeOf
    <3> QED BY <1>4, <2>2, <3>1, AdvanceKeeps DEF JobInitiate
  <2>3. CASE Advance(j, [j EXCEPT !.tries = @ + 1,
                                  !.step = IF j.tries + 1 = Attempts THEN "done" ELSE "check"])
    <3> DEFINE k == [j EXCEPT !.tries = @ + 1,
                              !.step = IF j.tries + 1 = Attempts THEN "done" ELSE "check"]
    <3>1. j.tries + 1 \in 0..Attempts /\ (j.tries + 1 # Attempts => j.tries + 1 < Attempts)
      BY <2>1, HealthAssumption DEF Job
    <3>2. ShapeOf(k)
      BY <2>1, <3>1 DEF Job, ShapeOf
    <3>3. Targets(k) = Targets(j)
      BY <2>1 DEF Job, Targets
    <3> QED BY <1>4, <2>3, <3>2, <3>3, AdvanceKeeps DEF JobInitiate
  <2> QED BY <1>4, <2>2, <2>3 DEF JobInitiate
<1>5. ASSUME NEW j \in jobs, JobDone(j) PROVE JobShape' /\ OneInitiator'
  BY <1>5, DoneKeeps
<1>6. ASSUME NEW H \in SUBSET Host, ScheduleInitiates(H) PROVE JobShape' /\ OneInitiator'
  BY <1>6, ScheduleKeeps
<1>7. ASSUME UNCHANGED <<jobs, initiating>> PROVE JobShape' /\ OneInitiator'
  BY <1>7 DEF JobInv, JobShape, OneInitiator
<1>a. ConfigureSchedules \/ TickSchedule => \E H \in SUBSET Host : ScheduleInitiates(H)
  BY DEF ConfigureSchedules, TickSchedule, JobInv, HostSets
<1>8. JobShape' /\ OneInitiator'
  BY <1>2, <1>3, <1>4, <1>5, <1>6, <1>7, <1>a
  DEF Next, vars, JobStep, TickStep, TickStart, TickList, TickReap, TickTerminate, PeerInitiates,
      SaDeleted, SaChanges, SasSettle, SaLost, PeerReach, ExpectedChanges, Quiet
<1> QED BY <1>1, <1>8 DEF JobInv

(* At most one goroutine initiates a peer and o.initiating holds exactly   *)
(* the hosts of live goroutines, whatever the monitor, configure, charon   *)
(* and the peers do.  scheduleInitiatesLocked, initiateHostWithRetry.      *)
THEOREM OneInitiatorHolds == Spec => []OneInitiator
<1>1. Init => JobInv
  BY DEF Init, JobInv, HostSets, JobShape, OneInitiator
<1>2. JobInv => OneInitiator
  BY DEF JobInv
<1> QED BY <1>1, <1>2, JobInvInductive, PTL DEF Spec

-----------------------------------------------------------------------------
(***************************************************************************)
(* Type correctness.                                                       *)
(***************************************************************************)

(* What charon's own doings make of an SA is an SA with the same id.       *)
LEMMA SaTypes ==
  ASSUME NEW h \in Host, NEW i \in SaId
  PROVE  /\ FreshSa(h, i) \in Sa /\ FreshSa(h, i).id = i
         /\ \A n \in {h, NoHost} : [FreshSa(h, i) EXCEPT !.name = n] \in Sa
                                   /\ [FreshSa(h, i) EXCEPT !.name = n].id = i
<1>1. [host |-> h, installed |-> TRUE, reqid |-> TRUE, traffic |-> FALSE] \in Child
  BY DEF Child
<1> QED BY <1>1 DEF FreshSa, Sa, IkeState

(* Traffic, tasks, deletion and lost children keep an SA's id.             *)
LEMMA ChangedTypes ==
  ASSUME NEW s \in Sa, NEW t \in Changed(s)
  PROVE  t \in Sa /\ t.id = s.id
<1>1. {[c EXCEPT !.traffic = TRUE] : c \in s.children} \subseteq Child
  BY DEF Sa, Child
<1> QED BY <1>1 DEF Changed, Sa, IkeState

(* So does the end of the quiet period.                                    *)
LEMMA SettledTypes ==
  ASSUME NEW s \in Sa
  PROVE  [s EXCEPT !.settled = TRUE] \in Sa /\ [s EXCEPT !.settled = TRUE].id = s.id
  BY DEF Sa

(* The ids picked from a list are ids of SAs in it.                        *)
LEMMA DuplicateIdsListed ==
  ASSUME NEW S, NEW E
  PROVE  \A i \in DuplicateIds(S, E) : \E s \in S : s.id = i
  BY DEF DuplicateIds, DeletingDuplicates, IdleDuplicates, IdleCandidates

(* The SAs that charon may have after a step: old ones, old ones changed,  *)
(* and at most one new one with an id nobody has.                          *)
LEMMA SasStep ==
  ASSUME TypeOK, JobInv, [Next]_vars
  PROVE  \/ sas' \subseteq sas
         \/ \E i \in SaId, n \in Sa :
              NewId(i) /\ n.id = i /\ sas' = sas \cup {n}
         \/ \E s \in sas, t \in Sa : t.id = s.id /\ sas' = (sas \ {s}) \cup {t}
         \/ sas' = {[s EXCEPT !.settled = TRUE] : s \in sas}
<1>1. ASSUME NEW j \in jobs, JobInitiate(j)
      PROVE  \/ sas' = sas
             \/ \E i \in SaId, n \in Sa : NewId(i) /\ n.id = i /\ sas' = sas \cup {n}
  <2>1. j.at \in Host
    BY <1>1 DEF JobInitiate, JobInv, JobShape, ShapeOf, Job
  <2> QED BY <1>1, <2>1, SaTypes DEF JobInitiate
<1>2. ASSUME NEW h \in Host, PeerInitiates(h)
      PROVE  \E i \in SaId, n \in Sa : NewId(i) /\ n.id = i /\ sas' = sas \cup {n}
  BY <1>2, SaTypes DEF PeerInitiates
<1>3. ASSUME SaChanges PROVE \E s \in sas, t \in Sa : t.id = s.id /\ sas' = (sas \ {s}) \cup {t}
  BY <1>3, ChangedTypes DEF SaChanges, TypeOK
<1>4. ASSUME SaLost \/ TickTerminate \/ \E s \in sas : SaDeleted(s) PROVE sas' \subseteq sas
  BY <1>4 DEF SaLost, TickTerminate, SaDeleted
<1>5. ASSUME NEW j \in jobs, JobNext(j) \/ JobCheck(j) \/ JobDone(j) PROVE sas' = sas
  BY <1>5 DEF JobNext, JobCheck, JobDone
<1>6. ASSUME \/ TickStart \/ TickList \/ TickSchedule \/ TickReap \/ ConfigureSchedules \/ PeerReach
             \/ ExpectedChanges \/ UNCHANGED vars
      PROVE  sas' = sas
  BY <1>6 DEF TickStart, TickList, TickSchedule, TickReap, ConfigureSchedules, PeerReach,
              ExpectedChanges, vars
<1>7. ASSUME SasSettle PROVE sas' = {[s EXCEPT !.settled = TRUE] : s \in sas}
  BY <1>7 DEF SasSettle
<1> QED BY <1>1, <1>2, <1>3, <1>4, <1>5, <1>6, <1>7 DEF Next, JobStep, TickStep

(* Type correctness for every number of peers, SAs and attempts: no list,  *)
(* mark or budget leaves its range, and a goroutine never counts past its  *)
(* attempts.                                                               *)
LEMMA TypeInductive == JobInv /\ JobInv' /\ TypeOK /\ [Next]_vars => TypeOK'
<1> SUFFICES ASSUME JobInv, JobInv', TypeOK, [Next]_vars PROVE TypeOK'
  OBVIOUS
<1>1. sas' \subseteq Sa
  BY SasStep, SettledTypes DEF TypeOK
<1>2. jobs' \subseteq Job /\ seen' \subseteq Host /\ missing' \subseteq Host /\ expected' \subseteq Host
  BY DEF JobInv, JobShape, ShapeOf, HostSets
<1>3. initiating' \subseteq Host
  <2>1. \A j \in jobs' : Targets(j) \subseteq Host
    BY DEF JobInv, JobShape, ShapeOf, Targets, Job
  <2> QED BY <2>1 DEF JobInv, OneInitiator
<1>4. ids' \subseteq SaId /\ snapSas' \subseteq Sa /\ tick' \in {"wait", "list", "schedule", "reap", "terminate"}
  <2>1. ASSUME TickReap PROVE ids' \subseteq SaId /\ snapSas' \subseteq Sa
    BY <2>1, DuplicateIdsListed DEF TickReap, TypeOK, Sa
  <2>2. ASSUME TickTerminate PROVE ids' \subseteq SaId /\ snapSas' \subseteq Sa
    BY <2>2 DEF TickTerminate, TypeOK
  <2>3. ASSUME ~TickReap, ~TickTerminate PROVE UNCHANGED <<ids, snapSas>>
    BY <2>3 DEF Next, vars, JobStep, TickStep, JobNext, JobCheck, JobInitiate, JobDone, TickStart,
                TickList, TickSchedule, ConfigureSchedules, PeerInitiates, SaDeleted, SaChanges,
                SasSettle, SaLost, PeerReach, ExpectedChanges, Quiet, monitorVars
  <2>4. tick' \in {"wait", "list", "schedule", "reap", "terminate"}
    BY DEF TypeOK, Next, vars, JobStep, TickStep, JobNext, JobCheck, JobInitiate, JobDone, TickStart,
           TickList, TickSchedule, TickReap, TickTerminate, ConfigureSchedules, PeerInitiates,
           SaDeleted, SaChanges, SasSettle, SaLost, PeerReach, ExpectedChanges, Quiet, monitorVars
  <2> QED BY <2>1, <2>2, <2>3, <2>4 DEF TypeOK
<1>5. reach' \subseteq Host
  BY DEF TypeOK, Next, vars, JobStep, TickStep, JobNext, JobCheck, JobInitiate, JobDone, TickStart,
         TickList, TickSchedule, TickReap, TickTerminate, ConfigureSchedules, PeerInitiates,
         SaDeleted, SaChanges, SasSettle, SaLost, PeerReach, ExpectedChanges, Quiet
<1>6. churn' \in 0..MaxChurn
  <2>1. churn' = churn \/ Churn
    BY DEF Next, vars, JobStep, TickStep, JobNext, JobCheck, JobInitiate, JobDone, TickStart,
           TickList, TickSchedule, TickReap, TickTerminate, ConfigureSchedules, PeerInitiates,
           SaDeleted, SaChanges, SasSettle, SaLost, PeerReach, ExpectedChanges
  <2> QED BY <2>1, HealthAssumption DEF TypeOK, Churn
<1>7. faults' \in 0..MaxFault
  <2>1. faults' = faults \/ Fault
    BY DEF Next, vars, JobStep, TickStep, JobNext, JobCheck, JobInitiate, JobDone, TickStart,
           TickList, TickSchedule, TickReap, TickTerminate, ConfigureSchedules, PeerInitiates,
           SaDeleted, SaChanges, SasSettle, SaLost, PeerReach, ExpectedChanges, Quiet, NoFault
  <2> QED BY <2>1, HealthAssumption DEF TypeOK, Fault
<1> QED BY <1>1, <1>2, <1>3, <1>4, <1>5, <1>6, <1>7 DEF TypeOK

(* The types of the monitor, its goroutines and charon's SAs, for any      *)
(* number of each.  ipsec.go:434-464, 510-639.                             *)
THEOREM HealthTypeCorrect == Spec => []TypeOK
<1>1. Init => JobInv
  BY DEF Init, JobInv, HostSets, JobShape, OneInitiator
<1>2. Init => TypeOK
  BY HealthAssumption DEF Init, TypeOK
<1> QED BY <1>1, <1>2, JobInvInductive, TypeInductive, PTL DEF Spec

-----------------------------------------------------------------------------
(***************************************************************************)
(* ReaperSparesThePeer.  It is a fact about one list (DuplicatesSpare) and *)
(* about the monitor, which works off ids picked from a list it keeps; the *)
(* fact needs charon's ids to be unique.                                   *)
(***************************************************************************)
UniqueIds(S) == \A s, t \in S : s.id = t.id => s = t

(* An SA that answers for the peer of s and is not picked.                 *)
Spared(s, S, E) ==
  \E t \in S : /\ t.id \notin DuplicateIds(S, E)
               /\ t.remote = s.remote /\ t.name = t.remote
               /\ t.state = "ESTABLISHED" /\ HasInstalled(t)

(* The used one of a pair of candidates is never picked.                   *)
LEMMA UsedIsSpared ==
  ASSUME NEW S, NEW E, UniqueIds(S), NEW u \in IdleCandidates(S, E), Carried(u)
  PROVE  /\ u \in S /\ u.id \notin DuplicateIds(S, E) /\ u.name = u.remote
         /\ u.state = "ESTABLISHED" /\ HasInstalled(u)
<1>1. u \in S /\ u.name = u.remote /\ u.state = "ESTABLISHED"
  BY DEF IdleCandidates, OursFor
<1>2. HasInstalled(u)
  BY DEF Carried, CountedChildren, HasInstalled
<1>3. u.id \notin DeletingDuplicates(S, E)
  BY <1>1 DEF DeletingDuplicates, UniqueIds
<1>4. u.id \notin IdleDuplicates(S, E)
  BY <1>1 DEF IdleDuplicates, IdleCandidates, UniqueIds
<1> QED BY <1>1, <1>2, <1>3, <1>4 DEF DuplicateIds

(* A healthy SA that is itself picked is an idle one: its partner is       *)
(* spared.                                                                 *)
LEMMA HealthyIsSpared ==
  ASSUME NEW S, NEW E, UniqueIds(S), NEW t \in S, OursFor(t, E), t.state = "ESTABLISHED", HasInstalled(t)
  PROVE  Spared(t, S, E)
<1>1. CASE t.id \notin DuplicateIds(S, E)
  BY <1>1 DEF Spared, OursFor
<1>2. CASE t.id \in DuplicateIds(S, E)
  <2>1. t.id \notin DeletingDuplicates(S, E)
    BY DEF DeletingDuplicates, UniqueIds
  <2>2. PICK u \in IdleCandidates(S, E) : SamePair(t, u) /\ Carried(u)
    BY <1>2, <2>1 DEF DuplicateIds, IdleDuplicates, IdleCandidates, UniqueIds
  <2>3. u.remote = t.remote
    BY <2>2 DEF SamePair
  <2> QED BY <2>2, <2>3, UsedIsSpared DEF Spared
<1> QED BY <1>1, <1>2

(* Of any list with unique ids: what is picked is the overlay's own, and   *)
(* its peer keeps an established SA with an installed child.               *)
LEMMA DuplicatesSpare ==
  ASSUME NEW S, NEW E, UniqueIds(S), NEW i \in DuplicateIds(S, E)
  PROVE  \E s \in S : s.id = i /\ OursFor(s, E) /\ Spared(s, S, E)
<1>1. CASE i \in DeletingDuplicates(S, E)
  <2>1. PICK s \in S : s.id = i /\ s.remote \in HealthyPeers(S, E) /\ s.name = s.remote
    BY <1>1 DEF DeletingDuplicates
  <2>2. PICK t \in S : /\ OursFor(t, E) /\ t.state = "ESTABLISHED" /\ HasInstalled(t)
                       /\ t.remote = s.remote
    BY <2>1 DEF HealthyPeers
  <2>3. Spared(t, S, E)
    BY <2>2, HealthyIsSpared
  <2>4. Spared(s, S, E) /\ OursFor(s, E)
    BY <2>1, <2>2, <2>3 DEF Spared, OursFor
  <2> QED BY <2>1, <2>4
<1>2. CASE i \in IdleDuplicates(S, E)
  <2>1. PICK t \in IdleCandidates(S, E) :
          t.id = i /\ \E u \in IdleCandidates(S, E) : SamePair(t, u) /\ Carried(u)
    BY <1>2 DEF IdleDuplicates
  <2>2. PICK u \in IdleCandidates(S, E) : SamePair(t, u) /\ Carried(u)
    BY <2>1
  <2>3. Spared(t, S, E)
    BY <2>2, UsedIsSpared DEF Spared, SamePair
  <2>4. t \in S /\ OursFor(t, E)
    BY DEF IdleCandidates
  <2> QED BY <2>1, <2>3, <2>4
<1> QED BY <1>1, <1>2 DEF DuplicateIds

(* The monitor terminates only what it picked from the list it keeps.      *)
ReapInv ==
  /\ UniqueIds(sas) /\ UniqueIds(snapSas)
  /\ ids \subseteq DuplicateIds(snapSas, seen)
  /\ tick # "terminate" => ids = {}

(* New SAs get unused ids, and only a new list brings new ids to reap.     *)
LEMMA ReapInvInductive == JobInv /\ TypeOK /\ ReapInv /\ [Next]_vars => ReapInv'
<1> SUFFICES ASSUME JobInv, TypeOK, ReapInv, [Next]_vars PROVE ReapInv'
  OBVIOUS
<1>1. UniqueIds(sas')
  <2>1. CASE sas' \subseteq sas
    BY <2>1 DEF ReapInv, UniqueIds
  <2>2. CASE \E i \in SaId, n \in Sa : NewId(i) /\ n.id = i /\ sas' = sas \cup {n}
    BY <2>2 DEF ReapInv, UniqueIds, NewId, FreeIds
  <2>3. CASE \E s \in sas, t \in Sa : t.id = s.id /\ sas' = (sas \ {s}) \cup {t}
    BY <2>3 DEF ReapInv, UniqueIds
  <2>4. CASE sas' = {[s EXCEPT !.settled = TRUE] : s \in sas}
    <3> SUFFICES ASSUME NEW a \in sas', NEW b \in sas', a.id = b.id PROVE a = b
      BY DEF UniqueIds
    <3>1. PICK s \in sas : a = [s EXCEPT !.settled = TRUE]
      BY <2>4
    <3>2. PICK t \in sas : b = [t EXCEPT !.settled = TRUE]
      BY <2>4
    <3>3. a.id = s.id /\ b.id = t.id
      BY <3>1, <3>2, SettledTypes DEF TypeOK
    <3>4. s = t
      BY <3>3 DEF ReapInv, UniqueIds
    <3> QED BY <3>1, <3>2, <3>4
  <2> QED BY <2>1, <2>2, <2>3, <2>4, SasStep
<1>2. ASSUME TickReap PROVE ReapInv'
  BY <1>1, <1>2 DEF TickReap, ReapInv, UniqueIds
<1>3. ASSUME TickTerminate PROVE ReapInv'
  BY <1>1, <1>3 DEF TickTerminate, ReapInv, UniqueIds
<1>4. ASSUME TickStart \/ TickList \/ TickSchedule PROVE ReapInv'
  BY <1>1, <1>4 DEF TickStart, TickList, TickSchedule, ReapInv, UniqueIds
<1>5. ASSUME ~TickStep PROVE UNCHANGED <<tick, ids, snapSas, seen>>
  BY <1>5 DEF Next, vars, JobStep, JobNext, JobCheck, JobInitiate, JobDone, ConfigureSchedules,
              PeerInitiates, SaDeleted, SaChanges, SasSettle, SaLost, PeerReach, ExpectedChanges,
              Quiet, monitorVars
<1>6. ASSUME UNCHANGED <<tick, ids, snapSas, seen>> PROVE ReapInv'
  BY <1>1, <1>6 DEF ReapInv, UniqueIds
<1> QED BY <1>2, <1>3, <1>4, <1>5, <1>6 DEF TickStep

(* For any peers, SAs and schedules: whatever reapDuplicateSAs is about to *)
(* terminate is an SA of the overlay's own connections, and the list it    *)
(* was picked from has another established SA with an installed child of   *)
(* the same peer that is not picked.  ipsec.go:510-611.                    *)
THEOREM ReaperSparesThePeerHolds == Spec => []ReaperSparesThePeer
<1>1. Init => JobInv /\ TypeOK
  BY HealthAssumption DEF Init, JobInv, HostSets, JobShape, OneInitiator, TypeOK
<1>2. Init => ReapInv
  BY DEF Init, ReapInv, UniqueIds
<1>3. ReapInv => ReaperSparesThePeer
  <2> SUFFICES ASSUME ReapInv, NEW i \in ids
               PROVE  \E s \in snapSas : s.id = i /\ OursFor(s, seen) /\ Spared(s, snapSas, seen)
    BY DEF ReaperSparesThePeer, Spared
  <2> QED BY DuplicatesSpare DEF ReapInv
<1> QED BY <1>1, <1>2, <1>3, JobInvInductive, TypeInductive, ReapInvInductive, PTL DEF Spec

=============================================================================
