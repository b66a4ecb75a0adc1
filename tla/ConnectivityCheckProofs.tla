----------------------- MODULE ConnectivityCheckProofs -----------------------
(***************************************************************************)
(* Type correctness, OneProbePerPeer and LateAnswersStayBehind of          *)
(* ConnectivityCheck for any number of containers, objects, addresses and  *)
(* documents.  OneProbePerPeer is not inductive alone: an object without a *)
(* goroutine must not carry a stop that was meant for an earlier one.      *)
(***************************************************************************)
EXTENDS ConnectivityCheck, TLAPS

ObjRec == [run: {"none", "sleep", "probe"}, ip: Ip \cup {NoPeer}, to: Ip \cup {NoPeer},
           consider: BOOLEAN, count: 0..Full, fresh: BOOLEAN, stopped: BOOLEAN]
Got    == [hosts: SUBSET Host, peers: SUBSET Peer, enabled: BOOLEAN]

(* The parts of TypeOK by who changes them, with the records' shapes.      *)
EnvOK ==
  /\ doc \in Doc /\ answers \in SUBSET Ip /\ calls \in SUBSET Ip
  /\ life \in {"binding", "serving", "failed"} /\ prior \in BOOLEAN /\ polls \in 0..MaxPoll
  /\ changes \in 0..MaxChange /\ faults \in 0..MaxFault
WatchOK ==
  /\ watch \in {"idle", "hosts", "service"} /\ got \in Got
  /\ peers \in [Uuid -> Slot \cup {NoPeer}] /\ byIp \in [Ip -> Obj \cup {NoPeer}] /\ ok \in BOOLEAN
ObjsOK == obj \in [Obj -> ObjRec] /\ inbound \in Obj \cup {NoPeer}

ShapeInv == EnvOK /\ WatchOK /\ ObjsOK

(* An object without a goroutine has not been told to stop.                *)
Unused == \A o \in Obj : obj[o].run = "none" => ~obj[o].stopped

ProbeInv == ShapeInv /\ Unused /\ OneProbePerPeer

-----------------------------------------------------------------------------
(* The shapes give the model's type invariant.                             *)
LEMMA ShapeTypes == ShapeInv => TypeOK
  BY DEF ShapeInv, EnvOK, WatchOK, ObjsOK, TypeOK, ObjOK, ObjRec, Got

(* A counted success or failure keeps an object's shape and its goroutine. *)
LEMMA UpdateTypes ==
  ASSUME NEW p \in ObjRec
  PROVE  /\ UpdateSuccess(p) \in ObjRec /\ UpdateFailure(p) \in ObjRec
         /\ UpdateSuccess(p).run = p.run /\ UpdateSuccess(p).stopped = p.stopped
         /\ UpdateFailure(p).run = p.run /\ UpdateFailure(p).stopped = p.stopped
<1> DEFINE more == IF p.count < Full THEN p.count + 1 ELSE p.count
           less == IF p.count > 0 THEN p.count - 1 ELSE p.count
<1>1. p.count \in 0..Full
  BY DEF ObjRec
<1>2. more \in 0..Full /\ less \in 0..Full
  BY <1>1 DEF Full
<1>3. /\ UpdateSuccess(p) = [p EXCEPT !.count = more, !.fresh = TRUE]
      /\ UpdateFailure(p) = [p EXCEPT !.count = less, !.fresh = TRUE]
  BY DEF UpdateSuccess, UpdateFailure
<1> HIDE DEF more, less
<1> QED BY <1>2, <1>3 DEF ObjRec

(* A goroutine that has returned leaves a blank object.                    *)
LEMMA NoObjType == NoObj \in ObjRec /\ NoObj.run = "none" /\ NoObj.stopped = FALSE
  BY DEF NoObj, ObjRec, Full

(* The environment and the port: nothing about the peers changes.          *)
LEMMA EnvKeeps == EnvOK /\ [Next]_vars => EnvOK'
<1> SUFFICES ASSUME EnvOK, [Next]_vars PROVE EnvOK'
  OBVIOUS
<1> USE CheckBoundAssumption DEF EnvOK
<1>1. ASSUME UNCHANGED <<doc, answers, calls, life, prior, polls, changes>>, faults' = faults \/ Fault
      PROVE  EnvOK'
  BY <1>1 DEF Fault
<1>2. ASSUME ChangeDoc \/ ChangeNetwork \/ PriorLeaves PROVE EnvOK'
  <2>1. CASE ChangeDoc
    BY <2>1 DEF ChangeDoc
  <2>2. CASE ChangeNetwork
    BY <2>2 DEF ChangeNetwork
  <2>3. CASE PriorLeaves
    BY <2>3 DEF PriorLeaves
  <2> QED BY <1>2, <2>1, <2>2, <2>3
<1>3. ASSUME Listen PROVE EnvOK'
  BY <1>3 DEF Listen, envVars, Fault, NoFault
<1>4. ASSUME WatchStep PROVE EnvOK'
  BY <1>1, <1>4 DEF WatchStep, ReadHosts, ReadService, ReadServices, RequestFails, Refresh,
                    MetadataFails, NoFault, envVars
<1>5. ASSUME PingDone \/ Ended \/ UNCHANGED vars \/ \E i \in Ip : Ping(i) PROVE EnvOK'
  BY <1>5 DEF PingDone, Ended, vars, Ping, envVars
<1>6. ASSUME NEW o \in Obj, PeerStep(o) PROVE EnvOK'
  BY <1>1, <1>6 DEF PeerStep, ProbeStart, ProbeEnd, Elapse, Return, NoFault, envVars
<1> QED BY <1>2, <1>3, <1>4, <1>5, <1>6 DEF Next

(* A step that changes one object, and keeps its goroutine and its stop.   *)
LEMMA ObjectKeeps ==
  ASSUME ProbeInv, NEW o \in Obj, NEW p \in ObjRec, p.run # "none" <=> obj[o].run # "none",
         p.stopped = obj[o].stopped, obj' = [obj EXCEPT ![o] = p], UNCHANGED watchVars,
         inbound' \in Obj \cup {NoPeer}
  PROVE  WatchOK' /\ ObjsOK' /\ Unused' /\ OneProbePerPeer'
<1>1. obj \in [Obj -> ObjRec]
  BY DEF ProbeInv, ShapeInv, ObjsOK
<1>2. \A q \in Obj : (obj'[q].run # "none" <=> obj[q].run # "none") /\ obj'[q].stopped = obj[q].stopped
  BY <1>1
<1>3. WatchOK' /\ ObjsOK'
  BY <1>1 DEF ProbeInv, ShapeInv, WatchOK, ObjsOK, watchVars
<1>4. Unused'
  BY <1>2 DEF ProbeInv, Unused
<1>5. OneProbePerPeer'
  BY <1>2 DEF ProbeInv, OneProbePerPeer, watchVars
<1> QED BY <1>3, <1>4, <1>5

-----------------------------------------------------------------------------
(* The steps of one peer's goroutine.                                      *)
LEMMA PeerKeeps ==
  ASSUME ProbeInv, NEW o \in Obj, PeerStep(o)
  PROVE  WatchOK' /\ ObjsOK' /\ Unused' /\ OneProbePerPeer'
<1>1. obj \in [Obj -> ObjRec] /\ obj[o] \in ObjRec /\ inbound \in Obj \cup {NoPeer}
  BY DEF ProbeInv, ShapeInv, ObjsOK
<1>2. UNCHANGED <<watchVars, inbound>>
  BY DEF PeerStep, ProbeStart, ProbeEnd, Elapse, Return
<1>3. CASE ProbeStart(o)
  <2> DEFINE p == [obj[o] EXCEPT !.run = "probe", !.to = obj[o].ip]
  <2>1. obj' = [obj EXCEPT ![o] = p] /\ obj[o].run = "sleep"
    BY <1>1, <1>3 DEF ProbeStart
  <2>2. p \in ObjRec /\ p.run # "none" /\ p.stopped = obj[o].stopped
    BY <1>1 DEF ObjRec
  <2> HIDE DEF p
  <2> QED BY <1>1, <1>2, <2>1, <2>2, ObjectKeeps
<1>4. CASE ProbeEnd(o)
  <2> DEFINE q == [obj[o] EXCEPT !.run = "sleep", !.to = NoPeer]
  <2>1. q \in ObjRec /\ q.run # "none" /\ q.stopped = obj[o].stopped /\ obj[o].run = "probe"
    BY <1>1, <1>4 DEF ObjRec, ProbeEnd
  <2>2. obj' = [obj EXCEPT ![o] = UpdateSuccess(q)] \/ obj' = [obj EXCEPT ![o] = UpdateFailure(q)]
    BY <1>1, <1>4 DEF ProbeEnd, Credited
  <2> HIDE DEF q
  <2> QED BY <1>1, <1>2, <2>1, <2>2, UpdateTypes, ObjectKeeps
<1>5. CASE Elapse(o)
  <2> DEFINE p == [obj[o] EXCEPT !.fresh = FALSE]
  <2>1. obj' = [obj EXCEPT ![o] = p]
    BY <1>1, <1>5 DEF Elapse
  <2>2. p \in ObjRec /\ p.run = obj[o].run /\ p.stopped = obj[o].stopped
    BY <1>1 DEF ObjRec
  <2> HIDE DEF p
  <2> QED BY <1>1, <1>2, <2>1, <2>2, ObjectKeeps
<1>6. CASE Return(o)
  <2>1. obj' = [obj EXCEPT ![o] = NoObj] /\ obj[o].stopped
    BY <1>6 DEF Return
  <2>2. obj' \in [Obj -> ObjRec] /\ obj'[o] = NoObj /\ \A q \in Obj \ {o} : obj'[q] = obj[q]
    BY <1>1, <2>1, NoObjType
  <2>3. WatchOK' /\ ObjsOK'
    BY <1>1, <1>2, <2>2 DEF ProbeInv, ShapeInv, WatchOK, ObjsOK, watchVars
  <2>4. Unused'
    BY <2>2, NoObjType DEF ProbeInv, Unused
  <2>5. peers[o[1]] # o[2]
    BY <2>1 DEF ProbeInv, OneProbePerPeer
  <2>6. OneProbePerPeer'
    BY <1>2, <2>2, <2>5, NoObjType DEF ProbeInv, OneProbePerPeer, watchVars
  <2> QED BY <2>3, <2>4, <2>6
<1> QED BY <1>3, <1>4, <1>5, <1>6 DEF PeerStep

(* The /ping handlers.                                                     *)
LEMMA PingKeeps ==
  ASSUME ProbeInv, PingDone \/ \E i \in Ip : Ping(i)
  PROVE  WatchOK' /\ ObjsOK' /\ Unused' /\ OneProbePerPeer'
<1>1. CASE PingDone
  <2>1. /\ inbound \in Obj /\ obj[inbound] \in ObjRec /\ inbound' = NoPeer /\ UNCHANGED watchVars
        /\ obj' = [obj EXCEPT ![inbound] = UpdateSuccess(obj[inbound])]
    BY <1>1 DEF PingDone, ProbeInv, ShapeInv, ObjsOK
  <2> QED BY <2>1, UpdateTypes, ObjectKeeps
<1>2. CASE \E i \in Ip : Ping(i)
  <2>1. UNCHANGED <<watchVars, obj>> /\ inbound' \in Obj \cup {NoPeer}
    BY <1>2 DEF Ping, ProbeInv, ShapeInv, WatchOK
  <2> QED BY <2>1 DEF ProbeInv, ShapeInv, WatchOK, ObjsOK, Unused, OneProbePerPeer, watchVars
<1> QED BY <1>1, <1>2

(* doWork: the snapshot's containers keep or get their objects, the others *)
(* are told to stop.                                                       *)
LEMMA RefreshKeeps ==
  ASSUME ProbeInv, EnvOK', Refresh, UNCHANGED inbound
  PROVE  WatchOK' /\ ObjsOK' /\ Unused' /\ OneProbePerPeer'
<1> USE CheckBoundAssumption
<1> DEFINE named(u) == \E p \in got.peers : p.uuid = u
           slot == [u \in Uuid |-> IF \A p \in got.peers : p.uuid # u THEN NoPeer
                                   ELSE IF peers[u] # NoPeer THEN peers[u] ELSE FreeSlot(u)]
           of(p) == <<p.uuid, slot[p.uuid]>>
           given == {of(p) : p \in got.peers}
           data(o) == CHOOSE p \in got.peers : of(p) = o
           told == [o \in Obj |-> [obj[o] EXCEPT !.stopped = @ \/ o \in StaleObjects]]
           object == [o \in Obj |->
             IF o \in given
             THEN [told[o] EXCEPT !.run = IF @ = "none" THEN "sleep" ELSE @, !.ip = data(o).ip,
                                  !.consider = Considered(data(o), doc.checks)]
             ELSE told[o]]
<1>1. /\ \A p \in got.peers : peers[p.uuid] # NoPeer \/ \E s \in Slot : obj[<<p.uuid, s>>].run = "none"
      /\ watch' = "idle" /\ got' = NoGot
      /\ peers' = slot /\ obj' = object
      /\ byIp' \in [Ip -> given \cup {NoPeer}]
      /\ ok' = ComputeOk(byIp', object)
  BY DEF Refresh
<1>2. /\ obj \in [Obj -> ObjRec] /\ got.peers \in SUBSET Peer /\ peers \in [Uuid -> Slot \cup {NoPeer}]
      /\ Unused /\ \A o \in Obj : (peers[o[1]] = o[2]) <=> (obj[o].run # "none" /\ ~obj[o].stopped)
  BY DEF ProbeInv, ShapeInv, WatchOK, ObjsOK, Got, OneProbePerPeer
<1>3. \A p \in got.peers : p.uuid \in Uuid /\ p.ip \in Ip
  BY <1>2 DEF Peer
<1>4. ASSUME NEW u \in Uuid, named(u), peers[u] = NoPeer
      PROVE  slot[u] \in Slot /\ obj[<<u, slot[u]>>].run = "none"
  <2>1. slot[u] = FreeSlot(u)
    BY <1>4
  <2>2. \E s \in Slot : obj[<<u, s>>].run = "none"
    BY <1>1, <1>4
  <2> QED BY <2>1, <2>2 DEF FreeSlot
<1>5. ASSUME NEW u \in Uuid, named(u), peers[u] # NoPeer
      PROVE  slot[u] = peers[u] /\ slot[u] \in Slot
  BY <1>2, <1>5
<1>6. ASSUME NEW u \in Uuid, ~named(u) PROVE slot[u] = NoPeer
  BY <1>6
<1>7. slot \in [Uuid -> Slot \cup {NoPeer}]
  <2>1. \A u \in Uuid : slot[u] \in Slot \cup {NoPeer}
    BY <1>4, <1>5, <1>6
  <2> HIDE DEF slot
  <2>2. slot = [u \in Uuid |-> slot[u]]
    BY DEF slot
  <2> QED BY <2>1, <2>2
<1> HIDE DEF slot
<1>8. \A u \in Uuid, s \in Slot : <<u, s>> \in given <=> slot[u] = s
  <2> SUFFICES ASSUME NEW u \in Uuid, NEW s \in Slot PROVE <<u, s>> \in given <=> slot[u] = s
    OBVIOUS
  <2>1. ASSUME <<u, s>> \in given PROVE slot[u] = s
    BY <2>1
  <2>2. ASSUME slot[u] = s PROVE <<u, s>> \in given
    <3>1. PICK p \in got.peers : p.uuid = u
      BY <1>6, <2>2
    <3> QED BY <2>2, <3>1
  <2> QED BY <2>1, <2>2
<1>9. given \subseteq Obj
  BY <1>3, <1>4, <1>5 DEF Obj
<1>10. \A o \in given : data(o) \in got.peers
  OBVIOUS
<1> HIDE DEF data
<1>11. told \in [Obj -> ObjRec] /\ \A o \in Obj : /\ told[o].run = obj[o].run
                                                 /\ told[o].stopped = (obj[o].stopped \/ o \in StaleObjects)
  <2>1. \A o \in Obj : told[o] = [obj[o] EXCEPT !.stopped = @ \/ o \in StaleObjects]
    OBVIOUS
  <2>2. \A o \in Obj : obj[o] \in ObjRec
    BY <1>2
  <2>3. ASSUME NEW o \in Obj
        PROVE  /\ told[o] \in ObjRec /\ told[o].run = obj[o].run
               /\ told[o].stopped = (obj[o].stopped \/ o \in StaleObjects)
    <3>1. (obj[o].stopped \/ o \in StaleObjects) \in BOOLEAN
      OBVIOUS
    <3> QED BY <2>1, <2>2, <3>1 DEF ObjRec
  <2> QED BY <2>3
<1> HIDE DEF told
<1>12. ASSUME NEW o \in given
       PROVE  object[o] \in ObjRec /\ object[o].run # "none" /\ object[o].stopped = told[o].stopped
  <2> DEFINE c == Considered(data(o), doc.checks)
             r == IF told[o].run = "none" THEN "sleep" ELSE told[o].run
             i == data(o).ip
  <2>1. object[o] = [told[o] EXCEPT !.run = r, !.ip = i, !.consider = c]
    BY <1>9
  <2>2. told[o] \in ObjRec /\ i \in Ip
    BY <1>3, <1>9, <1>10, <1>11
  <2>3. c \in BOOLEAN
    BY DEF Considered
  <2>4. r \in {"sleep", "probe"}
    BY <2>2 DEF ObjRec
  <2> HIDE DEF c, r, i, object, given
  <2> QED BY <2>1, <2>2, <2>3, <2>4 DEF ObjRec
<1>13. \A o \in Obj \ given : object[o] = told[o]
  OBVIOUS
<1>14. object \in [Obj -> ObjRec]
  <2>1. \A o \in Obj : object[o] \in ObjRec
    BY <1>11, <1>12, <1>13
  <2> QED BY <2>1
<1> HIDE DEF given, object
<1>15. ASSUME NEW o \in Obj
       PROVE  /\ (slot[o[1]] = o[2]) <=> (object[o].run # "none" /\ ~object[o].stopped)
              /\ object[o].run = "none" => ~object[o].stopped
  <2>1. o[1] \in Uuid /\ o[2] \in Slot /\ o = <<o[1], o[2]>>
    BY DEF Obj
  <2>2. o \in given <=> slot[o[1]] = o[2]
    BY <1>8, <2>1
  <2>3. CASE o \in given
    <3>1. named(o[1]) /\ slot[o[1]] = o[2]
      BY <1>6, <2>1, <2>2, <2>3
    <3>2. o \notin StaleObjects
      BY <3>1 DEF StaleObjects
    <3>3. ~obj[o].stopped
      <4>1. CASE peers[o[1]] = NoPeer
        BY <1>2, <1>4, <2>1, <3>1, <4>1 DEF Unused
      <4>2. CASE peers[o[1]] # NoPeer
        BY <1>2, <1>5, <2>1, <3>1, <4>2
      <4> QED BY <4>1, <4>2
    <3> QED BY <1>11, <1>12, <2>2, <2>3, <3>2, <3>3
  <2>4. CASE o \notin given
    <3>1. object[o].run = obj[o].run /\ object[o].stopped = (obj[o].stopped \/ o \in StaleObjects)
      BY <1>11, <1>13, <2>4
    <3>2. CASE peers[o[1]] = o[2]
      <4>1. ~named(o[1])
        BY <1>5, <2>1, <2>2, <2>4, <3>2
      <4>2. o \in StaleObjects
        BY <3>2, <4>1 DEF StaleObjects
      <4>3. obj[o].run # "none"
        BY <1>2, <3>2
      <4> QED BY <2>2, <2>4, <3>1, <4>2, <4>3
    <3>3. CASE peers[o[1]] # o[2]
      <4>1. o \notin StaleObjects
        BY <3>3 DEF StaleObjects
      <4>2. obj[o].run = "none" \/ obj[o].stopped
        BY <1>2, <3>3
      <4>3. obj[o].run = "none" => ~obj[o].stopped
        BY <1>2 DEF Unused
      <4> QED BY <2>2, <2>4, <3>1, <4>1, <4>2, <4>3
    <3> QED BY <3>2, <3>3
  <2> QED BY <2>3, <2>4
<1>16. \A i \in Ip : byIp'[i] # NoPeer => byIp'[i] \in given
  BY <1>1
<1>17. \A o \in given : slot[o[1]] = o[2]
  <2> SUFFICES ASSUME NEW o \in given PROVE slot[o[1]] = o[2]
    OBVIOUS
  <2>1. o[1] \in Uuid /\ o[2] \in Slot /\ o = <<o[1], o[2]>>
    BY <1>9 DEF Obj
  <2> QED BY <1>8, <2>1
<1>18. OneProbePerPeer' /\ Unused'
  BY <1>1, <1>15, <1>16, <1>17 DEF OneProbePerPeer, Unused
<1>19. ok' \in BOOLEAN
  BY <1>1 DEF ComputeOk
<1>20. WatchOK'
  <2>1. NoGot \in Got
    BY DEF NoGot, Got
  <2>2. byIp' \in [Ip -> Obj \cup {NoPeer}]
    BY <1>1, <1>9
  <2> QED BY <1>1, <1>7, <1>19, <2>1, <2>2 DEF WatchOK
<1>21. ObjsOK'
  BY <1>1, <1>14 DEF ObjsOK, ProbeInv, ShapeInv
<1> QED BY <1>18, <1>20, <1>21

(* Every step keeps the goroutines and the map of peers in step.           *)
LEMMA ProbeInvInductive == ProbeInv /\ [Next]_vars => ProbeInv'
<1> SUFFICES ASSUME ProbeInv, [Next]_vars PROVE ProbeInv'
  OBVIOUS
<1>1. EnvOK'
  BY EnvKeeps DEF ProbeInv, ShapeInv
<1>2. ASSUME UNCHANGED <<peers, byIp, ok, obj, inbound>>, watch' \in {"idle", "hosts", "service"}, got' \in Got
      PROVE  WatchOK' /\ ObjsOK' /\ Unused' /\ OneProbePerPeer'
  BY <1>2 DEF ProbeInv, ShapeInv, WatchOK, ObjsOK, Unused, OneProbePerPeer
<1>3. ASSUME \/ ChangeDoc \/ ChangeNetwork \/ PriorLeaves \/ Listen \/ Ended \/ UNCHANGED vars
      PROVE  WatchOK' /\ ObjsOK' /\ Unused' /\ OneProbePerPeer'
  <2>1. UNCHANGED <<watchVars, obj, inbound>>
    BY <1>3 DEF ChangeDoc, ChangeNetwork, PriorLeaves, Listen, Ended, vars, watchVars
  <2> QED BY <1>2, <2>1 DEF watchVars, ProbeInv, ShapeInv, WatchOK
<1>4. NoGot \in Got
  BY DEF NoGot, Got
<1>5. doc.hosts \in SUBSET Host /\ doc.peers \in SUBSET Peer /\ doc.enabled \in BOOLEAN /\ got \in Got
  BY CheckDocAssumption DEF ProbeInv, ShapeInv, EnvOK, WatchOK
<1>6. ASSUME ReadHosts \/ ReadService PROVE WatchOK' /\ ObjsOK' /\ Unused' /\ OneProbePerPeer'
  <2>1. [NoGot EXCEPT !.hosts = doc.hosts] \in Got
    BY <1>4, <1>5 DEF Got
  <2>2. [got EXCEPT !.peers = doc.peers, !.enabled = doc.enabled] \in Got
    BY <1>5 DEF Got
  <2>3. UNCHANGED <<peers, byIp, ok, obj, inbound>> /\ watch' \in {"idle", "hosts", "service"} /\ got' \in Got
    BY <1>4, <1>6, <2>1, <2>2 DEF ReadHosts, ReadService, RequestFails
  <2> QED BY <1>2, <2>3
<1>7. ASSUME ReadServices PROVE WatchOK' /\ ObjsOK' /\ Unused' /\ OneProbePerPeer'
  <2>1. CASE RequestFails
    BY <1>2, <1>4, <1>7, <2>1 DEF ReadServices, RequestFails
  <2>2. CASE Refresh
    BY <1>1, <1>7, <2>2, RefreshKeeps DEF ReadServices
  <2> QED BY <1>7, <2>1, <2>2 DEF ReadServices
<1>8. WatchOK' /\ ObjsOK' /\ Unused' /\ OneProbePerPeer'
  BY <1>3, <1>6, <1>7, PeerKeeps, PingKeeps DEF Next, WatchStep
<1> QED BY <1>1, <1>8 DEF ProbeInv, ShapeInv

(* The program starts with no peer, no goroutine and no request under way. *)
LEMMA InitProbeInv == Init => ProbeInv
<1> SUFFICES ASSUME Init PROVE ProbeInv
  OBVIOUS
<1> USE CheckBoundAssumption
<1>1. EnvOK
  BY DEF Init, EnvOK
<1>2. WatchOK
  BY DEF Init, WatchOK, NoGot, Got
<1>3. ObjsOK /\ \A o \in Obj : obj[o] = NoObj
  BY NoObjType DEF Init, ObjsOK
<1>4. Unused
  BY <1>3, NoObjType DEF Unused
<1>5. \A o \in Obj : o[1] \in Uuid /\ o[2] \in Slot
  BY DEF Obj
<1>6. OneProbePerPeer
  BY <1>3, <1>5, NoObjType DEF Init, OneProbePerPeer
<1> QED BY <1>1, <1>2, <1>3, <1>4, <1>6 DEF ProbeInv, ShapeInv

(* The types of the checker, its peers and its environment for any number  *)
(* of containers and documents; a peer's count stays within 0 and its cap. *)
(* checker.go:228-401.                                                     *)
THEOREM CheckTypeCorrect == Spec => []TypeOK
<1>1. ProbeInv => TypeOK
  BY ShapeTypes DEF ProbeInv
<1> QED BY <1>1, InitProbeInv, ProbeInvInductive, PTL DEF Spec

(* For any containers and documents, and whenever a request fails between  *)
(* two others: every container the checker knows has exactly one goroutine *)
(* that nobody has told to stop, and every other goroutine has been told.  *)
(* checker.go:247-278.                                                     *)
THEOREM OneProbePerPeerHolds == Spec => []OneProbePerPeer
<1>1. ProbeInv => OneProbePerPeer
  BY DEF ProbeInv
<1> QED BY <1>1, InitProbeInv, ProbeInvInductive, PTL DEF Spec

(* doWork replaces the data of the peers and leaves every count alone.     *)
LEMMA RefreshKeepsCounts ==
  ASSUME ProbeInv, Refresh, NEW o \in Obj
  PROVE  obj'[o].count = obj[o].count
<1> DEFINE slot == [u \in Uuid |-> IF \A p \in got.peers : p.uuid # u THEN NoPeer
                                   ELSE IF peers[u] # NoPeer THEN peers[u] ELSE FreeSlot(u)]
           of(p) == <<p.uuid, slot[p.uuid]>>
           given == {of(p) : p \in got.peers}
           data(q) == CHOOSE p \in got.peers : of(p) = q
           told == [q \in Obj |-> [obj[q] EXCEPT !.stopped = @ \/ q \in StaleObjects]]
           object == [q \in Obj |->
             IF q \in given
             THEN [told[q] EXCEPT !.run = IF @ = "none" THEN "sleep" ELSE @, !.ip = data(q).ip,
                                  !.consider = Considered(data(q), doc.checks)]
             ELSE told[q]]
           r == IF told[o].run = "none" THEN "sleep" ELSE told[o].run
           c == Considered(data(o), doc.checks)
           i == data(o).ip
           s == obj[o].stopped \/ o \in StaleObjects
<1>1. obj' = object
  BY DEF Refresh
<1>2. obj[o] \in ObjRec
  BY DEF ProbeInv, ShapeInv, ObjsOK
<1>3. told[o] = [obj[o] EXCEPT !.stopped = s]
  OBVIOUS
<1>4. object[o] = (IF o \in given THEN [told[o] EXCEPT !.run = r, !.ip = i, !.consider = c] ELSE told[o])
  OBVIOUS
<1> HIDE DEF object, told, given, data, slot, r, c, i, s
<1>5. told[o].count = obj[o].count /\ DOMAIN told[o] = DOMAIN obj[o]
  BY <1>2, <1>3 DEF ObjRec
<1>6. object[o].count = told[o].count
  BY <1>2, <1>4, <1>5 DEF ObjRec
<1> QED BY <1>1, <1>5, <1>6

(* Which steps may change the count of which object.                       *)
LEMMA CountStep ==
  ASSUME ProbeInv, [Next]_vars, NEW o \in Obj, obj'[o].count # obj[o].count
  PROVE  \/ obj[o].run = "probe" /\ obj'[o].run = "sleep"
         \/ inbound = o /\ inbound' # o
         \/ obj[o].stopped /\ obj'[o].run = "none"
<1>1. obj \in [Obj -> ObjRec] /\ \A q \in Obj : obj[q] \in ObjRec
  BY DEF ProbeInv, ShapeInv, ObjsOK
<1>2. obj' # obj
  OBVIOUS
<1>3. CASE ReadServices
  <2>1. Refresh
    BY <1>2, <1>3 DEF ReadServices, RequestFails
  <2> QED BY <2>1, RefreshKeepsCounts
<1>4. CASE PingDone
  <2>1. obj' = [obj EXCEPT ![inbound] = UpdateSuccess(obj[inbound])] /\ inbound # NoPeer /\ inbound' = NoPeer
    BY <1>4 DEF PingDone
  <2>2. inbound = o
    BY <1>1, <2>1
  <2> QED BY <2>1, <2>2
<1>5. ASSUME NEW q \in Obj, PeerStep(q)
      PROVE  \/ obj[o].run = "probe" /\ obj'[o].run = "sleep"
             \/ obj[o].stopped /\ obj'[o].run = "none"
  <2>1. obj[q] \in ObjRec
    BY <1>1
  <2>2. CASE ProbeStart(q)
    <3> DEFINE p == [obj[q] EXCEPT !.run = "probe", !.to = obj[q].ip]
    <3>1. obj' = [obj EXCEPT ![q] = p]
      BY <1>1, <2>2 DEF ProbeStart
    <3>2. p.count = obj[q].count
      BY <2>1 DEF ObjRec
    <3> HIDE DEF p
    <3> QED BY <1>1, <3>1, <3>2
  <2>3. CASE Elapse(q)
    <3> DEFINE p == [obj[q] EXCEPT !.fresh = FALSE]
    <3>1. obj' = [obj EXCEPT ![q] = p]
      BY <1>1, <2>3 DEF Elapse
    <3>2. p.count = obj[q].count
      BY <2>1 DEF ObjRec
    <3> HIDE DEF p
    <3> QED BY <1>1, <3>1, <3>2
  <2>4. CASE ProbeEnd(q)
    <3> DEFINE p == [obj[q] EXCEPT !.run = "sleep", !.to = NoPeer]
    <3>1. p \in ObjRec /\ p.run = "sleep" /\ obj[q].run = "probe"
      BY <2>1, <2>4 DEF ObjRec, ProbeEnd
    <3>2. obj' = [obj EXCEPT ![q] = UpdateSuccess(p)] \/ obj' = [obj EXCEPT ![q] = UpdateFailure(p)]
      BY <1>1, <2>4 DEF ProbeEnd, Credited
    <3> HIDE DEF p
    <3>3. obj'[q].run = "sleep" /\ \A x \in Obj \ {q} : obj'[x] = obj[x]
      BY <1>1, <3>1, <3>2, UpdateTypes
    <3> QED BY <3>1, <3>3
  <2>5. CASE Return(q)
    BY <1>1, <2>5, NoObjType DEF Return
  <2> QED BY <1>5, <2>2, <2>3, <2>4, <2>5 DEF PeerStep
<1> QED
  BY <1>2, <1>3, <1>4, <1>5
  DEF Next, WatchStep, ReadHosts, ReadService, RequestFails, ChangeDoc, ChangeNetwork, PriorLeaves,
      Listen, Ended, Ping, vars

(* For any containers: a container that left and came back starts from     *)
(* nothing, and what a probe or a /ping handler of its old object still    *)
(* brings in is credited to the old object.  checker.go:249-258, 302-315,  *)
(* 341-362.                                                                *)
THEOREM LateAnswersStayBehindHolds == Spec => LateAnswersStayBehind
<1>1. ProbeInv /\ [Next]_vars =>
        [\A o \in Obj : obj'[o].count # obj[o].count =>
           \/ obj[o].run = "probe" /\ obj'[o].run = "sleep"
           \/ inbound = o /\ inbound' # o
           \/ obj[o].stopped /\ obj'[o].run = "none"]_vars
  BY CountStep
<1> QED BY <1>1, InitProbeInv, ProbeInvInductive, PTL DEF Spec, LateAnswersStayBehind

=============================================================================
