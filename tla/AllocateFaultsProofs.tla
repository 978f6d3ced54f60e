------------------------ MODULE AllocateFaultsProofs ------------------------
(***************************************************************************)
(* What Allocate keeps for every number of kubelet restarts and of locks   *)
(* that expire early.                                                      *)
(***************************************************************************)
EXTENDS AllocateFaults, AllocateProofs

(* Entries that are the scheduler's for pod q, or erased.                   *)
Part(q, e) == \A k \in Slots : e[k] \in {<<>>, Assigned[q][k]}

WholeOrNone(g) == g = NoGrant \/ \E q \in Pods : \E k \in Wanted[q] : g = Expected[q][k]

(* The annotation and every working copy hold parts of one pod's decision; *)
(* every answer, recorded or not yet sent, is one whole entry.             *)
WholeInv ==
  /\ \A q \in Pods : Part(q, toAlloc[q])
  /\ \A h \in Calls : call[h].pc \in Working => Part(call[h].pod, call[h].work)
  /\ \A h \in Calls, i \in Slots : WholeOrNone(call[h].resp[i])
  /\ \A p \in Pods, i \in Slots : WholeOrNone(granted[p][i])

-----------------------------------------------------------------------------
(* Typing survives the two events: they touch what kubelet waits for, the  *)
(* state of a pod and the lock, and nothing of the handlers.               *)
LEMMA FaultTyping ==
  TypeOK /\ PodFound /\ [FaultNext]_faultVars => TypeOK' /\ PodFound'
  <1> SUFFICES ASSUME TypeOK, PodFound, [FaultNext]_faultVars PROVE TypeOK' /\ PodFound'
    OBVIOUS
  <1>1. CASE Protocol
    BY <1>1, TypingStep DEF Protocol
  <1>2. CASE KubeletRestart
    BY <1>2 DEF KubeletRestart, TypeOK, PodFound, podVars, PodStates
  <1>3. ASSUME NEW p \in Pods, EarlyLockExpiry(p) PROVE TypeOK' /\ PodFound'
    BY <1>3 DEF EarlyLockExpiry, TypeOK, PodFound, podVars, kubeletVars
  <1>4. CASE UNCHANGED faultVars
    BY <1>4, TypingStep DEF faultVars
  <1> QED
    BY <1>1, <1>2, <1>3, <1>4 DEF FaultNext

(* Initially nothing is handed out and the annotations are empty.           *)
LEMMA WholeInit == Init => WholeInv
  BY DEF Init, WholeInv, Part, WholeOrNone, Idle, NoEntries, NoResponses, Working

(* A step that leaves annotations and answers alone, and moves one handler *)
(* at most, keeps the invariant if that handler's part does.               *)
LEMMA OneHandler ==
  ASSUME WholeInv, NEW h \in Calls, Others(h), UNCHANGED <<toAlloc, granted>>,
         call'[h].pc \in Working => Part(call'[h].pod, call'[h].work),
         \A i \in Slots : WholeOrNone(call'[h].resp[i])
  PROVE  WholeInv'
  BY DEF WholeInv, Others, Part, WholeOrNone

(* Popping the first entry of a part of the decision for a pod yields one  *)
(* whole entry, and leaves a part.                                         *)
LEMMA PopIsWhole ==
  ASSUME TypeOK, PodFound, WholeInv, NEW h \in Calls, call[h].pc = "pop",
         NEW k \in Slots, FirstEntry(h, k)
  PROVE  /\ WholeOrNone(Response(call[h].pod, k, call[h].work[k]))
         /\ Part(call[h].pod, [call[h].work EXCEPT ![k] = <<>>])
  <1> DEFINE q == call[h].pod
  <1>1. q \in Pods /\ Part(q, call[h].work)
    BY DEF PodFound, WholeInv, Working
  <1>2. call[h].work[k] = Assigned[q][k] /\ Assigned[q][k] # <<>>
    BY <1>1 DEF FirstEntry, Part
  <1>3. k \in Wanted[q]
    BY <1>1, <1>2, SchedulerAssumption DEF Wanted
  <1>4. Response(q, k, call[h].work[k]) = Expected[q][k]
    BY <1>1, <1>2, <1>3, NameOfSlot
  <1>5. WholeOrNone(Response(q, k, call[h].work[k]))
    BY <1>1, <1>3, <1>4 DEF WholeOrNone
  <1>6. call[h].work \in [Slots -> Seq(Devices)]
    BY DEF TypeOK, CallStates, Entries
  <1>7. Part(q, [call[h].work EXCEPT ![k] = <<>>])
    BY <1>1, <1>6 DEF Part
  <1> QED
    BY <1>5, <1>7

(* Every step of a handler keeps the invariant.                             *)
LEMMA HandlerWhole ==
  ASSUME TypeOK, PodFound, WholeInv, NEW h \in Calls, HandlerStep(h)
  PROVE  WholeInv'
  <1>0. CallTyped
    BY DEF TypeOK, CallTyped
  <1>h. /\ call[h].pc \in Working => Part(call[h].pod, call[h].work) /\ call[h].pod \in Pods
        /\ \A i \in Slots : WholeOrNone(call[h].resp[i])
    BY DEF WholeInv, PodFound
  <1>1. CASE GetPendingPod(h)
    <2>1. PICK q \in Pods :
            call' = [call EXCEPT ![h] =
                      [@ EXCEPT !.pc = "decode", !.pod = q, !.work = toAlloc[q]]]
      BY <1>1 DEF GetPendingPod, PendingPods, TypeOK
    <2>2. Others(h) /\ call'[h].pod = q /\ call'[h].work = toAlloc[q]
          /\ call'[h].resp = call[h].resp
      BY <2>1, GetPendingPodEffect
    <2>3. Part(q, toAlloc[q])
      BY DEF WholeInv
    <2> QED
      BY <1>h, <1>1, <2>2, <2>3, OneHandler DEF GetPendingPod, podVars, kubeletVars
  <1>2. CASE ServeRequest(h)
    <2>1. PICK i \in Slots, k \in Slots :
            /\ FirstEntry(h, k)
            /\ call' = [call EXCEPT ![h] =
                 [call[h] EXCEPT !.todo = call[h].todo \ {i},
                                 !.work = [call[h].work EXCEPT ![k] = <<>>],
                                 !.resp = [call[h].resp EXCEPT
                                   ![i] = Response(call[h].pod, k, call[h].work[k])]]]
      BY <1>2 DEF ServeRequest
    <2> DEFINE g == Response(call[h].pod, k, call[h].work[k])
    <2>2. call[h].pod \in Pods /\ call[h].work[k] \in Seq(Devices) /\ call[h].pc = "pop"
      BY <1>2 DEF ServeRequest, PodFound, Working, TypeOK, CallStates, Entries
    <2>3. g \in Grants
      BY <2>2, ResponseType
    <2>4. WholeOrNone(g) /\ Part(call[h].pod, [call[h].work EXCEPT ![k] = <<>>])
      BY <2>1, <2>2, PopIsWhole
    <2> HIDE DEF g
    <2>8. call' = [call EXCEPT ![h] =
                    [call[h] EXCEPT !.todo = call[h].todo \ {i},
                                    !.work = [call[h].work EXCEPT ![k] = <<>>],
                                    !.resp = [call[h].resp EXCEPT ![i] = g]]]
      BY <2>1 DEF g
    <2>5. /\ CallTyped' /\ Others(h)
          /\ call'[h].todo = call[h].todo \ {i}
          /\ call'[h].work = [call[h].work EXCEPT ![k] = <<>>]
          /\ call'[h].resp = [call[h].resp EXCEPT ![i] = g]
          /\ call'[h].pc = call[h].pc /\ call'[h].who = call[h].who
          /\ call'[h].pod = call[h].pod /\ call'[h].ok = call[h].ok
      BY <1>0, <2>3, <2>8, ServeEffect
    <2>6. call[h].resp \in [Slots -> Grants \cup {NoGrant}]
      BY DEF TypeOK, CallStates
    <2>7. \A j \in Slots : WholeOrNone(call'[h].resp[j])
      BY <1>h, <2>4, <2>5, <2>6
    <2> QED
      BY <1>2, <2>4, <2>5, <2>7, OneHandler DEF ServeRequest, podVars, kubeletVars
  <1>3. CASE PatchErasedAnnotation(h) \/ PatchErasedAnnotationFails(h)
    <2>1. /\ call[h].pc = "patch" /\ UNCHANGED granted
          /\ \/ toAlloc' = toAlloc
             \/ toAlloc' = [toAlloc EXCEPT ![call[h].pod] = call[h].work]
      BY <1>3 DEF PatchErasedAnnotation, PatchErasedAnnotationFails, kubeletVars
    <2>2. Part(call[h].pod, call[h].work) /\ call[h].pod \in Pods
      BY <1>h, <2>1 DEF Working
    <2>3. \A q \in Pods : Part(q, toAlloc'[q])
      BY <2>1, <2>2 DEF WholeInv, TypeOK
    <2>4. /\ Others(h) /\ call'[h].pod = call[h].pod /\ call'[h].work = call[h].work
          /\ call'[h].resp = call[h].resp
      BY <1>0, <1>3, PatchEffect, GotoEffect
      DEF PatchErasedAnnotationFails, Fail, SameButPc, PCs
    <2> QED
      BY <1>h, <2>1, <2>2, <2>3, <2>4 DEF WholeInv, Others
  <1>4. CASE \/ DecodeAnnotations(h) \/ ServeRequestFails(h) \/ LoopEnds(h) \/ TrySuccess(h)
             \/ SetSuccess(h) \/ SetFailed(h) \/ ReleaseNodeLock(h)
    <2>1. call[h].pc \in Working /\ UNCHANGED <<toAlloc, granted>>
          /\ \E l \in PCs : Goto(h, l)
      BY <1>4 DEF DecodeAnnotations, ServeRequestFails, LoopEnds, TrySuccess, SetSuccess,
                  SetFailed, SetBindPhase, ReleaseNodeLock, Fail, PCs, Working, podVars,
                  kubeletVars
    <2> QED
      BY <1>0, <1>h, <2>1, GotoEffect, OneHandler DEF SameButPc
  <1>5. CASE GetPendingPodFails(h)
    <2>1. Others(h) /\ SameButPc(h) /\ call'[h].pc = "reply"
      BY <1>0, <1>5, GotoEffect DEF GetPendingPodFails, PCs
    <2> QED
      BY <1>h, <1>5, <2>1, OneHandler
      DEF GetPendingPodFails, SameButPc, Working, podVars, kubeletVars
  <1>6. CASE Reply(h)
    <2> DEFINE p   == call[h].who
               new == [i \in Slots |-> IF call[h].resp[i] # NoGrant THEN call[h].resp[i]
                                       ELSE granted[p][i]]
    <2>1. granted' = granted \/ granted' = [granted EXCEPT ![p] = new]
      BY <1>6 DEF Reply, kubeletVars
    <2>2. \A q \in Pods, i \in Slots : WholeOrNone(granted'[q][i])
      <3>1. \A i \in Slots : p \in Pods => WholeOrNone(new[i])
        BY <1>h DEF WholeInv
      <3> HIDE DEF new
      <3> QED
        BY <2>1, <3>1 DEF WholeInv, TypeOK
    <2>3. Others(h) /\ call'[h] = Idle /\ UNCHANGED toAlloc
      <3>1. call' = [call EXCEPT ![h] = Idle] /\ UNCHANGED toAlloc
        BY <1>6 DEF Reply, podVars
      <3> QED
        BY <1>0, <3>1, IdleType, OneCall
    <2>4. Idle.pc = "idle" /\ Idle.resp = NoResponses
      BY DEF Idle
    <2>5. \A i \in Slots : WholeOrNone(Idle.resp[i])
      BY <2>4 DEF NoResponses, WholeOrNone
    <2> QED
      BY <2>2, <2>3, <2>4, <2>5 DEF WholeInv, Others, Working
  <1> QED
    BY <1>1, <1>2, <1>3, <1>4, <1>5, <1>6 DEF HandlerStep

(* The scheduler, kubelet and the faults keep it too.                       *)
LEMMA WholeStep ==
  TypeOK /\ PodFound /\ WholeInv /\ [FaultNext]_faultVars => WholeInv'
  <1> SUFFICES ASSUME TypeOK, PodFound, WholeInv, [FaultNext]_faultVars PROVE WholeInv'
    OBVIOUS
  <1>0. CallTyped
    BY DEF TypeOK, CallTyped
  <1>1. ASSUME NEW p \in Pods, SchedulerBind(p) PROVE WholeInv'
    <2>1. UNCHANGED <<granted, call>> /\ toAlloc' = [toAlloc EXCEPT ![p] = Assigned[p]]
      BY <1>1 DEF SchedulerBind
    <2>2. \A q \in Pods : Part(q, toAlloc'[q])
      BY <2>1 DEF WholeInv, TypeOK, Part
    <2> QED
      BY <2>1, <2>2 DEF WholeInv
  <1>2. CASE \/ \E p \in Pods : \/ LockExpires(p) \/ PluginUnavailable(p)
                               \/ EarlyLockExpiry(p)
             \/ GrpcStop \/ UpdateDevice \/ KubeletRestart \/ UNCHANGED faultVars
    <2>1. UNCHANGED <<toAlloc, granted, call>>
      BY <1>2 DEF LockExpires, PluginUnavailable, EarlyLockExpiry, GrpcStop, UpdateDevice,
                  KubeletRestart, faultVars, vars, podVars, kubeletVars
    <2> QED
      BY <2>1 DEF WholeInv
  <1>3. ASSUME NEW p \in Pods, NEW h \in Calls, NEW R \in SUBSET Slots, KubeletCalls(p, h, R)
        PROVE  WholeInv'
    <2>1. Others(h) /\ call'[h].pc = "getPod" /\ call'[h].resp = NoResponses
      BY <1>0, <1>3, KubeletCallsEffect
    <2>2. UNCHANGED <<toAlloc, granted>>
      BY <1>3 DEF KubeletCalls, podVars
    <2>3. \A i \in Slots : WholeOrNone(NoResponses[i])
      BY DEF NoResponses, WholeOrNone
    <2> QED
      BY <2>1, <2>2, <2>3, OneHandler DEF Working
  <1>4. CASE ProcessCrash
    <2>1. UNCHANGED <<toAlloc, granted>> /\ \A h \in Calls : call'[h] = Idle
      BY <1>4 DEF ProcessCrash, podVars
    <2>2. Idle.pc = "idle" /\ \A i \in Slots : WholeOrNone(Idle.resp[i])
      BY DEF Idle, NoResponses, WholeOrNone
    <2> QED
      BY <2>1, <2>2 DEF WholeInv, Working
  <1> QED
    BY <1>1, <1>2, <1>3, <1>4, HandlerWhole DEF FaultNext, Protocol, Next, KubeletStep

-----------------------------------------------------------------------------
(* GrantsAreWhole: whatever kubelet asks again and whichever pod a call    *)
(* finds, an answer is one whole decision of the scheduler (server.go, the *)
(* pop loop of Allocate).                                                  *)
THEOREM WholeGrants == FaultSpec => []GrantsAreWhole
  <1>1. FaultInit => TypeOK /\ PodFound /\ WholeInv
    BY TypingInit, WholeInit DEF FaultInit
  <1>2. TypeOK /\ PodFound /\ WholeInv /\ [FaultNext]_faultVars
          => TypeOK' /\ PodFound' /\ WholeInv'
    BY FaultTyping, WholeStep
  <1>3. WholeInv => GrantsAreWhole
    BY DEF WholeInv, WholeOrNone, GrantsAreWhole
  <1> QED
    BY <1>1, <1>2, <1>3, PTL DEF FaultSpec

-----------------------------------------------------------------------------
(* GrantedOnce.  An entry is in one place only: in the annotation, popped   *)
(* by the call kubelet waits for, or granted; calls nobody waits for have   *)
(* copies that count for nothing, unless they are written back.            *)

Bound(p) == bindPhase[p] # "none"

(* A handler has no answers before it knows its pod, and answers for that   *)
(* pod only; it counts as successful from its patch on.                    *)
Started(h) ==
  /\ call[h].pc \in Working => Bound(call[h].pod)
  /\ call[h].pc = "getPod" => \A i \in Slots : call[h].resp[i] = NoGrant
  /\ call[h].pc = "getPod" \/ call[h].pc \in BeforePatch => ~call[h].ok
  /\ \A i \in Slots : call[h].resp[i] # NoGrant => Bound(call[h].resp[i].pod)
  /\ call[h].pc \in Working =>
       \A i \in Slots : call[h].resp[i] # NoGrant => call[h].resp[i].pod = call[h].pod

(* Only pods that were bound are worked on, answered for and granted.       *)
ReadInv ==
  /\ \A p \in Pods : kstate[p] = "unbound" => ~Bound(p)
  /\ \A p \in Pods : nodeLock = p => Bound(p)
  /\ \A h \in Calls : Started(h)
  /\ \A p \in Pods, i \in Slots : granted[p][i] # NoGrant => Bound(granted[p][i].pod)

(* The entry an answer was made of is no longer in the annotation.          *)
Erased(g) == \A q \in Pods : \A k \in Wanted[q] : g = Expected[q][k] => toAlloc[q][k] = <<>>

Given(g) == \E p \in Pods, i \in Slots : granted[p][i] = g

(* The call kubelet waits for answers with what nobody has been given, once *)
(* each; when it is successful, their entries are erased.                  *)
Awaited(h) ==
  /\ \A i \in Slots : call[h].resp[i] # NoGrant =>
       /\ ~Given(call[h].resp[i])
       /\ call[h].ok => Erased(call[h].resp[i])
       /\ \A j \in Slots : call[h].resp[i] = call[h].resp[j] => i = j
  /\ call[h].pc \in Working => \A k \in Slots : call[h].work[k] # <<>> =>
       /\ ~Given(Expected[call[h].pod][k])
       /\ \A i \in Slots : call[h].resp[i] # Expected[call[h].pod][k]

GrantsErased == \A p \in Pods, i \in Slots : granted[p][i] # NoGrant => Erased(granted[p][i])

GrantsDistinct ==
  \A p, q \in Pods, i, j \in Slots :
     granted[p][i] = granted[q][j] /\ granted[p][i] # NoGrant => p = q /\ i = j

OnceInv ==
  ~restored => /\ GrantsErased /\ GrantsDistinct
               /\ waiting # NoCall => Awaited(waiting)

(* All that is needed to know about the state before a step.                *)
FaultInv == TypeOK /\ PodFound /\ WholeInv /\ ReadInv /\ OnceInv

-----------------------------------------------------------------------------
(* What is decided for a slot is an answer, for the slot's pod, under the   *)
(* name of its container.                                                  *)
LEMMA ExpectedGrant ==
  ASSUME NEW q \in Pods, NEW k \in Wanted[q]
  PROVE  /\ Expected[q][k] \in Grants /\ Expected[q][k] # NoGrant
         /\ Expected[q][k].pod = q /\ Expected[q][k].ctr = KubeletNames(q)[k]
  <1>1. k \in Slots /\ Assigned[q][k] \in Seq(Devices)
    BY PodAssumption DEF Wanted, Entries
  <1>2. Response(q, k, Assigned[q][k]) \in Grants
    BY <1>1, ResponseType
  <1>3. Expected[q][k] \in Grants
    BY <1>2, NameOfSlot
  <1>4. Expected[q][k] = [pod |-> q, ctr |-> KubeletNames(q)[k], devs |-> Assigned[q][k]]
    BY <1>1 DEF Expected
  <1> QED
    BY <1>3, <1>4, NullAssumption

(* No two slots are decided alike, be it of one pod or of two.              *)
LEMMA ExpectedDistinct ==
  ASSUME NEW q \in Pods, NEW k \in Wanted[q], NEW r \in Pods, NEW l \in Wanted[r],
         Expected[q][k] = Expected[r][l]
  PROVE  q = r /\ k = l
  <1>1. q = r /\ KubeletNames(q)[k] = KubeletNames(r)[l]
    BY ExpectedGrant
  <1> QED
    BY <1>1, NameAssumption

(* An entry of a part of a decision belongs to a slot that wants devices.   *)
LEMMA PartWanted ==
  ASSUME NEW q \in Pods, NEW e, Part(q, e), NEW k \in Slots, e[k] # <<>>
  PROVE  k \in Wanted[q]
  BY SchedulerAssumption DEF Part, Wanted

(* A pod stays bound, and none becomes unbound again.                       *)
LEMMA BoundStays ==
  ASSUME FaultInv, [FaultNext]_faultVars, NEW p \in Pods
  PROVE  /\ Bound(p) => Bound(p)'
         /\ kstate'[p] = "unbound" => kstate[p] = "unbound"
  <1> USE DEF FaultInv, TypeOK, podVars, kubeletVars
  <1>1. ASSUME NEW q \in Pods, SchedulerBind(q)
        PROVE  (Bound(p) => Bound(p)') /\ (kstate'[p] = "unbound" => kstate[p] = "unbound")
    BY <1>1 DEF SchedulerBind, Bound
  <1>2. ASSUME NEW h \in Calls, SetSuccess(h) \/ SetFailed(h)
        PROVE  (Bound(p) => Bound(p)') /\ (kstate'[p] = "unbound" => kstate[p] = "unbound")
    BY <1>2 DEF SetSuccess, SetFailed, SetBindPhase, Bound
  <1>3. ASSUME NEW h \in Calls, HandlerStep(h), ~SetSuccess(h), ~SetFailed(h), ~Reply(h)
        PROVE  UNCHANGED <<bindPhase, kstate>>
    <2>1. CASE ServeRequest(h)
      BY <2>1 DEF ServeRequest
    <2>2. CASE ~ServeRequest(h)
      BY <1>3, <2>2
      DEF HandlerStep, GetPendingPod, GetPendingPodFails, DecodeAnnotations,
          ServeRequestFails, LoopEnds, PatchErasedAnnotation, PatchErasedAnnotationFails,
          TrySuccess, ReleaseNodeLock
    <2> QED
      BY <2>1, <2>2
  <1>4. ASSUME NEW h \in Calls, Reply(h)
        PROVE  UNCHANGED bindPhase /\ (kstate'[p] = "unbound" => kstate[p] = "unbound")
    <2>1. PICK s \in {"running", "rejected", kstate[call[h].who]} :
            kstate' = kstate \/ kstate' = [kstate EXCEPT ![call[h].who] = s]
      BY <1>4 DEF Reply
    <2> QED
      BY <1>4, <2>1 DEF Reply
  <1>5. ASSUME NEW q \in Pods, \/ LockExpires(q) \/ PluginUnavailable(q) \/ KubeletStep(q)
        PROVE  UNCHANGED bindPhase /\ (kstate'[p] = "unbound" => kstate[p] = "unbound")
    BY <1>5 DEF LockExpires, PluginUnavailable, KubeletStep, KubeletCalls
  <1>6. ASSUME GrpcStop \/ ProcessCrash \/ KubeletRestart
        PROVE  UNCHANGED bindPhase /\ (kstate'[p] = "unbound" => kstate[p] = "unbound")
    <2>1. PICK s \in {"bound", "rejected"} :
            kstate' = kstate \/ kstate' = [kstate EXCEPT ![call[waiting].who] = s]
      BY <1>6 DEF GrpcStop, ProcessCrash, KubeletRestart, Abandon
    <2> QED
      BY <1>6, <2>1 DEF GrpcStop, ProcessCrash, KubeletRestart
  <1>8. CASE UpdateDevice \/ UNCHANGED faultVars
    BY <1>8 DEF UpdateDevice, faultVars, vars, Bound
  <1>7. ASSUME NEW q \in Pods, EarlyLockExpiry(q) PROVE UNCHANGED <<bindPhase, kstate>>
    BY <1>7 DEF EarlyLockExpiry
  <1> QED
    BY <1>1, <1>2, <1>3, <1>4, <1>5, <1>6, <1>7, <1>8 DEF FaultNext, Protocol, Next, Bound

(* While nothing is restored, the entries of a bound pod only disappear.    *)
LEMMA OnlyErased ==
  ASSUME FaultInv, [FaultNext]_faultVars, ~restored'
  PROVE  /\ ~restored
         /\ \A p \in Pods, i \in Slots : Bound(p) => toAlloc'[p][i] \in {toAlloc[p][i], <<>>}
  <1>1. CASE Protocol
    BY <1>1 DEF Protocol, Restores, Bound
  <1>2. CASE KubeletRestart \/ (\E p \in Pods : EarlyLockExpiry(p)) \/ UNCHANGED faultVars
    BY <1>2 DEF KubeletRestart, EarlyLockExpiry, faultVars, vars, podVars
  <1> QED
    BY <1>1, <1>2 DEF FaultNext

(* So an answer whose entry is erased stays one.                            *)
LEMMA ErasedStays ==
  ASSUME FaultInv, [FaultNext]_faultVars, ~restored', NEW g, Erased(g), Bound(g.pod)
  PROVE  Erased(g)'
  <1> SUFFICES ASSUME NEW q \in Pods, NEW k \in Wanted[q], g = Expected[q][k]
               PROVE  toAlloc'[q][k] = <<>>
    BY DEF Erased
  <1>1. g.pod = q /\ k \in Slots
    BY ExpectedGrant DEF Wanted
  <1>2. toAlloc[q][k] = <<>>
    BY DEF Erased
  <1> QED
    BY <1>1, <1>2, OnlyErased

-----------------------------------------------------------------------------
(* ReadInv is kept.                                                         *)

(* A step that grants nothing, binds nobody and moves one handler at most.  *)
LEMMA ReadFrame ==
  ASSUME FaultInv, [FaultNext]_faultVars, NEW h \in Calls, Others(h), Started(h)',
         UNCHANGED granted, nodeLock' \in {nodeLock, NoPod},
         \A q \in Pods : Bound(q)' = Bound(q)
  PROVE  ReadInv'
  <1>1. \A p \in Pods : kstate'[p] = "unbound" => ~Bound(p)'
    BY BoundStays DEF FaultInv, ReadInv
  <1>2. \A p \in Pods : nodeLock' = p => Bound(p)'
    BY NullAssumption DEF FaultInv, ReadInv
  <1>3. \A p \in Pods, i \in Slots :
          granted[p][i] # NoGrant => bindPhase'[granted[p][i].pod] # "none"
    <2>1. \A p \in Pods, i \in Slots : granted[p][i] # NoGrant => granted[p][i].pod \in Pods
      BY DEF FaultInv, TypeOK, Grants
    <2> QED
      BY <2>1 DEF FaultInv, ReadInv, Bound
  <1>4. ASSUME NEW g \in Calls, g # h PROVE Started(g)'
    <2>1. call'[g] = call[g] /\ Started(g)
      BY <1>4 DEF Others, FaultInv, ReadInv
    <2>2. call[g].pc \in Working => call[g].pod \in Pods
      BY DEF FaultInv, PodFound
    <2>3. \A i \in Slots : call[g].resp[i] # NoGrant => call[g].resp[i].pod \in Pods
      BY DEF FaultInv, TypeOK, CallStates, Grants
    <2> QED
      BY <2>1, <2>2, <2>3 DEF Started
  <1> QED
    BY <1>1, <1>2, <1>3, <1>4 DEF ReadInv, Bound

(* A handler that keeps its pod and its answers.                            *)
LEMMA StartedFrame ==
  ASSUME FaultInv, NEW h \in Calls, call'[h].pod = call[h].pod, call'[h].resp = call[h].resp,
         call'[h].pc \in Working => call[h].pc \in Working,
         call'[h].pc # "getPod",
         call'[h].pc \in BeforePatch => call[h].pc \in BeforePatch /\ call'[h].ok = call[h].ok,
         \A q \in Pods : Bound(q)' = Bound(q)
  PROVE  Started(h)'
  <1>1. Started(h)
    BY DEF FaultInv, ReadInv
  <1>2. call[h].pc \in Working => call[h].pod \in Pods
    BY DEF FaultInv, PodFound
  <1>3. \A i \in Slots : call[h].resp[i] # NoGrant => call[h].resp[i].pod \in Pods
    BY DEF FaultInv, TypeOK, CallStates, Grants
  <1> QED
    BY <1>1, <1>2, <1>3 DEF Started

(* The steps of handlers.                                                   *)
LEMMA HandlerRead ==
  ASSUME FaultInv, [FaultNext]_faultVars, NEW h \in Calls, HandlerStep(h)
  PROVE  ReadInv'
  <1>c. CallTyped
    BY DEF FaultInv, TypeOK, CallTyped
  <1>0. CallTyped /\ TypeOK /\ ReadInv /\ Started(h) /\ PodFound
    BY <1>c DEF FaultInv, ReadInv
  <1>1. CASE GetPendingPod(h)
    <2>1. PICK q \in PendingPods :
            call' = [call EXCEPT ![h] =
                      [@ EXCEPT !.pc = "decode", !.pod = q, !.work = toAlloc[q]]]
      BY <1>1 DEF GetPendingPod
    <2>2. q \in Pods /\ Bound(q)
      BY <1>0 DEF PendingPods, TypeOK, ReadInv, Bound
    <2>3. /\ Others(h) /\ call'[h].pod = q /\ call'[h].pc = "decode"
          /\ call'[h].resp = call[h].resp /\ call'[h].ok = call[h].ok
      BY <1>0, <2>1, <2>2, GetPendingPodEffect
    <2>4. UNCHANGED <<bindPhase, granted, nodeLock>> /\ call[h].pc = "getPod"
      BY <1>1 DEF GetPendingPod, podVars, kubeletVars
    <2>5. Started(h)'
      BY <1>0, <2>2, <2>3, <2>4 DEF Started, Bound, Working, BeforePatch
    <2> QED
      BY <2>3, <2>4, <2>5, ReadFrame DEF Bound
  <1>2. CASE ServeRequest(h)
    <2>1. PICK i \in Slots, k \in Slots :
            call' = [call EXCEPT ![h] =
                 [call[h] EXCEPT !.todo = call[h].todo \ {i},
                                 !.work = [call[h].work EXCEPT ![k] = <<>>],
                                 !.resp = [call[h].resp EXCEPT
                                   ![i] = Response(call[h].pod, k, call[h].work[k])]]]
      BY <1>2 DEF ServeRequest
    <2> DEFINE g == Response(call[h].pod, k, call[h].work[k])
    <2>2. call[h].pod \in Pods /\ call[h].work[k] \in Seq(Devices) /\ call[h].pc = "pop"
      BY <1>0, <1>2 DEF ServeRequest, PodFound, Working, TypeOK, CallStates, Entries
    <2>3. g \in Grants /\ g.pod = call[h].pod
      BY <2>2, ResponseType DEF Response
    <2> HIDE DEF g
    <2>4. call' = [call EXCEPT ![h] =
                    [call[h] EXCEPT !.todo = call[h].todo \ {i},
                                    !.work = [call[h].work EXCEPT ![k] = <<>>],
                                    !.resp = [call[h].resp EXCEPT ![i] = g]]]
      BY <2>1 DEF g
    <2>5. /\ CallTyped' /\ Others(h)
          /\ call'[h].todo = call[h].todo \ {i}
          /\ call'[h].work = [call[h].work EXCEPT ![k] = <<>>]
          /\ call'[h].resp = [call[h].resp EXCEPT ![i] = g]
          /\ call'[h].pc = call[h].pc /\ call'[h].who = call[h].who
          /\ call'[h].pod = call[h].pod /\ call'[h].ok = call[h].ok
      BY <1>c, <2>3, <2>4, ServeEffect
    <2>6. UNCHANGED <<bindPhase, granted, nodeLock>>
      BY <1>2 DEF ServeRequest, podVars, kubeletVars
    <2>7. \A j \in Slots : call'[h].resp[j] \in {call[h].resp[j], g}
      BY <1>0, <2>5 DEF TypeOK, CallStates
    <2>8. Started(h)'
      BY <1>0, <2>2, <2>3, <2>5, <2>6, <2>7 DEF Started, Bound, Working, BeforePatch
    <2> QED
      BY <2>5, <2>6, <2>8, ReadFrame DEF Bound
  <1>3. CASE PatchErasedAnnotation(h)
    <2>1. Others(h) /\ call'[h].pc = "trySuccess" /\ call'[h].pod = call[h].pod
          /\ call'[h].resp = call[h].resp
      BY <1>0, <1>3, PatchEffect
    <2>2. UNCHANGED <<bindPhase, granted, nodeLock>> /\ call[h].pc = "patch"
      BY <1>3 DEF PatchErasedAnnotation, kubeletVars
    <2>3. Started(h)'
      BY <2>1, <2>2, StartedFrame DEF Bound, Working, BeforePatch
    <2> QED
      BY <2>1, <2>2, <2>3, ReadFrame DEF Bound
  <1>4. CASE \/ GetPendingPodFails(h) \/ DecodeAnnotations(h) \/ ServeRequestFails(h)
             \/ LoopEnds(h) \/ PatchErasedAnnotationFails(h) \/ TrySuccess(h)
             \/ ReleaseNodeLock(h)
    <2>1. PICK l \in PCs \ {"getPod", "idle", "decode"} :
            /\ Goto(h, l)
            /\ l \in Working => call[h].pc \in Working
            /\ l \in BeforePatch => call[h].pc \in BeforePatch
      BY <1>4 DEF GetPendingPodFails, DecodeAnnotations, ServeRequestFails, LoopEnds,
                  PatchErasedAnnotationFails, TrySuccess, ReleaseNodeLock, Fail, PCs,
                  Working, BeforePatch
    <2>2. Others(h) /\ SameButPc(h) /\ call'[h].pc = l
      BY <1>0, <2>1, GotoEffect
    <2>3. UNCHANGED <<bindPhase, granted>> /\ nodeLock' \in {nodeLock, NoPod}
      BY <1>4 DEF GetPendingPodFails, DecodeAnnotations, ServeRequestFails, LoopEnds,
                  PatchErasedAnnotationFails, TrySuccess, ReleaseNodeLock, podVars, kubeletVars
    <2>4. Started(h)'
      BY <2>1, <2>2, <2>3, StartedFrame DEF SameButPc, Bound
    <2> QED
      BY <2>2, <2>3, <2>4, ReadFrame DEF Bound
  <1>5. CASE SetSuccess(h) \/ SetFailed(h)
    <2>1. PICK phase \in {"success", "failed"} : SetBindPhase(h, phase)
      BY <1>5 DEF SetSuccess, SetFailed
    <2>2. call[h].pc \in Working /\ Bound(call[h].pod) /\ call[h].pod \in Pods
      BY <1>0, <1>5 DEF SetSuccess, SetFailed, Working, Started, PodFound
    <2>3. \A q \in Pods : Bound(q)' = Bound(q)
      BY <1>0, <2>1, <2>2 DEF SetBindPhase, TypeOK, Bound
    <2>4. UNCHANGED <<granted, nodeLock>> /\ Goto(h, "release")
      BY <2>1 DEF SetBindPhase, kubeletVars
    <2>5. Others(h) /\ SameButPc(h) /\ call'[h].pc = "release"
      BY <1>0, <2>4, GotoEffect DEF PCs
    <2>6. Started(h)'
      BY <2>2, <2>3, <2>5, StartedFrame DEF SameButPc, BeforePatch
    <2> QED
      BY <2>3, <2>4, <2>5, <2>6, ReadFrame
  <1>6. CASE Reply(h)
    <2> DEFINE p   == call[h].who
               new == [i \in Slots |-> IF call[h].resp[i] # NoGrant THEN call[h].resp[i]
                                       ELSE granted[p][i]]
    <2>1. granted' = granted \/ granted' = [granted EXCEPT ![p] = new]
      BY <1>6 DEF Reply, kubeletVars
    <2>2. UNCHANGED <<bindPhase, nodeLock>> /\ call' = [call EXCEPT ![h] = Idle]
      BY <1>6 DEF Reply, podVars
    <2>3. Others(h) /\ call'[h] = Idle
      BY <1>0, <2>2, IdleType, OneCall
    <2>4. \A q \in Pods, i \in Slots : granted'[q][i] # NoGrant => Bound(granted'[q][i].pod)
      <3>1. \A i \in Slots : p \in Pods /\ new[i] # NoGrant => Bound(new[i].pod)
        BY <1>0 DEF Started, ReadInv
      <3> HIDE DEF new
      <3> QED
        BY <1>0, <2>1, <3>1 DEF ReadInv, TypeOK
    <2>5. Started(h)'
      BY <2>3 DEF Started, Idle, NoResponses, Working, BeforePatch
    <2>6. ASSUME NEW g \in Calls, g # h PROVE Started(g)'
      BY <1>0, <2>2, <2>3, <2>6 DEF Started, ReadInv, Bound, Others
    <2>7. \A q \in Pods : kstate'[q] = "unbound" => ~Bound(q)'
      BY <1>0, <2>2, BoundStays DEF ReadInv, Bound
    <2>8. \A q \in Pods : nodeLock' = q => Bound(q)'
      BY <1>0, <2>2 DEF ReadInv, Bound
    <2> QED
      BY <2>2, <2>4, <2>5, <2>6, <2>7, <2>8 DEF ReadInv, Bound
  <1> QED
    BY <1>1, <1>2, <1>3, <1>4, <1>5, <1>6 DEF HandlerStep

(* Every step.                                                              *)
LEMMA ReadStep ==
  ASSUME FaultInv, [FaultNext]_faultVars
  PROVE  ReadInv'
  <1>0. CallTyped /\ TypeOK /\ ReadInv
    BY DEF FaultInv, TypeOK, CallTyped
  <1>1. ASSUME NEW p \in Pods, SchedulerBind(p) PROVE ReadInv'
    <2>1. /\ UNCHANGED <<granted, call>> /\ nodeLock' = p
          /\ bindPhase' = [bindPhase EXCEPT ![p] = "allocating"]
          /\ kstate' = [kstate EXCEPT ![p] = "bound"]
      BY <1>1 DEF SchedulerBind
    <2>2. \A q \in Pods : Bound(q)' <=> (q = p \/ Bound(q))
      BY <1>0, <2>1 DEF Bound, TypeOK
    <2>3. \A q : Bound(q) /\ q \in Pods => Bound(q)'
      BY <2>2
    <2>4. \A h \in Calls, i \in Slots :
            call[h].resp[i] # NoGrant => call[h].resp[i].pod \in Pods
      BY <1>0 DEF TypeOK, CallStates, Grants
    <2>5. \A q \in Pods, i \in Slots : granted[q][i] # NoGrant => granted[q][i].pod \in Pods
      BY <1>0 DEF TypeOK, Grants
    <2>6. \A h \in Calls : Started(h)'
      BY <1>0, <2>1, <2>3, <2>4 DEF ReadInv, Started, FaultInv, PodFound
    <2>7. \A q \in Pods : kstate'[q] = "unbound" => ~Bound(q)'
      BY <1>0, <2>1, <2>2 DEF ReadInv, TypeOK
    <2> QED
      BY <1>0, <2>1, <2>2, <2>5, <2>6, <2>7 DEF ReadInv
  <1>2. CASE \/ \E p \in Pods : \/ LockExpires(p) \/ PluginUnavailable(p)
                               \/ EarlyLockExpiry(p)
             \/ GrpcStop \/ UpdateDevice \/ KubeletRestart \/ UNCHANGED faultVars
    <2>1. UNCHANGED <<bindPhase, granted, call>> /\ nodeLock' \in {nodeLock, NoPod}
      BY <1>2 DEF LockExpires, PluginUnavailable, EarlyLockExpiry, GrpcStop, UpdateDevice,
                  KubeletRestart, faultVars, vars, podVars, kubeletVars
    <2>2. \A p \in Pods : kstate'[p] = "unbound" => ~Bound(p)'
      BY <1>0, <2>1, BoundStays DEF ReadInv, Bound
    <2> QED
      BY <1>0, <2>1, <2>2, NullAssumption DEF ReadInv, Started, Bound
  <1>3. ASSUME NEW p \in Pods, NEW h \in Calls, NEW R \in SUBSET Slots, KubeletCalls(p, h, R)
        PROVE  ReadInv'
    <2>1. Others(h) /\ call'[h].pc = "getPod" /\ call'[h].resp = NoResponses /\ ~call'[h].ok
      BY <1>0, <1>3, KubeletCallsEffect
    <2>2. UNCHANGED <<bindPhase, granted, nodeLock>>
      BY <1>3 DEF KubeletCalls, podVars
    <2>3. Started(h)'
      BY <2>1 DEF Started, NoResponses, Working, BeforePatch
    <2> QED
      BY <2>1, <2>2, <2>3, ReadFrame DEF Bound
  <1>4. CASE ProcessCrash
    <2>1. UNCHANGED <<bindPhase, granted, nodeLock>> /\ \A h \in Calls : call'[h] = Idle
      BY <1>4 DEF ProcessCrash, podVars
    <2>2. \A h \in Calls : Started(h)'
      BY <2>1 DEF Started, Idle, NoResponses, Working, BeforePatch
    <2>3. \A p \in Pods : kstate'[p] = "unbound" => ~Bound(p)'
      BY <1>0, <2>1, BoundStays DEF ReadInv, Bound
    <2> QED
      BY <1>0, <2>1, <2>2, <2>3 DEF ReadInv, Bound
  <1> QED
    BY <1>1, <1>2, <1>3, <1>4, HandlerRead DEF FaultNext, Protocol, Next, KubeletStep

-----------------------------------------------------------------------------
(* OnceInv is kept.                                                         *)

(* A step that grants nothing.                                              *)
LEMMA OnceFrame ==
  ASSUME FaultInv, [FaultNext]_faultVars, UNCHANGED granted,
         ~restored' => (waiting # NoCall => Awaited(waiting))'
  PROVE  OnceInv'
  <1> SUFFICES ASSUME ~restored' PROVE GrantsErased' /\ GrantsDistinct'
    BY DEF OnceInv
  <1>1. GrantsErased /\ GrantsDistinct
    BY OnlyErased DEF FaultInv, OnceInv
  <1>2. GrantsErased'
    BY <1>1, ErasedStays DEF GrantsErased, FaultInv, ReadInv
  <1> QED
    BY <1>1, <1>2 DEF GrantsDistinct

(* A call that keeps its answers, and what it works with.                   *)
LEMMA AwaitedFrame ==
  ASSUME FaultInv, [FaultNext]_faultVars, ~restored', NEW w \in Calls, Awaited(w),
         UNCHANGED granted, call'[w].resp = call[w].resp, call'[w].ok => call[w].ok,
         call'[w].pc \in Working => /\ call[w].pc \in Working
                                    /\ call'[w].pod = call[w].pod
                                    /\ call'[w].work = call[w].work
  PROVE  Awaited(w)'
  <1>1. \A g : Given(g)' <=> Given(g)
    BY DEF Given
  <1>2. ASSUME NEW i \in Slots, call[w].resp[i] # NoGrant, call[w].ok
        PROVE  Erased(call[w].resp[i])'
    BY <1>2, ErasedStays DEF Awaited, FaultInv, ReadInv, Started
  <1>3. \A i \in Slots : call[w].resp[i] # NoGrant =>
          /\ ~Given(call[w].resp[i])'
          /\ call'[w].ok => Erased(call[w].resp[i])'
          /\ \A j \in Slots : call[w].resp[i] = call[w].resp[j] => i = j
    BY <1>1, <1>2 DEF Awaited
  <1>4. call'[w].pc \in Working => \A k \in Slots : call[w].work[k] # <<>> =>
          /\ ~Given(Expected[call[w].pod][k])'
          /\ \A i \in Slots : call[w].resp[i] # Expected[call[w].pod][k]
    BY <1>1 DEF Awaited
  <1> QED
    BY <1>3, <1>4 DEF Awaited

(* The copy a call starts from holds what nobody has been given.            *)
LEMMA ReadIsNew ==
  ASSUME FaultInv, ~restored, NEW q \in Pods, NEW k \in Slots, toAlloc[q][k] # <<>>
  PROVE  ~Given(Expected[q][k]) /\ Expected[q][k] # NoGrant
  <1>1. k \in Wanted[q]
    BY PartWanted DEF FaultInv, WholeInv
  <1>2. Expected[q][k] # NoGrant
    BY <1>1, ExpectedGrant
  <1>3. ~Erased(Expected[q][k])
    BY <1>1 DEF Erased
  <1> QED
    BY <1>2, <1>3 DEF FaultInv, OnceInv, GrantsErased, Given

(* One turn of the pop loop moves an entry from the copy to the answers.    *)
LEMMA ServeAwaited ==
  ASSUME FaultInv, ~restored, NEW h \in Calls, Awaited(h), call[h].pc = "pop",
         NEW i \in Slots, NEW k \in Slots, FirstEntry(h, k), UNCHANGED granted,
         call'[h].work = [call[h].work EXCEPT ![k] = <<>>],
         call'[h].resp =
           [call[h].resp EXCEPT ![i] = Response(call[h].pod, k, call[h].work[k])],
         call'[h].pod = call[h].pod, call'[h].ok = call[h].ok
  PROVE  Awaited(h)'
  <1> DEFINE q == call[h].pod
             g == Expected[q][k]
  <1>1. /\ call[h].pc \in Working /\ q \in Pods /\ Part(q, call[h].work) /\ ~call[h].ok
        /\ call[h].work \in [Slots -> Seq(Devices)]
        /\ call[h].resp \in [Slots -> Grants \cup {NoGrant}]
    BY DEF FaultInv, PodFound, WholeInv, ReadInv, Started, Working, BeforePatch, TypeOK,
           CallStates, Entries
  <1>2. call[h].work[k] # <<>> /\ k \in Wanted[q]
    BY <1>1, PartWanted DEF FirstEntry
  <1>3. call[h].work[k] = Assigned[q][k]
    BY <1>1, <1>2 DEF Part
  <1>4. Response(q, k, call[h].work[k]) = g
    BY <1>1, <1>2, <1>3, NameOfSlot
  <1>5. \A j \in Slots : call'[h].resp[j] = IF j = i THEN g ELSE call[h].resp[j]
    BY <1>1, <1>4
  <1>6. \A j \in Slots : call'[h].work[j] # <<>> => j # k /\ call[h].work[j] # <<>>
    BY <1>1
  <1>7. ~Given(g) /\ \A j \in Slots : call[h].resp[j] # g
    BY <1>1, <1>2 DEF Awaited
  <1>8. \A j \in Slots : call[h].work[j] # <<>> /\ j # k => g # Expected[q][j]
    BY <1>1, <1>2, PartWanted, ExpectedDistinct
  <1>9. \A x : Given(x)' <=> Given(x)
    BY DEF Given
  <1> HIDE DEF g
  <1>10. \A j \in Slots : call'[h].resp[j] # NoGrant =>
           /\ ~Given(call'[h].resp[j])
           /\ \A l \in Slots : call'[h].resp[j] = call'[h].resp[l] => j = l
    BY <1>5, <1>7 DEF Awaited
  <1>11. \A j \in Slots : call'[h].work[j] # <<>> =>
           /\ ~Given(Expected[q][j])
           /\ \A l \in Slots : call'[h].resp[l] # Expected[q][j]
    BY <1>1, <1>5, <1>6, <1>8 DEF Awaited
  <1> QED
    BY <1>1, <1>9, <1>10, <1>11 DEF Awaited

(* The patch erases the entries of all answers: the copy holds none.        *)
LEMMA PatchAwaited ==
  ASSUME FaultInv, [FaultNext]_faultVars, ~restored', NEW h \in Calls, Awaited(h),
         PatchErasedAnnotation(h)
  PROVE  Awaited(h)'
  <1>0. CallTyped /\ TypeOK /\ call[h].pc = "patch"
    BY DEF FaultInv, TypeOK, CallTyped, PatchErasedAnnotation
  <1>1. /\ call'[h].resp = call[h].resp /\ call'[h].pod = call[h].pod
        /\ call'[h].work = call[h].work
    BY <1>0, PatchEffect
  <1>2. /\ call[h].pod \in Pods /\ UNCHANGED granted
        /\ toAlloc' = [toAlloc EXCEPT ![call[h].pod] = call[h].work]
    BY <1>0 DEF FaultInv, PodFound, Working, PatchErasedAnnotation, kubeletVars
  <1>3. \A x : Given(x)' <=> Given(x)
    BY <1>2 DEF Given
  <1>4. ASSUME NEW i \in Slots, call[h].resp[i] # NoGrant
        PROVE  \A q \in Pods : \A k \in Wanted[q] :
                 call[h].resp[i] = Expected[q][k] => toAlloc'[q][k] = <<>>
    <2> SUFFICES ASSUME NEW q \in Pods, NEW k \in Wanted[q], call[h].resp[i] = Expected[q][k]
                 PROVE  toAlloc'[q][k] = <<>>
      OBVIOUS
    <2>1. q = call[h].pod /\ k \in Slots
      BY <1>0, <1>4, ExpectedGrant DEF FaultInv, ReadInv, Started, Working, Wanted
    <2>2. call[h].work[k] = <<>>
      BY <1>0, <2>1 DEF Awaited, Working
    <2> QED
      BY <1>0, <1>2, <2>1, <2>2 DEF TypeOK
  <1>5. \A i \in Slots : call[h].resp[i] # NoGrant =>
          /\ ~Given(call[h].resp[i])
          /\ \A j \in Slots : call[h].resp[i] = call[h].resp[j] => i = j
    BY DEF Awaited
  <1>6. \A k \in Slots : call[h].work[k] # <<>> =>
          /\ ~Given(Expected[call[h].pod][k])
          /\ \A i \in Slots : call[h].resp[i] # Expected[call[h].pod][k]
    BY <1>0 DEF Awaited, Working
  <1> QED
    BY <1>1, <1>3, <1>4, <1>5, <1>6 DEF Awaited, Erased

(* The answers of the successful call are granted.                          *)
LEMMA ReplyOnce ==
  ASSUME FaultInv, [FaultNext]_faultVars, ~restored', NEW h \in Calls, Reply(h),
         waiting = h, call[h].ok
  PROVE  GrantsErased' /\ GrantsDistinct'
  <1> DEFINE p   == call[h].who
             new == [i \in Slots |-> IF call[h].resp[i] # NoGrant THEN call[h].resp[i]
                                     ELSE granted[p][i]]
  <1>1. granted' = [granted EXCEPT ![p] = new]
    BY DEF Reply
  <1>2. GrantsErased /\ GrantsDistinct /\ Awaited(h) /\ Started(h) /\ ReadInv /\ TypeOK
    BY OnlyErased, NullAssumption DEF FaultInv, OnceInv, ReadInv
  <1>3. \A q \in Pods, i \in Slots :
          \/ granted'[q][i] = granted[q][i] /\ (q = p => call[h].resp[i] = NoGrant)
          \/ q = p /\ granted'[q][i] = call[h].resp[i] /\ call[h].resp[i] # NoGrant
    BY <1>1, <1>2 DEF TypeOK
  <1>4. \A g : (\E i \in Slots : g = call[h].resp[i] /\ g # NoGrant) => Erased(g)'
    BY <1>2, ErasedStays DEF Awaited, Started
  <1>5. \A g : (\E q \in Pods, i \in Slots : g = granted[q][i] /\ g # NoGrant) => Erased(g)'
    BY <1>2, ErasedStays DEF GrantsErased, ReadInv
  <1>6. GrantsErased'
    <2>1. \A q \in Pods, i \in Slots : granted'[q][i] # NoGrant =>
            \E g : g = granted'[q][i] /\ Erased(g)'
      BY <1>3, <1>4, <1>5
    <2> QED
      BY <2>1 DEF GrantsErased, Erased
  <1>7. GrantsDistinct'
    BY <1>2, <1>3 DEF GrantsDistinct, Awaited, Given
  <1> QED
    BY <1>6, <1>7

(* The steps of handlers.                                                   *)
LEMMA HandlerOnce ==
  ASSUME FaultInv, [FaultNext]_faultVars, NEW h \in Calls, HandlerStep(h)
  PROVE  OnceInv'
  <1> SUFFICES ASSUME ~restored' PROVE OnceInv'
    BY DEF OnceInv
  <1>c. CallTyped
    BY DEF FaultInv, TypeOK, CallTyped
  <1>0. /\ CallTyped /\ TypeOK /\ ReadInv /\ Started(h) /\ PodFound /\ ~restored
        /\ GrantsErased /\ GrantsDistinct /\ (waiting # NoCall => Awaited(waiting))
        /\ waiting \in Calls \cup {NoCall} /\ h # NoCall
    BY OnlyErased, NullAssumption DEF FaultInv, TypeOK, CallTyped, ReadInv, OnceInv
  <1>1. CASE GetPendingPod(h)
    <2>1. PICK q \in Pods :
            call' = [call EXCEPT ![h] =
                      [@ EXCEPT !.pc = "decode", !.pod = q, !.work = toAlloc[q]]]
      BY <1>0, <1>1 DEF GetPendingPod, PendingPods, TypeOK
    <2>2. /\ call'[h].pod = q /\ call'[h].work = toAlloc[q]
          /\ call'[h].resp = call[h].resp /\ call'[h].ok = call[h].ok
      BY <1>0, <2>1, GetPendingPodEffect
    <2>3. UNCHANGED <<granted, waiting>> /\ call[h].pc = "getPod" /\ waiting = h
      BY <1>1 DEF GetPendingPod, podVars, kubeletVars
    <2>4. \A i \in Slots : call'[h].resp[i] = NoGrant
      BY <1>0, <2>2, <2>3 DEF Started
    <2>5. \A k \in Slots : toAlloc[q][k] # <<>> =>
            ~Given(Expected[q][k])' /\ Expected[q][k] # NoGrant
      BY <1>0, <2>3, ReadIsNew DEF Given
    <2>6. Awaited(h)'
      BY <2>2, <2>4, <2>5 DEF Awaited
    <2> QED
      BY <2>3, <2>6, OnceFrame
  <1>2. CASE ServeRequest(h)
    <2>1. PICK i \in Slots, k \in Slots :
            /\ FirstEntry(h, k)
            /\ call' = [call EXCEPT ![h] =
                 [call[h] EXCEPT !.todo = call[h].todo \ {i},
                                 !.work = [call[h].work EXCEPT ![k] = <<>>],
                                 !.resp = [call[h].resp EXCEPT
                                   ![i] = Response(call[h].pod, k, call[h].work[k])]]]
      BY <1>2 DEF ServeRequest
    <2>2. Response(call[h].pod, k, call[h].work[k]) \in Grants /\ call[h].pc = "pop"
      BY <1>0, <1>2, ResponseType DEF ServeRequest, PodFound, Working, TypeOK, CallStates, Entries
    <2>3. /\ Others(h)
          /\ call'[h].work = [call[h].work EXCEPT ![k] = <<>>]
          /\ call'[h].resp =
               [call[h].resp EXCEPT ![i] = Response(call[h].pod, k, call[h].work[k])]
          /\ call'[h].pod = call[h].pod /\ call'[h].ok = call[h].ok
      <3> DEFINE g == Response(call[h].pod, k, call[h].work[k])
      <3>1. g \in Grants
        BY <2>2
      <3>2. call' = [call EXCEPT ![h] =
                      [call[h] EXCEPT !.todo = call[h].todo \ {i},
                                      !.work = [call[h].work EXCEPT ![k] = <<>>],
                                      !.resp = [call[h].resp EXCEPT ![i] = g]]]
        BY <2>1
      <3> HIDE DEF g
      <3>3. /\ CallTyped' /\ Others(h)
            /\ call'[h].todo = call[h].todo \ {i}
            /\ call'[h].work = [call[h].work EXCEPT ![k] = <<>>]
            /\ call'[h].resp = [call[h].resp EXCEPT ![i] = g]
            /\ call'[h].pc = call[h].pc /\ call'[h].who = call[h].who
            /\ call'[h].pod = call[h].pod /\ call'[h].ok = call[h].ok
        BY <1>c, <3>1, <3>2, ServeEffect
      <3> QED
        BY <3>3 DEF g
    <2>4. UNCHANGED <<granted, waiting>>
      BY <1>2 DEF ServeRequest, podVars, kubeletVars
    <2>5. CASE waiting = h
      BY <1>0, <2>1, <2>2, <2>3, <2>4, <2>5, ServeAwaited, OnceFrame
    <2>6. CASE waiting # h
      BY <1>0, <2>3, <2>4, <2>6, AwaitedFrame, OnceFrame DEF Others
    <2> QED
      BY <2>5, <2>6
  <1>3. CASE PatchErasedAnnotation(h)
    <2>1. Others(h) /\ UNCHANGED <<granted, waiting>>
      BY <1>0, <1>3, PatchEffect DEF PatchErasedAnnotation, kubeletVars
    <2>2. CASE waiting = h
      BY <1>0, <1>3, <2>1, <2>2, PatchAwaited, OnceFrame
    <2>3. CASE waiting # h
      BY <1>0, <2>1, <2>3, AwaitedFrame, OnceFrame DEF Others
    <2> QED
      BY <2>2, <2>3
  <1>4. CASE \/ GetPendingPodFails(h) \/ DecodeAnnotations(h) \/ ServeRequestFails(h)
             \/ LoopEnds(h) \/ PatchErasedAnnotationFails(h) \/ TrySuccess(h)
             \/ SetSuccess(h) \/ SetFailed(h) \/ ReleaseNodeLock(h)
    <2>1. PICK l \in PCs : Goto(h, l) /\ (l \in Working => call[h].pc \in Working)
      BY <1>4 DEF GetPendingPodFails, DecodeAnnotations, ServeRequestFails, LoopEnds,
                  PatchErasedAnnotationFails, TrySuccess, SetSuccess, SetFailed, SetBindPhase,
                  ReleaseNodeLock, Fail, PCs, Working
    <2>2. Others(h) /\ SameButPc(h) /\ call'[h].pc = l
      BY <1>0, <2>1, GotoEffect
    <2>3. UNCHANGED <<granted, waiting>>
      BY <1>4 DEF GetPendingPodFails, DecodeAnnotations, ServeRequestFails, LoopEnds,
                  PatchErasedAnnotationFails, TrySuccess, SetSuccess, SetFailed, SetBindPhase,
                  ReleaseNodeLock, podVars, kubeletVars
    <2>4. \A w \in Calls : Awaited(w) => Awaited(w)'
      BY <2>1, <2>2, <2>3, AwaitedFrame DEF Others, SameButPc
    <2> QED
      BY <1>0, <2>3, <2>4, OnceFrame
  <1>5. CASE Reply(h)
    <2>1. Others(h)
      BY <1>0, <1>5, IdleType, OneCall DEF Reply
    <2>2. CASE waiting = h /\ call[h].ok
      <3>1. waiting' = NoCall
        BY <1>5, <2>2 DEF Reply
      <3> QED
        BY <1>5, <2>2, <3>1, ReplyOnce DEF OnceInv
    <2>3. CASE waiting = h /\ ~call[h].ok
      <3>1. waiting' = NoCall /\ UNCHANGED granted
        BY <1>5, <2>3 DEF Reply
      <3> QED
        BY <3>1, OnceFrame
    <2>4. CASE waiting # h
      <3>1. UNCHANGED <<granted, waiting>>
        BY <1>5, <2>4 DEF Reply, kubeletVars
      <3> QED
        BY <1>0, <2>1, <2>4, <3>1, AwaitedFrame, OnceFrame DEF Others
    <2> QED
      BY <2>2, <2>3, <2>4
  <1> QED
    BY <1>1, <1>2, <1>3, <1>4, <1>5 DEF HandlerStep

(* Every step.                                                              *)
LEMMA OnceStep ==
  ASSUME FaultInv, [FaultNext]_faultVars
  PROVE  OnceInv'
  <1> SUFFICES ASSUME ~restored' PROVE OnceInv'
    BY DEF OnceInv
  <1>0. /\ CallTyped /\ TypeOK /\ (waiting # NoCall => Awaited(waiting))
        /\ waiting \in Calls \cup {NoCall}
    BY OnlyErased DEF FaultInv, TypeOK, CallTyped, OnceInv
  <1>1. CASE \/ \E p \in Pods : \/ SchedulerBind(p) \/ LockExpires(p)
                               \/ PluginUnavailable(p) \/ EarlyLockExpiry(p)
             \/ UpdateDevice \/ UNCHANGED faultVars
    <2>1. UNCHANGED <<granted, waiting, call>>
      BY <1>1 DEF SchedulerBind, LockExpires, PluginUnavailable, EarlyLockExpiry,
                  UpdateDevice, faultVars, vars, kubeletVars
    <2> QED
      BY <1>0, <2>1, AwaitedFrame, OnceFrame
  <1>2. ASSUME NEW p \in Pods, NEW h \in Calls, NEW R \in SUBSET Slots, KubeletCalls(p, h, R)
        PROVE  OnceInv'
    <2>1. call'[h].pc = "getPod" /\ call'[h].resp = NoResponses
      BY <1>0, <1>2, KubeletCallsEffect
    <2>2. UNCHANGED granted /\ waiting' = h
      BY <1>2 DEF KubeletCalls
    <2>3. Awaited(h)'
      BY <2>1 DEF Awaited, NoResponses, Working
    <2> QED
      BY <2>2, <2>3, OnceFrame
  <1>3. CASE GrpcStop \/ ProcessCrash \/ KubeletRestart
    <2>1. UNCHANGED granted /\ waiting' = NoCall
      BY <1>3 DEF GrpcStop, ProcessCrash, KubeletRestart, Abandon
    <2> QED
      BY <2>1, OnceFrame
  <1> QED
    BY <1>1, <1>2, <1>3, HandlerOnce DEF FaultNext, Protocol, Next, KubeletStep

(* Initially nothing is bound and nothing handed out.                       *)
LEMMA FaultInvInit == FaultInit => FaultInv
  <1> SUFFICES ASSUME FaultInit PROVE FaultInv
    OBVIOUS
  <1>1. TypeOK /\ PodFound /\ WholeInv
    BY TypingInit, WholeInit DEF FaultInit
  <1>2. ReadInv
    BY NullAssumption
    DEF FaultInit, Init, ReadInv, Bound, Started, Idle, NoResponses, Working, BeforePatch
  <1>3. OnceInv
    BY DEF FaultInit, Init, OnceInv, GrantsErased, GrantsDistinct, NoResponses
  <1> QED
    BY <1>1, <1>2, <1>3 DEF FaultInv

(* GrantedOnce: no decision of the scheduler is handed out twice, to        *)
(* whichever pod or container, by any mixture of calls, kubelet restarts   *)
(* and locks that expire early, as long as no late patch has written back  *)
(* an entry (server.go, the pop loop and the patch of Allocate).           *)
THEOREM OnceGranted == FaultSpec => []GrantedOnce
  <1>1. FaultInv /\ [FaultNext]_faultVars => FaultInv'
    BY FaultTyping, WholeStep, ReadStep, OnceStep DEF FaultInv
  <1>2. FaultInv => GrantedOnce
    BY DEF FaultInv, OnceInv, GrantsDistinct, GrantedOnce
  <1> QED
    BY <1>1, <1>2, FaultInvInit, PTL DEF FaultSpec
=============================================================================
