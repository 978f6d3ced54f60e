---------------------- MODULE AllocateRefinementProofs ----------------------
(***************************************************************************)
(* Allocate implements DeviceGrants, and no patch restores an entry of the *)
(* annotation: two properties of steps, from the invariant of              *)
(* AllocateProofs.                                                         *)
(***************************************************************************)
EXTENDS AllocateProofs

-----------------------------------------------------------------------------
(* The refinement.                                                          *)

Settled == {"running", "rejected"}
Outcome(p) == IF kstate[p] \in Settled THEN kstate[p] ELSE "waiting"

(* The initial states map to the initial states of DeviceGrants.            *)
LEMMA RefinementInit == Init => DG!Init
  BY DEF Init, DG!Init, NoResponses

(* A step that leaves kubelet's state alone is a stutter of DeviceGrants.   *)
LEMMA StutterStep ==
  ASSUME granted' = granted, \A q \in Pods : Outcome(q)' = Outcome(q)
  PROVE  UNCHANGED DG!vars
  BY DEF DG!vars, Outcome, Settled

(* A step that rejects one waiting pod is DeviceGrants' Reject.             *)
LEMMA RejectStep ==
  ASSUME TypeOK, NEW p \in Pods, kstate[p] \notin Settled,
         kstate' = [kstate EXCEPT ![p] = "rejected"], granted' = granted
  PROVE  DG!Next
  <1>1. kstate \in [Pods -> PodStates]
    BY DEF TypeOK
  <1>2. DG!Reject(p)
    BY <1>1 DEF DG!Reject, Settled
  <1> QED
    BY <1>2 DEF DG!Next

(* A Grant of some containers of some pod is a step of DeviceGrants.         *)
LEMMA GrantIsNext ==
  ASSUME NEW p \in Pods, NEW R \in SUBSET Slots, DG!Grant(p, R)
  PROVE  DG!Next
  BY DEF DG!Next

(* A successful answer grants the containers the call served.               *)
LEMMA GrantStep ==
  ASSUME TypeOK, IInv, NEW h \in Calls, Reply(h), waiting = h, call[h].ok
  PROVE  DG!Next
  <1>p. PICK p \in Pods : p = call[h].who /\ kstate[p] = "admitting"
                          /\ DataInv(h) /\ PcInv(h)
    BY HandlerFacts DEF Reply
  <1>r. PICK R \in SUBSET Slots : R = Served(h)
    BY DEF Served
  <1> USE <1>r
  <1> DEFINE new == [i \in Slots |-> IF call[h].resp[i] # NoGrant THEN call[h].resp[i]
                                    ELSE granted[p][i]]
             all == \A i \in Wanted[p] : new[i] # NoGrant
  <1>1. /\ granted' = [granted EXCEPT ![p] = new]
        /\ kstate' = [kstate EXCEPT ![p] = IF all THEN "running" ELSE @]
    BY <1>p DEF Reply
  <1>2. /\ R # {} /\ R \subseteq Missing(p)
        /\ \A i \in R, j \in Missing(p) : j < i => j \in R
    <2>1. Missing(p) \subseteq Slots
      BY DEF Missing, Wanted
    <2> QED
      BY <1>p, <2>1 DEF DataInv, PcInv, Served
  <1>3. new = [i \in Slots |-> IF i \in R THEN Expected[p][i] ELSE granted[p][i]]
    BY <1>p DEF DataInv, Served
  <1>4. all <=> Missing(p) = R
    BY <1>2 DEF Missing, Wanted, Served
  <1>5. DG!Missing(p) = Missing(p)
    BY DEF DG!Missing, Missing
  <1>6. kstate \in [Pods -> PodStates]
    BY DEF TypeOK
  <1> HIDE DEF new, all
  <1>8. DG!Grant(p, R)
    <2>1. granted' = [granted EXCEPT ![p] =
                        [i \in Slots |-> IF i \in R THEN Expected[p][i] ELSE granted[p][i]]]
      BY <1>1, <1>3
    <2>2. [q \in Pods |-> IF kstate[q] \in {"running", "rejected"} THEN kstate[q] ELSE "waiting"]'
          = [[q \in Pods |-> IF kstate[q] \in {"running", "rejected"} THEN kstate[q] ELSE "waiting"]
               EXCEPT ![p] = IF Missing(p) = R THEN "running" ELSE "waiting"]
      BY <1>p, <1>1, <1>4, <1>6
    <2> QED
      BY <1>p, <1>2, <1>5, <2>1, <2>2 DEF DG!Grant
  <1> QED
    BY <1>p, <1>8, GrantIsNext

(* Every step maps to a step of DeviceGrants or to a stutter.               *)
LEMMA RefinementStep ==
  TypeOK /\ IInv /\ [Next]_vars => [DG!Next]_DG!vars
  <1> SUFFICES ASSUME TypeOK, IInv, [Next]_vars PROVE DG!Next \/ UNCHANGED DG!vars
    OBVIOUS
  <1>0. kstate \in [Pods -> PodStates]
    BY DEF TypeOK
  <1>1. ASSUME NEW p \in Pods, SchedulerBind(p) \/ KubeletStep(p)
        PROVE  UNCHANGED DG!vars
    BY <1>0, <1>1, StutterStep
    DEF SchedulerBind, KubeletStep, KubeletCalls, MayCall, Outcome, Settled
  <1>2. ASSUME NEW p \in Pods, PluginUnavailable(p) PROVE DG!Next
    BY <1>2, RejectStep DEF PluginUnavailable, MayCall, Settled
  <1>3. ASSUME UNCHANGED <<kstate, granted>> PROVE UNCHANGED DG!vars
    BY <1>3, StutterStep DEF Outcome
  <1>4. ASSUME granted' = granted, Abandon PROVE DG!Next \/ UNCHANGED DG!vars
    <2>1. CASE waiting = NoCall
      BY <1>3, <1>4, <2>1 DEF Abandon
    <2>2. CASE waiting # NoCall
      <3>1. call[waiting].who \in Pods /\ kstate[call[waiting].who] = "admitting"
        BY <2>2 DEF IInv, AdmissionInv
      <3> QED
        BY <1>4, <2>2, <3>1, RejectStep DEF Abandon, Settled
    <2> QED
      BY <2>1, <2>2
  <1>5. ASSUME NEW h \in Calls, Reply(h) PROVE DG!Next \/ UNCHANGED DG!vars
    <2>1. CASE waiting = h /\ call[h].ok
      BY <1>5, <2>1, GrantStep
    <2>2. CASE waiting = h /\ ~call[h].ok
      <3>1. call[h].who \in Pods /\ kstate[call[h].who] = "admitting"
        BY <1>5, <2>2, HandlerFacts DEF Reply
      <3>2. kstate' = [kstate EXCEPT ![call[h].who] = "rejected"] /\ granted' = granted
        BY <1>5, <2>2 DEF Reply
      <3> QED
        BY <3>1, <3>2, RejectStep DEF Settled
    <2>3. CASE waiting # h
      BY <1>3, <1>5, <2>3 DEF Reply, kubeletVars
    <2> QED
      BY <2>1, <2>2, <2>3
  <1>6. ASSUME NEW h \in Calls, HandlerStep(h), ~Reply(h) PROVE UNCHANGED <<kstate, granted>>
    BY <1>6
    DEF HandlerStep, GetPendingPod, GetPendingPodFails, DecodeAnnotations, ServeRequest,
        ServeRequestFails, LoopEnds, PatchErasedAnnotation, PatchErasedAnnotationFails,
        TrySuccess, SetSuccess, SetFailed, SetBindPhase, ReleaseNodeLock, kubeletVars
  <1>7. ASSUME NEW p \in Pods, LockExpires(p) PROVE UNCHANGED <<kstate, granted>>
    BY <1>7 DEF LockExpires, kubeletVars
  <1>8. CASE GrpcStop \/ ProcessCrash
    BY <1>4, <1>8 DEF GrpcStop, ProcessCrash
  <1>9. CASE UpdateDevice \/ UNCHANGED vars
    BY <1>3, <1>9 DEF UpdateDevice, vars, kubeletVars
  <1> QED
    BY <1>1, <1>2, <1>3, <1>5, <1>6, <1>7, <1>8, <1>9 DEF Next

(* RefinesDeviceGrants: Allocate, with the scheduler and kubelet around it, *)
(* gives pods what DeviceGrants promises and nothing else.                 *)
THEOREM ImplementsDeviceGrants == Spec => RefinesDeviceGrants
  <1>1. Init => DG!Init
    BY RefinementInit
  <1>2. TypeOK /\ PodFound /\ IInv /\ [Next]_vars => [DG!Next]_DG!vars
    BY RefinementStep
  <1>3. Spec => []TypeOK /\ []PodFound /\ []IInv
    BY InvariantHolds, PTL
  <1> QED
    BY <1>1, <1>2, <1>3, PTL DEF Spec, RefinesDeviceGrants, DG!Spec

(* A pod of DeviceGrants that runs holds its decision: no step takes a      *)
(* grant back, and the last one gives all that is missing.                 *)
LEMMA ServedStep ==
  ASSUME TypeOK, TypeOK', GrantsMatchAssignment, DG!RunningIsServed, [DG!Next]_DG!vars
  PROVE  DG!RunningIsServed'
  <1>1. SUFFICES ASSUME NEW p \in Pods, kstate'[p] = "running", NEW i \in Wanted[p]
                 PROVE  granted'[p][i] = Expected[p][i]
    BY DEF DG!RunningIsServed
  <1>2. kstate[p] = "running" => granted[p][i] = Expected[p][i]
    BY DEF DG!RunningIsServed
  <1>3. CASE UNCHANGED DG!vars
    <2>1. Outcome(p)' = Outcome(p) /\ granted' = granted
      BY <1>3 DEF DG!vars, Outcome, Settled
    <2> QED
      BY <1>1, <1>2, <2>1 DEF Outcome, Settled
  <1>4. ASSUME NEW q \in Pods, DG!Reject(q) PROVE granted'[p][i] = Expected[p][i]
    <2>1. granted' = granted
      BY <1>4 DEF DG!Reject
    <2>2. Outcome(p)' = IF p = q THEN "rejected" ELSE Outcome(p)
      BY <1>4 DEF DG!Reject, Outcome, Settled
    <2>3. kstate[p] = "running"
      BY <1>1, <2>2 DEF Outcome, Settled
    <2> QED
      BY <1>2, <2>1, <2>3
  <1>5. ASSUME NEW q \in Pods, NEW R \in SUBSET Slots, DG!Grant(q, R)
        PROVE  granted'[p][i] = Expected[p][i]
    <2>1. /\ granted' = [granted EXCEPT ![q] =
                           [j \in Slots |-> IF j \in R THEN Expected[q][j] ELSE granted[q][j]]]
          /\ Outcome(p)' = IF p = q THEN IF DG!Missing(q) = R THEN "running" ELSE "waiting"
                           ELSE Outcome(p)
          /\ Outcome(q) = "waiting"
      BY <1>5 DEF DG!Grant, Outcome, Settled
    <2>2. Outcome(p)' = "running" /\ i \in Slots
      BY <1>1 DEF Outcome, Settled, Wanted
    <2>3. CASE p # q
      <3>1. kstate[p] = "running" /\ granted'[p] = granted[p]
        BY <2>1, <2>2, <2>3 DEF Outcome, Settled
      <3> QED
        BY <1>2, <3>1
    <2>4. CASE p = q
      <3>1. granted'[p][i] = IF i \in R THEN Expected[p][i] ELSE granted[p][i]
        BY <2>1, <2>2, <2>4 DEF TypeOK
      <3>2. DG!Missing(p) = R
        BY <2>1, <2>2, <2>4
      <3>3. i \notin R => granted[p][i] # NoGrant
        BY <3>2 DEF DG!Missing
      <3> QED
        BY <2>2, <3>1, <3>3 DEF GrantsMatchAssignment
    <2> QED
      BY <2>3, <2>4
  <1> QED
    BY <1>3, <1>4, <1>5 DEF DG!Next

(* What DeviceGrants implies for its pods therefore holds of Allocate: a    *)
(* pod that runs holds, for every container that asks for devices, exactly *)
(* what the scheduler decided for that container (server.go, Allocate).    *)
THEOREM RunningPodsServed == Spec => []DG!RunningIsServed
  <1>1. Init => DG!RunningIsServed
    BY DEF Init, DG!RunningIsServed
  <1>2. TypeOK /\ PodFound /\ IInv /\ DG!RunningIsServed /\ [Next]_vars => DG!RunningIsServed'
    BY TypingStep, RefinementStep, ServedStep DEF IInv
  <1> QED
    BY <1>1, <1>2, InvariantHolds, PTL DEF Spec

-----------------------------------------------------------------------------
(* The patches.                                                             *)

(* A handler's copy of the annotation holds what the annotation holds, but  *)
(* for what the handler has popped, though kubelet may have given up on it. *)
WorkInv == \A h \in Calls : call[h].pc \in BeforePatch =>
             \A i \in Slots : call[h].work[i] \in {toAlloc[call[h].who][i], <<>>}

(* No handler has a working copy initially.                                 *)
LEMMA WorkInit == Init => WorkInv
  BY DEF Init, WorkInv, Idle, BeforePatch

(* A step of one handler that keeps its own copy valid, and leaves the      *)
(* annotations of the other pods alone, keeps the copies of all valid.      *)
LEMMA WorkFrame ==
  ASSUME TypeOK, IInv, WorkInv, NEW h \in Calls, Others(h), call[h].pc # "idle",
         \A q \in Pods : q # call[h].who => toAlloc'[q] = toAlloc[q],
         call'[h].pc \in BeforePatch =>
           \A i \in Slots : call'[h].work[i] \in {toAlloc'[call'[h].who][i], <<>>}
  PROVE  WorkInv'
  <1>1. ASSUME NEW g \in Calls, g # h, call'[g].pc \in BeforePatch
        PROVE  call'[g] = call[g] /\ toAlloc'[call[g].who] = toAlloc[call[g].who]
    BY <1>1 DEF IInv, AdmissionInv, Others, BeforePatch
  <1> QED
    BY <1>1 DEF WorkInv

(* A handler writes no annotation but by its patch, and then its copy of    *)
(* it; what it does to other pods' annotations is nothing.                  *)
LEMMA EntriesOfHandler ==
  ASSUME TypeOK, IInv, WorkInv, NEW h \in Calls, HandlerStep(h)
  PROVE  \A p \in Pods : /\ p # call[h].who => toAlloc'[p] = toAlloc[p]
                         /\ \A i \in Slots : toAlloc'[p][i] \in {toAlloc[p][i], <<>>}
  <1>1. CASE toAlloc' = toAlloc
    BY <1>1
  <1>2. CASE PatchErasedAnnotation(h) \/ PatchErasedAnnotationFails(h)
    <2>1. call[h].pc = "patch" /\ call[h].pod = call[h].who
      BY <1>2 DEF PatchErasedAnnotation, PatchErasedAnnotationFails, IInv, OwnPodInv, Working
    <2>2. \A i \in Slots : call[h].work[i] \in {toAlloc[call[h].who][i], <<>>}
      BY <2>1 DEF WorkInv, BeforePatch
    <2>3. toAlloc' \in {toAlloc, [toAlloc EXCEPT ![call[h].who] = call[h].work]}
      BY <1>2, <2>1 DEF PatchErasedAnnotation, PatchErasedAnnotationFails
    <2> QED
      BY <2>2, <2>3 DEF TypeOK
  <1> QED
    BY <1>1, <1>2
    DEF HandlerStep, GetPendingPod, GetPendingPodFails, DecodeAnnotations, ServeRequest,
        ServeRequestFails, LoopEnds, TrySuccess, SetSuccess, SetFailed, SetBindPhase,
        ReleaseNodeLock, Reply, podVars

(* A step of one handler keeps the copies of all of them valid.             *)
LEMMA WorkOfHandler ==
  ASSUME TypeOK, IInv, WorkInv, NEW h \in Calls, HandlerStep(h)
  PROVE  WorkInv'
  <1>0. CallTyped /\ \A q \in Pods : q # call[h].who => toAlloc'[q] = toAlloc[q]
    BY EntriesOfHandler DEF TypeOK, CallTyped
  <1>1. CASE GetPendingPod(h)
    <2>1. PICK q \in Pods :
            call' = [call EXCEPT ![h] =
                      [@ EXCEPT !.pc = "decode", !.pod = q, !.work = toAlloc[q]]]
      BY <1>1 DEF GetPendingPod, PendingPods, TypeOK
    <2>2. /\ Others(h)
          /\ call'[h].pc = "decode" /\ call'[h].pod = q /\ call'[h].work = toAlloc[q]
          /\ call'[h].who = call[h].who
      BY <2>1, GetPendingPodEffect
    <2>3. IInv'
      BY <1>1, GetPendingPodStep
    <2>4. call'[h].work = toAlloc'[call'[h].who] /\ call[h].pc # "idle"
      BY <1>1, <2>2, <2>3 DEF GetPendingPod, IInv, OwnPodInv, Working, podVars
    <2> QED
      BY <1>0, <2>2, <2>4, WorkFrame
  <1>2. CASE DecodeAnnotations(h) \/ LoopEnds(h)
    <2>1. /\ call[h].pc \in BeforePatch /\ toAlloc' = toAlloc
          /\ \E l \in PCs : Goto(h, l)
      BY <1>2 DEF DecodeAnnotations, LoopEnds, Fail, BeforePatch, PCs, podVars
    <2>2. Others(h) /\ SameButPc(h)
      BY <1>0, <2>1, GotoEffect
    <2>3. call[h].pc # "idle"
      BY <2>1 DEF BeforePatch
    <2> QED
      BY <1>0, <2>1, <2>2, <2>3, WorkFrame DEF SameButPc, WorkInv
  <1>3. CASE ServeRequest(h)
    <2>1. call[h].pc = "pop" /\ toAlloc' = toAlloc
      BY <1>3 DEF ServeRequest, podVars
    <2>2. PICK k \in Slots :
            /\ Others(h) /\ call'[h].who = call[h].who
            /\ call'[h].work = [call[h].work EXCEPT ![k] = <<>>]
      <3>1. PICK i \in Slots, k \in Slots :
              call' = [call EXCEPT ![h] =
                [call[h] EXCEPT !.todo = call[h].todo \ {i},
                                !.work = [call[h].work EXCEPT ![k] = <<>>],
                                !.resp = [call[h].resp EXCEPT ![i] =
                                           Response(call[h].pod, k, call[h].work[k])]]]
        BY <1>3 DEF ServeRequest
      <3> DEFINE g == Response(call[h].pod, k, call[h].work[k])
      <3>2. call[h].pod \in Pods /\ call[h].work[k] \in Seq(Devices)
        BY <2>1, HandlerFacts, ZenonT(60) DEF Working, TypeOK, CallStates, Entries
      <3>3. g \in Grants
        BY <3>2, ResponseType
      <3>4. call' = [call EXCEPT ![h] =
                [call[h] EXCEPT !.todo = call[h].todo \ {i},
                                !.work = [call[h].work EXCEPT ![k] = <<>>],
                                !.resp = [call[h].resp EXCEPT ![i] = g]]]
        BY <3>1
      <3> HIDE DEF g
      <3>5. /\ CallTyped' /\ Others(h)
            /\ call'[h].todo = call[h].todo \ {i}
            /\ call'[h].work = [call[h].work EXCEPT ![k] = <<>>]
            /\ call'[h].resp = [call[h].resp EXCEPT ![i] = g]
            /\ call'[h].pc = call[h].pc /\ call'[h].who = call[h].who
            /\ call'[h].pod = call[h].pod /\ call'[h].ok = call[h].ok
        BY <1>0, <3>3, <3>4, ServeEffect
      <3> QED
        BY <3>5
    <2>3. call[h].work \in Entries /\ call[h].pc # "idle"
      BY <2>1 DEF TypeOK, CallStates
    <2>4. \A i \in Slots : call'[h].work[i] \in {toAlloc'[call'[h].who][i], <<>>}
      BY <2>1, <2>2, <2>3 DEF WorkInv, BeforePatch, Entries
    <2> QED
      BY <1>0, <2>2, <2>3, <2>4, WorkFrame
  <1>4. CASE PatchErasedAnnotation(h)
    BY <1>0, <1>4, PatchEffect, WorkFrame DEF PatchErasedAnnotation, BeforePatch
  <1>5. CASE \/ GetPendingPodFails(h) \/ ServeRequestFails(h) \/ PatchErasedAnnotationFails(h)
             \/ TrySuccess(h) \/ SetSuccess(h) \/ SetFailed(h) \/ ReleaseNodeLock(h)
    <2>1. call[h].pc # "idle" /\ \E l \in PCs \ BeforePatch : Goto(h, l)
      BY <1>5
      DEF GetPendingPodFails, ServeRequestFails, PatchErasedAnnotationFails, TrySuccess,
          SetSuccess, SetFailed, SetBindPhase, ReleaseNodeLock, Fail, PCs, BeforePatch
    <2>2. Others(h) /\ call'[h].pc \notin BeforePatch
      BY <1>0, <2>1, GotoEffect
    <2> QED
      BY <1>0, <2>1, <2>2, WorkFrame
  <1>6. CASE Reply(h)
    <2>1. Others(h) /\ call[h].pc # "idle" /\ call'[h].pc = "idle"
      BY <1>6 DEF Reply, Others, Idle, TypeOK
    <2> QED
      BY <1>0, <2>1, WorkFrame DEF BeforePatch
  <1> QED
    BY <1>1, <1>2, <1>3, <1>4, <1>5, <1>6 DEF HandlerStep

(* No step brings an entry of an annotation back.                           *)
LEMMA EntriesStep ==
  TypeOK /\ IInv /\ WorkInv /\ [Next]_vars =>
    /\ WorkInv'
    /\ [\A p \in Pods : bindPhase[p] # "none" =>
          \A i \in Slots : toAlloc'[p][i] \in {toAlloc[p][i], <<>>}]_vars
  <1> SUFFICES ASSUME TypeOK, IInv, WorkInv, [Next]_vars
               PROVE  /\ WorkInv'
                      /\ \A p \in Pods : bindPhase[p] # "none" =>
                           \A i \in Slots : toAlloc'[p][i] \in {toAlloc[p][i], <<>>}
    OBVIOUS
  <1>1. ASSUME NEW h \in Calls, HandlerStep(h)
        PROVE  /\ WorkInv'
               /\ \A p \in Pods, i \in Slots : toAlloc'[p][i] \in {toAlloc[p][i], <<>>}
    BY <1>1, EntriesOfHandler, WorkOfHandler
  <1>2. ASSUME NEW p \in Pods, SchedulerBind(p)
        PROVE  /\ WorkInv'
               /\ \A q \in Pods : bindPhase[q] # "none" => toAlloc'[q] = toAlloc[q]
    <2>1. bindPhase[p] = "none" /\ kstate[p] = "unbound"
      BY <1>2 DEF SchedulerBind, IInv, PhaseInv
    <2>2. call' = call /\ \A q \in Pods : q # p => toAlloc'[q] = toAlloc[q]
      BY <1>2 DEF SchedulerBind, TypeOK
    <2>3. \A h \in Calls : call[h].pc \in BeforePatch => call[h].who \in Pods /\ call[h].who # p
      BY <2>1, NullAssumption DEF BeforePatch, IInv, AdmissionInv
    <2>4. WorkInv'
      BY <2>2, <2>3 DEF WorkInv
    <2> QED
      BY <2>1, <2>2, <2>4
  <1>3. ASSUME NEW p \in Pods, KubeletStep(p) PROVE WorkInv' /\ toAlloc' = toAlloc
    <2>1. PICK h \in Calls, R \in SUBSET Slots : KubeletCalls(p, h, R)
      BY <1>3 DEF KubeletStep
    <2>2. Others(h) /\ call'[h].pc = "getPod"
      BY <2>1, KubeletCallsEffect DEF TypeOK, CallTyped
    <2> QED
      BY <2>1, <2>2 DEF KubeletCalls, WorkInv, Others, BeforePatch, podVars
  <1>4. CASE ProcessCrash
    BY <1>4 DEF ProcessCrash, WorkInv, BeforePatch, Idle, podVars
  <1>5. CASE UNCHANGED <<toAlloc, call>>
    BY <1>5 DEF WorkInv
  <1>6. ASSUME NEW p \in Pods, LockExpires(p) \/ PluginUnavailable(p)
        PROVE  UNCHANGED <<toAlloc, call>>
    BY <1>6 DEF LockExpires, PluginUnavailable, podVars
  <1>7. CASE GrpcStop \/ UpdateDevice \/ UNCHANGED vars
    BY <1>5, <1>7 DEF GrpcStop, UpdateDevice, vars, podVars
  <1> QED
    BY <1>1, <1>2, <1>3, <1>4, <1>5, <1>6, <1>7 DEF Next

(* EntriesOnlyErased: no patch, not even one of a handler that kubelet has  *)
(* given up on, brings back an entry that is erased.                       *)
THEOREM EntriesErased == Spec => EntriesOnlyErased
  <1>1. Init => WorkInv
    BY WorkInit
  <1>2. TypeOK /\ IInv /\ WorkInv /\ [Next]_vars => WorkInv'
        /\ [\A p \in Pods : bindPhase[p] # "none" =>
              \A i \in Slots : toAlloc'[p][i] \in {toAlloc[p][i], <<>>}]_vars
    BY EntriesStep
  <1>3. Spec => []TypeOK /\ []PodFound /\ []IInv
    BY InvariantHolds, PTL
  <1> QED
    BY <1>1, <1>2, <1>3, PTL DEF Spec, EntriesOnlyErased
=============================================================================
