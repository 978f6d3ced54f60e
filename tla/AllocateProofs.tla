--------------------------- MODULE AllocateProofs ---------------------------
(***************************************************************************)
(* Proofs about Allocate, for every value of its constants.                *)
(***************************************************************************)
EXTENDS Allocate, SequenceTheorems, TLAPS

-----------------------------------------------------------------------------
(* The inductive invariant.                                                 *)

Served(h) == {i \in Slots : call[h].resp[i] # NoGrant}

Complete(h) == \A i \in Wanted[call[h].who] :
                  granted[call[h].who][i] # NoGrant \/ call[h].resp[i] # NoGrant

(* What the annotation still holds when p's answers and the set S are gone. *)
Left(p, S) ==
  [i \in Slots |-> IF granted[p][i] # NoGrant \/ i \in S THEN <<>> ELSE Assigned[p][i]]

BeforePatch == {"decode", "pop", "patch"}
Undecided   == {"getPod", "decode", "pop", "patch", "trySuccess", "setSuccess", "setFailed"}
Working     == {"decode", "pop", "patch", "trySuccess", "setSuccess", "setFailed", "release"}

(* One pod is being admitted, one call is waited for; every other call     *)
(* works for a pod of its own, and kubelet has rejected that pod.          *)
AdmissionInv ==
  /\ \A p, q \in Pods : kstate[p] = "admitting" /\ kstate[q] = "admitting" => p = q
  /\ waiting # NoCall => /\ call[waiting].pc # "idle"
                         /\ call[waiting].who \in Pods
                         /\ kstate[call[waiting].who] = "admitting"
  /\ \A h \in Calls : call[h].pc # "idle" =>
        /\ call[h].who \in Pods
        /\ waiting # h => kstate[call[h].who] = "rejected"
        /\ \A g \in Calls : g # h /\ call[g].pc # "idle" => call[g].who # call[h].who

(* A handler works on the pod it was called for.                            *)
OwnPodInv ==
  \A h \in Calls : call[h].pc \in Working => call[h].pod = call[h].who

(* The lock is held until the call that ends the pod's allocation returns.  *)
LockOf(h) == \/ nodeLock = call[h].who
             \/ call[h].pc = "reply" /\ (~call[h].ok \/ Complete(h))

LockInv ==
  \A p \in Pods : kstate[p] \in {"bound", "admitting"} =>
     nodeLock = p \/ (waiting # NoCall /\ call[waiting].who = p /\ LockOf(waiting))

(* bind-phase stays "allocating" until the handler decides; it never is     *)
(* "failed" when kubelet gets an answer.                                   *)
PhaseOf(h) ==
  /\ call[h].pc \in Undecided => bindPhase[call[h].who] = "allocating"
  /\ call[h].pc = "setSuccess" => Remaining(call[h].who) = {}
  /\ call[h].pc \in {"getPod", "decode", "pop", "patch", "setFailed"} => ~call[h].ok
  /\ call[h].pc \in {"trySuccess", "setSuccess"} => call[h].ok
  /\ waiting = h /\ call[h].ok =>
        /\ bindPhase[call[h].who] # "failed"
        /\ ~Complete(h) => bindPhase[call[h].who] = "allocating"

PhaseInv ==
  /\ \A p \in Pods : kstate[p] = "bound" => bindPhase[p] = "allocating"
  /\ \A p \in Pods : kstate[p] = "admitting" /\ waiting = NoCall => bindPhase[p] = "allocating"
  /\ \A p \in Pods : kstate[p] = "unbound" => bindPhase[p] = "none"
  /\ \A h \in Calls : call[h].pc # "idle" => PhaseOf(h)

(* What is handed out and what is left, outside calls and inside the call  *)
(* kubelet waits for.                                                      *)
AnnotationInv ==
  /\ \A p \in Pods : kstate[p] \in {"unbound", "bound"} => granted[p] = NoResponses
  /\ \A p \in Pods : kstate[p] = "bound" => toAlloc[p] = Left(p, {})
  /\ \A p \in Pods : kstate[p] = "admitting" /\ waiting = NoCall => toAlloc[p] = Left(p, {})

DataInv(h) ==
  LET c == call[h]  p == c.who
  IN /\ \A i \in Slots : c.resp[i] # NoGrant =>
          /\ c.resp[i] = Expected[p][i]
          /\ i \in Missing(p)
          /\ \A j \in Missing(p) : j < i => c.resp[j] # NoGrant
     /\ c.todo \subseteq Missing(p)
     /\ \A i \in c.todo : c.resp[i] = NoGrant
     /\ \A i \in c.todo, j \in Missing(p) : j < i => j \in c.todo \/ c.resp[j] # NoGrant

PcInv(h) ==
  LET c == call[h]  p == c.who
  IN /\ c.pc = "getPod" => c.resp = NoResponses
     /\ c.pc \in BeforePatch \cup {"getPod"} =>
          toAlloc[p] = Left(p, {}) /\ (c.todo # {} \/ Served(h) # {})
     /\ c.pc \in BeforePatch => c.work = Left(p, Served(h))
     /\ c.pc = "patch" => c.todo = {}
     /\ c.ok => c.todo = {} /\ Served(h) # {} /\ toAlloc[p] = Left(p, Served(h))
     /\ c.pc = "setSuccess" \/ (c.pc = "release" /\ c.ok) => Complete(h)

WaitingInv == waiting # NoCall => DataInv(waiting) /\ PcInv(waiting)

IInv ==
  /\ AdmissionInv /\ OwnPodInv /\ LockInv /\ PhaseInv /\ AnnotationInv /\ WaitingInv
  /\ GrantsMatchAssignment
  /\ RunningNeverFailed
  /\ SuccessMeansErased

-----------------------------------------------------------------------------
(* Typing.  The updates of call are restated field by field: from then on  *)
(* no proof needs the records.                                             *)

(* The answer for a non-empty entry is well typed.                          *)
LEMMA ResponseType ==
  ASSUME NEW p \in Pods, NEW k \in Slots, NEW devs \in Seq(Devices)
  PROVE  Response(p, k, devs) \in Grants
  BY DEF Response, Grants, AllNames

(* The state of a handler that is not in use is well typed.                 *)
LEMMA IdleType == Idle \in CallStates
  BY DEF Idle, CallStates, PCs, Entries, NoEntries, NoResponses

CallTyped == call \in [Calls -> CallStates]

SameButPc(g) == /\ call'[g].who = call[g].who
                /\ call'[g].todo = call[g].todo
                /\ call'[g].pod = call[g].pod
                /\ call'[g].work = call[g].work
                /\ call'[g].resp = call[g].resp
                /\ call'[g].ok = call[g].ok

Others(h) == \A g \in Calls : g # h => call'[g] = call[g]

(* Assigning the state of one handler leaves the others alone.              *)
LEMMA OneCall ==
  ASSUME CallTyped, NEW h \in Calls, NEW c \in CallStates,
         call' = [call EXCEPT ![h] = c]
  PROVE  CallTyped' /\ Others(h) /\ call'[h] = c
  BY DEF CallTyped, Others

(* What a step that only moves a handler's control changes, and what not.   *)
LEMMA GotoEffect ==
  ASSUME CallTyped, NEW h \in Calls, NEW l \in PCs, Goto(h, l)
  PROVE  CallTyped' /\ Others(h) /\ SameButPc(h) /\ call'[h].pc = l
  <1> DEFINE c == [call[h] EXCEPT !.pc = l]
  <1>1. c \in CallStates /\ c.who = call[h].who /\ c.todo = call[h].todo
        /\ c.pod = call[h].pod /\ c.work = call[h].work /\ c.resp = call[h].resp
        /\ c.ok = call[h].ok /\ c.pc = l
    BY DEF CallTyped, CallStates
  <1>2. call' = [call EXCEPT ![h] = c]
    BY DEF Goto
  <1> HIDE DEF c
  <1> QED
    BY <1>1, <1>2, OneCall DEF SameButPc

(* The state of the handler kubelet's call starts.                          *)
LEMMA KubeletCallsEffect ==
  ASSUME CallTyped, NEW p \in Pods, NEW h \in Calls, NEW R \in SUBSET Slots,
         KubeletCalls(p, h, R)
  PROVE  /\ CallTyped' /\ Others(h)
         /\ call'[h].pc = "getPod" /\ call'[h].who = p /\ call'[h].todo = R
         /\ call'[h].resp = NoResponses /\ ~call'[h].ok
  <1> DEFINE c == [Idle EXCEPT !.pc = "getPod", !.who = p, !.todo = R]
  <1>0. Idle.resp = NoResponses /\ Idle.ok = FALSE
    BY DEF Idle
  <1>1. c \in CallStates /\ c.pc = "getPod" /\ c.who = p /\ c.todo = R
        /\ c.resp = NoResponses /\ c.ok = FALSE
    BY <1>0, IdleType DEF CallStates, PCs
  <1>2. call' = [call EXCEPT ![h] = c]
    BY DEF KubeletCalls
  <1> HIDE DEF c
  <1> QED
    BY <1>1, <1>2, OneCall

(* The pod and the working copy GetPendingPod leaves the handler with.      *)
LEMMA GetPendingPodEffect ==
  ASSUME TypeOK, NEW h \in Calls, NEW q \in Pods,
         call' = [call EXCEPT ![h] =
                   [@ EXCEPT !.pc = "decode", !.pod = q, !.work = toAlloc[q]]]
  PROVE  /\ CallTyped' /\ Others(h)
         /\ call'[h].pc = "decode" /\ call'[h].pod = q /\ call'[h].work = toAlloc[q]
         /\ call'[h].who = call[h].who /\ call'[h].todo = call[h].todo
         /\ call'[h].resp = call[h].resp /\ call'[h].ok = call[h].ok
  <1> DEFINE c == [call[h] EXCEPT !.pc = "decode", !.pod = q, !.work = toAlloc[q]]
  <1>0. call[h] \in CallStates /\ toAlloc[q] \in Entries
    BY DEF TypeOK
  <1>1. c \in CallStates /\ c.pc = "decode" /\ c.pod = q /\ c.work = toAlloc[q]
        /\ c.who = call[h].who /\ c.todo = call[h].todo /\ c.resp = call[h].resp
        /\ c.ok = call[h].ok
    BY <1>0 DEF CallStates, PCs
  <1>2. call' = [call EXCEPT ![h] = c]
    OBVIOUS
  <1>3. CallTyped
    BY DEF TypeOK, CallTyped
  <1> HIDE DEF c
  <1> QED
    BY <1>1, <1>2, <1>3, OneCall

(* The answer and the working copy after one turn of the pop loop.          *)
LEMMA ServeEffect ==
  ASSUME CallTyped, NEW h \in Calls, NEW i \in Slots, NEW k \in Slots,
         NEW g \in Grants,
         call' = [call EXCEPT ![h] =
                   [call[h] EXCEPT !.todo = call[h].todo \ {i},
                                   !.work = [call[h].work EXCEPT ![k] = <<>>],
                                   !.resp = [call[h].resp EXCEPT ![i] = g]]]
  PROVE  /\ CallTyped' /\ Others(h)
         /\ call'[h].todo = call[h].todo \ {i}
         /\ call'[h].work = [call[h].work EXCEPT ![k] = <<>>]
         /\ call'[h].resp = [call[h].resp EXCEPT ![i] = g]
         /\ call'[h].pc = call[h].pc /\ call'[h].who = call[h].who
         /\ call'[h].pod = call[h].pod /\ call'[h].ok = call[h].ok
  <1> DEFINE todo == call[h].todo \ {i}
             work == [call[h].work EXCEPT ![k] = <<>>]
             resp == [call[h].resp EXCEPT ![i] = g]
             c == [call[h] EXCEPT !.todo = todo, !.work = work, !.resp = resp]
  <1>0. call[h] \in CallStates
    BY DEF CallTyped
  <1>1. todo \in SUBSET Slots /\ work \in Entries /\ resp \in [Slots -> Grants \cup {NoGrant}]
    BY <1>0 DEF CallStates, Entries
  <1>2. call' = [call EXCEPT ![h] = c]
    OBVIOUS
  <1> HIDE DEF todo, work, resp
  <1>3. c \in CallStates /\ c.todo = todo /\ c.work = work /\ c.resp = resp
        /\ c.pc = call[h].pc /\ c.who = call[h].who /\ c.pod = call[h].pod
        /\ c.ok = call[h].ok
    BY <1>0, <1>1 DEF CallStates
  <1> HIDE DEF c
  <1> QED
    BY <1>2, <1>3, OneCall, ZenonT(60) DEF todo, work, resp

(* The annotation after the patch, and that the call counts as successful.  *)
LEMMA PatchEffect ==
  ASSUME CallTyped, NEW h \in Calls, PatchErasedAnnotation(h)
  PROVE  /\ CallTyped' /\ Others(h)
         /\ call'[h].pc = "trySuccess" /\ call'[h].ok
         /\ call'[h].who = call[h].who /\ call'[h].todo = call[h].todo
         /\ call'[h].pod = call[h].pod /\ call'[h].work = call[h].work
         /\ call'[h].resp = call[h].resp
  <1> DEFINE c == [call[h] EXCEPT !.pc = "trySuccess", !.ok = TRUE]
  <1>1. c \in CallStates /\ c.pc = "trySuccess" /\ c.ok = TRUE
        /\ c.who = call[h].who /\ c.todo = call[h].todo /\ c.pod = call[h].pod
        /\ c.work = call[h].work /\ c.resp = call[h].resp
    BY DEF CallTyped, CallStates, PCs
  <1>2. call' = [call EXCEPT ![h] = c]
    BY DEF PatchErasedAnnotation
  <1> HIDE DEF c
  <1> QED
    BY <1>1, <1>2, OneCall

(* From the answer of GetPendingPod on, the handler has a pod: TypeOK is    *)
(* inductive together with this.                                            *)
PodFound == \A h \in Calls : call[h].pc \in Working => call[h].pod \in Pods

(* The typing invariant holds initially.                                    *)
LEMMA TypingInit == Init => TypeOK /\ PodFound
  <1> SUFFICES ASSUME Init PROVE TypeOK /\ PodFound
    OBVIOUS
  <1>1. TypeOK
    BY IdleType, DeviceAssumption
    DEF Init, TypeOK, Entries, NoEntries, NoResponses, Phases, PodStates
  <1>2. PodFound
    BY DEF Init, PodFound, Idle, Working
  <1> QED
    BY <1>1, <1>2

(* The typing invariant is kept by every action of scheduler, kubelet and handlers. *)
LEMMA TypingStep == TypeOK /\ PodFound /\ [Next]_vars => TypeOK' /\ PodFound'
  <1> SUFFICES ASSUME TypeOK, PodFound, [Next]_vars PROVE TypeOK' /\ PodFound'
    OBVIOUS
  <1>0. CallTyped
    BY DEF TypeOK, CallTyped
  <1>1. ASSUME NEW p \in Pods, SchedulerBind(p) PROVE TypeOK' /\ PodFound'
    BY <1>1, PodAssumption DEF SchedulerBind, TypeOK, PodFound, Phases, PodStates
  <1>2. ASSUME NEW p \in Pods, LockExpires(p) PROVE TypeOK' /\ PodFound'
    BY <1>2 DEF LockExpires, TypeOK, PodFound, podVars, kubeletVars
  <1>3. ASSUME NEW p \in Pods, NEW h \in Calls, NEW R \in SUBSET Slots, KubeletCalls(p, h, R)
        PROVE  TypeOK' /\ PodFound'
    <2>1. CallTyped' /\ Others(h) /\ call'[h].pc = "getPod"
      BY <1>0, <1>3, KubeletCallsEffect
    <2>2. TypeOK'
      BY <1>3, <2>1 DEF KubeletCalls, TypeOK, CallTyped, podVars, PodStates
    <2>3. PodFound'
      BY <2>1 DEF PodFound, Others, Working
    <2> QED
      BY <2>2, <2>3
  <1>4. ASSUME NEW p \in Pods, PluginUnavailable(p) PROVE TypeOK' /\ PodFound'
    BY <1>4 DEF PluginUnavailable, TypeOK, PodFound, podVars, PodStates
  <1>5. ASSUME NEW h \in Calls, HandlerStep(h) PROVE TypeOK' /\ PodFound'
    <2>1. CASE GetPendingPod(h)
      <3>1. PICK q \in Pods :
              call' = [call EXCEPT ![h] =
                        [@ EXCEPT !.pc = "decode", !.pod = q, !.work = toAlloc[q]]]
        BY <2>1 DEF GetPendingPod, PendingPods, TypeOK
      <3>2. CallTyped' /\ Others(h) /\ call'[h].pod \in Pods
        BY <3>1, GetPendingPodEffect
      <3> QED
        BY <2>1, <3>2
        DEF GetPendingPod, TypeOK, PodFound, CallTyped, Others, podVars, kubeletVars
    <2>2. CASE GetPendingPodFails(h)
      BY <1>0, <2>2, GotoEffect
      DEF GetPendingPodFails, TypeOK, PodFound, CallTyped, Others, SameButPc, Working, PCs,
          podVars, kubeletVars
    <2>3. CASE DecodeAnnotations(h) \/ ServeRequestFails(h) \/ LoopEnds(h) \/ TrySuccess(h)
      <3>1. call[h].pc \in Working /\ \E l \in PCs : Goto(h, l)
        BY <2>3 DEF DecodeAnnotations, ServeRequestFails, LoopEnds, TrySuccess, Fail, PCs, Working
      <3> QED
        BY <1>0, <2>3, <3>1, GotoEffect
        DEF DecodeAnnotations, ServeRequestFails, LoopEnds, TrySuccess, TypeOK, PodFound,
            CallTyped, Others, SameButPc, podVars, kubeletVars
    <2>4. CASE ServeRequest(h)
      <3>1. PICK i \in Slots, k \in Slots :
              LET c == call[h]
              IN /\ call' = [call EXCEPT ![h] =
                        [c EXCEPT !.todo = c.todo \ {i},
                                  !.work = [c.work EXCEPT ![k] = <<>>],
                                  !.resp = [c.resp EXCEPT ![i] = Response(c.pod, k, c.work[k])]]]
                 /\ MakeShmemDir(c.pod, k)
        BY <2>4 DEF ServeRequest
      <3> DEFINE p == call[h].pod
                 g == Response(p, k, call[h].work[k])
      <3>2. p \in Pods
        BY <2>4 DEF ServeRequest, PodFound, Working
      <3>3. call[h].work[k] \in Seq(Devices)
        BY DEF TypeOK, CallStates, Entries
      <3>4. g \in Grants
        BY <3>2, <3>3, ResponseType
      <3>5. CtrName(p, k) \in AllNames
        BY <3>2 DEF AllNames
      <3> HIDE DEF g
      <3>6. /\ CallTyped' /\ Others(h)
            /\ call'[h].pc = call[h].pc /\ call'[h].pod = call[h].pod
        BY <1>0, <3>1, <3>4, ServeEffect DEF g
      <3>7. dirs' \in SUBSET (Pods \X AllNames)
        BY <3>1, <3>2, <3>5 DEF MakeShmemDir, TypeOK
      <3> QED
        BY <2>4, <3>6, <3>7
        DEF ServeRequest, TypeOK, PodFound, CallTyped, Others, podVars, kubeletVars
    <2>5. CASE PatchErasedAnnotation(h)
      BY <1>0, <2>5, PatchEffect, ZenonT(60)
      DEF PatchErasedAnnotation, TypeOK, PodFound, CallTyped, Others, Working, kubeletVars, CallStates
    <2>6. CASE PatchErasedAnnotationFails(h)
      BY <1>0, <2>6, GotoEffect, ZenonT(60)
      DEF PatchErasedAnnotationFails, Fail, TypeOK, PodFound, CallTyped, Others, SameButPc,
          Working, kubeletVars, CallStates, PCs
    <2>7. CASE SetSuccess(h) \/ SetFailed(h)
      BY <1>0, <2>7, GotoEffect, SMTT(30)
      DEF SetSuccess, SetFailed, SetBindPhase, TypeOK, PodFound, CallTyped, Others, SameButPc,
          Working, kubeletVars, PCs, Phases
    <2>8. CASE ReleaseNodeLock(h)
      BY <1>0, <2>8, GotoEffect
      DEF ReleaseNodeLock, TypeOK, PodFound, CallTyped, Others, SameButPc, Working, PCs,
          podVars, kubeletVars
    <2>9. CASE Reply(h)
      <3> DEFINE p   == call[h].who
                 new == [i \in Slots |-> IF call[h].resp[i] # NoGrant THEN call[h].resp[i]
                                         ELSE granted[p][i]]
      <3>1. CallTyped' /\ Others(h) /\ call'[h].pc = "idle"
        <4>1. call' = [call EXCEPT ![h] = Idle]
          BY <2>9 DEF Reply
        <4>2. Idle.pc = "idle"
          BY DEF Idle
        <4> QED
          BY <1>0, <4>1, <4>2, IdleType, OneCall
      <3>2. p \in Pods => new \in [Slots -> Grants \cup {NoGrant}]
        BY DEF TypeOK, CallStates
      <3>3. kstate' \in [Pods -> PodStates]
        BY <2>9 DEF Reply, TypeOK, PodStates, kubeletVars
      <3>4. granted' = granted \/ granted' = [granted EXCEPT ![p] = new]
        BY <2>9 DEF Reply, kubeletVars
      <3> HIDE DEF new
      <3>5. granted' \in [Pods -> [Slots -> Grants \cup {NoGrant}]]
        BY <3>2, <3>4 DEF TypeOK
      <3>6. waiting' \in Calls \cup {NoCall}
        BY <2>9 DEF Reply, TypeOK, kubeletVars
      <3>7. PodFound'
        BY <3>1 DEF PodFound, Others, Working
      <3>8. UNCHANGED <<nodeLock, toAlloc, bindPhase, known, dirs>>
        BY <2>9 DEF Reply, podVars
      <3> QED
        BY <3>1, <3>3, <3>5, <3>6, <3>7, <3>8 DEF TypeOK, CallTyped
    <2> QED
      BY <1>5, <2>1, <2>2, <2>3, <2>4, <2>5, <2>6, <2>7, <2>8, <2>9 DEF HandlerStep
  <1>6. CASE GrpcStop
    BY <1>6 DEF GrpcStop, Abandon, TypeOK, PodFound, podVars, PodStates
  <1>7. CASE ProcessCrash
    BY <1>7, IdleType DEF ProcessCrash, Abandon, TypeOK, PodFound, Working, Idle, podVars, PodStates
  <1>8. CASE UpdateDevice
    BY <1>8, DeviceAssumption DEF UpdateDevice, TypeOK, PodFound, podVars, kubeletVars
  <1>9. CASE UNCHANGED vars
    BY <1>9 DEF vars, TypeOK, PodFound, podVars, kubeletVars
  <1> QED
    BY <1>1, <1>2, <1>3, <1>4, <1>5, <1>6, <1>7, <1>8, <1>9 DEF Next, KubeletStep

(* TypeOK: no handler, and nothing around the handlers, takes a variable   *)
(* out of its type.                                                        *)
THEOREM TypeCorrect == Spec => []TypeOK
  <1>1. Init => TypeOK /\ PodFound
    BY TypingInit
  <1>2. TypeOK /\ PodFound /\ [Next]_vars => TypeOK' /\ PodFound'
    BY TypingStep
  <1> QED
    BY <1>1, <1>2, PTL DEF Spec

-----------------------------------------------------------------------------
(* The steps of the scheduler and of kubelet.                               *)

(* The entry for a container goes with that container's name.               *)
LEMMA NameOfSlot ==
  ASSUME NEW p \in Pods, NEW i \in Wanted[p]
  PROVE  Response(p, i, Assigned[p][i]) = Expected[p][i]
  <1> DEFINE s == InitNames[p]  t == Names[p]  st == s \o t  m == Len(s)  n == Len(t)
  <1>1. s \in Seq(STRING) /\ t \in Seq(STRING)
    BY PodAssumption
  <1>2. /\ m \in Nat /\ n \in Nat
        /\ Len(st) = m + n
        /\ \A k \in 1..(m + n) : st[k] = IF k <= m THEN s[k] ELSE t[k - m]
    BY <1>1, ConcatProperties, LenProperties
  <1>3. i \in Slots /\ i \in Nat /\ 1 <= i /\ i <= Len(st)
    <2>1. i \in Slots /\ Asked[p][i] > 0
      BY DEF Wanted
    <2>2. i \in Nat /\ 1 <= i
      BY <2>1, SlotsAssumption DEF Slots
    <2>3. i <= Len(KubeletNames(p))
      BY <2>1, SchedulerAssumption
    <2>4. KubeletNames(p) = st
      BY DEF KubeletNames
    <2> QED
      BY <2>1, <2>2, <2>3, <2>4
  <1>4. CtrName(p, i) = IF i <= m THEN s[i] ELSE IF i - m <= n THEN t[i - m] ELSE NoName
    BY DEF CtrName
  <1>5. Expected[p][i] = [pod |-> p, ctr |-> st[i], devs |-> Assigned[p][i]]
    BY <1>3 DEF Expected, KubeletNames
  <1> HIDE DEF s, t, st, m, n
  <1>6. CtrName(p, i) = st[i]
    BY <1>2, <1>3, <1>4
  <1> QED
    BY <1>5, <1>6 DEF Response

(* The inductive invariant holds initially.                                 *)
LEMMA InvInit == Init => IInv
  <1> SUFFICES ASSUME Init PROVE IInv
    OBVIOUS
  <1>1. AdmissionInv /\ OwnPodInv /\ LockInv /\ RunningNeverFailed /\ GrantsMatchAssignment
    BY DEF Init, AdmissionInv, OwnPodInv, LockInv, RunningNeverFailed, GrantsMatchAssignment,
           Idle, Working, NoResponses
  <1>2. PhaseInv /\ AnnotationInv /\ WaitingInv /\ SuccessMeansErased
    BY DEF Init, PhaseInv, AnnotationInv, WaitingInv, SuccessMeansErased, Idle, NoResponses
  <1> QED
    BY <1>1, <1>2 DEF IInv

(* SchedulerBind keeps the inductive invariant.                             *)
LEMMA BindStep ==
  ASSUME TypeOK, IInv, NEW p \in Pods, SchedulerBind(p)
  PROVE  IInv'
  <1> USE DEF TypeOK
  <1>1. \A h \in Calls : call[h].pc # "idle" => call[h].who # p /\ call[h].who \in Pods
    BY NullAssumption DEF SchedulerBind, IInv, AdmissionInv
  <1>2. AdmissionInv'
    BY DEF SchedulerBind, IInv, AdmissionInv
  <1>3. OwnPodInv'
    BY DEF SchedulerBind, IInv, OwnPodInv
  <1>4. LockInv'
    BY <1>1, NullAssumption DEF SchedulerBind, IInv, LockInv, LockOf, AdmissionInv, Complete
  <1>5. PhaseInv'
    BY <1>1 DEF SchedulerBind, IInv, PhaseInv, PhaseOf, AdmissionInv, Undecided, Remaining, Complete
  <1>6. AnnotationInv'
    <2>1. toAlloc'[p] = Left(p, {})'
      <3>1. \A i \in Slots : granted'[p][i] = NoGrant
        BY DEF SchedulerBind, IInv, AnnotationInv, NoResponses
      <3>2. toAlloc'[p] = Assigned[p]
        BY DEF SchedulerBind
      <3>3. Assigned[p] = [i \in Slots |-> Assigned[p][i]]
        BY PodAssumption DEF Entries
      <3> QED
        BY <3>1, <3>2, <3>3 DEF Left
    <2>2. granted' = granted /\ waiting' = waiting /\ kstate'[p] = "bound"
      BY DEF SchedulerBind
    <2>3. \A q \in Pods : q # p => toAlloc'[q] = toAlloc[q] /\ kstate'[q] = kstate[q]
      BY DEF SchedulerBind
    <2>4. kstate[p] = "unbound"
      BY DEF SchedulerBind
    <2>5. \A q \in Pods : Left(q, {})' = Left(q, {})
      BY <2>2 DEF Left
    <2>6. AnnotationInv
      BY DEF IInv
    <2> QED
      BY <2>1, <2>2, <2>3, <2>4, <2>5, <2>6 DEF AnnotationInv
  <1>7. WaitingInv'
    BY <1>1, SMTT(60)
    DEF SchedulerBind, IInv, WaitingInv, DataInv, PcInv, AdmissionInv, Missing, Left, Served, Complete
  <1>8. GrantsMatchAssignment' /\ RunningNeverFailed' /\ SuccessMeansErased'
    BY DEF SchedulerBind, IInv, GrantsMatchAssignment, RunningNeverFailed, SuccessMeansErased,
           Remaining
  <1> QED
    BY <1>2, <1>3, <1>4, <1>5, <1>6, <1>7, <1>8 DEF IInv

(* The lock, the device cache and the directories occur in LockInv only.   *)
LEMMA LockOnlyStep ==
  ASSUME TypeOK, IInv, UNCHANGED <<podVars, kubeletVars, call>>,
         \A q \in Pods : kstate[q] \in {"bound", "admitting"} /\ nodeLock = q => nodeLock' = q
  PROVE  IInv'
  <1> USE DEF podVars, kubeletVars
  <1>1. AdmissionInv' /\ OwnPodInv'
    BY DEF IInv, AdmissionInv, OwnPodInv
  <1>2. LockInv'
    BY DEF IInv, LockInv, LockOf, Complete
  <1>3. PhaseInv'
    BY DEF IInv, PhaseInv, PhaseOf, Remaining, Complete
  <1>4. AnnotationInv'
    BY DEF IInv, AnnotationInv, Left
  <1>5. WaitingInv'
    BY DEF IInv, WaitingInv, DataInv, PcInv, Left, Missing, Served, Complete
  <1>6. GrantsMatchAssignment' /\ RunningNeverFailed' /\ SuccessMeansErased'
    BY DEF IInv, GrantsMatchAssignment, RunningNeverFailed, SuccessMeansErased, Remaining
  <1> QED
    BY <1>1, <1>2, <1>3, <1>4, <1>5, <1>6 DEF IInv

(* A new call: nobody else works for p, and what is left of its annotation *)
(* is what is missing.                                                     *)
LEMMA KubeletCallsStep ==
  ASSUME TypeOK, IInv, NEW p \in Pods, NEW h \in Calls, NEW R \in SUBSET Slots,
         KubeletCalls(p, h, R)
  PROVE  IInv'
  <1> USE DEF TypeOK, podVars
  <1>0. /\ Others(h)
        /\ call'[h].pc = "getPod" /\ call'[h].who = p /\ call'[h].todo = R
        /\ call'[h].resp = NoResponses /\ ~call'[h].ok
    BY KubeletCallsEffect DEF CallTyped
  <1>1. /\ waiting = NoCall /\ waiting' = h /\ h # NoCall
        /\ kstate[p] \in {"bound", "admitting"}
        /\ kstate' = [kstate EXCEPT ![p] = "admitting"]
        /\ \A q \in Pods : kstate[q] = "admitting" => q = p
        /\ UNCHANGED <<nodeLock, toAlloc, bindPhase, granted>>
    BY NullAssumption DEF KubeletCalls, MayCall, IInv, AdmissionInv
  <1>2. \A g \in Calls : g # NoCall
    BY NullAssumption
  <1>3. \A g \in Calls : call[g].pc # "idle" =>
          call[g].who # p /\ call[g].who \in Pods /\ kstate[call[g].who] = "rejected"
    BY <1>1, <1>2 DEF IInv, AdmissionInv
  <1>4. AdmissionInv'
    <2>1. \A g \in Calls : g # h /\ call'[g].pc # "idle" =>
            /\ call'[g].who = call[g].who /\ call[g].pc # "idle"
            /\ call'[g].who \in Pods /\ call'[g].who # p
            /\ kstate'[call'[g].who] = "rejected"
      BY <1>0, <1>1, <1>3 DEF Others
    <2>2. \A q \in Pods : kstate'[q] = "admitting" => q = p
      BY <1>1
    <2>3. \A g, f \in Calls : g # f /\ g # h /\ f # h /\ call'[g].pc # "idle" /\ call'[f].pc # "idle"
            => call'[g].who # call'[f].who
      BY <2>1 DEF IInv, AdmissionInv
    <2> QED
      BY <1>0, <1>1, <2>1, <2>2, <2>3 DEF AdmissionInv
  <1>5. OwnPodInv'
    BY <1>0 DEF IInv, OwnPodInv, Others, Working
  <1>6. LockInv'
    BY <1>0, <1>1 DEF IInv, LockInv
  <1>7. bindPhase[p] = "allocating" /\ toAlloc[p] = Left(p, {})
    BY <1>1 DEF IInv, PhaseInv, AnnotationInv
  <1>8. PhaseInv'
    <2>1. /\ \A q \in Pods : kstate'[q] = "bound" => bindPhase'[q] = "allocating"
          /\ \A q \in Pods : kstate'[q] = "unbound" => bindPhase'[q] = "none"
      BY <1>1 DEF IInv, PhaseInv
    <2>2. PhaseOf(h)'
      BY <1>0, <1>1, <1>7 DEF PhaseOf, Undecided
    <2>3. ASSUME NEW g \in Calls, g # h, call'[g].pc # "idle" PROVE PhaseOf(g)'
      <3>1. call'[g] = call[g] /\ PhaseOf(g)
        BY <1>0, <2>3 DEF IInv, PhaseInv, Others
      <3> QED
        BY <1>1, <2>3, <3>1 DEF PhaseOf, Remaining
    <2> QED
      BY <1>1, <2>1, <2>2, <2>3 DEF PhaseInv
  <1>9. AnnotationInv'
    BY <1>0, <1>1, <1>2, <1>7 DEF IInv, AnnotationInv, Left
  <1>10. WaitingInv'
    <2>1. R # {} /\ R \subseteq Missing(p) /\ \A i \in R, j \in Missing(p) : j < i => j \in R
      BY DEF KubeletCalls
    <2>2. Missing(p)' = Missing(p) /\ Left(p, {})' = Left(p, {})
      BY <1>1 DEF Missing, Left
    <2>3. \A i \in Slots : call'[h].resp[i] = NoGrant
      BY <1>0 DEF NoResponses
    <2> QED
      BY <1>0, <1>1, <1>7, <2>1, <2>2, <2>3 DEF WaitingInv, DataInv, PcInv, BeforePatch, Missing, Wanted
  <1>11. GrantsMatchAssignment' /\ RunningNeverFailed' /\ SuccessMeansErased'
    BY <1>1 DEF IInv, GrantsMatchAssignment, RunningNeverFailed, SuccessMeansErased, Remaining
  <1> QED
    BY <1>4, <1>5, <1>6, <1>8, <1>9, <1>10, <1>11 DEF IInv

(* Kubelet gives a pod up: its call, if any, works on for a rejected pod.   *)
LEMMA AbandonStep ==
  ASSUME TypeOK, IInv, NEW p \in Pods,
         kstate[p] \in {"bound", "admitting"},
         waiting # NoCall => call[waiting].who = p,
         kstate' = [kstate EXCEPT ![p] = "rejected"],
         waiting' = NoCall,
         UNCHANGED <<nodeLock, podVars, granted, call>>
  PROVE  IInv'
  <1> USE DEF TypeOK, podVars
  <1>0. \A g \in Calls : g # NoCall
    BY NullAssumption
  <1>1. AdmissionInv'
    BY <1>0 DEF IInv, AdmissionInv
  <1>2. OwnPodInv'
    BY DEF IInv, OwnPodInv
  <1>3. LockInv'
    BY <1>0 DEF IInv, LockInv, AdmissionInv
  <1>4. PhaseInv'
    <2>1. \A q \in Pods : kstate'[q] = "admitting" => FALSE \/ waiting = NoCall
      BY DEF IInv, AdmissionInv
    <2> QED
      BY <1>0, <2>1 DEF IInv, PhaseInv, PhaseOf, Remaining
  <1>5. AnnotationInv'
    <2>1. \A q \in Pods : kstate'[q] = "admitting" => waiting = NoCall
      BY DEF IInv, AdmissionInv
    <2> QED
      BY <1>0, <2>1 DEF IInv, AnnotationInv, Left
  <1>6. WaitingInv'
    BY DEF WaitingInv
  <1>7. GrantsMatchAssignment' /\ RunningNeverFailed' /\ SuccessMeansErased'
    BY DEF IInv, GrantsMatchAssignment, RunningNeverFailed, SuccessMeansErased, Remaining
  <1> QED
    BY <1>1, <1>2, <1>3, <1>4, <1>5, <1>6, <1>7 DEF IInv

(* A call while the plugin is down keeps the inductive invariant.           *)
LEMMA PluginUnavailableStep ==
  ASSUME TypeOK, IInv, NEW p \in Pods, PluginUnavailable(p)
  PROVE  IInv'
  BY AbandonStep DEF PluginUnavailable, MayCall

(* The connections closed by Stop keep the inductive invariant.             *)
LEMMA GrpcStopStep ==
  ASSUME TypeOK, IInv, GrpcStop
  PROVE  IInv'
  <1> DEFINE p == call[waiting].who
  <1>1. p \in Pods /\ kstate[p] = "admitting"
    BY DEF IInv, AdmissionInv, GrpcStop
  <1>2. kstate' = [kstate EXCEPT ![p] = "rejected"] /\ waiting' = NoCall
        /\ UNCHANGED <<nodeLock, podVars, granted, call>>
    BY DEF GrpcStop, Abandon
  <1> QED
    BY <1>1, <1>2, AbandonStep

(* Without calls nothing but the annotations and kubelet's answers is left. *)
LEMMA ProcessCrashStep ==
  ASSUME TypeOK, IInv, ProcessCrash
  PROVE  IInv'
  <1> USE DEF TypeOK, podVars
  <1>0. /\ \A g \in Calls : call'[g].pc = "idle" /\ ~call'[g].ok
        /\ waiting' = NoCall
        /\ UNCHANGED <<nodeLock, toAlloc, bindPhase, granted>>
    BY DEF ProcessCrash, Abandon, Idle
  <1>1. \A q \in Pods : \/ kstate'[q] = kstate[q]
                        \/ kstate'[q] = "rejected"
    BY DEF ProcessCrash, Abandon
  <1>2. \A q \in Pods : kstate'[q] = "admitting" => waiting = NoCall
    <2>1. CASE waiting = NoCall
      BY <2>1
    <2>2. CASE waiting # NoCall
      BY <2>2 DEF ProcessCrash, Abandon, IInv, AdmissionInv
    <2> QED
      BY <2>1, <2>2
  <1>3. AdmissionInv' /\ OwnPodInv'
    BY <1>0, <1>1 DEF IInv, AdmissionInv, OwnPodInv, Working
  <1>4. LockInv'
    <2>1. \A q \in Pods : kstate'[q] \in {"bound", "admitting"} =>
            waiting = NoCall \/ call[waiting].who # q
      BY <1>1, <1>2 DEF IInv, AdmissionInv
    <2> QED
      BY <1>0, <1>1, <2>1 DEF IInv, LockInv
  <1>5. PhaseInv'
    BY <1>0, <1>1, <1>2 DEF IInv, PhaseInv
  <1>6. AnnotationInv'
    BY <1>0, <1>1, <1>2 DEF IInv, AnnotationInv, Left
  <1>7. WaitingInv'
    BY <1>0 DEF WaitingInv
  <1>8. GrantsMatchAssignment' /\ RunningNeverFailed' /\ SuccessMeansErased'
    BY <1>0, <1>1 DEF IInv, GrantsMatchAssignment, RunningNeverFailed, SuccessMeansErased, Remaining
  <1> QED
    BY <1>3, <1>4, <1>5, <1>6, <1>7, <1>8 DEF IInv

-----------------------------------------------------------------------------
(* The steps of the handlers.  What a step of h touches besides call[h] is *)
(* its own pod's: this leaves the parts of the invariant that speak of h.  *)

(* A step of one handler that establishes its own part of the invariant,    *)
(* and touches nothing of the other pods, keeps the whole of it.            *)
LEMMA HandlerFrame ==
  ASSUME TypeOK, IInv, NEW h \in Calls, call[h].pc # "idle",
         Others(h), call'[h].who = call[h].who, call'[h].pc # "idle",
         UNCHANGED kubeletVars,
         \A q \in Pods : q # call[h].who =>
            /\ toAlloc'[q] = toAlloc[q] /\ bindPhase'[q] = bindPhase[q]
            /\ nodeLock = q => nodeLock' = q,
         call'[h].pc \in Working => call'[h].pod = call'[h].who,
         PhaseOf(h)',
         bindPhase'[call[h].who] = "success" => Remaining(call[h].who)' = {},
         waiting = h => LockOf(h)' /\ WaitingInv'
  PROVE  IInv'
  <1> USE DEF TypeOK, kubeletVars
  <1> DEFINE w == call[h].who
  <1>0. w \in Pods /\ kstate[w] \in {"admitting", "rejected"} /\ (waiting # h => kstate[w] = "rejected")
    BY NullAssumption DEF IInv, AdmissionInv
  <1>1. \A g \in Calls : g # h /\ call[g].pc # "idle" => call[g].who # w /\ call[g].who \in Pods
    BY DEF IInv, AdmissionInv
  <1>2. \A g \in Calls : g # h => call'[g] = call[g]
    BY DEF Others
  <1>3. waiting # NoCall /\ waiting # h =>
          /\ waiting \in Calls /\ call'[waiting] = call[waiting]
          /\ call[waiting].who \in Pods /\ call[waiting].who # w
    BY <1>1, <1>2 DEF IInv, AdmissionInv
  <1>4. AdmissionInv'
    <2>1. \A g \in Calls : call'[g].pc # "idle" =>
            call[g].pc # "idle" /\ call'[g].who = call[g].who
      BY <1>2
    <2> QED
      BY <1>0, <1>3, <2>1 DEF IInv, AdmissionInv
  <1>5. OwnPodInv'
    BY <1>2 DEF IInv, OwnPodInv
  <1>6. LockInv'
    <2> SUFFICES ASSUME NEW p \in Pods, kstate[p] \in {"bound", "admitting"}
                 PROVE  nodeLock' = p \/ (waiting # NoCall /\ call'[waiting].who = p /\ LockOf(waiting)')
      BY DEF LockInv
    <2>1. CASE p = w
      BY <1>0, <2>1, NullAssumption
    <2>2. CASE p # w /\ nodeLock = p
      BY <2>2
    <2>3. CASE p # w /\ waiting # NoCall /\ call[waiting].who = p /\ LockOf(waiting)
      BY <1>3, <2>3 DEF LockOf, Complete
    <2> QED
      BY <2>1, <2>2, <2>3 DEF IInv, LockInv
  <1>7. PhaseInv'
    <2>1. ASSUME NEW g \in Calls, g # h, call'[g].pc # "idle" PROVE PhaseOf(g)'
      <3>1. call'[g] = call[g] /\ PhaseOf(g) /\ call[g].who # w /\ call[g].who \in Pods
        BY <1>1, <1>2, <2>1 DEF IInv, PhaseInv
      <3> QED
        BY <2>1, <3>1 DEF PhaseOf, Remaining, Complete
    <2>2. \A p \in Pods : kstate'[p] \in {"bound", "unbound"} => p # w
      BY <1>0
    <2>3. \A p \in Pods : kstate'[p] = "admitting" /\ waiting' = NoCall => p # w
      BY <1>0, NullAssumption
    <2> QED
      BY <2>1, <2>2, <2>3 DEF IInv, PhaseInv
  <1>8. AnnotationInv'
    <2>1. \A p \in Pods : kstate'[p] \in {"bound", "unbound"} => p # w
      BY <1>0
    <2>2. \A p \in Pods : kstate'[p] = "admitting" /\ waiting' = NoCall => p # w
      BY <1>0, NullAssumption
    <2>3. \A p \in Pods : Left(p, {})' = Left(p, {})
      BY DEF Left
    <2> QED
      BY <2>1, <2>2, <2>3 DEF IInv, AnnotationInv
  <1>9. WaitingInv'
    <2>1. CASE waiting = h \/ waiting = NoCall
      BY <2>1 DEF WaitingInv
    <2>2. CASE waiting # h /\ waiting # NoCall
      <3> DEFINE p == call[waiting].who
      <3>1. /\ call'[waiting].who = p /\ toAlloc'[p] = toAlloc[p]
            /\ call'[waiting] = call[waiting]
        BY <1>3, <2>2
      <3>2. /\ Missing(p)' = Missing(p) /\ Left(p, {})' = Left(p, {})
            /\ Served(waiting)' = Served(waiting)
            /\ Left(p, Served(waiting))' = Left(p, Served(waiting))
            /\ Complete(waiting)' = Complete(waiting)
        BY <3>1 DEF Missing, Left, Served, Complete
      <3> QED
        BY <2>2, <3>1, <3>2 DEF IInv, WaitingInv, DataInv, PcInv
    <2> QED
      BY <2>1, <2>2
  <1>10. GrantsMatchAssignment'
    BY DEF IInv, GrantsMatchAssignment
  <1>11. RunningNeverFailed' /\ SuccessMeansErased'
    BY <1>0 DEF IInv, RunningNeverFailed, SuccessMeansErased, Remaining
  <1> QED
    BY <1>4, <1>5, <1>6, <1>7, <1>8, <1>9, <1>10, <1>11 DEF IInv

(* A step that only moves the handler's program counter.                    *)
LEMMA GotoFrame ==
  ASSUME TypeOK, IInv, NEW h \in Calls, call[h].pc # "idle",
         NEW l \in PCs, l # "idle", Goto(h, l),
         UNCHANGED kubeletVars,
         \A q \in Pods : q # call[h].who =>
            /\ toAlloc'[q] = toAlloc[q] /\ bindPhase'[q] = bindPhase[q]
            /\ nodeLock = q => nodeLock' = q,
         l \in Working => call[h].pod = call[h].who,
         PhaseOf(h)',
         bindPhase'[call[h].who] = "success" => Remaining(call[h].who)' = {},
         waiting = h => LockOf(h)' /\ PcInv(h)'
  PROVE  IInv'
  <1>1. Others(h) /\ SameButPc(h) /\ call'[h].pc = l
    BY GotoEffect DEF TypeOK, CallTyped
  <1>2. ASSUME waiting = h PROVE WaitingInv'
    <2> DEFINE p == call[h].who
    <2>1. DataInv(h)
      BY <1>2, NullAssumption DEF IInv, WaitingInv
    <2>2. Missing(p)' = Missing(p)
      BY <1>1 DEF Missing, SameButPc, kubeletVars
    <2>3. DataInv(h)'
      BY <1>1, <2>1, <2>2 DEF DataInv, SameButPc
    <2> QED
      BY <1>2, <2>3 DEF WaitingInv, kubeletVars
  <1> QED
    BY <1>1, <1>2, HandlerFrame DEF SameButPc

(* What the invariant says of the handler about to step.                    *)
LEMMA HandlerFacts ==
  ASSUME TypeOK, IInv, NEW h \in Calls, call[h].pc # "idle"
  PROVE  /\ call[h].who \in Pods
         /\ PhaseOf(h)
         /\ call[h].pc \in Working => call[h].pod = call[h].who
         /\ bindPhase[call[h].who] = "success" => Remaining(call[h].who) = {}
         /\ waiting = h => /\ kstate[call[h].who] = "admitting"
                          /\ LockOf(h) /\ DataInv(h) /\ PcInv(h)
         /\ waiting # h => kstate[call[h].who] = "rejected"
  <1>1. h # NoCall
    BY NullAssumption
  <1>2. /\ call[h].who \in Pods
        /\ PhaseOf(h)
        /\ waiting = h => kstate[call[h].who] = "admitting"
        /\ waiting # h => kstate[call[h].who] = "rejected"
    BY <1>1 DEF IInv, AdmissionInv, PhaseInv
  <1>3. /\ call[h].pc \in Working => call[h].pod = call[h].who
        /\ bindPhase[call[h].who] = "success" => Remaining(call[h].who) = {}
    BY <1>2 DEF IInv, OwnPodInv, SuccessMeansErased
  <1>4. waiting = h => LockOf(h) /\ DataInv(h) /\ PcInv(h)
    BY <1>1, <1>2 DEF IInv, WaitingInv, LockInv, LockOf
  <1> QED
    BY <1>2, <1>3, <1>4

(* Steps that change nothing but the program counter.                       *)
LEMMA LocalStep ==
  ASSUME TypeOK, IInv, NEW h \in Calls,
         \/ GetPendingPodFails(h) \/ DecodeAnnotations(h) \/ ServeRequestFails(h)
         \/ LoopEnds(h) \/ TrySuccess(h)
  PROVE  IInv'
  <1> USE DEF TypeOK, podVars, kubeletVars
  <1>1. /\ call[h].pc \in {"getPod", "decode", "pop", "trySuccess"}
        /\ UNCHANGED <<nodeLock, podVars, kubeletVars>>
    BY DEF GetPendingPodFails, DecodeAnnotations, ServeRequestFails, LoopEnds, TrySuccess
  <1>2. PICK l \in PCs \ {"idle"} :
          /\ Goto(h, l)
          /\ \/ call[h].pc = "getPod" /\ l = "reply"
             \/ call[h].pc \in {"decode", "pop"} /\ l = "setFailed"
             \/ call[h].pc = "decode" /\ l = "pop"
             \/ call[h].pc = "pop" /\ l = "patch" /\ call[h].todo = {}
             \/ call[h].pc = "trySuccess" /\ l = "setSuccess" /\ Remaining(call[h].pod) = {}
             \/ call[h].pc = "trySuccess" /\ l = "reply"
                  /\ (Remaining(call[h].pod) # {} \/ ApiFaults)
    BY DEF GetPendingPodFails, DecodeAnnotations, ServeRequestFails, LoopEnds, TrySuccess,
           Fail, PCs
  <1>3. SameButPc(h) /\ call'[h].pc = l
    BY <1>2, GotoEffect DEF CallTyped
  <1> DEFINE p == call[h].who
  <1>4. /\ p \in Pods /\ PhaseOf(h) /\ (call[h].pc \in Working => call[h].pod = p)
        /\ bindPhase[p] = "success" => Remaining(p) = {}
        /\ waiting = h => LockOf(h) /\ DataInv(h) /\ PcInv(h)
    BY <1>1, HandlerFacts
  <1>5. Complete(h)' = Complete(h) /\ Served(h)' = Served(h) /\ call'[h].who = p
    BY <1>1, <1>3 DEF Complete, Served, SameButPc
  <1>6. PhaseOf(h)'
    BY <1>1, <1>2, <1>3, <1>4, <1>5 DEF PhaseOf, SameButPc, Undecided, Working, Remaining
  <1>7. ASSUME waiting = h PROVE LockOf(h)' /\ PcInv(h)'
    <2>1. Left(p, {})' = Left(p, {}) /\ Left(p, Served(h))' = Left(p, Served(h))
      BY <1>1, <1>5 DEF Left
    <2>2. call[h].pc = "trySuccess" /\ Remaining(call[h].pod) = {} => Complete(h)
      <3>1. ASSUME NEW i \in Wanted[p], call[h].pc = "trySuccess", Remaining(call[h].pod) = {}
            PROVE  granted[p][i] # NoGrant \/ call[h].resp[i] # NoGrant
        <4>1. toAlloc[p] = Left(p, Served(h))
          BY <1>4, <1>7, <3>1 DEF PhaseOf, PcInv
        <4>2. i \in Slots /\ Assigned[p][i] # <<>>
          BY <1>4, SchedulerAssumption DEF Wanted
        <4>3. toAlloc[p][i] = <<>>
          BY <1>4, <3>1, <4>2 DEF Remaining, Working
        <4> QED
          BY <4>1, <4>2, <4>3 DEF Left, Served
      <3> QED
        BY <3>1 DEF Complete
    <2>3. LockOf(h)'
      BY <1>1, <1>2, <1>3, <1>4, <1>5, <1>7 DEF LockOf, SameButPc, PhaseOf
    <2>4. PcInv(h)'
      BY <1>1, <1>2, <1>3, <1>4, <1>5, <1>7, <2>1, <2>2
      DEF PcInv, PhaseOf, SameButPc, BeforePatch
    <2> QED
      BY <2>3, <2>4
  <1>8. l \in Working => call[h].pod = p
    BY <1>2, <1>4 DEF Working
  <1>9. bindPhase'[p] = "success" => Remaining(p)' = {}
    BY <1>1, <1>4, <1>5 DEF Remaining
  <1> QED
    BY <1>1, <1>2, <1>6, <1>7, <1>8, <1>9, GotoFrame

(* The lock still names the pod kubelet calls for.                          *)
LEMMA GetPendingPodStep ==
  ASSUME TypeOK, IInv, NEW h \in Calls, GetPendingPod(h)
  PROVE  IInv'
  <1> USE DEF TypeOK, podVars, kubeletVars
  <1> DEFINE p == call[h].who
  <1>1. /\ call[h].pc = "getPod" /\ waiting = h
        /\ UNCHANGED <<nodeLock, podVars, kubeletVars>>
    BY DEF GetPendingPod
  <1>2. /\ p \in Pods /\ PhaseOf(h) /\ LockOf(h) /\ DataInv(h) /\ PcInv(h)
        /\ bindPhase[p] = "success" => Remaining(p) = {}
    BY <1>1, HandlerFacts
  <1>3. nodeLock = p /\ nodeLock # NoPod
    BY <1>1, <1>2, NullAssumption DEF LockOf
  <1>4. call' = [call EXCEPT ![h] =
                   [@ EXCEPT !.pc = "decode", !.pod = p, !.work = toAlloc[p]]]
    BY <1>3 DEF GetPendingPod, PendingPods
  <1>5. /\ Others(h)
        /\ call'[h].pc = "decode" /\ call'[h].pod = p /\ call'[h].work = toAlloc[p]
        /\ call'[h].who = p /\ call'[h].todo = call[h].todo
        /\ call'[h].resp = call[h].resp /\ call'[h].ok = call[h].ok
    BY <1>2, <1>4, GetPendingPodEffect
  <1>6. PhaseOf(h)'
    BY <1>1, <1>2, <1>5 DEF PhaseOf, Undecided
  <1>7. LockOf(h)'
    BY <1>1, <1>3, <1>5 DEF LockOf
  <1>8. WaitingInv'
    <2>1. Missing(p)' = Missing(p) /\ Left(p, {})' = Left(p, {}) /\ Served(h)' = Served(h)
      BY <1>1, <1>5 DEF Missing, Left, Served
    <2>2. DataInv(h)'
      BY <1>2, <1>5, <2>1 DEF DataInv
    <2>3. Served(h) = {}
      BY <1>1, <1>2 DEF PcInv, Served, NoResponses
    <2>4. PcInv(h)'
      <3>1. Left(p, Served(h))' = Left(p, {})
        BY <1>1, <1>5, <2>1, <2>3 DEF Left
      <3> QED
        BY <1>1, <1>2, <1>5, <2>1, <3>1 DEF PcInv, PhaseOf, BeforePatch
    <2> QED
      BY <1>1, <2>2, <2>4 DEF WaitingInv
  <1>9. bindPhase'[p] = "success" => Remaining(p)' = {}
    BY <1>1, <1>2, <1>5 DEF Remaining
  <1> QED
    BY <1>1, <1>5, <1>6, <1>7, <1>8, <1>9, HandlerFrame

(* The heart of the protocol: in the call kubelet waits for, the next       *)
(* request and the first entry left are those of the same container.       *)
LEMMA SameContainer ==
  ASSUME TypeOK, NEW h \in Calls, DataInv(h), PcInv(h), call[h].pc = "pop",
         call[h].who \in Pods,
         NEW i \in Slots, NEW k \in Slots, NextRequest(h, i), FirstEntry(h, k)
  PROVE  /\ i = k /\ i \in Missing(call[h].who) /\ i \in Wanted[call[h].who]
         /\ call[h].work[k] = Assigned[call[h].who][i]
         /\ \A j \in Missing(call[h].who) : j < i => call[h].resp[j] # NoGrant
  <1> DEFINE p == call[h].who
  <1>0. \A a, b \in Slots : a \in Int /\ b \in Int
    BY SlotsAssumption DEF Slots
  <1>1. /\ i \in Missing(p) /\ call[h].resp[i] = NoGrant
        /\ \A j \in call[h].todo : i <= j
        /\ \A j \in Missing(p) : j < i => j \in call[h].todo \/ call[h].resp[j] # NoGrant
    BY DEF NextRequest, DataInv
  <1>2. \A j \in Slots : call[h].work[j] =
           IF granted[p][j] # NoGrant \/ call[h].resp[j] # NoGrant THEN <<>> ELSE Assigned[p][j]
    BY DEF PcInv, BeforePatch, Left, Served
  <1>3. \A j \in Slots : j \in Wanted[p] <=> Assigned[p][j] # <<>>
    BY SchedulerAssumption DEF Wanted
  <1>4. call[h].work[i] # <<>> /\ i \in Wanted[p]
    BY <1>1, <1>2, <1>3 DEF Missing
  <1>5. ~(i < k)
    BY <1>4 DEF FirstEntry
  <1>6. k \in Missing(p) /\ call[h].resp[k] = NoGrant
    BY <1>2, <1>3 DEF FirstEntry, Missing
  <1>7. ~(k < i)
    BY <1>0, <1>1, <1>6
  <1>8. i = k
    BY <1>0, <1>5, <1>7
  <1>9. \A j \in Missing(p) : j < i => call[h].resp[j] # NoGrant
    BY <1>0, <1>1 DEF Missing, Wanted
  <1> QED
    BY <1>1, <1>2, <1>4, <1>6, <1>8, <1>9 DEF Missing

(* One turn of the pop loop keeps the inductive invariant.                  *)
LEMMA ServeRequestStep ==
  ASSUME TypeOK, IInv, NEW h \in Calls, ServeRequest(h)
  PROVE  IInv'
  <1> USE DEF TypeOK, podVars, kubeletVars
  <1> DEFINE p == call[h].who
  <1>1. /\ call[h].pc = "pop"
        /\ UNCHANGED <<nodeLock, podVars, kubeletVars>>
    BY DEF ServeRequest
  <1>2. /\ p \in Pods /\ PhaseOf(h) /\ call[h].pod = p
        /\ bindPhase[p] = "success" => Remaining(p) = {}
        /\ waiting = h => LockOf(h) /\ DataInv(h) /\ PcInv(h)
    BY <1>1, HandlerFacts DEF Working
  <1>3. PICK i \in Slots, k \in Slots :
          /\ NextRequest(h, i) /\ FirstEntry(h, k)
          /\ call' = [call EXCEPT ![h] =
                [call[h] EXCEPT !.todo = call[h].todo \ {i},
                                !.work = [call[h].work EXCEPT ![k] = <<>>],
                                !.resp = [call[h].resp EXCEPT ![i] = Response(call[h].pod, k, call[h].work[k])]]]
    BY DEF ServeRequest
  <1> DEFINE g == Response(p, k, call[h].work[k])
  <1>4. g \in Grants /\ g # NoGrant
    BY <1>2, ResponseType, NullAssumption DEF CallStates, Entries
  <1>5. /\ Others(h)
        /\ call'[h].todo = call[h].todo \ {i}
        /\ call'[h].work = [call[h].work EXCEPT ![k] = <<>>]
        /\ call'[h].resp = [call[h].resp EXCEPT ![i] = g]
        /\ call'[h].pc = "pop" /\ call'[h].who = p
        /\ call'[h].pod = p /\ call'[h].ok = call[h].ok
    <2> HIDE DEF g
    <2>1. g = Response(call[h].pod, k, call[h].work[k])
      BY <1>2 DEF g
    <2>2. call' = [call EXCEPT ![h] =
                    [call[h] EXCEPT !.todo = call[h].todo \ {i},
                                    !.work = [call[h].work EXCEPT ![k] = <<>>],
                                    !.resp = [call[h].resp EXCEPT ![i] = g]]]
      BY <1>3, <2>1
    <2>3. CallTyped
      BY DEF CallTyped
    <2> HIDE DEF TypeOK
    <2>4. /\ CallTyped' /\ Others(h)
          /\ call'[h].todo = call[h].todo \ {i}
          /\ call'[h].work = [call[h].work EXCEPT ![k] = <<>>]
          /\ call'[h].resp = [call[h].resp EXCEPT ![i] = g]
          /\ call'[h].pc = call[h].pc /\ call'[h].who = call[h].who
          /\ call'[h].pod = call[h].pod /\ call'[h].ok = call[h].ok
      BY <1>4, <2>2, <2>3, ServeEffect
    <2> QED
      BY <1>1, <1>2, <2>4
  <1> HIDE DEF g
  <1>6. PhaseOf(h)'
    BY <1>1, <1>2, <1>5 DEF PhaseOf, Undecided
  <1>7. ASSUME waiting = h PROVE LockOf(h)' /\ WaitingInv'
    <2>1. LockOf(h)'
      BY <1>1, <1>2, <1>5, <1>7 DEF LockOf
    <2>2. /\ i = k /\ i \in Missing(p) /\ i \in Wanted[p]
          /\ call[h].work[k] = Assigned[p][i]
          /\ \A j \in Missing(p) : j < i => call[h].resp[j] # NoGrant
      BY <1>1, <1>2, <1>3, <1>7, SameContainer
    <2>3. g = Expected[p][i]
      BY <1>2, <2>2, NameOfSlot DEF g
    <2>4. call[h].resp \in [Slots -> Grants \cup {NoGrant}] /\ call[h].work \in Entries
      BY DEF CallStates
    <2>5. \A j \in Slots : call'[h].resp[j] = IF j = i THEN g ELSE call[h].resp[j]
      BY <1>5, <2>4
    <2>6. Missing(p)' = Missing(p) /\ Left(p, {})' = Left(p, {})
      BY <1>1, <1>5 DEF Missing, Left
    <2>7. DataInv(h)'
      <3>1. \A j \in Slots : call'[h].resp[j] # NoGrant =>
              /\ call'[h].resp[j] = Expected[p][j]
              /\ j \in Missing(p)
              /\ \A m \in Missing(p) : m < j => call'[h].resp[m] # NoGrant
        <4> SUFFICES ASSUME NEW j \in Slots, call'[h].resp[j] # NoGrant
                     PROVE  /\ call'[h].resp[j] = Expected[p][j]
                            /\ j \in Missing(p)
                            /\ \A m \in Missing(p) : m < j => call'[h].resp[m] # NoGrant
          OBVIOUS
        <4>0. Missing(p) \subseteq Slots
          BY <1>2 DEF Missing, Wanted
        <4>1. \A m \in Missing(p) : call[h].resp[m] # NoGrant => call'[h].resp[m] # NoGrant
          BY <1>4, <2>5, <4>0
        <4>2. CASE j = i
          BY <2>2, <2>3, <2>5, <4>1, <4>2
        <4>3. CASE j # i
          BY <1>2, <1>7, <2>5, <4>1, <4>3 DEF DataInv
        <4> QED
          BY <4>2, <4>3
      <3>2. /\ call'[h].todo \subseteq Missing(p)
            /\ \A j \in call'[h].todo : call'[h].resp[j] = NoGrant
            /\ \A j \in call'[h].todo, m \in Missing(p) :
                  m < j => m \in call'[h].todo \/ call'[h].resp[m] # NoGrant
        BY <1>2, <1>4, <1>5, <1>7, <2>5 DEF DataInv, Missing, Wanted
      <3> QED
        BY <1>5, <2>6, <3>1, <3>2 DEF DataInv
    <2>8. Served(h)' = Served(h) \cup {i}
      BY <1>4, <2>5 DEF Served
    <2>9. PcInv(h)'
      <3>1. call'[h].work = Left(p, Served(h) \cup {i})
        <4>1. call[h].work = Left(p, Served(h))
          BY <1>1, <1>2, <1>7 DEF PcInv, BeforePatch
        <4> QED
          BY <1>5, <2>2, <4>1 DEF Left
      <3>2. Left(p, Served(h))' = Left(p, Served(h) \cup {i})
        BY <1>1, <1>5, <2>8 DEF Left
      <3> QED
        BY <1>1, <1>2, <1>5, <1>7, <2>6, <2>8, <3>1, <3>2 DEF PcInv, PhaseOf, BeforePatch
    <2> QED
      BY <1>1, <1>7, <2>1, <2>7, <2>9 DEF WaitingInv
  <1>8. bindPhase'[p] = "success" => Remaining(p)' = {}
    BY <1>1, <1>2, <1>5 DEF Remaining
  <1> QED
    BY <1>1, <1>5, <1>6, <1>7, <1>8, HandlerFrame

(* patchErasedAnnotation keeps the inductive invariant.                     *)
LEMMA PatchStep ==
  ASSUME TypeOK, IInv, NEW h \in Calls, PatchErasedAnnotation(h)
  PROVE  IInv'
  <1> USE DEF TypeOK, podVars, kubeletVars
  <1> DEFINE p == call[h].who
  <1>1. /\ call[h].pc = "patch"
        /\ UNCHANGED <<nodeLock, bindPhase, kubeletVars>>
        /\ toAlloc' = [toAlloc EXCEPT ![call[h].pod] = call[h].work]
    BY DEF PatchErasedAnnotation
  <1>2. /\ p \in Pods /\ PhaseOf(h) /\ call[h].pod = p
        /\ waiting = h => LockOf(h) /\ DataInv(h) /\ PcInv(h)
    BY <1>1, HandlerFacts DEF Working
  <1>3. /\ Others(h)
        /\ call'[h].pc = "trySuccess" /\ call'[h].ok
        /\ call'[h].who = p /\ call'[h].todo = call[h].todo
        /\ call'[h].pod = call[h].pod /\ call'[h].work = call[h].work
        /\ call'[h].resp = call[h].resp
    BY PatchEffect DEF CallTyped
  <1>4. bindPhase[p] = "allocating"
    BY <1>1, <1>2 DEF PhaseOf, Undecided
  <1>5. PhaseOf(h)'
    BY <1>1, <1>3, <1>4 DEF PhaseOf, Undecided
  <1>6. ASSUME waiting = h PROVE LockOf(h)' /\ WaitingInv'
    <2>1. LockOf(h)'
      BY <1>1, <1>2, <1>3, <1>6 DEF LockOf
    <2>2. /\ Missing(p)' = Missing(p)
          /\ Served(h)' = Served(h) /\ Left(p, Served(h))' = Left(p, Served(h))
      BY <1>1, <1>3 DEF Missing, Served, Left
    <2>3. DataInv(h)'
      BY <1>2, <1>3, <1>6, <2>2 DEF DataInv
    <2>4. PcInv(h)'
      BY <1>1, <1>2, <1>3, <1>6, <2>2 DEF PcInv, BeforePatch
    <2> QED
      BY <1>1, <1>6, <2>1, <2>3, <2>4 DEF WaitingInv
  <1> QED
    BY <1>1, <1>2, <1>3, <1>4, <1>5, <1>6, HandlerFrame

(* Whether or not the patch was applied, the call fails and kubelet drops   *)
(* what it had prepared.                                                    *)
LEMMA PatchFailsStep ==
  ASSUME TypeOK, IInv, NEW h \in Calls, PatchErasedAnnotationFails(h)
  PROVE  IInv'
  <1> USE DEF TypeOK, podVars, kubeletVars
  <1> DEFINE p == call[h].who
  <1>1. /\ call[h].pc = "patch" /\ Goto(h, "setFailed")
        /\ UNCHANGED <<nodeLock, bindPhase, kubeletVars>>
        /\ \A q \in Pods : q # call[h].pod => toAlloc'[q] = toAlloc[q]
    BY DEF PatchErasedAnnotationFails, Fail
  <1>2. /\ p \in Pods /\ PhaseOf(h) /\ call[h].pod = p
        /\ waiting = h => LockOf(h) /\ DataInv(h) /\ PcInv(h)
    BY <1>1, HandlerFacts DEF Working
  <1>3. SameButPc(h) /\ call'[h].pc = "setFailed"
    BY <1>1, GotoEffect DEF CallTyped, PCs
  <1>4. bindPhase[p] = "allocating" /\ ~call[h].ok
    BY <1>1, <1>2 DEF PhaseOf, Undecided
  <1>5. PhaseOf(h)'
    BY <1>1, <1>3, <1>4 DEF PhaseOf, SameButPc
  <1>6. waiting = h => LockOf(h)' /\ PcInv(h)'
    BY <1>1, <1>2, <1>3, <1>4 DEF LockOf, PcInv, SameButPc, BeforePatch
  <1> QED
    BY <1>1, <1>2, <1>4, <1>5, <1>6, GotoFrame DEF PCs

(* Either mark of bind-phase keeps the inductive invariant.                 *)
LEMMA SetBindPhaseStep ==
  ASSUME TypeOK, IInv, NEW h \in Calls, SetSuccess(h) \/ SetFailed(h)
  PROVE  IInv'
  <1> USE DEF TypeOK, podVars, kubeletVars
  <1> DEFINE p == call[h].who
  <1>1. /\ call[h].pc \in {"setSuccess", "setFailed"} /\ Goto(h, "release")
        /\ UNCHANGED <<nodeLock, toAlloc, kubeletVars>>
        /\ \A q \in Pods : q # call[h].pod => bindPhase'[q] = bindPhase[q]
    BY DEF SetSuccess, SetFailed, SetBindPhase
  <1>2. /\ p \in Pods /\ PhaseOf(h) /\ call[h].pod = p
        /\ waiting = h => LockOf(h) /\ DataInv(h) /\ PcInv(h)
    BY <1>1, HandlerFacts DEF Working
  <1>3. SameButPc(h) /\ call'[h].pc = "release"
    BY <1>1, GotoEffect DEF CallTyped, PCs
  <1>4. /\ bindPhase[p] = "allocating"
        /\ call[h].ok <=> call[h].pc = "setSuccess"
    BY <1>1, <1>2 DEF PhaseOf, Undecided
  <1>5. bindPhase'[p] \in {"allocating", IF call[h].ok THEN "success" ELSE "failed"}
    BY <1>1, <1>2, <1>4 DEF SetSuccess, SetFailed, SetBindPhase
  <1>6. waiting = h /\ call[h].ok => Complete(h)' /\ Complete(h)
    BY <1>1, <1>2, <1>3, <1>4 DEF PcInv, Complete, SameButPc
  <1>7. PhaseOf(h)'
    BY <1>1, <1>3, <1>5, <1>6 DEF PhaseOf, SameButPc, Undecided
  <1>8. ASSUME waiting = h PROVE LockOf(h)' /\ PcInv(h)'
    <2>1. Left(p, Served(h))' = Left(p, Served(h)) /\ Served(h)' = Served(h)
      BY <1>1, <1>3 DEF Left, Served, SameButPc
    <2> QED
      BY <1>1, <1>2, <1>3, <1>6, <1>8, <2>1 DEF LockOf, PcInv, SameButPc, BeforePatch
  <1>9. bindPhase'[p] = "success" => Remaining(p)' = {}
    BY <1>1, <1>2, <1>3, <1>4, <1>5 DEF PhaseOf, Remaining, SameButPc
  <1> QED
    BY <1>1, <1>2, <1>7, <1>8, <1>9, GotoFrame DEF PCs

(* ReleaseNodeLock keeps the inductive invariant.                           *)
LEMMA ReleaseStep ==
  ASSUME TypeOK, IInv, NEW h \in Calls, ReleaseNodeLock(h)
  PROVE  IInv'
  <1> USE DEF TypeOK, podVars, kubeletVars
  <1> DEFINE p == call[h].who
  <1>1. /\ call[h].pc = "release" /\ Goto(h, "reply")
        /\ UNCHANGED <<podVars, kubeletVars>>
        /\ \A q \in Pods : q # call[h].pod /\ nodeLock = q => nodeLock' = q
    BY DEF ReleaseNodeLock
  <1>2. /\ p \in Pods /\ PhaseOf(h) /\ call[h].pod = p
        /\ bindPhase[p] = "success" => Remaining(p) = {}
        /\ waiting = h => LockOf(h) /\ DataInv(h) /\ PcInv(h)
    BY <1>1, HandlerFacts DEF Working
  <1>3. SameButPc(h) /\ call'[h].pc = "reply"
    BY <1>1, GotoEffect DEF CallTyped, PCs
  <1>4. Complete(h)' = Complete(h) /\ Served(h)' = Served(h) /\ Remaining(p)' = Remaining(p)
        /\ Left(p, Served(h))' = Left(p, Served(h))
    BY <1>1, <1>3 DEF Complete, Served, SameButPc, Remaining, Left
  <1>5. PhaseOf(h)'
    BY <1>1, <1>2, <1>3, <1>4 DEF PhaseOf, SameButPc, Undecided
  <1>6. waiting = h => LockOf(h)' /\ PcInv(h)'
    BY <1>1, <1>2, <1>3, <1>4 DEF LockOf, PcInv, SameButPc, BeforePatch
  <1> QED
    BY <1>1, <1>2, <1>4, <1>5, <1>6, GotoFrame DEF PCs, Working

(* The answer counts what the call served to what kubelet holds; if that is *)
(* not everything, the pod is still pending and its annotation is in step.  *)
LEMMA ReplyStep ==
  ASSUME TypeOK, IInv, NEW h \in Calls, Reply(h)
  PROVE  IInv'
  <1> USE DEF TypeOK, podVars, kubeletVars
  <1>p. PICK p \in Pods : p = call[h].who
    BY HandlerFacts DEF Reply
  <1> DEFINE new == [i \in Slots |-> IF call[h].resp[i] # NoGrant THEN call[h].resp[i]
                                    ELSE granted[p][i]]
  <1> USE <1>p
  <1>0. \A g \in Calls : g # NoCall
    BY NullAssumption
  <1>1. call[h].pc = "reply" /\ UNCHANGED <<nodeLock, podVars>>
    BY DEF Reply
  <1>2. call'[h].pc = "idle" /\ \A g \in Calls : g # h => call'[g] = call[g]
    BY DEF Reply, Idle
  <1>3. /\ p \in Pods /\ PhaseOf(h)
        /\ waiting = h => kstate[p] = "admitting" /\ LockOf(h) /\ DataInv(h) /\ PcInv(h)
        /\ waiting # h => kstate[p] = "rejected"
    BY <1>1, HandlerFacts
  <1>4. \A g \in Calls : g # h /\ call[g].pc # "idle" => call[g].who # p /\ call[g].who \in Pods
    BY <1>1 DEF IInv, AdmissionInv
  <1>5. \A g \in Calls : call'[g].pc # "idle" => g # h /\ call'[g] = call[g]
    BY <1>2
  <1>6. OwnPodInv' /\ SuccessMeansErased'
    BY <1>1, <1>2, <1>5 DEF IInv, OwnPodInv, SuccessMeansErased, Remaining, Working
  <1>7. CASE waiting = h
    <2>1. /\ waiting' = NoCall
          /\ \/ /\ call[h].ok
                /\ granted' = [granted EXCEPT ![p] = new]
                /\ kstate' = [kstate EXCEPT ![p] =
                                IF \A i \in Wanted[p] : new[i] # NoGrant THEN "running" ELSE @]
             \/ granted' = granted /\ kstate' = [kstate EXCEPT ![p] = "rejected"]
      BY <1>7, SMTT(30) DEF Reply
    <2> DEFINE all == \A i \in Wanted[p] : new[i] # NoGrant
    <2>2. all <=> Complete(h)
      BY <1>3 DEF Complete, Wanted
    <2>3. \A i \in Slots : new[i] = IF call[h].resp[i] # NoGrant THEN call[h].resp[i]
                                     ELSE granted[p][i]
      OBVIOUS
    <2> HIDE DEF all, new
    <2>4. \/ /\ call[h].ok
             /\ granted' = [granted EXCEPT ![p] = new]
             /\ kstate' = [kstate EXCEPT ![p] = IF all THEN "running" ELSE "admitting"]
          \/ granted' = granted /\ kstate' = [kstate EXCEPT ![p] = "rejected"]
      BY <1>3, <1>7, <2>1 DEF all
    <2>5. /\ \A q \in Pods : q # p => kstate'[q] = kstate[q] /\ granted'[q] = granted[q]
          /\ kstate'[p] \in {"admitting", "running", "rejected"}
      BY <1>3, <2>4
    <2>6. kstate'[p] = "admitting" =>
            call[h].ok /\ ~Complete(h) /\ granted'[p] = new
      BY <1>3, <2>2, <2>4
    <2>7. kstate'[p] = "admitting" => nodeLock = p /\ bindPhase[p] = "allocating"
      BY <1>3, <1>7, <2>6 DEF LockOf, PhaseOf
    <2>8. kstate'[p] = "admitting" => toAlloc[p] = Left(p, {})'
      <3>1. ASSUME kstate'[p] = "admitting" PROVE Left(p, {})' = Left(p, Served(h))
        BY <2>3, <2>6, <3>1 DEF Left, Served
      <3> QED
        BY <1>3, <1>7, <2>6, <3>1 DEF PcInv
    <2>9. kstate'[p] = "running" => bindPhase[p] # "failed"
      BY <1>3, <1>7, <2>4 DEF PhaseOf
    <2>10. \A i \in Slots : granted'[p][i] # NoGrant => granted'[p][i] = Expected[p][i]
      BY <1>3, <1>7, <2>3, <2>4 DEF DataInv, IInv, GrantsMatchAssignment
    <2>11. AdmissionInv'
      <3>1. \A q \in Pods : kstate'[q] = "admitting" => q = p
        BY <1>3, <1>7, <2>5 DEF IInv, AdmissionInv
      <3>2. \A g \in Calls : call'[g].pc # "idle" =>
              /\ call'[g] = call[g] /\ call[g].pc # "idle" /\ call[g].who \in Pods
              /\ kstate'[call[g].who] = "rejected"
        <4>1. ASSUME NEW g \in Calls, call'[g].pc # "idle"
              PROVE  kstate[call[g].who] = "rejected"
          BY <1>5, <1>7, <4>1 DEF IInv, AdmissionInv
        <4> QED
          BY <1>4, <1>5, <2>5, <4>1
      <3>3. \A g, f \in Calls : g # f /\ call'[g].pc # "idle" /\ call'[f].pc # "idle"
              => call'[g].who # call'[f].who
        BY <3>2 DEF IInv, AdmissionInv
      <3> QED
        BY <1>0, <2>1, <3>1, <3>2, <3>3 DEF AdmissionInv
    <2>12. LockInv'
      BY <1>0, <1>1, <1>3, <1>7, <2>1, <2>5, <2>7 DEF IInv, LockInv, AdmissionInv
    <2>13. PhaseInv'
      <3>1. ASSUME NEW g \in Calls, call'[g].pc # "idle" PROVE PhaseOf(g)'
        <4>1. g # h /\ call'[g] = call[g] /\ PhaseOf(g)
          BY <1>5, <3>1 DEF IInv, PhaseInv
        <4> QED
          BY <1>0, <1>1, <2>1, <4>1 DEF PhaseOf, Remaining
      <3> QED
        BY <1>1, <1>3, <1>7, <2>5, <2>7, <3>1 DEF IInv, PhaseInv, AdmissionInv
    <2>14. AnnotationInv'
      <3>1. \A q \in Pods : q # p => Left(q, {})' = Left(q, {})
        BY <2>5 DEF Left
      <3>2. \A q \in Pods : kstate'[q] = "admitting" => q = p
        BY <1>3, <1>7, <2>5 DEF IInv, AdmissionInv
      <3> QED
        BY <1>1, <1>3, <1>7, <2>5, <2>8, <3>1, <3>2 DEF IInv, AnnotationInv
    <2>15. WaitingInv' /\ GrantsMatchAssignment' /\ RunningNeverFailed'
      BY <1>1, <2>1, <2>5, <2>9, <2>10
      DEF IInv, WaitingInv, GrantsMatchAssignment, RunningNeverFailed
    <2> QED
      BY <1>6, <2>11, <2>12, <2>13, <2>14, <2>15 DEF IInv
  <1>8. CASE waiting # h
    <2>1. UNCHANGED kubeletVars
      BY <1>8 DEF Reply
    <2>2. AdmissionInv'
      BY <1>2, <1>8, <2>1 DEF IInv, AdmissionInv
    <2>3. waiting # NoCall => call'[waiting] = call[waiting] /\ call[waiting].who # p
      BY <1>2, <1>4, <1>8 DEF IInv, AdmissionInv
    <2>4. LockInv'
      BY <1>1, <2>1, <2>3 DEF IInv, LockInv, LockOf, Complete
    <2>5. PhaseInv'
      <3>1. ASSUME NEW g \in Calls, call'[g].pc # "idle" PROVE PhaseOf(g)'
        <4>1. g # h /\ call'[g] = call[g] /\ PhaseOf(g)
          BY <1>5, <3>1 DEF IInv, PhaseInv
        <4> QED
          BY <1>1, <2>1, <4>1 DEF PhaseOf, Remaining, Complete
      <3> QED
        BY <1>1, <2>1, <3>1 DEF IInv, PhaseInv
    <2>6. AnnotationInv'
      BY <1>1, <2>1 DEF IInv, AnnotationInv, Left
    <2>7. WaitingInv'
      <3>1. ASSUME waiting # NoCall PROVE (DataInv(waiting) /\ PcInv(waiting))'
        <4>1. waiting' = waiting /\ call'[waiting] = call[waiting]
              /\ DataInv(waiting) /\ PcInv(waiting)
          BY <2>1, <2>3, <3>1 DEF IInv, WaitingInv
        <4> QED
          BY <1>1, <2>1, <4>1 DEF DataInv, PcInv, Missing, Left, Served, Complete
      <3> QED
        BY <2>1, <3>1 DEF WaitingInv
    <2>8. GrantsMatchAssignment' /\ RunningNeverFailed'
      BY <1>1, <2>1 DEF IInv, GrantsMatchAssignment, RunningNeverFailed
    <2> QED
      BY <1>6, <2>2, <2>4, <2>5, <2>6, <2>7, <2>8 DEF IInv
  <1> QED
    BY <1>7, <1>8

(* Every action keeps the inductive invariant.                              *)
LEMMA InvStep == TypeOK /\ IInv /\ [Next]_vars => IInv'
  <1> SUFFICES ASSUME TypeOK, IInv, [Next]_vars PROVE IInv'
    OBVIOUS
  <1>1. ASSUME NEW p \in Pods, SchedulerBind(p) PROVE IInv'
    BY <1>1, BindStep
  <1>2. ASSUME NEW p \in Pods, LockExpires(p) PROVE IInv'
    BY <1>2, LockOnlyStep DEF LockExpires
  <1>3. ASSUME NEW p \in Pods, KubeletStep(p) PROVE IInv'
    BY <1>3, KubeletCallsStep DEF KubeletStep
  <1>4. ASSUME NEW p \in Pods, PluginUnavailable(p) PROVE IInv'
    BY <1>4, PluginUnavailableStep
  <1>5. ASSUME NEW h \in Calls, HandlerStep(h) PROVE IInv'
    BY <1>5, LocalStep, GetPendingPodStep, ServeRequestStep, PatchStep, PatchFailsStep,
       SetBindPhaseStep, ReleaseStep, ReplyStep DEF HandlerStep
  <1>6. CASE GrpcStop
    BY <1>6, GrpcStopStep
  <1>7. CASE ProcessCrash
    BY <1>7, ProcessCrashStep
  <1>8. CASE UpdateDevice \/ UNCHANGED vars
    BY <1>8, LockOnlyStep DEF UpdateDevice, vars
  <1> QED
    BY <1>1, <1>2, <1>3, <1>4, <1>5, <1>6, <1>7, <1>8 DEF Next

(* The inductive invariant holds in every reachable state: the lock, the    *)
(* annotation, bind-phase, kubelet's state and the working copies of the    *)
(* calls in flight agree, whatever call of Allocate fails or comes late.    *)
THEOREM InvariantHolds == Spec => [](TypeOK /\ PodFound /\ IInv)
  <1>1. Init => TypeOK /\ PodFound /\ IInv
    BY TypingInit, InvInit
  <1>2. TypeOK /\ PodFound /\ IInv /\ [Next]_vars => (TypeOK /\ PodFound /\ IInv)'
    BY TypingStep, InvStep
  <1> QED
    BY <1>1, <1>2, PTL DEF Spec

-----------------------------------------------------------------------------
(* GrantsMatchAssignment: whatever kubelet holds for a container is what    *)
(* the scheduler decided for that container, for every number of pods,     *)
(* containers and calls, whatever faults the API server and the plugin's   *)
(* restarts produce (the pop loop and the patch of Allocate).              *)
THEOREM GrantsCorrect == Spec => []GrantsMatchAssignment
  <1>1. IInv => GrantsMatchAssignment
    BY DEF IInv
  <1> QED
    BY <1>1, InvariantHolds, PTL

(* LockHeldUntilAllocated: the node is locked for a pod until its last     *)
(* container is allocated or the pod fails (GetPendingPod relies on it).   *)
THEOREM LockHeld == Spec => []LockHeldUntilAllocated
  <1>1. IInv => LockHeldUntilAllocated
    <2> SUFFICES ASSUME IInv, NEW p \in Pods,
                        kstate[p] \in {"bound", "admitting"}, ~Returning(p)
                 PROVE  nodeLock = p
      BY DEF LockHeldUntilAllocated
    <2> QED
      BY DEF IInv, LockInv, LockOf, Returning
  <1> QED
    BY <1>1, InvariantHolds, PTL

(* RunningNeverFailed: no late or orphaned call marks a running pod failed  *)
(* (the deferred podAllocationFailed of Allocate).                         *)
THEOREM RunningSafe == Spec => []RunningNeverFailed
  <1>1. IInv => RunningNeverFailed
    BY DEF IInv
  <1> QED
    BY <1>1, InvariantHolds, PTL

(* SuccessMeansErased: bind-phase "success" is only seen when every entry   *)
(* of the annotation is erased (podAllocationTrySuccess).                  *)
THEOREM SuccessSafe == Spec => []SuccessMeansErased
  <1>1. IInv => SuccessMeansErased
    BY DEF IInv
  <1> QED
    BY <1>1, InvariantHolds, PTL
-----------------------------------------------------------------------------
(* LockNotLeftBehind.  While no call to the API server fails, the call that *)
(* ends a pod's allocation has freed its lock when it is about to return.   *)

Over(h) == call[h].pc = "reply" /\ (~call[h].ok \/ Complete(h))

FreedInv ==
  ~ApiFaults => LockNotLeftBehind /\ (waiting # NoCall /\ Over(waiting) => nodeLock # call[waiting].who)

(* A step that leaves kubelet alone keeps it, when the call kubelet waits   *)
(* for ends with its lock freed.                                           *)
LEMMA FreedFrame ==
  ASSUME TypeOK, IInv, FreedInv, UNCHANGED kubeletVars,
         nodeLock' = nodeLock \/ nodeLock' = NoPod,
         ~ApiFaults /\ waiting # NoCall /\ Over(waiting)' => nodeLock' # call'[waiting].who
  PROVE  FreedInv'
  <1>1. ~ApiFaults => LockNotLeftBehind'
    BY NullAssumption DEF FreedInv, LockNotLeftBehind, kubeletVars
  <1> QED
    BY <1>1 DEF FreedInv, kubeletVars

(* Nor does a step of a handler kubelet does not wait for change it.        *)
LEMMA FreedByOthers ==
  ASSUME TypeOK, IInv, FreedInv, NEW h \in Calls, Others(h), waiting # h,
         UNCHANGED kubeletVars, nodeLock' = nodeLock \/ nodeLock' = NoPod
  PROVE  FreedInv'
  <1>1. waiting # NoCall => /\ waiting \in Calls /\ call'[waiting] = call[waiting]
                            /\ call[waiting].who \in Pods
    BY DEF TypeOK, Others, IInv, AdmissionInv
  <1>2. waiting # NoCall => Over(waiting)' = Over(waiting)
    BY <1>1 DEF Over, Complete, kubeletVars
  <1> QED
    BY <1>1, <1>2, FreedFrame, NullAssumption DEF FreedInv

(* A handler moves on without ending the call, or ends it with more of its  *)
(* pod to come: GetPendingPod cannot miss a pod that is still allocating.   *)
LEMMA FreedLocalStep ==
  ASSUME TypeOK, IInv, FreedInv, NEW h \in Calls,
         \/ GetPendingPodFails(h) \/ DecodeAnnotations(h) \/ ServeRequestFails(h)
         \/ LoopEnds(h) \/ TrySuccess(h)
  PROVE  FreedInv'
  <1>1. /\ call[h].pc \in {"getPod", "decode", "pop", "trySuccess"}
        /\ UNCHANGED <<nodeLock, podVars, kubeletVars>>
    BY DEF GetPendingPodFails, DecodeAnnotations, ServeRequestFails, LoopEnds, TrySuccess
  <1>2. PICK l \in PCs :
          /\ Goto(h, l)
          /\ l = "reply" => \/ GetPendingPodFails(h)
                            \/ call[h].pc = "trySuccess" /\ (Remaining(call[h].pod) # {} \/ ApiFaults)
    BY DEF GetPendingPodFails, DecodeAnnotations, ServeRequestFails, LoopEnds, TrySuccess,
           Fail, PCs
  <1>3. Others(h) /\ SameButPc(h) /\ call'[h].pc = l
    BY <1>2, GotoEffect DEF CallTyped, TypeOK
  <1>4. CASE waiting # h
    BY <1>1, <1>3, <1>4, FreedByOthers
  <1>5. CASE waiting = h /\ l # "reply"
    BY <1>1, <1>3, <1>5, FreedFrame DEF Over, kubeletVars
  <1>6. CASE waiting = h /\ l = "reply"
    <2> DEFINE p == call[h].who
    <2>1. /\ p \in Pods /\ PhaseOf(h) /\ (call[h].pc \in Working => call[h].pod = p)
          /\ PcInv(h)
      BY <1>1, <1>6, HandlerFacts
    <2>2. ~GetPendingPodFails(h) \/ ApiFaults
      <3>1. call[h].pc = "getPod" => bindPhase[p] = "allocating"
        BY <2>1 DEF PhaseOf, Undecided
      <3> QED
        BY <1>6, <2>1, <3>1 DEF GetPendingPodFails, PendingPods
    <2>3. ~ApiFaults => call[h].ok /\ ~Complete(h)
      <3> SUFFICES ASSUME ~ApiFaults PROVE call[h].ok /\ ~Complete(h)
        OBVIOUS
      <3>1. call[h].pc = "trySuccess" /\ Remaining(p) # {}
        BY <1>2, <1>6, <2>1, <2>2 DEF Working
      <3>2. call[h].ok /\ toAlloc[p] = Left(p, Served(h))
        BY <2>1, <3>1 DEF PhaseOf, PcInv
      <3>3. PICK i \in Slots : toAlloc[p][i] # <<>>
        BY <3>1 DEF Remaining
      <3>4. granted[p][i] = NoGrant /\ call[h].resp[i] = NoGrant /\ Assigned[p][i] # <<>>
        BY <3>2, <3>3 DEF Left, Served
      <3>5. i \in Wanted[p]
        BY <2>1, <3>4, SchedulerAssumption DEF Wanted
      <3> QED
        BY <3>2, <3>4, <3>5 DEF Complete
    <2>4. ~ApiFaults => ~Over(h)'
      <3>1. Complete(h)' = Complete(h)
        BY <1>1, <1>3 DEF Complete, SameButPc, kubeletVars
      <3> QED
        BY <1>3, <2>3, <3>1 DEF Over, SameButPc
    <2> QED
      BY <1>1, <1>6, <2>4, FreedFrame DEF kubeletVars
  <1> QED
    BY <1>4, <1>5, <1>6

(* The other steps of a handler before its last do not end the call; the    *)
(* release ends it with the lock freed.                                    *)
LEMMA FreedHandlerStep ==
  ASSUME TypeOK, PodFound, IInv, FreedInv, NEW h \in Calls,
         \/ GetPendingPod(h) \/ ServeRequest(h)
         \/ PatchErasedAnnotation(h) \/ PatchErasedAnnotationFails(h)
         \/ SetSuccess(h) \/ SetFailed(h) \/ ReleaseNodeLock(h)
  PROVE  FreedInv'
  <1> USE DEF CallTyped
  <1>0. CallTyped
    BY DEF TypeOK
  <1>1. CASE GetPendingPod(h) \/ ServeRequest(h) \/ PatchErasedAnnotation(h)
    <2>1. Others(h) /\ call'[h].pc # "reply"
      <3>1. CASE GetPendingPod(h)
        <4>1. PICK q \in PendingPods :
                 call' = [call EXCEPT ![h] =
                            [@ EXCEPT !.pc = "decode", !.pod = q, !.work = toAlloc[q]]]
          BY <3>1 DEF GetPendingPod
        <4>2. q \in Pods
          BY <4>1 DEF PendingPods, TypeOK
        <4> QED
          BY <4>1, <4>2, GetPendingPodEffect
      <3>2. CASE ServeRequest(h)
        <4>1. PICK i \in Slots, k \in Slots :
                call' = [call EXCEPT ![h] =
                   [call[h] EXCEPT !.todo = call[h].todo \ {i},
                                   !.work = [call[h].work EXCEPT ![k] = <<>>],
                                   !.resp = [call[h].resp EXCEPT ![i] =
                                               Response(call[h].pod, k, call[h].work[k])]]]
          BY <3>2 DEF ServeRequest
        <4>2. call[h].pc = "pop" /\ call[h].pod \in Pods /\ call[h].work[k] \in Seq(Devices)
          <5>1. call[h].pc = "pop"
            BY <3>2 DEF ServeRequest
          <5>2. call[h].pod \in Pods
            BY <5>1 DEF PodFound, Working
          <5>3. call[h].work \in [Slots -> Seq(Devices)]
            BY <1>0 DEF CallStates, Entries
          <5> QED
            BY <4>1, <5>1, <5>2, <5>3
        <4>3. Response(call[h].pod, k, call[h].work[k]) \in Grants
          BY <4>1, <4>2, ResponseType
        <4> QED
          BY <1>0, <4>1, <4>2, <4>3, ServeEffect
      <3>3. CASE PatchErasedAnnotation(h)
        BY <1>0, <3>3, PatchEffect
      <3> QED
        BY <1>1, <3>1, <3>2, <3>3
    <2>2. UNCHANGED <<nodeLock, kubeletVars>>
      BY <1>1 DEF GetPendingPod, ServeRequest, PatchErasedAnnotation
    <2> QED
      BY <2>1, <2>2, FreedByOthers, FreedFrame DEF Over, kubeletVars
  <1>2. CASE PatchErasedAnnotationFails(h) \/ SetSuccess(h) \/ SetFailed(h)
    <2>1. PICK l \in {"setFailed", "release"} : Goto(h, l)
      BY <1>2 DEF PatchErasedAnnotationFails, Fail, SetSuccess, SetFailed, SetBindPhase
    <2>2. Others(h) /\ call'[h].pc # "reply"
      BY <1>0, <2>1, GotoEffect DEF PCs
    <2>3. UNCHANGED <<nodeLock, kubeletVars>>
      BY <1>2 DEF PatchErasedAnnotationFails, SetSuccess, SetFailed, SetBindPhase
    <2> QED
      BY <2>2, <2>3, FreedByOthers, FreedFrame DEF Over, kubeletVars
  <1>3. CASE ReleaseNodeLock(h)
    <2>1. /\ call[h].pc = "release" /\ Goto(h, "reply") /\ UNCHANGED kubeletVars
          /\ nodeLock' = nodeLock \/ nodeLock' = NoPod
          /\ ~ApiFaults => nodeLock' # call[h].pod \/ nodeLock' = NoPod
      BY <1>3 DEF ReleaseNodeLock
    <2>2. Others(h) /\ SameButPc(h)
      BY <1>0, <2>1, GotoEffect DEF PCs
    <2>3. call[h].pod = call[h].who /\ call[h].who \in Pods
      BY <2>1, HandlerFacts DEF Working
    <2> QED
      BY <2>1, <2>2, <2>3, FreedByOthers, FreedFrame, NullAssumption DEF SameButPc
  <1> QED
    BY <1>1, <1>2, <1>3

(* A pod runs or is rejected by an answer, and its lock is freed by then.   *)
LEMMA FreedReplyStep ==
  ASSUME TypeOK, IInv, FreedInv, NEW h \in Calls, Reply(h)
  PROVE  FreedInv'
  <1>1. call[h].pc = "reply" /\ nodeLock' = nodeLock
    BY DEF Reply
  <1>2. CASE waiting # h
    <2>1. Others(h) /\ UNCHANGED kubeletVars
      BY <1>2 DEF Reply, Others
    <2> QED
      BY <1>1, <1>2, <2>1, FreedByOthers
  <1>3. CASE waiting = h
    <2> DEFINE p == call[h].who
    <2>1. p \in Pods /\ kstate[p] = "admitting" /\ waiting' = NoCall
      BY <1>1, <1>3, HandlerFacts DEF Reply
    <2>2. PICK s \in PodStates :
            /\ kstate' = [kstate EXCEPT ![p] = s]
            /\ s \in {"running", "rejected"} => ~call[h].ok \/ Complete(h)
      <3>1. CASE ~call[h].ok
        BY <1>3, <3>1 DEF Reply, PodStates
      <3>2. CASE call[h].ok
        <4> DEFINE new == [i \in Slots |-> IF call[h].resp[i] # NoGrant THEN call[h].resp[i]
                                          ELSE granted[p][i]]
                   all == \A i \in Wanted[p] : new[i] # NoGrant
        <4>1. kstate' = [kstate EXCEPT ![p] = IF all THEN "running" ELSE @]
          BY <1>3, <3>2 DEF Reply
        <4>2. all => Complete(h)
          BY <2>1 DEF Complete, Wanted
        <4> HIDE DEF all
        <4>3. kstate' = [kstate EXCEPT ![p] = IF all THEN "running" ELSE "admitting"]
          BY <2>1, <4>1
        <4> QED
          BY <4>2, <4>3 DEF PodStates
      <3> QED
        BY <3>1, <3>2
    <2>3. /\ kstate'[p] = s
          /\ \A q \in Pods : q # p => kstate'[q] = kstate[q]
      BY <2>1, <2>2 DEF TypeOK
    <2>4. ~ApiFaults /\ s \in {"running", "rejected"} => nodeLock # p
      BY <1>1, <1>3, <2>2, NullAssumption DEF FreedInv, Over
    <2>5. ~ApiFaults => LockNotLeftBehind'
      BY <1>1, <2>3, <2>4 DEF FreedInv, LockNotLeftBehind
    <2> QED
      BY <2>1, <2>5 DEF FreedInv
  <1> QED
    BY <1>2, <1>3

(* Scheduler, kubelet and restarts of the plugin keep it too.               *)
LEMMA FreedOutsideStep ==
  ASSUME TypeOK, IInv, FreedInv,
         \/ \E p \in Pods : SchedulerBind(p) \/ LockExpires(p) \/ KubeletStep(p) \/ PluginUnavailable(p)
         \/ GrpcStop \/ ProcessCrash \/ UpdateDevice \/ UNCHANGED vars
  PROVE  FreedInv'
  <1> USE DEF kubeletVars, podVars
  <1>1. ASSUME NEW p \in Pods, SchedulerBind(p) PROVE FreedInv'
    <2>1. /\ nodeLock' = p /\ kstate[p] = "unbound" /\ UNCHANGED <<granted, waiting, call>>
          /\ kstate'[p] = "bound"
      BY <1>1 DEF SchedulerBind, TypeOK
    <2>2. waiting # NoCall => call[waiting].who # p
      BY <2>1 DEF IInv, AdmissionInv
    <2> QED
      BY <2>1, <2>2 DEF FreedInv, LockNotLeftBehind
  <1>2. ASSUME NEW p \in Pods, LockExpires(p) PROVE FreedInv'
    <2>1. waiting # NoCall => call[waiting].who # NoPod
      BY NullAssumption DEF IInv, AdmissionInv
    <2> QED
      BY <1>2, <2>1, FreedFrame DEF LockExpires
  <1>3. ASSUME NEW p \in Pods, KubeletStep(p) PROVE FreedInv'
    <2>1. PICK h \in Calls, R \in SUBSET Slots : KubeletCalls(p, h, R)
      BY <1>3 DEF KubeletStep
    <2>2. call'[h].pc = "getPod" /\ waiting' = h /\ UNCHANGED nodeLock
      BY <2>1, KubeletCallsEffect DEF KubeletCalls, CallTyped, TypeOK
    <2>3. kstate' = [kstate EXCEPT ![p] = "admitting"]
      BY <2>1 DEF KubeletCalls
    <2> QED
      BY <2>2, <2>3 DEF FreedInv, LockNotLeftBehind, Over, TypeOK
  <1>4. ASSUME NEW p \in Pods, PluginUnavailable(p) PROVE FreedInv'
    <2>1. PluginRestarts /\ waiting' = NoCall /\ UNCHANGED nodeLock
          /\ kstate' = [kstate EXCEPT ![p] = "rejected"]
      BY <1>4 DEF PluginUnavailable, MayCall
    <2> QED
      BY <2>1 DEF FreedInv, LockNotLeftBehind, TypeOK
  <1>5. CASE GrpcStop \/ ProcessCrash
    <2>1. PluginRestarts /\ Abandon /\ UNCHANGED nodeLock
      BY <1>5 DEF GrpcStop, ProcessCrash
    <2>2. waiting' = NoCall /\ \A q \in Pods : kstate'[q] = "running" => kstate[q] = "running"
      BY <2>1 DEF Abandon, TypeOK
    <2> QED
      BY <2>1, <2>2 DEF FreedInv, LockNotLeftBehind
  <1>6. CASE UpdateDevice \/ UNCHANGED vars
    BY <1>6 DEF UpdateDevice, vars, FreedInv, LockNotLeftBehind, Over, Complete
  <1> QED
    BY <1>1, <1>2, <1>3, <1>4, <1>5, <1>6

(* LockNotLeftBehind: while the API server answers, the plugin frees the    *)
(* lock of every pod before kubelet runs it, and before kubelet rejects it *)
(* for any error of Allocate (the deferred function, server.go).           *)
THEOREM LockFreedInTime == Spec => []LockNotLeftBehind
  <1>1. Init => FreedInv
    BY NullAssumption DEF Init, FreedInv, LockNotLeftBehind
  <1>2. TypeOK /\ PodFound /\ IInv /\ FreedInv /\ [Next]_vars => FreedInv'
    BY FreedLocalStep, FreedHandlerStep, FreedReplyStep, FreedOutsideStep DEF Next, HandlerStep
  <1>3. FreedInv => LockNotLeftBehind
    BY DEF FreedInv, LockNotLeftBehind
  <1> QED
    BY <1>1, <1>2, <1>3, InvariantHolds, PTL DEF Spec
=============================================================================
