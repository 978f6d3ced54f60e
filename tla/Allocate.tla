------------------------------ MODULE Allocate ------------------------------
(***************************************************************************)
(* The device-allocation protocol of one node: the HAMi scheduler writes   *)
(* the devices of a pod, container by container, into an annotation and    *)
(* locks the node; kubelet admits the pod and calls the plugin's Allocate  *)
(* with a number of device IDs only; the handler finds the pod through the *)
(* node lock, pops the next entries of the annotation, writes the rest     *)
(* back, and releases the lock when nothing is left.                       *)
(*                                                                         *)
(* One action is one call of the handler that reads or writes something    *)
(* others see.  Calls are goroutines of the gRPC server: Server.Stop does  *)
(* not wait for them, so a call may outlive the one that waited for it.    *)
(***************************************************************************)
EXTENDS Integers, Sequences, FiniteSets

CONSTANTS
  Pods, Devices,
  Calls,              \* identities for the Allocate calls in flight
  NSlots,             \* bound on the containers of a pod
  InitNames, Names,   \* InitNames[p], Names[p]: pod.Spec.InitContainers, .Containers
  Assigned,           \* Assigned[p][i]: the devices the scheduler chose for slot i
  Asked,              \* Asked[p][i]: how many device IDs kubelet asks for
  WellFormed,         \* the pods whose annotations the plugin can decode
  HamiCore,           \* the pods served in hami-vnpu-core mode
  KnownSets,          \* the device sets UpdateDevice may find
  ApiFaults,          \* may a call to the API server fail?
  PluginRestarts,     \* may the plugin restart while it serves?
  NoPod, NoCall, NoGrant, NoName

Slots == 1..NSlots

(* The k-th container of the pod for kubelet: init containers come first.   *)
KubeletNames(p) == InitNames[p] \o Names[p]

(* Mutant: the entries are matched with the regular containers only.        *)
CtrNameIgnoresInit(p, i) == IF i <= Len(Names[p]) THEN Names[p][i] ELSE NoName

(* popNextContainerDevices: the name that goes with entry i.                *)
CtrName(p, i) ==
  IF i <= Len(InitNames[p]) THEN InitNames[p][i]
  ELSE IF i - Len(InitNames[p]) <= Len(Names[p]) THEN Names[p][i - Len(InitNames[p])]
  ELSE NoName

AllNames == {CtrName(p, i) : p \in Pods, i \in Slots}

Wanted   == [p \in Pods |-> {i \in Slots : Asked[p][i] > 0}]
Expected == [p \in Pods |-> [i \in Slots |->
               [pod |-> p, ctr |-> KubeletNames(p)[i], devs |-> Assigned[p][i]]]]

(* A call's answer for one container: the visible devices and, for the     *)
(* shared-memory directory, the pod and the container they are meant for.  *)
Grants == [pod : Pods, ctr : AllNames, devs : Seq(Devices)]

Entries == [Slots -> Seq(Devices)]
NoEntries == [i \in Slots |-> <<>>]
NoResponses == [i \in Slots |-> NoGrant]

ASSUME SlotsAssumption == NSlots \in Nat
ASSUME NullAssumption ==
  NoPod \notin Pods /\ NoCall \notin Calls /\ NoGrant \notin Grants
ASSUME PodAssumption ==
  /\ InitNames \in [Pods -> Seq(STRING)]
  /\ Names \in [Pods -> Seq(STRING)]
  /\ Assigned \in [Pods -> Entries]
  /\ Asked \in [Pods -> [Slots -> Nat]]
  /\ HamiCore \subseteq Pods

(* The scheduler and kubelet read the same pod: an entry of the annotation *)
(* is non-empty exactly for the containers that ask for devices (their     *)
(* numbers may differ), and every such slot is a container of the pod.     *)
ASSUME SchedulerAssumption ==
  \A p \in Pods : /\ \A i \in Slots : Assigned[p][i] # <<>> <=> Asked[p][i] > 0
                  /\ \A i \in Slots : Asked[p][i] > 0 => i <= Len(KubeletNames(p))
                  /\ \E i \in Slots : Asked[p][i] > 0
ASSUME DeviceAssumption == KnownSets \subseteq SUBSET Devices
ASSUME FaultAssumption == ApiFaults \in BOOLEAN /\ PluginRestarts \in BOOLEAN

VARIABLES
  nodeLock,   \* the node annotation hami.io/mutex.lock: its owner
  toAlloc,    \* toAlloc[p]: the pod annotation hami.io/<word>-devices-to-allocate
  bindPhase,  \* bindPhase[p]: the pod annotation hami.io/bind-phase
  kstate,     \* kstate[p]: what kubelet made of the pod
  granted,    \* granted[p][i]: the answer kubelet holds for slot i of p
  waiting,    \* the call kubelet is blocked on
  call,       \* call[h]: the state of handler h
  known,      \* the UUIDs of AscendManager.devs
  dirs        \* the per-container shared-memory directories on the host

podVars     == <<toAlloc, bindPhase>>
kubeletVars == <<kstate, granted, waiting>>
vars == <<nodeLock, podVars, kubeletVars, call, known, dirs>>

-----------------------------------------------------------------------------
Phases == {"none", "allocating", "success", "failed"}
PodStates == {"unbound", "bound", "admitting", "running", "rejected"}
PCs == {"idle", "getPod", "decode", "pop", "patch", "trySuccess",
        "setSuccess", "setFailed", "release", "reply"}

CallStates ==
  [pc   : PCs,
   who  : Pods \cup {NoPod},              \* the pod kubelet calls for
   todo : SUBSET Slots,                   \* reqs.ContainerRequests not served yet
   pod  : Pods \cup {NoPod},              \* the pod the handler works on
   work : Entries,                        \* podSingleDev
   resp : [Slots -> Grants \cup {NoGrant}], \* responses
   ok   : BOOLEAN]                        \* success

Idle == [pc |-> "idle", who |-> NoPod, todo |-> {}, pod |-> NoPod,
         work |-> NoEntries, resp |-> NoResponses, ok |-> FALSE]

Init ==
  /\ nodeLock = NoPod
  /\ toAlloc = [p \in Pods |-> NoEntries]
  /\ bindPhase = [p \in Pods |-> "none"]
  /\ kstate = [p \in Pods |-> "unbound"]
  /\ granted = [p \in Pods |-> NoResponses]
  /\ waiting = NoCall
  /\ call = [h \in Calls |-> Idle]
  /\ known \in KnownSets
  /\ dirs = {}

-----------------------------------------------------------------------------
(* The scheduler and kubelet (external).                                    *)

SchedulerBind(p) ==
  /\ kstate[p] = "unbound"
  /\ nodeLock = NoPod
  /\ nodeLock' = p
  /\ toAlloc' = [toAlloc EXCEPT ![p] = Assigned[p]]
  /\ bindPhase' = [bindPhase EXCEPT ![p] = "allocating"]
  /\ kstate' = [kstate EXCEPT ![p] = "bound"]
  /\ UNCHANGED <<granted, waiting, call, known, dirs>>

(* The scheduler breaks a lock that is five minutes old.  By then kubelet  *)
(* has settled the pod; AllocateFaults drops this assumption.              *)
LockExpires(p) ==
  /\ nodeLock = p
  /\ kstate[p] \in {"running", "rejected"}
  /\ nodeLock' = NoPod
  /\ UNCHANGED <<podVars, kubeletVars, call, known, dirs>>

Missing(p) == {i \in Wanted[p] : granted[p][i] = NoGrant}

(* Kubelet admits one pod at a time and asks for its containers in order.  *)
MayCall(p) ==
  /\ waiting = NoCall
  /\ \/ kstate[p] = "admitting"
     \/ kstate[p] = "bound" /\ \A q \in Pods : kstate[q] # "admitting"

KubeletCalls(p, h, R) ==
  /\ MayCall(p)
  /\ R # {} /\ R \subseteq Missing(p)
  /\ \A i \in R, j \in Missing(p) : j < i => j \in R
  /\ call[h].pc = "idle"
  /\ call' = [call EXCEPT ![h] = [Idle EXCEPT !.pc = "getPod", !.who = p, !.todo = R]]
  /\ waiting' = h
  /\ kstate' = [kstate EXCEPT ![p] = "admitting"]
  /\ UNCHANGED <<nodeLock, podVars, granted, known, dirs>>

-----------------------------------------------------------------------------
(* The handler Allocate.                                                    *)

Goto(h, pc) == call' = [call EXCEPT ![h].pc = pc]

(* Mutant: the deferred function sees another variable pod, still nil.      *)
FailShadowed(h) == Goto(h, "reply")

(* An error: the deferred function finds pod set and success not.           *)
Fail(h) == Goto(h, "setFailed")

(* util.GetPendingPod: the pod that owns the node lock, else some pod with *)
(* bind-phase "allocating".  It is the one step that honours the context,  *)
(* so a call nobody waits for any more gets an error.                      *)
PendingPods ==
  IF nodeLock # NoPod THEN {nodeLock} ELSE {q \in Pods : bindPhase[q] = "allocating"}

GetPendingPod(h) ==
  /\ call[h].pc = "getPod"
  /\ waiting = h
  /\ \E q \in PendingPods :
       call' = [call EXCEPT ![h] =
                   [@ EXCEPT !.pc = "decode", !.pod = q, !.work = toAlloc[q]]]
  /\ UNCHANGED <<nodeLock, podVars, kubeletVars, known, dirs>>

(* pod stays nil, so the deferred function neither marks nor unlocks.       *)
GetPendingPodFails(h) ==
  /\ call[h].pc = "getPod"
  /\ ApiFaults \/ waiting # h \/ PendingPods = {}
  /\ Goto(h, "reply")
  /\ UNCHANGED <<nodeLock, podVars, kubeletVars, known, dirs>>

(* buildRuntimeInfoLookup and decodeDeviceAnnotations, on the pod as read.  *)
DecodeAnnotations(h) ==
  /\ call[h].pc = "decode"
  /\ \/ call[h].pod \in WellFormed /\ Goto(h, "pop")
     \/ call[h].pod \notin WellFormed /\ Fail(h)
  /\ UNCHANGED <<nodeLock, podVars, kubeletVars, known, dirs>>

NextRequest(h, i) == i \in call[h].todo /\ \A j \in call[h].todo : i <= j

(* Mutant: the last entry that is not empty.                                *)
LastEntry(h, k) ==
  call[h].work[k] # <<>> /\ \A j \in Slots : k < j => call[h].work[j] = <<>>

(* popNextContainerDevices: entry k is the first that is not empty.         *)
FirstEntry(h, k) ==
  call[h].work[k] # <<>> /\ \A j \in Slots : j < k => call[h].work[j] = <<>>

(* buildContainerAllocateResponse finds every device in the cache.          *)
Buildable(i, p, devs) ==
  /\ Len(devs) = Asked[p][i]
  /\ \A n \in 1..Len(devs) : devs[n] \in known

(* Mutants: the directory is named after no pod; only the first device is  *)
(* made visible.                                                           *)
ResponseWithoutPod(p, k, devs) == [pod |-> NoPod, ctr |-> CtrName(p, k), devs |-> devs]
ResponseFirstDevice(p, k, devs) ==
  [pod |-> p, ctr |-> CtrName(p, k), devs |-> <<devs[1]>>]

Response(p, k, devs) == [pod |-> p, ctr |-> CtrName(p, k), devs |-> devs]

(* A hami-vnpu-core container gets a directory of its own.  That it cannot  *)
(* be made is logged, and the answer names it all the same.                *)
MakeShmemDir(p, k) ==
  \/ dirs' = dirs
  \/ p \in HamiCore /\ dirs' = dirs \cup {<<p, CtrName(p, k)>>}

(* One turn of the loop over the requests, with the lookup of its devices.  *)
ServeRequest(h) ==
  /\ call[h].pc = "pop"
  /\ \E i \in Slots, k \in Slots :
       LET c    == call[h]
           devs == c.work[k]
       IN /\ NextRequest(h, i)
          /\ FirstEntry(h, k)
          /\ Buildable(i, c.who, devs)
          /\ call' = [call EXCEPT ![h] =
                        [c EXCEPT !.todo = c.todo \ {i},
                                  !.work = [c.work EXCEPT ![k] = <<>>],
                                  !.resp = [c.resp EXCEPT ![i] = Response(c.pod, k, devs)]]]
          /\ MakeShmemDir(c.pod, k)
  /\ UNCHANGED <<nodeLock, podVars, kubeletVars, known>>

(* "no pending device allocation found", "device number not matched" or     *)
(* "unknown uuid".                                                          *)
ServeRequestFails(h) ==
  /\ call[h].pc = "pop"
  /\ \E i \in Slots :
       /\ NextRequest(h, i)
       /\ \A k \in Slots :
            FirstEntry(h, k) => ~Buildable(i, call[h].who, call[h].work[k])
  /\ Fail(h)
  /\ UNCHANGED <<nodeLock, podVars, kubeletVars, known, dirs>>

LoopEnds(h) ==
  /\ call[h].pc = "pop"
  /\ call[h].todo = {}
  /\ Goto(h, "patch")
  /\ UNCHANGED <<nodeLock, podVars, kubeletVars, known, dirs>>

(* Mutant: the erased entries stay in memory.                               *)
PatchNothing(h) ==
  /\ call[h].pc = "patch"
  /\ call' = [call EXCEPT ![h] = [@ EXCEPT !.pc = "trySuccess", !.ok = TRUE]]
  /\ UNCHANGED <<nodeLock, podVars, kubeletVars, known, dirs>>

PatchErasedAnnotation(h) ==
  /\ call[h].pc = "patch"
  /\ toAlloc' = [toAlloc EXCEPT ![call[h].pod] = call[h].work]
  /\ call' = [call EXCEPT ![h] = [@ EXCEPT !.pc = "trySuccess", !.ok = TRUE]]
  /\ UNCHANGED <<nodeLock, bindPhase, kubeletVars, known, dirs>>

(* Mutant: a failed patch is rolled back to what the scheduler wrote.       *)
PatchFailsAndRollsBack(h) ==
  /\ ApiFaults
  /\ call[h].pc = "patch"
  /\ toAlloc' \in {toAlloc, [toAlloc EXCEPT ![call[h].pod] = Assigned[call[h].pod]]}
  /\ Fail(h)
  /\ UNCHANGED <<nodeLock, bindPhase, kubeletVars, known, dirs>>

(* The patch is refused, or applied while its answer is lost.               *)
PatchErasedAnnotationFails(h) ==
  /\ ApiFaults
  /\ call[h].pc = "patch"
  /\ toAlloc' \in {toAlloc, [toAlloc EXCEPT ![call[h].pod] = call[h].work]}
  /\ Fail(h)
  /\ UNCHANGED <<nodeLock, bindPhase, kubeletVars, known, dirs>>

(* plugin.PodAllocationTrySuccess reads the pod again (external): it goes   *)
(* on only when no container of the pod has devices left to allocate.       *)
Remaining(p) == {i \in Slots : toAlloc[p][i] # <<>>}

(* Mutants: the remaining entries are not looked at; a failed read counts  *)
(* as a failed allocation; the call waits for the remaining containers.    *)
SuccessAtOnce(h) ==
  /\ call[h].pc = "trySuccess"
  /\ Goto(h, "setSuccess")
  /\ UNCHANGED <<nodeLock, podVars, kubeletVars, known, dirs>>
TrySuccessOrFail(h) ==
  /\ call[h].pc = "trySuccess"
  /\ \/ Goto(h, IF Remaining(call[h].pod) = {} THEN "setSuccess" ELSE "reply")
     \/ ApiFaults /\ Fail(h)
  /\ UNCHANGED <<nodeLock, podVars, kubeletVars, known, dirs>>
TrySuccessWaits(h) ==
  /\ SuccessAtOnce(h)
  /\ Remaining(call[h].pod) = {}

TrySuccess(h) ==
  /\ call[h].pc = "trySuccess"
  /\ \/ Remaining(call[h].pod) = {} /\ Goto(h, "setSuccess")
     \/ Remaining(call[h].pod) # {} /\ Goto(h, "reply")
     \/ ApiFaults /\ Goto(h, "reply")
  /\ UNCHANGED <<nodeLock, podVars, kubeletVars, known, dirs>>

(* Mutant: a failed call does not release the lock.                         *)
SetBindPhaseKeepsLock(h, phase) ==
  /\ bindPhase' = [bindPhase EXCEPT ![call[h].pod] = phase]
  /\ Goto(h, IF phase = "failed" THEN "reply" ELSE "release")
  /\ UNCHANGED <<nodeLock, toAlloc, kubeletVars, known, dirs>>

(* Errors of these two patches and of the release are only logged.          *)
SetBindPhase(h, phase) ==
  /\ \/ bindPhase' = [bindPhase EXCEPT ![call[h].pod] = phase]
     \/ ApiFaults /\ UNCHANGED bindPhase
  /\ Goto(h, "release")
  /\ UNCHANGED <<nodeLock, toAlloc, kubeletVars, known, dirs>>

SetSuccess(h) == call[h].pc = "setSuccess" /\ SetBindPhase(h, "success")
SetFailed(h)  == call[h].pc = "setFailed" /\ SetBindPhase(h, "failed")

(* Mutant: the lock is freed whoever owns it.                               *)
ReleaseAnyLock(h) ==
  /\ call[h].pc = "release"
  /\ nodeLock' = NoPod
  /\ Goto(h, "reply")
  /\ UNCHANGED <<podVars, kubeletVars, known, dirs>>

(* nodelock.ReleaseNodeLock frees the lock only for its owner (external).   *)
ReleaseNodeLock(h) ==
  /\ call[h].pc = "release"
  /\ \/ nodeLock' = IF nodeLock = call[h].pod THEN NoPod ELSE nodeLock
     \/ ApiFaults /\ UNCHANGED nodeLock
  /\ Goto(h, "reply")
  /\ UNCHANGED <<podVars, kubeletVars, known, dirs>>

(* The handler returns.  Kubelet records the answers, in the slots it asked *)
(* for, or rejects the pod; an answer nobody waits for is dropped.          *)
Reply(h) ==
  /\ call[h].pc = "reply"
  /\ call' = [call EXCEPT ![h] = Idle]
  /\ LET p   == call[h].who
         new == [i \in Slots |-> IF call[h].resp[i] # NoGrant THEN call[h].resp[i]
                                 ELSE granted[p][i]]
     IN \/ /\ waiting = h /\ call[h].ok
           /\ granted' = [granted EXCEPT ![p] = new]
           /\ kstate' = [kstate EXCEPT ![p] =
                           IF \A i \in Wanted[p] : new[i] # NoGrant THEN "running" ELSE @]
           /\ waiting' = NoCall
        \/ /\ waiting = h /\ ~call[h].ok
           /\ kstate' = [kstate EXCEPT ![p] = "rejected"]
           /\ waiting' = NoCall
           /\ UNCHANGED granted
        \/ waiting # h /\ UNCHANGED kubeletVars
  /\ UNCHANGED <<nodeLock, podVars, known, dirs>>

-----------------------------------------------------------------------------
(* What happens around the handlers.                                        *)

Abandon == /\ waiting' = NoCall
           /\ IF waiting = NoCall THEN UNCHANGED kstate
              ELSE kstate' = [kstate EXCEPT ![call[waiting].who] = "rejected"]

(* Stop closes the connections: kubelet's call fails and it rejects the     *)
(* pod, while the handler runs on.                                          *)
GrpcStop ==
  /\ PluginRestarts
  /\ waiting # NoCall
  /\ Abandon
  /\ UNCHANGED <<nodeLock, podVars, granted, call, known, dirs>>

(* The process dies with all its handlers.                                  *)
ProcessCrash ==
  /\ PluginRestarts
  /\ \E h \in Calls : call[h] # Idle
  /\ call' = [h \in Calls |-> Idle]
  /\ Abandon
  /\ UNCHANGED <<nodeLock, podVars, granted, known, dirs>>

(* Kubelet calls while the plugin is down.                                  *)
PluginUnavailable(p) ==
  /\ PluginRestarts
  /\ MayCall(p)
  /\ kstate' = [kstate EXCEPT ![p] = "rejected"]
  /\ UNCHANGED <<nodeLock, podVars, granted, waiting, call, known, dirs>>

(* watchAndRegister's UpdateDevice swaps the cache between two lookups.     *)
UpdateDevice ==
  /\ known' \in KnownSets
  /\ UNCHANGED <<nodeLock, podVars, kubeletVars, call, dirs>>

-----------------------------------------------------------------------------
HandlerStep(h) ==
  \/ GetPendingPod(h) \/ GetPendingPodFails(h) \/ DecodeAnnotations(h)
  \/ ServeRequest(h) \/ ServeRequestFails(h) \/ LoopEnds(h)
  \/ PatchErasedAnnotation(h) \/ PatchErasedAnnotationFails(h)
  \/ TrySuccess(h) \/ SetSuccess(h) \/ SetFailed(h) \/ ReleaseNodeLock(h)
  \/ Reply(h)

KubeletStep(p) == \E h \in Calls, R \in SUBSET Slots : KubeletCalls(p, h, R)

Next ==
  \/ \E p \in Pods : \/ SchedulerBind(p) \/ LockExpires(p)
                     \/ KubeletStep(p) \/ PluginUnavailable(p)
  \/ \E h \in Calls : HandlerStep(h)
  \/ GrpcStop \/ ProcessCrash \/ UpdateDevice

Spec == Init /\ [][Next]_vars

(* The Go scheduler runs every handler; kubelet goes on with the pod it     *)
(* admits.  The lock's expiry is not assumed.                               *)
Fairness == /\ \A h \in Calls : WF_vars(HandlerStep(h))
            /\ \A p \in Pods : WF_vars(KubeletStep(p))

LiveSpec == Spec /\ Fairness

-----------------------------------------------------------------------------
(* Every variable has its type.                                             *)
TypeOK ==
  /\ nodeLock \in Pods \cup {NoPod}
  /\ toAlloc \in [Pods -> Entries]
  /\ bindPhase \in [Pods -> Phases]
  /\ kstate \in [Pods -> PodStates]
  /\ granted \in [Pods -> [Slots -> Grants \cup {NoGrant}]]
  /\ waiting \in Calls \cup {NoCall}
  /\ call \in [Calls -> CallStates]
  /\ known \in SUBSET Devices
  /\ dirs \in SUBSET (Pods \X AllNames)

(* Allocate never learns which container kubelet calls for: it pops the    *)
(* next entry.  Whatever kubelet holds for a container of a pod is still   *)
(* the scheduler's decision for that pod and that container, under the     *)
(* name of that container (server.go, the pop loop of Allocate).           *)
GrantsMatchAssignment ==
  \A p \in Pods, i \in Slots :
     granted[p][i] # NoGrant => granted[p][i] = Expected[p][i]

(* The call of p has nothing left to do but to return.                      *)
Returning(p) == waiting # NoCall /\ call[waiting].who = p /\ call[waiting].pc = "reply"

(* The node stays locked for a pod until its last container is allocated,  *)
(* between the calls for its containers too: GetPendingPod identifies the  *)
(* pod by the lock, and the scheduler places nobody else meanwhile.        *)
LockHeldUntilAllocated ==
  \A p \in Pods :
     kstate[p] \in {"bound", "admitting"} /\ ~Returning(p) => nodeLock = p

(* A call that outlives its caller, or fails late, never marks as failed a *)
(* pod that kubelet runs (podAllocationFailed in Allocate's defer).        *)
RunningNeverFailed ==
  \A p \in Pods : kstate[p] = "running" => bindPhase[p] # "failed"

(* bind-phase "success" is only seen with no entry left to allocate, so a  *)
(* call for a remaining container cannot find the pod no longer pending.   *)
SuccessMeansErased ==
  \A p \in Pods : bindPhase[p] = "success" => Remaining(p) = {}

(* Whatever makes a call fail, undecodable annotations, devices that are    *)
(* not in the cache, numbers that differ: the lock is freed before kubelet *)
(* hears of the end of the pod's allocation, be it good or bad.  What     *)
(* leaves a lock behind is an API call that fails, or, with a rejected pod,*)
(* a restart of the plugin (the deferred function of Allocate).            *)
LockNotLeftBehind ==
  ~ApiFaults =>
    \A p \in Pods : nodeLock = p =>
       kstate[p] # "running" /\ (kstate[p] = "rejected" => PluginRestarts)

(* Every handler patches the whole annotation from the copy it read.  Once *)
(* written by the scheduler, an entry only ever disappears: no patch       *)
(* brings back an entry another call has handed out.                       *)
EntriesOnlyErased ==
  [][\A p \in Pods : bindPhase[p] # "none" =>
       \A i \in Slots : toAlloc'[p][i] \in {toAlloc[p][i], <<>>}]_vars

(* The protocol gives every pod what DeviceGrants promises, and nothing    *)
(* else: whole initial segments of its containers, in order, or a          *)
(* rejection, whatever is lost between the API server and the handlers.    *)
DG == INSTANCE DeviceGrants
        WITH outcome <- [p \in Pods |-> IF kstate[p] \in {"running", "rejected"}
                                       THEN kstate[p] ELSE "waiting"],
             given <- granted

RefinesDeviceGrants == DG!Spec

(* Without API faults and restarts, every pod placed on the node runs or   *)
(* is rejected, and the plugin itself frees the lock (no expiry needed).   *)
PodsSettle ==
  \A p \in Pods : kstate[p] = "bound" ~> kstate[p] \in {"running", "rejected"}
LockIsReleased ==
  \A p \in Pods : nodeLock = p ~> nodeLock # p
=============================================================================
