---------------------------- MODULE MonitorProofs ----------------------------
(***************************************************************************)
(* What the exporter beside Allocate keeps, for every number of pods,      *)
(* calls and scrapes.                                                      *)
(***************************************************************************)
EXTENDS Monitor, ContainerResponseProofs, AllocateRefinementProofs

(* The exporter's own variables.                                            *)
ScrapeTyped ==
  /\ fate \in [Pods -> Statuses]
  /\ informer \in [Pods -> Statuses]
  /\ seen \in SUBSET Pods
  /\ scrape \in [pc : ScrapePCs, pods : [Pods -> Statuses],
                 todo : SUBSET Dirs, found : SUBSET Dirs]

(* The informer lags behind the API server, but never ahead of it ...       *)
NeverAhead ==
  \A p \in Pods : /\ informer[p] # "absent" => kstate[p] # "unbound"
                  /\ informer[p] = "ended" => fate[p] # "live"

(* ... and never falls back: it has a pod that was listed, while it lives,  *)
(* and so has the list the current scrape works with.                      *)
SeenKept ==
  \A p \in seen : fate[p] = "live" =>
     /\ informer[p] = "live"
     /\ scrape.pc # "idle" => scrape.pods[p] = "live"

MonitorInv == TypeOK /\ PodFound /\ ScrapeTyped /\ NeverAhead /\ SeenKept

-----------------------------------------------------------------------------
(* Allocate removes no directory, and no pod becomes unbound.               *)
LEMMA AllocateKeeps ==
  ASSUME TypeOK, [Next]_vars
  PROVE  /\ dirs \subseteq dirs'
         /\ \A p \in Pods : kstate[p] # "unbound" => kstate'[p] # "unbound"
  <1> USE DEF TypeOK, podVars, kubeletVars
  <1>1. ASSUME NEW p \in Pods, \/ SchedulerBind(p) \/ LockExpires(p) \/ PluginUnavailable(p)
        PROVE  dirs' = dirs /\ \A q \in Pods : kstate[q] # "unbound" => kstate'[q] # "unbound"
    BY <1>1 DEF SchedulerBind, LockExpires, PluginUnavailable
  <1>2. ASSUME NEW p \in Pods, NEW h \in Calls, NEW R \in SUBSET Slots, KubeletCalls(p, h, R)
        PROVE  dirs' = dirs /\ \A q \in Pods : kstate[q] # "unbound" => kstate'[q] # "unbound"
    BY <1>2 DEF KubeletCalls
  <1>3. CASE GrpcStop \/ ProcessCrash \/ UpdateDevice \/ UNCHANGED vars
    BY <1>3 DEF GrpcStop, ProcessCrash, UpdateDevice, Abandon, vars
  <1>4. ASSUME NEW h \in Calls, HandlerStep(h), ~Reply(h)
        PROVE  dirs \subseteq dirs' /\ UNCHANGED kstate
    <2>1. CASE ServeRequest(h)
      BY <2>1 DEF ServeRequest, MakeShmemDir
    <2>2. CASE ~ServeRequest(h)
      BY <1>4, <2>2
      DEF HandlerStep, GetPendingPod, GetPendingPodFails, DecodeAnnotations,
          ServeRequestFails, LoopEnds, PatchErasedAnnotation, PatchErasedAnnotationFails,
          TrySuccess, SetSuccess, SetFailed, SetBindPhase, ReleaseNodeLock
    <2> QED
      BY <2>1, <2>2
  <1>5. ASSUME NEW h \in Calls, Reply(h)
        PROVE  dirs' = dirs /\ \A q \in Pods : kstate[q] # "unbound" => kstate'[q] # "unbound"
    <2>1. PICK s \in {"running", "rejected", kstate[call[h].who]} :
            kstate' = kstate \/ kstate' = [kstate EXCEPT ![call[h].who] = s]
      BY <1>5 DEF Reply
    <2> QED
      BY <1>5, <2>1 DEF Reply
  <1> QED
    BY <1>1, <1>2, <1>3, <1>4, <1>5 DEF Next, KubeletStep

(* The inductive invariant holds before the first pod is bound.             *)
LEMMA MonitorInvInit == MonitorInit => MonitorInv
  <1> SUFFICES ASSUME MonitorInit PROVE MonitorInv
    OBVIOUS
  <1>1. TypeOK /\ PodFound
    BY TypingInit DEF MonitorInit
  <1>2. ScrapeTyped
    BY DEF MonitorInit, ScrapeTyped, Statuses, NoScrape, ScrapePCs
  <1>3. NeverAhead /\ SeenKept
    BY DEF MonitorInit, NeverAhead, SeenKept
  <1> QED
    BY <1>1, <1>2, <1>3 DEF MonitorInv

(* A step of Allocate, and a crash, after which the cache is synced.        *)
LEMMA AroundStep ==
  ASSUME MonitorInv, (AllocateStep /\ UNCHANGED monitorVars) \/ PluginCrash
  PROVE  MonitorInv'
  <1> USE DEF MonitorInv
  <1>1. [Next]_vars
    BY DEF AllocateStep, PluginCrash, Next
  <1>2. TypeOK' /\ PodFound'
    BY <1>1, TypingStep
  <1>3. \A p \in Pods : kstate[p] # "unbound" => kstate'[p] # "unbound"
    BY <1>1, AllocateKeeps
  <1>4. CASE UNCHANGED monitorVars
    BY <1>2, <1>3, <1>4 DEF monitorVars, ScrapeTyped, NeverAhead, SeenKept
  <1>5. CASE PluginCrash
    <2>1. UNCHANGED <<fate, seen>> /\ informer' = Status /\ scrape' = NoScrape
      BY <1>5 DEF PluginCrash, SyncedCache
    <2>2. ScrapeTyped'
      BY <2>1 DEF ScrapeTyped, Status, NoScrape, Statuses, ScrapePCs
    <2>3. NeverAhead'
      BY <1>3, <2>1 DEF ScrapeTyped, NeverAhead, Status, Statuses
    <2>4. SeenKept'
      BY <2>1 DEF ScrapeTyped, NeverAhead, SeenKept, Status, NoScrape, Statuses
    <2> QED
      BY <1>2, <2>2, <2>3, <2>4
  <1> QED
    BY <1>4, <1>5

(* What happens at the API server and on the watch.                         *)
LEMMA WatchStep ==
  ASSUME MonitorInv, NEW p \in Pods, PodEnds(p) \/ PodDeleted(p) \/ InformerSees(p)
  PROVE  MonitorInv'
  <1> USE DEF MonitorInv
  <1>1. UNCHANGED <<vars, seen, scrape>>
    BY DEF PodEnds, PodDeleted, InformerSees
  <1>2. TypeOK' /\ PodFound'
    BY <1>1, TypingStep
  <1>3. kstate' = kstate
    BY <1>1 DEF vars, kubeletVars
  <1>4. CASE PodEnds(p) \/ PodDeleted(p)
    BY <1>1, <1>2, <1>3, <1>4
    DEF PodEnds, PodDeleted, ScrapeTyped, Statuses, NeverAhead, SeenKept
  <1>5. CASE InformerSees(p)
    BY <1>1, <1>2, <1>3, <1>5
    DEF InformerSees, ScrapeTyped, Statuses, NeverAhead, SeenKept, Status
  <1> QED
    BY <1>4, <1>5

(* A scrape.                                                                *)
LEMMA ScrapingStep ==
  ASSUME MonitorInv, ScrapeStep
  PROVE  MonitorInv'
  <1> USE DEF MonitorInv
  <1>1. UNCHANGED <<fate, informer, kstate, call>>
    BY DEF ScrapeStep, ListPods, ReadDir, ReadDirFails, ScrapeEnds, RemoveStale,
           RemoveStaleFails, ReadRegistry, vars,
           kubeletVars
  <1>2. TypeOK' /\ PodFound'
    <2>1. UNCHANGED <<nodeLock, podVars, kubeletVars, known>> /\ dirs' \subseteq dirs
      BY DEF ScrapeStep, ListPods, ReadDir, ReadDirFails, ScrapeEnds, RemoveStale,
           RemoveStaleFails, ReadRegistry, vars
    <2> QED
      BY <1>1, <2>1 DEF TypeOK, PodFound, podVars, kubeletVars
  <1>3. NeverAhead'
    BY <1>1 DEF NeverAhead
  <1>4. CASE ListPods
    BY <1>1, <1>2, <1>3, <1>4
    DEF ListPods, ScrapeTyped, NeverAhead, SeenKept, Shown, Statuses, NoScrape, ScrapePCs
  <1>5. CASE ReadDir
    <2>1. dirs \subseteq Dirs
      BY DEF TypeOK, Dirs
    <2>2. scrape' = [scrape EXCEPT !.pc = "visit", !.todo = dirs] /\ UNCHANGED seen
          /\ scrape.pc = "readDir"
      BY <1>5 DEF ReadDir
    <2>3. ScrapeTyped'
      BY <1>1, <2>1, <2>2 DEF ScrapeTyped, ScrapePCs
    <2>4. SeenKept'
      BY <1>1, <2>2 DEF ScrapeTyped, SeenKept
    <2> QED
      BY <1>2, <1>3, <2>3, <2>4
  <1>6. CASE ScrapeEnds \/ ReadDirFails
    <2>1. scrape' = NoScrape /\ UNCHANGED seen
      BY <1>6 DEF ScrapeEnds, ReadDirFails
    <2>2. ScrapeTyped'
      BY <1>1, <2>1 DEF ScrapeTyped, NoScrape, ScrapePCs, Statuses
    <2>3. SeenKept'
      BY <1>1, <2>1 DEF SeenKept, NoScrape
    <2> QED
      BY <1>2, <1>3, <2>2, <2>3
  <1>7. ASSUME NEW d \in Dirs, RemoveStale(d) \/ RemoveStaleFails(d) \/ ReadRegistry(d)
        PROVE  MonitorInv'
    <2>1. /\ UNCHANGED seen
          /\ \/ scrape' = [scrape EXCEPT !.todo = @ \ {d}]
             \/ scrape' = [scrape EXCEPT !.todo = @ \ {d}, !.found = @ \cup {d}]
      BY <1>7 DEF RemoveStale, RemoveStaleFails, ReadRegistry, Visited, ScrapeTyped
    <2>2. ScrapeTyped'
      <3>1. fate' \in [Pods -> Statuses] /\ informer' \in [Pods -> Statuses]
            /\ seen' \in SUBSET Pods
        BY <1>1, <2>1 DEF ScrapeTyped
      <3>2. scrape' \in [pc : ScrapePCs, pods : [Pods -> Statuses],
                         todo : SUBSET Dirs, found : SUBSET Dirs]
        <4>1. scrape.todo \ {d} \in SUBSET Dirs /\ scrape.found \cup {d} \in SUBSET Dirs
          BY DEF ScrapeTyped
        <4>2. CASE scrape' = [scrape EXCEPT !.todo = @ \ {d}]
          BY <4>1, <4>2 DEF ScrapeTyped
        <4>3. CASE scrape' = [scrape EXCEPT !.todo = @ \ {d}, !.found = @ \cup {d}]
          BY <4>1, <4>3 DEF ScrapeTyped
        <4> QED
          BY <2>1, <4>2, <4>3
      <3> QED
        BY <3>1, <3>2 DEF ScrapeTyped
    <2>3. SeenKept'
      BY <1>1, <2>1 DEF ScrapeTyped, SeenKept
    <2> QED
      BY <1>2, <1>3, <2>2, <2>3
  <1> QED
    BY <1>4, <1>5, <1>6, <1>7 DEF ScrapeStep

(* Every step of Allocate, of the watch and of a scrape keeps it.           *)
LEMMA MonitorInvStep == MonitorInv /\ [MonitorNext]_allVars => MonitorInv'
  <1> SUFFICES ASSUME MonitorInv, [MonitorNext]_allVars PROVE MonitorInv'
    OBVIOUS
  <1>1. CASE UNCHANGED allVars
    <2>1. TypeOK' /\ PodFound'
      BY <1>1, TypingStep DEF allVars, MonitorInv
    <2> QED
      BY <1>1, <2>1
      DEF allVars, monitorVars, vars, kubeletVars, MonitorInv, ScrapeTyped, NeverAhead, SeenKept
  <1> QED
    BY <1>1, AroundStep, WatchStep, ScrapingStep DEF MonitorNext

(* Who removes a directory, and of what pod.                                *)
LEMMA OnlyStaleRemoved ==
  ASSUME MonitorInv, [MonitorNext]_allVars, NEW d \in dirs \ dirs', d[1] \in seen
  PROVE  fate[d[1]] # "live"
  <1>1. ~[Next]_vars
    BY AllocateKeeps DEF MonitorInv
  <1>2. PICK e \in Dirs : RemoveStale(e)
    BY <1>1 DEF MonitorNext, AllocateStep, Next, PluginCrash, PodEnds, PodDeleted, InformerSees,
                ScrapeStep, ListPods, ReadDir, ReadDirFails, ScrapeEnds, RemoveStaleFails,
                ReadRegistry, allVars
  <1>3. d = e /\ scrape.pc = "visit" /\ scrape.pods[d[1]] # "live"
    BY <1>2 DEF RemoveStale, Stale
  <1> QED
    BY <1>3 DEF MonitorInv, SeenKept

-----------------------------------------------------------------------------
(* A scrape changes nothing that Allocate's invariant speaks of, so it holds *)
(* beside the exporter as well.                                            *)
LEMMA AllocateInvStep ==
  ASSUME TypeOK, IInv, [MonitorNext]_allVars
  PROVE  IInv'
  <1>1. CASE [Next]_vars
    BY <1>1, InvStep
  <1>2. CASE UNCHANGED vars
    BY <1>2, <1>1
  <1>3. ASSUME NEW d \in Dirs, RemoveStale(d) PROVE IInv'
    BY <1>3, LockOnlyStep DEF RemoveStale
  <1> QED
    BY <1>1, <1>2, <1>3
    DEF MonitorNext, AllocateStep, Next, PluginCrash, PodEnds, PodDeleted, InformerSees,
        ScrapeStep, ListPods, ReadDir, ReadDirFails, ScrapeEnds, RemoveStaleFails,
        ReadRegistry, allVars

(* The first container with devices comes first in the pod's list.          *)
LEMMA FirstIsAtStart ==
  ASSUME NEW p \in Pods, NEW i \in Slots, i = First(p), NEW n \in DOMAIN Assigned[p][i]
  PROVE  n \in DOMAIN RuntimeInfos[p] /\ RuntimeInfos[p][n].uuid = Assigned[p][i][n]
  <1> DEFINE list == RuntimeInfos[p]
  <1>1. PICK at \in [Slots -> 0..Len(list)] : Concatenated(p, at)
    BY AnnotationAssumption
  <1>2. /\ Len(list) \in Nat /\ DOMAIN list = 1..Len(list)
        /\ \A j \in Slots : at[j] \in Nat /\ j \in Nat
    BY <1>1, AnnotationAssumption, SlotsAssumption DEF Slots
  <1>3. \A j \in Slots : Assigned[p][j] # <<>> => i <= j
    <2>1. Wanted[p] \in SUBSET Nat /\ Wanted[p] # {}
      BY SlotsAssumption, SchedulerAssumption DEF Wanted, Slots
    <2>2. \A j \in Wanted[p] : i <= j
      BY <2>1, LowestIsLeast DEF First
    <2> QED
      BY <2>2, SchedulerAssumption DEF Wanted
  <1>4. at[i] + n \in DOMAIN list /\ list[at[i] + n] = Entry(p, i, n)
    BY <1>1 DEF Concatenated
  <1>5. at[i] = 0
    <2>1. n \in Nat /\ 1 <= n /\ n <= Len(Assigned[p][i])
      BY AssignedDomain
    <2>2. 1 \in DOMAIN list
      BY <1>2, <1>4, <2>1
    <2>3. PICK j \in Slots : \E m \in DOMAIN Assigned[p][j] : 1 = at[j] + m
      BY <1>1, <2>2 DEF Concatenated
    <2>4. PICK m \in DOMAIN Assigned[p][j] : 1 = at[j] + m
      BY <2>3
    <2>5. m \in Nat /\ 1 <= m /\ m <= Len(Assigned[p][j]) /\ Len(Assigned[p][j]) \in Nat
      BY AssignedDomain
    <2>6. at[j] = 0 /\ Assigned[p][j] # <<>>
      <3>1. Len(Assigned[p][j]) # 0
        BY <2>5
      <3> QED
        BY <1>2, <2>4, <2>5, <3>1
    <2>7. i <= j
      BY <1>3, <2>6
    <2>8. i < j => at[i] + Len(Assigned[p][i]) <= at[j]
      BY <1>1 DEF Concatenated
    <2>9. Len(Assigned[p][i]) \in Nat
      BY AssignedDomain
    <2> HIDE DEF list
    <2>10. ~(i < j)
      BY <1>2, <2>1, <2>6, <2>8, <2>9
    <2> QED
      BY <1>2, <2>6, <2>7, <2>10
  <1>6. at[i] + n = n
    BY <1>5, AssignedDomain
  <1>7. Entry(p, i, n).uuid = Assigned[p][i][n]
    BY DEF Entry
  <1> HIDE DEF list
  <1>8. n \in DOMAIN list /\ list[n].uuid = Assigned[p][i][n]
    BY <1>4, <1>6, <1>7
  <1> QED
    BY <1>8 DEF list

(* A regular container with devices is found by its name.                   *)
LEMMA RegularFound ==
  ASSUME NEW p \in Pods, NEW i \in Slots, Asked[p][i] > 0, i > Len(InitNames[p])
  PROVE  RequestsDevices(p, KubeletNames(p)[i])
  <1> DEFINE s == InitNames[p]  t == Names[p]  k == i - Len(s)
  <1>1. s \in Seq(STRING) /\ t \in Seq(STRING)
    BY PodAssumption
  <1>2. /\ Len(s) \in Nat /\ Len(t) \in Nat /\ DOMAIN t = 1..Len(t)
        /\ Len(s \o t) = Len(s) + Len(t)
        /\ \A j \in 1..(Len(s) + Len(t)) : (s \o t)[j] = IF j <= Len(s) THEN s[j] ELSE t[j - Len(s)]
    BY <1>1, ConcatProperties, LenProperties
  <1>3. i \in Nat /\ i <= Len(s \o t)
    <2>1. i <= Len(KubeletNames(p))
      BY SchedulerAssumption
    <2>2. KubeletNames(p) = s \o t
      BY DEF KubeletNames
    <2>3. i \in Nat
      BY SlotsAssumption DEF Slots
    <2> QED
      BY <2>1, <2>2, <2>3
  <1> HIDE DEF s, t
  <1>4. i > Len(s)
    BY DEF s
  <1>5. /\ k \in DOMAIN t /\ Len(s) + k = i /\ i \in 1..(Len(s) + Len(t)) /\ ~(i <= Len(s))
    BY <1>2, <1>3, <1>4
  <1>6. (s \o t)[i] = t[k]
    BY <1>2, <1>5
  <1>7. k \in DOMAIN Names[p] /\ Names[p][k] = KubeletNames(p)[i]
        /\ Asked[p][Len(InitNames[p]) + k] > 0
    <2>1. Asked[p][Len(s) + k] > 0
      BY <1>5
    <2> QED
      BY <1>5, <1>6, <2>1 DEF s, t, KubeletNames
  <1> HIDE DEF k
  <1> QED
    BY <1>7 DEF RequestsDevices

(* With the grants being the scheduler's decision, the samples of the first *)
(* container name its own cards.                                           *)
LEMMA FirstFromGrants == MonitorInv /\ GrantsMatchAssignment => FirstContainerAttributed
  <1> SUFFICES ASSUME MonitorInv, GrantsMatchAssignment, NEW d \in scrape.found,
                      NEW i \in Held(d[1], d[2]), i = First(d[1]), i > Len(InitNames[d[1]]),
                      NEW n \in DOMAIN granted[d[1]][i].devs
               PROVE  [ctr |-> d, vdevice |-> n, uuid |-> granted[d[1]][i].devs[n]] \in Samples(d)
    BY DEF FirstContainerAttributed
  <1> DEFINE p == d[1]
  <1>1. p \in Pods /\ i \in Slots /\ granted[p][i] # NoGrant /\ granted[p][i].ctr = d[2]
    BY DEF MonitorInv, ScrapeTyped, Dirs, Held
  <1>2. granted[p][i] = Expected[p][i]
    BY <1>1 DEF GrantsMatchAssignment
  <1>3. Expected[p][i] = [pod |-> p, ctr |-> KubeletNames(p)[i], devs |-> Assigned[p][i]]
    BY <1>1 DEF Expected
  <1>4. d[2] = KubeletNames(p)[i] /\ granted[p][i].devs = Assigned[p][i]
    BY <1>1, <1>2, <1>3
  <1>5. n \in DOMAIN Assigned[p][i]
    BY <1>4
  <1>6. Asked[p][i] > 0
    <2>1. Assigned[p][i] # <<>>
      BY <1>1, <1>5, AssignedDomain
    <2> QED
      BY <1>1, <2>1, SchedulerAssumption
  <1>7. RequestsDevices(p, d[2])
    BY <1>1, <1>4, <1>6, RegularFound
  <1>8. n \in DOMAIN RuntimeInfos[p] /\ RuntimeInfos[p][n].uuid = Assigned[p][i][n]
    BY <1>1, <1>5, FirstIsAtStart
  <1>9. DeviceUUIDs(p, d[2]) = [k \in DOMAIN RuntimeInfos[p] |-> RuntimeInfos[p][k].uuid]
    BY <1>7 DEF DeviceUUIDs
  <1>10. n \in DOMAIN DeviceUUIDs(p, d[2]) /\ DeviceUUIDs(p, d[2])[n] = granted[p][i].devs[n]
    BY <1>4, <1>8, <1>9
  <1> QED
    BY <1>10 DEF Samples

-----------------------------------------------------------------------------
(* The inductive invariant holds in every reachable state: the informer never *)
(* is ahead of the API server, nor behind what a scrape has listed.         *)
THEOREM MonitorInvariant == MonitorSpec => []MonitorInv
  BY MonitorInvInit, MonitorInvStep, PTL DEF MonitorSpec

(* MonitorTypeOK: the exporter takes no variable out of its type, nor does *)
(* it take one of Allocate's.                                              *)
THEOREM MonitorTyped == MonitorSpec => []MonitorTypeOK
  <1>1. MonitorInv => MonitorTypeOK
    BY DEF MonitorInv, ScrapeTyped, MonitorTypeOK
  <1> QED
    BY <1>1, MonitorInvariant, PTL

(* OnceSeenDirsKept: no scrape removes a directory of a live pod that any  *)
(* scrape has listed (container.go, ListContainers).                       *)
THEOREM SeenDirsKept == MonitorSpec => OnceSeenDirsKept
  <1>1. MonitorInv /\ [MonitorNext]_allVars =>
          \A d \in dirs \ dirs' : d[1] \in seen => fate[d[1]] # "live"
    BY OnlyStaleRemoved
  <1> QED
    BY <1>1, MonitorInvariant, PTL DEF MonitorSpec, OnceSeenDirsKept

(* Allocate's inductive invariant holds while the exporter removes          *)
(* directories, and so do the properties that follow from it.              *)
THEOREM AllocateInvariantKept == MonitorSpec => []IInv
  <1>1. MonitorInit => IInv
    BY InvInit DEF MonitorInit
  <1>2. MonitorInv /\ IInv /\ [MonitorNext]_allVars => IInv'
    BY AllocateInvStep DEF MonitorInv
  <1> QED
    BY <1>1, <1>2, MonitorInvariant, PTL DEF MonitorSpec

(* LimitsAreOwn, beside the exporter (allocate.go, buildRuntimeInfoLookup): *)
(* a container that shares no device has the limits decided for it.        *)
THEOREM MonitorLimits == MonitorSpec => []LimitsAreOwn
  <1>1. IInv => LimitsAreOwn
    BY LimitsFromGrants DEF IInv
  <1> QED
    BY <1>1, AllocateInvariantKept, PTL

(* FirstContainerAttributed: the samples of the first container with devices *)
(* name the cards it was given (collector.go, collectPodMetrics).          *)
THEOREM FirstAttributed == MonitorSpec => []FirstContainerAttributed
  <1>1. MonitorInv /\ IInv => FirstContainerAttributed
    BY FirstFromGrants DEF IInv
  <1> QED
    BY <1>1, MonitorInvariant, AllocateInvariantKept, PTL

(* What Allocate keeps for itself it keeps beside the exporter: kubelet     *)
(* holds the scheduler's decision, the lock outlives every container but   *)
(* the last, no running pod is failed, and success means erased.           *)
THEOREM AllocateSafeBesideMonitor ==
  MonitorSpec => [](/\ GrantsMatchAssignment /\ LockHeldUntilAllocated
                    /\ RunningNeverFailed /\ SuccessMeansErased)
  <1>1. IInv => LockHeldUntilAllocated
    BY DEF IInv, LockInv, LockOf, Returning, LockHeldUntilAllocated
  <1>2. IInv => GrantsMatchAssignment /\ RunningNeverFailed /\ SuccessMeansErased
    BY DEF IInv
  <1> QED
    BY <1>1, <1>2, AllocateInvariantKept, PTL

(* RefinesDeviceGrants, with an exporter that shares the file system and    *)
(* dies with the plugin: removing directories is invisible to DeviceGrants. *)
THEOREM MonitorKeepsDeviceGrants == MonitorSpec => RefinesDeviceGrants
  <1>1. MonitorInit => DG!Init
    BY RefinementInit DEF MonitorInit
  <1>2. TypeOK /\ IInv /\ [MonitorNext]_allVars => [DG!Next]_DG!vars
    <2> SUFFICES ASSUME TypeOK, IInv, [MonitorNext]_allVars PROVE [DG!Next]_DG!vars
      OBVIOUS
    <2>1. CASE [Next]_vars
      BY <2>1, RefinementStep
    <2>2. ASSUME NEW d \in Dirs, RemoveStale(d) PROVE UNCHANGED DG!vars
      BY <2>2, StutterStep DEF RemoveStale, kubeletVars, Outcome
    <2> QED
      BY <2>1, <2>2
      DEF MonitorNext, AllocateStep, Next, PluginCrash, PodEnds, PodDeleted, InformerSees,
          ScrapeStep, ListPods, ReadDir, ReadDirFails, ScrapeEnds, RemoveStaleFails,
        ReadRegistry, allVars
  <1>3. MonitorInv => TypeOK
    BY DEF MonitorInv
  <1> QED
    BY <1>1, <1>2, <1>3, MonitorInvariant, AllocateInvariantKept, PTL
    DEF MonitorSpec, RefinesDeviceGrants, DG!Spec
=============================================================================
