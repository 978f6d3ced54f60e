------------------------------- MODULE Monitor -------------------------------
(***************************************************************************)
(* The metrics exporter of a hami-vnpu-core node beside Allocate.  Allocate *)
(* makes a shared-memory directory per container; a scrape walks over them *)
(* with the pods its informer knows, reports the containers it finds, and  *)
(* removes the directories of pods that are gone or have ended.  Nothing   *)
(* but the file system connects the two.                                   *)
(***************************************************************************)
EXTENDS ContainerResponse

VARIABLES
  fate,      \* fate[p]: a pod that was bound to the node is live, has ended or is gone
  informer,  \* informer[p]: what the pod informer shows of p
  seen,      \* the pods that some scrape, of any process, has had in its list
  scrape     \* the ListContainers in progress; the mutex admits one

monitorVars == <<fate, informer, seen, scrape>>
allVars == <<vars, monitorVars>>

(* Unknown yet and deleted look the same to a scrape.                       *)
Statuses == {"absent", "live", "ended"}
ScrapePCs == {"idle", "readDir", "visit"}
Dirs == Pods \X AllNames
NoScrape == [pc |-> "idle", pods |-> [p \in Pods |-> "absent"], todo |-> {}, found |-> {}]

(* What the API server has of p, for the informer's field selector.         *)
Status == [p \in Pods |-> IF kstate[p] = "unbound" THEN "absent" ELSE fate[p]]
Shown(view) == {p \in Pods : view[p] # "absent"}

MonitorInit ==
  /\ Init
  /\ fate = [p \in Pods |-> "live"]
  /\ informer = [p \in Pods |-> "absent"]
  /\ seen = {}
  /\ scrape = NoScrape

-----------------------------------------------------------------------------
(* Around the monitor (external): the API server, its watch, Prometheus.    *)

PodEnds(p) ==
  /\ kstate[p] \in {"running", "rejected"} /\ fate[p] = "live"
  /\ fate' = [fate EXCEPT ![p] = "ended"]
  /\ UNCHANGED <<vars, informer, seen, scrape>>

PodDeleted(p) ==
  /\ kstate[p] \in {"running", "rejected"} /\ fate[p] = "live"
  /\ fate' = [fate EXCEPT ![p] = "absent"]
  /\ UNCHANGED <<vars, informer, seen, scrape>>

InformerSees(p) ==
  /\ informer[p] # Status[p]
  /\ informer' = [informer EXCEPT ![p] = Status[p]]
  /\ UNCHANGED <<vars, fate, seen, scrape>>

-----------------------------------------------------------------------------
(* Mutant: the cache is served before it has synced.                        *)
CacheBeforeSync == [p \in Pods |-> "absent"]

(* NewContainerLister: a new process lists the pods before it serves.       *)
SyncedCache == Status

(* The plugin's process dies, and its monitor with it.                      *)
PluginCrash ==
  /\ ProcessCrash
  /\ informer' = SyncedCache /\ scrape' = NoScrape
  /\ UNCHANGED <<fate, seen>>

(* ListContainers, with the mutex held: the pods, then the directories ...  *)
ListPods ==
  /\ NodeHamiVnpuCore
  /\ scrape.pc = "idle"
  /\ scrape' = [NoScrape EXCEPT !.pc = "readDir", !.pods = informer]
  /\ seen' = seen \cup Shown(informer)
  /\ UNCHANGED <<vars, fate, informer>>

ReadDir ==
  /\ scrape.pc = "readDir"
  /\ scrape' = [scrape EXCEPT !.pc = "visit", !.todo = dirs]
  /\ UNCHANGED <<vars, fate, informer, seen>>

(* The path cannot be read, or is not there yet: the scrape has nothing.    *)
ReadDirFails ==
  /\ scrape.pc = "readDir"
  /\ scrape' = NoScrape
  /\ UNCHANGED <<vars, fate, informer, seen>>

(* Mutant: a directory whose pod the informer has not is left alone.        *)
StaleIfEnded(d) == scrape.pods[d[1]] = "ended"

(* ... then one directory after the other: remove a stale one, read the    *)
(* registry of another, or skip it when it cannot be opened.               *)
Stale(d) == scrape.pods[d[1]] # "live"

Visited(d) == [scrape EXCEPT !.todo = @ \ {d}]

RemoveStale(d) ==
  /\ scrape.pc = "visit" /\ d \in scrape.todo
  /\ Stale(d)
  /\ dirs' = dirs \ {d}
  /\ scrape' = Visited(d)
  /\ UNCHANGED <<nodeLock, podVars, kubeletVars, call, known, fate, informer, seen>>

(* The error of os.RemoveAll is ignored: the directory is left to a later   *)
(* scrape.                                                                 *)
RemoveStaleFails(d) ==
  /\ scrape.pc = "visit" /\ d \in scrape.todo
  /\ Stale(d)
  /\ scrape' = Visited(d)
  /\ UNCHANGED <<vars, fate, informer, seen>>

ReadRegistry(d) ==
  /\ scrape.pc = "visit" /\ d \in scrape.todo
  /\ ~Stale(d)
  /\ \/ d \in dirs /\ scrape' = [Visited(d) EXCEPT !.found = @ \cup {d}]
     \/ scrape' = Visited(d)
  /\ UNCHANGED <<vars, fate, informer, seen>>

(* Collect has what it needs, and sends the metrics.                        *)
ScrapeEnds ==
  /\ scrape.pc = "visit" /\ scrape.todo = {}
  /\ scrape' = NoScrape
  /\ UNCHANGED <<vars, fate, informer, seen>>

-----------------------------------------------------------------------------
AllocateStep ==
  \/ \E p \in Pods : \/ SchedulerBind(p) \/ LockExpires(p)
                     \/ KubeletStep(p) \/ PluginUnavailable(p)
  \/ \E h \in Calls : HandlerStep(h)
  \/ GrpcStop \/ UpdateDevice

ScrapeStep ==
  \/ ListPods \/ ReadDir \/ ReadDirFails \/ ScrapeEnds
  \/ \E d \in Dirs : RemoveStale(d) \/ RemoveStaleFails(d) \/ ReadRegistry(d)

MonitorNext ==
  \/ AllocateStep /\ UNCHANGED monitorVars
  \/ \E p \in Pods : PodEnds(p) \/ PodDeleted(p) \/ InformerSees(p)
  \/ PluginCrash
  \/ ScrapeStep

MonitorSpec == MonitorInit /\ [][MonitorNext]_allVars

(* Prometheus goes on scraping, the watch goes on delivering; the file      *)
(* system refuses neither to list the directories nor to remove one of     *)
(* them for ever.                                                          *)
MonitorFairness ==
  /\ \A h \in Calls : WF_allVars(HandlerStep(h) /\ UNCHANGED monitorVars)
  /\ \A p \in Pods : WF_allVars(InformerSees(p))
  /\ WF_allVars(ScrapeStep)
  /\ SF_allVars(ReadDir)
  /\ \A d \in Dirs : SF_allVars(RemoveStale(d))

LiveMonitorSpec == MonitorSpec /\ MonitorFairness

-----------------------------------------------------------------------------
(* What a scrape reports.                                                   *)

(* ascendDeviceResource looks among the regular containers only.            *)
RequestsDevices(p, ctr) ==
  \E k \in DOMAIN Names[p] :
     Names[p][k] = ctr /\ Asked[p][Len(InitNames[p]) + k] > 0

(* DeviceUUIDs: the UUIDs of the pod's annotation, for each container.      *)
DeviceUUIDs(p, ctr) ==
  IF RequestsDevices(p, ctr)
  THEN [k \in DOMAIN RuntimeInfos[p] |-> RuntimeInfos[p][k].uuid] ELSE <<>>

(* Mutant: the container's devices are counted from 0.                      *)
SamplesOffByOne(d) ==
  {[ctr |-> d, vdevice |-> n - 1, uuid |-> DeviceUUIDs(d[1], d[2])[n]] :
      n \in DOMAIN DeviceUUIDs(d[1], d[2])}

(* collectPodMetrics: the n-th UUID with the n-th entry of DeviceMemory,    *)
(* what the container uses of its n-th device.                              *)
Samples(d) ==
  {[ctr |-> d, vdevice |-> n, uuid |-> DeviceUUIDs(d[1], d[2])[n]] :
      n \in DOMAIN DeviceUUIDs(d[1], d[2])}

Reported == UNION {Samples(d) : d \in scrape.found}

(* collectHostMetrics: what is added up for a card.                         *)
CountedFor(u) == {<<s.ctr, s.vdevice>> : s \in {r \in Reported : r.uuid = u}}

Held(p, ctr) == {i \in Slots : granted[p][i] # NoGrant /\ granted[p][i].ctr = ctr}

-----------------------------------------------------------------------------
(* Every variable has its type.                                             *)
MonitorTypeOK ==
  /\ TypeOK
  /\ fate \in [Pods -> Statuses]
  /\ informer \in [Pods -> Statuses]
  /\ seen \in SUBSET Pods
  /\ scrape \in [pc : ScrapePCs, pods : [Pods -> Statuses],
                 todo : SUBSET Dirs, found : SUBSET Dirs]

(* A scrape works with a list of pods that is older than its list of       *)
(* directories, from a cache that lags, in a process that may have begun   *)
(* after the pod.  A pod that any scrape has once listed keeps its         *)
(* directories as long as it is live (container.go, ListContainers).  Only *)
(* a pod that no scrape has listed yet may lose one that was just made.    *)
OnceSeenDirsKept ==
  [][\A d \in dirs \ dirs' : d[1] \in seen => fate[d[1]] # "live"]_allVars

(* No directory outlives its pod for ever: neither one of a pod that ended *)
(* or was deleted, nor one that a call makes for a pod rejected meanwhile, *)
(* though any single removal may fail.                                     *)
OrphanDirsRemoved ==
  <>[](\A d \in dirs : kstate[d[1]] # "unbound" /\ fate[d[1]] = "live")

(* What a container uses of its n-th device is counted for the card it was *)
(* given as its n-th (collector.go, collectPodMetrics), though the UUIDs    *)
(* come from a list of the whole pod: true of the first container with     *)
(* devices, if it is a regular one.                                        *)
First(p) == Lowest(Wanted[p])

FirstContainerAttributed ==
  \A d \in scrape.found : LET p == d[1] IN
     \A i \in Held(p, d[2]) : i = First(p) /\ i > Len(InitNames[p]) =>
        \A n \in DOMAIN granted[p][i].devs :
           [ctr |-> d, vdevice |-> n, uuid |-> granted[p][i].devs[n]] \in Samples(d)

(* The metrics are documented per container, of "the device the container  *)
(* runs on": a card reported for a container is one it was given.          *)
ReportedDevicesAreOwn ==
  \A s \in Reported : \A i \in Held(s.ctr[1], s.ctr[2]) :
     \E n \in DOMAIN granted[s.ctr[1]][i].devs :
        granted[s.ctr[1]][i].devs[n] = s.uuid
=============================================================================
