# A verification project for ascend-device-plugin

The Ascend device plugin is the agent of the HAMi scheduler on a node with
Huawei Ascend NPUs.  It tells kubelet and the scheduler which devices the node
has, and hands to every container the devices the scheduler chose for it.  This
directory holds TLA+ models of its protocols, the TLC configurations that check
them, and TLAPS proofs of their main theorems.

All paths of the form `server.go:312` are below `src/internal/server`,
`manager.go` is `src/internal/manager/manager.go`, `main.go` is `src/cmd/main.go`.

    tlc -workers 2 -config AllocateSafety.cfg MCAllocate      # a model-checking run
    tlapm AllocateProofs.tla                                  # a proof module

## 1. Inventory

### The parts of the system

| Part | State | Operations | Modelled by |
|------|-------|------------|-------------|
| Allocate (`server.go`, `allocate.go`) | pod annotations `hami.io/<word>-devices-to-allocate` and `hami.io/bind-phase`, node annotation `hami.io/mutex.lock`, per call: the pod read, the working copy, the answers | `Allocate`, `popNextContainerDevices`, `buildContainerAllocateResponse`, `patchErasedAnnotation`, `podAllocationTrySuccess`, `podAllocationFailed` | `Allocate`, `AllocateFaults`, `DeviceGrants` |
| Device publication (`server.go`, `register.go`, `main.go`) | device cache, `lastPublishedDevices`, `stopCh`, `healthCh`, the WaitGroup, kubelet's device list, node annotation `hami.io/node-register-<word>` | `Start`, `Stop`, `watchAndRegister`, `registerHAMi`, `registerKubelet`, `ListAndWatch`, the restart loop of `start` | `WatchAndRegister` |
| Device config and SKU (`manager.go`, `register.go`) | the entry chosen at boot; register and handshake annotations and the label of the node | `LoadConfig`, `indexVNPUConfig`, `pickFromCandidates`, `StaleRegisterCommonWords`, `staleRegisterAnnotations`, `patchAscendCommonWordLabel` | `VnpuConfig`, `NodeRegistration` |
| Device manager (`manager.go`) | `devs` under an RWMutex, `nodeConfig` | `UpdateDevice`, `GetDevices`, `GetDeviceByUUID`, `LoadNodeConfig`, `shouldIgnoreDevice`, `IsHamiVnpuCore` | inside `WatchAndRegister`, `Allocate`, `VnpuCleanup`, `Startup` |
| Idle vNPU cleanup (`manager.go:421`, `server.go:160`) | the vNPUs of the cards | `CleanupIdleVNPUs` before every Start and periodically | `VnpuCleanup`, `Startup` |
| gRPC serving loop (`server.go:210`) | crash counter | restart of `Serve`, the quit after too many crashes | `Startup` |
| Container response (`allocate.go:65`) | environment, mounts, the shared-memory directory | `buildContainerAllocateResponse`, `buildRuntimeInfoLookup` | `Allocate`, `ContainerResponse` |
| Device share (`device_share.go`) | the share flag of each chip | `enableNodeDeviceShare`, `applyDeviceShare` | `Startup` |
| Host resources (`util.go`) | files below `/usr/local/hami-vnpu-core` | `prepareHostResources`, `copyFile` | `Startup` |
| vNPU monitor (`src/internal/monitor`) | container directories, informer cache, registries in shared memory | scrapes (`ListContainers`, `collectPodMetrics`), removal of orphan directories | `Monitor` |
| Driver bindings, HAMi library, Kubernetes client | external | what the driver reports, `GetPendingPod`, node lock, patches | external actions |
| `wachers.go`, `version`, charts, manifests, docs | none | | watcher events in `WatchAndRegister`; the rest has no behaviour |

### How they interact

The scheduler chooses devices for every container of a pod, writes them into the
pod's annotation, sets bind-phase to `allocating` and locks the node.  Kubelet
admits the pod and calls `Allocate` with opaque device IDs: the call carries
neither the pod nor the container.  The handler finds the pod through the node
lock, pops the next non-empty entries of the annotation, writes the rest back,
and when nothing is left marks the pod and frees the lock.

`watchAndRegister` refreshes the cache that `Allocate` looks devices up in,
hands changes to the `ListAndWatch` handlers over an unbuffered channel, and
writes the node annotation the scheduler goes by.  `main` stops and starts the
server whenever kubelet's socket is created again.  Which annotation is written
is decided at boot, when `LoadConfig` chooses the config entry of the chip.

Before each start `main` destroys the idle vNPUs, and so does a ticker while the
server runs; both go over the same cards, without a lock.  `Start` copies the
library that containers preload, finds the devices, switches sharing on and
serves; any error ends the process, and the next one finds what it left on the
host.  On a node in hami-vnpu-core mode a metrics exporter runs in the same
process.  It shares nothing with `Allocate` but the directories, which one makes
and the other reads and removes, by what its pod informer knows.

### What is hard

* **Correlation.**  Nothing in a request says whom it is for.  Lock, bind-phase
  and annotation must together identify the container, over several calls.
* **Orphans.**  `grpcServer.Stop` closes connections and does not wait for
  handlers: a call may go on for a pod kubelet has rejected, while another call
  runs.  The same holds for `ListAndWatch` handlers across a restart.
* **Partial failure.**  Every step that follows a decision is an API call that
  may be refused, or take effect although its answer is lost.
* **Staleness.**  The cache changes between the scheduler's decision and the
  lookup; a fingerprint says what was published; the node is read, then patched.
* **Lifecycle.**  Restart requests come while Start or Stop runs; the process
  dies at any point and remembers nothing, but files half copied, chips half
  shared, vNPUs half cleaned up and directories of pods remain.
* **Two views of one list.**  The pod's annotation lists the devices of all its
  containers; limits and metrics of one container are looked up in it.

What makes each part correct: *Allocate* gives every container exactly the
scheduler's decision, keeps the node locked for an unfinished pod, never marks a
running pod failed, never restores an entry, and always comes to an end.
*Publication* lets the node annotation and kubelet's list follow the hardware,
lets no two loops write, and ends when stopped.  *Config* chooses one
well-defined entry, and one SKU remains on the node.  *Startup* serves only
on a prepared host and leaves nothing running behind a Stop.  *Cleanup* spares
the filtered cards and gets the leftovers on the others.  *The monitor* attributes
usage to the right card, removes no directory of a live pod it knows, and leaves
no orphan.

## 2. Plan

In order, most important behaviour first.

1. `DeviceGrants` (abstract), `Allocate`, `AllocateFaults`, with runs for
   safety, liveness and faults. **done**
2. `AllocateProofs`, `AllocateRefinementProofs`: typing, the safety invariants,
   the refinement and the action property for every instance. **done**
3. `WatchAndRegister` with its runs, `WatchAndRegisterProofs`. **done**
4. `VnpuConfig`, `NodeRegistration` with one run, `NodeRegistrationProofs`.
   **done**
5. `ContainerResponse` and `Monitor`: what an answer means for its container,
   and the exporter beside `Allocate`, with `ContainerResponseProofs` and
   `MonitorProofs`. **done**
6. `VnpuCleanup` and `Startup`: the cleanup, the preparation of the host, device
   sharing, the serving loop and Stop over the life of the process, with
   `StartupProofs`. **done**
7. `AllocateFaultsProofs`: what survives any number of faults. **done**
8. The safety properties that were only model-checked, `GrantedOnce` and
   `SilenceMeansUpToDate`; the safety parts of liveness properties, stated and
   proved: of `OneSkuAdvertised` (`AdvertisedIsCleared`, `PatchLeavesOneSku`), of
   `LockIsReleased` (`LockNotLeftBehind`), of `KubeletKeepsResource`
   (`KubeletNotForgotten`); Allocate's theorems beside the exporter.  **done**
9. Left: the safety parts of `LeftoversDestroyed` and `OrphanDirsRemoved`, what a
   pass and a scrape have dealt with when they end, which need history variables.

## 3. Modules

### DeviceGrants

What a node promises: for each pod, either whole initial segments of its
containers are given, in order, exactly what was decided for them, until the pod
runs; or the pod is rejected.  No locks, annotations or calls.

### Allocate

One action is one call of the handler that reads or writes something others
see.  A handler `h` has a program counter `call[h].pc`:

| `pc` | Code | Action |
|------|------|--------|
| `getPod` | `util.GetPendingPod`, `server.go:312` | `GetPendingPod`, `GetPendingPodFails` |
| `decode` | `server.go:319-327` | `DecodeAnnotations` |
| `pop` | the loop `server.go:333-349` | `ServeRequest`, `ServeRequestFails`, `LoopEnds` |
| `patch` | `server.go:352`, `allocate.go:234` | `PatchErasedAnnotation`, `PatchErasedAnnotationFails` |
| `trySuccess`, `setSuccess`, `setFailed`, `release` | the deferred function `server.go:300-309` and the library it calls | `TrySuccess`, `SetSuccess`, `SetFailed`, `ReleaseNodeLock` |
| `reply` | the return, and what kubelet does with it | `Reply` |

`todo` is the part of `reqs.ContainerRequests` not served, `work` the decoded
annotation `podSingleDev`, `resp` the responses, `ok` is `success`.  The first
read of the pod is where the working copy is made: all later reads of the pod's
annotations are of that copy, except the one of `PodAllocationTrySuccess`, which
reads the pod again.

External, from how the code uses them: `SchedulerBind`, `LockExpires`,
`KubeletCalls` (kubelet admits one pod at a time, and asks for its containers in
order, for any number of them at once), `PendingPods` (the library's two ways to
find the pod), `TrySuccess`'s re-read, and the owner check of `ReleaseNodeLock`.
`GrpcStop`, `ProcessCrash` and `PluginUnavailable` are what a restart of the
plugin means for a call; `UpdateDevice` replaces the cache at any moment.

Abstracted: a device is its UUID; a device list is a sequence; the text of the
annotations is left out, with one set of pods whose annotations do not decode;
the environment and the mounts of an answer are the visible devices and the pod
and container the directory is named after.  Three steps of one turn of the loop
are merged in `ServeRequest`.  The devices of a request are looked up together, so
the cache may change between two requests but not between two devices of one.  The
directory is wiped and made (`MakeShmemDir`) in the step of the answer; making it
may fail, which `allocate.go:124` only warns of.  One that was there, was wiped and
could not be made again counts as still there: without kubelet restarts a container
is answered once, and beside them no property looks at directories.  What a
directory contains, and its mode, are left out.

### AllocateFaults

`Allocate` plus two events it cannot tell from normal operation: kubelet
restarts with a call in flight and later asks again, and the scheduler breaks a
lock before kubelet has settled the pod.

With both, a handler that outlived its call may find a pod another call is
serving, and patch the annotation from the copy it read before that call patched
its own: entries come back and are handed out a second time.  In `Allocate` alone
no step does this (`EntriesOnlyErased`).  The history variable `restored` says
whether a patch has done it (`Restores`), and `GrantedOnce` is about behaviours in
which none has; without the condition TLC finds a decision handed out twice.
`NameAssumption`, that the containers of a pod have different names, is what the
API server enforces: two containers of one name would have the same directory.

### WatchAndRegister

| Variable | Code |
|----------|------|
| `life`, `pending` | where the main goroutine is in `start`, `Start` and `Stop`; watcher events and SIGHUPs not taken yet |
| `gen`, `open` | `ps.stopCh`: how often it was made, and whether the current one is closed |
| `cache`, `last` | `AscendManager.devs` after the filter, `lastPublishedDevices` |
| `loop` | where `watchAndRegister` is: timer, publication, registration |
| `stream[s]` | a `ListAndWatch` handler: reading the cache, sending, in its select (with the stop channel it captured), and whether kubelet still listens |
| `invited`, `kubelet`, `nodeAnno` | kubelet got a Register; its device list; the annotation |

The race on `ps.stopCh` between `Start` and a handler of an earlier life is
modelled by what a build can do: the handler evaluates the field when it enters
its select, whichever channel is there then.

Abstracted: `UpdateDevice` reads the hardware in one step (a torn read over
several devices is overwritten by the next tick); its failure changes nothing,
so it is no action; the order of devices in the fingerprint; `VDeviceCount` is a
constant; a `Send` to a live stream is delivered at once.  A life has at most
one new stream, so `MaxRestarts + 1` identities are enough (`StreamsAssumption`).

### VnpuConfig, NodeRegistration

`VnpuConfig` holds the choice of the entry as the code computes it, candidate
list by candidate list, and beside it `Preferred`: the order of preference the
comment of `indexVNPUConfig` states, as a comparison of two entries.
`NodeRegistration` boots a process with any reading of the memory (0 is a failed
probe), and takes the three API calls of `registerHAMi` one by one; each may
fail, the patch with or without effect; the process may die with a patch on the
way, which lands later.  An annotation is absent, cleared or set.  The
annotation `hami-vnpu-core` and the time in the handshake are left
out: they do not depend on the choice.

### ContainerResponse

`Allocate` says which devices a container gets.  This module says what else its
answer contains: `Lookup` is `buildRuntimeInfoLookup`, a map by UUID over the
annotation `huawei.com/<word>` in which a later entry replaces an earlier one;
`FirstSet` the first device that has a quota, a priority or a template; `Env` the
environment in the two modes.  `RuntimeInfos`, a constant, is the annotation as the
scheduler writes it: `AnnotationAssumption` asks that it be the lists of the pod's
containers, one after the other, and nothing else.  The mounts of the driver's files
are the same for every container and are left out.

### Monitor

Extends `Allocate` (through `ContainerResponse`) by the exporter.  `PodEnds`,
`PodDeleted` and `InformerSees` are the API server and the watch, with any lag;
a pod whose `Allocate` failed is rejected and may be deleted while a late call
still makes its directory.

| Variable | Code |
|----------|------|
| `fate` | a bound pod at the API server: live, ended, gone |
| `informer` | the cache behind `podLister` (`container.go:84`) |
| `scrape` | the `ListContainers` in progress: `podByUID`, the entries of `ReadDir` not visited yet, the containers found |
| `seen` | history: pods that some scrape has had in its list |
| `dirs` (of `Allocate`) | the directories below `containersPath` |

`ListPods`, `ReadDir`, `RemoveStale` and `ReadRegistry` per directory, and
`ScrapeEnds` are the steps of a scrape between which others run.  The mutex
admits one.  The path may be unreadable or missing, which ends the scrape
(`ReadDirFails`); a removal may fail, which the code ignores (`container.go:161`,
`:166`), so the directory stays and the scrape goes on (`RemoveStaleFails`).  A
removal that fails half way has emptied the directory, whose contents are left
out.  `PluginCrash` is a crash of the process: the next one syncs its
cache before it serves (`container.go:89`).  Absent stands for both a pod the
informer does not know yet and one it knows no longer: `podByUID` has neither.
The cache is abstracted to the pods' phases; of a registry only which container
it belongs to and which of its devices a value is for is kept, not the value.

### VnpuCleanup, Startup

`VnpuCleanup` is one pass of `CleanupIdleVNPUs`: `pass[w]` has the card at hand
and its vNPUs found idle but not tried yet, for the two callers `w`, main and
the ticker.  Each error of the driver is a choice: `BeginPass` may end the pass,
`QueryFails` skips the card, `DestroyFails` the vNPU.  `RuntimeStep` makes
vNPUs, uses them and leaves them behind at any moment.

`Startup` is the process around it.

| Variable | Code |
|----------|------|
| `main` | where `main`, `start`, `Start` or `Stop` is; `failed` and `quit` when the process has ended |
| `loaded` | `nodeConfig != nil` |
| `host`, `image`, `busy` | the two files below `/usr/local/hami-vnpu-core` (absent, torn, of one image or the other), the version of the running image, the files left alone because they are in use |
| `cached`, `shared`, `left` | the chips of the devices found by this Start, those with device-share on, what is left to do |
| `server`, `restarts` | the goroutine of `serve` and `restartCount`; `quick` is a history of crashes in a row that came within an hour |
| `ticker` | `startPeriodicCheckIdleVNPUs` |

`prepareHostResources` goes over a Go map, hence in any order; a copy is two
steps, since a crash between them leaves a torn file.  A file in use cannot be
torn, because the copy of a file that is busy fails before it is emptied.  The
time between crashes is a choice, within an hour or not.  In the gRPC library a
`Serve` that has returned has closed its listener, so the repetitions of the
loop fail at once; the model leaves open whether they do.

`WatchAndRegister` has the same `Start` and `Stop` with other detail: there
publication and kubelet's view, here what is left behind on the host.

## 4. Runs

| Run | Configuration | What it shows |
|-----|---------------|---------------|
| `alloc_safety` | `MCAllocate`, `AllocateSafety.cfg` | the safety invariants of Allocate, `EntriesOnlyErased`, and that Allocate implements `DeviceGrants`, with API faults, restarts and orphans |
| `alloc_live` | `AllocateLive.cfg` | `PodsSettle`, `LockIsReleased`, and that the lock is freed before kubelet runs or rejects its pod (`LockNotLeftBehind`), for four pods of which one does not decode and one asks for another number of devices than it was assigned |
| `alloc_faults` | `MCAllocateFaults`, `AllocateFaults.cfg` | what survives two events of a kubelet restart or an early lock expiry: whole decisions (`GrantsAreWhole`), each handed out once unless a patch brought its entry back (`GrantedOnce`) |
| `alloc_retry` | `AllocateRetry.cfg` | **violation**, see below |
| `watch_restarts` | `MCWatchAndRegister`, `WatchRestarts.cfg` | `OneWriter`, `StopTerminates`, `KubeletKeepsResource`, `NodeAnnotationConverges` through any restart; no kubelet that came back is forgotten (`KubeletNotForgotten`) |
| `watch_recovery` | `WatchRecovery.cfg` | kubelet's list follows hardware that only gets better |
| `watch_reverts` | `WatchReverts.cfg` | **violation**, see below |
| `watch_stop` | `WatchStop.cfg` | **violation**, see below |
| `node_sku` | `MCNodeRegistration`, `NodeSku.cfg` | the choice of the entry against its reference (`ChoiceIsPreferred`); no word that is advertised is out of the process's reach (`AdvertisedIsCleared`); one registration on the node as it was read leaves one word (`PatchLeavesOneSku`), and one remains in the end (`OneSkuAdvertised`, `LabelFollowsChoice`) |
| `startup` | `MCStartup`, `Startup.cfg` | the plugin serves only on a prepared host (`ServesPrepared`); Stop ends and leaves no goroutine (`StopEnds`, `OneGeneration`); the counter's quit is earned; filtered cards are spared and leftovers on the others destroyed |
| `monitor` | `MCMonitor`, `Monitor.cfg` | directories of a live pod are kept once a scrape has listed it, and those of other pods go in the end; limits, and the devices reported for a first container, are its own; with every fault of `Allocate` |
| `monitor_devices` | `MonitorDevices.cfg` | **violation**, see below |

Every property of a passing run has a mutant in the module it is about: a
definition marked "Mutant" in a comment, which is the code with a plausible bug,
and under which TLC finds the property violated.

### Where the code and its comments disagree

* `alloc_retry`.  `server.go:329` says the pop semantics "match each request
  with its corresponding containerDevices".  They match it with the next entry:
  when kubelet restarts after an entry was popped and before it recorded the
  answer, its second request for that container gets the devices, and the
  directory, of the next one.
* `watch_reverts`.  `server.go:76` calls `lastPublishedDevices` the set "most
  recently handed to kubelet".  The first response of a stream (`server.go:281`)
  does not update it: a device that changes before that response is made and
  changes back before the loop looks leaves kubelet with the intermediate list,
  and nothing is sent until the next change.
* `watch_stop`.  The test at `server_test.go:924` "verifies that Stop() returns
  only after all goroutines have exited".  `ListAndWatch` handlers are not in
  the WaitGroup and `grpcServer.Stop` does not wait for handlers.

* `monitor_devices`.  `docs/hami.md:178` documents the utilization "of the
  device the container runs on".  `ListContainers` (`container.go:177`) takes
  all UUIDs of the pod's annotation for every container that asks for devices,
  so in a pod with two such containers each is reported with the cards of both,
  and what the second uses of its first device is counted for the first UUID.

Three smaller ones, without a run.  `server.go:227` says the process quits when
the server crashed more than five times and "didn't last more than one hour each
time": the counter is tested before the hour is looked at, so the last of the
crashes may come after any time (`QuitsOnlyAfterQuickCrashes` says what does
hold).  `device_share.go:74` leaves later chips to "the next Allocate"; sharing
is switched on in `Start` only, and an error there ends the process.  A
directory just made may be removed by a scrape that listed the pods before
(`container.go:158`); `OnceSeenDirsKept` says from when on this cannot happen.

### Bounds, and why they are enough

* `Allocate`: two pods meet every interleaving of two admissions; one has an
  init container, a container without devices and a second with, the other a
  container with two devices and one with one; two handlers are one call kubelet
  waits for and one orphan.  A third handler would be one more orphan, and the
  proofs cover any number.  Two device sets make a device unknown.
* `AllocateFaults`: two events (`MaxFaults`), so that a call may be lost and the
  lock be broken while its handler runs on, and three containers in the second
  pod, so that a late patch has an entry to bring back besides the one it pops.
  The proofs cover any number of both.  `alloc_retry` needs one event.
* `WatchAndRegister`: two devices, one of them hidden by the filter and steady
  in `watch_restarts`.  Two restarts (`MaxRestarts`; kubelet's, SIGHUP's and the
  process's count alike) meet every step of Start and Stop, and the second meets
  what the first has left, with one change of the hardware (`MaxHwChanges`)
  anywhere.  `watch_recovery` has four changes, enough for both devices to be
  found and to recover; `watch_reverts` two, a change and its reversal.
* `NodeRegistration`: every config of up to three entries out of seven kinds
  (three by chip name and three by device type, with the band [0,2), [2,0) or
  none, and one of another chip), readings 0, 1 and 2 (on both sides of the
  boundary), two boots (`MaxBoots`: a switch of the card), one failed call
  (`MaxFailures`).  Three entries are a pair to choose from and one to prefer.

* `Startup`: three cards, one filtered by UUID, one by index, and one that is
  not, behind both; a vNPU on the first and on the last.  Both files, so that
  one may be good while the other is torn or in use.  One crash of the process
  (`MaxCrashes`) at any point, beside the errors of Start and the quits, which
  are not bounded.  `RestartLimit` is 1 where `serve` has 5: the counter then
  has its values below, at and above the limit; the proofs cover any.  One chip
  to share; the proofs cover any number.
* `Monitor`: one pod with an init container without devices, one container with
  two devices and one with a third, so that the offsets differ in every list;
  one handler, which becomes an orphan when the plugin restarts; a second pod
  would add directories that no property relates to those of the first, and
  `MonitorProofs` covers any number.  A set of devices without the third makes
  the second container's call fail.

Deadlock is checked in all runs but `node_sku`, where a config without an entry
for the chip ends every boot in `LoadConfig`'s error and nothing is left to do.

### Fairness

* `Allocate`: weak fairness of each handler (a goroutine runs) and of kubelet
  for the pod it admits.  None for the scheduler, for the lock's expiry, nor for
  faults; the liveness run has no faults, because a handler whose read fails
  does leave the lock to its expiry (`server.go:313`), by design.
* `WatchAndRegister`: weak fairness of the main goroutine, of the loop and of
  each handler.  Strong fairness of `RegisterHAMi`: the API server does not
  refuse the node patch for ever.  Strong fairness of `LoopStops`: Go's select
  chooses among ready cases at random, so a closed stop channel is taken in the
  end although the timer may win any single time.
* `NodeRegistration`: a dead container is started again, the loop ticks for
  ever, and a request the API server has accepted is applied in the end.
* `Startup`: weak fairness of main, of the serving goroutine, of a pass that is
  under way and of the timer.  Strong fairness of `TickerStops`, as of
  `LoopStops` above.  For `LeftoversDestroyed` also of `LoadNodeConfig`, and of
  the driver's answers (`CardsListed`, `IdleListed`, `Destroyed`): a process
  that tries again and again succeeds at some time.  That passes are made again
  and again is not assumed but follows: a process that cannot serve dies and
  cleans up when it begins again, one that serves has its ticker (`Periodic`).
* `Monitor`: handlers run, the watch delivers, Prometheus goes on scraping.
  None for the pod's end.  Strong fairness of `ReadDir` and, for each directory,
  of `RemoveStale`: both may fail any number of times, and each is tried again by
  the next scrape, so the file system is only asked not to fail for ever.
  `OrphanDirsRemoved` fails without either.

## 5. Proofs

TLAPS proves the following for every value of the constants.

| Theorem | Module | Statement |
|---------|--------|-----------|
| `TypeCorrect` | `AllocateProofs` | `Spec => []TypeOK` |
| `InvariantHolds` | `AllocateProofs` | `Spec => [](TypeOK /\ PodFound /\ IInv)` |
| `GrantsCorrect`, `LockHeld`, `RunningSafe`, `SuccessSafe` | `AllocateProofs` | the four safety invariants of `alloc_safety` |
| `LockFreedInTime` | `AllocateProofs` | `Spec => []LockNotLeftBehind` |
| `ImplementsDeviceGrants` | `AllocateRefinementProofs` | `Spec => RefinesDeviceGrants` |
| `RunningPodsServed` | `AllocateRefinementProofs` | `Spec => []DG!RunningIsServed`, by the refinement |
| `EntriesErased` | `AllocateRefinementProofs` | `Spec => EntriesOnlyErased` |
| `TypeCorrect`, `OneWriterHolds`, `KubeletServedOrAsked` | `WatchAndRegisterProofs` | `TypeOK`, `OneWriter` and `KubeletNotForgotten` |
| `FingerprintOfFirstLife` | `WatchAndRegisterProofs` | `Spec => []SilenceMeansUpToDate`, without restarts, for hardware that recovers |
| `FingerprintIsTrue` | `WatchAndRegisterProofs` | `Spec /\ HardwareRecovers /\ OrphansTakeNothing => []SilenceMeansUpToDate`, with any number of restarts |
| `TypeCorrect`, `ChoiceCorrect` | `NodeRegistrationProofs` | `TypeOK` and `ChoiceIsPreferred` |
| `NoOrphanedSku`, `OneSkuAfterPatch` | `NodeRegistrationProofs` | `AdvertisedIsCleared` and `PatchLeavesOneSku` |
| `WholeGrants`, `OnceGranted` | `AllocateFaultsProofs` | `GrantsAreWhole` and `GrantedOnce`, for any number of faults |
| `StartInvariant` | `StartupProofs` | `StartupSpec => []StartInv` |
| `StartupTyped`, `ServingPrepared`, `OneGenerationAtATime`, `QuitsRightly` | `StartupProofs` | the four invariants of `startup` |
| `IgnoredCardsSpared` | `StartupProofs` | `StartupSpec => IgnoredCardsUntouched` |
| `LimitsOwn` | `ContainerResponseProofs` | `Spec => []LimitsAreOwn` |
| `MonitorInvariant`, `MonitorTyped`, `SeenDirsKept` | `MonitorProofs` | `MonitorTypeOK` and `OnceSeenDirsKept` |
| `AllocateInvariantKept`, `MonitorLimits`, `FirstAttributed` | `MonitorProofs` | `IInv`, `LimitsAreOwn` and `FirstContainerAttributed` beside the exporter |
| `AllocateSafeBesideMonitor`, `MonitorKeepsDeviceGrants` | `MonitorProofs` | the four safety invariants of `alloc_safety`, and `RefinesDeviceGrants`, beside the exporter |

**Assumptions.**  Those of the modules: in `Allocate`, that an entry of the
annotation is non-empty exactly for the containers that ask for devices
(`SchedulerAssumption`; their numbers may differ, which is an error path), that
every such slot is a container of the pod, and that the null values are not
pods, calls or grants; in `AllocateFaults`, that the containers of a pod have
different names.  In `WatchAndRegister`, types only; the two theorems about the
fingerprint state what they need of the hardware and of orphans.  In
`VnpuCleanup` and `Startup`, that every vNPU is part of a card, that the filters
name cards and the device sets chips, and that the limit is positive.  In
`ContainerResponse`, that the annotation is the concatenation of the containers'
lists (`AnnotationAssumption`).

**The invariant of Allocate.**  `GrantsMatchAssignment` is not inductive: that
the next entry is the right one depends on what every call in flight read and
when.  `IInv` is the conjunction of

* `AdmissionInv`: at most one pod is being admitted, at most one call is waited
  for, and every other call works for a pod of its own that kubelet has rejected;
* `OwnPodInv`: a handler works on the pod it was called for, although it was
  never told which;
* `LockInv`: the lock belongs to the pod that is bound or admitted, or the call
  that ends its allocation is about to return;
* `PhaseInv`: bind-phase is `allocating` until the handler has decided, and is
  not `failed` when kubelet gets an answer;
* `AnnotationInv`, `WaitingInv` (`DataInv`, `PcInv`): the annotation of the pod
  being admitted holds precisely the entries kubelet has no answer for, less
  those the call has popped and patched; the working copy and the answers of the
  call partition what was assigned; what is asked for is the next part of it.

The argument: the lock is held, so `GetPendingPod` finds the right pod; the
annotation holds what is missing, in order, so the first non-empty entries are
those of the containers kubelet asks for next; and no orphan can interfere,
because its pod is rejected and a lock it releases is not its own.  One lemma
per action keeps the invariant.  `WorkInv`, on top of it, says that a working
copy only lacks entries the annotation has; `EntriesErased` follows.

`LockNotLeftBehind` needs more: that the call kubelet waits for has freed the lock
when it is about to return for the last time (`FreedInv`).  That is where the
error paths meet: `GetPendingPod` cannot miss a pod that is still allocating, a
failed call passes through the release, and a successful one returns without it only
when `PodAllocationTrySuccess` saw entries left, which by `IInv` are those of
containers kubelet has no answer for.

**Restarts of kubelet.**  For `WatchAndRegister`, `LivesCounted` bounds the number of
stop channels by the restarts asked for.  `AskedInv` gives `KubeletNotForgotten`:
kubelet listens to one handler at most (`OneListener`), which waits on the channel of
this life (`SelectsCurrent`), and that is open until main takes the next restart; so
the handler does not leave kubelet without one that is asked for.

**The choice of the entry.**  `FirstIsLeast` gives what a loop that returns the
first hit finds, from the well-foundedness of the naturals; `PickIsBest` that
`pickFromCandidates` returns the candidate that fits best, and the first such;
`LevelPreferred` and `IndexIsPreferred` that the three candidate lists are the
levels of the match, best first.  The reference `Preferred` compares two entries
and knows nothing of lists.  Assumed: the configs are sequences of entries,
readings and bounds are naturals, and an unset name is no name.

**With faults.**  `IInv` does not survive a kubelet restart: the lock no longer
leads to the right pod, nor the annotation to the right container.  `WholeInv`
asks for less: the annotation and every working copy are the decision for *one*
pod with entries erased, and every answer is *one* entry of it.  It is inductive
without any assumption on which pod a call finds.

For `GrantedOnce`, `OnceInv` says in how many places an entry may be.  What was
granted is erased (`GrantsErased`), and granted once (`GrantsDistinct`); the call
kubelet waits for (`Awaited`) has popped what nobody was given, and no entry twice,
and once it counts as successful what it popped is erased.  Nothing is said about
the copies of calls nobody waits for: their answers reach no one, and if they write
an entry back the state is `restored`.  That a call which starts finds only what
was not given is `GrantsErased`, read the other way.  `ReadInv` supports it: only a
pod that has been bound is locked, worked on or answered for, so `SchedulerBind`,
which writes whole annotations, writes none that matters.

**The fingerprint.**  `last` is the cache of the last publication, but the handler
that was woken reads the cache later, and the first response of a stream is not a
publication at all.  If devices are only found and recover, lists are ordered:
`InOrder` says that the fingerprint recovers into the cache and the cache into the
hardware, and `Fresh` that the list on its way to the stream kubelet listens to, or
the one it has, lies between fingerprint and cache.  When these two are equal, so
is everything between (`RecoversBoth`).  The run
`watch_reverts` shows that `FingerprintIsTrue` needs `HardwareRecovers`.
`OrphansTakeNothing` is assumed for a reason no run shows: a handler of an earlier life, waiting on the new stop channel
(`server.go:284`), can take the update, which the loop then counts as published.
With one life there are no orphans, and `FingerprintOfFirstLife`, the statement the
run `watch_recovery` checks, assumes only that the hardware recovers.

**One SKU.**  `SkuInv` says that every annotation that advertises a word, and
every patch decided on but not applied, the late one included, is about words of
entries that carry the chip's name.  These are the process's word and those it
clears (`ChipWordsCleared`), hence `NoOrphanedSku`; a patch decided on the node as
it still is therefore leaves one word, `OneSkuAfterPatch`.  The condition on the node
is a real one: between the read and the patch of `registerHAMi` the patch of a
dead process may land, and the word it brings stays until the next tick.

**Startup.**  `StartInv` says, for each place main can be at, which goroutines
and passes exist (`Generations`), which files are prepared and which chips
shared (`Preparing`, `Sharing`), and that the counter exceeds the crashes in a
row by one at most (`Counting`): the crash that begins a row counts, although it
came after an hour.  `Preparing` is where a torn file matters: it is neither up
to date nor in use, so a Start that finds one copies it again.  `Listings`, that
a pass's list has no vNPU of a filtered card, gives `IgnoredCardsSpared`.

**Monitor.**  `NeverAhead`: the informer shows only pods that are bound, and
none as ended that has not; so it may be behind, but each step brings it to the
state of the API server.  With that, `SeenKept` is inductive: a live pod that
was listed once is live in the cache, in every later list, and in the cache of
the next process, which is synced before it serves.  `AllocateKeeps` adds that
Allocate itself takes no directory away.

**Limits and attribution.**  A scrape touches nothing `IInv` speaks of, so it holds
beside the exporter too, and with it that a grant is the scheduler's decision.  The
rest is about the annotation: `OwnInfo` shows that a device only one container has
occurs once in the list of the pod, so the search by UUID finds that container's
entry, and `OwnField` that the first device with a field is then the same;
`FirstIsAtStart` that the entries of the first container with devices begin the
list, because nothing precedes them, so the n-th UUID of the pod is its n-th.

**Only model-checked:** all liveness (`PodsSettle`, `LockIsReleased`,
`StopTerminates`, `NodeAnnotationConverges`, `KubeletConverges`,
`KubeletKeepsResource`, `OneSkuAdvertised`, `LabelFollowsChoice`,
`LeftoversDestroyed`, `StopEnds`, `OrphanDirsRemoved`), which is out of the
prover's reach.  Every other property of a passing run is a theorem.

## 6. Not modelled, and why

* the decoding of YAML, JSON and annotation strings, beyond that it may fail;
* removed or renamed words of an edited device config: the interface comment
  promises clearing only for entries that share the chip's name;
* `VDeviceCount`'s division, a constant of the config; intervals of zero for
  the ticker, which end the process in `time.NewTicker`: nothing checks them;
* the scheduler's own use of the handshake annotation;
* the values of metrics (`registry.go`, `dsmi.go`): counters that containers and
  the driver write while they are read, one by one;
* containers that load the library while it is copied, and what the driver does
  with a vNPU claimed after it was found idle: both are outside the repository;
* where `npu-smi` and the driver's files lie on a host, and their mounts;
* `GetIDs` and `GetUnHealthIDs`, which only tests call;
* logging, versions, build and deployment files: no behaviour.
