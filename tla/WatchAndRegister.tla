-------------------------- MODULE WatchAndRegister --------------------------
(***************************************************************************)
(* How the plugin tells kubelet and the scheduler which devices the node   *)
(* has.  The goroutine watchAndRegister refreshes the device cache on a    *)
(* timer, hands the news to a ListAndWatch handler over the unbuffered     *)
(* healthCh, and writes the node annotation.  Stop and Start, called by    *)
(* the main loop when kubelet's socket is created again, put a new stop    *)
(* channel and a new gRPC server under the handlers of the old one.        *)
(***************************************************************************)
EXTENDS Integers, FiniteSets

CONSTANTS
  Devices,        \* the UUIDs the hardware may report
  Ignored,        \* the devices filterDevices hides on this node
  VDeviceCount,   \* virtual devices published per device
  HwSteps,        \* the pairs <<from, to>> of hardware states the driver may report
  HwStart,        \* what it may report first
  Streams,        \* identities for the ListAndWatch handlers
  MaxHwChanges, MaxRestarts,
  NoView          \* no device list at all

(* A device list: which UUIDs are there, and whether each is healthy.       *)
Views == UNION {[S -> BOOLEAN] : S \in SUBSET Devices}

ASSUME DevicesAssumption == NoView \notin Views /\ VDeviceCount \in Nat
ASSUME HwAssumption == HwSteps \subseteq Views \X Views /\ HwStart \subseteq Views
ASSUME BoundsAssumption == MaxHwChanges \in Nat /\ MaxRestarts \in Nat

(* A handler of an earlier life may stay for ever: every life has its own.  *)
ASSUME StreamsAssumption == IsFiniteSet(Streams) /\ Cardinality(Streams) > MaxRestarts

VARIABLES
  hw,         \* what the driver reports
  hwChanges,  \* how often it changed
  restarts,   \* how often kubelet restarted, SIGHUP came or the plugin died
  life,       \* where the main goroutine is, in start, Start or Stop
  pending,    \* restart requests in the watcher's queue
  gen, open,  \* ps.stopCh: the number of its make in Start, and not closed yet
  cache,      \* AscendManager.devs
  last,       \* lastPublishedDevices
  loop,       \* where watchAndRegister is
  stream,     \* stream[s]: the state of a ListAndWatch handler
  invited,    \* kubelet got a Register and will call ListAndWatch
  kubelet,    \* the device list kubelet goes by
  nodeAnno    \* the node annotation hami.io/node-register-<word>

outside == <<hw, hwChanges>>
main    == <<life, restarts, pending, gen, open>>
peers   == <<invited, kubelet>>
vars    == <<outside, main, cache, last, loop, stream, peers, nodeAnno>>

-----------------------------------------------------------------------------
Visible(v) == [d \in DOMAIN v \ Ignored |-> v[d]]

(* apiDevices: VDeviceCount IDs per device, with the device's health.       *)
ApiDevices(v) == [id \in (DOMAIN v) \X (1..VDeviceCount) |-> v[id[1]]]
ApiViews == {ApiDevices(v) : v \in Views}

Nothing == [d \in {} |-> TRUE]

Lives == {"prepare", "update", "serve", "register", "launch", "running",
          "grpcStop", "wgWait"}
LoopPCs == {"wait", "publish", "report", "exited"}
StreamStates == [pc : {"free", "read", "send", "select"},
                 live : BOOLEAN,                     \* kubelet listens to it
                 buf : ApiViews \cup {NoView},       \* the response to send
                 gen : 0..(MaxRestarts + 1)]         \* the stopCh it selects on

NoStream == [pc |-> "free", live |-> FALSE, buf |-> NoView, gen |-> 0]

Init ==
  /\ hw \in HwStart /\ hwChanges = 0
  /\ life = "prepare" /\ restarts = 0 /\ pending = 0
  /\ gen = 0 /\ open = TRUE
  /\ cache = Nothing /\ last = Nothing
  /\ loop = "exited"
  /\ stream = [s \in Streams |-> NoStream]
  /\ invited = FALSE /\ kubelet = NoView
  /\ nodeAnno = NoView

Closed(g) == g < gen \/ ~open

-----------------------------------------------------------------------------
(* Around the plugin (external).                                            *)

HardwareChanges ==
  /\ hwChanges < MaxHwChanges
  /\ \E v \in Views : v # hw /\ <<hw, v>> \in HwSteps /\ hw' = v
  /\ hwChanges' = hwChanges + 1
  /\ UNCHANGED <<main, cache, last, loop, stream, peers, nodeAnno>>

Disconnected == [s \in Streams |-> [stream[s] EXCEPT !.live = FALSE]]

(* Mutant: a socket created while Start runs is not noticed.                *)
KubeletRestartsUnnoticed ==
  /\ restarts < MaxRestarts
  /\ restarts' = restarts + 1
  /\ pending' = IF life = "running" THEN pending + 1 ELSE pending
  /\ stream' = Disconnected /\ kubelet' = NoView /\ invited' = FALSE
  /\ UNCHANGED <<outside, life, gen, open, cache, last, loop, nodeAnno>>

(* Kubelet comes back with no plugins; the new socket asks for a restart.   *)
KubeletRestarts ==
  /\ restarts < MaxRestarts
  /\ restarts' = restarts + 1
  /\ pending' = pending + 1
  /\ stream' = Disconnected /\ kubelet' = NoView /\ invited' = FALSE
  /\ UNCHANGED <<outside, life, gen, open, cache, last, loop, nodeAnno>>

Sighup ==
  /\ restarts < MaxRestarts
  /\ restarts' = restarts + 1
  /\ pending' = pending + 1
  /\ UNCHANGED <<outside, life, gen, open, cache, last, loop, stream, peers, nodeAnno>>

(* The process ends, by a fatal error or because Start returned one, and    *)
(* its container is started again: nothing in memory is left.              *)
ProcessDies ==
  /\ restarts < MaxRestarts
  /\ restarts' = restarts + 1
  /\ life' = "prepare" /\ pending' = 0 /\ gen' = 0 /\ open' = TRUE
  /\ cache' = Nothing /\ last' = Nothing /\ loop' = "exited"
  /\ stream' = [s \in Streams |-> NoStream]
  /\ invited' = FALSE /\ kubelet' = NoView
  /\ UNCHANGED <<outside, nodeAnno>>

(* Kubelet answers a registration by opening a stream.                      *)
OpenStream(s) ==
  /\ invited
  /\ life \in {"launch", "running"}
  /\ stream[s].pc = "free"
  /\ stream' = [stream EXCEPT ![s] = [NoStream EXCEPT !.pc = "read", !.live = TRUE]]
  /\ invited' = FALSE
  /\ UNCHANGED <<outside, main, cache, last, loop, kubelet, nodeAnno>>

-----------------------------------------------------------------------------
(* Start, step by step; a step that fails ends the process (ProcessDies).   *)

PrepareAndMakeStopCh ==
  /\ life = "prepare"
  /\ life' = "update" /\ gen' = gen + 1 /\ open' = TRUE
  /\ UNCHANGED <<outside, restarts, pending, cache, last, loop, stream, peers, nodeAnno>>

StartUpdatesDevices ==
  /\ life = "update"
  /\ life' = "serve" /\ cache' = Visible(hw) /\ last' = Visible(hw)
  /\ UNCHANGED <<outside, restarts, pending, gen, open, loop, stream, peers, nodeAnno>>

EnableShareAndServe ==
  /\ life = "serve"
  /\ life' = "register"
  /\ UNCHANGED <<outside, restarts, pending, gen, open, cache, last, loop, stream, peers, nodeAnno>>

RegisterKubelet ==
  /\ life = "register"
  /\ life' = "launch" /\ invited' = TRUE
  /\ UNCHANGED <<outside, restarts, pending, gen, open, cache, last, loop, stream, kubelet, nodeAnno>>

LaunchLoop ==
  /\ life = "launch"
  /\ life' = "running" /\ loop' = "wait"
  /\ UNCHANGED <<outside, restarts, pending, gen, open, cache, last, stream, peers, nodeAnno>>

-----------------------------------------------------------------------------
(* Stop, then Start again.                                                  *)

(* Mutant: Stop leaves the channel open.                                    *)
StopChStaysOpen ==
  /\ life = "running" /\ pending > 0
  /\ life' = "grpcStop" /\ pending' = pending - 1
  /\ UNCHANGED <<outside, restarts, gen, open, cache, last, loop, stream, peers, nodeAnno>>

CloseStopCh ==
  /\ life = "running" /\ pending > 0
  /\ life' = "grpcStop" /\ pending' = pending - 1 /\ open' = FALSE
  /\ UNCHANGED <<outside, restarts, gen, cache, last, loop, stream, peers, nodeAnno>>

(* grpcServer.Stop closes the connections and leaves the handlers running.  *)
StopGrpcServer ==
  /\ life = "grpcStop"
  /\ life' = "wgWait"
  /\ stream' = Disconnected /\ kubelet' = NoView /\ invited' = FALSE
  /\ UNCHANGED <<outside, restarts, pending, gen, open, cache, last, loop, nodeAnno>>

(* Mutant: Stop does not wait for its goroutines.                           *)
StopReturnsAtOnce ==
  /\ life = "wgWait"
  /\ life' = "prepare"
  /\ UNCHANGED <<outside, restarts, pending, gen, open, cache, last, loop, stream, peers, nodeAnno>>

(* wg.Wait: the serving goroutine ends with grpcServer.Stop, the loop when  *)
(* it sees the channel closed; the handlers are not in the WaitGroup.      *)
StopReturns ==
  /\ life = "wgWait" /\ loop = "exited"
  /\ life' = "prepare"
  /\ UNCHANGED <<outside, restarts, pending, gen, open, cache, last, loop, stream, peers, nodeAnno>>

-----------------------------------------------------------------------------
(* watchAndRegister.  An error of UpdateDevice leaves everything as it is:  *)
(* the loop waits again.                                                    *)

Handled(pc) == loop' = pc /\ UNCHANGED <<outside, main, stream, peers>>

(* Mutant: the cache is refreshed only while some device is unhealthy.      *)
RefreshUnhealthyOnly ==
  /\ loop = "wait"
  /\ cache' = IF \E d \in DOMAIN Visible(hw) : ~hw[d] THEN Visible(hw) ELSE cache
  /\ Handled(IF cache' # last THEN "publish" ELSE "report")
  /\ UNCHANGED <<last, nodeAnno>>

RefreshDevices ==
  /\ loop = "wait"
  /\ cache' = Visible(hw)
  /\ Handled(IF cache' # last THEN "publish" ELSE "report")
  /\ UNCHANGED <<last, nodeAnno>>

(* A handler that waits in its select takes the update.                     *)
Publish(s) ==
  /\ loop = "publish" /\ stream[s].pc = "select"
  /\ stream' = [stream EXCEPT ![s].pc = "read"]
  /\ loop' = "report" /\ last' = cache
  /\ UNCHANGED <<outside, main, cache, peers, nodeAnno>>

(* Mutant: an update nobody took counts as published.                       *)
PublishTimeoutForgets ==
  /\ loop = "publish"
  /\ \A s \in Streams : stream[s].pc # "select"
  /\ Handled("report") /\ last' = cache
  /\ UNCHANGED <<cache, nodeAnno>>

(* Nobody took it within healthUpdateSendTimeout.                           *)
PublishTimesOut ==
  /\ loop = "publish"
  /\ \A s \in Streams : stream[s].pc # "select"
  /\ Handled("report")
  /\ UNCHANGED <<cache, last, nodeAnno>>

(* Mutant: the node annotation lists the virtual devices.                   *)
RegisterVirtualDevices ==
  /\ loop = "report"
  /\ nodeAnno' = ApiDevices(cache)
  /\ Handled("wait")
  /\ UNCHANGED <<cache, last>>

(* registerHAMi writes the list, or fails before or after it is written.    *)
RegisterHAMi ==
  /\ loop = "report"
  /\ nodeAnno' = cache
  /\ Handled("wait")
  /\ UNCHANGED <<cache, last>>

RegisterHAMiFails ==
  /\ loop = "report"
  /\ Handled("wait")
  /\ UNCHANGED <<cache, last, nodeAnno>>

(* Both selects of the loop see the channel closed; a select with several   *)
(* ready cases takes any of them.                                           *)
LoopStops ==
  /\ loop \in {"wait", "publish"} /\ Closed(gen)
  /\ Handled("exited")
  /\ UNCHANGED <<cache, last, nodeAnno>>

-----------------------------------------------------------------------------
(* ListAndWatch.                                                            *)

ReadDevices(s) ==
  /\ stream[s].pc = "read"
  /\ stream' = [stream EXCEPT ![s] = [@ EXCEPT !.pc = "send", !.buf = ApiDevices(cache)]]
  /\ UNCHANGED <<outside, main, cache, last, loop, peers, nodeAnno>>

(* The error of a Send to a closed stream is ignored; then the handler      *)
(* evaluates ps.stopCh for its next select, whichever channel that is now.  *)
Send(s) ==
  /\ stream[s].pc = "send"
  /\ kubelet' = IF stream[s].live THEN stream[s].buf ELSE kubelet
  /\ stream' = [stream EXCEPT ![s] =
                  [@ EXCEPT !.pc = "select", !.buf = NoView, !.gen = gen]]
  /\ UNCHANGED <<outside, main, cache, last, loop, invited, nodeAnno>>

HandlerReturns(s) ==
  /\ stream[s].pc = "select" /\ Closed(stream[s].gen)
  /\ kubelet' = IF stream[s].live THEN NoView ELSE kubelet
  /\ stream' = [stream EXCEPT ![s] = NoStream]
  /\ UNCHANGED <<outside, main, cache, last, loop, invited, nodeAnno>>

-----------------------------------------------------------------------------
MainStep ==
  \/ PrepareAndMakeStopCh \/ StartUpdatesDevices \/ EnableShareAndServe
  \/ RegisterKubelet \/ LaunchLoop
  \/ CloseStopCh \/ StopGrpcServer \/ StopReturns

LoopStep ==
  \/ RefreshDevices \/ (\E s \in Streams : Publish(s)) \/ PublishTimesOut
  \/ RegisterHAMi \/ RegisterHAMiFails \/ LoopStops

StreamStep(s) == ReadDevices(s) \/ Send(s) \/ HandlerReturns(s)

Next ==
  \/ HardwareChanges \/ KubeletRestarts \/ Sighup \/ ProcessDies
  \/ MainStep \/ LoopStep
  \/ \E s \in Streams : OpenStream(s) \/ StreamStep(s)

Spec == Init /\ [][Next]_vars

(* Every goroutine runs.  registerHAMi does not fail for ever, and a select *)
(* whose stop channel is closed does not prefer the timer for ever.         *)
Fairness ==
  /\ WF_vars(MainStep) /\ WF_vars(LoopStep)
  /\ SF_vars(RegisterHAMi) /\ SF_vars(LoopStops)
  /\ \A s \in Streams : WF_vars(StreamStep(s)) /\ WF_vars(OpenStream(s))

LiveSpec == Spec /\ Fairness

-----------------------------------------------------------------------------
(* Every variable has its type.                                             *)
TypeOK ==
  /\ hw \in Views /\ hwChanges \in 0..MaxHwChanges
  /\ life \in Lives /\ restarts \in 0..MaxRestarts /\ pending \in 0..MaxRestarts
  /\ gen \in 0..(MaxRestarts + 1) /\ open \in BOOLEAN
  /\ cache \in Views /\ last \in Views
  /\ loop \in LoopPCs
  /\ stream \in [Streams -> StreamStates]
  /\ invited \in BOOLEAN /\ kubelet \in ApiViews \cup {NoView}
  /\ nodeAnno \in Views \cup {NoView}

(* The device cache and lastPublishedDevices are not locked against two    *)
(* writers (the cache's mutex only orders single accesses): while main is  *)
(* between Stop and the end of Start, no loop of the previous life runs    *)
(* (server.go, wg.Wait in Stop).                                           *)
OneWriter ==
  life \in {"prepare", "update", "serve", "register", "launch"} => loop = "exited"

(* lastPublishedDevices is, as its comment says, what kubelet was handed    *)
(* most recently: when the loop has nothing to publish and the handler is  *)
(* at rest, kubelet goes by the device list in the cache.                  *)
SilenceMeansUpToDate ==
  \A s \in Streams :
     stream[s].live /\ stream[s].pc = "select" /\ loop = "wait" /\ cache = last
       => kubelet = ApiDevices(cache)

(* A kubelet that came back while Start or Stop ran is not forgotten: once  *)
(* the plugin has registered, kubelet is about to call it, listens to a    *)
(* handler, or the next restart is asked for already (main.go, the events  *)
(* of the watcher; ListAndWatch, the channel its select waits on).         *)
KubeletNotForgotten ==
  life \in {"launch", "running"} =>
    invited \/ pending > 0 \/ \E s \in Streams : stream[s].live

(* What a test says of Stop: it returns only after all goroutines of the   *)
(* plugin server have exited, so that Start finds no reader of the old     *)
(* channels.                                                               *)
StopWaitsForAllGoroutines ==
  life = "prepare" => /\ loop = "exited"
                      /\ \A s \in Streams : stream[s].pc = "free"

(* Once hardware and kubelet are quiet, the scheduler's view of the node is *)
(* the hardware, with or without a consumer of the updates.                *)
NodeAnnotationConverges == <>[](nodeAnno = Visible(hw))

(* ... and so is kubelet's.                                                 *)
KubeletConverges == <>[](kubelet = ApiDevices(Visible(hw)))

(* Stop comes to its end, wherever the loop and the handlers are.           *)
StopTerminates == life = "grpcStop" ~> life = "prepare"

(* However its restarts fall into Start and Stop, kubelet ends up with a    *)
(* device list of this plugin.                                             *)
KubeletKeepsResource == <>[](kubelet # NoView)
=============================================================================
