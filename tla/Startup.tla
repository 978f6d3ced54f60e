------------------------------- MODULE Startup -------------------------------
(***************************************************************************)
(* The life of the plugin process: main loads the configurations, cleans   *)
(* up idle vNPUs and starts the server, which prepares the host, switches  *)
(* device sharing on and serves; signals stop it and start it again.  An   *)
(* error of Start ends the process, and kubelet runs another one on what   *)
(* the first has left on the host.  Beside main run the goroutine that     *)
(* serves gRPC and the ticker of the periodic cleanup.                     *)
(***************************************************************************)
EXTENDS VnpuCleanup

CONSTANTS
  Files,                 \* libvnpu.so and ld.so.preload
  Chips, ChipSets,       \* ChipSets: what UpdateDevice may find
  NodeCore, GlobalCore,  \* hamiVnpuCore of the node's and of the global configuration
  Periodic,              \* enablePeriodicIdleVNPUCleanup
  RestartLimit,          \* crashes of the serving goroutine: 5 in serve()
  MaxCrashes             \* bound on the crashes of the process

ASSUME StartupAssumption ==
  /\ ChipSets \subseteq SUBSET Chips
  /\ NodeCore \in BOOLEAN /\ GlobalCore \in BOOLEAN /\ Periodic \in BOOLEAN
  /\ RestartLimit \in Nat \ {0} /\ MaxCrashes \in Nat

VARIABLES
  main,      \* where main() is
  left,      \* the files, then the chips, that Start has yet to go through
  image,     \* the version of the running image, with its assets
  host,      \* host[f]: the copy of f on the host
  busy,      \* the files this Start found in use and left alone
  cached,    \* the chips this Start found
  shared,    \* the chips with device-share on
  server,    \* the goroutine that serves
  restarts,  \* its restartCount
  quick,     \* history: its crashes in a row that came within an hour
  ticker,    \* startPeriodicCheckIdleVNPUs
  crashes

hostVars   == <<image, host, busy, shared>>
serverVars == <<server, restarts, quick>>
startVars  == <<cleanupVars, main, left, hostVars, cached, serverVars, ticker, crashes>>

Images == {"old", "new"}
Contents == Images \cup {"absent", "torn"}
Starting == {"cleanup", "pass", "prepare", "copy", "update", "share", "serve"}
Up == {"dial", "register", "running"}
Stopping == {"stop", "wait"}
Dead == {"failed", "quit"}
MainPCs == {"load"} \cup Starting \cup Up \cup Stopping \cup Dead
ServerPCs == {"none", "loop", "call", "serving"}
TickerPCs == {"none", "select", "pass"}

(* IsHamiVnpuCore.                                                          *)
HamiVnpuCore == IF loaded THEN NodeCore ELSE GlobalCore

StartupInit ==
  /\ CleanupInit
  /\ main = "load" /\ loaded = FALSE /\ left = {}
  /\ image = "old" /\ host = [f \in Files |-> "absent"] /\ busy = {}
  /\ cached = {} /\ shared = {}
  /\ server = "none" /\ restarts = 0 /\ quick = 0
  /\ ticker = "none" /\ crashes = 0

-----------------------------------------------------------------------------
(* The process and its main function.                                       *)

(* The process ends, with all that is in memory.                            *)
Die(how) ==
  /\ main' = how
  /\ pass' = [w \in Passers |-> NoPass]
  /\ left' = {} /\ cached' = {} /\ busy' = {}
  /\ server' = "none" /\ ticker' = "none"
  /\ UNCHANGED <<vnpu, loaded, image, host, shared>>

StartFails ==
  /\ Die("failed")
  /\ restarts' = 0 /\ quick' = 0
  /\ UNCHANGED crashes

Crash ==
  /\ main \notin Dead
  /\ crashes < MaxCrashes /\ crashes' = crashes + 1
  /\ Die("failed")
  /\ restarts' = 0 /\ quick' = 0

(* Kubelet starts the container again, perhaps from a newer image.          *)
NewProcess ==
  /\ main \in Dead
  /\ main' = "load"
  /\ image' \in {image, "new"}
  /\ restarts' = 0 /\ quick' = 0
  /\ UNCHANGED <<cleanupVars, left, host, busy, cached, shared, server, ticker, crashes>>

(* main: a node configuration that cannot be loaded is only logged; the    *)
(* errors of the driver, the configuration and the watchers are fatal.     *)
LoadNodeConfig ==
  /\ main = "load"
  /\ main' = "cleanup"
  /\ loaded' \in BOOLEAN
  /\ UNCHANGED <<vnpu, pass, left, hostVars, cached, serverVars, ticker, crashes>>

LoadFails == main = "load" /\ StartFails

MainCleanupBegins ==
  /\ main = "cleanup" /\ BeginPass("main")
  /\ main' = "pass"
  /\ UNCHANGED <<left, hostVars, cached, serverVars, ticker, crashes>>

MainCleanupEnds ==
  /\ main = "pass" /\ EndPass("main")
  /\ main' = "prepare"
  /\ left' = Files
  /\ busy' = {}
  /\ UNCHANGED <<image, host, cached, shared, serverVars, ticker, crashes>>

-----------------------------------------------------------------------------
(* prepareHostResources, file by file.                                      *)

(* Mutant: a file that exists is taken for up to date.                      *)
Exists(f) == host[f] # "absent"

(* The checksums of source and copy agree.                                  *)
UpToDate(f) == host[f] = image

FileUpToDate(f) ==
  /\ main = "prepare" /\ f \in left
  /\ UpToDate(f)
  /\ left' = left \ {f}
  /\ UNCHANGED <<cleanupVars, main, hostVars, cached, serverVars, ticker, crashes>>

(* "text file busy": in use, so it is a whole copy.                         *)
FileBusy(f) ==
  /\ main = "prepare" /\ f \in left
  /\ ~UpToDate(f) /\ host[f] \in Images
  /\ left' = left \ {f}
  /\ busy' = busy \cup {f}
  /\ UNCHANGED <<cleanupVars, main, image, host, cached, shared, serverVars, ticker,
                 crashes>>

(* os.Create empties the file; io.Copy and Chmod fill it.                   *)
CopyBegins(f) ==
  /\ main = "prepare" /\ f \in left
  /\ ~UpToDate(f)
  /\ main' = "copy" /\ left' = left \ {f}
  /\ host' = [host EXCEPT ![f] = "torn"]
  /\ UNCHANGED <<cleanupVars, image, busy, cached, shared, serverVars, ticker, crashes>>

CopyEnds(f) ==
  /\ main = "copy" /\ f \in Files \ left /\ host[f] = "torn"
  /\ main' = "prepare"
  /\ host' = [host EXCEPT ![f] = image]
  /\ UNCHANGED <<cleanupVars, left, image, busy, cached, shared, serverVars, ticker,
                 crashes>>

PrepareFails == main \in {"prepare", "copy"} /\ StartFails

HostPrepared ==
  /\ main = "prepare" /\ left = {}
  /\ main' = "update"
  /\ UNCHANGED <<cleanupVars, left, hostVars, cached, serverVars, ticker, crashes>>

-----------------------------------------------------------------------------
(* UpdateDevice, enableNodeDeviceShare, serve and registerKubelet.          *)

UpdateDevice ==
  /\ main = "update"
  /\ main' = "share"
  /\ cached' \in ChipSets
  /\ left' = IF HamiVnpuCore THEN cached' ELSE {}
  /\ UNCHANGED <<cleanupVars, hostVars, serverVars, ticker, crashes>>

ShareChip(c) ==
  /\ main = "share" /\ c \in left
  /\ left' = left \ {c}
  /\ shared' = shared \cup {c}
  /\ UNCHANGED <<cleanupVars, main, image, host, busy, cached, serverVars, ticker, crashes>>

UpdateOrShareFails ==
  \/ main = "update" /\ StartFails
  \/ main = "share" /\ left # {} /\ StartFails

ChipsShared ==
  /\ main = "share" /\ left = {}
  /\ main' = "serve"
  /\ UNCHANGED <<cleanupVars, left, hostVars, cached, serverVars, ticker, crashes>>

Serve ==
  /\ main = "serve"
  /\ main' = "dial"
  /\ server' = "loop" /\ restarts' = 0 /\ quick' = 0
  /\ UNCHANGED <<cleanupVars, left, hostVars, cached, ticker, crashes>>

(* The plugin's own socket answers.                                         *)
Dialed ==
  /\ main = "dial" /\ server = "serving"
  /\ main' = "register"
  /\ UNCHANGED <<cleanupVars, left, hostVars, cached, serverVars, ticker, crashes>>

Registered ==
  /\ main = "register"
  /\ main' = "running"
  /\ ticker' = IF Periodic THEN "select" ELSE "none"
  /\ UNCHANGED <<cleanupVars, left, hostVars, cached, serverVars, crashes>>

ServeOrRegisterFails == main \in {"serve", "dial", "register"} /\ StartFails

-----------------------------------------------------------------------------
(* Stop, on SIGHUP or a new kubelet socket, or on a signal to end.          *)

CloseStopCh ==
  /\ main = "running"
  /\ main' = "stop"
  /\ UNCHANGED <<cleanupVars, left, hostVars, cached, serverVars, ticker, crashes>>

StopGrpcServer ==
  /\ main = "stop"
  /\ main' = "wait"
  /\ UNCHANGED <<cleanupVars, left, hostVars, cached, serverVars, ticker, crashes>>

(* Mutant: Stop does not wait for the goroutines.                           *)
AnyGoroutines == TRUE

(* ps.wg.Wait()                                                             *)
GoroutinesDone == server = "none" /\ ticker = "none"

StopReturns ==
  /\ main = "wait" /\ GoroutinesDone
  /\ main' \in {"cleanup", "failed"}
  /\ UNCHANGED <<cleanupVars, left, hostVars, cached, serverVars, ticker, crashes>>

StopChClosed == main \in Stopping
GrpcStopped == main = "wait"

-----------------------------------------------------------------------------
(* The goroutine of serve().                                                *)

GoroutineEnds == server' = "none" /\ restarts' = 0 /\ quick' = 0

ServeLoop ==
  /\ server = "loop"
  /\ \/ StopChClosed /\ GoroutineEnds
     \/ ~StopChClosed /\ server' = "call" /\ UNCHANGED <<restarts, quick>>
  /\ UNCHANGED <<cleanupVars, main, left, hostVars, cached, ticker, crashes>>

ServeBegins ==
  /\ server = "call" /\ ~GrpcStopped
  /\ server' = "serving"
  /\ UNCHANGED <<cleanupVars, main, left, hostVars, cached, restarts, quick, ticker, crashes>>

ServeReturns ==
  /\ server = "serving" /\ GrpcStopped
  /\ GoroutineEnds
  /\ UNCHANGED <<cleanupVars, main, left, hostVars, cached, ticker, crashes>>

(* Mutant: the count is never reset.                                        *)
CountAll(long) == restarts + 1

(* It counts from 1 again after an hour without a crash.                    *)
Count(long) == IF long THEN 1 ELSE restarts + 1

(* Mutant: one crash too many is forgiven.                                  *)
TooOftenLate == restarts > RestartLimit + 1

TooOften == restarts > RestartLimit

(* Serve fails, as it does too when it is called on a stopped server.  The *)
(* count is looked at before it is reset.                                  *)
ServeCrashes ==
  /\ server = "serving" \/ server = "call"
  /\ \/ /\ TooOften
        /\ Die("quit")
        /\ UNCHANGED <<restarts, quick, crashes>>
     \/ /\ ~TooOften
        /\ server' = "loop"
        /\ \E long \in BOOLEAN :
             /\ restarts' = Count(long)
             /\ quick' = IF long THEN 0 ELSE quick + 1
        /\ UNCHANGED <<cleanupVars, main, left, hostVars, cached, ticker, crashes>>

-----------------------------------------------------------------------------
(* startPeriodicCheckIdleVNPUs.                                             *)

Tick ==
  /\ ticker = "select" /\ BeginPass("ticker")
  /\ ticker' = "pass"
  /\ UNCHANGED <<main, left, hostVars, cached, serverVars, crashes>>

TickEnds ==
  /\ ticker = "pass" /\ EndPass("ticker")
  /\ ticker' = "select"
  /\ UNCHANGED <<main, left, hostVars, cached, serverVars, crashes>>

(* Mutant: the stop channel is not selected on.                             *)
NeverStops == FALSE

SeesStop == StopChClosed

TickerStops ==
  /\ ticker = "select" /\ SeesStop
  /\ ticker' = "none"
  /\ UNCHANGED <<cleanupVars, main, left, hostVars, cached, serverVars, crashes>>

-----------------------------------------------------------------------------
StartStep ==
  \/ LoadNodeConfig \/ MainCleanupBegins \/ MainCleanupEnds
  \/ \E f \in Files : FileUpToDate(f) \/ FileBusy(f) \/ CopyBegins(f) \/ CopyEnds(f)
  \/ HostPrepared \/ UpdateDevice \/ ChipsShared \/ Serve \/ Dialed \/ Registered
  \/ \E c \in Chips : ShareChip(c)
  \/ LoadFails \/ PrepareFails \/ UpdateOrShareFails \/ ServeOrRegisterFails

StopStep == StopGrpcServer \/ StopReturns
ServerStep == ServeLoop \/ ServeBegins \/ ServeReturns

CleanupStep(w) ==
  /\ PassStep(w)
  /\ UNCHANGED <<main, left, hostVars, cached, serverVars, ticker, crashes>>

StartupNext ==
  \/ StartStep \/ CloseStopCh \/ StopStep \/ ServerStep \/ ServeCrashes
  \/ Tick \/ TickEnds \/ TickerStops
  \/ \E w \in Passers : CleanupStep(w)
  \/ Crash \/ NewProcess
  \/ \E v \in VNpus : /\ RuntimeStep(v)
                      /\ UNCHANGED <<main, left, hostVars, cached, serverVars, ticker,
                                     crashes>>

StartupSpec == StartupInit /\ [][StartupNext]_startVars

(* Goroutines run, kubelet restarts the container, the ticker ticks; select *)
(* does not pass over a closed channel for ever; now and then a process can *)
(* load its configuration, and the driver lists the cards, lists the vNPUs *)
(* of a card and destroys one.                                             *)
Filtered == IgnoredUUIDs \cup IgnoredIndexes

CardsListed(w) ==
  (MainCleanupBegins \/ Tick) /\ pass'[w] # pass[w] /\ pass'[w].card = 1
IdleListed(c) ==
  \E w \in Passers : ListIdle(w) /\ At(w) = c /\ CleanupStep(w)
Destroyed(v) ==
  \E w \in Passers : Destroy(w, v) /\ CleanupStep(w)

StartupFairness ==
  /\ WF_startVars(StartStep \/ StopStep \/ NewProcess)
  /\ WF_startVars(ServerStep \/ ServeCrashes)
  /\ WF_startVars(Tick \/ TickEnds)
  /\ \A w \in Passers : WF_startVars(CleanupStep(w)) /\ SF_startVars(CardsListed(w))
  /\ SF_startVars(TickerStops) /\ SF_startVars(LoadNodeConfig)
  /\ \A c \in CardSet \ Filtered : SF_startVars(IdleListed(c))
  /\ \A v \in VNpus : CardOf[v] \notin Filtered => SF_startVars(Destroyed(v))

LiveStartupSpec == StartupSpec /\ StartupFairness

-----------------------------------------------------------------------------
(* Every variable has its type.                                             *)
StartupTypeOK ==
  /\ vnpu \in [VNpus -> {"none", "idle", "used"}]
  /\ pass \in [Passers -> Passes]
  /\ loaded \in BOOLEAN
  /\ main \in MainPCs
  /\ left \in SUBSET (Files \cup Chips)
  /\ image \in Images
  /\ host \in [Files -> Contents]
  /\ busy \in SUBSET Files
  /\ cached \in SUBSET Chips /\ shared \in SUBSET Chips
  /\ server \in ServerPCs /\ ticker \in TickerPCs
  /\ restarts \in 0..RestartLimit + 1 /\ quick \in 0..RestartLimit + 1
  /\ crashes \in 0..MaxCrashes

(* The plugin serves only on a prepared host: whatever the processes before *)
(* left half done, both files are whole, of this image unless one was in    *)
(* use, and on a soft-slice node every chip that Start found is shared      *)
(* (server.go, Start; util.go, prepareHostResources; device_share.go).      *)
ServesPrepared ==
  main \in Up \cup Stopping =>
    /\ \A f \in Files : host[f] = image \/ (f \in busy /\ host[f] \in Images)
    /\ HamiVnpuCore => cached \subseteq shared

(* A stopped server has left nothing running when main goes on: the next   *)
(* Start makes a new stop channel, which a goroutine of the last one would *)
(* take for its own, and the two cleanup passes would meet (server.go,     *)
(* Stop).                                                                  *)
OneGeneration ==
  /\ main \notin Up \cup Stopping => server = "none" /\ ticker = "none"
  /\ pass["main"] = NoPass \/ pass["ticker"] = NoPass

(* The process gives up serving only after RestartLimit crashes that each   *)
(* came within an hour of the one before; how long the server had run before    *)
(* the last crash does not count (server.go, serve).                       *)
QuitsOnlyAfterQuickCrashes == main = "quit" => quick >= RestartLimit

(* No pass of a process that has its node's configuration takes a vNPU     *)
(* from a filtered card (manager.go, shouldIgnoreDevice).                  *)
IgnoredCardsUntouched ==
  [][loaded => \A v \in VNpus :
       vnpu[v] = "idle" /\ vnpu'[v] = "none" =>
         CardOf[v] \notin Filtered]_startVars

(* With the periodic cleanup a vNPU left behind on a card that is not      *)
(* filtered does not stay: it is used again or destroyed, even where the   *)
(* server never gets to serve.                                             *)
LeftoversDestroyed ==
  \A v \in VNpus : CardOf[v] \notin Filtered =>
    (vnpu[v] = "idle" ~> vnpu[v] # "idle")

(* Stop comes to its end, or the process does, in whatever the serving     *)
(* goroutine and the ticker are engaged.                                   *)
StopEnds == main \in Stopping ~> main \notin Stopping
=============================================================================
