---------------------------- MODULE StartupProofs ----------------------------
(***************************************************************************)
(* What Startup keeps for every number of files, chips, cards and vNPUs,   *)
(* and for every limit on the crashes of the serving goroutine.            *)
(***************************************************************************)
EXTENDS Startup, TLAPS

Prepared(f) == host[f] = image \/ (f \in busy /\ host[f] \in Images)

(* Goroutines live between Serve and the end of Stop, and passes while     *)
(* those who make them are at it.                                          *)
Generations ==
  /\ main \notin Up \cup Stopping => server = "none"
  /\ main \notin {"running"} \cup Stopping => ticker = "none"
  /\ pass["main"] # NoPass => main = "pass"
  /\ pass["ticker"] # NoPass => ticker = "pass"

(* The list of a pass belongs to a card, one that is not ignored.           *)
Listings ==
  \A w \in Passers :
    /\ pass[w].todo # {} => pass[w].card \in DOMAIN Cards
    /\ \A v \in pass[w].todo : loaded => CardOf[v] \notin Filtered

(* The files that Start has gone through are prepared, but for the one     *)
(* that it is copying.                                                     *)
Preparing ==
  /\ main \in {"prepare", "copy"} => left \subseteq Files
  /\ main = "prepare" => \A f \in Files \ left : Prepared(f)
  /\ main = "copy" =>
       \A f, g \in Files \ left : Prepared(f) \/ Prepared(g) \/ f = g
  /\ main \in {"update", "share", "serve"} \cup Up \cup Stopping =>
       \A f \in Files : Prepared(f)

Sharing ==
  HamiVnpuCore =>
    /\ main = "share" => cached \ left \subseteq shared
    /\ main \in {"serve"} \cup Up \cup Stopping => cached \subseteq shared

(* The counter exceeds the crashes in a row by one at most: the crash that *)
(* began the row came after an hour, and counts.                           *)
Counting ==
  /\ quick <= restarts /\ restarts <= quick + 1
  /\ main = "quit" => quick >= RestartLimit

StartInv ==
  StartupTypeOK /\ Generations /\ Listings /\ Preparing /\ Sharing /\ Counting

-----------------------------------------------------------------------------
USE DEF Passers, NoPass, Images, Contents, Starting, Up, Stopping, Dead, MainPCs,
        ServerPCs, TickerPCs, HamiVnpuCore, Filtered

(* The inductive invariant holds when the first process begins.             *)
LEMMA StartInit == StartupInit => StartInv
  <1> SUFFICES ASSUME StartupInit PROVE StartInv
    OBVIOUS
  <1> USE DEF StartupInit, CleanupInit
  <1>1. Len(Cards) \in Nat
    BY CleanupAssumption
  <1>2. NoPass \in Passes
    BY <1>1 DEF Passes
  <1>3. StartupTypeOK
    <2>1. pass \in [Passers -> Passes]
      BY <1>2
    <2>2. vnpu \in [VNpus -> {"none", "idle", "used"}]
      OBVIOUS
    <2>3. host \in [Files -> Contents]
      OBVIOUS
    <2>4. restarts \in 0..RestartLimit + 1 /\ quick \in 0..RestartLimit + 1
          /\ crashes \in 0..MaxCrashes
      BY StartupAssumption
    <2>5. /\ loaded \in BOOLEAN /\ main \in MainPCs /\ left \in SUBSET (Files \cup Chips)
          /\ image \in Images /\ server \in ServerPCs /\ ticker \in TickerPCs
      OBVIOUS
    <2>6. busy \in SUBSET Files /\ cached \in SUBSET Chips /\ shared \in SUBSET Chips
      OBVIOUS
    <2> QED
      BY <2>1, <2>2, <2>3, <2>4, <2>5, <2>6 DEF StartupTypeOK
  <1>4. Generations /\ Listings /\ Counting
    BY DEF Generations, Listings, Counting
  <1>5. Preparing /\ Sharing
    BY DEF Preparing, Sharing
  <1> QED
    BY <1>3, <1>4, <1>5 DEF StartInv

(* However the process ends, what it leaves on the host keeps the invariant. *)
LEMMA DieInv ==
  ASSUME StartInv, NEW how \in Dead, Die(how),
         UNCHANGED <<restarts, quick>> \/ (restarts' = 0 /\ quick' = 0),
         how = "quit" => UNCHANGED <<restarts, quick>> /\ restarts > RestartLimit,
         crashes' \in 0..MaxCrashes
  PROVE  StartInv'
BY StartupAssumption, CleanupAssumption
   DEF Die, StartInv, StartupTypeOK, Passes, Generations, Listings,
       Preparing, Sharing, Counting

-----------------------------------------------------------------------------
USE DEF StartInv, StartupTypeOK, Generations, Listings, Preparing, Sharing, Counting,
        Prepared, cleanupVars, hostVars, serverVars

(* Every step of main and of Start keeps the inductive invariant.           *)
LEMMA MainStepInv ==
  ASSUME StartInv, StartStep
  PROVE  StartInv'
  <1>1. CASE LoadNodeConfig
    BY <1>1 DEF LoadNodeConfig
  <1>2. CASE MainCleanupBegins
    <2>1. Len(Cards) \in Nat
      BY CleanupAssumption
    <2>2. pass' \in [Passers -> Passes]
      BY <1>2, <2>1 DEF MainCleanupBegins, BeginPass, Passes
    <2> QED
      BY <1>2, <2>2 DEF MainCleanupBegins, BeginPass
  <1>3. CASE MainCleanupEnds
    BY <1>3, CleanupAssumption DEF MainCleanupEnds, EndPass, Passes
  <1>4. ASSUME NEW f \in Files, FileUpToDate(f) PROVE StartInv'
    BY <1>4 DEF FileUpToDate, UpToDate
  <1>5. ASSUME NEW f \in Files, FileBusy(f) PROVE StartInv'
    BY <1>5 DEF FileBusy, UpToDate
  <1>6. ASSUME NEW f \in Files, CopyBegins(f) PROVE StartInv'
    BY <1>6 DEF CopyBegins, UpToDate
  <1>7. ASSUME NEW f \in Files, CopyEnds(f) PROVE StartInv'
    BY <1>7 DEF CopyEnds
  <1>8. CASE HostPrepared
    BY <1>8 DEF HostPrepared
  <1>9. CASE UpdateDevice
    BY <1>9, StartupAssumption DEF UpdateDevice
  <1>10. CASE ChipsShared
    BY <1>10 DEF ChipsShared
  <1>11. CASE Serve
    BY <1>11, StartupAssumption DEF Serve
  <1>12. CASE Dialed
    BY <1>12 DEF Dialed
  <1>13. CASE Registered
    BY <1>13 DEF Registered
  <1>14. ASSUME NEW c \in Chips, ShareChip(c) PROVE StartInv'
    BY <1>14 DEF ShareChip
  <1>15. CASE LoadFails \/ PrepareFails \/ UpdateOrShareFails \/ ServeOrRegisterFails
    BY <1>15, DieInv DEF LoadFails, PrepareFails, UpdateOrShareFails,
                         ServeOrRegisterFails, StartFails
  <1> QED
    BY <1>1, <1>2, <1>3, <1>4, <1>5, <1>6, <1>7, <1>8, <1>9, <1>10, <1>11, <1>12,
       <1>13, <1>14, <1>15 DEF StartStep

(* Every step of Stop and of the serving goroutine keeps it.                *)
LEMMA GoroutineStepInv ==
  ASSUME StartInv,
         CloseStopCh \/ StopStep \/ ServerStep \/ ServeCrashes \/ Crash \/ NewProcess
  PROVE  StartInv'
  <1>1. CASE CloseStopCh
    BY <1>1 DEF CloseStopCh
  <1>7. CASE StopGrpcServer
    BY <1>7 DEF StopGrpcServer
  <1>2. CASE StopReturns
    BY <1>2 DEF StopReturns, GoroutinesDone
  <1>3. CASE ServerStep
    <2>1. CASE ServeLoop
      BY <2>1, StartupAssumption DEF ServeLoop, GoroutineEnds, StopChClosed
    <2>2. CASE ServeBegins
      BY <2>2 DEF ServeBegins, GrpcStopped
    <2>3. CASE ServeReturns
      BY <2>3, StartupAssumption DEF ServeReturns, GoroutineEnds, GrpcStopped
    <2> QED
      BY <1>3, <2>1, <2>2, <2>3 DEF ServerStep
  <1>4. CASE ServeCrashes
    <2>1. CASE TooOften
      <3>1. Die("quit") /\ UNCHANGED <<restarts, quick, crashes>> /\ restarts > RestartLimit
        BY <1>4, <2>1 DEF ServeCrashes, TooOften
      <3> QED
        BY <3>1, DieInv
    <2>2. CASE ~TooOften
      <3>1. /\ server \in {"serving", "call"} /\ server' = "loop"
            /\ UNCHANGED <<cleanupVars, main, left, hostVars, cached, ticker, crashes>>
        BY <1>4, <2>2 DEF ServeCrashes
      <3>2. /\ restarts' \in 0..RestartLimit + 1 /\ quick' \in 0..RestartLimit + 1
            /\ quick' <= restarts' /\ restarts' <= quick' + 1
        BY <1>4, <2>2, StartupAssumption DEF ServeCrashes, TooOften, Count
      <3>3. main # "quit"
        BY <3>1
      <3> QED
        BY <3>1, <3>2, <3>3
    <2> QED
      BY <2>1, <2>2
  <1>5. CASE Crash
    <2>1. Die("failed") /\ restarts' = 0 /\ quick' = 0 /\ crashes' \in 0..MaxCrashes
      BY <1>5, StartupAssumption DEF Crash
    <2> QED
      BY <2>1, DieInv
  <1>6. CASE NewProcess
    BY <1>6, StartupAssumption DEF NewProcess
  <1> QED
    BY <1>1, <1>2, <1>3, <1>4, <1>5, <1>6, <1>7 DEF StopStep

(* Every step of the periodic cleanup's goroutine keeps it.                 *)
LEMMA TickerStepInv ==
  ASSUME StartInv, Tick \/ TickEnds \/ TickerStops
  PROVE  StartInv'
  <1>1. CASE Tick
    <2>1. Len(Cards) \in Nat
      BY CleanupAssumption
    <2>2. pass' \in [Passers -> Passes]
      BY <1>1, <2>1 DEF Tick, BeginPass, Passes
    <2> QED
      BY <1>1, <2>2 DEF Tick, BeginPass
  <1>2. CASE TickEnds
    BY <1>2, CleanupAssumption DEF TickEnds, EndPass, Passes
  <1>3. CASE TickerStops
    BY <1>3 DEF TickerStops, SeesStop, StopChClosed
  <1> QED
    BY <1>1, <1>2, <1>3

(* Every step of a cleanup pass keeps it.                                   *)
LEMMA CleanupStepInv ==
  ASSUME StartInv, NEW w \in Passers, CleanupStep(w)
  PROVE  StartInv'
  <1>0. loaded' = loaded
    BY DEF CleanupStep, PassStep, QueryFails, SkipIgnored, ListIdle, Destroy, DestroyFails
  <1>1. /\ UNCHANGED <<loaded, main, left, image, host, busy, shared, cached>>
        /\ UNCHANGED <<server, restarts, quick, ticker, crashes>>
        /\ PassStep(w)
    BY <1>0 DEF CleanupStep
  <1>2. Len(Cards) \in Nat /\ DOMAIN Cards = 1..Len(Cards)
    BY CleanupAssumption
  <1>3. /\ vnpu' \in [VNpus -> {"none", "idle", "used"}]
        /\ pass[w].card \in DOMAIN Cards
    BY <1>1 DEF PassStep, QueryFails, SkipIgnored, ListIdle, Destroy, DestroyFails, Asking
  <1>4. PICK todo \in SUBSET VNpus :
          GoOn(w, todo) /\ \A v \in todo : loaded => CardOf[v] \notin Filtered
    <2>1. CASE QueryFails(w) \/ SkipIgnored(w)
      BY <2>1 DEF QueryFails, SkipIgnored
    <2>2. CASE ListIdle(w)
      BY <2>2 DEF ListIdle, Ignored
    <2>3. CASE \E v \in VNpus : Destroy(w, v) \/ DestroyFails(w, v)
      BY <2>3 DEF Destroy, DestroyFails, Passes
    <2> QED
      BY <1>1, <2>1, <2>2, <2>3 DEF PassStep
  <1>5. pass' = [pass EXCEPT ![w] = pass'[w]] /\ pass'[w] \in Passes
    <2>1. pass \in [Passers -> Passes] /\ pass[w] \in Passes
      OBVIOUS
    <2>2. CASE todo = {}
      <3>1. pass' = [pass EXCEPT ![w] = [card |-> pass[w].card + 1, todo |-> {}]]
        BY <1>4, <2>2 DEF GoOn
      <3>2. pass[w].card + 1 \in 0..Len(Cards) + 1
        BY <1>2, <1>3
      <3>3. [card |-> pass[w].card + 1, todo |-> {}] \in Passes
        BY <3>2 DEF Passes
      <3> QED
        BY <2>1, <3>1, <3>3
    <2>3. CASE todo # {}
      <3>1. pass' = [pass EXCEPT ![w] = [pass[w] EXCEPT !.todo = todo]]
        BY <1>4, <2>3 DEF GoOn
      <3> QED
        BY <2>1, <3>1 DEF Passes
    <2> QED
      BY <2>2, <2>3
  <1>6. StartupTypeOK'
    BY <1>1, <1>3, <1>5
  <1>7. pass[w] # NoPass
    BY <1>2, <1>3
  <1>8. Generations'
    BY <1>1, <1>5, <1>7
  <1>9. Listings'
    BY <1>1, <1>2, <1>3, <1>4, <1>5 DEF GoOn
  <1>10. Preparing' /\ Sharing' /\ Counting'
    BY <1>1
  <1> QED
    BY <1>6, <1>8, <1>9, <1>10

(* Every action keeps the inductive invariant.                              *)
LEMMA StartStepInv == StartInv /\ [StartupNext]_startVars => StartInv'
  <1> SUFFICES ASSUME StartInv, [StartupNext]_startVars PROVE StartInv'
    OBVIOUS
  <1>1. ASSUME NEW v \in VNpus, RuntimeStep(v),
               UNCHANGED <<main, left, hostVars, cached, serverVars, ticker, crashes>>
        PROVE  StartInv'
    BY <1>1 DEF RuntimeStep
  <1>2. CASE UNCHANGED startVars
    BY <1>2 DEF startVars
  <1> QED
    BY <1>1, <1>2, MainStepInv, GoroutineStepInv, TickerStepInv, CleanupStepInv
       DEF StartupNext

-----------------------------------------------------------------------------
(* Nothing but a pass and the container runtime touches a vNPU.             *)
LEMMA VnpuKept ==
  ASSUME \/ StartStep \/ CloseStopCh \/ StopStep \/ ServerStep \/ ServeCrashes
         \/ Tick \/ TickEnds \/ TickerStops \/ Crash \/ NewProcess
  PROVE  vnpu' = vnpu
  <1> USE DEF Die, StartFails
  <1>1. CASE LoadFails \/ PrepareFails \/ UpdateOrShareFails \/ ServeOrRegisterFails
    BY <1>1 DEF LoadFails, PrepareFails, UpdateOrShareFails, ServeOrRegisterFails
  <1>2. CASE LoadNodeConfig \/ MainCleanupBegins \/ MainCleanupEnds
    BY <1>2 DEF LoadNodeConfig, MainCleanupBegins, MainCleanupEnds, BeginPass, EndPass
  <1>3. CASE \E f \in Files : FileUpToDate(f) \/ FileBusy(f) \/ CopyBegins(f) \/ CopyEnds(f)
    BY <1>3 DEF FileUpToDate, FileBusy, CopyBegins, CopyEnds
  <1>4. CASE HostPrepared \/ UpdateDevice \/ ChipsShared \/ \E c \in Chips : ShareChip(c)
    BY <1>4 DEF HostPrepared, UpdateDevice, ChipsShared, ShareChip
  <1>5. CASE Serve \/ Dialed \/ Registered
    BY <1>5 DEF Serve, Dialed, Registered
  <1>6. CASE CloseStopCh \/ StopStep
    BY <1>6 DEF CloseStopCh, StopStep, StopGrpcServer, StopReturns
  <1>7. CASE ServerStep \/ ServeCrashes
    BY <1>7 DEF ServerStep, ServeLoop, ServeBegins, ServeReturns, ServeCrashes
  <1>8. CASE Tick \/ TickEnds \/ TickerStops
    BY <1>8 DEF Tick, TickEnds, TickerStops, BeginPass, EndPass
  <1>9. CASE Crash \/ NewProcess
    BY <1>9 DEF Crash, NewProcess
  <1> QED
    BY <1>1, <1>2, <1>3, <1>4, <1>5, <1>6, <1>7, <1>8, <1>9 DEF StartStep

(* A pass that knows the filter destroys what its list names, on no        *)
(* filtered card.                                                          *)
LEMMA PassSpares ==
  ASSUME StartInv, NEW w \in Passers, PassStep(w), loaded,
         NEW v \in VNpus, vnpu[v] = "idle", vnpu'[v] = "none"
  PROVE  CardOf[v] \notin Filtered
  <1>1. CASE QueryFails(w) \/ SkipIgnored(w) \/ ListIdle(w)
    BY <1>1 DEF QueryFails, SkipIgnored, ListIdle
  <1>2. ASSUME NEW u \in VNpus, Destroy(w, u) \/ DestroyFails(w, u)
        PROVE  CardOf[v] \notin Filtered
    BY <1>2 DEF Destroy, DestroyFails
  <1> QED
    BY <1>1, <1>2 DEF PassStep

(* No action takes an idle vNPU from a card that is filtered.               *)
LEMMA NextSpares ==
  ASSUME StartInv, [StartupNext]_startVars, loaded,
         NEW v \in VNpus, vnpu[v] = "idle", vnpu'[v] = "none"
  PROVE  CardOf[v] \notin Filtered
  <1>1. CASE UNCHANGED startVars
    BY <1>1 DEF startVars
  <1>2. CASE \E u \in VNpus : RuntimeStep(u)
    BY <1>2 DEF RuntimeStep
  <1>3. CASE \E w \in Passers : CleanupStep(w)
    BY <1>3, PassSpares DEF CleanupStep
  <1> QED
    BY <1>1, <1>2, <1>3, VnpuKept DEF StartupNext

-----------------------------------------------------------------------------
HIDE DEF StartInv, StartupTypeOK

(* The inductive invariant holds in every reachable state: the goroutines of *)
(* the server, the passes, the files on the host, the shared chips and the  *)
(* crash counter agree with where main is, in this process and the next.    *)
THEOREM StartInvariant == StartupSpec => []StartInv
  BY StartInit, StartStepInv, PTL DEF StartupSpec

(* StartupTypeOK: no error, restart or crash takes a variable out of its    *)
(* type, the counter of the serving goroutine included (server.go, serve).  *)
THEOREM StartupTyped == StartupSpec => []StartupTypeOK
  <1>1. StartInv => StartupTypeOK
    BY DEF StartInv, StartupTypeOK
  <1> QED
    BY <1>1, StartInvariant, PTL

(* ServesPrepared: the server is up only on a host whose files are whole and *)
(* whose chips are shared (server.go, Start), whatever earlier processes left. *)
THEOREM ServingPrepared == StartupSpec => []ServesPrepared
  <1>1. StartInv => ServesPrepared
    BY DEF StartInv, ServesPrepared
  <1> QED
    BY <1>1, StartInvariant, PTL

(* OneGeneration: when Stop has returned no goroutine of the stopped server *)
(* is left, and main and ticker never make a pass at once (server.go, Stop). *)
THEOREM OneGenerationAtATime == StartupSpec => []OneGeneration
  <1>1. StartInv => OneGeneration
    BY DEF StartInv, OneGeneration
  <1> QED
    BY <1>1, StartInvariant, PTL

(* QuitsOnlyAfterQuickCrashes: for any limit, the process is ended by the   *)
(* crash counter only after that many quick crashes (server.go, serve).     *)
THEOREM QuitsRightly == StartupSpec => []QuitsOnlyAfterQuickCrashes
  <1>1. StartInv => QuitsOnlyAfterQuickCrashes
    BY DEF StartInv, QuitsOnlyAfterQuickCrashes
  <1> QED
    BY <1>1, StartInvariant, PTL

(* IgnoredCardsUntouched: for any cards and filters, a pass destroys no vNPU *)
(* of a card the node's configuration excludes (manager.go).                *)
THEOREM IgnoredCardsSpared == StartupSpec => IgnoredCardsUntouched
  <1>1. StartInv /\ [StartupNext]_startVars =>
          (loaded => \A v \in VNpus : vnpu[v] = "idle" /\ vnpu'[v] = "none" =>
                       CardOf[v] \notin IgnoredUUIDs \cup IgnoredIndexes)
    BY NextSpares
  <1> QED
    BY <1>1, StartInvariant, PTL DEF StartupSpec, IgnoredCardsUntouched
=============================================================================
