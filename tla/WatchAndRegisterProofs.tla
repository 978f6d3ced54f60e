----------------------- MODULE WatchAndRegisterProofs -----------------------
(***************************************************************************)
(* Proofs about WatchAndRegister, for every set of devices, every behaviour *)
(* of the hardware and every number of restarts.                           *)
(***************************************************************************)
EXTENDS WatchAndRegister, TLAPS

-----------------------------------------------------------------------------
(* Each life of the plugin was asked for: by the first start, a restart of  *)
(* the process, or a request taken from the queue.                         *)
Between == {"prepare", "grpcStop", "wgWait"}
LivesCounted ==
  /\ pending <= restarts
  /\ life \in Between => gen + pending <= restarts
  /\ gen + pending <= restarts + 1

(* Filtering a device list yields a device list.                            *)
LEMMA VisibleType ==
  ASSUME NEW v \in Views
  PROVE  Visible(v) \in Views
  <1>1. PICK S \in SUBSET Devices : v \in [S -> BOOLEAN]
    BY DEF Views
  <1>2. Visible(v) \in [S \ Ignored -> BOOLEAN]
    BY <1>1 DEF Visible
  <1>3. S \ Ignored \in SUBSET Devices
    BY <1>1
  <1> QED
    BY <1>2, <1>3 DEF Views

(* The empty device list is one.                                            *)
LEMMA NothingType == Nothing \in Views
  <1>1. Nothing \in [{} -> BOOLEAN]
    BY DEF Nothing
  <1> QED
    BY <1>1 DEF Views

(* The state of a handler that is not in use is well typed.                 *)
LEMMA NoStreamType == NoStream \in StreamStates
  BY BoundsAssumption DEF NoStream, StreamStates

(* Closing the connections keeps the handlers well typed.                   *)
LEMMA DisconnectedType ==
  ASSUME stream \in [Streams -> StreamStates]
  PROVE  Disconnected \in [Streams -> StreamStates]
  BY DEF Disconnected, StreamStates

(* The typing invariant holds initially.                                    *)
LEMMA TypingInit == Init => TypeOK /\ LivesCounted
  <1> SUFFICES ASSUME Init PROVE TypeOK /\ LivesCounted
    OBVIOUS
  <1>0. 0 \in 0..MaxRestarts /\ 0 \in 0..(MaxRestarts + 1) /\ 0 \in 0..MaxHwChanges
    BY BoundsAssumption
  <1>1. TypeOK
    BY <1>0, NothingType, NoStreamType, HwAssumption DEF Init, TypeOK, Lives, LoopPCs
  <1>2. LivesCounted
    BY DEF Init, LivesCounted
  <1> QED
    BY <1>1, <1>2

(* The typing invariant is kept by the main goroutine, the loop and the handlers. *)
LEMMA TypingStep == TypeOK /\ LivesCounted /\ [Next]_vars => TypeOK' /\ LivesCounted'
  <1> SUFFICES ASSUME TypeOK, LivesCounted, [Next]_vars PROVE TypeOK' /\ LivesCounted'
    OBVIOUS
  <1> USE BoundsAssumption DEF outside, main, peers
  <1>1. Visible(hw) \in Views /\ ApiDevices(cache) \in ApiViews
    BY VisibleType DEF TypeOK, ApiViews
  <1>2. Disconnected \in [Streams -> StreamStates]
    BY DisconnectedType DEF TypeOK
  <1>3. CASE HardwareChanges
    BY <1>3 DEF HardwareChanges, TypeOK, LivesCounted
  <1>4. CASE KubeletRestarts
    <2>1. /\ restarts' \in 0..MaxRestarts /\ pending' \in 0..MaxRestarts
          /\ LivesCounted'
      BY <1>4 DEF KubeletRestarts, TypeOK, LivesCounted, Between
    <2> QED
      BY <1>2, <1>4, <2>1 DEF KubeletRestarts, TypeOK
  <1>5. CASE Sighup
    BY <1>5 DEF Sighup, TypeOK, LivesCounted, Between
  <1>6. CASE ProcessDies
    <2>1. /\ restarts' \in 0..MaxRestarts /\ pending' \in 0..MaxRestarts
          /\ gen' \in 0..(MaxRestarts + 1)
          /\ LivesCounted'
      BY <1>6 DEF ProcessDies, TypeOK, LivesCounted, Between
    <2> QED
      BY <1>6, <2>1, NothingType, NoStreamType DEF ProcessDies, TypeOK, Lives, LoopPCs
  <1>7. CASE PrepareAndMakeStopCh
    BY <1>7 DEF PrepareAndMakeStopCh, TypeOK, LivesCounted, Between, Lives
  <1>8. CASE StartUpdatesDevices \/ EnableShareAndServe \/ RegisterKubelet \/ LaunchLoop
    BY <1>1, <1>8
    DEF StartUpdatesDevices, EnableShareAndServe, RegisterKubelet, LaunchLoop, TypeOK,
        LivesCounted, Between, Lives, LoopPCs
  <1>9. CASE CloseStopCh
    <2>1. pending' \in 0..MaxRestarts /\ LivesCounted'
      BY <1>9 DEF CloseStopCh, TypeOK, LivesCounted, Between
    <2> QED
      BY <1>9, <2>1 DEF CloseStopCh, TypeOK, Lives
  <1>10. CASE StopGrpcServer \/ StopReturns
    BY <1>2, <1>10 DEF StopGrpcServer, StopReturns, TypeOK, LivesCounted, Between, Lives
  <1>11. CASE RefreshDevices \/ PublishTimesOut \/ RegisterHAMi \/ RegisterHAMiFails \/ LoopStops
    BY <1>1, <1>11
    DEF RefreshDevices, PublishTimesOut, RegisterHAMi, RegisterHAMiFails, LoopStops, Handled,
        TypeOK, LivesCounted, LoopPCs
  <1>12. ASSUME NEW s \in Streams,
                OpenStream(s) \/ Publish(s) \/ ReadDevices(s) \/ Send(s) \/ HandlerReturns(s)
         PROVE  TypeOK' /\ LivesCounted'
    <2>1. stream' \in [Streams -> StreamStates]
      <3>1. CASE OpenStream(s)
        <4> DEFINE r == [NoStream EXCEPT !.pc = "read", !.live = TRUE]
        <4>1. r \in StreamStates
          BY NoStreamType DEF StreamStates
        <4>2. stream' = [stream EXCEPT ![s] = r]
          BY <3>1 DEF OpenStream
        <4> HIDE DEF r
        <4> QED
          BY <4>1, <4>2 DEF TypeOK
      <3>2. CASE Publish(s)
        BY <3>2 DEF Publish, TypeOK, StreamStates
      <3>3. CASE ReadDevices(s)
        BY <1>1, <3>3 DEF ReadDevices, TypeOK, StreamStates
      <3>4. CASE Send(s)
        BY <3>4 DEF Send, TypeOK, StreamStates
      <3>5. CASE HandlerReturns(s)
        BY <3>5, NoStreamType DEF HandlerReturns, TypeOK
      <3> QED
        BY <1>12, <3>1, <3>2, <3>3, <3>4, <3>5
    <2>2. stream[s].buf \in ApiViews \cup {NoView}
      BY DEF TypeOK, StreamStates
    <2> QED
      BY <1>12, <2>1, <2>2
      DEF OpenStream, Publish, ReadDevices, Send, HandlerReturns, TypeOK, LivesCounted, LoopPCs
  <1>13. CASE UNCHANGED vars
    BY <1>13 DEF vars, TypeOK, LivesCounted
  <1> QED
    BY <1>3, <1>4, <1>5, <1>6, <1>7, <1>8, <1>9, <1>10, <1>11, <1>12, <1>13
    DEF Next, MainStep, LoopStep, StreamStep

(* TypeOK: no step takes a variable out of its type; in particular main     *)
(* starts no more lives than were asked for.                               *)
THEOREM TypeCorrect == Spec => []TypeOK
  <1>1. Init => TypeOK /\ LivesCounted
    BY TypingInit
  <1>2. TypeOK /\ LivesCounted /\ [Next]_vars => TypeOK' /\ LivesCounted'
    BY TypingStep
  <1> QED
    BY <1>1, <1>2, PTL DEF Spec

(* OneWriter: when Start writes the device cache and the fingerprint, the   *)
(* loop of the previous life is gone (wg.Wait in Stop).                    *)
THEOREM OneWriterHolds == Spec => []OneWriter
  <1>1. Init => OneWriter
    BY DEF Init, OneWriter
  <1>2. OneWriter /\ [Next]_vars => OneWriter'
    <2> SUFFICES ASSUME OneWriter, [Next]_vars PROVE OneWriter'
      OBVIOUS
    <2> USE DEF OneWriter, outside, main, peers
    <2>1. CASE HardwareChanges \/ KubeletRestarts \/ Sighup \/ ProcessDies \/ UNCHANGED vars
      BY <2>1 DEF HardwareChanges, KubeletRestarts, Sighup, ProcessDies, vars
    <2>2. CASE MainStep
      BY <2>2
      DEF MainStep, PrepareAndMakeStopCh, StartUpdatesDevices, EnableShareAndServe,
          RegisterKubelet, LaunchLoop, CloseStopCh, StopGrpcServer, StopReturns
    <2>3. CASE LoopStep
      BY <2>3
      DEF LoopStep, RefreshDevices, Publish, PublishTimesOut, RegisterHAMi, RegisterHAMiFails,
          LoopStops, Handled
    <2>4. ASSUME NEW s \in Streams, OpenStream(s) \/ StreamStep(s) PROVE OneWriter'
      BY <2>4 DEF OpenStream, StreamStep, ReadDevices, Send, HandlerReturns
    <2> QED
      BY <2>1, <2>2, <2>3, <2>4 DEF Next
  <1> QED
    BY <1>1, <1>2, PTL DEF Spec

-----------------------------------------------------------------------------
(* SilenceMeansUpToDate.  The loop takes the list of its last publication  *)
(* for the one kubelet has, but the handler it woke reads the cache later.  *)
(* As long as devices are only found and recover, every list in between is  *)
(* between the fingerprint and the cache, and equal to both when they are   *)
(* equal.                                                                  *)

(* What is in v is in w, and what is healthy in v is healthy in w.          *)
Recovers(v, w) == DOMAIN v \subseteq DOMAIN w /\ \A d \in DOMAIN v : v[d] => w[d]

(* The two things that defeat the fingerprint: hardware that goes back to   *)
(* what was published, and a handler of an earlier life that takes an       *)
(* update kubelet does not get.                                            *)
RecoverStep         == Recovers(hw, hw')
HardwareRecovers    == [][RecoverStep]_hw
ListenerTakesIt     == \A s \in Streams : Publish(s) => stream[s].live
OrphansTakeNothing  == [][ListenerTakesIt]_vars

InOrder == Recovers(last, cache) /\ Recovers(cache, Visible(hw))

(* Kubelet listens to one handler at most, and only while gRPC serves.      *)
OneListener ==
  /\ \A s, t \in Streams : stream[s].live /\ stream[t].live => s = t
  /\ invited => \A s \in Streams : ~stream[s].live
  /\ invited \/ (\E s \in Streams : stream[s].live)
       => life \in {"launch", "running", "grpcStop"}

(* The list on its way to kubelet, or the one it has, was the cache once.   *)
OnItsWay(list) == \E v \in Views : /\ list = ApiDevices(v)
                                   /\ Recovers(last, v) /\ Recovers(v, cache)

Fresh(s) == /\ stream[s].pc = "send" => OnItsWay(stream[s].buf)
            /\ stream[s].pc = "select" => OnItsWay(kubelet)

FreshInv == InOrder /\ OneListener /\ \A s \in Streams : stream[s].live => Fresh(s)

-----------------------------------------------------------------------------
(* Recovers is an order on device lists, and filtering respects it.         *)
LEMMA RecoversOrder ==
  /\ \A v \in Views : Recovers(v, v)
  /\ \A u, v, w \in Views : Recovers(u, v) /\ Recovers(v, w) => Recovers(u, w)
  /\ \A v, w \in Views : Recovers(v, w) => Recovers(Visible(v), Visible(w))
  BY DEF Recovers, Visible

(* Two lists that recover into each other are the same.                     *)
LEMMA RecoversBoth ==
  ASSUME NEW v \in Views, NEW w \in Views, Recovers(v, w), Recovers(w, v)
  PROVE  v = w
  <1>1. PICK S \in SUBSET Devices : v \in [S -> BOOLEAN]
    BY DEF Views
  <1>2. PICK T \in SUBSET Devices : w \in [T -> BOOLEAN]
    BY DEF Views
  <1>3. S = T
    BY <1>1, <1>2 DEF Recovers
  <1>4. \A d \in S : v[d] = w[d]
    BY <1>1, <1>2, <1>3 DEF Recovers
  <1> QED
    BY <1>1, <1>2, <1>3, <1>4

(* The empty list recovers into every other.                                *)
LEMMA NothingRecovers == \A v \in Views : Recovers(Nothing, v)
  BY DEF Nothing, Recovers

(* The lists keep their order.                                              *)
LEMMA OrderStep ==
  ASSUME TypeOK, InOrder, [Next]_vars, [RecoverStep]_hw
  PROVE  InOrder'
  <1> USE DEF outside, main, peers
  <1>1. /\ hw \in Views /\ hw' \in Views /\ cache \in Views /\ last \in Views
        /\ Visible(hw) \in Views /\ Visible(hw') \in Views
    <2>1. hw' \in Views
      BY HwAssumption
      DEF TypeOK, Next, vars, HardwareChanges, KubeletRestarts, Sighup, ProcessDies, MainStep,
          PrepareAndMakeStopCh, StartUpdatesDevices, EnableShareAndServe, RegisterKubelet,
          LaunchLoop, CloseStopCh, StopGrpcServer, StopReturns, LoopStep, RefreshDevices,
          Publish, PublishTimesOut, RegisterHAMi, RegisterHAMiFails, LoopStops, Handled,
          OpenStream, StreamStep, ReadDevices, Send, HandlerReturns
    <2> QED
      BY <2>1, VisibleType DEF TypeOK
  <1>2. Recovers(Visible(hw), Visible(hw'))
    BY <1>1, RecoversOrder DEF RecoverStep
  <1>3. \/ UNCHANGED <<cache, last>>
        \/ cache' = Visible(hw) /\ last' \in {last, Visible(hw)} /\ UNCHANGED hw
        \/ cache' = Nothing /\ last' = Nothing
        \/ last' = cache /\ UNCHANGED cache
    BY DEF Next, vars, HardwareChanges, KubeletRestarts, Sighup, ProcessDies, MainStep,
           PrepareAndMakeStopCh, StartUpdatesDevices, EnableShareAndServe, RegisterKubelet,
           LaunchLoop, CloseStopCh, StopGrpcServer, StopReturns, LoopStep, RefreshDevices,
           Publish, PublishTimesOut, RegisterHAMi, RegisterHAMiFails, LoopStops, Handled,
           OpenStream, StreamStep, ReadDevices, Send, HandlerReturns
  <1>4. Visible(hw)' = Visible(hw')
    BY DEF Visible
  <1>5. Recovers(cache, Visible(hw')) /\ Recovers(last, Visible(hw))
    BY <1>1, <1>2, RecoversOrder DEF InOrder
  <1>6. CASE UNCHANGED <<cache, last>>
    BY <1>4, <1>5, <1>6 DEF InOrder
  <1>7. CASE cache' = Visible(hw) /\ last' \in {last, Visible(hw)} /\ UNCHANGED hw
    BY <1>1, <1>2, <1>4, <1>5, <1>7, RecoversOrder DEF InOrder
  <1>8. CASE cache' = Nothing /\ last' = Nothing
    BY <1>1, <1>4, <1>8, NothingType, NothingRecovers DEF InOrder
  <1>9. CASE last' = cache /\ UNCHANGED cache
    BY <1>1, <1>4, <1>5, <1>9, RecoversOrder DEF InOrder
  <1> QED
    BY <1>3, <1>6, <1>7, <1>8, <1>9

(* No handler becomes a listener but by the call that opens its stream.     *)
LEMMA NoNewListener ==
  ASSUME TypeOK, NEW s \in Streams, Publish(s) \/ StreamStep(s), NEW t \in Streams,
         stream'[t].live
  PROVE  stream[t].live
  <1>0. stream \in [Streams -> StreamStates] /\ NoStream.live = FALSE
    BY DEF TypeOK, NoStream
  <1>1. CASE Publish(s)
    BY <1>0, <1>1 DEF Publish, StreamStates
  <1>2. CASE ReadDevices(s)
    BY <1>0, <1>2 DEF ReadDevices, StreamStates
  <1>3. CASE Send(s)
    BY <1>0, <1>3 DEF Send, StreamStates
  <1>4. CASE HandlerReturns(s)
    BY <1>0, <1>4 DEF HandlerReturns
  <1> QED
    BY <1>1, <1>2, <1>3, <1>4 DEF StreamStep

(* The listeners keep to what the lives of the plugin allow.                *)
LEMMA ListenerStep ==
  ASSUME TypeOK, OneListener, [Next]_vars
  PROVE  OneListener'
  <1> USE DEF outside, main, peers
  <1>0. stream \in [Streams -> StreamStates] /\ NoStream.live = FALSE
    BY DEF TypeOK, NoStream
  <1>1. CASE stream' = Disconnected /\ invited' = FALSE
    <2>1. \A s \in Streams : ~stream'[s].live
      BY <1>0, <1>1 DEF Disconnected, StreamStates
    <2> QED
      BY <1>1, <2>1 DEF OneListener
  <1>2. CASE \/ HardwareChanges \/ Sighup \/ PrepareAndMakeStopCh \/ StartUpdatesDevices
             \/ EnableShareAndServe \/ LaunchLoop \/ CloseStopCh \/ StopReturns
             \/ RefreshDevices \/ PublishTimesOut \/ RegisterHAMi \/ RegisterHAMiFails
             \/ LoopStops \/ UNCHANGED vars
    <2>1. UNCHANGED <<stream, invited>>
      BY <1>2
      DEF HardwareChanges, Sighup, PrepareAndMakeStopCh, StartUpdatesDevices, LaunchLoop,
          EnableShareAndServe, CloseStopCh, StopReturns, RefreshDevices, PublishTimesOut,
          RegisterHAMi, RegisterHAMiFails, LoopStops, Handled, vars
    <2>2. life \in {"launch", "running", "grpcStop"}
            => life' \in {"launch", "running", "grpcStop"}
      BY <1>2
      DEF HardwareChanges, Sighup, PrepareAndMakeStopCh, StartUpdatesDevices, LaunchLoop,
          EnableShareAndServe, CloseStopCh, StopReturns, RefreshDevices, PublishTimesOut,
          RegisterHAMi, RegisterHAMiFails, LoopStops, Handled, vars
    <2> QED
      BY <2>1, <2>2 DEF OneListener
  <1>3. CASE ProcessDies
    BY <1>0, <1>3 DEF ProcessDies, OneListener
  <1>4. CASE RegisterKubelet
    BY <1>4 DEF RegisterKubelet, OneListener
  <1>5. ASSUME NEW s \in Streams, OpenStream(s) PROVE OneListener'
    <2>1. /\ \A t \in Streams : t # s => ~stream'[t].live
          /\ invited' = FALSE /\ life' \in {"launch", "running"}
      BY <1>0, <1>5 DEF OpenStream, OneListener
    <2> QED
      BY <2>1 DEF OneListener
  <1>6. ASSUME NEW s \in Streams, Publish(s) \/ StreamStep(s) PROVE OneListener'
    <2>1. \A t \in Streams : stream'[t].live => stream[t].live
      BY <1>6, NoNewListener
    <2>2. UNCHANGED <<life, invited>>
      BY <1>6 DEF Publish, StreamStep, ReadDevices, Send, HandlerReturns
    <2> QED
      BY <2>1, <2>2 DEF OneListener
  <1> QED
    BY <1>1, <1>2, <1>3, <1>4, <1>5, <1>6
    DEF Next, MainStep, LoopStep, KubeletRestarts, StopGrpcServer

(* A list on its way stays so while the cache only recovers.                *)
LEMMA OnItsWayStays ==
  ASSUME TypeOK, TypeOK', NEW list, OnItsWay(list), UNCHANGED last, Recovers(cache, cache')
  PROVE  OnItsWay(list)'
  BY RecoversOrder DEF OnItsWay, TypeOK

(* What the handler kubelet listens to sent, or is about to send, stays     *)
(* between the fingerprint and the cache.                                  *)
LEMMA FreshStep ==
  ASSUME TypeOK, TypeOK', FreshInv, [Next]_vars, [RecoverStep]_hw,
         [ListenerTakesIt]_vars
  PROVE  FreshInv'
  <1> USE DEF outside, main, peers
  <1>0. /\ InOrder' /\ OneListener' /\ InOrder /\ OneListener
        /\ \A s \in Streams : stream[s].live => Fresh(s)
    BY OrderStep, ListenerStep DEF FreshInv
  <1>1. /\ stream \in [Streams -> StreamStates] /\ cache \in Views /\ last \in Views
        /\ Recovers(cache, cache) /\ Recovers(last, cache)
        /\ NoStream.live = FALSE /\ NoStream.pc = "free"
    BY <1>0, RecoversOrder DEF TypeOK, InOrder, NoStream
  <1> SUFFICES ASSUME NEW t \in Streams, stream'[t].live PROVE Fresh(t)'
    BY <1>0 DEF FreshInv
  <1>2. CASE KubeletRestarts \/ StopGrpcServer \/ ProcessDies
    <2>1. ~stream'[t].live
      BY <1>1, <1>2 DEF KubeletRestarts, StopGrpcServer, ProcessDies, Disconnected, StreamStates
    <2> QED
      BY <2>1
  <1>3. CASE StartUpdatesDevices
    <2>1. ~stream'[t].live
      BY <1>0, <1>3 DEF StartUpdatesDevices, OneListener
    <2> QED
      BY <2>1
  <1>4. CASE \/ HardwareChanges \/ Sighup \/ PrepareAndMakeStopCh \/ EnableShareAndServe
             \/ RegisterKubelet \/ LaunchLoop \/ CloseStopCh \/ StopReturns
             \/ RefreshDevices \/ PublishTimesOut \/ RegisterHAMi \/ RegisterHAMiFails
             \/ LoopStops \/ UNCHANGED vars
    <2>1. UNCHANGED <<stream, kubelet, last>> /\ cache' \in {cache, Visible(hw)}
      BY <1>4
      DEF HardwareChanges, Sighup, PrepareAndMakeStopCh, LaunchLoop, RegisterKubelet,
          EnableShareAndServe, CloseStopCh, StopReturns, RefreshDevices, PublishTimesOut,
          RegisterHAMi, RegisterHAMiFails, LoopStops, Handled, vars
    <2>2. Recovers(cache, cache')
      BY <1>0, <1>1, <2>1 DEF InOrder
    <2>3. \A list : OnItsWay(list) => OnItsWay(list)'
      BY <2>1, <2>2, OnItsWayStays
    <2> QED
      BY <1>0, <2>1, <2>3 DEF Fresh
  <1>5. ASSUME NEW s \in Streams, OpenStream(s) \/ Publish(s) PROVE Fresh(t)'
    <2>1. CASE t = s
      <3>1. stream'[s].pc = "read"
        BY <1>1, <1>5 DEF OpenStream, Publish, StreamStates, NoStream
      <3> QED
        BY <2>1, <3>1 DEF Fresh
    <2>2. CASE t # s /\ OpenStream(s)
      BY <1>0, <1>1, <2>2 DEF OpenStream, OneListener
    <2>3. CASE t # s /\ Publish(s)
      <3>1. vars' # vars
        BY <1>1, <2>3 DEF vars, Publish
      <3>2. stream[s].live /\ stream[t].live
        BY <1>1, <2>3, <3>1 DEF Publish, ListenerTakesIt
      <3> QED
        BY <1>0, <2>3, <3>2 DEF OneListener
    <2> QED
      BY <1>5, <2>1, <2>2, <2>3
  <1>6. ASSUME NEW s \in Streams, ReadDevices(s) \/ Send(s) \/ HandlerReturns(s)
        PROVE  Fresh(t)'
    <2>1. UNCHANGED <<last, cache>> /\ stream[t].live
      BY <1>6, NoNewListener DEF StreamStep, ReadDevices, Send, HandlerReturns
    <2>2. \A list : OnItsWay(list)' <=> OnItsWay(list)
      BY <2>1 DEF OnItsWay
    <2>3. CASE t # s
      <3>1. stream'[t] = stream[t] /\ (stream[s].live \/ kubelet' = kubelet)
        BY <1>1, <1>6, <2>3 DEF ReadDevices, Send, HandlerReturns
      <3>2. ~stream[s].live
        BY <1>0, <2>1, <2>3 DEF OneListener
      <3> QED
        BY <1>0, <2>1, <2>2, <3>1, <3>2 DEF Fresh
    <2>4. CASE t = s /\ ReadDevices(s)
      <3>1. stream'[s].pc = "send" /\ stream'[s].buf = ApiDevices(cache)
        BY <1>1, <2>4 DEF ReadDevices, StreamStates
      <3>2. OnItsWay(ApiDevices(cache))
        BY <1>1 DEF OnItsWay
      <3> QED
        BY <2>2, <2>4, <3>1, <3>2 DEF Fresh
    <2>5. CASE t = s /\ Send(s)
      <3>1. stream'[s].pc = "select" /\ kubelet' = stream[s].buf /\ stream[s].pc = "send"
        BY <1>1, <2>1, <2>5 DEF Send, StreamStates
      <3>2. OnItsWay(stream[s].buf)
        BY <1>0, <2>1, <2>5, <3>1 DEF Fresh
      <3> QED
        BY <2>2, <2>5, <3>1, <3>2 DEF Fresh
    <2>6. CASE t = s /\ HandlerReturns(s)
      BY <1>1, <2>6 DEF HandlerReturns
    <2> QED
      BY <1>6, <2>3, <2>4, <2>5, <2>6
  <1> QED
    BY <1>2, <1>3, <1>4, <1>5, <1>6 DEF Next, MainStep, LoopStep, StreamStep

(* Initially nobody listens and no list is known.                           *)
LEMMA FreshInit == Init => FreshInv
  <1> SUFFICES ASSUME Init PROVE FreshInv
    OBVIOUS
  <1>1. Visible(hw) \in Views
    BY VisibleType, HwAssumption DEF Init
  <1>2. InOrder
    BY <1>1, NothingType, NothingRecovers DEF Init, InOrder
  <1>3. \A s \in Streams : ~stream[s].live
    BY DEF Init, NoStream
  <1> QED
    BY <1>2, <1>3 DEF FreshInv, OneListener, Init

(* Equal to the cache and to the fingerprint, nothing is in between.        *)
LEMMA FreshMeansUpToDate ==
  ASSUME TypeOK, FreshInv
  PROVE  SilenceMeansUpToDate
  <1> SUFFICES ASSUME NEW s \in Streams, stream[s].live, stream[s].pc = "select", cache = last
               PROVE  kubelet = ApiDevices(cache)
    BY DEF SilenceMeansUpToDate
  <1>1. PICK v \in Views : /\ kubelet = ApiDevices(v)
                           /\ Recovers(last, v) /\ Recovers(v, cache)
    BY DEF FreshInv, Fresh, OnItsWay
  <1>2. v = cache
    BY <1>1, RecoversBoth DEF TypeOK
  <1> QED
    BY <1>1, <1>2

(* SilenceMeansUpToDate: with any number of restarts, when the loop has     *)
(* nothing to publish kubelet goes by the cache, as long as the hardware    *)
(* recovers and orphaned handlers take no update (server.go,               *)
(* lastPublishedDevices in watchAndRegister).                              *)
THEOREM FingerprintIsTrue ==
  Spec /\ HardwareRecovers /\ OrphansTakeNothing => []SilenceMeansUpToDate
  <1>1. Init => TypeOK /\ LivesCounted /\ FreshInv
    BY TypingInit, FreshInit
  <1>2. TypeOK /\ LivesCounted /\ FreshInv /\ [Next]_vars /\ [RecoverStep]_hw
          /\ [ListenerTakesIt]_vars => TypeOK' /\ LivesCounted' /\ FreshInv'
    BY TypingStep, FreshStep
  <1>3. TypeOK /\ FreshInv => SilenceMeansUpToDate
    BY FreshMeansUpToDate
  <1> QED
    BY <1>1, <1>2, <1>3, PTL DEF Spec, HardwareRecovers, OrphansTakeNothing

-----------------------------------------------------------------------------
(* In one undisturbed life every handler is one kubelet listens to.         *)
FirstLife == /\ restarts = 0 /\ pending = 0
             /\ life \in {"prepare", "update", "serve", "register", "launch", "running"}
             /\ \A s \in Streams : stream[s].pc = "free" \/ stream[s].live

(* Without restarts there is only the first life.                           *)
LEMMA FirstLifeStep ==
  ASSUME TypeOK, MaxRestarts = 0, FirstLife, [Next]_vars
  PROVE  FirstLife'
  <1> USE DEF outside, main, peers
  <1>0. stream \in [Streams -> StreamStates] /\ NoStream.pc = "free"
    BY DEF TypeOK, NoStream
  <1>1. CASE KubeletRestarts \/ Sighup \/ ProcessDies \/ CloseStopCh \/ StopGrpcServer \/ StopReturns
    BY <1>1
    DEF KubeletRestarts, Sighup, ProcessDies, CloseStopCh, StopGrpcServer, StopReturns, FirstLife
  <1>2. CASE \/ HardwareChanges \/ PrepareAndMakeStopCh \/ StartUpdatesDevices
             \/ EnableShareAndServe \/ RegisterKubelet \/ LaunchLoop
             \/ RefreshDevices \/ PublishTimesOut \/ RegisterHAMi \/ RegisterHAMiFails
             \/ LoopStops \/ UNCHANGED vars
    BY <1>2
    DEF HardwareChanges, PrepareAndMakeStopCh, StartUpdatesDevices, LaunchLoop, RegisterKubelet,
        EnableShareAndServe, RefreshDevices, PublishTimesOut, RegisterHAMi, RegisterHAMiFails,
        LoopStops, Handled, vars, FirstLife
  <1>3. ASSUME NEW s \in Streams,
               OpenStream(s) \/ Publish(s) \/ ReadDevices(s) \/ Send(s) \/ HandlerReturns(s)
        PROVE  FirstLife'
    <2>1. \A t \in Streams : t # s => stream'[t] = stream[t]
      BY <1>0, <1>3 DEF OpenStream, Publish, ReadDevices, Send, HandlerReturns
    <2>2. stream'[s].pc = "free" \/ stream'[s].live
      <3>1. CASE OpenStream(s)
        BY <1>0, <3>1 DEF OpenStream, NoStream
      <3>2. CASE Publish(s) \/ ReadDevices(s) \/ Send(s)
        <4>1. stream[s].live
          BY <3>2 DEF Publish, ReadDevices, Send, FirstLife
        <4>2. stream'[s].live = stream[s].live
          <5>1. CASE Publish(s)
            BY <1>0, <5>1 DEF Publish, StreamStates
          <5>2. CASE ReadDevices(s)
            BY <1>0, <5>2 DEF ReadDevices, StreamStates
          <5>3. CASE Send(s)
            BY <1>0, <5>3 DEF Send, StreamStates
          <5> QED
            BY <3>2, <5>1, <5>2, <5>3
        <4> QED
          BY <4>1, <4>2
      <3>3. CASE HandlerReturns(s)
        BY <1>0, <3>3 DEF HandlerReturns
      <3> QED
        BY <1>3, <3>1, <3>2, <3>3
    <2> QED
      BY <1>3, <2>1, <2>2 DEF OpenStream, Publish, ReadDevices, Send, HandlerReturns, FirstLife
  <1> QED
    BY <1>1, <1>2, <1>3 DEF Next, MainStep, LoopStep, StreamStep

(* SilenceMeansUpToDate, for one life of the plugin beside hardware that    *)
(* recovers: the fingerprint needs no other assumption there.              *)
THEOREM FingerprintOfFirstLife ==
  ASSUME MaxRestarts = 0, \A step \in HwSteps : Recovers(step[1], step[2])
  PROVE  Spec => []SilenceMeansUpToDate
  <1>1. Init => TypeOK /\ LivesCounted /\ FirstLife
    BY TypingInit DEF Init, FirstLife, NoStream
  <1>2. TypeOK /\ LivesCounted /\ FirstLife /\ [Next]_vars
          => (TypeOK /\ LivesCounted /\ FirstLife)'
    BY TypingStep, FirstLifeStep
  <1>3. FirstLife => [ListenerTakesIt]_vars
    BY DEF FirstLife, Publish, ListenerTakesIt
  <1>4. [Next]_vars => [RecoverStep]_hw
    <2> USE DEF outside, main, peers
    <2>1. HardwareChanges => Recovers(hw, hw')
      BY DEF HardwareChanges
    <2> QED
      BY <2>1
      DEF RecoverStep, Next, vars, KubeletRestarts, Sighup, ProcessDies, MainStep,
          PrepareAndMakeStopCh, StartUpdatesDevices, EnableShareAndServe, RegisterKubelet,
          LaunchLoop, CloseStopCh, StopGrpcServer, StopReturns, LoopStep, RefreshDevices,
          Publish, PublishTimesOut, RegisterHAMi, RegisterHAMiFails, LoopStops, Handled,
          OpenStream, StreamStep, ReadDevices, Send, HandlerReturns
  <1>5. Spec => HardwareRecovers /\ OrphansTakeNothing
    BY <1>1, <1>2, <1>3, <1>4, PTL DEF Spec, HardwareRecovers, OrphansTakeNothing
  <1> QED
    BY <1>5, FingerprintIsTrue
-----------------------------------------------------------------------------
(* KubeletNotForgotten.  A handler kubelet listens to waits on the channel  *)
(* of this life, which stays open until main takes the next restart.        *)

SelectsCurrent ==
  \A s \in Streams : stream[s].live /\ stream[s].pc = "select" => stream[s].gen = gen

AskedInv ==
  /\ life \in {"update", "serve", "register", "launch", "running"} => open
  /\ OneListener /\ SelectsCurrent /\ KubeletNotForgotten

(* The handler kubelet listens to selects on the channel of its life.       *)
LEMMA CurrentStep ==
  ASSUME TypeOK, OneListener, SelectsCurrent, [Next]_vars
  PROVE  SelectsCurrent'
  <1> USE DEF outside, main, peers
  <1>0. stream \in [Streams -> StreamStates] /\ NoStream.live = FALSE
    BY DEF TypeOK, NoStream
  <1> SUFFICES ASSUME NEW t \in Streams, stream'[t].live, stream'[t].pc = "select"
               PROVE  stream'[t].gen = gen'
    BY DEF SelectsCurrent
  <1>1. CASE KubeletRestarts \/ StopGrpcServer \/ ProcessDies
    BY <1>0, <1>1 DEF KubeletRestarts, StopGrpcServer, ProcessDies, Disconnected, StreamStates
  <1>2. CASE PrepareAndMakeStopCh
    BY <1>2 DEF PrepareAndMakeStopCh, OneListener
  <1>3. CASE \/ HardwareChanges \/ Sighup \/ StartUpdatesDevices \/ EnableShareAndServe
             \/ RegisterKubelet \/ LaunchLoop \/ CloseStopCh \/ StopReturns
             \/ RefreshDevices \/ PublishTimesOut \/ RegisterHAMi \/ RegisterHAMiFails
             \/ LoopStops \/ UNCHANGED vars
    <2>1. UNCHANGED <<stream, gen>>
      BY <1>3
      DEF HardwareChanges, Sighup, StartUpdatesDevices, LaunchLoop, RegisterKubelet,
          EnableShareAndServe, CloseStopCh, StopReturns, RefreshDevices, PublishTimesOut,
          RegisterHAMi, RegisterHAMiFails, LoopStops, Handled, vars
    <2> QED
      BY <2>1 DEF SelectsCurrent
  <1>4. ASSUME NEW s \in Streams, OpenStream(s) \/ Publish(s) \/ StreamStep(s)
        PROVE  stream'[t].gen = gen'
    <2>1. gen' = gen /\ (t # s => stream'[t] = stream[t])
      BY <1>0, <1>4 DEF OpenStream, Publish, StreamStep, ReadDevices, Send, HandlerReturns
    <2>2. CASE t # s
      BY <2>1, <2>2 DEF SelectsCurrent
    <2>3. CASE t = s /\ Send(s)
      BY <1>0, <2>1, <2>3 DEF Send, StreamStates
    <2>4. CASE t = s /\ (OpenStream(s) \/ Publish(s) \/ ReadDevices(s))
      <3>1. stream'[s].pc \in {"read", "send"}
        <4>1. CASE OpenStream(s)
          BY <1>0, <4>1 DEF OpenStream, NoStream
        <4>2. CASE Publish(s)
          BY <1>0, <4>2 DEF Publish, StreamStates
        <4>3. CASE ReadDevices(s)
          BY <1>0, <4>3 DEF ReadDevices, StreamStates
        <4> QED
          BY <2>4, <4>1, <4>2, <4>3
      <3> QED
        BY <2>4, <3>1
    <2>5. CASE t = s /\ HandlerReturns(s)
      BY <1>0, <2>5 DEF HandlerReturns
    <2> QED
      BY <1>4, <2>2, <2>3, <2>4, <2>5 DEF StreamStep
  <1> QED
    BY <1>1, <1>2, <1>3, <1>4 DEF Next, MainStep, LoopStep

(* A step of a handler leaves kubelet its listener, while main is neither   *)
(* stopping nor about to.                                                  *)
LEMMA ListenerStays ==
  ASSUME TypeOK, AskedInv, NEW s \in Streams, Publish(s) \/ StreamStep(s),
         life \in {"launch", "running"}, NEW t \in Streams, stream[t].live
  PROVE  stream'[t].live
  <1>0. stream \in [Streams -> StreamStates] /\ gen \in Int
    BY DEF TypeOK
  <1>1. CASE t # s
    BY <1>0, <1>1 DEF Publish, StreamStep, ReadDevices, Send, HandlerReturns
  <1>2. CASE t = s /\ Publish(s)
    BY <1>0, <1>2 DEF Publish, StreamStates
  <1>3. CASE t = s /\ ReadDevices(s)
    BY <1>0, <1>3 DEF ReadDevices, StreamStates
  <1>4. CASE t = s /\ Send(s)
    BY <1>0, <1>4 DEF Send, StreamStates
  <1>5. CASE t = s /\ HandlerReturns(s)
    <2>1. stream[t].gen = gen /\ open
      BY <1>5 DEF HandlerReturns, AskedInv, SelectsCurrent
    <2> QED
      BY <1>0, <1>5, <2>1 DEF HandlerReturns, Closed
  <1> QED
    BY <1>1, <1>2, <1>3, <1>4, <1>5 DEF StreamStep

(* Every step keeps the invariant.                                          *)
LEMMA AskedStep ==
  ASSUME TypeOK, AskedInv, [Next]_vars
  PROVE  AskedInv'
  <1> USE DEF outside, main, peers
  <1>0. stream \in [Streams -> StreamStates] /\ pending \in Nat
    BY BoundsAssumption DEF TypeOK
  <1>1. (life \in {"update", "serve", "register", "launch", "running"} => open)'
    BY DEF AskedInv, Next, vars, HardwareChanges, KubeletRestarts, Sighup, ProcessDies, MainStep,
           PrepareAndMakeStopCh, StartUpdatesDevices, EnableShareAndServe, RegisterKubelet,
           LaunchLoop, CloseStopCh, StopGrpcServer, StopReturns, LoopStep, RefreshDevices,
           Publish, PublishTimesOut, RegisterHAMi, RegisterHAMiFails, LoopStops, Handled,
           OpenStream, StreamStep, ReadDevices, Send, HandlerReturns
  <1>2. OneListener' /\ SelectsCurrent'
    BY ListenerStep, CurrentStep DEF AskedInv
  <1>3. KubeletNotForgotten'
    <2> USE DEF KubeletNotForgotten
    <2>1. CASE KubeletRestarts \/ Sighup
      BY <1>0, <2>1 DEF KubeletRestarts, Sighup
    <2>2. CASE \/ ProcessDies \/ PrepareAndMakeStopCh \/ StartUpdatesDevices
               \/ EnableShareAndServe \/ RegisterKubelet \/ CloseStopCh \/ StopGrpcServer
               \/ StopReturns
      BY <2>2
      DEF ProcessDies, PrepareAndMakeStopCh, StartUpdatesDevices, EnableShareAndServe,
          RegisterKubelet, CloseStopCh, StopGrpcServer, StopReturns
    <2>3. CASE \/ HardwareChanges \/ LaunchLoop \/ RefreshDevices \/ PublishTimesOut
               \/ RegisterHAMi \/ RegisterHAMiFails \/ LoopStops \/ UNCHANGED vars
      BY <2>3
      DEF AskedInv, HardwareChanges, LaunchLoop, RefreshDevices, PublishTimesOut,
          RegisterHAMi, RegisterHAMiFails, LoopStops, Handled, vars
    <2>4. ASSUME NEW s \in Streams, OpenStream(s) PROVE KubeletNotForgotten'
      <3>1. stream'[s].live
        BY <1>0, <2>4 DEF OpenStream, NoStream
      <3> QED
        BY <3>1
    <2>5. ASSUME NEW s \in Streams, Publish(s) \/ StreamStep(s) PROVE KubeletNotForgotten'
      <3>1. UNCHANGED <<life, invited, pending>>
        BY <2>5 DEF Publish, StreamStep, ReadDevices, Send, HandlerReturns
      <3> QED
        BY <2>5, <3>1, ListenerStays DEF AskedInv
    <2> QED
      BY <2>1, <2>2, <2>3, <2>4, <2>5 DEF Next, MainStep, LoopStep
  <1> QED
    BY <1>1, <1>2, <1>3 DEF AskedInv

(* KubeletNotForgotten: through any restarts of kubelet, the plugin or by   *)
(* SIGHUP, at any step of Start and Stop, a registered plugin is about to   *)
(* be called, listened to, or asked to start again (main.go, the watcher).  *)
THEOREM KubeletServedOrAsked == Spec => []KubeletNotForgotten
  <1>1. Init => TypeOK /\ LivesCounted /\ AskedInv
    BY TypingInit DEF Init, AskedInv, OneListener, SelectsCurrent, KubeletNotForgotten, NoStream
  <1>2. TypeOK /\ LivesCounted /\ AskedInv /\ [Next]_vars
          => (TypeOK /\ LivesCounted /\ AskedInv)'
    BY TypingStep, AskedStep
  <1>3. AskedInv => KubeletNotForgotten
    BY DEF AskedInv
  <1> QED
    BY <1>1, <1>2, <1>3, PTL DEF Spec
=============================================================================
