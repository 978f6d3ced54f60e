----------------------------- MODULE VnpuCleanup -----------------------------
(***************************************************************************)
(* CleanupIdleVNPUs: a pass over the cards of the node that destroys the   *)
(* vNPUs no container uses.  Main makes a pass before every start of the   *)
(* server, a ticker makes others while it runs.  Every error of the driver *)
(* skips what it concerns: the pass itself never fails half way.           *)
(***************************************************************************)
EXTENDS Integers, Sequences

CONSTANTS
  Cards,                          \* the cards in the order of GetDeviceList
  VNpus, CardOf,                  \* CardOf[v]: the card that v is a part of
  IgnoredUUIDs, IgnoredIndexes    \* filterDevices of this node: cards

CardSet == {Cards[n] : n \in DOMAIN Cards}

ASSUME CleanupAssumption ==
  /\ Cards \in Seq(CardSet)
  /\ CardOf \in [VNpus -> CardSet]
  /\ IgnoredUUIDs \subseteq CardSet /\ IgnoredIndexes \subseteq CardSet

VARIABLES
  vnpu,     \* vnpu[v]: there is none, it is idle, or a container uses it
  pass,     \* pass[w]: the pass that w is making
  loaded    \* has this process read its node's configuration?

cleanupVars == <<vnpu, pass, loaded>>

Passers == {"main", "ticker"}

(* card = 0: no pass; todo: the vNPUs of the card that were found idle.    *)
NoPass == [card |-> 0, todo |-> {}]
Passes == [card : 0..Len(Cards) + 1, todo : SUBSET VNpus]

CleanupInit ==
  /\ vnpu \in [VNpus -> {"none", "idle"}]
  /\ pass = [w \in Passers |-> NoPass]

-----------------------------------------------------------------------------
(* Container runtime and driver (external): a vNPU is made for a container *)
(* that starts, and may be left behind by one that ends.                   *)
RuntimeStep(v) ==
  /\ \/ vnpu[v] = "none" /\ vnpu' = [vnpu EXCEPT ![v] = "idle"]
     \/ vnpu[v] = "idle" /\ vnpu' = [vnpu EXCEPT ![v] = "used"]
     \/ vnpu[v] = "used" /\ vnpu' \in {[vnpu EXCEPT ![v] = s] : s \in {"idle", "none"}}
  /\ UNCHANGED <<pass, loaded>>

-----------------------------------------------------------------------------
(* Mutant: a UUID that cannot be read is taken for "not ignored".           *)
IgnoredByIndex(c) == loaded /\ c \in IgnoredIndexes

(* shouldIgnoreDevice: without a node configuration nothing is ignored.     *)
Ignored(c) == loaded /\ c \in IgnoredUUIDs \cup IgnoredIndexes

At(w) == Cards[pass[w].card]
Asking(w) == pass[w].card \in DOMAIN Cards /\ pass[w].todo = {}
Over(w) == pass[w].card = Len(Cards) + 1

(* On to the next card when nothing is left to do on this one.              *)
GoOn(w, todo) ==
  pass' = [pass EXCEPT ![w] =
             IF todo = {} THEN [card |-> @.card + 1, todo |-> {}]
                          ELSE [@ EXCEPT !.todo = todo]]

(* GetDeviceList, which may fail and so end the pass.                       *)
BeginPass(w) ==
  /\ pass[w] = NoPass
  /\ pass' \in {[pass EXCEPT ![w].card = n] : n \in {1, Len(Cards) + 1}}
  /\ UNCHANGED <<vnpu, loaded>>

(* GetCardIDDeviceID, GetDieID or GetVirtualDeviceInfo fails.               *)
QueryFails(w) ==
  /\ Asking(w)
  /\ GoOn(w, {})
  /\ UNCHANGED <<vnpu, loaded>>

(* Mutant: an ignored card ends the pass.                                   *)
StopAtIgnored(w) ==
  /\ Asking(w) /\ Ignored(At(w))
  /\ pass' = [pass EXCEPT ![w].card = Len(Cards) + 1]
  /\ UNCHANGED <<vnpu, loaded>>

SkipIgnored(w) ==
  /\ Asking(w) /\ Ignored(At(w))
  /\ GoOn(w, {})
  /\ UNCHANGED <<vnpu, loaded>>

ListIdle(w) ==
  /\ Asking(w) /\ ~Ignored(At(w))
  /\ GoOn(w, {v \in VNpus : CardOf[v] = At(w) /\ vnpu[v] = "idle"})
  /\ UNCHANGED <<vnpu, loaded>>

(* DestroyVirtualDevice.  A vNPU in the list may be claimed, or replaced by *)
(* another, before its turn; whether the driver refuses then is not known.  *)
Destroy(w, v) ==
  /\ v \in pass[w].todo
  /\ GoOn(w, pass[w].todo \ {v})
  /\ vnpu' = [vnpu EXCEPT ![v] = "none"]
  /\ UNCHANGED loaded

DestroyFails(w, v) ==
  /\ v \in pass[w].todo
  /\ GoOn(w, pass[w].todo \ {v})
  /\ UNCHANGED <<vnpu, loaded>>

EndPass(w) ==
  /\ Over(w)
  /\ pass' = [pass EXCEPT ![w] = NoPass]
  /\ UNCHANGED <<vnpu, loaded>>

PassStep(w) ==
  \/ QueryFails(w) \/ SkipIgnored(w) \/ ListIdle(w)
  \/ \E v \in VNpus : Destroy(w, v) \/ DestroyFails(w, v)
=============================================================================
