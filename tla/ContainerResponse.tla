-------------------------- MODULE ContainerResponse --------------------------
(***************************************************************************)
(* What an answer of Allocate means for its container, beyond the devices: *)
(* buildContainerAllocateResponse derives the memory quota, the priority,  *)
(* the template and the registry from the pod's annotation                 *)
(* huawei.com/<word>, which lists the devices of all its containers.       *)
(***************************************************************************)
EXTENDS Allocate

CONSTANTS
  Info,              \* Info[p][i][n]: what was decided for device n of slot i
  RuntimeInfos,      \* RuntimeInfos[p]: the pod annotation huawei.com/<word>
  VnpuMode,          \* VnpuMode[p]: the pod annotation huawei.com/vnpu-mode
  NodeHamiVnpuCore,  \* IsHamiVnpuCore of this node
  Unset              \* a field or an annotation left out

ASSUME InfoAssumption ==
  \A p \in Pods : \A i \in Slots : DOMAIN Info[p][i] = DOMAIN Assigned[p][i]

(* The scheduler lists the devices of all containers, one container after  *)
(* the other: those of slot i follow the first at[i] entries.              *)
Entry(p, i, n) == [uuid |-> Assigned[p][i][n], info |-> Info[p][i][n]]

Concatenated(p, at) ==
  /\ \A i \in Slots : \A n \in DOMAIN Assigned[p][i] :
       at[i] + n \in DOMAIN RuntimeInfos[p] /\ RuntimeInfos[p][at[i] + n] = Entry(p, i, n)
  /\ \A k \in DOMAIN RuntimeInfos[p] :
       \E i \in Slots : \E n \in DOMAIN Assigned[p][i] : k = at[i] + n
  /\ \A i, j \in Slots : i < j => at[i] + Len(Assigned[p][i]) <= at[j]

ASSUME AnnotationAssumption ==
  \A p \in Pods :
    /\ Len(RuntimeInfos[p]) \in Nat /\ DOMAIN RuntimeInfos[p] = 1..Len(RuntimeInfos[p])
    /\ \E at \in [Slots -> 0..Len(RuntimeInfos[p])] : Concatenated(p, at)

(* The mode the pod asks for, else the node's.                              *)
ASSUME ModeAssumption ==
  HamiCore = {p \in Pods : \/ VnpuMode[p] = "hami-core"
                           \/ VnpuMode[p] = Unset /\ NodeHamiVnpuCore}

-----------------------------------------------------------------------------
Highest(S) == CHOOSE n \in S : \A m \in S : m <= n
Lowest(S)  == CHOOSE n \in S : \A m \in S : n <= m

(* Mutant: the list is searched by position, as if it were the container's. *)
LookupByPosition(p, devs, n) == RuntimeInfos[p][n].info

(* buildRuntimeInfoLookup: by UUID, where a later entry replaces an earlier *)
(* one.                                                                     *)
Lookup(p, devs, n) ==
  LET list == RuntimeInfos[p]
  IN list[Highest({k \in DOMAIN list : list[k].uuid = devs[n]})].info

(* memories[0], cores[0] and ascendVNPUSpec: of the first device that has   *)
(* the field.                                                               *)
FirstSet(p, devs, f) ==
  LET hits == {n \in DOMAIN devs : Lookup(p, devs, n)[f] # Unset}
  IN IF hits = {} THEN Unset ELSE Lookup(p, devs, Lowest(hits))[f]

(* NPU_MEM_QUOTA, NPU_PRIORITY, NPU_GLOBAL_SHM_PATH; ASCEND_VNPU_SPECS.     *)
Env(p, devs) ==
  IF p \in HamiCore
  THEN [quota |-> FirstSet(p, devs, "mem"), priority |-> FirstSet(p, devs, "core"),
        registry |-> devs[1], spec |-> Unset]
  ELSE [quota |-> Unset, priority |-> Unset, registry |-> Unset,
        spec |-> FirstSet(p, devs, "temp")]

-----------------------------------------------------------------------------
Own(p, i, f) ==
  LET hits == {n \in DOMAIN Info[p][i] : Info[p][i][n][f] # Unset}
  IN IF hits = {} THEN Unset ELSE Info[p][i][Lowest(hits)][f]

(* No other container of the pod has a device of slot i, nor slot i twice.  *)
SharesNoDevice(p, i) ==
  \A j \in Slots : \A n \in DOMAIN Assigned[p][i], m \in DOMAIN Assigned[p][j] :
     Assigned[p][i][n] = Assigned[p][j][m] => i = j /\ n = m

(* The limits of a container are those the scheduler decided for it, while *)
(* they are looked up in a list of all the pod's containers by UUID alone  *)
(* (allocate.go, buildRuntimeInfoLookup).  Two containers of a pod that    *)
(* share a card are excepted: they both get the limits of the later one.   *)
LimitsAreOwn ==
  \A p \in Pods, i \in Slots :
     granted[p][i] # NoGrant /\ SharesNoDevice(p, i) =>
       LET env == Env(granted[p][i].pod, granted[p][i].devs)
       IN IF p \in HamiCore
          THEN env.quota = Own(p, i, "mem") /\ env.priority = Own(p, i, "core")
          ELSE env.spec = Own(p, i, "temp")
=============================================================================
