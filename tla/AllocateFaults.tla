--------------------------- MODULE AllocateFaults ---------------------------
(***************************************************************************)
(* Allocate with the two events its pop semantics cannot tell from normal  *)
(* operation: kubelet restarts and asks again for a container whose answer *)
(* it lost, and the scheduler breaks a lock whose pod is still waiting for *)
(* kubelet.  Allocate's own invariants need neither to happen.             *)
(***************************************************************************)
EXTENDS Allocate

CONSTANT MaxFaults  \* bound on the two events together

ASSUME BoundAssumption == MaxFaults \in Nat

(* The API server takes no pod whose containers share a name.               *)
ASSUME NameAssumption ==
  \A p \in Pods : \A i, j \in Wanted[p] :
     KubeletNames(p)[i] = KubeletNames(p)[j] => i = j

VARIABLES
  faults,     \* how many have happened
  restored    \* history: some patch brought back an entry another had erased

faultVars == <<vars, faults, restored>>

FaultInit == Init /\ faults = 0 /\ restored = FALSE

OneMoreFault == faults < MaxFaults /\ faults' = faults + 1

(* Kubelet keeps the answers it has recorded, loses the call in flight and *)
(* admits the pod again.  Its connection is gone: the handler runs on.     *)
KubeletRestart ==
  /\ OneMoreFault
  /\ waiting # NoCall
  /\ waiting' = NoCall
  /\ kstate' = [kstate EXCEPT ![call[waiting].who] = "bound"]
  /\ UNCHANGED <<nodeLock, podVars, granted, call, known, dirs, restored>>

(* Five minutes pass before kubelet has settled the pod.                    *)
EarlyLockExpiry(p) ==
  /\ OneMoreFault
  /\ nodeLock = p
  /\ kstate[p] \in {"bound", "admitting"}
  /\ nodeLock' = NoPod
  /\ UNCHANGED <<podVars, kubeletVars, call, known, dirs, restored>>

(* The patch of a handler that outlived its call writes a copy that is      *)
(* older than the patches of the calls after it.                           *)
Restores ==
  \E p \in Pods, i \in Slots :
     bindPhase[p] # "none" /\ toAlloc'[p][i] \notin {toAlloc[p][i], <<>>}

Protocol == Next /\ UNCHANGED faults /\ restored' = (restored \/ Restores)

FaultNext == Protocol \/ KubeletRestart \/ \E p \in Pods : EarlyLockExpiry(p)

FaultSpec == FaultInit /\ [][FaultNext]_faultVars
RetrySpec == FaultInit /\ [][Protocol \/ KubeletRestart]_faultVars

-----------------------------------------------------------------------------
(* What survives: an answer is always one whole decision of the scheduler, *)
(* devices and directory name of the same container of the same pod; the   *)
(* handler never mixes two (the work copy and the pod are read together).  *)
GrantsAreWhole ==
  \A p \in Pods, i \in Slots : granted[p][i] # NoGrant =>
     \E q \in Pods : \E k \in Wanted[q] : granted[p][i] = Expected[q][k]

(* And no decision is handed out twice, to whichever pod or container, by  *)
(* any mixture of calls: as long as no patch has brought an entry back,    *)
(* which takes a handler that outlived its call (allocate.go, the patch of *)
(* the whole annotation from the copy read at the start).                  *)
GrantedOnce ==
  ~restored =>
    \A p, q \in Pods, i, j \in Slots :
       granted[p][i] = granted[q][j] /\ granted[p][i] # NoGrant => p = q /\ i = j
=============================================================================
