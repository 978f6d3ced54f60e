---------------------------- MODULE DeviceGrants ----------------------------
(***************************************************************************)
(* What a node promises to the pods placed on it.  The scheduler decided,  *)
(* for every container of every pod, which NPUs it gets; kubelet starts a  *)
(* pod once each of its containers that asks for NPUs was given exactly    *)
(* that decision, in the order of its containers, and never gives it       *)
(* anything else.  A pod that is not served is rejected as a whole.        *)
(***************************************************************************)
EXTENDS Naturals

CONSTANTS Pods,      \* the pods placed on the node
          Slots,     \* the positions of containers in a pod: init, then regular
          Wanted,    \* Wanted[p]: the slots of p whose container asks for NPUs
          Expected,  \* Expected[p][i]: what the scheduler decided for slot i of p
          NoGrant    \* a slot that was given nothing yet

VARIABLES outcome,   \* outcome[p]: "waiting", "running" or "rejected"
          given      \* given[p][i]: what kubelet holds for slot i of p

vars == <<outcome, given>>

Init == /\ outcome = [p \in Pods |-> "waiting"]
        /\ given = [p \in Pods |-> [i \in Slots |-> NoGrant]]

Missing(p) == {i \in Wanted[p] : given[p][i] = NoGrant}

(* The next containers of p, in order, are given what was decided for them; *)
(* p runs once nothing is missing.                                          *)
Grant(p, R) ==
  /\ outcome[p] = "waiting"
  /\ R # {}
  /\ R \subseteq Missing(p)
  /\ \A i \in R, j \in Missing(p) : j < i => j \in R
  /\ given' = [given EXCEPT ![p] =
                 [i \in Slots |-> IF i \in R THEN Expected[p][i] ELSE given[p][i]]]
  /\ outcome' = [outcome EXCEPT ![p] = IF Missing(p) = R THEN "running" ELSE "waiting"]

Reject(p) ==
  /\ outcome[p] = "waiting"
  /\ outcome' = [outcome EXCEPT ![p] = "rejected"]
  /\ UNCHANGED given

Next == \E p \in Pods : Reject(p) \/ \E R \in SUBSET Slots : Grant(p, R)

Spec == Init /\ [][Next]_vars

(* What follows from the promise: a running pod holds, in every slot that   *)
(* asks for NPUs, the devices decided for that very slot.                   *)
RunningIsServed ==
  \A p \in Pods : outcome[p] = "running" =>
                    \A i \in Wanted[p] : given[p][i] = Expected[p][i]
=============================================================================
