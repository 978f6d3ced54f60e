------------------------------ MODULE MCMonitor ------------------------------
(* Small instances of Monitor.                                              *)
EXTENDS Monitor

LOCAL INSTANCE SequencesExt

CONSTANTS p1, d1, d2, d3

(* An init container without devices, one container with two devices and   *)
(* one with a third.                                                       *)
MCInitNames == [p \in Pods |-> <<"init">>]
MCNames == [p \in Pods |-> <<"main", "side">>]
MCAssigned == [p \in Pods |-> <<<<>>, <<d2, d1>>, <<d3>>>>]
MCAsked == [p \in Pods |-> <<0, 2, 1>>]

Limits(m, c) == [mem |-> m, core |-> c, temp |-> Unset]
MCInfo == [p \in Pods |-> <<<<>>, <<Limits(3, Unset), Limits(4, 40)>>, <<Limits(1, 10)>>>>]
MCRuntimeInfos == [p \in Pods |->
  FlattenSeq([i \in Slots |-> [n \in DOMAIN Assigned[p][i] |-> Entry(p, i, n)]])]
MCVnpuMode == [p \in Pods |-> Unset]
Found == {{d1, d2, d3}, {d1, d2}}
=============================================================================
