-------------------------- MODULE MCAllocateFaults --------------------------
(* Small instances of AllocateFaults: the pods of MCAllocate, where p2 has  *)
(* a third container, so that a late patch can bring back an entry.         *)
EXTENDS MCAllocate, AllocateFaults

FaultNames == [MCNames EXCEPT ![p2] = <<"main", "side", "more">>]
FaultAssigned == [MCAssigned EXCEPT ![p2] = <<<<d2, d1>>, <<d1>>, <<d2>>>>]
FaultAsked == [MCAsked EXCEPT ![p2] = <<2, 1, 1>>]
=============================================================================
