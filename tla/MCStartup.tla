------------------------------ MODULE MCStartup ------------------------------
(* A small instance of Startup: three cards, the first ignored by UUID and *)
(* the second by index, with a vNPU on the first and one on the third.     *)
EXTENDS Startup

CONSTANTS c1, c2, c3, v1, v3

MCCards == <<c1, c2, c3>>
MCCardOf == [v \in VNpus |-> IF v = v1 THEN c1 ELSE c3]
MCFiles == {"libvnpu.so", "ld.so.preload"}
MCChipSets == {{c3}}
=============================================================================
