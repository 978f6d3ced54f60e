----------------------------- MODULE VnpuConfig -----------------------------
(***************************************************************************)
(* Which entry of the device config describes the node's chip.  Several    *)
(* entries may carry the same chip name (310P cards of 24G and of 48G); a   *)
(* probe of the card's memory then chooses between them.                   *)
(***************************************************************************)
EXTENDS Integers, Sequences, FiniteSets

CONSTANTS
  Words,     \* the commonWords of the entries
  Chips,     \* the chip names
  DevTypes,  \* the device types
  Memories,  \* what the probe may read; 0 is a failed probe
  Unset      \* a chip name or device type left out of an entry

(* A VNPUConfig: the memory band is [min, max), 0 is no bound.              *)
Entries == [word : Words, chip : Chips \cup {Unset}, type : DevTypes \cup {Unset},
            min : Memories, max : Memories]

ASSUME MemoryAssumption == Memories \subseteq Nat /\ 0 \in Memories
ASSUME UnsetAssumption == Unset \notin Chips /\ Unset \notin DevTypes

HasMemoryBand(c) == c.min > 0 \/ c.max > 0

(* Mutant: the upper bound belongs to the band.                             *)
MatchesUpToMax(c, m) ==
  HasMemoryBand(c) => /\ m # 0
                      /\ c.min > 0 => c.min <= m
                      /\ c.max > 0 => m <= c.max

ConfigMatchesMemory(c, m) ==
  HasMemoryBand(c) => /\ m # 0
                      /\ c.min > 0 => c.min <= m
                      /\ c.max > 0 => m < c.max

First(S) == CHOOSE i \in S : \A j \in S : i <= j

(* The index -1 of the code is 0 here.                                      *)
None == 0

(* Mutant: without a fitting entry, the index at which the search ended.     *)
PickPastTheLast(cfgs, I, m) ==
  LET fits  == {i \in I : HasMemoryBand(cfgs[i]) /\ ConfigMatchesMemory(cfgs[i], m)}
      plain == {i \in I : ~HasMemoryBand(cfgs[i])}
  IN CASE I = {} -> None
       [] fits \cup plain # {} -> First(IF fits # {} THEN fits ELSE plain)
       [] OTHER -> Len(cfgs) + 1

(* A single candidate is taken whatever its band says.                      *)
PickFromCandidates(cfgs, I, m) ==
  LET fits  == {i \in I : HasMemoryBand(cfgs[i]) /\ ConfigMatchesMemory(cfgs[i], m)}
      plain == {i \in I : ~HasMemoryBand(cfgs[i])}
  IN CASE I = {} -> None
       [] Cardinality(I) = 1 -> First(I)
       [] OTHER -> First(IF fits # {} THEN fits ELSE IF plain # {} THEN plain ELSE I)

Exact(cfgs, chip) == {i \in DOMAIN cfgs : cfgs[i].chip = chip}
ByType(cfgs, type) == {i \in DOMAIN cfgs : cfgs[i].type = type}
Typed(cfgs, chip, type) == {i \in ByType(cfgs, type) : cfgs[i].chip \in {Unset, chip}}

IndexVNPUConfig(cfgs, chip, type, m) ==
  IF Exact(cfgs, chip) # {} THEN PickFromCandidates(cfgs, Exact(cfgs, chip), m)
  ELSE IF Typed(cfgs, chip, type) # {} THEN PickFromCandidates(cfgs, Typed(cfgs, chip, type), m)
  ELSE PickFromCandidates(cfgs, ByType(cfgs, type), m)

(* Mutant: siblings by device type, which an entry need not have.           *)
StaleWordsOfType(cfgs, k) ==
  {cfgs[i].word : i \in {j \in DOMAIN cfgs :
      cfgs[j].type # Unset /\ cfgs[j].type = cfgs[k].type /\ cfgs[j].word # cfgs[k].word}}

(* StaleRegisterCommonWords: the other words of the chosen entry's chip.    *)
StaleRegisterCommonWords(cfgs, k) ==
  {cfgs[i].word : i \in {j \in DOMAIN cfgs :
      cfgs[j].chip # Unset /\ cfgs[j].chip = cfgs[k].chip /\ cfgs[j].word # cfgs[k].word}}

-----------------------------------------------------------------------------
(* What the comments of VNPUConfig and indexVNPUConfig promise, as an order *)
(* of preference.                                                          *)

Match(c, chip, type) ==
  IF c.chip = chip THEN 3
  ELSE IF c.type # type THEN 0
  ELSE IF c.chip = Unset THEN 2 ELSE 1

InBand(c, m) == m > 0 /\ m >= c.min /\ (c.max = 0 \/ m < c.max)

Fit(c, m) ==
  IF c.min = 0 /\ c.max = 0 THEN 1 ELSE IF InBand(c, m) THEN 2 ELSE 0

Better(cfgs, i, j, chip, type, m) ==
  LET a == Match(cfgs[i], chip, type)  b == Match(cfgs[j], chip, type)
  IN \/ a > b
     \/ a = b /\ Fit(cfgs[i], m) > Fit(cfgs[j], m)
     \/ a = b /\ Fit(cfgs[i], m) = Fit(cfgs[j], m) /\ i < j

Preferred(cfgs, chip, type, m) ==
  {i \in DOMAIN cfgs : /\ Match(cfgs[i], chip, type) > 0
                       /\ \A j \in DOMAIN cfgs \ {i} : Better(cfgs, i, j, chip, type, m)}
=============================================================================
