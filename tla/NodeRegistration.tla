-------------------------- MODULE NodeRegistration --------------------------
(***************************************************************************)
(* The SKU a node is advertised under.  A plugin process chooses an entry  *)
(* of the device config when it boots, by the chip's name and its memory,  *)
(* and then writes the annotations of that entry's commonWord on the node, *)
(* clearing those an earlier process left under a sibling's word.  The     *)
(* card may be another one, or its probe fail, at the next boot; reading   *)
(* and patching the node are two API calls, either of which may fail.      *)
(***************************************************************************)
EXTENDS VnpuConfig

CONSTANTS
  Configs,            \* the device configs: sequences of entries
  Chip, DevType,      \* what the driver says of the node's chip
  MaxBoots,           \* how often the process boots
  MaxFailures         \* how many API calls fail

ASSUME ConfigsAssumption == Configs \subseteq Seq(Entries)
ASSUME ChipAssumption == Chip \in Chips /\ DevType \in DevTypes
ASSUME LimitsAssumption == MaxBoots \in Nat /\ MaxFailures \in Nat

VARIABLES
  cfgs,      \* globalConfig.VNPUs.Configs
  pc,        \* where the process is
  memory,    \* what the last boot's probe read
  chosen,    \* the index of am.config; None when no process runs
  clears,    \* what staleRegisterAnnotations found to clear on the node it read
  node,      \* node[w]: the register and handshake annotations of a word
  label,     \* the node label hami.io/ascend-common-word
  late,      \* a patch of a dead process the API server has not applied yet
  boots, failures

local  == <<pc, memory, chosen, clears>>
remote == <<node, label>>
vars   == <<cfgs, local, remote, late, boots, failures>>

-----------------------------------------------------------------------------
Absent == "absent"
Annotations == [reg : {Absent, "empty", "devices"}, hs : {Absent, "cleared", "reported"}]

(* A patch: the word registered, and the words of each annotation cleared.  *)
Patches == [word : Words, reg : SUBSET Words, hs : SUBSET Words]
NoPatch == [word |-> Absent, reg |-> {}, hs |-> {}]

Word == cfgs[chosen].word

(* staleRegisterAnnotations: only annotations the node has are cleared.     *)
StaleRegisterAnnotations ==
  LET stale == StaleRegisterCommonWords(cfgs, chosen)
  IN [word |-> Word, reg  |-> {w \in stale : node[w].reg # Absent},
                     hs   |-> {w \in stale : node[w].hs # Absent}]

(* Mutant: the handshake of a cleared word is left as it was.               *)
PatchedWithHandshakes(p) ==
  [w \in Words |->
     IF w = p.word THEN [reg |-> "devices", hs |-> "reported"]
     ELSE [reg |-> IF w \in p.reg THEN "empty" ELSE node[w].reg, hs |-> node[w].hs]]

Patched(p) ==
  [w \in Words |->
     IF w = p.word THEN [reg |-> "devices", hs |-> "reported"]
     ELSE [reg |-> IF w \in p.reg THEN "empty" ELSE node[w].reg,
           hs  |-> IF w \in p.hs THEN "cleared" ELSE node[w].hs]]

Init ==
  /\ cfgs \in Configs
  /\ pc = "down" /\ memory = 0 /\ chosen = None /\ clears = NoPatch
  /\ node = [w \in Words |-> [reg |-> Absent, hs |-> Absent]]
  /\ label = Absent
  /\ late = NoPatch
  /\ boots = 0 /\ failures = 0

-----------------------------------------------------------------------------
(* LoadConfig: without an entry for the chip the process ends, and the      *)
(* container is started again.                                              *)
LoadConfig(m) ==
  /\ pc = "down" /\ boots < MaxBoots
  /\ boots' = boots + 1
  /\ memory' = m
  /\ chosen' = IndexVNPUConfig(cfgs, Chip, DevType, m)
  /\ pc' = IF chosen' = None THEN "down" ELSE "read"
  /\ UNCHANGED <<cfgs, clears, remote, late, failures>>

GetNode ==
  /\ pc = "read"
  /\ clears' = StaleRegisterAnnotations
  /\ pc' = "patch"
  /\ UNCHANGED <<cfgs, memory, chosen, remote, late, boots, failures>>

PatchNodeAnnotations ==
  /\ pc = "patch"
  /\ node' = Patched(clears)
  /\ clears' = NoPatch
  /\ pc' = "label"
  /\ UNCHANGED <<cfgs, memory, chosen, label, late, boots, failures>>

(* Mutant: a label that is there is kept.                                   *)
LabelWrittenOnce ==
  /\ pc = "label"
  /\ label' = IF label = Absent THEN Word ELSE label
  /\ pc' = "read"
  /\ UNCHANGED <<cfgs, memory, chosen, clears, node, late, boots, failures>>

(* Either way the next tick of watchAndRegister registers again.            *)
PatchAscendCommonWordLabel ==
  /\ pc = "label"
  /\ label' = Word
  /\ pc' = "read"
  /\ UNCHANGED <<cfgs, memory, chosen, clears, node, late, boots, failures>>

(* A call fails, with its effect or without; registerHAMi is left with an   *)
(* error, or with a warning from the last of its calls.                     *)
CallFails ==
  /\ pc \in {"read", "patch", "label"}
  /\ failures < MaxFailures /\ failures' = failures + 1
  /\ \/ UNCHANGED remote
     \/ pc = "patch" /\ node' = Patched(clears) /\ UNCHANGED label
     \/ pc = "label" /\ label' = Word /\ UNCHANGED node
  /\ clears' = NoPatch
  /\ pc' = "read"
  /\ UNCHANGED <<cfgs, memory, chosen, late, boots>>

(* The process dies, perhaps with its patch on the way.                     *)
Dies ==
  /\ pc \in {"read", "patch", "label"} /\ boots < MaxBoots
  /\ \/ UNCHANGED late
     \/ pc = "patch" /\ late = NoPatch /\ late' = clears
  /\ pc' = "down" /\ chosen' = None /\ clears' = NoPatch
  /\ UNCHANGED <<cfgs, memory, remote, boots, failures>>

LatePatchLands ==
  /\ late # NoPatch
  /\ node' = Patched(late)
  /\ late' = NoPatch
  /\ UNCHANGED <<cfgs, local, label, boots, failures>>

Boot == \E m \in Memories : LoadConfig(m)
RegisterHAMi == GetNode \/ PatchNodeAnnotations \/ PatchAscendCommonWordLabel
Next == Boot \/ RegisterHAMi \/ CallFails \/ Dies \/ LatePatchLands

Spec == Init /\ [][Next]_vars

(* The kubelet starts the container again, the loop ticks for ever, and the *)
(* API server applies or drops what it has received.                        *)
Fairness == WF_vars(Boot) /\ WF_vars(RegisterHAMi) /\ WF_vars(LatePatchLands)
LiveSpec == Spec /\ Fairness

-----------------------------------------------------------------------------
TypeOK ==
  /\ cfgs \in Configs
  /\ pc \in {"down", "read", "patch", "label"}
  /\ memory \in Memories
  /\ chosen \in DOMAIN cfgs \cup {None}
  /\ clears \in Patches \cup {NoPatch} /\ late \in Patches \cup {NoPatch}
  /\ node \in [Words -> Annotations]
  /\ label \in Words \cup {Absent}
  /\ boots \in 0..MaxBoots /\ failures \in 0..MaxFailures

(* The process that runs goes by the one entry indexVNPUConfig's comment    *)
(* prefers: the exact chip name before the device type, then the band that  *)
(* holds the memory, an entry without a band, the first.                    *)
ChoiceIsPreferred == pc # "down" => Preferred(cfgs, Chip, DevType, memory) = {chosen}

(* The words under which the scheduler finds devices, or a plugin alive.    *)
Advertised == {w \in Words : node[w].reg = "devices" \/ node[w].hs = "reported"}

(* Whatever earlier processes registered, with other readings of the        *)
(* memory or by a patch that landed after their death, the process that    *)
(* runs counts it as its own word or as one to clear: no word is orphaned  *)
(* (StaleRegisterCommonWords), provided the entries carry the chip's name. *)
AdvertisedIsCleared ==
  pc # "down" /\ Exact(cfgs, Chip) # {} =>
     Advertised \subseteq {Word} \cup StaleRegisterCommonWords(cfgs, chosen)

(* One successful registration is enough: a patch decided on the node as it *)
(* still is leaves the process's word alone advertised.  A patch of a dead *)
(* process that lands after the read can spoil it, till the next tick.     *)
PatchLeavesOneSku ==
  [][pc = "patch" /\ pc' = "label" /\ clears = StaleRegisterAnnotations
       /\ Exact(cfgs, Chip) # {} => Advertised' = {Word}]_vars

(* However often the chip's memory changes or cannot be read, and whichever *)
(* calls fail or come late: once the process stays, the scheduler sees its  *)
(* word alone, provided the chip's entries are found by their chip name.    *)
OneSkuAdvertised ==
  Exact(cfgs, Chip) # {} =>
    <>[](/\ chosen # None
         /\ node[Word] = [reg |-> "devices", hs |-> "reported"]
         /\ \A w \in Words \ {Word} : node[w].reg # "devices" /\ node[w].hs # "reported")

(* The label follows the entry, whatever label an earlier process left.     *)
LabelFollowsChoice == Exact(cfgs, Chip) # {} => <>[](chosen # None /\ label = Word)
=============================================================================
