----------------------- MODULE NodeRegistrationProofs -----------------------
(***************************************************************************)
(* Proofs about the choice of the config entry, for every device config,   *)
(* chip, device type and reading of the memory.                            *)
(***************************************************************************)
EXTENDS NodeRegistration, FiniteSetTheorems, WellFoundedInduction, TLAPS

-----------------------------------------------------------------------------
(* First, on which every loop of the choice rests, is a least element.      *)
LEMMA FirstIsLeast ==
  ASSUME NEW S \in SUBSET Nat, S # {}
  PROVE  First(S) \in S /\ \A j \in S : First(S) <= j
  <1> DEFINE R == {ss \in Nat \X Nat : ss[1] < ss[2]}
  <1>1. IsWellFoundedOn(R, Nat)
    BY NatLessThanWellFounded DEF OpToRel
  <1> HIDE DEF R
  <1>2. PICK x \in S : \A y \in S : ~(<<y, x>> \in R)
    BY <1>1, WFMin
  <1>3. \A y \in S : ~(y < x)
    BY <1>2 DEF R
  <1>4. \A y \in S : x <= y
    BY <1>3
  <1> QED
    BY <1>4 DEF First

(* The reference's band is the code's.                                      *)
LEMMA BandIsMatched ==
  ASSUME NEW c \in Entries, NEW m \in Memories
  PROVE  /\ HasMemoryBand(c) <=> Fit(c, m) # 1
         /\ HasMemoryBand(c) => (ConfigMatchesMemory(c, m) <=> Fit(c, m) = 2)
         /\ Fit(c, m) \in 0..2
  <1>1. c.min \in Nat /\ c.max \in Nat /\ m \in Nat
    BY MemoryAssumption DEF Entries
  <1> QED
    BY <1>1 DEF HasMemoryBand, ConfigMatchesMemory, Fit, InBand

(* Among candidates, the entry picked fits best, and is the first to do so. *)
BestOf(s, I, i, m) ==
  i \in I /\ \A j \in I \ {i} : \/ Fit(s[i], m) > Fit(s[j], m)
                                \/ Fit(s[i], m) = Fit(s[j], m) /\ i < j

(* pickFromCandidates returns the best of its candidates.                   *)
LEMMA PickIsBest ==
  ASSUME NEW s \in Seq(Entries), NEW I \in SUBSET DOMAIN s, I # {}, NEW m \in Memories
  PROVE  BestOf(s, I, PickFromCandidates(s, I, m), m)
  <1> DEFINE fits  == {i \in I : HasMemoryBand(s[i]) /\ ConfigMatchesMemory(s[i], m)}
             plain == {i \in I : ~HasMemoryBand(s[i])}
             J == IF fits # {} THEN fits ELSE IF plain # {} THEN plain ELSE I
             i == First(J)
  <1>1. I \subseteq Nat /\ IsFiniteSet(I)
    <2>1. DOMAIN s = 1..Len(s) /\ Len(s) \in Nat
      OBVIOUS
    <2>2. IsFiniteSet(1..Len(s))
      BY <2>1, FS_Interval
    <2> QED
      BY <2>1, <2>2, FS_Subset
  <1>2. \A j \in I : s[j] \in Entries
    OBVIOUS
  <1>3. CASE Cardinality(I) = 1
    <2>1. PICK x : I = {x}
      BY <1>1, <1>3, FS_Singleton
    <2>2. PickFromCandidates(s, I, m) = First(I)
      BY <1>3 DEF PickFromCandidates
    <2>3. First(I) = x
      BY <1>1, <2>1, FirstIsLeast
    <2> QED
      BY <2>1, <2>2, <2>3 DEF BestOf
  <1>4. CASE Cardinality(I) # 1
    <2>1. PickFromCandidates(s, I, m) = i
      BY <1>4 DEF PickFromCandidates
    <2>2. J \in SUBSET Nat /\ J # {} /\ J \subseteq I
      BY <1>1
    <2>3. i \in J /\ \A j \in J : i <= j
      BY <2>2, FirstIsLeast
    <2>4. \A j \in I : /\ Fit(s[j], m) \in 0..2
                       /\ j \in fits <=> Fit(s[j], m) = 2
                       /\ j \in plain <=> Fit(s[j], m) = 1
      BY <1>2, BandIsMatched
    <2> HIDE DEF fits, plain, i
    <2>5. ASSUME NEW j \in I \ {i}
          PROVE  \/ Fit(s[i], m) > Fit(s[j], m)
                 \/ Fit(s[i], m) = Fit(s[j], m) /\ i < j
      <3>1. i \in Nat /\ j \in Nat /\ i \in I /\ j \in I /\ i # j
        BY <1>1, <2>2, <2>3
      <3>2. CASE j \in J
        <4>1. i < j
          BY <2>3, <3>1, <3>2
        <4>2. Fit(s[i], m) = Fit(s[j], m)
          BY <2>2, <2>3, <2>4, <3>1, <3>2
        <4> QED
          BY <4>1, <4>2
      <3>3. CASE j \notin J
        BY <2>3, <2>4, <3>1, <3>3
      <3> QED
        BY <3>2, <3>3
    <2> QED
      BY <2>1, <2>2, <2>3, <2>5 DEF BestOf
  <1> QED
    BY <1>3, <1>4

(* If I holds the entries that match best, the one picked is preferred.      *)
LEMMA LevelPreferred ==
  ASSUME NEW s \in Seq(Entries), NEW m \in Memories,
         NEW I \in SUBSET DOMAIN s, I # {}, NEW l \in 1..3,
         \A j \in DOMAIN s : /\ Match(s[j], Chip, DevType) \in 0..l
                             /\ j \in I <=> Match(s[j], Chip, DevType) = l
  PROVE  Preferred(s, Chip, DevType, m) = {PickFromCandidates(s, I, m)}
  <1> DEFINE i == PickFromCandidates(s, I, m)
  <1>1. BestOf(s, I, i, m)
    BY PickIsBest
  <1>2. \A j \in DOMAIN s : j \in Nat /\ Fit(s[j], m) \in 0..2
    BY BandIsMatched
  <1> HIDE DEF i
  <1>3. i \in I /\ i \in DOMAIN s /\ Match(s[i], Chip, DevType) = l
    <2>1. i \in I
      BY <1>1 DEF BestOf
    <2>2. i \in DOMAIN s
      BY <2>1
    <2> QED
      BY <2>1, <2>2
  <1>4. ASSUME NEW j \in DOMAIN s \ {i}
        PROVE  /\ Better(s, i, j, Chip, DevType, m)
               /\ ~Better(s, j, i, Chip, DevType, m)
    <2>0. j \in DOMAIN s /\ j # i /\ l \in Int
      OBVIOUS
    <2>1. CASE j \in I
      <3>1. \/ Fit(s[i], m) > Fit(s[j], m)
            \/ Fit(s[i], m) = Fit(s[j], m) /\ i < j
        BY <1>1, <2>0, <2>1 DEF BestOf
      <3>2. Match(s[j], Chip, DevType) = l
        BY <2>0, <2>1
      <3>3. /\ i \in Nat /\ Fit(s[i], m) \in 0..2
            /\ j \in Nat /\ Fit(s[j], m) \in 0..2
        BY <1>2, <1>3, <2>0
      <3> QED
        BY <1>3, <2>0, <3>1, <3>2, <3>3 DEF Better
    <2>2. CASE j \notin I
      <3>1. Match(s[j], Chip, DevType) \in 0..l /\ Match(s[j], Chip, DevType) # l
        BY <2>0, <2>2
      <3>2. Match(s[j], Chip, DevType) < l
        BY <2>0, <3>1
      <3> QED
        BY <1>3, <2>0, <3>1, <3>2 DEF Better
    <2> QED
      BY <2>1, <2>2
  <1>5. i \in Preferred(s, Chip, DevType, m)
    BY <1>3, <1>4 DEF Preferred
  <1>6. ASSUME NEW k \in Preferred(s, Chip, DevType, m), k # i PROVE FALSE
    BY <1>3, <1>4, <1>6 DEF Preferred
  <1> QED
    BY <1>5, <1>6 DEF i

(* The three candidate lists are the levels of Match, the best one first.   *)
LEMMA IndexIsPreferred ==
  ASSUME NEW s \in Seq(Entries), NEW m \in Memories,
         IndexVNPUConfig(s, Chip, DevType, m) # None
  PROVE  Preferred(s, Chip, DevType, m) = {IndexVNPUConfig(s, Chip, DevType, m)}
  <1> DEFINE E == Exact(s, Chip)
             T == Typed(s, Chip, DevType)
             B == ByType(s, DevType)
  <1>0. Chip # Unset /\ DevType # Unset
    BY ChipAssumption, UnsetAssumption
  <1>1. E \in SUBSET DOMAIN s /\ T \in SUBSET DOMAIN s /\ B \in SUBSET DOMAIN s
    BY DEF Exact, Typed, ByType
  <1>2. \A j \in DOMAIN s :
          /\ Match(s[j], Chip, DevType) \in 0..3
          /\ j \in E <=> Match(s[j], Chip, DevType) = 3
          /\ j \notin E => (j \in T <=> Match(s[j], Chip, DevType) = 2)
          /\ j \notin E /\ j \notin T => (j \in B <=> Match(s[j], Chip, DevType) = 1)
    BY <1>0 DEF Match, Exact, Typed, ByType
  <1> HIDE DEF E, T, B
  <1>3. CASE E # {}
    <2>1. IndexVNPUConfig(s, Chip, DevType, m) = PickFromCandidates(s, E, m)
      BY <1>3 DEF IndexVNPUConfig, E
    <2> QED
      BY <1>1, <1>2, <1>3, <2>1, LevelPreferred
  <1>4. CASE E = {} /\ T # {}
    <2>1. IndexVNPUConfig(s, Chip, DevType, m) = PickFromCandidates(s, T, m)
      BY <1>4 DEF IndexVNPUConfig, E, T
    <2>2. \A j \in DOMAIN s : /\ Match(s[j], Chip, DevType) \in 0..2
                              /\ j \in T <=> Match(s[j], Chip, DevType) = 2
      BY <1>2, <1>4
    <2> QED
      BY <1>1, <1>4, <2>1, <2>2, LevelPreferred
  <1>5. CASE E = {} /\ T = {}
    <2>1. IndexVNPUConfig(s, Chip, DevType, m) = PickFromCandidates(s, B, m)
      BY <1>5 DEF IndexVNPUConfig, E, T, B
    <2>2. \A j \in DOMAIN s : /\ Match(s[j], Chip, DevType) \in 0..1
                              /\ j \in B <=> Match(s[j], Chip, DevType) = 1
      BY <1>2, <1>5
    <2>3. B # {}
      <3>1. PickFromCandidates(s, {}, m) = None
        BY FS_EmptySet DEF PickFromCandidates
      <3> QED
        BY <2>1, <3>1
    <2> QED
      BY <1>1, <2>1, <2>2, <2>3, LevelPreferred
  <1> QED
    BY <1>3, <1>4, <1>5

(* What is chosen is an entry of the config.                                *)
LEMMA IndexType ==
  ASSUME NEW s \in Seq(Entries), NEW m \in Memories
  PROVE  IndexVNPUConfig(s, Chip, DevType, m) \in DOMAIN s \cup {None}
  BY IndexIsPreferred DEF Preferred

-----------------------------------------------------------------------------
(* The invariant: a process that runs has chosen by the memory it probed.   *)

ChosenInv ==
  pc # "down" => /\ chosen = IndexVNPUConfig(cfgs, Chip, DevType, memory)
                 /\ chosen # None

(* The word of the process, when one runs, is a word.                       *)
LEMMA WordType ==
  ASSUME TypeOK, ChosenInv, pc # "down"
  PROVE  Word \in Words
  <1>1. cfgs \in Seq(Entries) /\ chosen \in DOMAIN cfgs
    BY ConfigsAssumption DEF TypeOK, ChosenInv
  <1>2. cfgs[chosen] \in Entries
    BY <1>1
  <1> QED
    BY <1>2 DEF Word, Entries

(* Clearing and setting annotations keeps them well typed.                  *)
LEMMA PatchedType ==
  ASSUME NEW p, node \in [Words -> Annotations]
  PROVE  Patched(p) \in [Words -> Annotations]
  BY DEF Patched, Annotations

(* Every variable of NodeRegistration has its type in the initial states.   *)
LEMMA RegistrationInit == Init => TypeOK /\ ChosenInv
  BY MemoryAssumption, LimitsAssumption
  DEF Init, TypeOK, ChosenInv, Annotations, Patches

(* Booting, registering, failing and dying keep the types and the choice.   *)
LEMMA RegistrationStep == TypeOK /\ ChosenInv /\ [Next]_vars => TypeOK' /\ ChosenInv'
  <1> SUFFICES ASSUME TypeOK, ChosenInv, [Next]_vars PROVE TypeOK' /\ ChosenInv'
    OBVIOUS
  <1>t. /\ cfgs \in Configs /\ cfgs \in Seq(Entries) /\ memory \in Memories
        /\ pc \in {"down", "read", "patch", "label"}
        /\ chosen \in DOMAIN cfgs \cup {None}
        /\ clears \in Patches \cup {NoPatch} /\ late \in Patches \cup {NoPatch}
        /\ node \in [Words -> Annotations] /\ label \in Words \cup {Absent}
        /\ boots \in 0..MaxBoots /\ failures \in 0..MaxFailures
    BY ConfigsAssumption DEF TypeOK
  <1>w. pc # "down" => Word \in Words
    BY WordType
  <1>1. ASSUME NEW m \in Memories, LoadConfig(m) PROVE TypeOK' /\ ChosenInv'
    <2>1. IndexVNPUConfig(cfgs, Chip, DevType, m) \in DOMAIN cfgs \cup {None}
      BY <1>t, IndexType
    <2>2. boots' \in 0..MaxBoots
      BY <1>1, <1>t, LimitsAssumption DEF LoadConfig
    <2> QED
      BY <1>1, <1>t, <2>1, <2>2 DEF LoadConfig, TypeOK, ChosenInv, remote
  <1>2. CASE GetNode
    <2>1. StaleRegisterCommonWords(cfgs, chosen) \subseteq Words
      <3>1. \A i \in DOMAIN cfgs : cfgs[i] \in Entries
        BY <1>t
      <3>2. \A i \in DOMAIN cfgs : cfgs[i].word \in Words
        BY <3>1 DEF Entries
      <3> QED
        BY <3>2 DEF StaleRegisterCommonWords
    <2>2. StaleRegisterAnnotations \in Patches
      BY <1>2, <1>w, <2>1 DEF GetNode, StaleRegisterAnnotations, Patches
    <2> QED
      BY <1>2, <1>t, <2>2 DEF GetNode, TypeOK, ChosenInv, remote
  <1>3. CASE PatchNodeAnnotations
    BY <1>3, <1>t, PatchedType DEF PatchNodeAnnotations, TypeOK, ChosenInv
  <1>4. CASE PatchAscendCommonWordLabel
    BY <1>4, <1>t, <1>w DEF PatchAscendCommonWordLabel, TypeOK, ChosenInv
  <1>5. CASE CallFails
    <2>1. node' \in [Words -> Annotations] /\ label' \in Words \cup {Absent}
      BY <1>5, <1>t, <1>w, PatchedType DEF CallFails, remote
    <2>2. failures' \in 0..MaxFailures
      BY <1>5, <1>t, LimitsAssumption DEF CallFails
    <2> QED
      BY <1>5, <1>t, <2>1, <2>2 DEF CallFails, TypeOK, ChosenInv
  <1>6. CASE Dies
    BY <1>6, <1>t DEF Dies, TypeOK, ChosenInv, remote
  <1>7. CASE LatePatchLands
    BY <1>7, <1>t, PatchedType DEF LatePatchLands, TypeOK, ChosenInv, local
  <1>8. CASE UNCHANGED vars
    BY <1>8 DEF vars, local, remote, TypeOK, ChosenInv
  <1> QED
    BY <1>1, <1>2, <1>3, <1>4, <1>5, <1>6, <1>7, <1>8 DEF Next, Boot, RegisterHAMi

(* Every reachable state of NodeRegistration is well typed, for any device  *)
(* configs and any number of boots and failures.                           *)
THEOREM TypeCorrect == Spec => []TypeOK
  BY RegistrationInit, RegistrationStep, PTL DEF Spec

(* Whatever the device config holds and the probe reads, the entry that     *)
(* LoadConfig goes by is the one indexVNPUConfig's comment prefers.        *)
THEOREM ChoiceCorrect == Spec => []ChoiceIsPreferred
  <1>1. TypeOK /\ ChosenInv => ChoiceIsPreferred
    <2> SUFFICES ASSUME TypeOK, ChosenInv, pc # "down"
                 PROVE  Preferred(cfgs, Chip, DevType, memory) = {chosen}
      BY DEF ChoiceIsPreferred
    <2>1. cfgs \in Seq(Entries) /\ memory \in Memories
      BY ConfigsAssumption DEF TypeOK
    <2> QED
      BY <2>1, IndexIsPreferred DEF ChosenInv
  <1> QED
    BY <1>1, RegistrationInit, RegistrationStep, PTL DEF Spec

-----------------------------------------------------------------------------
(* AdvertisedIsCleared.  Only words of the chip's entries ever reach the    *)
(* node, at once or by a late patch, and they are siblings of each other.  *)

ChipWords == {cfgs[i].word : i \in Exact(cfgs, Chip)}

SkuInv ==
  /\ Advertised \subseteq ChipWords
  /\ late # NoPatch => late.word \in ChipWords
  /\ pc = "patch" => clears.word = Word

(* The process runs with an entry of the chip, when there is one.           *)
LEMMA ChosenIsExact ==
  ASSUME TypeOK, ChosenInv, pc # "down", Exact(cfgs, Chip) # {}
  PROVE  chosen \in Exact(cfgs, Chip)
  <1>1. cfgs \in Seq(Entries) /\ memory \in Memories
    BY ConfigsAssumption DEF TypeOK
  <1>2. chosen = PickFromCandidates(cfgs, Exact(cfgs, Chip), memory)
    BY DEF ChosenInv, IndexVNPUConfig
  <1>3. Exact(cfgs, Chip) \in SUBSET DOMAIN cfgs
    BY DEF Exact
  <1> QED
    BY <1>1, <1>2, <1>3, PickIsBest DEF BestOf

(* The words of the chip are the process's word and those it clears.        *)
LEMMA ChipWordsCleared ==
  ASSUME TypeOK, ChosenInv, pc # "down", Exact(cfgs, Chip) # {}
  PROVE  /\ Word \in ChipWords
         /\ ChipWords \subseteq {Word} \cup StaleRegisterCommonWords(cfgs, chosen)
  <1>1. chosen \in Exact(cfgs, Chip)
    BY ChosenIsExact
  <1>2. Chip # Unset
    BY ChipAssumption, UnsetAssumption
  <1> QED
    BY <1>1, <1>2 DEF ChipWords, Exact, Word, StaleRegisterCommonWords

(* A patch advertises its own word, and no other anew.                      *)
LEMMA PatchedAdvertises ==
  ASSUME NEW p, node' = Patched(p)
  PROVE  Advertised' \subseteq Advertised \cup {p.word}
  BY DEF Advertised, Patched

(* No step brings a word of another chip to the node.                       *)
LEMMA SkuStep ==
  ASSUME TypeOK, ChosenInv, Exact(cfgs, Chip) # {}, SkuInv, [Next]_vars
  PROVE  SkuInv' /\ Exact(cfgs, Chip)' # {}
  <1> USE DEF local, remote
  <1>0. UNCHANGED cfgs
    BY DEF Next, Boot, LoadConfig, RegisterHAMi, GetNode, PatchNodeAnnotations,
           PatchAscendCommonWordLabel, CallFails, Dies, LatePatchLands, vars
  <1>1. ChipWords' = ChipWords /\ Exact(cfgs, Chip)' = Exact(cfgs, Chip)
    BY <1>0 DEF ChipWords, Exact
  <1>2. ASSUME NEW m \in Memories, LoadConfig(m) PROVE SkuInv'
    BY <1>1, <1>2 DEF LoadConfig, SkuInv, Advertised
  <1>3. CASE GetNode
    <2>1. StaleRegisterAnnotations.word = Word
      BY DEF StaleRegisterAnnotations
    <2>2. Word' = Word
      BY <1>0, <1>3 DEF GetNode, Word
    <2> QED
      BY <1>1, <1>3, <2>1, <2>2 DEF GetNode, SkuInv, Advertised
  <1>4. CASE \/ PatchNodeAnnotations
             \/ CallFails /\ pc = "patch" /\ node' = Patched(clears)
    <2>1. pc = "patch" /\ node' = Patched(clears) /\ pc' # "patch" /\ UNCHANGED late
      BY <1>4 DEF PatchNodeAnnotations, CallFails
    <2>2. clears.word \in ChipWords
      BY <2>1, ChipWordsCleared DEF SkuInv
    <2>3. Advertised' \subseteq ChipWords
      BY <2>1, <2>2, PatchedAdvertises DEF SkuInv
    <2> QED
      BY <1>1, <2>1, <2>3 DEF SkuInv
  <1>5. CASE PatchAscendCommonWordLabel \/ (CallFails /\ UNCHANGED node)
    BY <1>1, <1>5 DEF PatchAscendCommonWordLabel, CallFails, SkuInv, Advertised
  <1>6. CASE Dies
    <2>1. late' # NoPatch => late'.word \in ChipWords
      <3>1. CASE UNCHANGED late
        BY <3>1 DEF SkuInv
      <3>2. CASE pc = "patch" /\ late' = clears
        BY <3>2, ChipWordsCleared DEF SkuInv
      <3> QED
        BY <1>6, <3>1, <3>2 DEF Dies
    <2> QED
      BY <1>1, <1>6, <2>1 DEF Dies, SkuInv, Advertised
  <1>7. CASE LatePatchLands
    <2>1. Advertised' \subseteq ChipWords
      BY <1>7, PatchedAdvertises DEF LatePatchLands, SkuInv
    <2>2. Word' = Word
      BY <1>0, <1>7 DEF LatePatchLands, Word
    <2> QED
      BY <1>1, <1>7, <2>1, <2>2 DEF LatePatchLands, SkuInv
  <1>8. CASE UNCHANGED vars
    <2>1. Word' = Word
      BY <1>8 DEF vars, Word
    <2> QED
      BY <1>1, <1>8, <2>1 DEF vars, SkuInv, Advertised
  <1>9. CallFails => (pc = "patch" /\ node' = Patched(clears)) \/ UNCHANGED node
    BY DEF CallFails
  <1> QED
    BY <1>1, <1>2, <1>3, <1>4, <1>5, <1>6, <1>7, <1>8, <1>9 DEF Next, Boot, RegisterHAMi

(* A patch decided on the node as it is clears every sibling it has.        *)
LEMMA FreshPatchClears ==
  ASSUME TypeOK, ChosenInv, Exact(cfgs, Chip) # {}, SkuInv, [Next]_vars,
         pc = "patch", pc' = "label", clears = StaleRegisterAnnotations
  PROVE  Advertised' = {Word}
  <1>1. node' = Patched(StaleRegisterAnnotations)
    BY DEF Next, Boot, LoadConfig, RegisterHAMi, GetNode, PatchNodeAnnotations,
           PatchAscendCommonWordLabel, CallFails, Dies, LatePatchLands, vars, local
  <1>2. StaleRegisterAnnotations =
          [word |-> Word,
           reg |-> {w \in StaleRegisterCommonWords(cfgs, chosen) : node[w].reg # Absent},
           hs  |-> {w \in StaleRegisterCommonWords(cfgs, chosen) : node[w].hs # Absent}]
    BY DEF StaleRegisterAnnotations
  <1>3. Word \in Words
    BY WordType
  <1>4. node'[Word].reg = "devices"
    BY <1>1, <1>2, <1>3 DEF Patched
  <1>5. \A w \in Words \ {Word} :
          w \in Advertised => w \in StaleRegisterCommonWords(cfgs, chosen)
    BY ChipWordsCleared DEF SkuInv
  <1>6. \A w \in Words \ {Word} : node'[w].reg # "devices" /\ node'[w].hs # "reported"
    <2> SUFFICES ASSUME NEW w \in Words \ {Word}
                 PROVE  node'[w].reg # "devices" /\ node'[w].hs # "reported"
      OBVIOUS
    <2> DEFINE p == StaleRegisterAnnotations
    <2>1. /\ node'[w].reg = IF w \in p.reg THEN "empty" ELSE node[w].reg
          /\ node'[w].hs = IF w \in p.hs THEN "cleared" ELSE node[w].hs
      BY <1>1, <1>2 DEF Patched
    <2>2. /\ node[w].reg = "devices" => w \in p.reg
          /\ node[w].hs = "reported" => w \in p.hs
      BY <1>2, <1>5 DEF Advertised, Absent
    <2> QED
      BY <2>1, <2>2
  <1> QED
    BY <1>3, <1>4, <1>6 DEF Advertised

(* The invariant, for configs that name the chip.                           *)
NamedInv == TypeOK /\ ChosenInv /\ (Exact(cfgs, Chip) # {} => SkuInv)

(* It holds initially, and every step keeps it.                             *)
LEMMA NamedInvariant ==
  /\ Init => NamedInv
  /\ NamedInv /\ [Next]_vars => NamedInv'
  <1>1. Init => NamedInv
    BY RegistrationInit DEF Init, NamedInv, SkuInv, Advertised, Absent
  <1>2. [Next]_vars => UNCHANGED cfgs
    BY DEF Next, Boot, LoadConfig, RegisterHAMi, GetNode, PatchNodeAnnotations,
           PatchAscendCommonWordLabel, CallFails, Dies, LatePatchLands, vars, local, remote
  <1>3. NamedInv /\ [Next]_vars => NamedInv'
    BY <1>2, RegistrationStep, SkuStep DEF NamedInv, Exact
  <1> QED
    BY <1>1, <1>3

(* AdvertisedIsCleared: whatever the memory read at earlier boots, and      *)
(* however late their patches land, the process can clear every word that  *)
(* is advertised beside its own (manager.go, StaleRegisterCommonWords).    *)
THEOREM NoOrphanedSku == Spec => []AdvertisedIsCleared
  <1>1. NamedInv => AdvertisedIsCleared
    BY ChipWordsCleared DEF NamedInv, AdvertisedIsCleared, SkuInv
  <1> QED
    BY <1>1, NamedInvariant, PTL DEF Spec

(* PatchLeavesOneSku: a registration that succeeds on the node it read      *)
(* leaves one word advertised (register.go, registerHAMi).                 *)
THEOREM OneSkuAfterPatch == Spec => PatchLeavesOneSku
  <1> DEFINE OneSku == pc = "patch" /\ pc' = "label" /\ clears = StaleRegisterAnnotations
                         /\ Exact(cfgs, Chip) # {} => Advertised' = {Word}
  <1>1. NamedInv /\ [Next]_vars => [OneSku]_vars
    BY FreshPatchClears DEF NamedInv
  <1> QED
    BY <1>1, NamedInvariant, PTL DEF Spec, PatchLeavesOneSku
=============================================================================
