---------------------- MODULE ContainerResponseProofs ----------------------
(***************************************************************************)
(* The limits of a container are its own, for every number of containers   *)
(* and devices: what a search by UUID in the list of the whole pod finds.  *)
(***************************************************************************)
EXTENDS ContainerResponse, AllocateProofs, WellFoundedInduction

(* Lowest is a least element.                                               *)
LEMMA LowestIsLeast ==
  ASSUME NEW S \in SUBSET Nat, S # {}
  PROVE  Lowest(S) \in S /\ \A m \in S : Lowest(S) <= m
  <1> DEFINE R == {ss \in Nat \X Nat : ss[1] < ss[2]}
  <1>1. IsWellFoundedOn(R, Nat)
    BY NatLessThanWellFounded DEF OpToRel
  <1> HIDE DEF R
  <1>2. PICK x \in S : \A y \in S : ~(<<y, x>> \in R)
    BY <1>1, WFMin
  <1>3. ASSUME NEW y \in S PROVE x <= y
    <2>1. <<y, x>> \in R <=> y < x
      BY DEF R
    <2> QED
      BY <1>2, <2>1
  <1> QED
    BY <1>3 DEF Lowest

(* The only element of a set is its highest.                                *)
LEMMA HighestOfOne ==
  ASSUME NEW x \in Nat
  PROVE  Highest({x}) = x
  BY DEF Highest

(* The entries of a container are numbers in a sequence.                    *)
LEMMA AssignedDomain ==
  ASSUME NEW p \in Pods, NEW i \in Slots
  PROVE  /\ Assigned[p][i] \in Seq(Devices)
         /\ DOMAIN Assigned[p][i] = 1..Len(Assigned[p][i]) /\ Len(Assigned[p][i]) \in Nat
  BY PodAssumption DEF Entries

(* A device that only slot i has, once, is found with what was decided for *)
(* slot i.                                                                 *)
LEMMA OwnInfo ==
  ASSUME NEW p \in Pods, NEW i \in Slots, SharesNoDevice(p, i),
         NEW n \in DOMAIN Assigned[p][i]
  PROVE  Lookup(p, Assigned[p][i], n) = Info[p][i][n]
  <1> DEFINE list == RuntimeInfos[p]
             hits == {k \in DOMAIN list : list[k].uuid = Assigned[p][i][n]}
  <1>1. PICK at \in [Slots -> 0..Len(list)] : Concatenated(p, at)
    BY AnnotationAssumption
  <1>2. at[i] + n \in DOMAIN list /\ list[at[i] + n] = Entry(p, i, n)
    BY <1>1 DEF Concatenated
  <1>3. ASSUME NEW k \in hits PROVE k = at[i] + n
    <2>1. PICK j \in Slots : \E m \in DOMAIN Assigned[p][j] : k = at[j] + m
      BY <1>1, <1>3 DEF Concatenated
    <2>m. PICK m \in DOMAIN Assigned[p][j] : k = at[j] + m
      BY <2>1
    <2>2. list[k] = Entry(p, j, m)
      BY <1>1, <2>m DEF Concatenated
    <2>3. Assigned[p][i][n] = Assigned[p][j][m]
      BY <1>3, <2>2 DEF Entry
    <2>4. i = j /\ n = m
      BY <2>3 DEF SharesNoDevice
    <2> QED
      BY <2>m, <2>4
  <1>4. hits = {at[i] + n}
    BY <1>2, <1>3 DEF Entry
  <1>5. at[i] + n \in Nat
    <2>1. Len(list) \in Nat /\ DOMAIN list = 1..Len(list)
      BY AnnotationAssumption
    <2> QED
      BY <1>2, <2>1
  <1>6. Highest(hits) = at[i] + n
    BY <1>4, <1>5, HighestOfOne
  <1>7. Lookup(p, Assigned[p][i], n) = list[Highest(hits)].info
    BY DEF Lookup
  <1>8. Entry(p, i, n).info = Info[p][i][n]
    BY DEF Entry
  <1> HIDE DEF list, hits
  <1> QED
    BY <1>2, <1>6, <1>7, <1>8

(* So the first device that has a field is the container's own.             *)
LEMMA OwnField ==
  ASSUME NEW p \in Pods, NEW i \in Slots, SharesNoDevice(p, i), NEW f
  PROVE  FirstSet(p, Assigned[p][i], f) = Own(p, i, f)
  <1> DEFINE devs == Assigned[p][i]
             found == {n \in DOMAIN devs : Lookup(p, devs, n)[f] # Unset}
             hits  == {n \in DOMAIN Info[p][i] : Info[p][i][n][f] # Unset}
  <1>1. DOMAIN Info[p][i] = DOMAIN devs
    BY InfoAssumption
  <1>2. \A n \in DOMAIN devs : Lookup(p, devs, n) = Info[p][i][n]
    BY OwnInfo
  <1>3. found = hits
    BY <1>1, <1>2
  <1>4. hits \in SUBSET Nat
    BY <1>1, AssignedDomain
  <1>5. hits # {} => Lowest(hits) \in DOMAIN devs
    BY <1>1, <1>4, LowestIsLeast
  <1>6. FirstSet(p, devs, f) =
          IF found = {} THEN Unset ELSE Lookup(p, devs, Lowest(found))[f]
    BY DEF FirstSet
  <1>7. Own(p, i, f) = IF hits = {} THEN Unset ELSE Info[p][i][Lowest(hits)][f]
    BY DEF Own
  <1> HIDE DEF found, hits
  <1> QED
    BY <1>2, <1>3, <1>5, <1>6, <1>7

(* With the grants being the scheduler's decision, the limits are too.      *)
LEMMA LimitsFromGrants == GrantsMatchAssignment => LimitsAreOwn
  <1> SUFFICES ASSUME GrantsMatchAssignment, NEW p \in Pods, NEW i \in Slots,
                      granted[p][i] # NoGrant, SharesNoDevice(p, i)
               PROVE  LET env == Env(granted[p][i].pod, granted[p][i].devs)
                      IN IF p \in HamiCore
                         THEN env.quota = Own(p, i, "mem") /\ env.priority = Own(p, i, "core")
                         ELSE env.spec = Own(p, i, "temp")
    BY DEF LimitsAreOwn
  <1>1. granted[p][i].pod = p /\ granted[p][i].devs = Assigned[p][i]
    <2>1. granted[p][i] = Expected[p][i]
      BY DEF GrantsMatchAssignment
    <2>2. Expected[p][i] = [pod |-> p, ctr |-> KubeletNames(p)[i], devs |-> Assigned[p][i]]
      BY DEF Expected
    <2> QED
      BY <2>1, <2>2
  <1>2. \A f : FirstSet(p, Assigned[p][i], f) = Own(p, i, f)
    BY OwnField
  <1> QED
    BY <1>1, <1>2 DEF Env

-----------------------------------------------------------------------------
(* LimitsAreOwn: every container that shares no device with another gets    *)
(* the quota, the priority and the template decided for it (allocate.go,   *)
(* buildRuntimeInfoLookup and buildContainerAllocateResponse).             *)
THEOREM LimitsOwn == Spec => []LimitsAreOwn
  BY LimitsFromGrants, GrantsCorrect, PTL
=============================================================================
