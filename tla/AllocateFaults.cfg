SPECIFICATION FaultSpec
CONSTANTS
  p1 = p1  p2 = p2  p3 = p3  p4 = p4  d1 = d1  d2 = d2
  NoPod = NoPod  NoCall = NoCall  NoGrant = NoGrant  NoName = "none"
  Pods = {p1, p2}
  WellFormed = {p1, p2}
  HamiCore = {p1}
  Devices = {d1, d2}
  Calls = {h1, h2}
  NSlots = 3
  InitNames <- MCInitNames
  Names <- FaultNames
  Assigned <- FaultAssigned
  Asked <- FaultAsked
  KnownSets <- AllKnown
  ApiFaults = FALSE
  PluginRestarts = FALSE
  MaxFaults = 2
INVARIANTS GrantsAreWhole GrantedOnce
