SPECIFICATION LiveSpec
CONSTANTS
  p1 = p1  p2 = p2  p3 = p3  p4 = p4  d1 = d1  d2 = d2
  NoPod = NoPod  NoCall = NoCall  NoGrant = NoGrant  NoName = "none"
  Pods = {p1, p2, p3, p4}
  WellFormed = {p1, p2, p3}
  HamiCore = {p1}
  Devices = {d1, d2}
  Calls = {h1, h2}
  NSlots = 3
  InitNames <- MCInitNames
  Names <- MCNames
  Assigned <- MCAssigned
  Asked <- MCAsked
  KnownSets <- SomeUnknown
  ApiFaults = FALSE
  PluginRestarts = FALSE
INVARIANT LockNotLeftBehind
PROPERTIES PodsSettle LockIsReleased
