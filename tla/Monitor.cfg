SPECIFICATION LiveMonitorSpec
CONSTANTS
  p1 = p1  d1 = d1  d2 = d2  d3 = d3
  NoPod = NoPod  NoCall = NoCall  NoGrant = NoGrant  NoName = "none"  Unset = Unset
  Pods = {p1}
  WellFormed = {p1}
  HamiCore = {p1}
  Devices = {d1, d2, d3}
  Calls = {h1}
  NSlots = 3
  InitNames <- MCInitNames
  Names <- MCNames
  Assigned <- MCAssigned
  Asked <- MCAsked
  Info <- MCInfo
  RuntimeInfos <- MCRuntimeInfos
  VnpuMode <- MCVnpuMode
  NodeHamiVnpuCore = TRUE
  KnownSets <- Found
  ApiFaults = TRUE
  PluginRestarts = TRUE
INVARIANTS MonitorTypeOK FirstContainerAttributed LimitsAreOwn
PROPERTIES OnceSeenDirsKept OrphanDirsRemoved
