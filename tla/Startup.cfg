SPECIFICATION LiveStartupSpec
CONSTANTS
  c1 = c1  c2 = c2  c3 = c3  v1 = v1  v3 = v3
  Cards <- MCCards
  VNpus = {v1, v3}
  CardOf <- MCCardOf
  IgnoredUUIDs = {c1}
  IgnoredIndexes = {c2}
  Files <- MCFiles
  Chips = {c1, c2, c3}
  ChipSets <- MCChipSets
  NodeCore = TRUE
  GlobalCore = FALSE
  Periodic = TRUE
  RestartLimit = 1
  MaxCrashes = 1
INVARIANTS StartupTypeOK ServesPrepared OneGeneration QuitsOnlyAfterQuickCrashes
PROPERTIES IgnoredCardsUntouched LeftoversDestroyed StopEnds
