SPECIFICATION Spec
CONSTANTS
  Devices = {d1, d2}
  Ignored = {}
  VDeviceCount = 2
  HwSteps <- Recovering
  HwStart <- NoneFound
  Streams = {s1, s2}
  MaxHwChanges = 0
  MaxRestarts = 1
  NoView = NoView
INVARIANT StopWaitsForAllGoroutines
