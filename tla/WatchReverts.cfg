SPECIFICATION Spec
CONSTANTS
  Devices = {d1, d2}
  Ignored = {}
  VDeviceCount = 2
  HwSteps <- AnyStep
  HwStart <- NoneFound
  Streams = {s1, s2}
  MaxHwChanges = 2
  MaxRestarts = 0
  NoView = NoView
INVARIANT SilenceMeansUpToDate
