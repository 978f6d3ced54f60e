SPECIFICATION LiveSpec
CONSTANTS
  Devices = {d1, d2}
  Ignored = {}
  VDeviceCount = 2
  HwSteps <- Recovering
  HwStart <- NoneFound
  Streams = {s1, s2}
  MaxHwChanges = 4
  MaxRestarts = 0
  NoView = NoView
INVARIANT SilenceMeansUpToDate
PROPERTY KubeletConverges
