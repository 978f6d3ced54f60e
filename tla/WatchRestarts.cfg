SPECIFICATION LiveSpec
CONSTANTS
  Devices = {d1, d2}
  Ignored = {d2}
  VDeviceCount = 2
  HwSteps <- VisibleStep
  HwStart <- AllUnhealthy
  Streams = {s1, s2, s3}
  MaxHwChanges = 1
  MaxRestarts = 2
  NoView = NoView
INVARIANTS TypeOK OneWriter KubeletNotForgotten
PROPERTIES NodeAnnotationConverges StopTerminates KubeletKeepsResource
