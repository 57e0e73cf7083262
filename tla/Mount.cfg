SPECIFICATION Spec
CONSTANTS
  dev1 = dev1
  dev2 = dev2
  Device = {dev1, dev2}
  Client = {file}
  NoDevice = none
  Polls = 2
  Transfers = 0
  Medium <- MCMedium
INVARIANTS TypeOK StaleMountIsDetected FatTypeRight ClustersInVolume
PROPERTIES DropsOnlyAfterDisconnect ChecksReturn
