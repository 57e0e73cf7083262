SPECIFICATION MassSpec
CONSTANTS
  Device = {dev1, dev2}
  Client = {file, rpc}
  NoDevice = none
  Polls = 2
  Transfers = 1
INVARIANTS EndpointsMatchDevice ReadyIsSetUp
PROPERTIES CallsReturn
