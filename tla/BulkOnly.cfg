SPECIFICATION Spec
CONSTANTS
  Thread = {rpc, fileio}
  BlockSize = 3
  Verdicts = {"passed", "failed", "phaseError"}
INVARIANTS InStep OwnResult PassedIsMoved ReadyForNextCBW
PROPERTIES OperationsEnd UnplugFrees
