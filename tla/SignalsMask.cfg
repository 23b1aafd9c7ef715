SPECIFICATION Spec
CONSTANTS
  parent = parent
  child = child
  init = init
  Tasks = {child}
  Parent <- MCParent
  NCpus = 1
  Sigs = {2, 12, 17}
  IrqSigs = {2}
  NewActions <- Handlers
  Masks <- HandlerMasks
  Calls = {"suspend", "read"}
  MaxFrames = 2
INVARIANTS MaskRestored Results
CHECK_DEADLOCK FALSE
