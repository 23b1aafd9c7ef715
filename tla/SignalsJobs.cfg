SPECIFICATION FairSpec
CONSTANTS
  parent = parent
  child = child
  init = init
  Tasks = {parent, child}
  Parent <- MCParent
  NCpus = 1
  Sigs = {9, 17, 18, 20}
  IrqSigs = {20}
  NewActions <- NoActions
  Masks <- JobMasks
  Calls = {"wait", "read"}
  MaxFrames = 0
CONSTRAINT ParentWaits
INVARIANTS SentKept NoMissedWake
PROPERTIES StopReported KillEnds
CHECK_DEADLOCK FALSE
