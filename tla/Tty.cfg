SPECIFICATION Spec
CONSTANTS
  Readers = {1, 2}
  NCpus = 1
  RxSize = 4
  Counts = {1, 3}
  Modes = {TRUE, FALSE}
INVARIANTS NoLostInput RingContent
PROPERTIES LineRead
CHECK_DEADLOCK FALSE
