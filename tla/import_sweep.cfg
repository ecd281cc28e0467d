\* Violation: the orphan sweep takes the report of an interrupted import.
CONSTANTS
  w1 = w1
  w2 = w2
  Runners = {w1, w2}
  N = 3
  KeyOf <- RepeatedKey
  Bad = {2}
  ChunkSize = 2
  LateResume = TRUE
  ResumeLive = FALSE
  MaxFaults = 2
CHECK_DEADLOCK FALSE
SPECIFICATION Spec
INVARIANTS CreatedOnce
