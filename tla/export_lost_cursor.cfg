\* Violation: the working file of a checkpointed job is on another node.
CONSTANTS
  w1 = w1
  w2 = w2
  Workers = {w1, w2}
  NodeOf <- TwoNodes
  Pks = {1, 2, 3}
  Fixed = {1, 3}
  ChunkSize = 2
  Format = "csv"
  Remote = TRUE
  VolumesSurvive = TRUE
  PowerLoss = FALSE
  OperatorResets = TRUE
  MaxFaults = 2
SPECIFICATION Spec
INVARIANTS CompletedWhole
