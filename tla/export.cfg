\* One node, CSV, remote storage, crashes that lose unsynced bytes.
CONSTANTS
  w1 = w1
  w2 = w2
  Workers = {w1, w2}
  NodeOf <- OneNode
  Pks = {1, 2, 3}
  Fixed = {1, 3}
  ChunkSize = 2
  Format = "csv"
  Remote = TRUE
  VolumesSurvive = TRUE
  PowerLoss = TRUE
  OperatorResets = TRUE
  MaxFaults = 3
SPECIFICATION FairSpec
INVARIANTS TypeOK SingleFlight CheckpointDurable CompletedWhole
PROPERTIES DeliveredStays ImplementsPromise Settles
