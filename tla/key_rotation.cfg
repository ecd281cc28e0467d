\* A save races a rotation of one row.
CONSTANTS
  Processes = {"p1"}
  Rows = {1}
  Plaintexts = {"a", "b"}
  BatchSize = 1
  MaxKeys = 2
  MaxEdits = 2
  MaxCommands = 1
SPECIFICATION RotationSpec
CHECK_DEADLOCK FALSE
PROPERTY RotationKeepsValues
