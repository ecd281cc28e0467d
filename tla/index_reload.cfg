\* A fixture is dumped and loaded again; instances are loaded whole.
CONSTANTS
  ColumnRows = {1}
  Handles = {p1}
  ColumnValues = {"a", "b"}
  FieldKinds = {"text", "int", "date"}
  Fixtures = TRUE
  Partial = FALSE
  MaxColumnWrites = 2
SPECIFICATION ColumnSpec
CHECK_DEADLOCK FALSE
INVARIANT OnlyThreePathsDrift
