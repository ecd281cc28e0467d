\* Only the storage fails.
CONSTANTS
  f1 = f1
  f2 = f2
  Pks = {1, 2, 3}
  Files = {f1, f2}
  Layouts <- Tables
  EditsDuringPurge = FALSE
  Faults = {"storage"}
  MaxPurgeFaults = 1
  MaxEdits = 0
SPECIFICATION PurgeSpec
INVARIANT NothingLost
