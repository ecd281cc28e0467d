\* An import of three rows, one bad, two with one key; purges of three rows while
\* storage, mirror and process may fail and deadlines move between two purges.
CONSTANTS
  w1 = w1
  w2 = w2
  Runners = {w1, w2}
  N = 3
  KeyOf <- RepeatedKey
  Bad = {2}
  ChunkSize = 2
  LateResume = FALSE
  ResumeLive = FALSE
  MaxFaults = 2
  f1 = f1
  f2 = f2
  Pks = {1, 2, 3}
  Files = {f1, f2}
  Layouts <- Tables
  EditsDuringPurge = FALSE
  Faults = {"storage", "mirror", "crash"}
  MaxPurgeFaults = 2
  MaxEdits = 2
CHECK_DEADLOCK FALSE
SPECIFICATION JobsSpec
INVARIANTS ImportAccounted KeptWhole NoOrphanFile PurgeExact
PROPERTIES ConfirmedLinesStay ImportCompletes LeavesFirst FilesOfTheDead EventuallyPurged
