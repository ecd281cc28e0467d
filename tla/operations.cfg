\* The components of the operator and the scheduler, each alone in its scene.
CONSTANTS
  p1 = p1
  p2 = p2
  file1 = file1
  file2 = file2
  file3 = file3
  Processes = {p1, p2}
  Exports = {p1, p2}
  Reindexes = {"x"}
  MaxPurges = 2
  MaxStorageFaults = 1
  Keys = {1, 2, 3}
  Strategies = {"keyset", "last_seen"}
  SyncBatch = 2
  Num = 1
  Den = 2
  Mirrored = {TRUE, FALSE}
  MaxSyncs = 2
  MaxUserEdits = 2
  MaxSyncFaults = 1
  Rows = {1, 2}
  Plaintexts = {"a", "b"}
  BatchSize = 1
  MaxKeys = 2
  MaxEdits = 2
  MaxCommands = 2
  Pks = {1, 2}
  Writers = {p1, p2}
  Runners = {"r1"}
  ChunkSize = 1
  Tunings = {TRUE}
  MaxWrites = 3
  MaxJobs = 1
  MaxMirrorFaults = 1
  Bundles = {1}
  Selections = {{"db", "media"}, {"db"}, {"env"}}
  Engines = {"sqlite", "postgresql"}
  Keep = 2
  MaxValues = 2
  MaxRuns = 3
  MaxFaults = 1
  Dests = {1}
  Passes = {p1, p2}
  Parts = 2
  Interval = 3
  Grace = 1
  KeepLast = 1
  KeepDaily = 1
  DayLength = 2
  Alignments = {TRUE, FALSE}
  Disciplined = TRUE
  MaxTime = 5
  MaxBackups = 3
  MaxFailures = 1
  Blocks = 4
  Noise = 2
  PipeSize = 2
  MaxDumpFaults = 2
  FileRows = {1, 2}
  FileNames = {file1, file2, file3}
  Sessions = {p1, p2}
  Reuse = FALSE
  StaleSessions = FALSE
  MaxFileEdits = 3
  MaxFileFaults = 1
  Layouts <- TwoLayouts
  Uploads = {"f", "g"}
  Recipients = {TRUE, FALSE}
  MaxRequests = 2
  MaxSubjectChanges = 1
  MaxRequestFaults = 1
SPECIFICATION OperationsSpec
CHECK_DEADLOCK FALSE
SYMMETRY Symmetry
INVARIANTS NotDueMeansFresh StoredStaysWhole DumpEndsWhole RestoredWhole Undoable RotationSafe UnexpiredKept SyncBounded MirrorExact ReindexHeals VerifiedExact WorkbookWhole FilesFollowRows SubjectServed ChecksHonest
