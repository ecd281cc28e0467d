\* The insert of an audit entry fails inside the transaction of an edit.
CONSTANTS
  p1 = p1
  p2 = p2
  text1 = text1
  text2 = text2
  Threads = {p1, p2}
  Tenants = {"a", "b"}
  Rows = {1}
  Storages = {"DB"}
  Middleware = TRUE
  MaxJobs = 1
  Callers = {p1, p2, "p3"}
  Windows = 1
  Limit = 1
  Concurrency = 1
  SlotLife = 2
  MaxQuotaFaults = 1
  Workers = {p1}
  Managers = {p1, p2}
  Policies <- DeclaredPolicies
  PermissionSets = {{}, {"super"}, {"view"}, {"change", "special"}}
  Schemes = {"token", "session"}
  MaxKeys = 3
  MaxAccessChanges = 2
  Users = {p1}
  Fields <- RowColumns
  Perms = {"super", "view_raw_pii", "staff", "view_phone", "view_boss"}
  Models <- KeptModels
  MaxFieldChanges = 2
  Senders = {p1, p2}
  Channels = {"m1", "m2"}
  Kinds = {"spike", "health"}
  Threshold = 2
  WindowLength = 1
  Retention = 1
  CooldownLength = 2
  MaxTime = 3
  MaxErrors = 2
  MaxTokens = 3
  MaxAlertFaults = 1
  Processes = {p1}
  ShardKeys = {1}
  Databases = 3
  Configs <- ShardConfigs
  Hash <- Crc32
  Custom <- CustomRouter
  MaxWrites = 2
  MaxShardFaults = 1
  MaxDepth = 1
  Keys = {1, 2, 3}
  TextKeys = {1, 3}
  Modes = {"DUAL", "ES_ONLY", "DB_ONLY"}
  PageSizes = {2}
  Limits = {0, 2}
  MaxChanges = 1
  MaxFaults = 1
  ColumnRows = {1, 2}
  Handles = {p1, p2}
  ColumnValues = {text1, text2}
  FieldKinds = {"text", "int", "date"}
  Fixtures = TRUE
  Partial = TRUE
  MaxColumnWrites = 3
SPECIFICATION RequestsSpec
CHECK_DEADLOCK FALSE
INVARIANT AuditHarmless
