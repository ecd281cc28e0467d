\* A thread and a row of a model that lives in Elasticsearch only.
CONSTANTS
  Threads = {"t1"}
  Tenants = {"a", "b"}
  Rows = {"r1"}
  Storages = {"ES_ONLY"}
  Middleware = TRUE
  MaxJobs = 1
SPECIFICATION Spec
CHECK_DEADLOCK FALSE
INVARIANT DefaultDeny
