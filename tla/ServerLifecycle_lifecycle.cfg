\* Two requests, up to two plugins, every failure, and shutdown at any time.
CONSTANTS
  Requests = {r1, r2}
  OrchestrationPlugins = {pd1, pd2}
  OtherPlugins = {other}
  MaxPlugins = 2
  SecureServing = TRUE
  Null = Null
SPECIFICATION FairSpec
INVARIANTS TypeOK LastOrchestratorServes ResultIsTrue NothingAfterShutdown
PROPERTIES WatcherEnds ShutdownCompletes
