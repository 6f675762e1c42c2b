\* A client that stops in the middle of its request when the server is shut
\* down.
CONSTANTS
  Requests = {r1}
  OrchestrationPlugins = {}
  OtherPlugins = {}
  MaxPlugins = 0
  SecureServing = FALSE
  Null = Null
SPECIFICATION FairSpec
PROPERTY WatcherDoesNotLeak
