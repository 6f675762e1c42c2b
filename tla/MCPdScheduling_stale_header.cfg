\* A client that sends the prefill header.
CONSTANTS
  Pods <- TwoPods
  Profiles = {"decode", "prefill"}
  PromptLengths = {5}
  MaxHits = 0
  PdThresholds = {0}
  HashBlockSize = 4
  PrimaryPorts = {0}
  MaxDecisions = 2
  NotRun = NotRun
  Null = Null
SPECIFICATION Spec
INVARIANT StaleHeaderIsCleared
