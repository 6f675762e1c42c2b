\* With and without a threshold and Data Parallel; prompts around the
\* threshold, with and without cached blocks.
CONSTANTS
  Pods <- TwoPods
  Profiles = {"decode", "prefill"}
  PromptLengths = {4, 5, 9}
  MaxHits = 3
  PdThresholds = {0, 5}
  HashBlockSize = 4
  PrimaryPorts = {0, 8000}
  MaxDecisions = 2
  NotRun = NotRun
  Null = Null
SPECIFICATION FairSpec
INVARIANTS TypeOK ThresholdDecides OneDecision PrefillWorkerHandedOver WorkersHaveTheirRoles
PROPERTY CycleEnds
