\* Five bytes, one cached block of four, threshold 1: (1.0-4/5.0)*5 is less
\* than 1 in float64.
CONSTANTS
  Pods <- TwoPods
  Profiles = {"decode", "prefill"}
  PromptLengths = {5}
  MaxHits = 2
  PdThresholds = {1}
  HashBlockSize = 4
  PrimaryPorts = {0}
  MaxDecisions = 2
  NotRun = NotRun
  Null = Null
SPECIFICATION Spec
INVARIANT ThresholdIsStrict
