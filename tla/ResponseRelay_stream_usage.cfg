\* The usage an event stream reports.
CONSTANTS
  ModelStatuses = {200}
  MaxInformational = 0
  MaxChunks = 2
SPECIFICATION Spec
INVARIANT StreamedUsageRecorded
