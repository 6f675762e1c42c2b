\* Every response of up to three chunks.
CONSTANTS
  ModelStatuses = {200, 404, 503}
  MaxInformational = 2
  MaxChunks = 3
SPECIFICATION Spec
INVARIANTS TypeOK TeeAgrees CompletionHookOnce TokensMatchReply
PROPERTY ImplementsRelay
