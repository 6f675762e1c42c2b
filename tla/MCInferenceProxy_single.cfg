\* One request, every body: what the prefill does to it, and hanging up.
CONSTANTS
  Requests = {r1}
  Endpoints = {e1, e2}
  ClientIds = {c1}
  ClientValues = {"given"}
  ClientBodies <- AllBodies
  KVParams = {kv1}
  ModelStatuses = {200, 503}
  Absent = Absent
  Null = Null
SPECIFICATION FairSpec
INVARIANTS TypeOK DecodeBodyIntact OneStatusLine
PROPERTIES ImplementsContract RelaysAsPromised HangUpReleases
