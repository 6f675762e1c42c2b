\* The ID header sent to the two servers.
CONSTANTS
  Requests = {r1}
  Endpoints = {e1}
  ClientIds = {c1}
  ClientValues = {"given"}
  ClientBodies <- OneBody
  KVParams = {kv1}
  ModelStatuses = {200}
  Absent = Absent
  Null = Null
SPECIFICATION Spec
INVARIANT PrefillUuidIsUsed
