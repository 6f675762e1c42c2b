\* Plugin state when PreRequest plugins run.
CONSTANTS
  Requests = {r1}
  Endpoints = {e1}
  ClientIds = {c1}
  ClientValues = {"given"}
  ClientBodies <- OneBody
  KVParams = {kv1}
  ModelStatuses = {200}
  Absent = Absent
  Null = Null
SPECIFICATION Spec
INVARIANT StateKeptPerRequest
