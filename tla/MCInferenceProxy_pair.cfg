\* Two requests whose handlers interleave, with colliding and distinct IDs.
CONSTANTS
  Requests = {r1, r2}
  Endpoints = {e1}
  ClientIds = {c1}
  ClientValues = {"given"}
  ClientBodies <- OneBody
  KVParams = {kv1}
  ModelStatuses = {200}
  Absent = Absent
  Null = Null
SPECIFICATION Spec
INVARIANTS PluginStateFound IdSharedByBothServers
