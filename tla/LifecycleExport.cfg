\* 0014 "Revoke earlier artifacts" against a workspace export that reads before it waits.
SPECIFICATION Spec
CONSTANTS
  Ops = {o1}
  Requests = {r1}
  Items = {i}
  Holds = {h}
  Kinds = {"redact-item", "takedown", "restore-content"}
  ExportKinds = {"workspace"}
  NoOp = NoOp
  Stale = Stale
  Writeback = TRUE
  MaxRecords = 2
  MaxFaults = 1
INVARIANT
  NoRestrictedExport
CHECK_DEADLOCK FALSE
