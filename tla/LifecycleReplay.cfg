\* LIFECYCLE-OPERATIONS.md:80 against a retention replayed into an older database.
SPECIFICATION Spec
CONSTANTS
  Ops = {o1}
  Requests = {r1}
  Items = {i}
  Holds = {h}
  Kinds = {"hold-create", "redact-item", "retention"}
  ExportKinds = {}
  NoOp = NoOp
  Stale = Stale
  Writeback = TRUE
  MaxRecords = 2
  MaxFaults = 1
INVARIANT
  ReplayAccepted
CHECK_DEADLOCK FALSE
