\* Decisions, a request and an export under two crashes, errors or restores.
SPECIFICATION FairSpec
CONSTANTS
  Ops = {o1}
  Requests = {r1}
  Items = {i}
  Holds = {h}
  Kinds = {"hold-create", "hold-release", "redact-item", "retention"}
  ExportKinds = {"account"}
  NoOp = NoOp
  Stale = Stale
  Writeback = TRUE
  MaxRecords = 2
  MaxFaults = 2
INVARIANTS
  JournalLoads
  DatabaseBehindCheckpoint
  HoldsRespected
  ServedWithoutRedacted
  NoRestrictedExport
PROPERTY
  Recovers
\* A journal whose initialisation was interrupted can only be inspected.
CHECK_DEADLOCK FALSE
