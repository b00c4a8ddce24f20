\* Two concurrent requests of every kind in a project of four items.
SPECIFICATION SpecPopulated
CONSTANTS
  a = a
  b = b
  Items = {a, b, c, d}
  None = None
  Requests = {r1, r2}
  Kinds = {"create", "update", "delete", "move", "link", "unlink", "comment", "hard_delete", "rebalance"}
  Respread = {TRUE, FALSE}
  MaxDepth = 3
  MaxSeq = 6
SYMMETRY PopulatedSymmetry
INVARIANTS
  TypeOK
  PathsAgree
  RollupExact
  VersionNamesContent
PROPERTIES
  NoLostUpdate
  UnlinkExact
\* Every id of the bounded supply may be deleted for good.
CHECK_DEADLOCK FALSE
