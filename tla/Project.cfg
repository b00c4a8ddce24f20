\* Two requests against a project: transitions, edits, new configurations.
\* A client pages one row at a time while rows change.  Four ranked items.
SPECIFICATION SpecProject
CONSTANTS
  todo = todo
  doing = doing
  done = done
  owner = owner
  Items = {i1}
  Requests = {r1, r2}
  None = None
  Fields = {owner}
  Names = {n1, n2}
  Seed <- MCSeed
  Drafts <- MCDrafts
  MaxConfigs = 3
  MaxVersion = 3
  Ids = {1, 2, 3}
  Values = {0, 1}
  Null = Null
  Queries = {"id", "asc", "desc", "history"}
  Limit = 1
  MaxEdits = 1
  MaxHour = 1
  Cards = {k1, k2, k3, k4}
  NoCard = NoCard
  Base = 4
  RankFirst = 3
  Threshold = 3
  MaxChanges = 4
SYMMETRY Symmetry
INVARIANTS
  WorkflowTypeOK
  StatusRetained
  ListedOnce
  RoomEverywhere
PROPERTIES
  StatusFollowsArc
  OrderAsAsked
\* A listing ends, and so does the bounded supply of requests.
CHECK_DEADLOCK FALSE
