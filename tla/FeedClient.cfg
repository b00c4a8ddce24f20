\* A browser page over one writer, polling one row at a time, and an operator
\* who may take one item down or delete it.
SPECIFICATION FairFeed
CONSTANTS
  a = a
  b = b
  Items = {a, b}
  Writers = {w1}
  Readers = {}
  Clients = {c1}
  NoItem = NoItem
  NoWriter = NoWriter
  Mutations <- MCMutations
  Restrictable = {a}
  Deletable = {a}
  Limit = 1
  MaxSeq = 3
INVARIANTS
  FeedTypeOK
  CaughtUpIsCurrent
  NeverAheadOfScreen
PROPERTY
  EventuallyCurrent
