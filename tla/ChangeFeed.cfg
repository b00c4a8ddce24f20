\* Two concurrent writers and a poller of one row at a time; one item may be
\* taken down and restored, or hard deleted, between any two steps.
SPECIFICATION FairSpec
CONSTANTS
  a = a
  b = b
  Items = {a, b}
  Writers = {w1, w2}
  Readers = {r1}
  NoItem = NoItem
  NoWriter = NoWriter
  Mutations <- MCMutations
  Restrictable = {a}
  Deletable = {a}
  Limit = 1
  MaxSeq = 3
INVARIANTS
  TypeOK
  GapFree
  CommitOrdered
  ChangeSeqAgrees
  NothingSkipped
  NoRedelivery
PROPERTIES
  EventuallyDelivered
  ImplementsLog
