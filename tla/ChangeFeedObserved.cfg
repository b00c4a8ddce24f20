\* SPEC.md:471 against a takedown that is later lifted.
SPECIFICATION Spec
CONSTANTS
  a = a
  b = b
  Items = {a, b}
  Writers = {w1}
  Readers = {r1}
  NoItem = NoItem
  NoWriter = NoWriter
  Mutations <- MCTwoMutations
  Restrictable = {a}
  Deletable = {a}
  Limit = 2
  MaxSeq = 3
INVARIANT
  EveryCommittedChangeObserved
