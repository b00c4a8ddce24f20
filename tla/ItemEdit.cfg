\* Two people editing two fields of one item; commits that are tried succeed.
SPECIFICATION Spec
CONSTANTS
  Clients = {c1, c2}
  NoClient = NoClient
  title = title
  assignee = assignee
  Fields = {title, assignee}
  Captured = {assignee}
  Layouts <- MCLayouts
  MaxEdits = 2
  MaxVersion = 3
SYMMETRY Symmetry
INVARIANTS
  TypeOK
  HistoryReplays
PROPERTIES
  SavedIsCommitted
  
