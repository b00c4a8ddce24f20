\* SPEC 5.4 against the controls that keep the value they were opened with.
SPECIFICATION Spec
CONSTANTS
  Clients = {c1, c2}
  NoClient = NoClient
  title = title
  assignee = assignee
  Fields = {title, assignee}
  Captured = {assignee}
  Layouts <- MCLayouts
  MaxEdits = 2
  MaxVersion = 3
PROPERTY
  ReplacesOnlyShown
