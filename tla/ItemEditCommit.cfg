\* client.ts:150 against a commit that fails after the answer was written.
SPECIFICATION SpecFailing
CONSTANTS
  Clients = {c1}
  NoClient = NoClient
  title = title
  assignee = assignee
  Fields = {title, assignee}
  Captured = {assignee}
  Layouts <- MCLayouts
  MaxEdits = 2
  MaxVersion = 3
PROPERTY
  SavedIsCommitted
