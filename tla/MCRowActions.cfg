SPECIFICATION Spec
CONSTANTS
  memory = memory
  todo = todo
  document = document
  chat = chat
  beside = beside
  other = other
  Document = {document}
  Memory = {memory, beside}
  Todo = {todo, other}
  Side = {chat}
  Pages <- Screens
  Value = {v, w}
  Blank = Blank
  Closed = Closed
  MaxWrites <- Writes
  MaxFaults = 1
INVARIANT ReadsItsWrites
PROPERTIES DeletedOnPurpose DraftKept RowsAreReleased
CHECK_DEADLOCK FALSE
