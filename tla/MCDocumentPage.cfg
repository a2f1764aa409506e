SPECIFICATION Spec
CONSTANTS
  Doc = {pad, todo, other}
  Keyed = {pad}
  Away = Away
  MaxEdits = 2
  MaxVisits = 2
  MaxFaults = 1
INVARIANTS UnsavedIsKnown SavedIsSaved
PROPERTIES InOrder EditsLand
CHECK_DEADLOCK FALSE
