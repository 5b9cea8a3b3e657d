SPECIFICATION Spec
CONSTANTS
  Session = {0}
  Group = {0, 1}
  Groups = {0}
  Begin <- OneOver
  MaxJobs = 2
  MaxChanges = 2
  Filters <- FirstOnly
  Sorts = {"id", "state"}
INVARIANTS
  SelectionSound
  UnaskedIsOver
PROPERTIES
  CursorFollows
  TagsDecide
CHECK_DEADLOCK FALSE
