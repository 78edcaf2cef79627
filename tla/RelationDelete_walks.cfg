SPECIFICATION Spec
CONSTANTS
  Null = Null
  Left = {1, 2}
  Label = {2, 3}
  Right = {1, 3}
  Ordinal = {0, 1}
  Calls <- AllCalls
  Relations <- EightRelations
INVARIANTS
  CursorIsOnAnEntry
  WalkIsExact
PROPERTIES
  DeletionEnds
