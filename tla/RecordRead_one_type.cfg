SPECIFICATION Spec
CONSTANTS
  TypeCount = 4
  ElementCount = 8
  Ids <- OneType
  Types = {1}
  Kinds = {"read", "delete", "index", "get"}
  Asked <- Lookups
  Counts = {1, 2}
  BatchLength = 2
INVARIANTS ReadingIsExact DeleteIsExact
PROPERTIES SelectionsEnd
CHECK_DEADLOCK FALSE
