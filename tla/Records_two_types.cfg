SPECIFICATION Spec
CONSTANTS
  TypeCount = 4
  ElementCount = 3
  MaxTypes = 2
  MaxSequence = 2
  MaxEdges = 0
PROPERTIES
  CreatedIsNew
