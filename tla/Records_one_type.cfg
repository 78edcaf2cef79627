SPECIFICATION Spec
CONSTANTS
  TypeCount = 4
  ElementCount = 5
  MaxTypes = 1
  MaxSequence = 3
  MaxEdges = 2
INVARIANTS
  DeletedTypesLeaveNoRecord
  OpenSucceeds
  RelatedRecordsExist
PROPERTIES
  CreatedIsNew
