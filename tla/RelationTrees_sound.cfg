SPECIFICATION Spec
CONSTANTS
  Null = Null
  Left = {1, 2}
  Label = {2}
  Right = {1, 3}
  Ordinal = {0, 1, 200}
  Filters <- SoundFilters
INVARIANTS
  TypeOK
  OneRelation
  RlMirrorsLr
  LlSound
  LlComplete
PROPERTIES
  DeleteIsExact
  DeletedRecordsLeaveNoRelation
  ImplementsGraph
