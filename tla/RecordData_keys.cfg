SPECIFICATION Spec
CONSTANTS
  FieldList <- ThreeFields
  Byte = {0, 1}
  MaxLength = 2
  IndexFields <- All
  TypeSize = 2
  ElementSize = 2
INVARIANTS
  RoundTrip
  KeysAreExact
  VirtualRoundTrip
