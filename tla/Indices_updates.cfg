SPECIFICATION Spec
CONSTANTS
  a = a
  b = b
  f = f
  g = g
  TypeCount = 5
  ElementCount = 2
  Type = 3
  OtherIds = {6, 9}
  Fields = {f, g}
  Data = {a, b}
  Lists <- Separate
  MaxId = 1
  MaxFailures = 1
SYMMETRY Symmetric
INVARIANTS
  TypeOK
  EntriesComplete
  EntriesSound
  CacheMatchesSystem
  HandlesAreOwn
PROPERTIES
  ImplementsStore
