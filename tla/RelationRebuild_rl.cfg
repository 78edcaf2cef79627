SPECIFICATION Spec
CONSTANTS
  Null = Null
  Left = {1, 2}
  Label = {2}
  Right = {3}
  Ordinal = {0, 1}
PROPERTIES
  RebuildMirrorsLr
