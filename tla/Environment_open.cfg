SPECIFICATION Spec
CONSTANTS
  Formats = {f1, f2}
  TypeIds = {1, 2}
  Declarable <- SomeTypes
  Null = Null
INVARIANTS
  TypesSurvive
  FailedOpenReleases
  DataHasTheFormat
  FileIsWhole
