SPECIFICATION Spec
CONSTANTS
  Threads = {t1, t2}
  Names = {n1, n2, n3}
  TypeLimit = 5
  ExtraCount = 2
  Width = 16
  ByteValues = 8
  MayFail = TRUE
  Unset = Unset
  Garbage = Garbage
  Nobody = Nobody
INVARIANTS
  TypeOK
  CacheMatchesSystem
  NamesAreUnique
  GarbageIsUnstored
PROPERTIES
  TypeIdsAreNew
