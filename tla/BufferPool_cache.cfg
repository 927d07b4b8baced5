SPECIFICATION Spec
CONSTANTS
  a = a
  b = b
  Empty = Empty
  Absent = Absent
  NoCopy = NoCopy
  Nothing = Nothing
  MaxPage = 3
  Capacity = 2
  Images <- MCImages
  IOErrors = TRUE
INVARIANTS Coherent KeepsRecent
PROPERTY KeepsPromise
