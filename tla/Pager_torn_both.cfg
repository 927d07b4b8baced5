SPECIFICATION Spec
CONSTANTS
  a = a
  Empty = Empty
  Torn = Torn
  Short = Short
  Absent = Absent
  MaxPage = 2
  LogLimit = 3
  MaxFree = 1
  Images <- MCImages
  Environments <- MCTornTwice
INVARIANT TornPagesRepaired
