SPECIFICATION Spec
CONSTANTS
  a = a
  b = b
  Mark = Mark
  Blank = Blank
  Absent = Absent
  None = None
  PageSize = 18
  MaxPage = 2
  Byte <- MCBytes
  Records <- MCRecords
INVARIANTS TypeOK PagesLaidOut
PROPERTY KeepsRows
