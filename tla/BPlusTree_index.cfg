SPECIFICATION Spec
CONSTANTS
  r = r
  s = s
  Key <- MCKeys
  RowId <- MCRowIds
  MaxKeys = 2
  EmptyChild = 16
  MaxPage = 8
  MaxEntries = 4
VIEW View
INVARIANTS TypeOK WellShaped ScansComplete SearchFindsUnlessEmptied TornKeepsFlushed
PROPERTY KeepsEntries
