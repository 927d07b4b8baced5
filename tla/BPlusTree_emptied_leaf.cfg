SPECIFICATION Spec
CONSTANTS
  r = r
  s = s
  Key <- MCKeys
  RowId <- OneRowId
  MaxKeys = 2
  EmptyChild = 16
  MaxPage = 8
  MaxEntries = 4
INVARIANT SearchFinds
