SPECIFICATION Spec
CONSTANTS
  r = r
  s = s
  Key <- MCKeys
  RowId <- MCRowIds
  Hash <- MCHash
  NumBuckets = 2
  OtherBuckets = 1
  Capacity = 2
  EmptyLink = 9
  MaxPage = 5
  MaxEntries = 5
  MaxHurt = 2
VIEW View
INVARIANTS TypeOK ChainsApart SearchFindsAll BreaksOnlyGrowing
PROPERTY KeepsEntries
