SPECIFICATION Spec
CONSTANTS
  a = a
  b = b
  auto_a = auto_a
  auto_b = auto_b
  row1 = row1
  row2 = row2
  Column <- MCColumns
  Key <- MCKeys
  RowId <- MCRowIds
  Name <- MCNames
  AutoName <- MCAutoName
  Where <- MCWhere
  MinUses = 1
  MaxPages = 4
  MaxIndexes = 2
  MaxUses = 2
  Free = Free
SYMMETRY MCSymmetry
INVARIANTS RaisesOnlyUnequal ReturnsTheRows
PROPERTY HotColumnsServed
