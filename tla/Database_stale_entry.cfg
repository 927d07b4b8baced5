SPECIFICATION Spec
CONSTANTS
  table = table
  ix = ix
  a = a
  b = b
  Table = table
  Index <- OneIndex
  Tree <- None
  Key <- MCKeys
  Bad = Bad
  MaxSlot = 1
  MaxCount = 2
  MaxEntries = 3
  Followed <- MCFollowed
  Free = Free
  Missing = Missing
  Unreadable = Unreadable
  Closed = Closed
  Emptied = Emptied
  Torn = Torn
INVARIANT SameRowsByEveryPath
