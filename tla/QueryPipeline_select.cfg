SPECIFICATION FairSpec
CONSTANTS
  A = A
  B = B
  C = C
  N = N
  T = T
  U = U
  V = V
  X = X
  Blank = Blank
  S = S
  Columns <- MCColumns
  Types <- MCTypes
  Strings <- MCStrings
  Statements <- MCStatements
  Texts <- MCTexts
  Keys <- MCKeys
  MaxRows = 3
  MaxSide = 2
  None = None
  Raised = Raised
  NoRow = NoRow
  Nothing = Nothing
  End = End
CHECK_DEADLOCK FALSE
INVARIANTS ParsesAsWritten NothingIgnored AnswersQuery RaisesOnlyMistaken
PROPERTIES LimitStopsPulling EveryQueryEnds
