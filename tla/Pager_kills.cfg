SPECIFICATION FairSpec
CONSTANTS
  a = a
  Empty = Empty
  Torn = Torn
  Short = Short
  Absent = Absent
  MaxPage = 2
  LogLimit = 2
  MaxFree = 1
  Images <- MCImages
  Environments <- MCEnvironments
INVARIANTS TypeOK AllOrNothing AlwaysOpens NoDoubleHandout Recoverable HeaderKept
PROPERTIES PagesAtomic TruncatesNothingNeeded HandedOutEmpty CallsEnd
