SPECIFICATION Spec
CONSTANTS
  MaxTrade = 4
  DayOf <- MCDayOf
  MaxEntries = 1
  MaxLosses = 1
  QueueSize = 1
  PageLimit = 3
  PagesPerCycle = 2
INVARIANTS
  TypeOK
  BooksAgree
  LimitLatches
  LedgerReopens
PROPERTIES
  GapNeedsRepair
  PauseCancelsResume
  IsOneTape
  StopIsReached
  PauseTakesEffect
