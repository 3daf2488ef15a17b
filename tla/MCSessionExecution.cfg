SPECIFICATION Spec
CONSTANTS
  b1 = b1
  s1 = s1
  Signals = {b1, s1}
  NoSignal = NoSignal
  ActionOf <- MCActionOf
  MaxDay = 2
  MaxTime = 2
  ClockSettles = TRUE
  MaxKeys = 2
  Snapshots <- MCSnapshots
INVARIANTS
  IInv
  OneTicketPerSignal
  SessionWaitsForTicket
PROPERTIES
  OutcomeAfterJournal
  ImplementsOneShot
CHECK_DEADLOCK FALSE
