SPECIFICATION ConsoleFairSpec
CONSTANTS
  Guests = 2
  MaxRecord <- Records
  Window = 3
  RowLimit = 2
  FaultEvents = {2, 3}
INVARIANTS
  EventsAreTheWindow
  RowsFollowEvents
  NothingFromAnOldGuest
PROPERTIES
  CatchesUp
