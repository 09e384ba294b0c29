SPECIFICATION Spec
CONSTANTS
  QueueIds = {1, 2}
  Downloads = {"d1", "d2"}
  Entities = {"e1", "e2"}
  Attempts = 2
  MaxFaults = 2
  MaxEntries = 2
  ReuseInFlight = FALSE
INVARIANT EveryWriteIsLogged
