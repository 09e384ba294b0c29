SPECIFICATION FairSpec
CONSTANTS
  Workers = {"poll", "ui1"}
  Poller = "poll"
  Ids = {1, 2}
  Keys = {"old", "new"}
  Good = "new"
  Protocols = {"key", "login", "token", "proxy"}
  Attempts = 2
  MaxRequests = 2
  Enough = 1
  MaxEdits = 1
  MaxFaults = 1
INVARIANTS TypeOK OneInFlight HealthAgrees OnlyTroubleFails
PROPERTIES SettingsAreEdited Heals
