SPECIFICATION FairSpec
CONSTANTS
  Services = {"seerr", "radarr"}
  Kind <- MCKind
  Busy = {"radarr"}
  Interval = 2
  MinBackoff = 2
  MaxBackoff = 3
  CallTime = 1
  Heartbeat = 1
  Soon = 1
  Enough = 2
  MaxProbes = 1
  MaxEdits = 1
  MaxClicks = 1
  MaxMeddling = 1
INVARIANTS TypeOK BackoffHonoured
PROPERTIES KeepsPolling Recovers
