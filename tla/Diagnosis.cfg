SPECIFICATION Spec
CONSTANTS
  LoopThreshold = 2
  StallTime = 1
  MinDelta = 0
  GraceTime = 1
  Full = 2
  WaitTime = 1
  MaxHours = 1
  MaxDownloads = 2
  MaxUpsets = 1
INVARIANT TypeOK
PROPERTIES NamesTheCause UpstreamIsExact BrokenLaterSurfaces ResolvedIsSettled
