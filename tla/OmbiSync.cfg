SPECIFICATION FairSpec
CONSTANTS
  MaxRequest = 2
  Television <- MCTelevision
  Lifecycle <- MCTwoStates
  StreakLimit = 1
  MaxOldest = 1
  MaxFaults = 1
PROPERTIES KeepsMirrorPromise EventuallyMirrored
