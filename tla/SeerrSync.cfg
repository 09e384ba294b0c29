SPECIFICATION FairSpec
CONSTANTS
  MaxRequest = 2
  Lifecycle <- MCTwoStates
  StreakLimit = 1
  MaxOldest = 1
  MaxFaults = 2
  PageSize = 1
INVARIANTS TypeOK CompleteWalkSawAll
PROPERTIES KeepsMirrorPromise EventuallyMirrored EventuallyTitled
