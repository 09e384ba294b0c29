SPECIFICATION Spec
CONSTANTS
  MaxRequest = 3
  Lifecycle <- MCTwoStates
  StreakLimit = 1
  MaxOldest = 1
  MaxFaults = 1
  PageSize = 1
PROPERTY OnlyDeletedAreRemoved
