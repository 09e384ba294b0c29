SPECIFICATION Spec
CONSTANTS
  MaxRequest = 3
  Television <- MCTelevision
  Lifecycle <- MCTwoStates
  StreakLimit = 1
  MaxOldest = 1
  MaxFaults = 1
INVARIANT EverythingNewerSeen
