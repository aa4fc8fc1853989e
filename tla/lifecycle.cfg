CONSTANTS
  Apps <- MCOrderlyApps
  Code <- MCCode
  TidyApps <- MCTidyApps
  StoppableApps <- MCStoppableApps
  Workers = {w1, w2}
  Singles <- MCSingles
  Resources <- MCResources
SPECIFICATION FairSpec
INVARIANTS NoUseAfterRelease ReleaseHeldOnly JoinMadeOnly CleanExit
PROPERTY StopEnds
