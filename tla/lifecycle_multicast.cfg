CONSTANTS
  Apps = {"multicast"}
  Code <- MCCode
  TidyApps = {}
  StoppableApps = {"multicast"}
  Workers = {w1, w2}
  Singles <- MCSingles
  Resources <- MCResources
SPECIFICATION FairSpec
PROPERTY StopEnds
