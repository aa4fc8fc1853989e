CONSTANTS
  Apps = {"udp_term_channel", "classifier_channel"}
  Code <- MCCode
  TidyApps = {}
  StoppableApps = {"udp_term_channel", "classifier_channel"}
  Workers = {w1, w2}
  Singles <- MCSingles
  Resources <- MCResources
SPECIFICATION Spec
INVARIANT NoUseAfterRelease
