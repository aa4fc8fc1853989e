CONSTANTS
  Apps = {"fpm_direct", "udp_fwd", "netwrap"}
  Code <- MCCode
  TidyApps = {}
  StoppableApps = {"fpm_direct", "udp_fwd", "netwrap"}
  Workers = {w1, w2}
  Singles <- MCSingles
  Resources <- MCResources
SPECIFICATION Spec
INVARIANT TerminatedOnce
