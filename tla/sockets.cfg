CONSTANTS
  Suites <- MainSuites
  Leaky <- LeakyTests
  Overrun <- OverrunTests
  Exposed <- ExposedTests
  Cuts = {3}
  MaxSock = 8
  MaxFaults = 2
SPECIFICATION Spec
INVARIANTS
  UsesOpen
  DescriptorsClosed
  StuckOnlyIfPeerFailed
  TerminatorFits
  OnlyExcusedFail
PROPERTY SuitesFinish
CHECK_DEADLOCK FALSE
