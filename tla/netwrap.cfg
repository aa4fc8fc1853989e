CONSTANTS
  Threads = {"t1", "t2"}
  sd_offset = 1
  MaxFd = 2
  Simple <- MCSimple
  Options = {"SO_KEEPALIVE", "SO_SNDBUF", "SO_RCVBUF", "SO_TYPE"}
  Iov <- MCIov
  BUF_SIZE = 2
  FileLen = 3
  Counts = {1, 3}
  Periods <- MCPeriods
  Offsets = {1}
  MaxCalls <- MCMaxCalls
SPECIFICATION FairSpec
INVARIANTS
  RoutedToMaker NoLeak OptionReadBack DataOnce ChildReady
PROPERTIES LookedUp CallsEnd
CHECK_DEADLOCK FALSE
