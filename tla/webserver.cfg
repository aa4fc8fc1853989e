SPECIFICATION FairSpec
CONSTANTS
  NUM_CONNECTIONS = 3
  NUM_EPOLL_EVT = 3
  MaxFd = 2
  MaxConns = 3
INVARIANTS TableExact NoStaleEvent ExitClosesAll
PROPERTY RequestServed
