SPECIFICATION Spec
CONSTANTS
  w1 = w1
  w2 = w2
  Workers <- MCWorkers
  sock_count = 2
  Paths = {"notify"}
INVARIANT ForwardedToRemote
