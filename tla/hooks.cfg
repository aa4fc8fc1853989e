CONSTANTS
  Workers = {w1, w2}
  Packets = {p1, p2}
  Conns = {c1, c2}
  INVALID = INVALID
  Apps = {"echo", "term", "cls", "term_posix", "cls_posix", "web"}
  ChannelSize = 2
  RecvMax = 2
  VecMax = 2
  FailCodes <- MCFailCodes
  FileLen = 2
  SndBuf = 1
SPECIFICATION FairSpec
PROPERTIES PacketsOwned PacketsReturn CallbacksReturn RequestsClosed
CHECK_DEADLOCK FALSE
