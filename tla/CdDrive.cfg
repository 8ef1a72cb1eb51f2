CONSTANTS
  Byte <- Bytes
  Unread <- ZeroByte
  DEPTH = 4
  COMM_LEN_6 = 2
  COMM_LEN_10 = 3
  COMM_LEN_12 = 4
  DATA_LEN = 2
  REQ_DELAY = 1
  HOLD_DELAY = 1
  STAT_DELAY = 2
  BLOCK = 6
  TOC_LBA = 20
  Plans <- SomePlans
  MaxWords = 6
  Chunks = {1, 6}
  AbortsAt = "DRAINING"
SPECIFICATION FairSpec
INVARIANTS TypeOK NoByteDropped DataExact DataBeforeStatus AtRest
PROPERTIES FifoIsQueue CommandEnds
