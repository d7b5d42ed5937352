SPECIFICATION Spec
CONSTANTS
  Octet = 2
  ArraySize = 2
  ArrayIncr = 1
  ArrayMax = 8
  TsnModulus = 64
  Streams = {0, 1}
  MaxMsg = 3
  MaxTsn = 4
  Idata = {FALSE, TRUE}
  Features = {"none", "reset", "forward"}
  RcvLimit = 8
  PdConfigured = 2
  Msize = 0
  MaxChunks = 2
  SackFreq = 2
  MaxBundle = 2
CHECK_DEADLOCK FALSE
INVARIANTS  DeliveredRight  AllDelivered
