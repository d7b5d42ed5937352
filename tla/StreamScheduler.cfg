SPECIFICATION FairSpec
CONSTANTS
  Streams = 2
  Net = {n1}
  Pin = {None}
  None = None
  Forever = Forever
  IData = FALSE
  Start = {"rr", "fcfs"}
  Priority = {0, 1}
  MaxMsg = 2
  MaxLen = 2
  Space = 2
  MaxReconf = 1
  Failure = {"mbuf"}
CHECK_DEADLOCK FALSE
INVARIANTS WheelRight  
 
