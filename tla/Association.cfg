\* A client and a server; tags enough for a restart; one message; retransmission limit 1.
SPECIFICATION FairSpec
CONSTANTS
  Nodes = {a, b}
  None = None
  Server = b
  Senders = {a}
  MaxTag = 4
  MaxMsg = 1
  MaxRtx = 1
  MaxNet = 2
  MaxEvent = 3
CHECK_DEADLOCK FALSE
INVARIANTS TimersRight SomeTimerRuns ShutdownAfterData UserTold EndsAgree
PROPERTIES WaitsEnd
