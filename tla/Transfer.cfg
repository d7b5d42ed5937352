SPECIFICATION FairSpec
CONSTANTS
  NetCounts = {1, 2}
  PerPacket = 1
  Windows = {2, 8}
  ChunkOh = 0
  SwsSender = 1
  InitialCwnd = 7
  MaxBurst = 2
  NoDelay = {TRUE}
  Policies = {"none", "ttl", "rtx"}
  NrSack = {TRUE, FALSE}
  Lengths = {2}
  PrLengths = {1}
  MaxPr = 1
  MaxTsn = 4
  MaxPackets = 4
  Faults = {"lose", "overtake", "repeat", "corrupt", "renege", "output", "early"}
  MaxEvents = 1
CHECK_DEADLOCK FALSE
INVARIANTS KeepsWhatIsNeeded FlightAccounts
 
