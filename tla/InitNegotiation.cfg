SPECIFICATION Spec
CONSTANTS
  None = None
  FeatureSets = {{"ecn", "idata"}, {"auth", "asconf", "ecn", "prsctp"}}
  Streams = {1, 2}
  Extras = {"none", "stop_report", "skip_report", "hostname"}
  AddressSets = {{"private"}, {"loopback", "private", "global"}}
  MaxEvents = 2
CHECK_DEADLOCK FALSE
INVARIANTS EndsAgree OpenRight 
