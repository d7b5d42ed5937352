SPECIFICATION FairSpec
CONSTANTS
  Addr = {1, 2}
  Initial = {1, 2}
  Routed = {1, 2}
  Thresholds = {1, 2}
  max_send_times = 2
  hb_maxburst = 1
  MtuSizes = {2, 4}
  DefaultMtu = 3
  RouteMtu = 5
  UserMtu = 1
  Cmt = {TRUE, FALSE}
  MaxAsconf = 2
  MaxEvents = 1
CHECK_DEADLOCK FALSE
INVARIANTS PathsConsistent
PROPERTIES   PathsRecover
