\* Two remotes and two channels, one link, a user who closes and a shutdownAll.
CONSTANTS
  Host = {h1, h2}
  Port = {p1}
  Chan = {c1, c2}
  Link = {l1}
  User = {u1}
  Down = {s1}
  None = None
SPECIFICATION FairSpec
CHECK_DEADLOCK FALSE
INVARIANTS RoutingSafe
PROPERTIES ShutdownSettles LoopEnds
