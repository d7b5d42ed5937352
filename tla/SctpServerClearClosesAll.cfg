\* Two remotes, one of them new during the shutdown.
CONSTANTS
  Host = {h1, h2}
  Port = {p1}
  Chan = {c1, c2}
  Link = {l1}
  User = {u1}
  Down = {s1}
  None = None
SPECIFICATION Spec
PROPERTIES
  ClearClosesAll
CHECK_DEADLOCK FALSE
