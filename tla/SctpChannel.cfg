\* One call of connect(), one thread that notifies, a user who closes and sends.
CONSTANTS
  Conn = {c1}
  Ntf = {n1}
  User = {u1}
  Send = {x1}
  HasRemote = TRUE
SPECIFICATION FairSpec
CHECK_DEADLOCK FALSE
INVARIANTS PromisesTrue
PROPERTIES ConnectSettles AnswerBeatsTimeout ForcedRejectReleases
