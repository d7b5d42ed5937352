\* Two threads: a reader and a closer, two readers or two closers; one accepted association.
\* Two sockets, so that one can get the address of the other; two engines; a finish after a failed one.
CONSTANTS
  Thread = {t1, t2}
  NoThread = NoThread
  MaxAssoc = 1
  Sock = {s1, s2}
  Addr = {a1, a2}
  None = None
  MaxEngine = 2
  MaxFinish = 2
SPECIFICATION MCSpec
CHECK_DEADLOCK FALSE
INVARIANTS LifetimeSafe  NoDeadEntry
PROPERTIES  ImplementsHandle Progress
