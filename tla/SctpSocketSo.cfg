CONSTANTS
  Thread = {t1, t2}
  NoThread = NoThread
  MaxAssoc = 1
SPECIFICATION Spec
INVARIANT ReadersSocketOpen
