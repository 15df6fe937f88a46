CONSTANTS
  Tasks = {t1, t2, t3}
  Sessions = {s1, s2}
  Locks = {l1, l2, l3}
  NoTask = NoTask
  NoLock = NoLock
  NoSession = NoSession
SPECIFICATION FairSpec
INVARIANTS LockInv
PROPERTIES ImplementsMutex WaiterGetsItsTurn OrphansAreForgotten
