SPECIFICATION FairSpec
CONSTANTS
  m1 = m1  r1 = r1  r2 = r2
  Nil = nil  Loop = loop
  Messages = {m1}
  Requests = {r1, r2}
INVARIANTS TypeOK NoOrphans
PROPERTIES SettledStands LockReturned
