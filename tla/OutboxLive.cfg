SPECIFICATION FairSpec
CONSTANTS
  m1 = m1  m2 = m2  s1 = s1  s2 = s2  g = g  k1 = k1  u1 = u1
  Daemon = daemon  Nil = nil
  Msgs = {m1}
  Broadcast = {}
  Multi = {m1}
  Routed = {}
  Stations = {s1}
  Custodians = {}
  Keepers <- MCKeepers
  Splitting = {}
  Dest <- MCDest
  NParts = 1
  MaxTx = 2
  MaxEra = 0
  CustodyRetries = 0
  AckLimit = 1
  UiTasks = {}
  Expiring = {m1}
  Twice = {}
  OldRows = {}
PROPERTIES ProgressEnds AttemptsEnd ExpiredLeaves
CHECK_DEADLOCK FALSE
