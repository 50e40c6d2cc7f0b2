SPECIFICATION Spec
CONSTANTS
  m1 = m1  m2 = m2  s1 = s1  s2 = s2  g = g  k1 = k1  u1 = u1
  Daemon = daemon  Nil = nil
  Msgs = {m1, m2}
  Broadcast = {m2}
  Multi = {}
  Routed = {}
  Stations = {s1}
  Custodians = {}
  Keepers <- MCKeepers
  Splitting = {}
  Dest <- MCDest
  NParts = 1
  MaxTx = 2
  MaxEra = 0
  CustodyRetries = 0
  AckLimit = 2
  UiTasks = {}
  Expiring = {}
  Twice = {s1}
  OldRows = {}
PROPERTIES PromiseKept
CHECK_DEADLOCK FALSE
