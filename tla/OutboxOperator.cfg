SPECIFICATION Spec
CONSTANTS
  m1 = m1  m2 = m2  s1 = s1  s2 = s2  g = g  k1 = k1  u1 = u1
  Daemon = daemon  Nil = nil
  Msgs = {m1}
  Broadcast = {}
  Multi = {}
  Routed = {}
  Stations = {s1}
  Custodians = {}
  Keepers <- MCKeepers
  Splitting = {}
  Dest <- MCDest
  NParts = 1
  MaxTx = 2
  MaxEra = 1
  CustodyRetries = 0
  AckLimit = 1
  UiTasks = {u1}
  Expiring = {}
  Twice = {s1}
  OldRows = {2}
INVARIANTS DeadlineCovers
PROPERTIES PromiseKept SettledForGood ClosedForGood
CHECK_DEADLOCK FALSE
