SPECIFICATION Spec
CONSTANTS
  m1 = m1  m2 = m2  s1 = s1  s2 = s2  g = g  k1 = k1  u1 = u1
  Daemon = daemon  Nil = nil
  Msgs = {m1}
  Broadcast = {}
  Multi = {}
  Routed = {m1}
  Stations = {s1, k1}
  Custodians = {k1}
  Keepers <- MCKeepers
  Splitting = {k1}
  Dest <- MCDest
  NParts = 2
  MaxTx = 2
  MaxEra = 0
  CustodyRetries = 1
  AckLimit = 1
  UiTasks = {}
  Expiring = {}
  Twice = {}
  OldRows = {}
INVARIANTS EvidenceSound
PROPERTIES PromiseKept
CHECK_DEADLOCK FALSE
