SPECIFICATION Spec
CONSTANTS
  d1 = d1  d2 = d2  u1 = u1  m1 = m1  ui = ui
  Controller = controller  Nil = nil
  Senders = {d1, u1}
  Msgs = {m1}
  Lock <- MCLock
  Msg <- MCMsg
  WindowLimit = 1
  MessageLimit = 2
  RxKinds = {"activity"}
  MaxFrames = 2
  MaxNews = 2
  Faults = {"crash"}
INVARIANTS TypeOK LimitsHold
PROPERTIES SlotKept
