SPECIFICATION FairSpec
CONSTANTS
  k1 = k1  k2 = k2  k3 = k3  c1 = c1  c2 = c2
  Nil = nil
  Keys = {k1, k2}
  Custodians = {c1}
  At <- MCAt
  MaxTries = 2
  MaxCalls = 2
  MaxRestarts = 2
INVARIANTS TypeOK AskingBounded GivenUpLate
PROPERTIES  OneWindow RetrievalEnds
CHECK_DEADLOCK FALSE
