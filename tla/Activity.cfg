SPECIFICATION Spec
CONSTANTS
  m1 = m1  m2 = m2  n1 = n1  f1 = f1  f2 = f2
  Nil = nil
  Messages = {m1, m2, n1, f1, f2}
  Local = {m1, m2, f1, f2}
  From <- FromDef
  Offset <- OffsetDef
  Length <- LengthDef
  Opening <- OpeningDef
  Prefixed <- PrefixedDef
  Width = 12
INVARIANTS TypeOK Unmixed
PROPERTIES WholeArrives
CHECK_DEADLOCK FALSE
