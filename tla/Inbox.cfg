SPECIFICATION PersistentSpec
CONSTANTS
  m1 = m1
  Msgs = {m1}
  NParts = 3
  MaxAir = 2
INVARIANTS TypeOK ReceiptsHonest
PROPERTIES ReadUntilChanged RecipientKept SenderLearns
