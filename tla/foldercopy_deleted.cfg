SPECIFICATION Spec
CONSTANTS
  Msg <- Messages2
  m1 = m1
  m2 = m2
  m3 = m3
  NoMsg = NoMsg
  BatchSize = 1
  ChanCap = 1
  MaxOutside = 0
INVARIANTS
  FlaggedCopiedToo
