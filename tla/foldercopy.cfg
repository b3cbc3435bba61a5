SPECIFICATION FairSpec
CONSTANTS
  Msg <- Messages3
  m1 = m1
  m2 = m2
  m3 = m3
  NoMsg = NoMsg
  BatchSize = 2
  ChanCap = 1
  MaxOutside = 1
INVARIANTS
  TypeOK
  FetcherGone
  NoDuplicate
  SyncedStored
  OkMeansCopiedUnlessCancelled
  OneLateStore
PROPERTIES
  Termination
  ContractKept
