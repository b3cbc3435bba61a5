SPECIFICATION FairClientSpec
CONSTANTS
  c1 = c1
  c2 = c2
  Closer <- Closers
  f1 = f1
  f2 = f2
  none = none
  Folder <- Folders
  NoFolder = none
INVARIANTS
  ClientTypeOK
  ClosedOnce
  SelectionKnown
PROPERTIES
  CloseReturns
