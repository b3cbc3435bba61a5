SPECIFICATION FairSpec
CONSTANTS
  c1 = c1
  c2 = c2
  Closer <- Closers
PROPERTIES
  KeepaliveStops
