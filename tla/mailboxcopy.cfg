SPECIFICATION FairSpec
CONSTANTS
  Folder <- Folders
  Superior <- Superiors
  m1 = m1
  Msg <- Messages
  MaxOutside = 1
INVARIANTS
  TypeOK
  NoConnectionLeaks
  ClientsAreThere
  CreatesOnlyMissing
  NilMeansAllCopied
  UntriedOnlyWithoutServer
PROPERTIES
  Termination
