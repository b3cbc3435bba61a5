SPECIFICATION Spec
CONSTANTS
  m1 = m1
  m2 = m2
  Folder <- Folders
  Msg <- Messages
  SourceSizes = {2}
  MaxSize = 2
INVARIANTS
  TypeOK
  PassMeansEqual
  NoFalseAlarm
