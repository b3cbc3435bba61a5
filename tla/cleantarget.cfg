SPECIFICATION Spec
CONSTANTS
  Folder <- Folders
  Inbox = 1
  Superior <- Superiors
  m1 = m1
  m2 = m2
  Msg <- Messages
  MaxOutside = 3
INVARIANTS
  TypeOK
  OldMailGone
  OldFoldersGone
  FailsOnlyByFault
PROPERTIES
  NewInboxMailKept
