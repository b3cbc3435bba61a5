SPECIFICATION Spec
CONSTANTS
  Mailbox = {box}
  Folder = {inbox}
  UID = {1, 2}
  Validity = {1, 2}
  NoMailbox = NoMailbox
  NoFolder = NoFolder
  NoFile = NoFile
  Torn = Torn
  Foreign = Foreign
  MaxEdits = 5
INVARIANTS
  MappingsHonoured
