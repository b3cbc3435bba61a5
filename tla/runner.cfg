SPECIFICATION FairBoxSpec
CONSTANTS
  mb1 = mb1
  mb2 = mb2
  mb3 = mb3
  k1 = k1
  k2 = k2
  none = none
  Mailbox <- Mailboxes
  Account <- Accounts
  TargetOf <- Targets
  Name <- Names
  NameOf <- NamesOf
  MaxConnections = 2
  Key <- Keys
  NoKey = none
  Typed <- Typings
INVARIANTS
  BoxTypeOK
  WorkIsSound
  CopiesOnlyToClean
  NoOldMarks
  SuccessMeansCopied
PROPERTIES
  ContractKept
  Termination
