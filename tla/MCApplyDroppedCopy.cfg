SPECIFICATION Spec
CONSTANTS
  None = None
  Message = "e"
  Envelope = {"e"}
  Folder = {"a", "a/b", "a.b"}
  ServerPath <- MCServerPath
  TagOrder <- MCTagOrder
  Configs <- MCConfigs
  Alphabet <- MCAlphabet
  Within <- MCWithin
  Accounts <- MCAccounts
  AccountName = "work"
  MaxFaults = 1
  MaxUserActs = 1
CHECK_DEADLOCK FALSE
INVARIANT DroppedCopyIsMoved
