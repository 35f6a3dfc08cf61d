SPECIFICATION Spec
CONSTANTS
  None = None
  Message = "e"
  Envelope = {"e"}
  Folder = {"a", "a/b", "a.b"}
  ServerPath <- MCServerPath
  TagOrder <- MCTagOrder
  Configs <- MCConfigs
  Alphabet <- MCAlphabet
  Within <- MCWithin
  Accounts <- MCAccounts
  AccountName = "work"
  MaxFaults = 1
  MaxUserActs = 1
INVARIANTS AppliesExactly FailureLosesNothing ExportAgrees
PROPERTY NothingAfterMove
CHECK_DEADLOCK FALSE
