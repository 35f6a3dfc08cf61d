SPECIFICATION Spec
CONSTANTS
  None = None
  Commands <- MCCommands
  Number <- MCNumber
  Reference <- MCReference
  Environment <- MCEnvironment
  Unencodable <- MCUnencodable
  MaxDays = 8
  Now = 8
  Mail <- MCMail
  Regex <- MCRegex
  Dropped <- MCDropped
  Language <- MCLanguage
  SampleFloor = 2
  SampleShare = 3
  HighScore = 5
  Top = 3
  HourLength = 2
  HoursPerDay = 3
  PageSize = 2
  Options <- MCOptions
  Starts <- MCStarts
  MaxFailures = 1
  MaxGains = 1
  MaxLosses = 1
CHECK_DEADLOCK FALSE
INVARIANTS
  TypeOK
  DriftIsBounded
  SuggestionsBacked
  SuggestionsMerge
  ContactsAreMutual
  ReportAddsUp
