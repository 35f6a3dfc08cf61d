SPECIFICATION Spec
CONSTANTS
  None = None
  m1 = m1  m2 = m2  m3 = m3  m4 = m4
  Message = {m1, m2, m3, m4}
  DateOf <- MCDateOf
  Mailbox <- MCMailbox
  PageSize = 2
  Margin = 2
  FutureMail = TRUE
  MaxClock = 1
  MaxLosses = 1
  MaxFaults = 1
  MaxCrashes = 1
INVARIANTS WindowSweptOrFailed FailedIsRetried HistoryLeftAlone
PROPERTY WatermarkNeverBack
