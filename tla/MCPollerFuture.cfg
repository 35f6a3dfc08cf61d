SPECIFICATION FairSpec
CONSTANTS
  None = None
  m1 = m1  m2 = m2  m3 = m3  m4 = m4
  Message = {m1, m2}
  DateOf <- FutureDateOf
  Mailbox <- MCMailbox
  PageSize = 2
  Margin = 2
  FutureMail = TRUE
  MaxClock = 3
  MaxLosses = 0
  MaxFaults = 0
  MaxCrashes = 0
PROPERTY OutOfOrderIsSwept
