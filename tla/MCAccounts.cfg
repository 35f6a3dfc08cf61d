SPECIFICATION FairSpec
CONSTANTS
  None = None
  m1 = m1  m2 = m2  m3 = m3  i1 = i1  i2 = i2
  Message = {m1, m2}
  IdOf <- MCIdOf
  DateOf <- MCDateOf
  HomeOf <- MCHomeOf
  Name = {"home", "work", "broken", "bad"}
  BichonId <- MCBichonId
  Number <- MCNumber
  Configs <- MCConfigs
  Broken = {"broken"}
  Margin = 1
  MaxClock = 2
  MaxEdits = 1
  MaxFaults = 1
  MaxCrashes = 1
  MaxHangs = 1
INVARIANTS TypeOK TriagedOnce
PROPERTIES AccountsKeptApart OwedIsTriaged
CHECK_DEADLOCK FALSE
