SPECIFICATION Spec
CONSTANTS
  None = None
  m1 = m1  m2 = m2  m3 = m3  i1 = i1  i2 = i2
  Message = {m2}
  IdOf <- MCIdOf
  DateOf <- MCDateOf
  HomeOf <- MCHomeOf
  Name = {"home", "work", "broken", "bad"}
  BichonId <- MCBichonId
  Number <- MCNumber
  Configs <- EditedConfigs
  Broken = {"broken"}
  Margin = 1
  MaxClock = 3
  MaxEdits = 1
  MaxFaults = 0
  MaxCrashes = 1
  MaxHangs = 0
INVARIANT DryRunSeesWindow
