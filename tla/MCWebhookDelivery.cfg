SPECIFICATION FairSpec
CONSTANTS
  None = None
  MaxAttempts = {0, 1, 3}
  Events <- MCEvents
  Status = {200, 304, 404, 429, 503}
  MayCrash = TRUE
  MayFailToSave = TRUE
INVARIANTS TypeOK SuccessIsReal EventIsTrue FailureUsedBudget
PROPERTIES DeliveryEnds ImplementsContract
CHECK_DEADLOCK FALSE
