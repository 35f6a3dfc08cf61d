SPECIFICATION FairSpec
CONSTANTS
  None = None
  e1 = e1  e2 = e2  m1 = m1  m2 = m2
  Envelope = {e1, e2}
  MessageId = {m1, m2}
  IdOf <- DistinctIds
  Folder = {"a", "b"}
  ServerPath <- MCServerPath
  Filters <- MCFilters
  Actions <- MCActions
  Webhook = {"hook"}
  Webhooks <- MCWebhooks
  UseLlm = FALSE
  Answer = {}
  MaxFaults = 0
  MaxCrashes = 1
  MaxUserActs = 0
PROPERTY InFlightIsFinished
