SPECIFICATION Spec
CONSTANTS
  None = None
  e1 = e1  e2 = e2  m1 = m1  m2 = m2
  Envelope = {e1, e2}
  MessageId = {m1}
  IdOf <- SameId
  Folder = {"a", "b"}
  ServerPath <- MCServerPath
  Filters <- LlmFilters
  Actions <- LlmActions
  Webhook = {"hook"}
  Webhooks <- WhenWebhooks
  UseLlm = TRUE
  Answer <- MCAnswer
  MaxFaults = 1
  MaxCrashes = 1
  MaxUserActs = 1
INVARIANTS CacheNeverHit RepeatsArePaidFor DryRunAnnounces ReplyIsHeeded
PROPERTY LedgerFreezesMailbox
