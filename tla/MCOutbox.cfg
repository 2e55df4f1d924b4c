CONSTANTS
  d1 = d1
  d2 = d2
  Dispatcher = {d1, d2}
  EntryId = {1, 2}
  Limit = 2
  MaxAttempts = 3
  MaxDelay = 2
  MaxMishaps = 2
  Nobody = Nobody
SPECIFICATION OutboxSpec
INVARIANTS
  IntentsExplainTheEntry
  MailedOnceUnlessLost
PROPERTIES
  EveryEntryIsSettled
