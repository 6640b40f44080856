SPECIFICATION FairTallySpec
CONSTANTS
  alice = alice
  bob = bob
  t1 = t1
  w1 = w1
  None = None
  PollIds = {1}
  Poll = 1
  Voters = {alice, bob}
  Census = {alice, bob}
  Messages <- Revote
  MAX_CHOICES = 2
  N_CHOICES = 2
  MAX_BATCH = 1
  Tabs = {t1}
  Owners = {w1}
  Logs <- RevoteLogs
  MaxFlight = 1
  MaxFetches = 2
  MaxOrphans = 1
CHECK_DEADLOCK FALSE
INVARIANTS StoreExact StoreMatchesAccount ResultCorrect
PROPERTY EventuallyPublished
