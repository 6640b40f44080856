SPECIFICATION VoterSpec
CONSTANTS
  alice = alice
  t1 = t1
  t2 = t2
  NoTask = NoTask
  PollIds = {1, 2}
  Voters = {alice}
  Messages = {}
  MAX_CHOICES = 2
  MAX_BATCH = 1
  Tabs = {t1, t2}
  Census <- EveryPoll
  N_CHOICES = 2
  MaxVotes = 2
  MaxRemoves = 2
SYMMETRY TabSymmetry
INVARIANTS LastSentCounts StoredKeyWasSent
PROPERTY ForgottenIsFinal
