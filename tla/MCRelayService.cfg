SPECIFICATION FairRelayerSpec
CONSTANTS
  alice = alice
  bob = bob
  relayer = relayer
  treasury = treasury
  Null = Null
  PollIds = {1}
  Voters = {alice, bob}
  Keys = {relayer, treasury}
  MAX_CHOICES = 1
  MAX_BATCH = 1
  MSG_LIMIT = 1
  MAX_POLL_DURATION = 2
  U64_MAX = 100
  ENDPOINT_SLACK = 1
  MaxTime = 2
  MaxMsgs = 2
  Messages <- ServiceMessages
  PlatformConfigs <- OnePlatform
  RelayerConfigs <- OneRelayer
  PollArgs <- OnePoll
  InitialTallies <- NoTallies
  Requests = {r1, r2, r3}
  SERVICE_KEY = relayer
INVARIANTS DatabaseIsPast AnswersAreTrue NoConflict
CHECK_DEADLOCK FALSE
PROPERTY EveryRequestAnswered
