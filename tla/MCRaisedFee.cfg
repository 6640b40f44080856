SPECIFICATION Spec
CONSTANTS
  alice = alice
  bob = bob
  relayer = relayer
  treasury = treasury
  Null = Null
  PollIds = {1}
  Voters = {alice, bob}
  Keys = {relayer, treasury}
  MAX_CHOICES = 1
  MAX_BATCH = 2
  MSG_LIMIT = 2
  MAX_POLL_DURATION = 2
  U64_MAX = 100
  ENDPOINT_SLACK = 1
  MaxTime = 3
  MaxMsgs = 4
  Messages <- RelayMessages
  PlatformConfigs <- RaisedPlatform
  RelayerConfigs <- OneRelayer
  PollArgs <- FundedPoll
  InitialTallies <- NoTallies
INVARIANT RelayFunded
