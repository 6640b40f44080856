SPECIFICATION Spec
CONSTANTS
  alice = alice
  bob = bob
  relayer = relayer
  treasury = treasury
  Null = Null
  PollIds = {1}
  Voters = {alice, bob}
  Keys = {relayer, treasury}
  MAX_CHOICES = 3
  MAX_BATCH = 2
  MSG_LIMIT = 1
  MAX_POLL_DURATION = 2
  U64_MAX = 100
  ENDPOINT_SLACK = 1
  MaxTime = 2
  MaxMsgs = 3
  Messages <- RevotingMessages
  PlatformConfigs <- FreePlatform
  RelayerConfigs <- OneRelayer
  PollArgs <- DirectPoll
  InitialTallies <- TallyInitials
INVARIANTS TypeOK TallyAccountFaithful PublishedTallyCorrect LatestMessageCounts CompleteTallyAccepted
  OneBallotPerMember
PROPERTY ResultFinal
