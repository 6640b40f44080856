SPECIFICATION IngestSpec
CONSTANTS
  k1 = k1
  k2 = k2
  c1 = c1
  Null = Null
  Keys = {k1, k2}
  Censuses = {c1}
  Organizers = {k1}
  UploadFiles <- Files
  ForeignPolls <- OtherPolls
  MaxMembers = 2
  MaxReading = 1
  MaxPolls = 1
  INSERT_BATCH = 2
  MAX_CONCURRENCY = 1
  MaxRestarts = 1
INVARIANTS InvitationAdmitsOne CensusCountsVoters PollOfOneFile ListedPollHasItsVoters
PROPERTIES ListingIsFinal EventuallyListed
CHECK_DEADLOCK FALSE
