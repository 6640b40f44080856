SPECIFICATION ListSpec
CONSTANTS
  alice = alice
  bob = bob
  all = all
  some = some
  Places = {1, 2, 3}
  Accounts = {alice, bob}
  NoAccount = NoAccount
  Creator = alice
  Filters = {all, some}
  AllRows = all
  Sees <- MCSees
  LIMIT = 2
  Null = Null
  MaxLoads = 3
INVARIANTS NothingSkipped ButtonsFitPage
