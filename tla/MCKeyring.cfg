SPECIFICATION KeyringSpec
CONSTANTS
  t1 = t1
  t2 = t2
  p1 = p1
  p2 = p2
  NoPass = NoPass
  None = None
  Tabs = {t1, t2}
  Passes = {p1, p2}
  MaxKeys = 2
  MaxCalls = 5
SYMMETRY Symmetry
INVARIANTS AccountsKept PassphraseOpens NamedIsActing NoKeyTwice
