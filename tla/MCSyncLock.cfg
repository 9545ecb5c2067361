SPECIFICATION FairSpec
CONSTANTS
  w1 = w1
  w2 = w2
  w3 = w3
  Workers = {w1, w2, w3}
  Lease = 3
  Timeout = 1
  NoRow = NoRow
INVARIANTS
  OneHolder
PROPERTIES
  LiveRowIsSafe
  Reclaimed
