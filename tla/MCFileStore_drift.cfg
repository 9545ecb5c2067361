SPECIFICATION Spec
CONSTANTS
  None = None
  u1 = u1
  u2 = u2
  Loop = Loop
  Paths = {p, q}
  Users = {u1, u2}
  Strangers = {r1}
  Host <- OneProcess
  Watching = "web"
  Does <- Writes
  Apart = FALSE
  MaxTexts = 2
  MaxRows = 2
  MaxEvents = 2
INVARIANT IndexDescribesDisk
CHECK_DEADLOCK FALSE
