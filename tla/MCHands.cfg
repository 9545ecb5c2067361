SPECIFICATION FairSpec
CONSTANTS
  p = p
  q = q
  build = build
  deploy = deploy
  None = None
  Projects = {p, q}
  Calls = {build, deploy}
  ProjectOf <- ProjectOfCall
  NeedsConfirm = {deploy}
  Talk <- TalkOfCall
  Cap = 3
  Ttl = 1
  MaxTime = 2
  MaxLoads = 2
INVARIANTS
  LivingAreTracked
  EndsAreKept
PROPERTIES
  ApprovedOnceInTime
  CallsEnd
CHECK_DEADLOCK FALSE
