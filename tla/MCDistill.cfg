SPECIFICATION FairSpec
CONSTANTS
  engine = engine
  scheduler = scheduler
  tool = tool
  None = None
  Workers = {engine, scheduler, tool}
  Engines = {engine}
  Schedulers = {scheduler}
  Tasks = {task}
  TailOf <- TwoAlike
  Max = 2
  Window = 2
  InFlight = 2
  Presence = 1
  Delay = 1
  MaxEvents = 3
  MaxSame = 3
  MaxTime = 5
  LastAppend = 2
  MaxCrashes = 1
INVARIANTS
  NothingSkipped
  HolderHasLock
PROPERTIES
  OnlyBoundaryRepeats
  Distilled
CHECK_DEADLOCK FALSE
