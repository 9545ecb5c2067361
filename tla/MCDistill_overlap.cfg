SPECIFICATION Spec
CONSTANTS
  engine = engine
  scheduler = scheduler
  tool = tool
  None = None
  Workers = {engine, scheduler}
  Engines = {engine}
  Schedulers = {scheduler}
  Tasks = {task}
  TailOf <- TwoAlike
  Max = 2
  Window = 2
  InFlight = 2
  Presence = 1
  Delay = 1
  MaxEvents = 3
  MaxSame = 3
  MaxTime = 5
  LastAppend = 2
  MaxCrashes = 0
INVARIANT NothingDropped
CHECK_DEADLOCK FALSE
