SPECIFICATION FairSpec
CONSTANTS
  NoBase = NoBase
  Files = {1, 2}
  Projects = {3}
  Home <- FileInLaterProject
  Edited = {2}
  Runners = {loop}
  PageLimit = 1
  Others = others
  MaxOps = 4
  MaxCrashes = 1
  NoText = NoText
  Own = Own
  NoProject = NoProject
  NoFork = NoFork
  NoLatest = NoLatest
INVARIANTS
  DiffersOnlyInConflict
  CursorCovered
PROPERTIES
  OwnTextKept
  Joins

CHECK_DEADLOCK FALSE
