SPECIFICATION Spec
CONSTANTS
  NoBase = NoBase
  Files = {1, 2}
  Projects = {3}
  Home <- FileInLaterProject
  Edited = {1, 2}
  Runners = {loop}
  PageLimit = 1
  Others = others
  MaxOps = 4
  MaxCrashes = 0
  NoText = NoText
  Own = Own
  NoProject = NoProject
  NoFork = NoFork
  NoLatest = NoLatest
INVARIANTS
  DiffersOnlyInConflict

CHECK_DEADLOCK FALSE
