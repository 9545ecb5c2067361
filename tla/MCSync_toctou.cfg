SPECIFICATION Spec
CONSTANTS
  m1 = m1
  m2 = m2
  g1 = g1
  g2 = g2
  g3 = g3
  NoBase = NoBase
  NoText = NoText
  NoFork = NoFork
  Machines = {m1, m2}
  Gids = {g1}
  Copies = {}
  Creator <- CreatedByM1
  Loops = {m1, m2}
  Host <- OneLoopEach
  Users = {"edit"}
  Faults = {}
  Serialized = FALSE
  MaxRows <- Rows22
  MaxFaults = 0
  PushLimit = 2
  PageLimit = 9
PROPERTIES
  OverwritesOnlySeen
