SPECIFICATION Spec
CONSTANTS
  m1 = m1
  m2 = m2
  g1 = g1
  g2 = g2
  g3 = g3
  NoBase = NoBase
  NoText = NoText
  NoFork = NoFork
  Machines = {m1, m2}
  Gids = {g1, g2}
  Copies = {g2}
  Creator <- CopyByM2
  Loops = {m1, m2}
  Host <- OneLoopEach
  Users = {"edit", "delete", "keep-server", "keep-mine", "merged", "keep-both"}
  Faults = {"lost request", "lost answer", "late request", "lost pull", "failed apply"}
  Serialized = TRUE
  MaxRows <- Rows22
  MaxFaults = 1
  PushLimit = 2
  PageLimit = 9
INVARIANTS
  TextsSurvive
  OwnOrder
