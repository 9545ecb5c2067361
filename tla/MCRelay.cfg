SPECIFICATION Spec
CONSTANTS
  m1 = m1
  m2 = m2
  g1 = g1
  Machines = {m1, m2}
  Gids = {g1}
  NoBase = NoBase
  Idle = Idle
  MaxBase = 2
  MaxBatch = 2
  Outbox <- TwoFamilies
INVARIANTS
  OncePerClientSeq
  TablesFollowLog
  VersionsFollowLog
  AnswersFollowLog
PROPERTY
  KeepsPromise
