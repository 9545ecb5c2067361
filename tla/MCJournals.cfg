SPECIFICATION FairSpec
CONSTANTS
  NoBase = NoBase
  Machines = {A, B}
  Writers = {A, B}
  Blocks = {1, 2, 3}
  MaxRows = 6
  NoGid = NoGid
INVARIANTS
  TypeOK
PROPERTIES
  AppendOnly
  OneJournal

CHECK_DEADLOCK FALSE
