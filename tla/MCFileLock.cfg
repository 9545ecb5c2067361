SPECIFICATION FairSpec
CONSTANTS
  save = save
  again = again
  there = there
  there2 = there2
  back = back
  back2 = back2
  a = a
  b = b
  NoCall = NoCall
  Calls = {save, again, there, there2, back, back2}
  Keys = {a, b}
  KeyOf <- KeyOfCall
  Outer <- OuterOfCall
  OneByOne = {there, back}
INVARIANTS
  Exclusion
  InOrder
PROPERTIES
  DrainedWhenIdle
  EveryCallAnswered
  IsAQueue
CHECK_DEADLOCK FALSE
