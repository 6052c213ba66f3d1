SPECIFICATION LiveSpec
CONSTANTS
  a1 = a1
  a2 = a2
  a3 = a3
  s1 = s1
  s2 = s2
  c1 = c1
  c2 = c2
  c3 = c3
  Sorry = Sorry
  None = None
  WeightMax = 9
  Word = 32
  Addr <- Addr5
  Checker <- Checker3
  Setups <- RemovingACheck
INVARIANT SorryAlone
CHECK_DEADLOCK FALSE
