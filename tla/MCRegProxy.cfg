SPECIFICATION Spec
CONSTANTS
  d1 = d1
  d2 = d2
  r1 = r1
  l1 = l1
  Remote = {d1, d2, r1}
  Local = {l1}
  Downloaders = {d1, d2}
  Iface <- MCIface
  NumCards = 1
  Images <- MCImages
  Job <- MCJob
  CpciVersion = 4
  Words = 3
  Burst = 2
  BlockWords = 2
  FifoDepth = 2
  MaxErrors = 1
  MaxKills = 1
  None = None
INVARIANT StreamIntact
INVARIANT SuccessIntact
INVARIANT InfoTrue
PROPERTY EveryoneServed
CHECK_DEADLOCK FALSE
