SPECIFICATION DrvSpec
CONSTANTS
  i1 = i1
  i2 = i2
  Ifaces = {i1, i2}
  Pool = 2
  MaxAvail = 1
  MaxOpens = 2
  Nothing = Nothing
CONSTRAINT Judged
SYMMETRY Perms
VIEW View
INVARIANT RingAccounts
INVARIANT EngineReadsHead
INVARIANT NoPhantomDma
INVARIANT AbsentHoldsNothing
