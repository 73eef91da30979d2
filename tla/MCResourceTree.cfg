CONSTANTS
  root = root
  r1 = r1
  r2 = r2
  r3 = r3
  g1 = g1
  None = None
  Root = root
  Resources = {root, r1, r2, r3}
  Groups = {g1}
  Joiners = {r1}
  MaxPending = 2
SPECIFICATION FairSpec
INVARIANT NoOrphans
INVARIANT ListedOnce
PROPERTY RetriesRelease
