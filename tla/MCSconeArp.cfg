CONSTANTS
  h1 = h1
  h2 = h2
  m1 = m1
  i1 = i1
  i2 = i2
  None = None
  Hops = {h1, h2}
  Macs = {m1}
  Ids = {i1, i2}
  Errable = {i1}
  MaxRequests = 2
  TtlValues = {0}
  Ttl0 = 1
  MaxAge = 2
  Depth = 1
SPECIFICATION FairSpec
INVARIANT QueueOwnsPackets
INVARIANT NoWaitBehindLearnedHop
INVARIANT HwMirrorsCache
PROPERTY QueuedPacketLeaves
