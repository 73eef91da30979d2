SPECIFICATION MCSpec
CONSTANTS
  a = a
  b = b
  c = c
  s = s
  t = t
  None = None
  Routers <- MCRouters
  Subnets <- MCSubnets
  On <- MCOn
  SeqMod = 2
  Ttl0 = 2
  MaxEvents = 2
  MaxNet = 2
INVARIANT FlagsFollowList
PROPERTY ImplementsLinkState
PROPERTY QueuedLsuLeaves
CHECK_DEADLOCK FALSE
