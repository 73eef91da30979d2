SPECIFICATION PathsSpec
CONSTANTS
  us = us
  a = a
  b = b
  c = c
  Us = us
  Others = {a, b, c}
  Subnets <- MCSubnets
  Null = Null
INVARIANT RoutesShortest
INVARIANT WalkEnds
CHECK_DEADLOCK FALSE
