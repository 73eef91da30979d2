CONSTANTS
  e0 = e0
  e1 = e1
  NoPort = NoPort
  Width = 2
  Ifaces = {e0, e1}
  Operator <- MCOperator
  File <- MCFile
  Views <- MCViews
  Depth = 2
  MaxStatic = 2
SPECIFICATION FairSpec
INVARIANT WrittenRowsRoute
PROPERTY StaticsAreTheOperators
PROPERTY RoutesFollowTopology
