SPECIFICATION Spec
CONSTANTS
  Prices = {1, 2}
  Quantities = {1, 2}
  Nodes = {n1, n2, n3, n4}
  OrderIds = {o1}
  ImpactNum = 1
  ImpactDen = 2
  MaxEvents = 3
  MaxActions = 3
  NoNode = NoNode
  NoPrice = NoPrice
SYMMETRY NodeSymmetry
INVARIANTS TypeOK PositionIsNet QueueIsHonest OrdersAreListed
CHECK_DEADLOCK FALSE
