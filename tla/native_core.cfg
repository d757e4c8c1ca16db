SPECIFICATION Spec
CONSTANTS
  Prices = {1, 2}
  Quantities = {1, 2}
  Slots = {n1, n2, n3}
  OrderIds = {o1}
  ImpactNum = 1
  ImpactDen = 2
  MaxEvents = 3
  MaxActions = 2
  NoNode = NoNode
  NoPrice = NoPrice
SYMMETRY SlotSymmetry
INVARIANTS PoolInv
PROPERTY FollowsReference
CHECK_DEADLOCK FALSE
