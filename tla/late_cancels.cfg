SPECIFICATION Spec
CONSTANTS
  Prices = {1, 2}
  Quantities = {1, 2}
  Slots = {n1, n2}
  OrderIds = {o1}
  ImpactNum = 0
  ImpactDen = 1
  MaxEvents = 3
  MaxActions = 2
  NoNode = NoNode
  NoPrice = NoPrice
PROPERTY Parity
CHECK_DEADLOCK FALSE
