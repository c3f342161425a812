CONSTANTS
  Recipe <- ShipTypes
  buildtime <- ShipTime
  cost <- ShipCost
  Capital = {"Destroyer"}
  NoShip = NoShip
  buildQueueSize = 3
  InitialRU = 16
  Elapsed = {1, 2, 5}
  MaxOrders = 6
SPECIFICATION Spec
INVARIANT TypeOK
INVARIANT OrderIdsAscend
INVARIANT ScaffoldIsFirst
INVARIANT PaidForDelivered
CHECK_DEADLOCK FALSE
