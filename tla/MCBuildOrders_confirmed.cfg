CONSTANTS
  Recipe <- ShipTypes
  buildtime <- ShipTime
  cost <- ShipCost
  Capital = {}
  NoShip = NoShip
  buildQueueSize = 3
  InitialRU = 9
  Elapsed = {2}
  MaxOrders = 3
  MaxCancels = 1
  MaxFlight = 2
SPECIFICATION SpecOrders
INVARIANT ConfirmedCancelHits
CHECK_DEADLOCK FALSE
