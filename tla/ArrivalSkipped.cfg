\* Two orders, their driver's phone and one request at a time; nothing goes
\* wrong, and no order is cancelled or fails.
CONSTANTS
  Orders = {o1, o2}
  Drivers = {d1}
  NoOrder = NoOrder
  NoDriver = NoDriver
  Handlers = {h1}
  NoHandler = NoHandler
  FlushLimit = 20
  MaxTrouble = 0
SPECIFICATION Spec
CHECK_DEADLOCK FALSE
CONSTRAINT UnderWay
INVARIANTS
  PhotoBeforePickup
