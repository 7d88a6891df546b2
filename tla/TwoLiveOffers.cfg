\* One order, two drivers, one round at a time.
SPECIFICATION Spec
CONSTANTS
  Orders = {o1}
  NoOrder = NoOrder
  Drivers = {d1, d2}
  NoDriver = NoDriver
  Workers = {w1}
  MaxOfferRounds = 2
  BatchingEnabled = FALSE
  Batchable <- MCNone
  CarOnly = {}
  Cars = {}
  Throttled = {}
  Reach <- MCNear
  ShortLastLeg = {}
  CashTotal <- MCPrepaid
  Ceiling = 10
  OnShift = {d1, d2}
  Roaming = {}
  May <- MCAll
INVARIANTS
  OneLiveOfferPerOrder
