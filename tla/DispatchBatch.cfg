\* Two orders of one branch, two rounds in flight that may each batch the other's order,
\* and the trips of the driver to their end.
SPECIFICATION Spec
CONSTANTS
  Orders = {o1, o2}
  NoOrder = NoOrder
  Drivers = {d1}
  NoDriver = NoDriver
  Workers = {w1, w2}
  MaxOfferRounds = 1
  BatchingEnabled = TRUE
  Batchable <- MCBatchable
  CarOnly = {}
  Cars = {}
  Throttled = {}
  Reach <- MCNear
  ShortLastLeg = {}
  CashTotal <- MCPrepaid
  Ceiling = 10
  OnShift = {d1}
  Roaming = {}
  May <- MCTrips
SYMMETRY Symmetry
INVARIANTS
  TypeOK
  BatchWonWhole
  BatchShape
