\* One order with everything that can happen to it, two drivers, two rounds in flight.
SPECIFICATION Spec
CONSTANTS
  Orders = {o1}
  NoOrder = NoOrder
  Drivers = {d1, d2}
  NoDriver = NoDriver
  Workers = {w1, w2}
  MaxOfferRounds = 2
  BatchingEnabled = FALSE
  Batchable <- MCNone
  CarOnly = {}
  Cars = {}
  Throttled = {}
  Reach <- MCNear
  ShortLastLeg = {}
  CashTotal <- MCPrepaid
  Ceiling = 10
  OnShift = {d1, d2}
  Roaming = {}
  May <- MCAll
SYMMETRY DriverSymmetry
INVARIANTS
  OneWinner
  DriverMatchesStatus
  RoundsBounded
PROPERTIES
  FirstCloseWins
  OffersOnlyWhileDispatching
  LifecycleSpec
