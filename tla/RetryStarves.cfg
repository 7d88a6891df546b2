\* One order, one driver who lets the first offer lapse, nobody else.
SPECIFICATION FairSpec
CONSTANTS
  Orders = {o1}
  NoOrder = NoOrder
  Drivers = {d1}
  NoDriver = NoDriver
  Workers = {w1}
  MaxOfferRounds = 1
  BatchingEnabled = FALSE
  Batchable <- MCNone
  CarOnly = {}
  Cars = {}
  Throttled = {}
  Reach <- MCNear
  ShortLastLeg = {}
  CashTotal <- MCPrepaid
  Ceiling = 10
  OnShift = {d1}
  Roaming = {}
  May <- MCUnattended
PROPERTIES
  RetriesReachADriver
