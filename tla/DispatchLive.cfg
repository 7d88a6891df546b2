\* One cash order that only retries can place, one driver who comes and goes, ceiling of one
\* order; no symmetry, because of liveness.
SPECIFICATION FairSpec
CONSTANTS
  Orders = {o1}
  NoOrder = NoOrder
  Drivers = {d1}
  NoDriver = NoDriver
  Workers = {w1}
  MaxOfferRounds = 1
  BatchingEnabled = FALSE
  Batchable <- MCNone
  CarOnly = {}
  Cars = {}
  Throttled = {}
  Reach <- MCFar
  ShortLastLeg = {}
  CashTotal <- MCCod
  Ceiling = 1
  OnShift = {d1}
  Roaming = {d1}
  May <- MCAll
PROPERTIES
  NeverWedged
  PauseEnds
  OffersEnd
