\* One order and its driver's phone, and nothing goes wrong.
CONSTANTS
  Orders = {o1}
  Drivers = {d1}
  NoOrder = NoOrder
  NoDriver = NoDriver
  Handlers = {h1, h2}
  NoHandler = NoHandler
  FlushLimit = 20
  MaxTrouble = 0
SPECIFICATION FairSpec
CHECK_DEADLOCK FALSE
PROPERTIES
  ArrivedGoesOn
