\* Two orders of one driver, two handlers; one fault anywhere.  The bound OneOrMore gives the
\* two requests at a time to a single order.
CONSTANTS
  Orders = {o1, o2}
  Drivers = {d1}
  NoOrder = NoOrder
  NoDriver = NoDriver
  Handlers = {h1, h2}
  NoHandler = NoHandler
  FlushLimit = 2
  MaxTrouble = 1
SPECIFICATION HSpec
CHECK_DEADLOCK FALSE
SYMMETRY Symmetry
CONSTRAINT OneOrMore
INVARIANTS
  TypeOK
  ProofBeforeClaim
  
PROPERTIES
  
  PhaseMonotone
  LifecycleSpec
