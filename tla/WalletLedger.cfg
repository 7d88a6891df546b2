\* Every handler that moves money, two at a time, each crashing anywhere.
CONSTANTS
  Workers = {w1, w2}
  d1 = d1  d2 = d2  v1 = v1  f1 = f1  o1 = o1  o2 = o2  o3 = o3  o4 = o4
  p1 = p1  r1 = r1  s1 = s1  a1 = a1
  Drivers = {d1, d2}
  Vendors = {v1}
  Fleets = {f1}
  Orders = {o1, o2, o3, o4}
  Payments = {p1}
  Remits = {r1}
  Settles = {s1}
  Adjusts = {a1}
  LastMonth = 2
  MaxLive = 1
  Roster <- MCRoster
  OrderOf <- MCOrderOf
  PaymentOf <- MCPaymentOf
  RemitOf <- MCRemitOf
  SettleOf <- MCSettleOf
  AdjustOf <- MCAdjustOf
  LockRank <- MCLockRank
SPECIFICATION Spec
SYMMETRY Symmetry
CHECK_DEADLOCK FALSE
INVARIANTS
  TypeOK
  CachedBalance
  AckedIsBooked
  WithdrawnNotCredited
  AllOrNothing
  RefundUndoes
  PostingsDoNotDeadlock
PROPERTIES
  SpendCovered
  LedgerSpec
