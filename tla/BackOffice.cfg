\* One Foodics order and two workers, two invitations and a request, one statement, two
\* withdrawals of one billing, two orders of a driver, one proposal;
\* every request can fail anywhere.
CONSTANTS
  Orders = {o1}
  Drivers = {d1}
  NoOrder = NoOrder
  NoDriver = NoDriver
  Workers = {w1, w2}
  MaxTries = 2
  MaxStalled = 1
  Clerks = {c1, c2, c3}
  Invites = {i1, i2}
  Requests = {r1}
  NoInvite = NoInvite
  Accountants = {a1, a2}
  Withdrawals = {p1, p2}
  NoWithdrawal = NoWithdrawal
  Trips = {t1, t2}
  Gratis = {}
  SessionRows = {s1}
  Calls = {k1, k2}
  NoTrip = NoTrip
  Proposals = {q1}
  Approvers = {m1, m2}
  NoProposal = NoProposal
  MaxOpenings = 3
  Agenda = {"feed", "claims", "statements", "withdrawals", "presence", "decisions"}
SPECIFICATION FairSpec
CHECK_DEADLOCK FALSE
INVARIANTS
  TypeOK
  CancelHonoured
  PaidIsBooked
  PaidHasTransfer
  OncePerApproval
PROPERTIES
  PosCancelsBeforePickup
  FeedLifecycleSpec
  CancelAnswered
  ClaimSpec
  TransferStands
  LastDeliveryFrees
