\* One proposal, approved in the queue and on the decisions surface.
CONSTANTS
  Orders = {o1}
  Drivers = {d1}
  NoOrder = NoOrder
  NoDriver = NoDriver
  Workers = {w1, w2}
  MaxTries = 2
  MaxStalled = 1
  Clerks = {c1, c2, c3}
  Invites = {i1, i2}
  Requests = {r1}
  NoInvite = NoInvite
  Accountants = {a1, a2}
  Withdrawals = {p1, p2}
  NoWithdrawal = NoWithdrawal
  Trips = {t1, t2}
  Gratis = {}
  SessionRows = {s1}
  Calls = {k1, k2}
  NoTrip = NoTrip
  Proposals = {q1}
  Approvers = {m1, m2}
  NoProposal = NoProposal
  MaxOpenings = 3
  Agenda = {"decisions"}
SPECIFICATION Spec
CHECK_DEADLOCK FALSE
INVARIANTS
  RunsForOneWriter
