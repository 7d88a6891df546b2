------------------------ MODULE MCDriverAppHistory ------------------------
EXTENDS DriverAppHistory, FiniteSets, TLC

Symmetry == Permutations(Handlers) \cup Permutations(Orders)

Begun == {o \in Orders : status[o] # "NONE"}
LostOrders == {o \in Orders : status[o] \in {"CANCELLED", "FAILED"}}

\* Bound: one order with as many requests as there are handlers; or several, with one
\* request at a time, at most two rows in an outbox, and one thing that goes wrong, be it
\* a fault or an order that is cancelled or fails.
OneOrMore ==
  \/ Cardinality(Begun) <= 1
  \/ /\ \A g, h \in Handlers : api[g].at # "idle" /\ api[h].at # "idle" => g = h
     /\ \A d \in Drivers : Len(outbox[d]) <= 2
     /\ trouble + Cardinality(LostOrders) <= 1
=============================================================================
