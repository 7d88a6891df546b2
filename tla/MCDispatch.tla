----------------------------- MODULE MCDispatch -----------------------------
(*****************************************************************************)
(* Small instances of Dispatch for TLC.                                      *)
(*****************************************************************************)
EXTENDS Dispatch, TLC

\* Any two different orders come from one branch and go close by.
MCBatchable == {p \in Orders \X Orders : p[1] # p[2]}
MCNone == {}

\* Every driver is inside the first radius, every driver beyond the last.
MCNear == [d \in Drivers |-> 0]
MCFar == [d \in Drivers |-> MaxOfferRounds]

\* Prepaid orders; COD orders of one unit.
MCPrepaid == [o \in Orders |-> 0]
MCCod == [o \in Orders |-> 1]

\* What may happen to the orders.
MCAll == [o \in Orders |-> Event]
MCUnattended == [o \in Orders |-> {"retry", "loss"}]
MCTrips == [o \in Orders |-> {"cancel", "trip", "loss"}]

DriverSymmetry == Permutations(Drivers) \cup Permutations(Workers)
Symmetry == Permutations(Orders) \cup Permutations(Drivers) \cup Permutations(Workers)
=============================================================================
