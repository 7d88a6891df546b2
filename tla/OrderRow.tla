------------------------------ MODULE OrderRow ------------------------------
(*****************************************************************************)
(* The row of DeliveryOrder as the parts at the edge of the system share     *)
(* it: the driver's app through the agent API, and the Foodics feed.  Every  *)
(* one of them moves the status through transitionOrder.                     *)
(*****************************************************************************)
EXTENDS OrderFSM, Naturals, Sequences

CONSTANTS Orders, Drivers, NoOrder, NoDriver

ASSUME RowAssumption == NoOrder \notin Orders /\ NoDriver \notin Drivers

VARIABLES status, driverOf

rowVars == <<status, driverOf>>

CanTransition(o, from, to) == status[o] = from /\ isTransitionAllowed(from, to)

\* The guarded update: nothing moves unless the row is still what was read.
transitionOrder(o, from, to) ==
  /\ CanTransition(o, from, to)
  /\ status' = [status EXCEPT ![o] = to]

\* No driver has anything left to do for the order.
Over(o) == status[o] \in {"DELIVERED", "FAILED", "RETURNED", "CANCELLED"}

RowTypeOK == status \in [Orders -> Status] /\ driverOf \in [Orders -> Drivers \cup {NoDriver}]

RowInit == /\ status = [o \in Orders |-> "NONE"]
           /\ driverOf = [o \in Orders |-> NoDriver]
=============================================================================
