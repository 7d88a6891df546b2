------------------------------ MODULE OrderFSM ------------------------------
(*****************************************************************************)
(* The order state machine of services/orderStateMachine.ts: the table       *)
(* ALLOWED of legal moves and the test every guarded transition starts       *)
(* with.  Constant-level only; Dispatch and OrderLifecycle both extend it.   *)
(*****************************************************************************)

\* DeliveryOrderStatus, and "NONE" for an order no row exists for yet.
Status == {"NONE", "CREATED", "REJECTED", "DISPATCHING", "NO_DRIVER",
           "ASSIGNED", "ARRIVED", "PICKED_UP", "DELIVERED", "FAILED",
           "RETURNED", "CANCELLED"}

\* The statuses createDeliveryOrder can leave a new row in.
Intake == {"CREATED", "REJECTED", "DISPATCHING"}

ALLOWED ==
  [s \in Status |->
     CASE s = "CREATED"     -> {"DISPATCHING", "REJECTED", "CANCELLED"}
       [] s = "REJECTED"    -> {"CREATED"}
       [] s = "DISPATCHING" -> {"ASSIGNED", "NO_DRIVER", "CANCELLED"}
       [] s = "NO_DRIVER"   -> {"DISPATCHING", "ASSIGNED", "CANCELLED"}
       [] s = "ASSIGNED"    -> {"ARRIVED", "PICKED_UP", "FAILED", "CANCELLED"}
       [] s = "ARRIVED"     -> {"PICKED_UP", "FAILED", "CANCELLED"}
       [] s = "PICKED_UP"   -> {"DELIVERED", "FAILED", "CANCELLED"}
       [] s = "FAILED"      -> {"RETURNED"}
       [] OTHER             -> {}]

isTransitionAllowed(from, to) == to \in ALLOWED[from]

\* A dispatcher may still give the order to a driver.
Unassigned == {"NONE", "CREATED", "REJECTED", "DISPATCHING", "NO_DRIVER"}

\* A driver has the order on his hands.
Carried == {"ASSIGNED", "ARRIVED", "PICKED_UP"}

\* What the code calls active when it decides whether a driver is busy: the
\* lists of driverPresence, selectCandidates and agentDelivery, none of which
\* names ARRIVED.
CountedActive == {"ASSIGNED", "PICKED_UP"}
=============================================================================
