--------------------------- MODULE OrderLifecycle ---------------------------
(*****************************************************************************)
(* What the order pipeline promises, with none of the machinery: an order    *)
(* only makes the moves of the state machine, it gets its driver at the      *)
(* moment it becomes ASSIGNED and keeps that driver for ever.  A committed   *)
(* transaction may move several orders (a batch) and may pass through        *)
(* CREATED (intake, a cured drop-off).  Dispatch is checked to implement     *)
(* this specification.                                                       *)
(*****************************************************************************)
EXTENDS OrderFSM

CONSTANTS Orders, Drivers, NoDriver

VARIABLES status, driverOf

lifecycleVars == <<status, driverOf>>

Init == /\ status = [o \in Orders |-> "NONE"]
        /\ driverOf = [o \in Orders |-> NoDriver]

\* Moves a single transaction may make: one legal step, or two through CREATED.
LegalMove(from, to) ==
  \/ from = "NONE" /\ to \in Intake
  \/ isTransitionAllowed(from, to)
  \/ isTransitionAllowed(from, "CREATED") /\ isTransitionAllowed("CREATED", to)

Stays(o) == status'[o] = status[o] /\ driverOf'[o] = driverOf[o]

Moves(o) ==
  /\ LegalMove(status[o], status'[o])
  /\ IF status'[o] = "ASSIGNED"
       THEN driverOf[o] = NoDriver /\ driverOf'[o] \in Drivers
       ELSE driverOf'[o] = driverOf[o]

Next == /\ status' \in [Orders -> Status]
        /\ driverOf' \in [Orders -> Drivers \cup {NoDriver}]
        /\ \A o \in Orders : Stays(o) \/ Moves(o)

Spec == Init /\ [][Next]_lifecycleVars
=============================================================================
