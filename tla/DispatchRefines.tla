--------------------------- MODULE DispatchRefines ---------------------------
(*****************************************************************************)
(* Dispatch implements OrderLifecycle: every transaction of the engine and   *)
(* of the order service moves the orders it touches along the state machine, *)
(* and no order changes hands.                                               *)
(*****************************************************************************)
EXTENDS DispatchProofs

Lifecycled == Lifecycle!Next \/ UNCHANGED <<status, driverOf>>

\* The instance reads the same table.
LEMMA SameTable ==
  ASSUME NEW from, NEW to, isTransitionAllowed(from, to)
  PROVE  Lifecycle!LegalMove(from, to)
BY DEF Lifecycle!LegalMove, Lifecycle!isTransitionAllowed, Lifecycle!ALLOWED, Lifecycle!Status,
       isTransitionAllowed, ALLOWED, Status

LEMMA ImplementsInit == Init => Lifecycle!Init
BY DEF Init, Lifecycle!Init

\* A step after which every order has stayed or has moved along the table.
LEMMA MovesNext ==
  ASSUME IInv, IInv',
         \A o \in Orders :
           \/ status'[o] = status[o] /\ driverOf'[o] = driverOf[o]
           \/ /\ Lifecycle!LegalMove(status[o], status'[o])
              /\ IF status'[o] = "ASSIGNED"
                   THEN driverOf[o] = NoDriver /\ driverOf'[o] \in Drivers
                   ELSE driverOf'[o] = driverOf[o]
  PROVE  Lifecycled
<1>1. status' \in [Orders -> Lifecycle!Status]
  BY DEF IInv, TypeOK, Lifecycle!Status, Status
<1>2. driverOf' \in [Orders -> Drivers \cup {NoDriver}]
  BY DEF IInv, TypeOK
<1> QED  BY <1>1, <1>2 DEF Lifecycled, Lifecycle!Next, Lifecycle!Stays, Lifecycle!Moves

\* One order moves and its driver stays.
LEMMA OneMove ==
  ASSUME IInv, IInv', NEW o \in Orders, UNCHANGED driverOf,
         NEW to, Lifecycle!LegalMove(status[o], to), to # "ASSIGNED",
         status' = [status EXCEPT ![o] = to]
  PROVE  Lifecycled
BY MovesNext DEF IInv, TypeOK

LEMMA OneTransition ==
  ASSUME IInv, IInv', NEW o \in Orders, UNCHANGED driverOf,
         NEW from, NEW to, CanTransition(o, from, to), to # "ASSIGNED",
         status' = [status EXCEPT ![o] = to]
  PROVE  Lifecycled
BY OneMove, SameTable DEF CanTransition

LEMMA OrderMoves ==
  ASSUME IInv, IInv', OrderStep
  PROVE  Lifecycled
<1>1. ASSUME NEW o \in Orders, NEW s \in Intake, CreateDeliveryOrder(o, s)
      PROVE  Lifecycled
  BY <1>1, OneMove DEF CreateDeliveryOrder, Intake, Lifecycle!LegalMove, Lifecycle!Intake
<1>2. ASSUME NEW o \in Orders, SweepScheduledOrders(o) \/ FixDropoff(o)
      PROVE  Lifecycled
  <2>1. Lifecycle!LegalMove(status[o], "DISPATCHING")
    <3>1. CASE CanTransition(o, "CREATED", "DISPATCHING")
      BY <3>1, SameTable DEF CanTransition
    <3>2. CASE CanTransition(o, "REJECTED", "CREATED")
      BY <3>2 DEF CanTransition, Lifecycle!LegalMove, Lifecycle!isTransitionAllowed,
                  Lifecycle!ALLOWED, Lifecycle!Status
    <3> QED  BY <1>2, <3>1, <3>2 DEF SweepScheduledOrders, FixDropoff, ToDispatch
  <2> QED  BY <1>2, <2>1, OneMove DEF SweepScheduledOrders, FixDropoff, ToDispatch
<1>3. ASSUME NEW o \in Orders, CancelOrder(o)
      PROVE  Lifecycled
  BY <1>3, OneTransition DEF CancelOrder
<1>4. ASSUME NEW o \in Orders, RedispatchOrder(o)
      PROVE  Lifecycled
  BY <1>4, OneTransition DEF RedispatchOrder, Lifecycled
<1>5. ASSUME NEW o \in Orders, NEW d \in Drivers, AssignDriverManually(o, d)
      PROVE  Lifecycled
  <2>1. /\ status' = [status EXCEPT ![o] = "ASSIGNED"] /\ driverOf' = [driverOf EXCEPT ![o] = d]
        /\ status[o] \in {"NO_DRIVER", "DISPATCHING"}
        /\ isTransitionAllowed(status[o], "ASSIGNED")
    BY <1>5 DEF AssignDriverManually, CanTransition
  <2>2. Lifecycle!LegalMove(status[o], "ASSIGNED") /\ driverOf[o] = NoDriver
    BY <2>1, SameTable DEF IInv, DriverMatchesStatus, Unassigned
  <2> QED  BY <2>1, <2>2, MovesNext DEF IInv, TypeOK
<1> QED  BY <1>1, <1>2, <1>3, <1>4, <1>5 DEF OrderStep

LEMMA TripMoves ==
  ASSUME IInv, IInv', TripStep
  PROVE  Lifecycled
<1>1. ASSUME NEW o \in Orders, NEW from, NEW to, to # "ASSIGNED", Advance(o, from, to)
      PROVE  Lifecycled
  BY <1>1, OneTransition DEF Advance
<1>2. ASSUME NEW o \in Orders, CompleteDelivery(o)
      PROVE  Lifecycled
  BY <1>2, OneTransition DEF CompleteDelivery
<1>3. ASSUME NEW o \in Orders, FailDelivery(o)
      PROVE  Lifecycled
  BY <1>3, OneTransition DEF FailDelivery
<1>4. ASSUME NEW o \in Orders, EndFails(o) \/ \E to \in {"DELIVERED", "FAILED", "CANCELLED"} : CountActive(o, to)
      PROVE  Lifecycled
  BY <1>4 DEF EndFails, CountActive, orderVars, Lifecycled
<1> QED  BY <1>1, <1>2, <1>3, <1>4 DEF TripStep, Arrive, PickUp, ReturnToMerchant

LEMMA AcceptMoves ==
  ASSUME IInv, IInv', NEW x \in offers, AcceptOffer(x)
  PROVE  Lifecycled
<1> DEFINE sibs == {y \in BatchOf(x.batch) : Open(y) /\ y.driver = x.driver} \ {x}
           won  == {y \in sibs : y.order # x.order /\ CanTransition(y.order, "DISPATCHING", "ASSIGNED")}
           taken == {x.order} \cup {y.order : y \in won}
<1>1. /\ CanTransition(x.order, "DISPATCHING", "ASSIGNED")
      /\ status' = [o \in Orders |-> IF o \in taken THEN "ASSIGNED" ELSE status[o]]
      /\ driverOf' = [o \in Orders |-> IF o \in taken THEN x.driver ELSE driverOf[o]]
  BY DEF AcceptOffer
<1>2. \A o \in taken : status[o] = "DISPATCHING" /\ isTransitionAllowed("DISPATCHING", "ASSIGNED")
  BY <1>1 DEF CanTransition
<1>3. x.driver \in Drivers
  BY DEF IInv, TypeOK, Offer
<1> HIDE DEF taken
<1>4. \A o \in Orders : o \in taken => driverOf[o] = NoDriver
  BY <1>2 DEF IInv, DriverMatchesStatus, Unassigned
<1> QED  BY <1>1, <1>2, <1>3, <1>4, SameTable, MovesNext

LEMMA ImplementsNext ==
  ASSUME IInv, IInv', [Next]_vars
  PROVE  Lifecycled
<1>1. CASE RoundStep
  <2>1. ASSUME NEW w \in Workers, ExhaustDispatch(w)
        PROVE  Lifecycled
    <3>1. rounds[w].order \in Orders
      BY <2>1 DEF ExhaustDispatch, IInv, RoundsRead
    <3> QED  BY <2>1, <3>1, OneTransition DEF ExhaustDispatch, Lifecycled, orderVars
  <2> QED  BY <1>1, <2>1 DEF RoundStep, BeginRound, CommitOffer, FindSibling, AttachSibling,
                             orderVars, Lifecycled
<1>2. CASE OfferStep
  BY <1>2, AcceptMoves DEF OfferStep, OfferElapses, DeclineOffer, ExpireOffer, CloseOffer,
                           orderVars, Lifecycled
<1>3. CASE CloseStep
  BY <1>3 DEF CloseStep, CloseBatchSiblings, LoseClosing, orderVars, Lifecycled
<1>4. CASE SweepStep
  <2>1. ASSUME NEW o \in Orders, RetryTransition(o)
        PROVE  Lifecycled
    BY <2>1, OneTransition DEF RetryTransition, Lifecycled
  <2> QED  BY <1>4, <2>1 DEF SweepStep, SweepAdvance, SweepAdopt, BackoffElapses, RetryClaim,
                             RetryFails, orderVars, Lifecycled
<1>5. CASE CrashStep
  BY <1>5 DEF CrashStep, LoseJob, LoseRound, orderVars, Lifecycled
<1>6. CASE OrderStep
  BY <1>6, OrderMoves
<1>7. CASE TripStep
  BY <1>7, TripMoves
<1>8. CASE DriverStep
  BY <1>8 DEF DriverStep, SetAvailability, IngestLocation, GpsGoesStale, SweepStalePresence,
              RecordRemittance, orderVars, Lifecycled
<1>9. CASE UNCHANGED vars
  BY <1>9 DEF vars, Lifecycled
<1> QED  BY <1>1, <1>2, <1>3, <1>4, <1>5, <1>6, <1>7, <1>8, <1>9 DEF Next

\* transitionOrder and its callers: any interleaving of the engine's transactions is a
\* behaviour of the order state machine in which a driver is given once and for all.
THEOREM Implements == Spec => LifecycleSpec
<1>1. Init => Lifecycle!Init
  BY ImplementsInit
<1>2. IInv /\ [Next]_vars => IInv'
  BY InvStep DEF Preserved
<1>3. IInv /\ IInv' /\ [Next]_vars => [Lifecycle!Next]_<<status, driverOf>>
  BY ImplementsNext DEF Lifecycled
<1> QED  BY <1>1, <1>2, <1>3, Invariance, PTL DEF Spec, LifecycleSpec, Lifecycle!Spec,
                                                  Lifecycle!lifecycleVars
=============================================================================
