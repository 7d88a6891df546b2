----------------------------- MODULE DriverApp -----------------------------
(*****************************************************************************)
(* The driver's phone: the event outbox (services/eventOutbox.ts), the       *)
(* store its screens show (store/driverStore.ts) and the delivery screens.   *)
(* The outbox is on disk and survives a restart, the store does not.  The    *)
(* proof of delivery is posted past the outbox while the network is there.   *)
(*****************************************************************************)
EXTENDS AgentApi

CONSTANTS NoHandler,
          FlushLimit,  \* rows that one flush reads
          MaxTrouble   \* bound: faults in a behaviour, of network, server and phone

ASSUME AppAssumption == NoHandler \notin Handlers /\ FlushLimit \in Nat \ {0} /\ MaxTrouble \in Nat

\* A stage is its place in STAGE_ORDER.
STAGE_ORDER == <<"HEADING_TO_PICKUP", "ARRIVED_AT_PICKUP", "PICKED_UP", "ARRIVED_AT_DROPOFF">>
Stage == 1 .. 4
Photo == "ARRIVAL_PHOTO"
Row == [order : Orders, kind : Event \cup {Photo}]

VARIABLES
  outbox,   \* rows not yet sent, oldest first
  flush,    \* the flush in progress: rows left of it, and the handler it waits for
  app,      \* the store and the open screens
  photos,   \* orders with an arrival photo on the server
  trouble   \* faults so far

appVars == <<outbox, flush, app, photos>>

NoFlush == [left |-> 0, on |-> NoHandler]
NoPoll == [got |-> FALSE, order |-> NoOrder, stage |-> 1]
Started == [active |-> NoOrder, stage |-> 1, pending |-> FALSE, shot |-> NoOrder,
            poll |-> NoPoll, posting |-> NoHandler]

AppInit == /\ outbox = [d \in Drivers |-> <<>>]
           /\ flush = [d \in Drivers |-> NoFlush]
           /\ app = [d \in Drivers |-> Started]
           /\ photos = {}
           /\ trouble = 0

AppTypeOK ==
  /\ outbox \in [Drivers -> Seq(Row)]
  /\ flush \in [Drivers -> [left : Nat, on : Handlers \cup {NoHandler}]]
  /\ app \in [Drivers -> [active : Orders \cup {NoOrder}, stage : Stage, pending : BOOLEAN,
                          shot : Orders \cup {NoOrder},
                          poll : [got : BOOLEAN, order : Orders \cup {NoOrder}, stage : Stage],
                          posting : Handlers \cup {NoHandler}]]
  /\ photos \subseteq Orders
  /\ trouble \in 0 .. MaxTrouble

Fault == trouble < MaxTrouble /\ trouble' = trouble + 1

Rows(d) == {outbox[d][i] : i \in DOMAIN outbox[d]}

\* INSERT OR IGNORE: the key of a row is its order and kind.
Enqueued(d, row) == IF row \in Rows(d) THEN outbox[d] ELSE Append(outbox[d], row)

enqueueEvent(d, o, kind) ==
  outbox' = [outbox EXCEPT ![d] = Enqueued(d, [order |-> o, kind |-> kind])]

\* Where advanceOrder leaves the store: no further back, and nothing without an order.
Advanced(a, stage) == [a EXCEPT !.stage = IF a.active # NoOrder /\ stage > @ THEN stage ELSE @,
                                !.pending = TRUE]

Cleared(a) == [a EXCEPT !.active = NoOrder, !.stage = 1]

(*****************************************************************************)
(* The screens.                                                              *)
(*****************************************************************************)
\* The offer screen: the accept answers with the order.
Accept(d, o) ==
  /\ app[d].active = NoOrder /\ status[o] = "DISPATCHING"
  /\ transitionOrder(o, "DISPATCHING", "ASSIGNED")
  /\ driverOf' = [driverOf EXCEPT ![o] = d]
  /\ app' = [app EXCEPT ![d].active = o, ![d].stage = 1]
  /\ UNCHANGED <<apiVars, outbox, flush, photos, trouble>>

\* The order becomes his and the app does not hear of it: the answer was lost, or
\* it was assigned by hand.
Assign(d, o) ==
  /\ \E from \in {"DISPATCHING", "NO_DRIVER"} : transitionOrder(o, from, "ASSIGNED")
  /\ driverOf' = [driverOf EXCEPT ![o] = d]
  /\ UNCHANGED <<apiVars, appVars, trouble>>

\* Mutant: the claim is queued when the camera opens, before there is a photo.
QueueClaimFirst(d) ==
  LET a == app[d]
  IN  /\ a.active # NoOrder /\ a.stage = 1 /\ a.shot = NoOrder
      /\ enqueueEvent(d, a.active, "ARRIVED_AT_PICKUP")
      /\ app' = [app EXCEPT ![d].shot = a.active, ![d].pending = TRUE]
      /\ UNCHANGED <<apiVars, rowVars, flush, photos, trouble>>

\* The arrival screen queues the photo, and then the claim.
QueueArrivalPhoto(d) ==
  LET a == app[d]
  IN  /\ a.active # NoOrder /\ a.stage = 1 /\ a.shot = NoOrder
      /\ enqueueEvent(d, a.active, Photo)
      /\ app' = [app EXCEPT ![d].shot = a.active, ![d].pending = TRUE]
      /\ UNCHANGED <<apiVars, rowVars, flush, photos, trouble>>

\* Mutant: the claim is that of the order the store shows by now.
ClaimForShown(d) ==
  LET a == app[d]
  IN  /\ a.shot # NoOrder /\ a.active # NoOrder
      /\ enqueueEvent(d, a.active, "ARRIVED_AT_PICKUP")
      /\ app' = [app EXCEPT ![d] = [Advanced(a, 2) EXCEPT !.shot = NoOrder]]
      /\ UNCHANGED <<apiVars, rowVars, flush, photos, trouble>>

ClaimArrival(d) ==
  LET a == app[d]
  IN  /\ a.shot # NoOrder
      /\ enqueueEvent(d, a.shot, "ARRIVED_AT_PICKUP")
      /\ app' = [app EXCEPT ![d] = [Advanced(a, 2) EXCEPT !.shot = NoOrder]]
      /\ UNCHANGED <<apiVars, rowVars, flush, photos, trouble>>

\* The button of the delivery screen, for the stages that need no photo.
Advance(d) ==
  LET a == app[d]
  IN  /\ a.active # NoOrder /\ a.stage \in {2, 3}
      /\ enqueueEvent(d, a.active, STAGE_ORDER[a.stage + 1])
      /\ app' = [app EXCEPT ![d] = Advanced(a, a.stage + 1)]
      /\ UNCHANGED <<apiVars, rowVars, flush, photos, trouble>>

AtTheDoor(d) == app[d].active # NoOrder /\ app[d].stage = 4 /\ app[d].posting = NoHandler

\* The proof goes straight to the server, whatever is still in the outbox.
SubmitPod(d, h) ==
  /\ AtTheDoor(d) /\ api[h] = Idle
  /\ api' = [api EXCEPT ![h] = Posted(app[d].active, "POD")]
  /\ app' = [app EXCEPT ![d].posting = h]
  /\ UNCHANGED <<phase, recorded, rowVars, outbox, flush, photos, trouble>>

\* finish("queued"): the row will bring the proof, and the order is off the screen.
PodQueued(d, o) ==
  /\ enqueueEvent(d, o, "POD")
  /\ app' = [app EXCEPT ![d] = [Cleared(@) EXCEPT !.posting = NoHandler, !.pending = TRUE]]

PodAnswered(d) ==
  LET h == app[d].posting
  IN  /\ h # NoHandler /\ api[h].at = "answer"
      /\ \/ /\ api[h].code \in {200, 409}  \* finish("delivered")
            /\ app' = [app EXCEPT ![d] = [Cleared(@) EXCEPT !.posting = NoHandler]]
            /\ UNCHANGED outbox
         \/ /\ api[h].code = 500
            /\ PodQueued(d, api[h].order)
      /\ api' = [api EXCEPT ![h] = Idle]
      /\ UNCHANGED <<phase, recorded, rowVars, flush, photos, trouble>>

\* The network goes while the proof is posted, or the request was never sent.
PodLost(d) ==
  /\ \/ app[d].posting # NoHandler /\ PodQueued(d, api[app[d].posting].order)
     \/ AtTheDoor(d) /\ PodQueued(d, app[d].active)
  /\ Fault
  /\ UNCHANGED <<apiVars, rowVars, flush, photos>>

\* The failed-delivery screen; the server takes it from ASSIGNED and PICKED_UP.
FailTrip(d) ==
  LET o == app[d].active
  IN  /\ o # NoOrder
      /\ \E from \in {"ASSIGNED", "PICKED_UP"} : transitionOrder(o, from, "FAILED")
      /\ app' = [app EXCEPT ![d] = Cleared(@)]
      /\ UNCHANGED <<apiVars, driverOf, outbox, flush, photos, trouble>>

(*****************************************************************************)
(* The outbox.                                                               *)
(*****************************************************************************)
StartFlush(d) ==
  /\ flush[d].left = 0 /\ outbox[d] # <<>>
  /\ flush' = [flush EXCEPT ![d].left = IF Len(outbox[d]) < FlushLimit THEN Len(outbox[d])
                                                                       ELSE FlushLimit]
  /\ UNCHANGED <<apiVars, rowVars, outbox, app, photos, trouble>>

\* Mutant: rows are sent without a flush that counts them.
SendingUnasked(d) == outbox[d] # <<>> /\ flush[d].on = NoHandler

Sending(d) == flush[d].left > 0 /\ flush[d].on = NoHandler

\* The row is deleted; the end of a flush counts what remains.
RowDone(d, a) ==
  /\ outbox' = [outbox EXCEPT ![d] = Tail(@)]
  /\ flush' = [flush EXCEPT ![d] = [left |-> @.left - 1, on |-> NoHandler]]
  /\ app' = [app EXCEPT ![d] =
               [a EXCEPT !.pending = IF flush[d].left = 1 THEN Len(outbox[d]) > 1 ELSE @]]

\* Mutant: a row that fails is put behind the others.
FlushRotates(d) == /\ flush' = [flush EXCEPT ![d] = NoFlush]
                   /\ app' = [app EXCEPT ![d].pending = TRUE]
                   /\ outbox' = [outbox EXCEPT ![d] = Append(Tail(@), Head(@))]

\* Any other failure ends the flush, so that no later row overtakes this one.
FlushStops(d) == /\ flush' = [flush EXCEPT ![d] = NoFlush]
                 /\ app' = [app EXCEPT ![d].pending = TRUE]
                 /\ UNCHANGED outbox

SendPhoto(d) ==
  /\ Sending(d) /\ Head(outbox[d]).kind = Photo
  /\ photos' = photos \cup {Head(outbox[d]).order}
  /\ RowDone(d, app[d])
  /\ UNCHANGED <<apiVars, rowVars, trouble>>

SendRow(d, h) ==
  /\ Sending(d) /\ Head(outbox[d]).kind # Photo /\ api[h] = Idle
  /\ api' = [api EXCEPT ![h] = Posted(Head(outbox[d]).order, Head(outbox[d]).kind)]
  /\ flush' = [flush EXCEPT ![d].on = h]
  /\ UNCHANGED <<phase, recorded, rowVars, outbox, app, photos, trouble>>

\* Mutant: any answer counts as delivered.
RowAnsweredAnyhow(d) ==
  LET h == flush[d].on
  IN  /\ h # NoHandler /\ api[h].at = "answer"
      /\ RowDone(d, app[d])
      /\ api' = [api EXCEPT ![h] = Idle]
      /\ UNCHANGED <<phase, recorded, rowVars, photos, trouble>>

RowAnswered(d) ==
  LET h == flush[d].on
      r == api[h]
      delivers == r.event = "POD" /\ r.code = 200 /\ app[d].active = r.order
  IN  /\ h # NoHandler /\ r.at = "answer"
      /\ \/ r.code \in {200, 409} /\ RowDone(d, IF delivers THEN Cleared(app[d]) ELSE app[d])
         \/ r.code = 500 /\ FlushStops(d)
      /\ api' = [api EXCEPT ![h] = Idle]
      /\ UNCHANGED <<phase, recorded, rowVars, photos, trouble>>

\* The connection is lost on the way there or back; a request that arrived runs on.
RowLost(d) ==
  /\ flush[d].left > 0
  /\ FlushStops(d) /\ Fault
  /\ UNCHANGED <<apiVars, rowVars, photos>>

\* Nobody waits for the answer.
Abandon(h) ==
  /\ api[h].at = "answer"
  /\ \A d \in Drivers : flush[d].on # h /\ app[d].posting # h
  /\ api' = [api EXCEPT ![h] = Idle]
  /\ UNCHANGED <<phase, recorded, rowVars, appVars, trouble>>

(*****************************************************************************)
(* Polling GET /state.                                                       *)
(*****************************************************************************)
\* The stage an answer is shown as: the server sends no stage, and of its granular
\* statuses serverStage knows PICKED_UP alone.
serverStage(o) ==
  IF status[o] = "PICKED_UP" /\ phase[o] # PHASE_RANK.ARRIVED_AT_DROPOFF THEN 3 ELSE 1

\* GET /state lists an order the server counts as active, without ARRIVED.
Answers(d) ==
  LET mine == {o \in Orders : driverOf[o] = d /\ status[o] \in CountedActive}
  IN  IF mine = {} THEN {[NoPoll EXCEPT !.got = TRUE]}
                   ELSE {[got |-> TRUE, order |-> o, stage |-> serverStage(o)] : o \in mine}

\* hydrate: the server is right, except that a stage the driver has already reached
\* stays, and an order stays while the outbox is not known to be empty.
Hydrated(a, p) ==
  LET next == IF p.order # NoOrder
                THEN [a EXCEPT !.active = p.order,
                               !.stage = IF a.active = p.order /\ a.stage > p.stage THEN @ ELSE p.stage]
                ELSE IF a.active # NoOrder /\ a.pending THEN a ELSE Cleared(a)
  IN  [next EXCEPT !.poll = NoPoll]

\* One request at a time.  Most answers are there at once; a slow one is overtaken by
\* what the driver does meanwhile.
Poll(d) ==
  /\ ~app[d].poll.got
  /\ \E p \in Answers(d) :
       \/ app' = [app EXCEPT ![d] = Hydrated(@, p)] /\ UNCHANGED trouble
       \/ app' = [app EXCEPT ![d].poll = p] /\ Fault
  /\ UNCHANGED <<apiVars, rowVars, outbox, flush, photos>>

Hydrate(d) ==
  /\ app[d].poll.got
  /\ app' = [app EXCEPT ![d] = Hydrated(@, @.poll)]
  /\ UNCHANGED <<apiVars, rowVars, outbox, flush, photos, trouble>>

\* The app is killed and started again: only the outbox was on disk.
Restart(d) ==
  /\ Fault
  /\ app' = [app EXCEPT ![d] = Started]
  /\ flush' = [flush EXCEPT ![d] = NoFlush]
  /\ UNCHANGED <<apiVars, rowVars, outbox, photos>>
(*****************************************************************************)
(* Everybody else: the dispatch engine, and the people who may cancel.       *)
(*****************************************************************************)
Dispatching(o) ==
  /\ \/ status[o] \in Intake \cup {"NONE", "NO_DRIVER"} /\ status' = [status EXCEPT ![o] = "DISPATCHING"]
     \/ transitionOrder(o, "DISPATCHING", "NO_DRIVER")
  /\ UNCHANGED <<driverOf, apiVars, appVars, trouble>>

StaffCancels(o) ==
  /\ status[o] \in {"DISPATCHING", "NO_DRIVER", "ASSIGNED", "ARRIVED", "PICKED_UP"}
  /\ transitionOrder(o, status[o], "CANCELLED")
  /\ UNCHANGED <<driverOf, apiVars, appVars, trouble>>

vars == <<rowVars, apiVars, appVars, trouble>>

Init == RowInit /\ ApiInit /\ AppInit

Serve(h) == Handle(h) /\ UNCHANGED <<appVars, trouble>>
Fails(h) == HandlerFails(h) /\ Fault /\ UNCHANGED appVars

Screens(d) ==
  \/ \E o \in Orders : Accept(d, o) \/ Assign(d, o)
  \/ QueueArrivalPhoto(d) \/ ClaimArrival(d) \/ Advance(d)
  \/ \E h \in Handlers : SubmitPod(d, h)
  \/ PodAnswered(d) \/ PodLost(d) \/ FailTrip(d)

Outbox(d) ==
  \/ StartFlush(d) \/ SendPhoto(d) \/ RowAnswered(d) \/ RowLost(d)
  \/ \E h \in Handlers : SendRow(d, h)

Next ==
  \/ \E h \in Handlers : Serve(h) \/ Fails(h) \/ Abandon(h)
  \/ \E d \in Drivers : Screens(d) \/ Outbox(d) \/ Poll(d) \/ Hydrate(d) \/ Restart(d)
  \/ \E o \in Orders : Dispatching(o) \/ StaffCancels(o)

Spec == Init /\ [][Next]_vars

\* Requests are served and answers arrive; the outbox is flushed on every poll, GPS wake
\* and tap; the driver does what his screen asks for, as often as it asks.
FairSpec ==
  /\ Spec
  /\ \A h \in Handlers : WF_vars(Serve(h)) /\ WF_vars(Abandon(h))
  /\ \A d \in Drivers :
       /\ WF_vars(StartFlush(d)) /\ WF_vars(SendPhoto(d)) /\ WF_vars(RowAnswered(d))
       /\ SF_vars(\E h \in Handlers : SendRow(d, h)) /\ SF_vars(\E h \in Handlers : SubmitPod(d, h))
       /\ WF_vars(Poll(d) /\ UNCHANGED trouble) /\ WF_vars(Hydrate(d)) /\ WF_vars(PodAnswered(d))
       /\ SF_vars(QueueArrivalPhoto(d)) /\ SF_vars(ClaimArrival(d)) /\ SF_vars(Advance(d))

(*****************************************************************************)
(* Properties.                                                               *)
(*****************************************************************************)
\* Every variable keeps its type.
TypeOK == RowTypeOK /\ ApiTypeOK /\ AppTypeOK

\* Whoever claims to be at the restaurant has sent the photo of it before: the outbox
\* brings the two in the order they were queued in, across crashes (arrival.tsx).
ProofBeforeClaim ==
  \A o \in Orders : "ARRIVED_AT_PICKUP" \in recorded[o] => o \in photos

\* Nobody leaves the restaurant without the picture (arrival.tsx).
PhotoBeforePickup == \A o \in Orders : "PICKED_UP" \in recorded[o] => o \in photos

\* The phase of an order never goes back ("never backwards", agentDelivery.ts), although
\* one of its writers is a plain update of what was read long before.
PhaseMonotone == [][\A o \in Orders : phase[o] <= phase'[o]]_vars

\* Delivered is delivered and the driver stays: what the app, the API and the staff do
\* to an order are steps of the order lifecycle.
Lifecycle == INSTANCE OrderLifecycle WITH status <- status, driverOf <- driverOf
LifecycleSpec == Lifecycle!Spec

\* A driver who has reported his arrival can go on with the delivery.
ArrivedGoesOn == \A o \in Orders : status[o] = "ARRIVED" ~> status[o] # "ARRIVED"
=============================================================================
