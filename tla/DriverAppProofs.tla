--------------------------- MODULE DriverAppProofs ---------------------------
(*****************************************************************************)
(* Theorems about DriverApp, for any number of orders, phones and requests,  *)
(* any flush limit and any number of faults.  The order of the milestones is *)
(* proved with the history variable of DriverAppHistory.                     *)
(*****************************************************************************)
EXTENDS DriverAppHistory, TLAPS

----------------------------------------------------------------------------
(* The inductive invariant *)

\* The courier has, or had, the goods; or nobody will.
Collected(o) == status[o] \in {"PICKED_UP"} \cup {"DELIVERED", "FAILED", "RETURNED", "CANCELLED"}

\* An order nobody was given has no driver; how far its phase is before the pickup.
RowInv ==
  /\ RowTypeOK /\ phase \in [Orders -> 0 .. 5]
  /\ \A o \in Orders :
       /\ status[o] \in Unassigned => driverOf[o] = NoDriver
       /\ status[o] \in Unassigned \cup {"ASSIGNED"} => phase[o] = 0
       /\ status[o] = "ARRIVED" => phase[o] = 2

\* What a request knows of the order it has read.
RequestInv(h) ==
  LET r == api[h]
  IN  /\ r.at # "idle" => r.order \in Orders
      /\ r.at = "replay" /\ r.saw = "ARRIVED" => r.rank >= 2
      /\ r.at = "replay" /\ r.saw = "PICKED_UP" => Collected(r.order)
      /\ r.at = "commit" /\ r.event = "PICKED_UP" => r.saw \in {"ASSIGNED", "ARRIVED"}
      /\ r.at = "commit" /\ r.event = "ARRIVED_AT_PICKUP" => r.saw = "ASSIGNED"
      /\ r.at = "commit" /\ r.event = "ARRIVED_AT_DROPOFF" => Collected(r.order)
      /\ r.at = "note" => r.event \in {"ARRIVED_AT_DROPOFF", "POD"} /\ (r.event # "POD" => Collected(r.order))

ApiInv == recorded \in [Orders -> SUBSET Event] /\ api \in [Handlers -> Request]
          /\ \A h \in Handlers : RequestInv(h)

\* A request whose answer somebody waits for is his alone, and has begun.
WaitInv ==
  /\ \A d \in Drivers : /\ flush[d].on # NoHandler => api[flush[d].on].at # "idle"
                        /\ app[d].posting # NoHandler => api[app[d].posting].at # "idle"
  /\ \A d, e \in Drivers :
       /\ flush[d].on # NoHandler => flush[d].on # app[e].posting
       /\ d # e /\ flush[d].on # NoHandler => flush[d].on # flush[e].on
       /\ d # e /\ app[d].posting # NoHandler => app[d].posting # app[e].posting

\* A flush has rows to send, and the first of them is the one that it waits for.
FlushInv(d) ==
  /\ flush[d].left <= Len(outbox[d])
  /\ flush[d].on # NoHandler => flush[d].left > 0 /\ Head(outbox[d]).kind # Photo

PhotoOf(o) == [order |-> o, kind |-> Photo]
ClaimOf(o) == [order |-> o, kind |-> "ARRIVED_AT_PICKUP"]

\* The photo of an order has arrived, or is among the first rows of an outbox.
PhotoBefore(d, o, n) == o \in photos \/ \E i \in 1 .. Len(outbox[d]) : i < n /\ outbox[d][i] = PhotoOf(o)

\* In an outbox the photo of an order is in front of the claim, and so it is when the
\* claim is still to be queued.
QueueInv(d) ==
  /\ \A i \in 1 .. Len(outbox[d]) : \A o \in Orders : outbox[d][i] = ClaimOf(o) => PhotoBefore(d, o, i)
  /\ app[d].shot # NoOrder => PhotoBefore(d, app[d].shot, Len(outbox[d]) + 1)

\* What the phone keeps, by its names.
Flush == [left : Nat, on : Handlers \cup {NoHandler}]
PollAnswer == [got : BOOLEAN, order : Orders \cup {NoOrder}, stage : Stage]
App == [active : Orders \cup {NoOrder}, stage : Stage, pending : BOOLEAN, shot : Orders \cup {NoOrder},
        poll : PollAnswer,
        posting : Handlers \cup {NoHandler}]

PhoneTypes ==
  /\ outbox \in [Drivers -> Seq(Row)] /\ flush \in [Drivers -> Flush] /\ app \in [Drivers -> App]
  /\ photos \subseteq Orders /\ trouble \in 0 .. MaxTrouble

PhoneInv == PhoneTypes /\ \A d \in Drivers : FlushInv(d) /\ QueueInv(d)

\* A claim on its way was behind its photo in the outbox.
PostedInv ==
  \A h \in Handlers :
    api[h].at # "idle" /\ api[h].event = "ARRIVED_AT_PICKUP" => api[h].order \in photos

IInv == RowInv /\ ApiInv /\ PhoneInv /\ WaitInv /\ PostedInv /\ ProofBeforeClaim

----------------------------------------------------------------------------
(* The order's row *)

\* Everything a step may do to the row and its phase.
Move(o, to) ==
  /\ status' = [status EXCEPT ![o] = to]
  /\ IF to = "ASSIGNED" THEN \E d \in Drivers : driverOf' = [driverOf EXCEPT ![o] = d]
                        ELSE UNCHANGED driverOf

RowStep ==
  \/ UNCHANGED <<status, driverOf, phase>>
  \/ \E o \in Orders, to \in Status \ {"NONE", "ARRIVED"} :
       /\ Move(o, to) /\ UNCHANGED phase
       /\ \/ isTransitionAllowed(status[o], to)
          \/ to = "DISPATCHING" /\ status[o] \in Intake \cup {"NONE", "NO_DRIVER"}
  \/ \E o \in Orders :
       /\ Move(o, "ARRIVED") /\ status[o] = "ASSIGNED" /\ phase' = [phase EXCEPT ![o] = 2]
  \/ \E o \in Orders :
       /\ Move(o, "PICKED_UP") /\ status[o] \in {"ASSIGNED", "ARRIVED"} /\ phase' = [phase EXCEPT ![o] = 3]
  \/ \E o \in Orders :
       UNCHANGED <<status, driverOf>> /\ Collected(o) /\ phase' = [phase EXCEPT ![o] = 5]

LEMMA Tables ==
  /\ \A s \in {"NONE", "CREATED", "REJECTED", "DISPATCHING", "NO_DRIVER"} :
       \A to \in Status : isTransitionAllowed(s, to) => to \in Unassigned \cup {"ASSIGNED", "CANCELLED"}
  /\ \A s \in {"ASSIGNED", "ARRIVED", "PICKED_UP", "DELIVERED", "FAILED", "RETURNED", "CANCELLED"} :
       \A to \in Status : isTransitionAllowed(s, to) => to \notin Unassigned \cup {"ASSIGNED"}
  /\ \A s \in {"PICKED_UP", "DELIVERED", "FAILED", "RETURNED", "CANCELLED"} :
       \A to \in Status : isTransitionAllowed(s, to) => to \in {"DELIVERED", "FAILED", "RETURNED", "CANCELLED"}
  /\ \A s \in Status : isTransitionAllowed(s, "ASSIGNED") => s \in Unassigned
BY DEF isTransitionAllowed, ALLOWED, Status, Unassigned

\* The row after a step: the invariant, what is collected, and the phase.
LEMMA RowKeeps ==
  ASSUME RowInv, RowStep
  PROVE  /\ RowInv'
         /\ \A o \in Orders : Collected(o) => Collected(o)'
         /\ \A o \in Orders : phase[o] <= phase'[o]
<1>1. CASE UNCHANGED <<status, driverOf, phase>>
  BY <1>1 DEF RowInv, RowTypeOK, Collected
<1>2. ASSUME NEW o \in Orders, NEW to \in Status \ {"NONE", "ARRIVED"}, Move(o, to), UNCHANGED phase,
             \/ isTransitionAllowed(status[o], to)
             \/ to = "DISPATCHING" /\ status[o] \in Intake \cup {"NONE", "NO_DRIVER"}
      PROVE  RowInv' /\ (\A p \in Orders : Collected(p) => Collected(p)')
                     /\ \A p \in Orders : phase[p] <= phase'[p]
  <2>1. status[o] \in Status /\ to \in Status /\ to # "ARRIVED"
    BY DEF RowInv, RowTypeOK
  <2>2. to \in Unassigned => status[o] \in Unassigned
    BY <1>2, <2>1, Tables DEF Unassigned, Intake, Status
  <2>3. to = "ASSIGNED" => status[o] \in Unassigned
    BY <1>2, <2>1, Tables
  <2>4. Collected(o) => to \in {"DELIVERED", "FAILED", "RETURNED", "CANCELLED"}
    BY <1>2, <2>1, Tables DEF Collected, Intake
  <2>5. status' \in [Orders -> Status] /\ status'[o] = to /\ \A p \in Orders : p # o => status'[p] = status[p]
    BY <1>2 DEF Move, RowInv, RowTypeOK
  <2>6. /\ driverOf' \in [Orders -> Drivers \cup {NoDriver}]
        /\ \A p \in Orders : p # o \/ to # "ASSIGNED" => driverOf'[p] = driverOf[p]
    BY <1>2 DEF Move, RowInv, RowTypeOK
  <2>7. RowInv'
    <3>1. to = "ASSIGNED" => to \notin Unassigned
      BY DEF Unassigned
    <3> QED  BY <1>2, <2>1, <2>2, <2>3, <2>5, <2>6, <3>1 DEF RowInv, RowTypeOK
  <2>8. \A p \in Orders : Collected(p) => Collected(p)'
    BY <2>4, <2>5 DEF Collected
  <2> QED  BY <1>2, <2>7, <2>8 DEF RowInv
<1>3. ASSUME NEW o \in Orders, NEW to \in {"ARRIVED", "PICKED_UP"}, NEW n \in {2, 3},
             Move(o, to), status[o] \in {"ASSIGNED", "ARRIVED"}, phase' = [phase EXCEPT ![o] = n],
             to = "ARRIVED" => n = 2
      PROVE  RowInv' /\ (\A p \in Orders : Collected(p) => Collected(p)')
                     /\ \A p \in Orders : phase[p] <= phase'[p]
  <2>1. status' \in [Orders -> Status] /\ status'[o] = to /\ \A p \in Orders : p # o => status'[p] = status[p]
    BY <1>3 DEF Move, RowInv, RowTypeOK, Status
  <2>2. UNCHANGED driverOf /\ to \notin Unassigned \cup {"ASSIGNED"}
    BY <1>3 DEF Move, Unassigned
  <2>3. /\ phase' \in [Orders -> 0 .. 5] /\ phase'[o] = n
        /\ \A p \in Orders : p # o => phase'[p] = phase[p]
    BY <1>3 DEF RowInv
  <2>4. phase[o] \in {0, 2}
    BY <1>3 DEF RowInv
  <2>5. RowInv'
    BY <1>3, <2>1, <2>2, <2>3 DEF RowInv, RowTypeOK
  <2>6. \A p \in Orders : Collected(p) => Collected(p)'
    BY <1>3, <2>1 DEF Collected
  <2>7. \A p \in Orders : phase[p] <= phase'[p]
    BY <2>3, <2>4 DEF RowInv
  <2> QED  BY <2>5, <2>6, <2>7
<1>4. ASSUME NEW o \in Orders, UNCHANGED <<status, driverOf>>, Collected(o), phase' = [phase EXCEPT ![o] = 5]
      PROVE  RowInv' /\ (\A p \in Orders : Collected(p) => Collected(p)')
                     /\ \A p \in Orders : phase[p] <= phase'[p]
  <2>1. /\ phase' \in [Orders -> 0 .. 5] /\ phase'[o] = 5
        /\ \A p \in Orders : p # o => phase'[p] = phase[p]
    BY <1>4 DEF RowInv
  <2>2. status[o] \notin Unassigned \cup {"ASSIGNED", "ARRIVED"}
    BY <1>4 DEF Collected, Unassigned
  <2> QED  BY <1>4, <2>1, <2>2 DEF RowInv, RowTypeOK, Collected
<1> QED  BY <1>1, <1>2, <1>3, <1>4 DEF RowStep

\* The requests a handler serves, and how they move the row.
LEMMA ServeMoves ==
  ASSUME RowInv, ApiInv, NEW h \in Handlers, Handle(h)
  PROVE  RowStep
<1> DEFINE r == api[h]
<1>1. r.at # "idle" => r.order \in Orders
  BY DEF ApiInv, RequestInv
<1>2. CASE CommitMilestone(h)
  <2>1. r.at = "commit" /\ MovesTheOrder(r) /\ r.event \in {"PICKED_UP", "ARRIVED_AT_PICKUP"}
    BY <1>2 DEF CommitMilestone, MovesTheOrder
  <2>2. CASE UNCHANGED <<phase, recorded, status>>
    BY <1>2, <2>2 DEF CommitMilestone, RowStep
  <2>3. CASE r.event = "PICKED_UP" /\ ~UNCHANGED <<phase, recorded, status>>
    <3>1. /\ status[r.order] = r.saw /\ status' = [status EXCEPT ![r.order] = "PICKED_UP"]
          /\ UNCHANGED driverOf /\ phase' = [phase EXCEPT ![r.order] = 3]
      BY <1>2, <2>3 DEF CommitMilestone, transitionOrder, CanTransition, PHASE_RANK
    <3>2. r.saw \in {"ASSIGNED", "ARRIVED"}
      BY <2>1, <2>3 DEF ApiInv, RequestInv
    <3> QED  BY <1>1, <2>1, <3>1, <3>2 DEF RowStep, Move
  <2>4. CASE r.event = "ARRIVED_AT_PICKUP" /\ ~UNCHANGED <<phase, recorded, status>>
    <3>1. /\ status[r.order] = r.saw /\ status' = [status EXCEPT ![r.order] = "ARRIVED"]
          /\ UNCHANGED driverOf /\ phase' = [phase EXCEPT ![r.order] = 2]
      BY <1>2, <2>4 DEF CommitMilestone, transitionOrder, CanTransition, PHASE_RANK
    <3>2. r.saw = "ASSIGNED"
      BY <2>1, <2>4 DEF ApiInv, RequestInv
    <3> QED  BY <1>1, <2>1, <3>1, <3>2 DEF RowStep, Move
  <2> QED  BY <2>1, <2>2, <2>3, <2>4
<1>3. CASE WritePhase(h)
  <2>1. r.at = "note" /\ r.event = "ARRIVED_AT_DROPOFF" /\ Collected(r.order)
    BY <1>3 DEF WritePhase, ApiInv, RequestInv, Milestones, PHASE_RANK
  <2>2. UNCHANGED <<status, driverOf>> /\ phase' = [phase EXCEPT ![r.order] = 5]
    BY <1>3, <2>1 DEF WritePhase, PHASE_RANK, rowVars
  <2> QED  BY <1>1, <2>1, <2>2 DEF RowStep
<1>4. CASE CompleteDelivery(h)
  <2>1. r.at = "commit"
    BY <1>4 DEF CompleteDelivery
  <2>2. CASE UNCHANGED status
    BY <1>4, <2>2 DEF CompleteDelivery, RowStep
  <2>3. CASE transitionOrder(r.order, "PICKED_UP", "DELIVERED")
    <3>1. /\ isTransitionAllowed(status[r.order], "DELIVERED") /\ UNCHANGED <<phase, driverOf>>
          /\ status' = [status EXCEPT ![r.order] = "DELIVERED"]
      BY <1>4, <2>3 DEF CompleteDelivery, transitionOrder, CanTransition
    <3>2. "DELIVERED" \in Status \ {"NONE", "ARRIVED"}
      BY DEF Status
    <3> QED  BY <1>1, <2>1, <3>1, <3>2 DEF RowStep, Move
  <2> QED  BY <1>4, <2>2, <2>3 DEF CompleteDelivery
<1>5. CASE LoadOrder(h) \/ ReplayMilestone(h) \/ ReplayPod(h) \/ RecordMilestone(h) \/ RecordPod(h)
  BY <1>5 DEF LoadOrder, ReplayMilestone, ReplayPod, RecordMilestone, RecordPod, rowVars, RowStep
<1> QED  BY <1>2, <1>3, <1>4, <1>5 DEF Handle

LEMMA RowSteps ==
  ASSUME IInv, [Next]_vars
  PROVE  RowStep
<1>1. RowInv /\ ApiInv
  BY DEF IInv
<1>2. ASSUME NEW o \in Orders, NEW from, NEW to \in Status \ {"NONE", "ARRIVED", "ASSIGNED"},
             transitionOrder(o, from, to), UNCHANGED <<driverOf, phase>>
      PROVE  RowStep
  <2>1. isTransitionAllowed(status[o], to) /\ status' = [status EXCEPT ![o] = to]
    BY <1>2 DEF transitionOrder, CanTransition
  <2> QED  BY <1>2, <2>1 DEF RowStep, Move
<1>3. {"FAILED", "CANCELLED", "NO_DRIVER", "DISPATCHING"} \subseteq Status \ {"NONE", "ARRIVED", "ASSIGNED"}
  BY DEF Status
<1>4. ASSUME NEW h \in Handlers, Serve(h) \/ Fails(h) \/ Abandon(h)
      PROVE  RowStep
  <2>1. CASE Serve(h)
    BY <1>1, <2>1, ServeMoves DEF Serve
  <2> QED  BY <1>4, <2>1 DEF Fails, HandlerFails, Abandon, rowVars, RowStep
<1>5. ASSUME NEW d \in Drivers, NEW o \in Orders, Accept(d, o) \/ Assign(d, o)
      PROVE  RowStep
  <2>1. /\ isTransitionAllowed(status[o], "ASSIGNED") /\ status' = [status EXCEPT ![o] = "ASSIGNED"]
        /\ driverOf' = [driverOf EXCEPT ![o] = d] /\ UNCHANGED phase
    BY <1>5 DEF Accept, Assign, transitionOrder, CanTransition, apiVars
  <2>2. "ASSIGNED" \in Status \ {"NONE", "ARRIVED"}
    BY DEF Status
  <2> QED  BY <2>1, <2>2 DEF RowStep, Move
<1>6. ASSUME NEW d \in Drivers, FailTrip(d)
      PROVE  RowStep
  <2>1. app[d].active \in Orders
    BY <1>6, RowAssumption DEF FailTrip, IInv, PhoneInv, PhoneTypes, App
  <2> QED  BY <1>2, <1>3, <1>6, <2>1 DEF FailTrip, apiVars
<1>7. ASSUME NEW d \in Drivers, Screens(d)
      PROVE  RowStep
  BY <1>5, <1>6, <1>7, Zenon DEF Screens, QueueArrivalPhoto, ClaimArrival, Advance, SubmitPod, PodAnswered,
         PodLost, apiVars, rowVars, RowStep
<1>8. ASSUME NEW d \in Drivers, Outbox(d) \/ Poll(d) \/ Hydrate(d) \/ Restart(d)
      PROVE  RowStep
  BY <1>8, Zenon DEF Outbox, StartFlush, SendPhoto, RowAnswered, RowLost, SendRow, Poll, Hydrate, Restart,
         apiVars, rowVars, RowStep
<1>9. ASSUME NEW o \in Orders, Dispatching(o) \/ StaffCancels(o)
      PROVE  RowStep
  <2>1. UNCHANGED <<driverOf, phase>>
    BY <1>9 DEF Dispatching, StaffCancels, apiVars
  <2>2. CASE status[o] \in Intake \cup {"NONE", "NO_DRIVER"} /\ status' = [status EXCEPT ![o] = "DISPATCHING"]
    <3>1. "DISPATCHING" \in Status \ {"NONE", "ARRIVED"}
      BY DEF Status
    <3> QED  BY <2>1, <2>2, <3>1 DEF RowStep, Move
  <2> QED  BY <1>2, <1>3, <1>9, <2>1, <2>2 DEF Dispatching, StaffCancels
<1>10. CASE UNCHANGED vars
  BY <1>10 DEF vars, rowVars, apiVars, RowStep
<1> QED  BY <1>4, <1>7, <1>8, <1>9, <1>10 DEF Next

----------------------------------------------------------------------------
(* The requests *)

\* A request is not touched by a step that leaves what is collected collected.
LEMMA RequestStays ==
  ASSUME NEW h \in Handlers, RequestInv(h), api'[h] = api[h],
         \A o \in Orders : Collected(o) => Collected(o)'
  PROVE  RequestInv(h)'
BY DEF RequestInv

\* The fields of a request, by the names of what they range over.
At == {"idle", "load", "replay", "commit", "note", "answer"}
Rank == 0 .. 5
Code == {0, 200, 409, 500}
Requests == [at : At, order : Orders \cup {NoOrder}, event : Event, saw : Status, rank : Rank, code : Code]

LEMMA RequestSet == Request = Requests
BY DEF Request, Requests, At, Rank, Code

LEMMA IdleRequest == Idle \in Request /\ Idle.at = "idle"
BY DEF Idle, Request, Event, Status

LEMMA PostedRequest ==
  ASSUME NEW o \in Orders, NEW e \in Event
  PROVE  Posted(o, e) \in Request /\ Posted(o, e).at = "load" /\ Posted(o, e).order = o /\ Posted(o, e).event = e
<1> DEFINE p == [Idle EXCEPT !.at = "load", !.order = o, !.event = e]
<1>1. Idle \in Requests /\ "load" \in At /\ o \in Orders \cup {NoOrder}
  BY IdleRequest, RequestSet DEF At
<1>2. p \in Requests /\ p.at = "load" /\ p.order = o /\ p.event = e
  BY <1>1 DEF Requests
<1> QED  BY <1>2, RequestSet DEF Posted

\* A request of another shape in place of one.
LEMMA RequestReplaced ==
  ASSUME ApiInv, NEW h \in Handlers, NEW r \in Request, api' = [api EXCEPT ![h] = r], UNCHANGED recorded,
         r.at \in {"idle", "load", "answer"}, r.at # "idle" => r.order \in Orders,
         \A o \in Orders : Collected(o) => Collected(o)'
  PROVE  ApiInv'
<1>1. api' \in [Handlers -> Request] /\ api'[h] = r /\ \A g \in Handlers : g # h => api'[g] = api[g]
  BY DEF ApiInv
<1>2. RequestInv(h)'
  BY <1>1 DEF RequestInv
<1> QED  BY <1>1, <1>2, RequestStays DEF ApiInv

\* What a handler turns its own request into.
LEMMA StepFields ==
  ASSUME ApiInv, NEW h \in Handlers, NEW at \in {"commit", "note"}, Step(h, at)
  PROVE  /\ api' \in [Handlers -> Request] /\ \A g \in Handlers : g # h => api'[g] = api[g]
         /\ api'[h].at = at /\ api'[h].saw = api[h].saw /\ api'[h].order = api[h].order
         /\ api'[h].event = api[h].event /\ api'[h].rank = 0
         /\ api[h].saw \in Status
<1>1. /\ api \in [Handlers -> Requests] /\ api[h] \in Requests /\ api[h].saw \in Status
      /\ at \in At /\ 0 \in Rank
  BY RequestSet DEF ApiInv, Requests, At, Rank
<1>2. ASSUME NEW n \in Rank
      PROVE  LET r == [api[h] EXCEPT !.at = at, !.rank = n]
             IN  r \in Requests /\ r.at = at /\ r.saw = api[h].saw /\ r.order = api[h].order
                 /\ r.event = api[h].event /\ r.rank = n
  BY <1>1 DEF Requests
<1>3. PICK r : r = [api[h] EXCEPT !.at = at, !.rank = 0]
  OBVIOUS
<1>a. /\ r \in Requests /\ r.at = at /\ r.saw = api[h].saw /\ r.order = api[h].order
      /\ r.event = api[h].event /\ r.rank = 0
  BY <1>1, <1>2, <1>3, ZenonT(30)
<1>b. api' = [api EXCEPT ![h] = r]
  BY <1>3 DEF Step
<1>4. api' \in [Handlers -> Requests] /\ api'[h] = r /\ \A g \in Handlers : g # h => api'[g] = api[g]
  BY <1>1, <1>a, <1>b
<1> QED  BY <1>1, <1>a, <1>4, RequestSet

\* A step further goes on with what it has read.
LEMMA StepGoes ==
  ASSUME ApiInv, NEW h \in Handlers, api[h].at # "idle", NEW at \in {"commit", "note"}, Step(h, at),
         recorded' \in [Orders -> SUBSET Event],
         at = "commit" /\ api[h].event = "PICKED_UP" => api[h].saw \in {"ASSIGNED", "ARRIVED"},
         at = "commit" /\ api[h].event = "ARRIVED_AT_PICKUP" => api[h].saw = "ASSIGNED",
         at = "commit" /\ api[h].event = "ARRIVED_AT_DROPOFF" => Collected(api[h].order),
         at = "note" => /\ api[h].event \in {"ARRIVED_AT_DROPOFF", "POD"}
                        /\ api[h].event # "POD" => Collected(api[h].order),
         \A o \in Orders : Collected(o) => Collected(o)'
  PROVE  ApiInv'
<1>1. /\ api' \in [Handlers -> Request] /\ \A g \in Handlers : g # h => api'[g] = api[g]
      /\ api'[h].at = at /\ api'[h].saw = api[h].saw /\ api'[h].order = api[h].order
      /\ api'[h].event = api[h].event
  BY StepFields
<1>2. api[h].order \in Orders /\ \A g \in Handlers : RequestInv(g)
  BY DEF ApiInv, RequestInv
<1>3. RequestInv(h)'
  BY <1>1, <1>2 DEF RequestInv
<1> QED  BY <1>1, <1>2, <1>3, RequestStays DEF ApiInv

Answered(x, c, n) == [x EXCEPT !.at = "answer", !.code = c, !.saw = "NONE", !.rank = n]

LEMMA AnsweredRequest ==
  ASSUME NEW x \in Requests, NEW c \in Code, NEW n \in Rank
  PROVE  /\ Answered(x, c, n) \in Requests /\ Answered(x, c, n).at = "answer"
         /\ Answered(x, c, n).order = x.order /\ Answered(x, c, n).event = x.event
<1>1. "answer" \in At /\ "NONE" \in Status
  BY DEF At, Status
<1> QED  BY <1>1 DEF Answered, Requests

LEMMA AnswerFields ==
  ASSUME ApiInv, NEW h \in Handlers, NEW code \in {200, 409, 500}, Answer(h, code)
  PROVE  /\ api' \in [Handlers -> Request] /\ \A g \in Handlers : g # h => api'[g] = api[g]
         /\ api'[h].at = "answer" /\ api'[h].order = api[h].order /\ api'[h].event = api[h].event
<1>1. /\ api \in [Handlers -> Requests] /\ api[h] \in Requests
      /\ "answer" \in At /\ 0 \in Rank /\ "NONE" \in Status /\ code \in Code
  BY RequestSet DEF ApiInv, At, Rank, Status, Code
<1>2. PICK r : r = Answered(api[h], code, 0)
  OBVIOUS
<1>a. r \in Requests /\ r.at = "answer" /\ r.order = api[h].order /\ r.event = api[h].event
  BY <1>1, <1>2, AnsweredRequest
<1>b. api' = [api EXCEPT ![h] = r]
  BY <1>2 DEF Answer, Answered
<1>4. api' \in [Handlers -> Requests] /\ api'[h] = r /\ \A g \in Handlers : g # h => api'[g] = api[g]
  BY <1>1, <1>a, <1>b
<1> QED  BY <1>a, <1>4, RequestSet

\* An answer ends the work on a request, whatever it has recorded before.
LEMMA Answers200 ==
  ASSUME ApiInv, NEW h \in Handlers, api[h].at # "idle", NEW code \in {200, 409, 500}, Answer(h, code),
         recorded' \in [Orders -> SUBSET Event],
         \A o \in Orders : Collected(o) => Collected(o)'
  PROVE  ApiInv'
<1>1. /\ api' \in [Handlers -> Request] /\ \A g \in Handlers : g # h => api'[g] = api[g]
      /\ api'[h].at = "answer" /\ api'[h].order = api[h].order
  BY AnswerFields
<1>2. api[h].order \in Orders /\ \A g \in Handlers : RequestInv(g)
  BY DEF ApiInv, RequestInv
<1>3. RequestInv(h)'
  BY <1>1, <1>2 DEF RequestInv
<1> QED  BY <1>1, <1>2, <1>3, RequestStays DEF ApiInv

LEMMA HandleKeeps ==
  ASSUME RowInv, ApiInv, NEW h \in Handlers, Handle(h) \/ HandlerFails(h),
         \A o \in Orders : Collected(o) => Collected(o)'
  PROVE  ApiInv'
<1> DEFINE r == api[h]
<1>0. recorded \in [Orders -> SUBSET Event] /\ r \in Request /\ api \in [Handlers -> Request] /\ RequestInv(h)
  BY DEF ApiInv
<1>e. Event = {"ARRIVED_AT_PICKUP", "PICKED_UP", "ARRIVED_AT_DROPOFF", "POD"} /\ r.event \in Event
  BY <1>0 DEF Event, Milestones, PHASE_RANK, Request
<1>1. CASE LoadOrder(h)
  <2> DEFINE rank == currentPhaseRank(r.order)
             u == [r EXCEPT !.at = "replay", !.saw = status[r.order], !.rank = rank]
  <2>1. r.at = "load" /\ r.order \in Orders /\ UNCHANGED <<recorded, status, phase>> /\ api' = [api EXCEPT ![h] = u]
    BY <1>0, <1>1 DEF LoadOrder, RequestInv, rowVars
  <2>2. /\ status[r.order] \in Status /\ rank \in 0 .. 5
        /\ status[r.order] = "ARRIVED" => rank >= 2
        /\ status[r.order] = "PICKED_UP" => Collected(r.order)
    BY <2>1 DEF RowInv, RowTypeOK, currentPhaseRank, PHASE_RANK, Collected
  <2> HIDE DEF rank
  <2>3. u \in Request /\ u.at = "replay" /\ u.saw = status[r.order] /\ u.rank = rank /\ u.order = r.order
    <3>1. r \in Requests /\ "replay" \in At /\ rank \in Rank /\ status[r.order] \in Status
      BY <1>0, <2>2, RequestSet DEF At, Rank
    <3>2. u \in Requests /\ u.at = "replay" /\ u.saw = status[r.order] /\ u.rank = rank /\ u.order = r.order
      BY <3>1 DEF Requests
    <3> QED  BY <3>2, RequestSet
  <2> HIDE DEF u
  <2>4. api' \in [Handlers -> Request] /\ api'[h] = u /\ \A g \in Handlers : g # h => api'[g] = api[g]
    BY <1>0, <2>1, <2>3
  <2>5. recorded' \in [Orders -> SUBSET Event] /\ r.at # "idle"
    BY <1>0, <2>1
  <2>6. RequestInv(h)'
    BY <2>1, <2>2, <2>3, <2>4 DEF RequestInv, Collected
  <2> QED  BY <2>4, <2>5, <2>6, RequestStays DEF ApiInv
<1>2. CASE ReplayMilestone(h)
  <2>1. r.at = "replay" /\ r.order \in Orders /\ UNCHANGED recorded /\ r.event # "POD"
    BY <1>0, <1>2, <1>e DEF ReplayMilestone, RequestInv, Milestones, PHASE_RANK
  <2>2. CASE r.rank < PHASE_RANK[r.event] /\ r.saw \in AllowedFor(r.event) /\ Step(h, "commit")
    <3>1. /\ r.event = "PICKED_UP" => r.saw \in {"ASSIGNED", "ARRIVED"}
          /\ r.event = "ARRIVED_AT_PICKUP" => r.saw \in {"ASSIGNED", "ARRIVED"} /\ r.rank < 2
          /\ r.event = "ARRIVED_AT_DROPOFF" => r.saw = "PICKED_UP"
      BY <2>2 DEF AllowedFor, PHASE_RANK
    <3>2. r.rank \in 0 .. 5 /\ r.saw \in Status
      BY <1>0 DEF Request
    <3>3. r.event = "ARRIVED_AT_PICKUP" => r.saw = "ASSIGNED"
      BY <1>0, <2>1, <3>1, <3>2 DEF RequestInv
    <3>4. r.event = "ARRIVED_AT_DROPOFF" => Collected(r.order)
      BY <1>0, <2>1, <3>1 DEF RequestInv
    <3> QED  BY <1>0, <2>1, <2>2, <3>1, <3>3, <3>4, StepGoes
  <2>3. CASE Answer(h, 200) \/ Answer(h, 409)
    BY <1>0, <2>1, <2>3, Answers200
  <2> QED  BY <1>2, <2>2, <2>3 DEF ReplayMilestone
<1>3. CASE ReplayPod(h)
  <2>1. r.at = "replay" /\ r.order \in Orders /\ UNCHANGED recorded /\ r.event = "POD"
    BY <1>0, <1>3 DEF ReplayPod, RequestInv
  <2>2. CASE Step(h, "commit")
    BY <1>0, <2>1, <2>2, StepGoes
  <2>3. CASE Answer(h, IF "POD" \in recorded[r.order] THEN 200 ELSE 409)
    BY <1>0, <2>1, <2>3, Answers200
  <2> QED  BY <1>3, <2>2, <2>3 DEF ReplayPod
<1>4. CASE CommitMilestone(h)
  <2>1. r.at = "commit" /\ r.order \in Orders /\ recorded' \in [Orders -> SUBSET Event]
    BY <1>0, <1>4, <1>e DEF CommitMilestone, RequestInv
  <2>2. Answer(h, 200) \/ Answer(h, 409)
    BY <1>4 DEF CommitMilestone
  <2> QED  BY <1>0, <2>1, <2>2, Answers200
<1>5. CASE RecordMilestone(h)
  <2>1. r.at = "commit" /\ r.order \in Orders /\ recorded' \in [Orders -> SUBSET Event] /\ Step(h, "note")
    BY <1>0, <1>5, <1>e DEF RecordMilestone, RequestInv
  <2>2. r.event = "ARRIVED_AT_DROPOFF" /\ Collected(r.order)
    BY <1>0, <1>5, <1>e, <2>1 DEF RecordMilestone, RequestInv, MovesTheOrder, Milestones, PHASE_RANK
  <2> QED  BY <1>0, <2>1, <2>2, StepGoes
<1>6. CASE CompleteDelivery(h)
  <2>1. r.at = "commit" /\ r.order \in Orders /\ UNCHANGED recorded /\ r.event = "POD"
    BY <1>0, <1>6 DEF CompleteDelivery, RequestInv
  <2>2. CASE Step(h, "note")
    BY <1>0, <2>1, <2>2, StepGoes
  <2>3. CASE Answer(h, 409)
    BY <1>0, <2>1, <2>3, Answers200
  <2> QED  BY <1>6, <2>2, <2>3 DEF CompleteDelivery
<1>7. CASE WritePhase(h) \/ RecordPod(h)
  <2>1. r.at = "note" /\ r.order \in Orders /\ recorded' \in [Orders -> SUBSET Event] /\ Answer(h, 200)
    BY <1>0, <1>7, <1>e DEF WritePhase, RecordPod, RequestInv
  <2> QED  BY <1>0, <2>1, Answers200
<1>8. CASE HandlerFails(h)
  BY <1>0, <1>8, Answers200 DEF HandlerFails
<1> QED  BY <1>1, <1>2, <1>3, <1>4, <1>5, <1>6, <1>7, <1>8 DEF Handle

\* What a handler does not do: it forgets no request, changes neither its order nor its
\* event, and records nothing but that event.
LEMMA HandleFields ==
  ASSUME ApiInv, NEW h \in Handlers, Handle(h) \/ HandlerFails(h)
  PROVE  /\ api[h].at # "idle" /\ api'[h].at # "idle"
         /\ api'[h].order = api[h].order /\ api'[h].event = api[h].event
         /\ \A g \in Handlers : g # h => api'[g] = api[g]
         /\ \A o \in Orders : \A e \in recorded'[o] :
              e \in recorded[o] \/ (o = api[h].order /\ e = api[h].event)
<1>0. recorded \in [Orders -> SUBSET Event] /\ api \in [Handlers -> Request] /\ RequestInv(h)
  BY DEF ApiInv
<1>1. ASSUME NEW c \in {200, 409, 500}, Answer(h, c)
      PROVE  /\ api'[h].at # "idle" /\ api'[h].order = api[h].order /\ api'[h].event = api[h].event
             /\ \A g \in Handlers : g # h => api'[g] = api[g]
  BY <1>1, AnswerFields
<1>2. ASSUME NEW at \in {"commit", "note"}, Step(h, at)
      PROVE  /\ api'[h].at # "idle" /\ api'[h].order = api[h].order /\ api'[h].event = api[h].event
             /\ \A g \in Handlers : g # h => api'[g] = api[g]
  BY <1>2, StepFields
<1>3. CASE LoadOrder(h)
  <2>1. /\ api[h].at = "load" /\ UNCHANGED recorded
        /\ api' = [api EXCEPT ![h] = [api[h] EXCEPT !.at = "replay", !.saw = status[api[h].order],
                                                 !.rank = currentPhaseRank(api[h].order)]]
    BY <1>3 DEF LoadOrder
  <2>2. DOMAIN api = Handlers /\ {"at", "order", "event"} \subseteq DOMAIN api[h]
    BY <1>0 DEF Request
  <2> QED  BY <2>1, <2>2
<1>4. CASE ReplayMilestone(h) \/ ReplayPod(h)
  BY <1>1, <1>2, <1>4 DEF ReplayMilestone, ReplayPod
<1>5. CASE CommitMilestone(h) \/ CompleteDelivery(h)
  <2>1. /\ api[h].at = "commit"
        /\ UNCHANGED recorded \/ recorded' = [recorded EXCEPT ![api[h].order] = @ \cup {api[h].event}]
    BY <1>5 DEF CommitMilestone, CompleteDelivery
  <2>2. Answer(h, 200) \/ Answer(h, 409) \/ Step(h, "note")
    BY <1>5 DEF CommitMilestone, CompleteDelivery
  <2> QED  BY <1>0, <1>1, <1>2, <2>1, <2>2
<1>6. CASE RecordMilestone(h) \/ WritePhase(h) \/ RecordPod(h)
  <2>1. /\ api[h].at # "idle"
        /\ UNCHANGED recorded \/ recorded' = [recorded EXCEPT ![api[h].order] = @ \cup {api[h].event}]
    BY <1>6 DEF RecordMilestone, WritePhase, RecordPod
  <2>2. Answer(h, 200) \/ Step(h, "note")
    BY <1>6 DEF RecordMilestone, WritePhase, RecordPod
  <2> QED  BY <1>0, <1>1, <1>2, <2>1, <2>2
<1>7. CASE HandlerFails(h)
  BY <1>1, <1>7 DEF HandlerFails
<1> QED  BY <1>3, <1>4, <1>5, <1>6, <1>7 DEF Handle

----------------------------------------------------------------------------
(* The phone *)

\* A fault counts, and no more than it may.
LEMMA FaultCounts ==
  ASSUME PhoneTypes, Fault \/ UNCHANGED trouble
  PROVE  trouble' \in 0 .. MaxTrouble
BY AppAssumption DEF PhoneTypes, Fault

\* The other phones keep what they have while the photos only grow.
LEMMA OtherPhone ==
  ASSUME NEW e \in Drivers, FlushInv(e), QueueInv(e), photos \subseteq photos',
         outbox'[e] = outbox[e], flush'[e] = flush[e], app'[e] = app[e]
  PROVE  FlushInv(e)' /\ QueueInv(e)'
BY DEF FlushInv, QueueInv, PhotoBefore

\* What a row does to an outbox.
LEMMA EnqueuedRow ==
  ASSUME NEW d \in Drivers, outbox[d] \in Seq(Row), NEW row \in Row
  PROVE  /\ Enqueued(d, row) \in Seq(Row)
         /\ Len(outbox[d]) <= Len(Enqueued(d, row))
         /\ \A i \in 1 .. Len(outbox[d]) : Enqueued(d, row)[i] = outbox[d][i]
         /\ \A i \in 1 .. Len(Enqueued(d, row)) :
              i \notin 1 .. Len(outbox[d]) => i = Len(outbox[d]) + 1 /\ Enqueued(d, row)[i] = row
         /\ \E i \in 1 .. Len(Enqueued(d, row)) : Enqueued(d, row)[i] = row
<1> DEFINE q == outbox[d]
<1>1. CASE row \in Rows(d)
  <2>1. Enqueued(d, row) = q /\ \E i \in 1 .. Len(q) : q[i] = row
    BY <1>1 DEF Enqueued, Rows
  <2> QED  BY <2>1
<1>2. CASE row \notin Rows(d)
  <2>1. Enqueued(d, row) = Append(q, row)
    BY <1>2 DEF Enqueued
  <2>2. /\ Append(q, row) \in Seq(Row) /\ Len(Append(q, row)) = Len(q) + 1 /\ Len(q) \in Nat
        /\ \A i \in 1 .. Len(q) : Append(q, row)[i] = q[i]
        /\ Append(q, row)[Len(q) + 1] = row
    OBVIOUS
  <2> QED  BY <2>1, <2>2
<1> QED  BY <1>1, <1>2

\* A row is queued: a claim only behind its photo.
LEMMA PhoneQueues ==
  ASSUME PhoneInv, NEW d \in Drivers, NEW row \in Row, NEW a \in App,
         outbox' = [outbox EXCEPT ![d] = Enqueued(d, row)], app' = [app EXCEPT ![d] = a],
         UNCHANGED <<flush, photos>>, Fault \/ UNCHANGED trouble,
         \A o \in Orders : row = ClaimOf(o) => app[d].shot = o,
         a.shot \in {NoOrder, app[d].shot} \/ row = PhotoOf(a.shot)
  PROVE  PhoneInv'
<1>q. PICK q : q = outbox[d]
  OBVIOUS
<1>u. PICK u : u = Enqueued(d, row)
  OBVIOUS
<1>0. outbox' = [outbox EXCEPT ![d] = u]
  BY <1>u
<1>1. /\ PhoneTypes /\ FlushInv(d) /\ QueueInv(d) /\ q \in Seq(Row) /\ trouble' \in 0 .. MaxTrouble
      /\ flush[d] \in Flush
  BY <1>q, FaultCounts DEF PhoneInv, PhoneTypes
<1>2. /\ u \in Seq(Row) /\ Len(q) <= Len(u) /\ \A i \in 1 .. Len(q) : u[i] = q[i]
      /\ \A i \in 1 .. Len(u) : i \notin 1 .. Len(q) => i = Len(q) + 1 /\ u[i] = row
      /\ \E i \in 1 .. Len(u) : u[i] = row
  BY <1>1, <1>q, <1>u, EnqueuedRow, ZenonT(30)
<1>3. /\ outbox'[d] = u /\ app'[d] = a /\ \A e \in Drivers : e # d => outbox'[e] = outbox[e] /\ app'[e] = app[e]
  BY <1>0, <1>1 DEF PhoneTypes
<1>4. PhoneTypes'
  BY <1>0, <1>1, <1>2 DEF PhoneTypes
<1>5. FlushInv(d)'
  <2>1. Len(q) \in Nat /\ Len(u) \in Nat
    BY <1>1, <1>2
  <2>2. Len(q) > 0 => Head(u) = Head(q)
    BY <1>1, <1>2
  <2>3. flush'[d] = flush[d] /\ outbox'[d] = u /\ flush[d].left \in Nat
    BY <1>1, <1>3 DEF Flush
  <2>4. /\ flush[d].left <= Len(q)
        /\ flush[d].on # NoHandler => flush[d].left > 0 /\ Head(q).kind # Photo
    BY <1>1, <1>q DEF FlushInv
  <2>5. Len(q) <= Len(u)
    BY <1>2
  <2> QED  BY <2>1, <2>2, <2>3, <2>4, <2>5 DEF FlushInv
<1>6. \A o \in Orders : \A n \in 1 .. Len(q) + 1 : PhotoBefore(d, o, n) => PhotoBefore(d, o, n)'
  <2>1. Len(q) \in Nat /\ Len(u) \in Nat /\ outbox'[d] = u /\ UNCHANGED photos
    BY <1>1, <1>2, <1>3
  <2>2. ASSUME NEW o \in Orders, NEW n \in 1 .. Len(q) + 1, NEW i \in 1 .. Len(q), i < n, q[i] = PhotoOf(o)
        PROVE  PhotoBefore(d, o, n)'
    <3>1. i \in 1 .. Len(u) /\ u[i] = PhotoOf(o)
      BY <1>2, <2>1, <2>2
    <3> QED  BY <2>1, <2>2, <3>1 DEF PhotoBefore, PhotoOf
  <2> QED  BY <1>q, <2>1, <2>2 DEF PhotoBefore
<1>8. Len(q) \in Nat /\ Len(u) \in Nat /\ Len(q) + 1 \in 1 .. Len(q) + 1
  BY <1>1, <1>2
<1>7. QueueInv(d)'
  <2>1. ASSUME NEW i \in 1 .. Len(u), NEW o \in Orders, u[i] = ClaimOf(o)
        PROVE  PhotoBefore(d, o, i)'
    <3>1. CASE i \in 1 .. Len(q)
      BY <1>1, <1>2, <1>6, <2>1, <3>1, <1>q DEF QueueInv
    <3>2. CASE i \notin 1 .. Len(q)
      <4>1. i = Len(q) + 1 /\ app[d].shot = o /\ o # NoOrder
        BY <1>2, <2>1, <3>2, RowAssumption
      <4> QED  BY <1>1, <1>6, <4>1, <1>q DEF QueueInv
    <3> QED  BY <3>1, <3>2
  <2>2. ASSUME a.shot # NoOrder
        PROVE  PhotoBefore(d, a.shot, Len(u) + 1)'
    <3>1. a.shot \in Orders
      BY <2>2 DEF App
    <3>2. CASE a.shot = app[d].shot
      <4>1. PhotoBefore(d, a.shot, Len(q) + 1)'
        BY <1>1, <1>6, <1>8, <2>2, <3>1, <3>2, <1>q DEF QueueInv
      <4> QED  BY <1>8, <1>2, <1>3, <4>1 DEF PhotoBefore
    <3>3. CASE row = PhotoOf(a.shot)
      <4>1. PICK i \in 1 .. Len(u) : u[i] = row
        BY <1>2
      <4>2. i < Len(u) + 1 /\ outbox'[d][i] = PhotoOf(a.shot)
        BY <1>3, <1>8, <3>3, <4>1
      <4> QED  BY <1>3, <4>2 DEF PhotoBefore, PhotoOf
    <3> QED  BY <2>2, <3>2, <3>3
  <2> QED  BY <1>3, <2>1, <2>2 DEF QueueInv, PhotoBefore
<1> QED  BY <1>3, <1>4, <1>5, <1>7, OtherPhone DEF PhoneInv

\* The outbox stays, and the flush ends, goes on, or begins.
LEMMA PhoneWaits ==
  ASSUME PhoneInv, NEW d \in Drivers, NEW f \in Flush, NEW a \in App,
         UNCHANGED <<outbox, photos>>, Fault \/ UNCHANGED trouble,
         flush' = [flush EXCEPT ![d] = f], app' = [app EXCEPT ![d] = a],
         f.left <= Len(outbox[d]),
         f.on # NoHandler => f.left > 0 /\ Head(outbox[d]).kind # Photo,
         a.shot \in {NoOrder, app[d].shot}
  PROVE  PhoneInv'
<1>1. PhoneTypes /\ trouble' \in 0 .. MaxTrouble
  BY FaultCounts DEF PhoneInv
<1>2. /\ flush'[d] = f /\ app'[d] = a
      /\ \A e \in Drivers : e # d => flush'[e] = flush[e] /\ app'[e] = app[e]
  BY <1>1 DEF PhoneTypes
<1>3. PhoneTypes'
  BY <1>1 DEF PhoneTypes
<1>4. FlushInv(d)' /\ QueueInv(d)'
  BY <1>2 DEF PhoneInv, FlushInv, QueueInv, PhotoBefore
<1> QED  BY <1>2, <1>3, <1>4, OtherPhone DEF PhoneInv

\* The first row is done: a photo is on the server by now.
LEMMA PhonePops ==
  ASSUME PhoneInv, NEW d \in Drivers, NEW a \in App, flush[d].left > 0,
         RowDone(d, a), UNCHANGED trouble, a.shot = app[d].shot,
         photos \subseteq photos', photos' \subseteq Orders,
         Head(outbox[d]).kind = Photo => Head(outbox[d]).order \in photos'
  PROVE  PhoneInv'
<1>q. PICK q : q = outbox[d]
  OBVIOUS
<1>u. PICK u : u = Tail(q)
  OBVIOUS
<1>f. PICK f : f = [left |-> flush[d].left - 1, on |-> NoHandler]
  OBVIOUS
<1>1. PhoneTypes /\ FlushInv(d) /\ QueueInv(d) /\ q \in Seq(Row) /\ flush[d] \in Flush
  BY <1>q DEF PhoneInv, PhoneTypes
<1>2. Len(q) \in Nat /\ Len(q) > 0 /\ flush[d].left \in Nat /\ flush[d].left <= Len(q)
  BY <1>1, <1>q DEF FlushInv, Flush
<1>3. /\ u \in Seq(Row) /\ Len(u) = Len(q) - 1 /\ Head(q) = q[1]
      /\ \A i \in 1 .. Len(u) : u[i] = q[i + 1] /\ i + 1 \in 1 .. Len(q)
  BY <1>1, <1>2, <1>u
<1>4. f \in Flush /\ f.left = flush[d].left - 1 /\ f.on = NoHandler
  BY <1>2, <1>f DEF Flush
<1>5. PICK b \in App : app' = [app EXCEPT ![d] = b] /\ b.shot = a.shot
  <2> DEFINE p == IF flush[d].left = 1 THEN Len(outbox[d]) > 1 ELSE a.pending
             b == [a EXCEPT !.pending = p]
  <2>1. p \in BOOLEAN
    <3>1. a.pending \in BOOLEAN
      BY DEF App
    <3>2. (Len(outbox[d]) > 1) \in BOOLEAN
      BY <1>q, <1>2
    <3>3. CASE flush[d].left = 1
      BY <3>2, <3>3, Zenon
    <3>4. CASE flush[d].left # 1
      BY <3>1, <3>4, Zenon
    <3> QED  BY <3>3, <3>4
  <2>2. app' = [app EXCEPT ![d] = b]
    BY DEF RowDone
  <2> HIDE DEF p
  <2>3. b \in App /\ b.shot = a.shot
    BY <2>1 DEF App
  <2> QED  BY <2>2, <2>3
<1>6. outbox' = [outbox EXCEPT ![d] = u] /\ flush' = [flush EXCEPT ![d] = f]
  BY <1>f, <1>q, <1>u DEF RowDone
<1>7. /\ outbox'[d] = u /\ flush'[d] = f /\ app'[d] = b
      /\ \A e \in Drivers : e # d => outbox'[e] = outbox[e] /\ flush'[e] = flush[e] /\ app'[e] = app[e]
  BY <1>1, <1>5, <1>6 DEF PhoneTypes
<1>8. PhoneTypes'
  BY <1>1, <1>3, <1>4, <1>5, <1>6 DEF PhoneTypes
<1>9. FlushInv(d)'
  BY <1>2, <1>3, <1>4, <1>7, <1>q DEF FlushInv
<1>10. ASSUME NEW o \in Orders, NEW n \in 1 .. Len(q), PhotoBefore(d, o, n + 1)
       PROVE  PhotoBefore(d, o, n)'
  <2>1. CASE o \in photos
    BY <2>1 DEF PhotoBefore
  <2>2. ASSUME NEW i \in 1 .. Len(q), i < n + 1, q[i] = PhotoOf(o), i # 1
        PROVE  PhotoBefore(d, o, n)'
    <3>1. i - 1 \in 1 .. Len(u) /\ u[i - 1] = PhotoOf(o) /\ i - 1 < n
      BY <1>2, <1>3, <2>2
    <3> QED  BY <1>7, <3>1 DEF PhotoBefore, PhotoOf
  <2>3. CASE q[1] = PhotoOf(o)
    BY <1>3, <1>q, <2>3 DEF PhotoBefore, PhotoOf
  <2> QED  BY <1>10, <1>q, <2>1, <2>2, <2>3 DEF PhotoBefore
<1>11. QueueInv(d)'
  <2>1. ASSUME NEW i \in 1 .. Len(u), NEW o \in Orders, u[i] = ClaimOf(o)
        PROVE  PhotoBefore(d, o, i)'
    <3>1. PhotoBefore(d, o, i + 1) /\ i \in 1 .. Len(q)
      BY <1>1, <1>2, <1>3, <1>q, <2>1 DEF QueueInv
    <3> QED  BY <1>10, <3>1
  <2>2. ASSUME b.shot # NoOrder
        PROVE  PhotoBefore(d, b.shot, Len(u) + 1)'
    <3>1. b.shot \in Orders /\ b.shot = app[d].shot
      BY <1>5, <2>2 DEF App
    <3>2. PhotoBefore(d, b.shot, Len(q) + 1) /\ Len(q) \in 1 .. Len(q) /\ Len(u) + 1 = Len(q)
      BY <1>1, <1>2, <1>3, <1>q, <1>5, <2>2, <3>1 DEF QueueInv
    <3> QED  BY <1>10, <3>1, <3>2
  <2> QED  BY <1>7, <2>1, <2>2 DEF QueueInv, PhotoBefore
<1> QED  BY <1>7, <1>8, <1>9, <1>11, OtherPhone DEF PhoneInv

\* What the screens turn the store into, one field at a time: nothing else of it moves.
LEMMA OrderShown ==
  ASSUME NEW a \in App, NEW o \in Orders \cup {NoOrder}, NEW s \in Stage
  PROVE  LET b == [a EXCEPT !.active = o, !.stage = s]
         IN  b \in App /\ b.shot = a.shot /\ b.posting = a.posting
BY DEF App

LEMMA ClearedApp ==
  ASSUME NEW a \in App
  PROVE  Cleared(a) \in App /\ Cleared(a).shot = a.shot /\ Cleared(a).posting = a.posting
<1>1. NoOrder \in Orders \cup {NoOrder} /\ 1 \in Stage
  BY DEF Stage
<1> QED  BY <1>1, OrderShown, ZenonT(30) DEF Cleared

LEMMA PendingApp ==
  ASSUME NEW a \in App, NEW p \in BOOLEAN
  PROVE  LET b == [a EXCEPT !.pending = p]
         IN  b \in App /\ b.shot = a.shot /\ b.posting = a.posting
BY DEF App

LEMMA ShotApp ==
  ASSUME NEW a \in App, NEW o \in Orders \cup {NoOrder}
  PROVE  LET b == [a EXCEPT !.shot = o]
         IN  b \in App /\ b.shot = o /\ b.posting = a.posting
BY DEF App

LEMMA PostingApp ==
  ASSUME NEW a \in App, NEW w \in Handlers \cup {NoHandler}
  PROVE  LET b == [a EXCEPT !.posting = w]
         IN  b \in App /\ b.shot = a.shot /\ b.posting = w
BY DEF App

LEMMA AdvancedApp ==
  ASSUME NEW a \in App, NEW n \in Stage
  PROVE  Advanced(a, n) \in App /\ Advanced(a, n).shot = a.shot /\ Advanced(a, n).posting = a.posting
<1> DEFINE s == IF a.active # NoOrder /\ n > a.stage THEN n ELSE a.stage
<1>1. s \in Stage
  BY DEF App
<1>2. Advanced(a, n) = [a EXCEPT !.stage = s, !.pending = TRUE]
  BY DEF Advanced
<1> HIDE DEF s
<1> QED  BY <1>1, <1>2 DEF App

LEMMA PolledApp ==
  ASSUME NEW a \in App, NEW p \in PollAnswer
  PROVE  LET b == [a EXCEPT !.poll = p]
         IN  b \in App /\ b.shot = a.shot /\ b.posting = a.posting
BY DEF App, PollAnswer

LEMMA NoPollIsAnswer == NoPoll \in PollAnswer
BY DEF NoPoll, PollAnswer, Stage

LEMMA HydratedApp ==
  ASSUME NEW a \in App, NEW p \in PollAnswer
  PROVE  Hydrated(a, p) \in App /\ Hydrated(a, p).shot = a.shot /\ Hydrated(a, p).posting = a.posting
<1> DEFINE s == IF a.active = p.order /\ a.stage > p.stage THEN a.stage ELSE p.stage
           next == IF p.order # NoOrder
                     THEN [a EXCEPT !.active = p.order, !.stage = s]
                     ELSE IF a.active # NoOrder /\ a.pending THEN a ELSE Cleared(a)
<1>1. Hydrated(a, p) = [next EXCEPT !.poll = NoPoll]
  BY DEF Hydrated
<1>2. s \in Stage /\ p.order \in Orders \cup {NoOrder}
  BY DEF App, PollAnswer
<1>3. next \in App /\ next.shot = a.shot /\ next.posting = a.posting
  <2> HIDE DEF s
  <2>1. CASE p.order # NoOrder
    BY <1>2, <2>1, OrderShown, ZenonT(30)
  <2>2. CASE p.order = NoOrder
    BY <2>2, ClearedApp
  <2> QED  BY <2>1, <2>2
<1> HIDE DEF next
<1> QED  BY <1>1, <1>3, NoPollIsAnswer, PolledApp

LEMMA StartedApp == Started \in App /\ Started.shot = NoOrder /\ Started.posting = NoHandler
BY NoPollIsAnswer DEF Started, App, Stage, PollAnswer

LEMMA NoFlushIsFlush == NoFlush \in Flush /\ NoFlush.left = 0 /\ NoFlush.on = NoHandler
BY DEF NoFlush, Flush

\* No wait begins, and nobody waits for a request that ends.
LEMMA WaitsEnd ==
  ASSUME PhoneTypes, WaitInv,
         \A e \in Drivers : /\ flush'[e].on \in {NoHandler, flush[e].on}
                            /\ app'[e].posting \in {NoHandler, app[e].posting},
         \A g \in Handlers : \/ api[g].at # "idle" => api'[g].at # "idle"
                             \/ \A e \in Drivers : flush'[e].on # g /\ app'[e].posting # g
  PROVE  WaitInv'
<1>1. \A e \in Drivers : flush[e].on \in Handlers \cup {NoHandler} /\ app[e].posting \in Handlers \cup {NoHandler}
  BY DEF PhoneTypes, Flush, App
<1> QED  BY <1>1 DEF WaitInv

\* A wait begins for a request nobody waited for.
LEMMA FlushWaits ==
  ASSUME PhoneTypes, WaitInv, NEW d \in Drivers, NEW h \in Handlers, api[h].at = "idle", api'[h].at # "idle",
         \A g \in Handlers : g # h => api'[g] = api[g],
         flush'[d].on = h, \A e \in Drivers : e # d => flush'[e] = flush[e], UNCHANGED app
  PROVE  WaitInv'
<1>1. \A e \in Drivers : flush[e].on \in Handlers \cup {NoHandler} /\ app[e].posting \in Handlers \cup {NoHandler}
  BY DEF PhoneTypes, Flush, App
<1>2. \A e \in Drivers : flush[e].on # h /\ app[e].posting # h
  BY AppAssumption DEF WaitInv
<1> QED  BY <1>1, <1>2, AppAssumption DEF WaitInv

LEMMA PostWaits ==
  ASSUME PhoneTypes, WaitInv, NEW d \in Drivers, NEW h \in Handlers, api[h].at = "idle", api'[h].at # "idle",
         \A g \in Handlers : g # h => api'[g] = api[g],
         app'[d].posting = h, \A e \in Drivers : e # d => app'[e] = app[e], UNCHANGED flush
  PROVE  WaitInv'
<1>1. \A e \in Drivers : flush[e].on \in Handlers \cup {NoHandler} /\ app[e].posting \in Handlers \cup {NoHandler}
  BY DEF PhoneTypes, Flush, App
<1>2. \A e \in Drivers : flush[e].on # h /\ app[e].posting # h
  BY AppAssumption DEF WaitInv
<1> QED  BY <1>1, <1>2, AppAssumption DEF WaitInv

\* What is left to show of a step once RowSteps has spoken for the row.
Edge == ApiInv /\ PostedInv /\ ProofBeforeClaim
Goods == \A o \in Orders : Collected(o) => Collected(o)'

LEMMA EdgeStays ==
  ASSUME Edge, UNCHANGED <<api, recorded>>, photos \subseteq photos', Goods
  PROVE  Edge'
<1>1. ApiInv'
  BY RequestStays DEF Edge, ApiInv, Goods
<1> QED  BY <1>1 DEF Edge, PostedInv, ProofBeforeClaim

LEMMA EdgeEnds ==
  ASSUME Edge, NEW h \in Handlers, api' = [api EXCEPT ![h] = Idle], UNCHANGED recorded,
         photos \subseteq photos', Goods
  PROVE  Edge' /\ \A g \in Handlers : g # h => api'[g] = api[g]
<1>1. ApiInv'
  BY RequestReplaced, IdleRequest DEF Edge, Goods
<1>2. api'[h] = Idle /\ \A g \in Handlers : g # h => api'[g] = api[g]
  BY DEF Edge, ApiInv
<1>3. PostedInv'
  BY <1>2, IdleRequest DEF Edge, PostedInv
<1> QED  BY <1>1, <1>2, <1>3 DEF Edge, ProofBeforeClaim

LEMMA EdgeBegins ==
  ASSUME Edge, NEW h \in Handlers, NEW o \in Orders, NEW e \in Event,
         api' = [api EXCEPT ![h] = Posted(o, e)], UNCHANGED <<recorded, photos>>,
         e = "ARRIVED_AT_PICKUP" => o \in photos, Goods
  PROVE  Edge' /\ api'[h].at # "idle" /\ \A g \in Handlers : g # h => api'[g] = api[g]
<1>1. ApiInv'
  <2>1. PICK r \in Request : r = Posted(o, e) /\ r.at = "load" /\ r.order = o
    BY PostedRequest
  <2> QED  BY <2>1, RequestReplaced DEF Edge, Goods
<1>2. api'[h] = Posted(o, e) /\ \A g \in Handlers : g # h => api'[g] = api[g]
  BY DEF Edge, ApiInv
<1>3. PostedInv'
  <2>1. Posted(o, e).order = o /\ Posted(o, e).event = e
    BY PostedRequest
  <2>2. api'[h].event = "ARRIVED_AT_PICKUP" => api'[h].order \in photos
    BY <1>2, <2>1
  <2> QED  BY <1>2, <2>2 DEF Edge, PostedInv
<1> QED  BY <1>1, <1>2, <1>3, PostedRequest DEF Edge, ProofBeforeClaim

\* The handlers, and the request nobody waits for.
LEMMA HandlersKeep ==
  ASSUME RowInv, Edge, PhoneInv, WaitInv, Goods, NEW h \in Handlers, Serve(h) \/ Fails(h) \/ Abandon(h)
  PROVE  Edge' /\ PhoneInv' /\ WaitInv'
<1>1. UNCHANGED appVars /\ trouble' \in 0 .. MaxTrouble
  BY FaultCounts DEF Serve, Fails, Abandon, PhoneInv, PhoneTypes
<1>2. PhoneInv'
  <2>1. PhoneTypes'
    BY <1>1 DEF appVars, PhoneInv, PhoneTypes
  <2> QED  BY <1>1, <2>1, OtherPhone DEF appVars, PhoneInv
<1>3. CASE Serve(h) \/ Fails(h)
  <2>1. Handle(h) \/ HandlerFails(h)
    BY <1>3 DEF Serve, Fails
  <2>2. ApiInv'
    BY <2>1, HandleKeeps DEF Edge, Goods
  <2>3. /\ api[h].at # "idle" /\ api'[h].at # "idle"
        /\ api'[h].order = api[h].order /\ api'[h].event = api[h].event
        /\ \A g \in Handlers : g # h => api'[g] = api[g]
        /\ \A o \in Orders : \A e \in recorded'[o] :
             e \in recorded[o] \/ (o = api[h].order /\ e = api[h].event)
    BY <2>1, HandleFields DEF Edge
  <2>4. PostedInv' /\ ProofBeforeClaim'
    BY <1>1, <2>3 DEF Edge, PostedInv, ProofBeforeClaim, appVars
  <2>5. WaitInv'
    BY <1>1, <2>3, WaitsEnd DEF PhoneInv, appVars
  <2> QED  BY <1>2, <2>2, <2>4, <2>5 DEF Edge
<1>4. CASE Abandon(h)
  <2>1. /\ api' = [api EXCEPT ![h] = Idle] /\ UNCHANGED recorded
        /\ \A d \in Drivers : flush[d].on # h /\ app[d].posting # h
    BY <1>4 DEF Abandon
  <2>2. Edge' /\ \A g \in Handlers : g # h => api'[g] = api[g]
    BY <1>1, <2>1, EdgeEnds DEF appVars
  <2>3. WaitInv'
    BY <1>1, <2>1, <2>2, WaitsEnd DEF PhoneInv, appVars
  <2> QED  BY <1>2, <2>2, <2>3
<1> QED  BY <1>3, <1>4

\* The phone of one driver moves; no wait begins.
LEMMA PhoneFreed ==
  ASSUME PhoneTypes, WaitInv, NEW d \in Drivers, NEW a \in App, app' = [app EXCEPT ![d] = a],
         a.posting \in {NoHandler, app[d].posting},
         \A e \in Drivers : flush'[e].on \in {NoHandler, flush[e].on},
         \A g \in Handlers : \/ api'[g] = api[g]
                             \/ \A e \in Drivers : flush'[e].on # g /\ app'[e].posting # g
  PROVE  WaitInv'
<1>1. app'[d] = a /\ \A e \in Drivers : e # d => app'[e] = app[e]
  BY DEF PhoneTypes
<1> QED  BY <1>1, WaitsEnd

\* A screen of this driver changes the store, and nothing else of the phone.
LEMMA StoreMoves ==
  ASSUME Edge, PhoneInv, WaitInv, Goods, NEW d \in Drivers, NEW a \in App, app' = [app EXCEPT ![d] = a],
         a.posting \in {NoHandler, app[d].posting}, a.shot \in {NoOrder, app[d].shot},
         UNCHANGED <<outbox, flush, photos, api, recorded>>, Fault \/ UNCHANGED trouble
  PROVE  Edge' /\ PhoneInv' /\ WaitInv'
<1>1. /\ PhoneTypes /\ flush[d] \in Flush /\ flush' = [flush EXCEPT ![d] = flush[d]]
      /\ FlushInv(d)
  BY DEF PhoneInv, PhoneTypes
<1>2. PhoneInv'
  BY <1>1, PhoneWaits DEF FlushInv
<1>3. WaitInv'
  BY <1>1, PhoneFreed
<1> QED  BY <1>2, <1>3, EdgeStays

\* A screen queues a row.
LEMMA ScreenQueues ==
  ASSUME Edge, PhoneInv, WaitInv, Goods, NEW d \in Drivers, NEW row \in Row, NEW a \in App,
         outbox' = [outbox EXCEPT ![d] = Enqueued(d, row)], app' = [app EXCEPT ![d] = a],
         UNCHANGED <<flush, photos, api, recorded>>, Fault \/ UNCHANGED trouble,
         \A o \in Orders : row = ClaimOf(o) => app[d].shot = o,
         a.shot \in {NoOrder, app[d].shot} \/ row = PhotoOf(a.shot),
         a.posting \in {NoHandler, app[d].posting}
  PROVE  Edge' /\ PhoneInv' /\ WaitInv'
<1>1. PhoneTypes
  BY DEF PhoneInv
<1>2. PhoneInv'
  BY PhoneQueues
<1>3. WaitInv'
  BY <1>1, PhoneFreed
<1> QED  BY <1>2, <1>3, EdgeStays

LEMMA RowsQueued ==
  ASSUME NEW o \in Orders, NEW k \in Event \cup {Photo}
  PROVE  /\ [order |-> o, kind |-> k] \in Row
         /\ k # "ARRIVED_AT_PICKUP" => \A p \in Orders : [order |-> o, kind |-> k] # ClaimOf(p)
         /\ \A p \in Orders : [order |-> o, kind |-> k] = ClaimOf(p) => p = o
BY DEF Row, ClaimOf

LEMMA Kinds == /\ Event = {"ARRIVED_AT_PICKUP", "PICKED_UP", "ARRIVED_AT_DROPOFF", "POD"}
               /\ Photo = "ARRIVAL_PHOTO"
BY DEF Event, Milestones, PHASE_RANK, Photo

LEMMA ScreensKeep ==
  ASSUME RowInv, Edge, PhoneInv, WaitInv, Goods, NEW d \in Drivers, Screens(d)
  PROVE  Edge' /\ PhoneInv' /\ WaitInv'
<1>0. /\ PhoneTypes /\ app[d] \in App /\ app[d].active \in Orders \cup {NoOrder} /\ app[d].stage \in Stage
      /\ app[d].shot \in Orders \cup {NoOrder} /\ app[d].posting \in Handlers \cup {NoHandler}
      /\ NoOrder \in Orders \cup {NoOrder} /\ NoHandler \in Handlers \cup {NoHandler}
      /\ TRUE \in BOOLEAN /\ 1 \in Stage /\ 2 \in Stage
  BY DEF PhoneInv, PhoneTypes, App, Stage
<1>1. ASSUME NEW o \in Orders, Accept(d, o)
      PROVE  Edge' /\ PhoneInv' /\ WaitInv'
  <2>1. PICK a : a = [app[d] EXCEPT !.active = o, !.stage = 1]
    OBVIOUS
  <2>2. a \in App /\ a.shot = app[d].shot /\ a.posting = app[d].posting
    <3>1. o \in Orders \cup {NoOrder} /\ 1 \in Stage /\ app[d] \in App
      BY <1>0
    <3> QED  BY <2>1, <3>1, OrderShown, ZenonT(30)
  <2>3. app' = [app EXCEPT ![d] = a] /\ UNCHANGED <<outbox, flush, photos, api, recorded, trouble>>
    BY <1>1, <2>1 DEF Accept, apiVars
  <2> QED  BY <2>2, <2>3, StoreMoves
<1>2. ASSUME NEW o \in Orders, Assign(d, o)
      PROVE  Edge' /\ PhoneInv' /\ WaitInv'
  <2>1. UNCHANGED <<outbox, flush, photos, api, recorded, trouble, app>>
    BY <1>2 DEF Assign, apiVars, appVars
  <2>2. app' = [app EXCEPT ![d] = app[d]]
    BY <1>0, <2>1 DEF PhoneTypes
  <2> QED  BY <1>0, <2>1, <2>2, StoreMoves
<1>3. CASE QueueArrivalPhoto(d)
  <2> DEFINE o == app[d].active
             p == [app[d] EXCEPT !.shot = o]
  <2>1. /\ o \in Orders
        /\ outbox' = [outbox EXCEPT ![d] = Enqueued(d, PhotoOf(o))]
        /\ app' = [app EXCEPT ![d] = [p EXCEPT !.pending = TRUE]]
        /\ UNCHANGED <<flush, photos, api, recorded, trouble>>
    BY <1>0, <1>3 DEF QueueArrivalPhoto, enqueueEvent, apiVars, PhotoOf
  <2>2. p \in App /\ p.shot = o /\ p.posting = app[d].posting
    BY <1>0, ShotApp
  <2>3. PICK a : a = [p EXCEPT !.pending = TRUE]
    OBVIOUS
  <2>4. a \in App /\ a.shot = o /\ a.posting = app[d].posting
    BY <1>0, <2>2, <2>3, PendingApp
  <2>5. PhotoOf(o) \in Row /\ \A q \in Orders : PhotoOf(o) # ClaimOf(q)
    BY <2>1, RowsQueued, Kinds DEF PhotoOf
  <2> QED  BY <2>1, <2>3, <2>4, <2>5, ScreenQueues
<1>4. CASE ClaimArrival(d)
  <2> DEFINE o == app[d].shot
             p == Advanced(app[d], 2)
  <2>1. /\ o \in Orders
        /\ outbox' = [outbox EXCEPT ![d] = Enqueued(d, ClaimOf(o))]
        /\ app' = [app EXCEPT ![d] = [p EXCEPT !.shot = NoOrder]]
        /\ UNCHANGED <<flush, photos, api, recorded, trouble>>
    BY <1>0, <1>4 DEF ClaimArrival, enqueueEvent, apiVars, ClaimOf
  <2>2. p \in App /\ p.posting = app[d].posting
    BY <1>0, AdvancedApp
  <2>3. PICK a : a = [p EXCEPT !.shot = NoOrder]
    OBVIOUS
  <2>4. a \in App /\ a.shot = NoOrder /\ a.posting = app[d].posting
    BY <1>0, <2>2, <2>3, ShotApp
  <2>5. ClaimOf(o) \in Row /\ \A q \in Orders : ClaimOf(o) = ClaimOf(q) => o = q
    BY <2>1, RowsQueued, Kinds DEF ClaimOf
  <2> QED  BY <2>1, <2>3, <2>4, <2>5, ScreenQueues
<1>5. CASE Advance(d)
  <2> DEFINE o == app[d].active
  <2>1. PICK k : k = STAGE_ORDER[app[d].stage + 1]
    OBVIOUS
  <2>2. PICK a : a = Advanced(app[d], app[d].stage + 1)
    OBVIOUS
  <2>3. /\ o \in Orders /\ app[d].stage \in {2, 3}
        /\ outbox' = [outbox EXCEPT ![d] = Enqueued(d, [order |-> o, kind |-> k])]
        /\ app' = [app EXCEPT ![d] = a]
        /\ UNCHANGED <<flush, photos, api, recorded, trouble>>
    BY <1>0, <1>5, <2>1, <2>2 DEF Advance, enqueueEvent, apiVars
  <2>4. k \in {"PICKED_UP", "ARRIVED_AT_DROPOFF"} /\ app[d].stage + 1 \in Stage
    BY <2>1, <2>3 DEF STAGE_ORDER, Stage
  <2>5. a \in App /\ a.shot = app[d].shot /\ a.posting = app[d].posting
    BY <1>0, <2>2, <2>4, AdvancedApp
  <2>6. /\ [order |-> o, kind |-> k] \in Row
        /\ \A q \in Orders : [order |-> o, kind |-> k] # ClaimOf(q)
    BY <2>3, <2>4, RowsQueued, Kinds
  <2> QED  BY <2>3, <2>5, <2>6, ScreenQueues
<1>6. ASSUME NEW h \in Handlers, SubmitPod(d, h)
      PROVE  Edge' /\ PhoneInv' /\ WaitInv'
  <2>1. PICK a : a = [app[d] EXCEPT !.posting = h]
    OBVIOUS
  <2>2. a \in App /\ a.shot = app[d].shot /\ a.posting = h
    BY <1>0, <2>1, PostingApp
  <2>3. /\ app[d].active \in Orders /\ api[h].at = "idle"
        /\ api' = [api EXCEPT ![h] = Posted(app[d].active, "POD")]
        /\ app' = [app EXCEPT ![d] = a]
        /\ UNCHANGED <<outbox, flush, photos, recorded, trouble>>
    BY <1>0, <1>6, <2>1, IdleRequest DEF SubmitPod, AtTheDoor
  <2>4. Edge' /\ api'[h].at # "idle" /\ \A g \in Handlers : g # h => api'[g] = api[g]
    BY <2>3, Kinds, EdgeBegins
  <2>5. /\ flush[d] \in Flush /\ flush' = [flush EXCEPT ![d] = flush[d]] /\ FlushInv(d)
        /\ app'[d].posting = h /\ \A e \in Drivers : e # d => app'[e] = app[e]
    BY <1>0, <2>2, <2>3 DEF PhoneInv, PhoneTypes
  <2>6. PhoneInv'
    BY <2>2, <2>3, <2>5, PhoneWaits DEF FlushInv
  <2>7. WaitInv'
    BY <1>0, <2>3, <2>4, <2>5, PostWaits
  <2> QED  BY <2>4, <2>6, <2>7
<1>7. ASSUME NEW o \in Orders, PodQueued(d, o), UNCHANGED <<flush, photos>>, Fault \/ UNCHANGED trouble
      PROVE  \E a \in App : /\ app' = [app EXCEPT ![d] = a] /\ a.posting = NoHandler /\ a.shot = app[d].shot
                            /\ PhoneInv'
  <2> DEFINE p == [Cleared(app[d]) EXCEPT !.posting = NoHandler]
             row == [order |-> o, kind |-> "POD"]
  <2>1. p \in App /\ p.shot = app[d].shot /\ p.posting = NoHandler
    BY <1>0, ClearedApp, PostingApp
  <2>2. PICK a : a = [p EXCEPT !.pending = TRUE]
    OBVIOUS
  <2>3. a \in App /\ a.shot = app[d].shot /\ a.posting = NoHandler
    BY <1>0, <2>1, <2>2, PendingApp
  <2>4. app' = [app EXCEPT ![d] = a] /\ outbox' = [outbox EXCEPT ![d] = Enqueued(d, row)]
    BY <1>7, <2>2 DEF PodQueued, enqueueEvent
  <2>5. row \in Row /\ \A q \in Orders : row # ClaimOf(q)
    BY RowsQueued, Kinds
  <2>6. PhoneInv'
    BY <1>7, <2>3, <2>4, <2>5, PhoneQueues
  <2> QED  BY <2>3, <2>4, <2>6
<1>8. CASE PodAnswered(d)
  <2> DEFINE h == app[d].posting
  <2>1. /\ h \in Handlers /\ h # NoHandler /\ api' = [api EXCEPT ![h] = Idle]
        /\ UNCHANGED <<flush, photos, recorded, trouble>>
    BY <1>0, <1>8 DEF PodAnswered
  <2>2. api[h].order \in Orders
    BY <2>1 DEF WaitInv, Edge, ApiInv, RequestInv
  <2>3. PICK a \in App : /\ app' = [app EXCEPT ![d] = a] /\ a.posting = NoHandler /\ a.shot = app[d].shot
                         /\ PhoneInv'
    <3>1. CASE PodQueued(d, api[h].order)
      BY <1>7, <2>1, <2>2, <3>1
    <3>2. CASE app' = [app EXCEPT ![d] = [Cleared(@) EXCEPT !.posting = NoHandler]] /\ UNCHANGED outbox
      <4>1. PICK a : a = [Cleared(app[d]) EXCEPT !.posting = NoHandler]
        OBVIOUS
      <4>2. a \in App /\ a.shot = app[d].shot /\ a.posting = NoHandler /\ app' = [app EXCEPT ![d] = a]
        BY <1>0, <3>2, <4>1, ClearedApp, PostingApp
      <4>3. flush[d] \in Flush /\ flush' = [flush EXCEPT ![d] = flush[d]] /\ FlushInv(d)
        BY <1>0, <2>1 DEF PhoneInv, PhoneTypes
      <4>4. /\ flush[d].left <= Len(outbox[d])
            /\ flush[d].on # NoHandler => flush[d].left > 0 /\ Head(outbox[d]).kind # Photo
        BY <4>3 DEF FlushInv
      <4>5. UNCHANGED <<outbox, photos, trouble>>
        BY <2>1, <3>2
      <4>6. PhoneInv'
        BY <4>2, <4>3, <4>4, <4>5, PhoneWaits
      <4> QED  BY <4>2, <4>6
    <3> QED  BY <1>8, <3>1, <3>2 DEF PodAnswered
  <2>4. Edge' /\ \A g \in Handlers : g # h => api'[g] = api[g]
    BY <2>1, EdgeEnds
  <2>5. \A e \in Drivers : flush'[e].on # h /\ app'[e].posting # h
    BY <1>0, <2>1, <2>3 DEF WaitInv, PhoneTypes
  <2>6. WaitInv'
    <3>1. \A e \in Drivers : flush'[e].on = flush[e].on
      BY <2>1
    <3>2. \A g \in Handlers : api'[g] = api[g] \/ \A e \in Drivers : flush'[e].on # g /\ app'[e].posting # g
      BY <2>4, <2>5
    <3> QED  BY <1>0, <2>3, <3>1, <3>2, PhoneFreed
  <2> QED  BY <2>3, <2>4, <2>6
<1>9. CASE PodLost(d)
  <2>1. PICK o \in Orders : PodQueued(d, o)
    <3>1. app[d].posting # NoHandler => api[app[d].posting].order \in Orders
      BY <1>0 DEF WaitInv, Edge, ApiInv, RequestInv
    <3> QED  BY <1>0, <1>9, <3>1 DEF PodLost, AtTheDoor
  <2>2. UNCHANGED <<flush, photos, api, recorded>> /\ Fault
    BY <1>9 DEF PodLost, apiVars
  <2>3. PICK a \in App : app' = [app EXCEPT ![d] = a] /\ a.posting = NoHandler /\ PhoneInv'
    BY <1>7, <2>1, <2>2
  <2>4. WaitInv'
    BY <1>0, <2>2, <2>3, PhoneFreed
  <2> QED  BY <2>2, <2>3, <2>4, EdgeStays
<1>10. CASE FailTrip(d)
  <2>1. PICK a : a = Cleared(app[d])
    OBVIOUS
  <2>2. a \in App /\ a.shot = app[d].shot /\ a.posting = app[d].posting
    BY <1>0, <2>1, ClearedApp
  <2>3. app' = [app EXCEPT ![d] = a] /\ UNCHANGED <<outbox, flush, photos, api, recorded, trouble>>
    BY <1>10, <2>1 DEF FailTrip, apiVars
  <2> QED  BY <2>2, <2>3, StoreMoves
<1> QED  BY <1>1, <1>2, <1>3, <1>4, <1>5, <1>6, <1>8, <1>9, <1>10 DEF Screens

\* The outbox, the poll and the restart.
LEMMA OutboxKeeps ==
  ASSUME RowInv, Edge, PhoneInv, WaitInv, Goods, NEW d \in Drivers,
         Outbox(d) \/ Poll(d) \/ Hydrate(d) \/ Restart(d)
  PROVE  Edge' /\ PhoneInv' /\ WaitInv'
<1>0. /\ PhoneTypes /\ app[d] \in App /\ FlushInv(d) /\ QueueInv(d) /\ flush[d] \in Flush
      /\ outbox[d] \in Seq(Row) /\ Len(outbox[d]) \in Nat /\ app[d].poll \in PollAnswer
      /\ app = [app EXCEPT ![d] = app[d]]
  BY DEF PhoneInv, PhoneTypes, App
<1>h. flush[d].left > 0 => Head(outbox[d]) \in Row /\ outbox[d] # <<>>
  BY <1>0 DEF FlushInv, Flush
<1>1. CASE StartFlush(d)
  <2>1. PICK n : n = IF Len(outbox[d]) < FlushLimit THEN Len(outbox[d]) ELSE FlushLimit
    OBVIOUS
  <2>2. PICK f : f = [flush[d] EXCEPT !.left = n]
    OBVIOUS
  <2>3. /\ flush[d].left = 0 /\ flush' = [flush EXCEPT ![d] = f]
        /\ UNCHANGED <<outbox, app, photos, api, recorded, trouble>>
    BY <1>1, <2>1, <2>2 DEF StartFlush, apiVars
  <2>4. n \in Nat /\ n <= Len(outbox[d])
    BY <1>0, <2>1, AppAssumption
  <2>5. f \in Flush /\ f.left = n /\ f.on = flush[d].on /\ flush[d].on = NoHandler
    BY <1>0, <2>2, <2>3, <2>4 DEF Flush, FlushInv
  <2>6. PhoneInv'
    BY <1>0, <2>3, <2>4, <2>5, PhoneWaits
  <2>7. \A e \in Drivers : flush'[e].on = flush[e].on
    BY <1>0, <2>3, <2>5 DEF PhoneTypes
  <2>8. WaitInv'
    BY <1>0, <2>3, <2>7, WaitsEnd
  <2> QED  BY <2>3, <2>6, <2>8, EdgeStays
<1>2. ASSUME NEW a \in App, FlushStops(d), app' = [app EXCEPT ![d] = a], a.shot = app[d].shot,
             a.posting = app[d].posting, UNCHANGED photos, Fault \/ UNCHANGED trouble
      PROVE  /\ PhoneInv' /\ flush'[d].on = NoHandler
             /\ \A e \in Drivers : flush'[e].on \in {NoHandler, flush[e].on}
  <2>1. flush' = [flush EXCEPT ![d] = NoFlush] /\ UNCHANGED outbox
    BY <1>2 DEF FlushStops
  <2>2. PhoneInv'
    <3>1. NoFlush \in Flush /\ NoFlush.left <= Len(outbox[d]) /\ NoFlush.on = NoHandler
      BY <1>0, NoFlushIsFlush
    <3> QED  BY <1>2, <2>1, <3>1, PhoneWaits
  <2> QED  BY <1>0, <2>1, <2>2, NoFlushIsFlush DEF PhoneTypes
<1>3. ASSUME NEW a \in App, RowDone(d, a), a.shot = app[d].shot, a.posting = app[d].posting
      PROVE  /\ flush'[d].on = NoHandler
             /\ \A e \in Drivers : /\ flush'[e].on \in {NoHandler, flush[e].on}
                                   /\ app'[e].posting = app[e].posting
  <2>1. PICK f : f = [left |-> flush[d].left - 1, on |-> NoHandler]
    OBVIOUS
  <2>2. flush' = [flush EXCEPT ![d] = f] /\ f.on = NoHandler
    BY <1>3, <2>1 DEF RowDone
  <2>3. PICK b : b = [a EXCEPT !.pending = IF flush[d].left = 1 THEN Len(outbox[d]) > 1 ELSE @]
    OBVIOUS
  <2>4. app' = [app EXCEPT ![d] = b] /\ b.posting = app[d].posting
    BY <1>3, <2>3 DEF RowDone, App
  <2> QED  BY <1>0, <2>2, <2>4 DEF PhoneTypes
<1>4. CASE SendPhoto(d)
  <2>1. /\ flush[d].left > 0 /\ Head(outbox[d]).kind = Photo
        /\ photos' = photos \cup {Head(outbox[d]).order}
        /\ RowDone(d, app[d]) /\ UNCHANGED <<api, recorded, trouble>>
    BY <1>4 DEF SendPhoto, Sending, apiVars
  <2>2. photos' \subseteq Orders /\ photos \subseteq photos'
    BY <1>0, <1>h, <2>1 DEF PhoneTypes, Row
  <2>3. PhoneInv'
    BY <1>0, <2>1, <2>2, PhonePops
  <2>4. WaitInv'
    BY <1>0, <1>3, <2>1, WaitsEnd
  <2> QED  BY <2>1, <2>2, <2>3, <2>4, EdgeStays
<1>5. CASE RowAnswered(d)
  <2> DEFINE h == flush[d].on
  <2>1. /\ h \in Handlers /\ h # NoHandler /\ api' = [api EXCEPT ![h] = Idle]
        /\ UNCHANGED <<photos, recorded, trouble>>
    BY <1>0, <1>5 DEF RowAnswered, Flush
  <2>2. flush[d].left > 0 /\ Head(outbox[d]).kind # Photo
    BY <1>0, <2>1 DEF FlushInv
  <2>3. Edge' /\ \A g \in Handlers : g # h => api'[g] = api[g]
    BY <2>1, EdgeEnds
  <2>4. /\ PhoneInv' /\ flush'[d].on = NoHandler
        /\ \A e \in Drivers : /\ flush'[e].on \in {NoHandler, flush[e].on}
                              /\ app'[e].posting = app[e].posting
    <3>1. CASE FlushStops(d)
      <4>1. PICK a : a = [app[d] EXCEPT !.pending = TRUE]
        OBVIOUS
      <4>2. a \in App /\ a.shot = app[d].shot /\ a.posting = app[d].posting
        BY <1>0, <4>1, PendingApp
      <4>3. app' = [app EXCEPT ![d] = a]
        BY <3>1, <4>1 DEF FlushStops
      <4>4. \A e \in Drivers : app'[e].posting = app[e].posting
        BY <1>0, <4>2, <4>3 DEF PhoneTypes
      <4> QED  BY <1>2, <2>1, <3>1, <4>2, <4>3, <4>4
    <3>2. ASSUME NEW a \in {app[d], Cleared(app[d])}, RowDone(d, a)
          PROVE  /\ PhoneInv' /\ flush'[d].on = NoHandler
                 /\ \A e \in Drivers : /\ flush'[e].on \in {NoHandler, flush[e].on}
                                       /\ app'[e].posting = app[e].posting
      <4>1. a \in App /\ a.shot = app[d].shot /\ a.posting = app[d].posting
        BY <1>0, ClearedApp
      <4>2. PhoneInv'
        BY <1>0, <2>1, <2>2, <3>2, <4>1, PhonePops DEF PhoneTypes
      <4> QED  BY <1>3, <3>2, <4>1, <4>2
    <3> QED  BY <1>5, <3>1, <3>2 DEF RowAnswered
  <2>5. \A e \in Drivers : flush'[e].on # h /\ app'[e].posting # h
    BY <1>0, <2>1, <2>4 DEF WaitInv
  <2>6. WaitInv'
    BY <1>0, <2>3, <2>4, <2>5, WaitsEnd
  <2> QED  BY <2>3, <2>4, <2>6
<1>6. CASE RowLost(d)
  <2>1. FlushStops(d) /\ Fault /\ UNCHANGED <<api, recorded, photos>>
    BY <1>6 DEF RowLost, apiVars
  <2>2. PICK a : a = [app[d] EXCEPT !.pending = TRUE]
    OBVIOUS
  <2>3. a \in App /\ a.shot = app[d].shot /\ a.posting = app[d].posting
    BY <1>0, <2>2, PendingApp
  <2>4. app' = [app EXCEPT ![d] = a]
    BY <2>1, <2>2 DEF FlushStops
  <2>5. PhoneInv' /\ \A e \in Drivers : flush'[e].on \in {NoHandler, flush[e].on}
    BY <1>2, <2>1, <2>3, <2>4
  <2>6. WaitInv'
    BY <1>0, <2>1, <2>3, <2>4, <2>5, PhoneFreed, ZenonT(30)
  <2> QED  BY <2>1, <2>5, <2>6, EdgeStays
<1>7. ASSUME NEW h \in Handlers, SendRow(d, h)
      PROVE  Edge' /\ PhoneInv' /\ WaitInv'
  <2> DEFINE row == Head(outbox[d])
  <2>1. /\ flush[d].left > 0 /\ row.kind # Photo /\ api[h].at = "idle"
        /\ api' = [api EXCEPT ![h] = Posted(row.order, row.kind)]
        /\ UNCHANGED <<outbox, app, photos, recorded, trouble>>
    BY <1>7, IdleRequest DEF SendRow, Sending
  <2>2. row.order \in Orders /\ row.kind \in Event /\ outbox[d][1] = row /\ 1 \in 1 .. Len(outbox[d])
    BY <1>0, <1>h, <2>1 DEF Row
  <2>3. row.kind = "ARRIVED_AT_PICKUP" => row.order \in photos
    <3>1. ASSUME row.kind = "ARRIVED_AT_PICKUP"
          PROVE  PhotoBefore(d, row.order, 1)
      <4>1. row = ClaimOf(row.order)
        BY <1>h, <2>1, <3>1 DEF Row, ClaimOf
      <4> QED  BY <1>0, <2>2, <4>1 DEF QueueInv
    <3> QED  BY <3>1 DEF PhotoBefore
  <2>4. Edge' /\ api'[h].at # "idle" /\ \A g \in Handlers : g # h => api'[g] = api[g]
    BY <2>1, <2>2, <2>3, EdgeBegins
  <2>5. PICK f : f = [flush[d] EXCEPT !.on = h]
    OBVIOUS
  <2>6. f \in Flush /\ f.left = flush[d].left /\ f.on = h /\ flush' = [flush EXCEPT ![d] = f]
    BY <1>0, <1>7, <2>5 DEF SendRow, Flush
  <2>7. PhoneInv'
    BY <1>0, <2>1, <2>6, PhoneWaits DEF FlushInv
  <2>8. flush'[d].on = h /\ \A e \in Drivers : e # d => flush'[e] = flush[e]
    BY <1>0, <2>6 DEF PhoneTypes
  <2>9. WaitInv'
    BY <1>0, <2>1, <2>4, <2>8, FlushWaits
  <2> QED  BY <2>4, <2>7, <2>9
<1>8. ASSUME NEW p \in PollAnswer,
             \/ app' = [app EXCEPT ![d] = Hydrated(@, p)]
             \/ app' = [app EXCEPT ![d].poll = p],
             UNCHANGED <<outbox, flush, photos, api, recorded>>, Fault \/ UNCHANGED trouble
      PROVE  Edge' /\ PhoneInv' /\ WaitInv'
  <2>1. CASE app' = [app EXCEPT ![d] = Hydrated(@, p)]
    <3>1. PICK a : a = Hydrated(app[d], p)
      OBVIOUS
    <3> QED  BY <1>0, <1>8, <2>1, <3>1, HydratedApp, StoreMoves
  <2>2. CASE app' = [app EXCEPT ![d].poll = p]
    <3>1. PICK a : a = [app[d] EXCEPT !.poll = p]
      OBVIOUS
    <3>2. a \in App /\ a.shot = app[d].shot /\ a.posting = app[d].posting
      BY <1>0, <3>1, PolledApp
    <3> QED  BY <1>8, <2>2, <3>1, <3>2, StoreMoves
  <2> QED  BY <1>8, <2>1, <2>2
<1>9. CASE Poll(d)
  <2>1. UNCHANGED <<outbox, flush, photos, api, recorded>>
    BY <1>9 DEF Poll, apiVars
  <2>2. PICK p \in Answers(d) : \/ app' = [app EXCEPT ![d] = Hydrated(@, p)] /\ UNCHANGED trouble
                                \/ app' = [app EXCEPT ![d].poll = p] /\ Fault
    BY <1>9 DEF Poll
  <2>3. p \in PollAnswer
    <3>1. [NoPoll EXCEPT !.got = TRUE] \in PollAnswer
      BY NoPollIsAnswer DEF PollAnswer
    <3>2. ASSUME NEW o \in Orders
          PROVE  [got |-> TRUE, order |-> o, stage |-> serverStage(o)] \in PollAnswer
      BY DEF serverStage, PollAnswer, Stage
    <3> QED  BY <2>2, <3>1, <3>2 DEF Answers
  <2> QED  BY <1>8, <2>1, <2>2, <2>3
<1>10. CASE Hydrate(d)
  BY <1>0, <1>8, <1>10 DEF Hydrate, apiVars
<1>11. CASE Restart(d)
  <2>1. /\ app' = [app EXCEPT ![d] = Started] /\ flush' = [flush EXCEPT ![d] = NoFlush] /\ Fault
        /\ UNCHANGED <<api, recorded, outbox, photos>>
    BY <1>11 DEF Restart, apiVars
  <2>2. PhoneInv'
    <3>1. NoFlush \in Flush /\ NoFlush.left <= Len(outbox[d]) /\ NoFlush.on = NoHandler
      BY <1>0, NoFlushIsFlush
    <3> QED  BY <2>1, <3>1, StartedApp, PhoneWaits
  <2>3. \A e \in Drivers : flush'[e].on \in {NoHandler, flush[e].on}
    BY <1>0, <2>1, NoFlushIsFlush DEF PhoneTypes
  <2>4. WaitInv'
    BY <1>0, <2>1, <2>3, StartedApp, PhoneFreed
  <2> QED  BY <2>1, <2>2, <2>4, EdgeStays
<1> QED  BY <1>1, <1>4, <1>5, <1>6, <1>7, <1>9, <1>10, <1>11 DEF Outbox

----------------------------------------------------------------------------
(* The invariant *)

LEMMA InitInv == Init => IInv
<1> SUFFICES ASSUME Init
             PROVE  IInv
  OBVIOUS
<1>1. RowInv
  BY DEF Init, RowInit, ApiInit, RowInv, RowTypeOK, Status, Unassigned
<1>2. /\ api = [h \in Handlers |-> Idle] /\ recorded = [o \in Orders |-> {}] /\ photos = {} /\ trouble = 0
      /\ outbox = [d \in Drivers |-> <<>>] /\ flush = [d \in Drivers |-> NoFlush]
      /\ app = [d \in Drivers |-> Started]
  BY DEF Init, ApiInit, AppInit
<1>3. ApiInv /\ PostedInv /\ ProofBeforeClaim
  <2>1. \A h \in Handlers : RequestInv(h)
    BY <1>2, IdleRequest DEF RequestInv
  <2> QED  BY <1>2, <2>1, IdleRequest DEF ApiInv, PostedInv, ProofBeforeClaim
<1>4. PhoneInv
  <2>1. <<>> \in Seq(Row) /\ Len(<<>>) = 0 /\ 0 \in 0 .. MaxTrouble
    BY AppAssumption
  <2>2. PhoneTypes
    BY <1>2, <2>1, NoFlushIsFlush, StartedApp DEF PhoneTypes
  <2>3. \A d \in Drivers : FlushInv(d) /\ QueueInv(d)
    BY <1>2, <2>1, NoFlushIsFlush, StartedApp DEF FlushInv, QueueInv
  <2> QED  BY <2>2, <2>3 DEF PhoneInv
<1>5. WaitInv
  BY <1>2, NoFlushIsFlush, StartedApp DEF WaitInv
<1> QED  BY <1>1, <1>3, <1>4, <1>5 DEF IInv

LEMMA NextInv == IInv /\ [Next]_vars => IInv'
<1> SUFFICES ASSUME IInv, [Next]_vars
             PROVE  IInv'
  OBVIOUS
<1>1. RowInv /\ Edge /\ PhoneInv /\ WaitInv
  BY DEF IInv, Edge
<1>2. RowInv' /\ Goods
  BY <1>1, RowSteps, RowKeeps DEF Goods
<1>3. ASSUME UNCHANGED <<apiVars, appVars, trouble>>
      PROVE  Edge' /\ PhoneInv' /\ WaitInv'
  <2>1. UNCHANGED <<api, recorded, photos, outbox, flush, app, trouble>>
    BY <1>3 DEF apiVars, appVars
  <2>2. Edge'
    BY <1>1, <1>2, <2>1, EdgeStays
  <2>3. PhoneInv'
    BY <1>1, <2>1 DEF PhoneInv, PhoneTypes, FlushInv, QueueInv, PhotoBefore
  <2>4. WaitInv'
    BY <1>1, <2>1 DEF WaitInv
  <2> QED  BY <2>2, <2>3, <2>4
<1>4. Edge' /\ PhoneInv' /\ WaitInv'
  <2>1. ASSUME NEW h \in Handlers, Serve(h) \/ Fails(h) \/ Abandon(h)
        PROVE  Edge' /\ PhoneInv' /\ WaitInv'
    BY <1>1, <1>2, <2>1, HandlersKeep
  <2>2. ASSUME NEW d \in Drivers, Screens(d)
        PROVE  Edge' /\ PhoneInv' /\ WaitInv'
    BY <1>1, <1>2, <2>2, ScreensKeep
  <2>3. ASSUME NEW d \in Drivers, Outbox(d) \/ Poll(d) \/ Hydrate(d) \/ Restart(d)
        PROVE  Edge' /\ PhoneInv' /\ WaitInv'
    BY <1>1, <1>2, <2>3, OutboxKeeps
  <2>4. ASSUME NEW o \in Orders, Dispatching(o) \/ StaffCancels(o)
        PROVE  Edge' /\ PhoneInv' /\ WaitInv'
    BY <1>3, <2>4, Zenon DEF Dispatching, StaffCancels
  <2>5. CASE UNCHANGED vars
    BY <1>3, <2>5 DEF vars
  <2> QED  BY <2>1, <2>2, <2>3, <2>4, <2>5 DEF Next
<1> QED  BY <1>2, <1>4 DEF IInv, Edge

\* The phone, its outbox and the requests it has made keep their shape, through every
\* restart, lost answer and failed request.
THEOREM AppInvariant == Spec => []IInv
<1> QED  BY InitInv, NextInv, PTL DEF Spec

\* Every variable of the app, the agent API and the rows keeps its type.
THEOREM AppTypes == Spec => []TypeOK
<1>1. IInv => TypeOK
  BY DEF IInv, RowInv, ApiInv, PhoneInv, PhoneTypes, Flush, App, PollAnswer, TypeOK, ApiTypeOK, AppTypeOK
<1> QED  BY <1>1, AppInvariant, PTL

\* Whoever is recorded at the restaurant has sent the photo of it before, whatever was
\* lost, retried or killed on the way (arrival.tsx, flushEventOutbox).
THEOREM PhotosComeFirst == Spec => []ProofBeforeClaim
<1>1. IInv => ProofBeforeClaim
  BY DEF IInv
<1> QED  BY <1>1, AppInvariant, PTL

\* The phase of a delivery never goes back, although its last writer goes by a copy of
\* the order that may be old (POST /orders/:id/status).
THEOREM PhasesOnlyGrow == Spec => PhaseMonotone
<1>1. IInv /\ [Next]_vars => [\A o \in Orders : phase[o] <= phase'[o]]_vars
  <2> SUFFICES ASSUME IInv, [Next]_vars
               PROVE  \A o \in Orders : phase[o] <= phase'[o]
    OBVIOUS
  <2> QED  BY RowSteps, RowKeeps DEF IInv
<1> QED  BY <1>1, AppInvariant, PTL DEF Spec, PhaseMonotone

LEMMA SameTable ==
  ASSUME NEW from, NEW to, isTransitionAllowed(from, to)
  PROVE  Lifecycle!LegalMove(from, to)
BY DEF Lifecycle!LegalMove, Lifecycle!isTransitionAllowed, Lifecycle!ALLOWED, Lifecycle!Status,
       isTransitionAllowed, ALLOWED, Status

\* A REJECTED order whose address is cured passes through CREATED.
LEMMA DispatchingIsLegal ==
  ASSUME NEW from \in Intake \cup {"NONE", "NO_DRIVER"}, from # "DISPATCHING"
  PROVE  Lifecycle!LegalMove(from, "DISPATCHING")
<1>1. CASE from = "NONE"
  BY <1>1 DEF Lifecycle!LegalMove, Lifecycle!Intake
<1>2. CASE from = "REJECTED"
  <2>1. Lifecycle!isTransitionAllowed("REJECTED", "CREATED") /\ Lifecycle!isTransitionAllowed("CREATED", "DISPATCHING")
    BY DEF Lifecycle!isTransitionAllowed, Lifecycle!ALLOWED, Lifecycle!Status
  <2> QED  BY <1>2, <2>1 DEF Lifecycle!LegalMove
<1>3. CASE from \in {"CREATED", "NO_DRIVER"}
  <2>1. isTransitionAllowed(from, "DISPATCHING")
    BY <1>3 DEF isTransitionAllowed, ALLOWED, Status
  <2> QED  BY <2>1, SameTable
<1> QED  BY <1>1, <1>2, <1>3 DEF Intake

\* What the app, the API and the staff do to an order are steps of the order lifecycle:
\* only moves of the state machine, and a driver who never changes.
THEOREM AppImplementsLifecycle == Spec => LifecycleSpec
<1>1. Init => Lifecycle!Init
  BY DEF Init, RowInit, Lifecycle!Init
<1>2. IInv /\ [Next]_vars => [Lifecycle!Next]_(Lifecycle!lifecycleVars)
  <2> SUFFICES ASSUME IInv, [Next]_vars
               PROVE  [Lifecycle!Next]_(Lifecycle!lifecycleVars)
    OBVIOUS
  <2>1. RowInv /\ RowInv' /\ RowStep
    BY RowSteps, RowKeeps DEF IInv
  <2>2. \A o \in Orders : Lifecycle!Stays(o) \/ Lifecycle!Moves(o)
    <3>1. CASE UNCHANGED <<status, driverOf>>
      BY <3>1 DEF Lifecycle!Stays
    <3>2. ASSUME NEW o \in Orders, NEW to \in Status, Move(o, to),
                 \/ isTransitionAllowed(status[o], to)
                 \/ to = "DISPATCHING" /\ status[o] \in Intake \cup {"NONE", "NO_DRIVER"}
          PROVE  \A p \in Orders : Lifecycle!Stays(p) \/ Lifecycle!Moves(p)
      <4>1. /\ status'[o] = to /\ \A p \in Orders : p # o => status'[p] = status[p] /\ driverOf'[p] = driverOf[p]
            /\ IF to = "ASSIGNED" THEN driverOf'[o] \in Drivers ELSE driverOf'[o] = driverOf[o]
        BY <2>1, <3>2 DEF Move, RowInv, RowTypeOK
      <4>2. status[o] \in Status
        BY <2>1 DEF RowInv, RowTypeOK
      <4>3. Lifecycle!LegalMove(status[o], to) \/ (to = "DISPATCHING" /\ status[o] = "DISPATCHING")
        BY <3>2, SameTable, DispatchingIsLegal
      <4>4. to = "ASSIGNED" => driverOf[o] = NoDriver
        <5>1. to = "ASSIGNED" => isTransitionAllowed(status[o], "ASSIGNED")
          BY <3>2
        <5>2. to = "ASSIGNED" => status[o] \in Unassigned
          BY <4>2, <5>1, Tables
        <5> QED  BY <2>1, <5>2 DEF RowInv
      <4> QED  BY <4>1, <4>3, <4>4 DEF Lifecycle!Stays, Lifecycle!Moves
    <3>3. ASSUME NEW o \in Orders, NEW to \in {"ARRIVED", "PICKED_UP"}, Move(o, to),
                 to = "ARRIVED" => status[o] = "ASSIGNED",
                 to = "PICKED_UP" => status[o] \in {"ASSIGNED", "ARRIVED"}
          PROVE  \A p \in Orders : Lifecycle!Stays(p) \/ Lifecycle!Moves(p)
      <4>1. to \in Status /\ isTransitionAllowed(status[o], to)
        BY <3>3 DEF isTransitionAllowed, ALLOWED, Status
      <4> QED  BY <3>2, <3>3, <4>1
    <3> QED  BY <2>1, <3>1, <3>2, <3>3 DEF RowStep
  <2>3. Lifecycle!Status = Status
    BY DEF Lifecycle!Status, Status
  <2>4. status' \in [Orders -> Status] /\ driverOf' \in [Orders -> Drivers \cup {NoDriver}]
    BY <2>1 DEF RowInv, RowTypeOK
  <2> QED  BY <2>2, <2>3, <2>4 DEF Lifecycle!Next
<1> QED  BY <1>1, <1>2, AppInvariant, PTL DEF Spec, LifecycleSpec, Lifecycle!Spec

----------------------------------------------------------------------------
(* The order of the milestones *)

\* A driver has, or had, the order.
Given(o) == status[o] \notin Unassigned

\* The server has heard of a milestone, or nobody needs it any more, or the store took
\* the order past the restaurant.
Told(o, e) == e \in recorded[o] \/ Over(o) \/ o \in crossed

\* What has to be reported before.
Later == {"PICKED_UP", "ARRIVED_AT_DROPOFF", "POD"}
Needs(e) == IF e = "PICKED_UP" THEN "ARRIVED_AT_PICKUP" ELSE "PICKED_UP"

\* The status and the phase go with what is recorded.
Heard(o) ==
  /\ status[o] = "ARRIVED" => "ARRIVED_AT_PICKUP" \in recorded[o]
  /\ status[o] = "PICKED_UP" => "PICKED_UP" \in recorded[o]
  /\ "ARRIVED_AT_PICKUP" \in recorded[o] => Given(o) /\ status[o] # "ASSIGNED"
  /\ "PICKED_UP" \in recorded[o] => Collected(o) /\ ("ARRIVED_AT_PICKUP" \in recorded[o] \/ o \in crossed)
  /\ "ARRIVED_AT_DROPOFF" \in recorded[o] => "PICKED_UP" \in recorded[o]
  /\ phase[o] = 5 => "ARRIVED_AT_DROPOFF" \in recorded[o]

HeardInv == \A o \in Orders : Heard(o)

\* What a request has read is true of the order, or was.
SawInv(r) ==
  /\ r.saw \notin Unassigned
  /\ r.saw = "ASSIGNED" => r.rank = 0 /\ (r.event \in {"ARRIVED_AT_PICKUP", "POD"} \/ r.order \in crossed)
  /\ r.saw = "ARRIVED" => /\ r.rank = 2 /\ (r.event # "ARRIVED_AT_DROPOFF" \/ r.order \in crossed)
                          /\ "ARRIVED_AT_PICKUP" \in recorded[r.order]
  /\ r.saw = "PICKED_UP" => /\ "PICKED_UP" \in recorded[r.order]
                            /\ r.rank = 5 => "ARRIVED_AT_DROPOFF" \in recorded[r.order]
  /\ r.saw \in {"DELIVERED", "FAILED", "RETURNED", "CANCELLED"} => Over(r.order)

\* A request is about an order somebody was given, and a milestone is behind the one it
\* needs; what the request has read is true or was, and so is what it answers.
KnowsInv(h) ==
  LET r == api[h]
  IN  /\ r.at # "idle" => /\ Given(r.order)
                          /\ r.event \in Later /\ r.event # "POD" => Told(r.order, Needs(r.event))
      /\ r.at = "replay" => SawInv(r)
      /\ r.at = "commit" /\ r.event = "PICKED_UP" => r.saw = "ARRIVED" \/ r.order \in crossed
      /\ r.at = "commit" /\ r.event = "ARRIVED_AT_DROPOFF" => "PICKED_UP" \in recorded[r.order]
      /\ r.at = "note" /\ r.event # "POD" => r.event \in recorded[r.order]
      /\ r.at = "answer" /\ r.code = 200 => r.event \in recorded[r.order]
      /\ r.at = "answer" /\ r.code = 409 /\ r.event # "POD" => Told(r.order, r.event)

RowOf(o, e) == [order |-> o, kind |-> e]

\* A milestone was heard of, or its row is among the first rows of an outbox; or it is
\* in the outbox at all.
Ahead(d, o, e, n) == Told(o, e) \/ \E i \in 1 .. Len(outbox[d]) : i < n /\ outbox[d][i] = RowOf(o, e)
Coming(d, o, e) == Ahead(d, o, e, Len(outbox[d]) + 1)

\* Every row is about an order somebody was given, and behind the row it needs.
QueueOrder(d) ==
  \A i \in 1 .. Len(outbox[d]) :
    LET row == outbox[d][i]
    IN  Given(row.order) /\ (row.kind \in Later => Ahead(d, row.order, Needs(row.kind), i))

\* An answer to the poll was right when it was given.
PollOrder(p) ==
  p.order # NoOrder =>
    /\ Given(p.order)
    /\ p.stage >= 2 => Told(p.order, "ARRIVED_AT_PICKUP") /\ Told(p.order, "PICKED_UP")

\* The stage the store shows has been queued.
StoreOrder(d, a) ==
  /\ a.active # NoOrder => /\ Given(a.active)
                           /\ a.stage >= 2 => Coming(d, a.active, "ARRIVED_AT_PICKUP")
                           /\ a.stage >= 3 => Coming(d, a.active, "PICKED_UP")
  /\ a.shot # NoOrder => Given(a.shot)
  /\ PollOrder(a.poll)

\* A proof is posted for goods whose pickup has been queued.
PostOrder(d) == app[d].posting # NoHandler => Coming(d, api[app[d].posting].order, "PICKED_UP")

\* The request a flush waits for is that of its first row, which nothing is in front of.
FlushOrder(d) ==
  flush[d].on # NoHandler =>
    LET r == api[flush[d].on]
    IN  /\ Head(outbox[d]) = RowOf(r.order, r.event)
        /\ r.event = "POD" => /\ Told(r.order, "PICKED_UP")
                              /\ r.at = "answer" /\ r.code = 409 => Over(r.order) \/ r.order \in crossed

PhoneOrder(d) == QueueOrder(d) /\ StoreOrder(d, app[d]) /\ PostOrder(d) /\ FlushOrder(d)

OrderInv == /\ HeardInv
            /\ \A h \in Handlers : KnowsInv(h)
            /\ \A d \in Drivers : PhoneOrder(d)

----------------------------------------------------------------------------
(* What lasts *)

\* What was given, told, collected, over or crossed stays so.
Lasts ==
  \A o \in Orders : /\ Given(o) => Given(o)'
                    /\ o \in crossed => o \in crossed'
                    /\ Over(o) => Over(o)'
                    /\ Collected(o) => Collected(o)'
                    /\ recorded[o] \subseteq recorded'[o]

\* Nobody but the API moves an order to ARRIVED or PICKED_UP, and nobody takes it back.
OthersMove ==
  /\ UNCHANGED <<phase, recorded>>
  /\ \A o \in Orders :
       \/ status'[o] = status[o]
       \/ /\ status'[o] \notin {"ARRIVED", "PICKED_UP"}
          /\ status'[o] = "ASSIGNED" => ~Given(o)

LEMMA GivenLasts ==
  ASSUME RowInv, RowStep
  PROVE  \A o \in Orders : (Given(o) => Given(o)') /\ (Over(o) => Over(o)')
<1>1. status \in [Orders -> Status]
  BY DEF RowInv, RowTypeOK
<1>2. ASSUME NEW o \in Orders, NEW to \in Status \ {"NONE", "ARRIVED"}, Move(o, to),
             \/ isTransitionAllowed(status[o], to)
             \/ to = "DISPATCHING" /\ status[o] \in Intake \cup {"NONE", "NO_DRIVER"}
      PROVE  \A p \in Orders : (Given(p) => Given(p)') /\ (Over(p) => Over(p)')
  <2>1. status'[o] = to /\ \A p \in Orders : p # o => status'[p] = status[p]
    BY <1>1, <1>2 DEF Move
  <2>2. status[o] \in Status /\ to \in Status
    BY <1>1
  <2>3. Given(o) => to \notin Unassigned
    BY <1>2, <2>2, Tables DEF Given, Status, Unassigned, Intake
  <2>4. Over(o) => to \in {"DELIVERED", "FAILED", "RETURNED", "CANCELLED"}
    BY <1>2, <2>2, Tables DEF Over, Intake
  <2> QED  BY <2>1, <2>3, <2>4 DEF Given, Over
<1>3. ASSUME NEW o \in Orders, NEW to \in {"ARRIVED", "PICKED_UP"}, Move(o, to),
             status[o] \in {"ASSIGNED", "ARRIVED"}
      PROVE  \A p \in Orders : (Given(p) => Given(p)') /\ (Over(p) => Over(p)')
  <2>1. status'[o] = to /\ \A p \in Orders : p # o => status'[p] = status[p]
    BY <1>1, <1>3 DEF Move
  <2> QED  BY <1>3, <2>1 DEF Given, Over, Unassigned
<1> QED  BY <1>2, <1>3 DEF RowStep, Given, Over

\* Every step but those of a request the server works on.
LEMMA OthersStep ==
  ASSUME IInv, [Next]_vars, \A h \in Handlers : ~Serve(h)
  PROVE  OthersMove
<1>0. status \in [Orders -> Status]
  BY DEF IInv, RowInv, RowTypeOK
<1>1. CASE UNCHANGED <<status, phase, recorded>>
  BY <1>1 DEF OthersMove
<1>2. ASSUME NEW o \in Orders, NEW to \in {"DISPATCHING", "NO_DRIVER", "FAILED", "CANCELLED"},
             status' = [status EXCEPT ![o] = to], UNCHANGED <<phase, recorded>>
      PROVE  OthersMove
  <2>1. to \notin {"ARRIVED", "PICKED_UP", "ASSIGNED"}
    OBVIOUS
  <2>2. status'[o] = to /\ \A p \in Orders : p # o => status'[p] = status[p]
    BY <1>0, <1>2
  <2> QED  BY <1>2, <2>1, <2>2 DEF OthersMove
<1>3. ASSUME NEW o \in Orders, isTransitionAllowed(status[o], "ASSIGNED"),
             status' = [status EXCEPT ![o] = "ASSIGNED"], UNCHANGED <<phase, recorded>>
      PROVE  OthersMove
  <2>1. ~Given(o)
    BY <1>0, <1>3, Tables DEF Given
  <2>2. status'[o] = "ASSIGNED" /\ \A p \in Orders : p # o => status'[p] = status[p]
    BY <1>0, <1>3
  <2> QED  BY <1>3, <2>1, <2>2 DEF OthersMove
<1>4. ASSUME NEW h \in Handlers, Fails(h) \/ Abandon(h)
      PROVE  OthersMove
  BY <1>1, <1>4 DEF Fails, HandlerFails, Abandon, rowVars
<1>5. ASSUME NEW d \in Drivers, NEW o \in Orders, Accept(d, o) \/ Assign(d, o)
      PROVE  OthersMove
  <2>1. isTransitionAllowed(status[o], "ASSIGNED") /\ status' = [status EXCEPT ![o] = "ASSIGNED"]
    BY <1>5 DEF Accept, Assign, transitionOrder, CanTransition
  <2>2. UNCHANGED <<phase, recorded>>
    BY <1>5 DEF Accept, Assign, apiVars
  <2> QED  BY <1>3, <2>1, <2>2
<1>6. ASSUME NEW d \in Drivers, FailTrip(d)
      PROVE  OthersMove
  <2>1. app[d].active \in Orders
    BY <1>6, RowAssumption DEF FailTrip, IInv, PhoneInv, PhoneTypes, App
  <2>2. status' = [status EXCEPT ![app[d].active] = "FAILED"] /\ UNCHANGED <<phase, recorded>>
    BY <1>6 DEF FailTrip, transitionOrder, apiVars
  <2> QED  BY <1>2, <2>1, <2>2
<1>7. ASSUME NEW d \in Drivers, Screens(d)
      PROVE  OthersMove
  <2>1. CASE QueueArrivalPhoto(d) \/ ClaimArrival(d) \/ Advance(d) \/ PodAnswered(d) \/ PodLost(d)
    BY <1>1, <2>1, Zenon DEF QueueArrivalPhoto, ClaimArrival, Advance, PodAnswered, PodLost, apiVars, rowVars
  <2>2. ASSUME NEW h \in Handlers, SubmitPod(d, h)
        PROVE  OthersMove
    BY <1>1, <2>2, Zenon DEF SubmitPod, rowVars
  <2> QED  BY <1>5, <1>6, <1>7, <2>1, <2>2 DEF Screens
<1>8. ASSUME NEW d \in Drivers, Outbox(d) \/ Poll(d) \/ Hydrate(d) \/ Restart(d)
      PROVE  OthersMove
  BY <1>1, <1>8, Zenon DEF Outbox, StartFlush, SendPhoto, RowAnswered, RowLost, SendRow, Poll, Hydrate,
         Restart, apiVars, rowVars
<1>9. ASSUME NEW o \in Orders, Dispatching(o) \/ StaffCancels(o)
      PROVE  OthersMove
  <2>1. UNCHANGED <<phase, recorded>>
    BY <1>9 DEF Dispatching, StaffCancels, apiVars
  <2>2. \/ status' = [status EXCEPT ![o] = "DISPATCHING"]
        \/ status' = [status EXCEPT ![o] = "NO_DRIVER"]
        \/ status' = [status EXCEPT ![o] = "CANCELLED"]
    BY <1>9 DEF Dispatching, StaffCancels, transitionOrder
  <2> QED  BY <1>2, <2>1, <2>2
<1>10. CASE UNCHANGED vars
  BY <1>1, <1>10 DEF vars, rowVars, apiVars
<1> QED  BY <1>4, <1>7, <1>8, <1>9, <1>10 DEF Next

\* What is recorded is never forgotten.
LEMMA RecordsLast ==
  ASSUME IInv, [Next]_vars
  PROVE  \A o \in Orders : recorded[o] \subseteq recorded'[o]
<1>0. recorded \in [Orders -> SUBSET Event]
  BY DEF IInv, ApiInv
<1>1. ASSUME NEW h \in Handlers, Serve(h)
      PROVE  \A o \in Orders : recorded[o] \subseteq recorded'[o]
  <2>1. UNCHANGED recorded \/ recorded' = [recorded EXCEPT ![api[h].order] = @ \cup {api[h].event}]
    <3>1. CASE LoadOrder(h) \/ ReplayMilestone(h) \/ ReplayPod(h) \/ WritePhase(h) \/ CompleteDelivery(h)
      BY <3>1 DEF LoadOrder, ReplayMilestone, ReplayPod, WritePhase, CompleteDelivery
    <3>2. CASE CommitMilestone(h) \/ RecordMilestone(h)
      BY <3>2 DEF CommitMilestone, RecordMilestone
    <3>3. CASE RecordPod(h)
      BY <3>3 DEF RecordPod
    <3> QED  BY <1>1, <3>1, <3>2, <3>3 DEF Serve, Handle
  <2> QED  BY <1>0, <2>1
<1>2. CASE \A h \in Handlers : ~Serve(h)
  BY <1>2, OthersStep DEF OthersMove
<1> QED  BY <1>1, <1>2

\* The history goes on in every step, and a step that changes nothing crosses nothing.
LEMMA HistoryMoves ==
  ASSUME IInv, [HNext]_hvars
  PROVE  Remembers
<1>1. CASE HNext
  BY <1>1 DEF HNext
<1>2. CASE UNCHANGED hvars
  <2>1. app' = app /\ crossed' = crossed
    BY <1>2 DEF hvars, vars, appVars
  <2>2. ASSUME NEW d \in Drivers
        PROVE  ~Crosses(d)
    <3>1. app[d].stage \in Stage
      BY DEF IInv, PhoneInv, PhoneTypes, App
    <3> QED  BY <2>1, <3>1 DEF Crosses, Stage
  <2> QED  BY <2>1, <2>2 DEF Remembers
<1> QED  BY <1>1, <1>2

LEMMA StepLasts ==
  ASSUME IInv, [HNext]_hvars
  PROVE  Lasts
<1>1. [Next]_vars
  BY DEF HNext, hvars
<1>2. \A o \in crossed : o \in crossed'
  BY DEF HNext, hvars, Remembers
<1> QED  BY <1>1, <1>2, RowSteps, RowKeeps, GivenLasts, RecordsLast DEF IInv, Lasts

----------------------------------------------------------------------------
(* What the server has heard *)

\* The order after a step that is not the API's.
LEMMA OthersHeard ==
  ASSUME HeardInv, OthersMove, Lasts
  PROVE  HeardInv'
<1>1. ASSUME NEW o \in Orders
      PROVE  Heard(o)'
  <2>1. Heard(o) /\ recorded'[o] = recorded[o] /\ phase'[o] = phase[o]
    BY DEF HeardInv, OthersMove
  <2>2. CASE status'[o] = status[o]
    BY <2>1, <2>2 DEF Heard, Given, Collected, Lasts
  <2>3. CASE /\ status'[o] \notin {"ARRIVED", "PICKED_UP"}
             /\ status'[o] = "ASSIGNED" => ~Given(o)
    BY <2>1, <2>3 DEF Heard, Lasts
  <2> QED  BY <2>2, <2>3 DEF OthersMove
<1> QED  BY <1>1 DEF HeardInv

\* What is known of a request stays known.
LEMMA KnowsStays ==
  ASSUME ApiInv, Lasts, NEW h \in Handlers, KnowsInv(h), api'[h] = api[h]
  PROVE  KnowsInv(h)'
<1>1. CASE api[h].at = "idle"
  BY <1>1 DEF KnowsInv
<1>2. CASE api[h].at # "idle"
  <2>1. api[h].order \in Orders
    BY <1>2 DEF ApiInv, RequestInv
  <2> QED  BY <1>2, <2>1 DEF KnowsInv, SawInv, Lasts, Told
<1> QED  BY <1>1, <1>2

\* An answer says what it says.
LEMMA AnswerSays ==
  ASSUME ApiInv, NEW h \in Handlers, NEW code \in {200, 409, 500}, Answer(h, code)
  PROVE  /\ api'[h].at = "answer" /\ api'[h].order = api[h].order /\ api'[h].event = api[h].event
         /\ api'[h].code = code
<1>1. api \in [Handlers -> Requests] /\ api[h] \in Requests
  BY RequestSet DEF ApiInv
<1>2. api'[h] = [api[h] EXCEPT !.at = "answer", !.code = code, !.saw = "NONE", !.rank = 0]
  BY <1>1 DEF Answer
<1>3. DOMAIN api[h] = {"at", "order", "event", "saw", "rank", "code"}
  BY <1>1 DEF Requests
<1> QED  BY <1>2, <1>3

LEMMA KnowsAnswer ==
  ASSUME ApiInv, Lasts, NEW h \in Handlers, api[h].at # "idle", KnowsInv(h),
         NEW code \in {200, 409, 500}, Answer(h, code),
         NEW o \in Orders, NEW e \in Event, o = api[h].order, e = api[h].event,
         code = 200 => e \in recorded'[o],
         code = 409 /\ e # "POD" => Told(o, e)'
  PROVE  KnowsInv(h)'
<1>1. /\ api'[h].at = "answer" /\ api'[h].order = api[h].order /\ api'[h].event = api[h].event
      /\ api'[h].code = code
  BY AnswerSays
<1> QED  BY <1>1 DEF KnowsInv, Lasts, Told

LEMMA KnowsStep ==
  ASSUME ApiInv, Lasts, NEW h \in Handlers, api[h].at # "idle", KnowsInv(h),
         NEW at \in {"commit", "note"}, Step(h, at),
         at = "commit" /\ api[h].event = "PICKED_UP" => api[h].saw = "ARRIVED" \/ api[h].order \in crossed,
         at = "commit" /\ api[h].event = "ARRIVED_AT_DROPOFF" => "PICKED_UP" \in recorded[api[h].order],
         NEW o \in Orders, NEW e \in Event, o = api[h].order, e = api[h].event,
         at = "note" /\ e # "POD" => e \in recorded'[o]
  PROVE  KnowsInv(h)'
<1>1. /\ api'[h].at = at /\ api'[h].saw = api[h].saw /\ api'[h].order = api[h].order
      /\ api'[h].event = api[h].event
  BY StepFields
<1> QED  BY <1>1 DEF KnowsInv, Lasts, Told

\* A milestone is refused only when the server has heard of it, or the order is over.
LEMMA ConflictsAreTold ==
  ASSUME RowInv, ApiInv, HeardInv, NEW h \in Handlers, api[h].at = "replay", KnowsInv(h),
         api[h].event \in Milestones,
         ~(api[h].rank < PHASE_RANK[api[h].event] /\ api[h].saw \in AllowedFor(api[h].event))
  PROVE  Told(api[h].order, api[h].event)
<1> DEFINE r == api[h]
<1>1. /\ SawInv(r) /\ Heard(r.order) /\ r.saw \in Status /\ r.rank \in 0 .. 5
      /\ r.event \in {"ARRIVED_AT_PICKUP", "PICKED_UP", "ARRIVED_AT_DROPOFF"}
  BY DEF KnowsInv, HeardInv, ApiInv, RequestInv, Request, Milestones, PHASE_RANK
<1>2. r.saw \in {"ASSIGNED", "ARRIVED", "PICKED_UP", "DELIVERED", "FAILED", "RETURNED", "CANCELLED"}
  BY <1>1 DEF SawInv, Status, Unassigned
<1>c. CASE r.order \in crossed
  BY <1>c DEF Told
<1>3. CASE r.saw = "ASSIGNED" /\ r.order \notin crossed
  <2>1. r.rank = 0 /\ r.event = "ARRIVED_AT_PICKUP"
    BY <1>1, <1>3 DEF SawInv
  <2> QED  BY <1>3, <2>1 DEF AllowedFor, PHASE_RANK
<1>4. CASE r.saw = "ARRIVED" /\ r.order \notin crossed
  <2>1. r.rank = 2 /\ r.event # "ARRIVED_AT_DROPOFF" /\ "ARRIVED_AT_PICKUP" \in recorded[r.order]
    BY <1>1, <1>4 DEF SawInv
  <2>2. r.event # "PICKED_UP"
    BY <1>4, <2>1 DEF AllowedFor, PHASE_RANK
  <2> QED  BY <1>1, <2>1, <2>2 DEF Told
<1>5. CASE r.saw = "PICKED_UP" /\ r.order \notin crossed
  <2>1. /\ "PICKED_UP" \in recorded[r.order] /\ "ARRIVED_AT_PICKUP" \in recorded[r.order]
        /\ r.rank = 5 => "ARRIVED_AT_DROPOFF" \in recorded[r.order]
    BY <1>1, <1>5 DEF SawInv, Heard
  <2>2. r.event = "ARRIVED_AT_DROPOFF" => r.rank = 5
    BY <1>1, <1>5 DEF AllowedFor, PHASE_RANK
  <2> QED  BY <1>1, <2>1, <2>2 DEF Told
<1>6. CASE r.saw \in {"DELIVERED", "FAILED", "RETURNED", "CANCELLED"}
  BY <1>1, <1>6 DEF SawInv, Told
<1> QED  BY <1>c, <1>2, <1>3, <1>4, <1>5, <1>6

\* One order moves on, and what is recorded of it.
LEMMA OneHeard ==
  ASSUME HeardInv, Lasts, NEW p \in Orders, Heard(p)',
         \A o \in Orders : o # p => /\ status'[o] = status[o] /\ phase'[o] = phase[o]
                                    /\ recorded'[o] = recorded[o]
  PROVE  HeardInv'
BY DEF HeardInv, Heard, Given, Collected, Lasts

\* The API moves the order on, and what it knows.
LEMMA HandleHears ==
  ASSUME RowInv, ApiInv, HeardInv, Lasts, NEW h \in Handlers, KnowsInv(h), Handle(h)
  PROVE  HeardInv' /\ KnowsInv(h)'
<1>r. PICK r : r = api[h]
  OBVIOUS
<1> DEFINE o == r.order
<1>0. /\ recorded \in [Orders -> SUBSET Event] /\ r \in Request /\ api \in [Handlers -> Request]
      /\ RequestInv(h) /\ status \in [Orders -> Status] /\ phase \in [Orders -> 0 .. 5]
  BY <1>r DEF ApiInv, RowInv, RowTypeOK
<1>1. /\ r.at # "idle" /\ o \in Orders /\ Heard(o) /\ Given(o)
      /\ r.event \in Later /\ r.event # "POD" => Told(o, Needs(r.event))
  <2>1. r.at # "idle"
    BY <1>r, HandleFields
  <2> QED  BY <1>r, <1>0, <2>1 DEF RequestInv, KnowsInv, HeardInv
<1>2. ASSUME UNCHANGED <<status, phase, recorded>>
      PROVE  HeardInv'
  BY <1>r, <1>2 DEF HeardInv, Heard, Given, Collected, Lasts
<1>e. /\ r.event \in Event
      /\ r.event \in {"ARRIVED_AT_PICKUP", "PICKED_UP", "ARRIVED_AT_DROPOFF", "POD"}
      /\ r.event \in Milestones <=> r.event # "POD"
  BY <1>r, <1>0 DEF Request, Event, Milestones, PHASE_RANK
<1>3. CASE LoadOrder(h)
  <2> DEFINE rank == currentPhaseRank(o)
  <2>1. /\ UNCHANGED <<status, phase, recorded>>
        /\ api' = [api EXCEPT ![h] = [r EXCEPT !.at = "replay", !.saw = status[o], !.rank = rank]]
    BY <1>r, <1>3 DEF LoadOrder, rowVars
  <2>2. /\ api'[h].at = "replay" /\ api'[h].saw = status[o] /\ api'[h].rank = rank
        /\ api'[h].order = o /\ api'[h].event = r.event
    <3>1. DOMAIN api = Handlers /\ DOMAIN r = {"at", "order", "event", "saw", "rank", "code"}
      BY <1>r, <1>0 DEF Request
    <3> QED  BY <1>r, <2>1, <3>1
  <2>3. /\ status[o] = "ASSIGNED" => phase[o] = 0
        /\ status[o] = "ARRIVED" => phase[o] = 2
        /\ rank = IF status[o] = "PICKED_UP" /\ phase[o] < 3 THEN 3 ELSE phase[o]
    BY <1>r, <1>1 DEF RowInv, currentPhaseRank, PHASE_RANK
  <2> HIDE DEF rank
  <2>4. r.event \in Later /\ r.event # "POD" => status[o] # "ASSIGNED" \/ o \in crossed
    BY <1>r, <1>1, <1>e DEF Told, Needs, Heard, Over, Later, Collected
  <2>5. r.event = "ARRIVED_AT_DROPOFF" => status[o] # "ARRIVED" \/ o \in crossed
    BY <1>r, <1>1 DEF Told, Needs, Heard, Over, Later, Collected
  <2>6. SawInv(api[h])'
    <3>1. /\ status[o] \notin Unassigned
          /\ status[o] = "ASSIGNED" => rank = 0 /\ (r.event \in {"ARRIVED_AT_PICKUP", "POD"} \/ o \in crossed)
      BY <1>r, <1>1, <1>e, <2>3, <2>4 DEF Given, Later
    <3>2. status[o] = "ARRIVED" => /\ rank = 2 /\ (r.event # "ARRIVED_AT_DROPOFF" \/ o \in crossed)
                                   /\ "ARRIVED_AT_PICKUP" \in recorded[o]
      BY <1>r, <1>1, <2>3, <2>5 DEF Heard
    <3>3. status[o] = "PICKED_UP" => /\ "PICKED_UP" \in recorded[o]
                                     /\ rank = 5 => "ARRIVED_AT_DROPOFF" \in recorded[o]
      BY <1>r, <1>1, <2>3 DEF Heard
    <3> QED  BY <1>r, <2>1, <2>2, <3>1, <3>2, <3>3, <1>1 DEF SawInv, Over, Lasts
  <2>7. KnowsInv(h)'
    BY <1>r, <1>1, <2>1, <2>2, <2>6 DEF KnowsInv, Given, Told, Over, Lasts
  <2> QED  BY <1>r, <1>2, <2>1, <2>7
<1>4. CASE ReplayMilestone(h)
  <2>1. r.at = "replay" /\ r.event # "POD" /\ UNCHANGED <<status, phase, recorded>> /\ SawInv(r)
    BY <1>r, <1>4, <1>e DEF ReplayMilestone, rowVars, KnowsInv
  <2>2. CASE r.event \in recorded[o] /\ Answer(h, 200)
    BY <1>r, <1>1, <1>2, <1>e, <2>1, <2>2, KnowsAnswer
  <2>3. CASE r.rank < PHASE_RANK[r.event] /\ r.saw \in AllowedFor(r.event) /\ Step(h, "commit")
    <3>1. r.event = "PICKED_UP" => r.saw = "ARRIVED" \/ o \in crossed
      BY <1>r, <2>1, <2>3 DEF SawInv, AllowedFor, PHASE_RANK
    <3>2. r.event = "ARRIVED_AT_DROPOFF" => "PICKED_UP" \in recorded[o]
      BY <1>r, <2>1, <2>3 DEF SawInv, AllowedFor, PHASE_RANK
    <3> QED  BY <1>r, <1>1, <1>e, <1>2, <2>1, <2>3, <3>1, <3>2, KnowsStep
  <2>4. CASE ~(r.rank < PHASE_RANK[r.event] /\ r.saw \in AllowedFor(r.event)) /\ Answer(h, 409)
    <3>1. Told(o, r.event)
      BY <1>r, <1>e, <2>1, <2>4, ConflictsAreTold
    <3>2. Told(o, r.event)'
      BY <1>r, <1>1, <2>1, <3>1 DEF Told, Over, Lasts
    <3> QED  BY <1>r, <1>1, <1>e, <1>2, <2>1, <2>4, <3>2, KnowsAnswer
  <2> QED  BY <1>r, <1>2, <1>4, <2>1, <2>2, <2>3, <2>4 DEF ReplayMilestone
<1>5. CASE ReplayPod(h)
  <2>1. r.at = "replay" /\ r.event = "POD" /\ UNCHANGED <<status, phase, recorded>>
    BY <1>r, <1>5 DEF ReplayPod, rowVars
  <2>2. CASE Step(h, "commit")
    BY <1>r, <1>1, <1>2, <1>e, <2>1, <2>2, KnowsStep
  <2>3. CASE Answer(h, IF "POD" \in recorded[o] THEN 200 ELSE 409)
    BY <1>r, <1>1, <1>2, <1>e, <2>1, <2>3, KnowsAnswer
  <2> QED  BY <1>r, <1>2, <1>5, <2>1, <2>2, <2>3 DEF ReplayPod
<1>6. CASE CommitMilestone(h)
  <2>1. r.at = "commit" /\ r.event \in {"PICKED_UP", "ARRIVED_AT_PICKUP"}
    BY <1>r, <1>6 DEF CommitMilestone, MovesTheOrder
  <2>2. /\ r.event = "PICKED_UP" => r.saw = "ARRIVED" \/ (o \in crossed /\ r.saw = "ASSIGNED")
        /\ r.event = "ARRIVED_AT_PICKUP" => r.saw = "ASSIGNED"
    BY <1>r, <1>0, <2>1 DEF KnowsInv, RequestInv
  <2> DEFINE to == IF r.event = "PICKED_UP" THEN "PICKED_UP" ELSE "ARRIVED"
             n == PHASE_RANK[r.event]
  <2>3. CASE /\ transitionOrder(o, r.saw, to)
             /\ phase' = [phase EXCEPT ![o] = n]
             /\ recorded' = [recorded EXCEPT ![o] = @ \cup {r.event}]
             /\ Answer(h, 200)
    <3>1. status[o] = r.saw /\ status' = [status EXCEPT ![o] = to]
      BY <1>r, <2>3 DEF transitionOrder, CanTransition
    <3>2. n \in {2, 3}
      BY <1>r, <2>1 DEF PHASE_RANK
    <3>3. /\ status'[o] = to /\ phase'[o] = n /\ recorded'[o] = recorded[o] \cup {r.event}
          /\ \A p \in Orders : p # o => status'[p] = status[p] /\ phase'[p] = phase[p] /\ recorded'[p] = recorded[p]
      BY <1>r, <1>0, <1>1, <2>3, <3>1
    <3>4. Heard(o)'
      BY <1>r, <1>1, <2>1, <2>2, <3>1, <3>2, <3>3 DEF Heard, Given, Collected, Lasts, Unassigned
    <3>5. r.event \in recorded'[o]
      BY <1>r, <3>3
    <3> QED  BY <1>r, <1>1, <1>e, <2>3, <3>3, <3>4, <3>5, OneHeard, KnowsAnswer
  <2>4. CASE /\ ~CanTransition(o, r.saw, to)
             /\ Answer(h, 409)
             /\ UNCHANGED <<phase, recorded, status>>
    <3>1. isTransitionAllowed(r.saw, to)
      BY <1>r, <2>1, <2>2 DEF isTransitionAllowed, ALLOWED, Status
    <3>2. status[o] # r.saw /\ status[o] \in Status \ Unassigned
      BY <1>r, <1>0, <1>1, <2>4, <3>1 DEF CanTransition, Given
    <3>3. status[o] \in {"ASSIGNED", "ARRIVED", "PICKED_UP"} \/ Over(o)
      BY <1>r, <3>2 DEF Status, Unassigned, Over
    <3>4. r.event = "PICKED_UP" => status[o] # "ASSIGNED" \/ o \in crossed
      BY <1>r, <1>1 DEF Later, Needs, Told, Heard, Over
    <3>5. Told(o, r.event)
      BY <1>r, <1>1, <2>1, <2>2, <3>2, <3>3, <3>4 DEF Told, Heard
    <3>6. Told(o, r.event)'
      BY <1>r, <1>1, <2>4, <3>5 DEF Told, Over, Lasts
    <3> QED  BY <1>r, <1>1, <1>e, <1>2, <2>1, <2>4, <3>6, KnowsAnswer
  <2> QED  BY <1>r, <1>6, <2>3, <2>4 DEF CommitMilestone
<1>7. CASE RecordMilestone(h)
  <2>1. r.at = "commit" /\ r.event = "ARRIVED_AT_DROPOFF"
    BY <1>r, <1>0, <1>e, <1>7 DEF RecordMilestone, RequestInv, MovesTheOrder
  <2>2. /\ UNCHANGED <<status, phase>> /\ Step(h, "note")
        /\ recorded' = [recorded EXCEPT ![o] = @ \cup {"ARRIVED_AT_DROPOFF"}]
    BY <1>r, <1>7, <2>1 DEF RecordMilestone, rowVars
  <2>3. /\ recorded'[o] = recorded[o] \cup {"ARRIVED_AT_DROPOFF"}
        /\ \A p \in Orders : p # o => recorded'[p] = recorded[p]
    BY <1>r, <1>0, <1>1, <2>2
  <2>4. "PICKED_UP" \in recorded[o]
    BY <1>r, <2>1 DEF KnowsInv
  <2>5. Heard(o)'
    BY <1>r, <1>1, <2>2, <2>3, <2>4 DEF Heard, Given, Collected, Lasts
  <2>6. HeardInv'
    BY <1>r, <1>1, <2>2, <2>3, <2>5, OneHeard
  <2>7. r.event \in recorded'[o]
    BY <1>r, <2>1, <2>3
  <2> QED  BY <1>r, <1>1, <1>e, <2>1, <2>2, <2>6, <2>7, KnowsStep
<1>8. CASE WritePhase(h)
  <2>1. r.at = "note" /\ r.event = "ARRIVED_AT_DROPOFF" /\ "ARRIVED_AT_DROPOFF" \in recorded[o]
    BY <1>r, <1>0, <1>e, <1>8 DEF WritePhase, RequestInv, KnowsInv
  <2>2. UNCHANGED <<status, recorded>> /\ phase' = [phase EXCEPT ![o] = 5] /\ Answer(h, 200)
    BY <1>r, <1>8, <2>1 DEF WritePhase, rowVars, PHASE_RANK
  <2>3. phase'[o] = 5 /\ \A p \in Orders : p # o => phase'[p] = phase[p]
    BY <1>r, <1>0, <1>1, <2>2
  <2>4. Heard(o)'
    BY <1>r, <1>1, <2>1, <2>2 DEF Heard, Given, Collected, Lasts
  <2>5. HeardInv'
    BY <1>r, <1>1, <2>2, <2>3, <2>4, OneHeard
  <2> QED  BY <1>r, <1>1, <1>e, <2>1, <2>2, <2>5, KnowsAnswer
<1>9. CASE CompleteDelivery(h)
  <2>1. r.at = "commit" /\ r.event = "POD" /\ UNCHANGED <<phase, recorded>>
    BY <1>r, <1>9 DEF CompleteDelivery
  <2>2. CASE transitionOrder(o, "PICKED_UP", "DELIVERED") /\ Step(h, "note")
    <3>1. status' = [status EXCEPT ![o] = "DELIVERED"] /\ status[o] = "PICKED_UP"
      BY <1>r, <2>2 DEF transitionOrder, CanTransition
    <3>2. status'[o] = "DELIVERED" /\ \A p \in Orders : p # o => status'[p] = status[p]
      BY <1>r, <1>0, <1>1, <3>1
    <3>3. Heard(o)'
      BY <1>r, <1>1, <2>1, <3>2 DEF Heard, Given, Collected, Lasts, Unassigned
    <3>4. HeardInv'
      BY <1>r, <1>1, <2>1, <3>2, <3>3, OneHeard
    <3> QED  BY <1>r, <1>1, <1>e, <2>1, <2>2, <3>4, KnowsStep
  <2>3. CASE Answer(h, 409) /\ UNCHANGED status
    BY <1>r, <1>1, <1>e, <1>2, <2>1, <2>3, KnowsAnswer
  <2> QED  BY <1>r, <1>9, <2>2, <2>3 DEF CompleteDelivery
<1>10. CASE RecordPod(h)
  <2>1. /\ r.at = "note" /\ r.event = "POD" /\ UNCHANGED <<status, phase>> /\ Answer(h, 200)
        /\ recorded' = [recorded EXCEPT ![o] = @ \cup {"POD"}]
    BY <1>r, <1>10 DEF RecordPod, rowVars
  <2>2. recorded'[o] = recorded[o] \cup {"POD"} /\ \A p \in Orders : p # o => recorded'[p] = recorded[p]
    BY <1>r, <1>0, <1>1, <2>1
  <2>3. Heard(o)'
    BY <1>r, <1>1, <2>1, <2>2 DEF Heard, Given, Collected, Lasts
  <2>4. HeardInv'
    BY <1>r, <1>1, <2>1, <2>2, <2>3, OneHeard
  <2> QED  BY <1>r, <1>1, <1>e, <2>1, <2>2, <2>4, KnowsAnswer
<1> QED  BY <1>r, <1>3, <1>4, <1>5, <1>6, <1>7, <1>8, <1>9, <1>10 DEF Handle

----------------------------------------------------------------------------
(* What the phones have queued *)

\* An outbox keeps its order over a step, and what it brings; a row that leaves it has
\* landed.
QueueKeeps(d) ==
  /\ QueueOrder(d)'
  /\ \A o \in Orders, e \in Event : Coming(d, o, e) => Coming(d, o, e)'
  /\ \A row \in Rows(d) : row \in Rows(d)' \/ Landed(row)'

LEMMA NeedsEvent == \A k \in Later : Needs(k) \in Event /\ Needs(k) # Photo
BY Kinds DEF Later, Needs

LEMMA RowsAreRows ==
  ASSUME NEW q \in Seq(Row)
  PROVE  \A i \in 1 .. Len(q) : q[i] \in Row /\ q[i].order \in Orders
<1>1. \A i \in 1 .. Len(q) : q[i] \in Row
  OBVIOUS
<1> QED  BY <1>1 DEF Row

LEMMA QueueStays ==
  ASSUME Lasts, NEW d \in Drivers, outbox[d] \in Seq(Row), QueueOrder(d), outbox'[d] = outbox[d]
  PROVE  QueueKeeps(d)
<1>1. PICK q \in Seq(Row) : q = outbox[d] /\ outbox'[d] = q
  OBVIOUS
<1>2. \A i \in 1 .. Len(q) : q[i] \in Row /\ q[i].order \in Orders
  BY <1>1, RowsAreRows
<1>3. \A o \in Orders : \A e, n : Ahead(d, o, e, n) => Ahead(d, o, e, n)'
  BY <1>1 DEF Ahead, Told, Lasts, RowOf
<1>4. QueueOrder(d)'
  BY <1>1, <1>2, <1>3 DEF QueueOrder, Lasts
<1>5. \A o \in Orders, e \in Event : Coming(d, o, e) => Coming(d, o, e)'
  BY <1>1, <1>3 DEF Coming
<1>6. Rows(d)' = Rows(d)
  BY <1>1 DEF Rows
<1> QED  BY <1>4, <1>5, <1>6 DEF QueueKeeps

LEMMA QueueGrows ==
  ASSUME Lasts, NEW d \in Drivers, outbox[d] \in Seq(Row), QueueOrder(d), NEW row \in Row,
         outbox'[d] = Enqueued(d, row), Given(row.order),
         row.kind \in Later => Coming(d, row.order, Needs(row.kind))
  PROVE  /\ QueueKeeps(d) /\ Coming(d, row.order, row.kind)'
         /\ outbox[d] # <<>> => Head(outbox'[d]) = Head(outbox[d])
<1>1. PICK q \in Seq(Row) : q = outbox[d]
  OBVIOUS
<1>u. PICK u : u = Enqueued(d, row)
  OBVIOUS
<1>2. u \in Seq(Row) /\ outbox'[d] = u
  BY <1>u, EnqueuedRow
<1>3. /\ Len(q) <= Len(u) /\ \A i \in 1 .. Len(q) : u[i] = q[i]
      /\ \A i \in 1 .. Len(u) : i \notin 1 .. Len(q) => i = Len(q) + 1 /\ u[i] = row
      /\ \E i \in 1 .. Len(u) : u[i] = row
  BY <1>1, <1>u, EnqueuedRow, ZenonT(30)
<1>4. Len(q) \in Nat /\ Len(u) \in Nat
  BY <1>1, <1>2
<1>5. row.order \in Orders /\ \A i \in 1 .. Len(q) : q[i] \in Row /\ q[i].order \in Orders
  <2>1. row.order \in Orders
    BY DEF Row
  <2> QED  BY <1>1, <2>1, RowsAreRows
<1>6. ASSUME NEW o \in Orders, NEW e, NEW n, Ahead(d, o, e, n)
      PROVE  Ahead(d, o, e, n)'
  <2>1. CASE Told(o, e)
    BY <2>1 DEF Told, Lasts, Ahead
  <2>2. CASE ~Told(o, e)
    <3>1. PICK i \in 1 .. Len(q) : i < n /\ q[i] = RowOf(o, e)
      BY <1>1, <1>6, <2>2 DEF Ahead
    <3>2. i \in 1 .. Len(u) /\ i < n /\ u[i] = RowOf(o, e)
      BY <1>3, <1>4, <3>1
    <3> QED  BY <1>2, <3>2 DEF Ahead, RowOf
  <2> QED  BY <2>1, <2>2
<1>7. QueueOrder(d)'
  <2>1. ASSUME NEW i \in 1 .. Len(u)
        PROVE  /\ Given(u[i].order)'
               /\ u[i].kind \in Later => Ahead(d, u[i].order, Needs(u[i].kind), i)'
    <3>1. CASE i \in 1 .. Len(q)
      <4>1. u[i] = q[i] /\ Given(q[i].order) /\ (q[i].kind \in Later => Ahead(d, q[i].order, Needs(q[i].kind), i))
        BY <1>1, <1>3, <3>1 DEF QueueOrder
      <4> QED  BY <1>5, <1>6, <3>1, <4>1 DEF Lasts
    <3>2. CASE i \notin 1 .. Len(q)
      <4>1. i = Len(q) + 1 /\ u[i] = row
        BY <1>3, <3>2
      <4> QED  BY <1>1, <1>5, <1>6, <4>1 DEF Coming, Lasts
    <3> QED  BY <3>1, <3>2
  <2> QED  BY <1>2, <2>1 DEF QueueOrder
<1>8. \A o \in Orders, e \in Event : Coming(d, o, e) => Coming(d, o, e)'
  <2>1. ASSUME NEW o \in Orders, NEW e \in Event, Ahead(d, o, e, Len(q) + 1)'
        PROVE  Ahead(d, o, e, Len(u) + 1)'
    BY <1>2, <1>3, <1>4, <2>1 DEF Ahead
  <2> QED  BY <1>1, <1>2, <1>6, <2>1 DEF Coming
<1>9. Coming(d, row.order, row.kind)'
  <2>1. PICK i \in 1 .. Len(u) : u[i] = row
    BY <1>3
  <2>2. i < Len(u) + 1 /\ row = RowOf(row.order, row.kind)
    BY <1>4, <2>1 DEF Row, RowOf
  <2> QED  BY <1>2, <2>1, <2>2 DEF Coming, Ahead, RowOf
<1>10. \A x \in Rows(d) : x \in Rows(d)'
  BY <1>1, <1>2, <1>3, <1>4 DEF Rows
<1>11. q # <<>> => Head(u) = Head(q)
  BY <1>3, <1>4
<1> QED  BY <1>1, <1>2, <1>7, <1>8, <1>9, <1>10, <1>11 DEF QueueKeeps

LEMMA QueuePops ==
  ASSUME Lasts, NEW d \in Drivers, outbox[d] \in Seq(Row), QueueOrder(d), outbox[d] # <<>>,
         NEW row, row = Head(outbox[d]), outbox'[d] = Tail(outbox[d]), Landed(row)'
  PROVE  QueueKeeps(d)
<1>1. PICK q \in Seq(Row) : q = outbox[d]
  OBVIOUS
<1>u. PICK u : u = Tail(q)
  OBVIOUS
<1>2. u \in Seq(Row) /\ outbox'[d] = u
  BY <1>1, <1>u
<1>3. /\ Len(q) \in Nat /\ Len(u) \in Nat /\ Len(q) = Len(u) + 1 /\ q[1] = row
      /\ \A i \in 1 .. Len(u) : u[i] = q[i + 1] /\ i + 1 \in 1 .. Len(q)
      /\ \A i \in 1 .. Len(q) : i # 1 => i - 1 \in 1 .. Len(u) /\ u[i - 1] = q[i]
  BY <1>1, <1>2, <1>u
<1>4. \A i \in 1 .. Len(q) : q[i] \in Row /\ q[i].order \in Orders
  BY <1>1, RowsAreRows
<1>5. ASSUME NEW o \in Orders, NEW e \in Event, NEW n \in 1 .. Len(q), Ahead(d, o, e, n + 1)
      PROVE  Ahead(d, o, e, n)'
  <2>1. CASE Told(o, e)
    BY <2>1 DEF Told, Lasts, Ahead
  <2>2. CASE ~Told(o, e)
    <3>1. PICK i \in 1 .. Len(q) : i < n + 1 /\ q[i] = RowOf(o, e)
      BY <1>1, <1>5, <2>2 DEF Ahead
    <3>2. CASE i = 1
      <4>1. row.order = o /\ row.kind = e /\ e # Photo
        BY <1>3, <3>1, <3>2, Kinds DEF RowOf
      <4>2. Told(o, e)'
        BY <4>1 DEF Landed, Told, Over
      <4> QED  BY <4>2 DEF Ahead
    <3>3. CASE i # 1
      <4>1. i - 1 \in 1 .. Len(u) /\ u[i - 1] = RowOf(o, e) /\ i - 1 < n
        BY <1>3, <3>1, <3>3
      <4> QED  BY <1>2, <4>1 DEF Ahead, RowOf
    <3> QED  BY <3>2, <3>3
  <2> QED  BY <2>1, <2>2
<1>6. QueueOrder(d)'
  <2>1. ASSUME NEW i \in 1 .. Len(u)
        PROVE  /\ Given(u[i].order)'
               /\ u[i].kind \in Later => Ahead(d, u[i].order, Needs(u[i].kind), i)'
    <3>1. u[i] = q[i + 1] /\ i + 1 \in 1 .. Len(q) /\ i \in 1 .. Len(q)
      BY <1>3
    <3>2. /\ Given(q[i + 1].order)
          /\ q[i + 1].kind \in Later => Ahead(d, q[i + 1].order, Needs(q[i + 1].kind), i + 1)
      BY <1>1, <3>1 DEF QueueOrder
    <3> QED  BY <1>4, <1>5, <3>1, <3>2, NeedsEvent DEF Lasts
  <2> QED  BY <1>2, <2>1 DEF QueueOrder
<1>7. \A o \in Orders, e \in Event : Coming(d, o, e) => Coming(d, o, e)'
  <2>1. Len(q) \in 1 .. Len(q)
    BY <1>3
  <2> QED  BY <1>1, <1>2, <1>3, <1>5, <2>1 DEF Coming
<1>8. \A x \in Rows(d) : x \in Rows(d)' \/ Landed(x)'
  <2>1. ASSUME NEW i \in 1 .. Len(q)
        PROVE  q[i] \in Rows(d)' \/ Landed(q[i])'
    <3>1. CASE i = 1
      BY <1>3, <3>1
    <3>2. CASE i # 1
      <4>1. i - 1 \in 1 .. Len(u) /\ u[i - 1] = q[i]
        BY <1>3, <3>2
      <4>2. i - 1 \in DOMAIN u
        BY <1>2, <4>1
      <4> QED  BY <1>2, <4>1, <4>2, Zenon DEF Rows
    <3> QED  BY <3>1, <3>2
  <2>2. \A x \in Rows(d) : \E i \in 1 .. Len(q) : x = q[i]
    BY <1>1 DEF Rows
  <2> QED  BY <2>1, <2>2
<1> QED  BY <1>6, <1>7, <1>8 DEF QueueKeeps

\* A store that was in order stays so while the outbox keeps its order.
LEMMA StoreLasts ==
  ASSUME Lasts, NEW d \in Drivers, QueueKeeps(d), NEW a \in App, StoreOrder(d, a)
  PROVE  StoreOrder(d, a)'
<1>1. /\ a.active \in Orders \cup {NoOrder} /\ a.shot \in Orders \cup {NoOrder}
      /\ a.poll.order \in Orders \cup {NoOrder}
      /\ "ARRIVED_AT_PICKUP" \in Event /\ "PICKED_UP" \in Event
  BY Kinds DEF App, PollAnswer
<1>2. PollOrder(a.poll)'
  BY <1>1 DEF StoreOrder, PollOrder, Lasts, Told
<1>3. /\ a.active # NoOrder => /\ Given(a.active)'
                               /\ a.stage >= 2 => Coming(d, a.active, "ARRIVED_AT_PICKUP")'
                               /\ a.stage >= 3 => Coming(d, a.active, "PICKED_UP")'
      /\ a.shot # NoOrder => Given(a.shot)'
  BY <1>1 DEF StoreOrder, QueueKeeps, Lasts
<1> QED  BY <1>2, <1>3 DEF StoreOrder

\* A wait that goes on, and what it waits for.
LEMMA FlushLasts ==
  ASSUME ApiInv, WaitInv, PhoneInv, Lasts, NEW d \in Drivers, FlushOrder(d),
         flush'[d].on \in {NoHandler, flush[d].on},
         outbox[d] # <<>> => Head(outbox'[d]) = Head(outbox[d]),
         flush'[d].on # NoHandler => api'[flush[d].on] = api[flush[d].on]
  PROVE  FlushOrder(d)'
<1>1. CASE flush'[d].on = NoHandler
  BY <1>1 DEF FlushOrder
<1>2. CASE flush'[d].on # NoHandler
  <2>1. PICK r : r = api[flush[d].on] /\ r = api'[flush'[d].on]
    BY <1>2
  <2>2. flush[d].on # NoHandler /\ flush[d].on \in Handlers
    BY <1>2 DEF PhoneInv, PhoneTypes, Flush
  <2>3. r.order \in Orders
    BY <2>1, <2>2 DEF WaitInv, ApiInv, RequestInv
  <2>4. outbox[d] # <<>>
    BY <2>2 DEF PhoneInv, FlushInv, PhoneTypes, Flush
  <2>5. /\ Head(outbox[d]) = RowOf(r.order, r.event)
        /\ r.event = "POD" => /\ Told(r.order, "PICKED_UP")
                              /\ r.at = "answer" /\ r.code = 409 => Over(r.order) \/ r.order \in crossed
    BY <2>1, <2>2 DEF FlushOrder
  <2> QED  BY <2>1, <2>3, <2>4, <2>5 DEF FlushOrder, Lasts, Told, RowOf
<1> QED  BY <1>1, <1>2

LEMMA PostLasts ==
  ASSUME ApiInv, WaitInv, PhoneInv, Lasts, NEW d \in Drivers, PostOrder(d), QueueKeeps(d),
         app'[d].posting \in {NoHandler, app[d].posting},
         app'[d].posting # NoHandler => api'[app[d].posting].order = api[app[d].posting].order
  PROVE  PostOrder(d)'
<1>1. CASE app'[d].posting # NoHandler
  <2>1. PICK o : o = api[app[d].posting].order /\ o = api'[app'[d].posting].order
    BY <1>1
  <2>2. app[d].posting # NoHandler /\ app[d].posting \in Handlers
    BY <1>1 DEF PhoneInv, PhoneTypes, App
  <2>3. o \in Orders /\ Coming(d, o, "PICKED_UP")
    BY <2>1, <2>2 DEF WaitInv, ApiInv, RequestInv, PostOrder
  <2>4. Coming(d, o, "PICKED_UP")'
    BY <2>3, Kinds DEF QueueKeeps
  <2> QED  BY <2>1, <2>4 DEF PostOrder
<1> QED  BY <1>1 DEF PostOrder

----------------------------------------------------------------------------
(* The steps of the phones *)

\* What is left to show of a step once OthersHeard or HandleHears has spoken for the
\* orders.
OrderKeeps == /\ \A h \in Handlers : KnowsInv(h)'
              /\ \A d \in Drivers : PhoneOrder(d)' /\ QueueKeeps(d)

\* A phone that does nothing, while the requests it waits for go on as they were.
LEMMA PhoneRests ==
  ASSUME IInv, OrderInv, Lasts, NEW e \in Drivers,
         outbox'[e] = outbox[e], flush'[e] = flush[e], app'[e] = app[e],
         flush[e].on # NoHandler => api'[flush[e].on] = api[flush[e].on],
         app[e].posting # NoHandler => api'[app[e].posting].order = api[app[e].posting].order
  PROVE  PhoneOrder(e)' /\ QueueKeeps(e)
<1>1. PhoneOrder(e) /\ outbox[e] \in Seq(Row) /\ app[e] \in App
  BY DEF OrderInv, IInv, PhoneInv, PhoneTypes
<1>2. QueueKeeps(e)
  BY <1>1, QueueStays DEF PhoneOrder
<1>3. StoreOrder(e, app[e])'
  <2>1. PICK a : a = app[e]
    OBVIOUS
  <2>2. StoreOrder(e, a)'
    BY <1>1, <1>2, <2>1, StoreLasts DEF PhoneOrder
  <2> QED  BY <2>1, <2>2 DEF StoreOrder
<1>4. PostOrder(e)'
  BY <1>1, <1>2, PostLasts DEF PhoneOrder, IInv
<1>5. FlushOrder(e)'
  BY <1>1, FlushLasts DEF PhoneOrder, IInv
<1>6. QueueOrder(e)'
  BY <1>2 DEF QueueKeeps
<1> QED  BY <1>2, <1>3, <1>4, <1>5, <1>6 DEF PhoneOrder

\* One phone moves, and the requests that change are nobody else's.
LEMMA PhoneMoves ==
  ASSUME IInv, OrderInv, Lasts, NEW d \in Drivers, NEW a \in App, app' = [app EXCEPT ![d] = a],
         \A e \in Drivers : e # d => outbox'[e] = outbox[e] /\ flush'[e] = flush[e],
         \A g \in Handlers : \/ api'[g] = api[g]
                             \/ \A e \in Drivers : e # d => flush[e].on # g /\ app[e].posting # g,
         \A g \in Handlers : KnowsInv(g)',
         QueueKeeps(d), StoreOrder(d, a)', PostOrder(d)', FlushOrder(d)'
  PROVE  OrderKeeps
<1>1. /\ PhoneTypes /\ app'[d] = a /\ \A e \in Drivers : e # d => app'[e] = app[e]
      /\ \A e \in Drivers : flush[e].on \in Handlers \cup {NoHandler} /\ app[e].posting \in Handlers \cup {NoHandler}
  BY DEF IInv, PhoneInv, PhoneTypes, Flush, App
<1>2. ASSUME NEW e \in Drivers, e # d
      PROVE  PhoneOrder(e)' /\ QueueKeeps(e)
  <2>1. /\ flush[e].on # NoHandler => api'[flush[e].on] = api[flush[e].on]
        /\ app[e].posting # NoHandler => api'[app[e].posting] = api[app[e].posting]
    BY <1>1, <1>2
  <2> QED  BY <1>1, <1>2, <2>1, PhoneRests
<1>3. PhoneOrder(d)'
  BY <1>1 DEF PhoneOrder, QueueKeeps, StoreOrder
<1> QED  BY <1>2, <1>3 DEF OrderKeeps

\* A step of a phone that begins no request.
LEMMA PhoneActs ==
  ASSUME IInv, OrderInv, Lasts, NEW d \in Drivers, NEW a \in App, app' = [app EXCEPT ![d] = a],
         \A e \in Drivers : e # d => outbox'[e] = outbox[e] /\ flush'[e] = flush[e],
         a.posting \in {NoHandler, app[d].posting}, flush'[d].on \in {NoHandler, flush[d].on},
         \A g \in Handlers :
           \/ api'[g] = api[g]
           \/ /\ api'[g].at = "idle" /\ g \in {app[d].posting, flush[d].on}
              /\ flush'[d].on # g /\ a.posting # g,
         QueueKeeps(d), StoreOrder(d, a)',
         flush'[d].on # NoHandler /\ outbox[d] # <<>> => Head(outbox'[d]) = Head(outbox[d])
  PROVE  OrderKeeps
<1>1. /\ PhoneTypes /\ app'[d] = a /\ PhoneOrder(d) /\ ApiInv /\ WaitInv /\ PhoneInv
      /\ \A e \in Drivers : flush[e].on \in Handlers \cup {NoHandler} /\ app[e].posting \in Handlers \cup {NoHandler}
  BY DEF IInv, PhoneInv, PhoneTypes, Flush, App, OrderInv
<1>2. \A g \in Handlers : KnowsInv(g)'
  <2>1. ASSUME NEW g \in Handlers, api'[g].at = "idle"
        PROVE  KnowsInv(g)'
    BY <2>1 DEF KnowsInv
  <2> QED  BY <1>1, <2>1, KnowsStays DEF OrderInv
<1>3. \A g \in Handlers : \/ api'[g] = api[g]
                          \/ \A e \in Drivers : e # d => flush[e].on # g /\ app[e].posting # g
  BY <1>1, AppAssumption DEF WaitInv
<1>4. PostOrder(d)'
  BY <1>1, PostLasts DEF PhoneOrder
<1>5. FlushOrder(d)'
  <2>1. flush'[d].on # NoHandler => api'[flush[d].on] = api[flush[d].on]
    BY <1>1
  <2>2. CASE flush'[d].on = NoHandler
    BY <2>2 DEF FlushOrder
  <2>3. CASE flush'[d].on # NoHandler
    BY <1>1, <2>1, <2>3, FlushLasts DEF PhoneOrder
  <2> QED  BY <2>2, <2>3
<1> QED  BY <1>2, <1>3, <1>4, <1>5, PhoneMoves

\* A step of a phone that sends a request nobody waited for.
LEMMA PhoneBegins ==
  ASSUME IInv, OrderInv, Lasts, NEW d \in Drivers, NEW a \in App, app' = [app EXCEPT ![d] = a],
         \A e \in Drivers : e # d => flush'[e] = flush[e], UNCHANGED <<outbox, status, recorded>>,
         NEW h \in Handlers, NEW o \in Orders, NEW k \in Event, api[h].at = "idle",
         api' = [api EXCEPT ![h] = Posted(o, k)],
         Given(o), k \in Later /\ k # "POD" => Told(o, Needs(k)),
         StoreOrder(d, a)', PostOrder(d)', FlushOrder(d)'
  PROVE  OrderKeeps
<1>1. /\ PhoneTypes /\ PhoneOrder(d) /\ ApiInv /\ WaitInv
      /\ \A e \in Drivers : flush[e].on \in Handlers \cup {NoHandler} /\ app[e].posting \in Handlers \cup {NoHandler}
  BY DEF IInv, PhoneInv, PhoneTypes, Flush, App, OrderInv
<1>2. api'[h] = Posted(o, k) /\ \A g \in Handlers : g # h => api'[g] = api[g]
  BY <1>1 DEF ApiInv
<1>3. KnowsInv(h)'
  <2>1. api'[h].at = "load" /\ api'[h].order = o /\ api'[h].event = k
    BY <1>2, PostedRequest
  <2> QED  BY <2>1 DEF KnowsInv, Given, Told, Over, Lasts
<1>4. \A g \in Handlers : KnowsInv(g)'
  BY <1>1, <1>2, <1>3, KnowsStays DEF OrderInv
<1>5. \A e \in Drivers : flush[e].on # h /\ app[e].posting # h
  BY <1>1, AppAssumption DEF WaitInv
<1>6. QueueKeeps(d)
  BY <1>1, QueueStays DEF PhoneOrder, PhoneTypes
<1> QED  BY <1>2, <1>4, <1>5, <1>6, PhoneMoves

\* The fields of the store that its order is about.
LEMMA ShownFields ==
  ASSUME NEW a \in App
  PROVE  /\ \A o \in Orders \cup {NoOrder}, s \in Stage :
              LET b == [a EXCEPT !.active = o, !.stage = s]
              IN  b.active = o /\ b.stage = s /\ b.shot = a.shot /\ b.poll = a.poll
         /\ \A p \in BOOLEAN :
              LET b == [a EXCEPT !.pending = p]
              IN  b.active = a.active /\ b.stage = a.stage /\ b.shot = a.shot /\ b.poll = a.poll
         /\ \A o \in Orders \cup {NoOrder} :
              LET b == [a EXCEPT !.shot = o]
              IN  b.active = a.active /\ b.stage = a.stage /\ b.shot = o /\ b.poll = a.poll
         /\ \A w \in Handlers \cup {NoHandler} :
              LET b == [a EXCEPT !.posting = w]
              IN  b.active = a.active /\ b.stage = a.stage /\ b.shot = a.shot /\ b.poll = a.poll
         /\ \A p \in PollAnswer :
              LET b == [a EXCEPT !.poll = p]
              IN  b.active = a.active /\ b.stage = a.stage /\ b.shot = a.shot /\ b.poll = p
BY DEF App

\* A store without an order has nothing to be behind.
LEMMA ClearedOrder ==
  ASSUME NEW d \in Drivers, NEW a \in App, StoreOrder(d, a)
  PROVE  StoreOrder(d, Cleared(a))
<1>1. NoOrder \in Orders \cup {NoOrder} /\ 1 \in Stage
  BY DEF Stage
<1>2. PICK b : b = Cleared(a)
  OBVIOUS
<1>3. b.active = NoOrder /\ b.shot = a.shot /\ b.poll = a.poll
  BY <1>1, <1>2, ShownFields DEF Cleared
<1> QED  BY <1>2, <1>3 DEF StoreOrder

LEMMA PendingOrder ==
  ASSUME NEW d \in Drivers, NEW a \in App, NEW p \in BOOLEAN, StoreOrder(d, a)
  PROVE  StoreOrder(d, [a EXCEPT !.pending = p])
<1>1. PICK b : b = [a EXCEPT !.pending = p]
  OBVIOUS
<1>2. b.active = a.active /\ b.stage = a.stage /\ b.shot = a.shot /\ b.poll = a.poll
  BY <1>1, ShownFields
<1> QED  BY <1>1, <1>2 DEF StoreOrder

LEMMA PostingOrder ==
  ASSUME NEW d \in Drivers, NEW a \in App, NEW w \in Handlers \cup {NoHandler}, StoreOrder(d, a)
  PROVE  StoreOrder(d, [a EXCEPT !.posting = w])
<1>1. PICK b : b = [a EXCEPT !.posting = w]
  OBVIOUS
<1>2. b.active = a.active /\ b.stage = a.stage /\ b.shot = a.shot /\ b.poll = a.poll
  BY <1>1, ShownFields
<1> QED  BY <1>1, <1>2 DEF StoreOrder

LEMMA PolledOrder ==
  ASSUME NEW d \in Drivers, NEW a \in App, NEW p \in PollAnswer, StoreOrder(d, a), PollOrder(p)
  PROVE  StoreOrder(d, [a EXCEPT !.poll = p])
<1>1. PICK b : b = [a EXCEPT !.poll = p]
  OBVIOUS
<1>2. b.active = a.active /\ b.stage = a.stage /\ b.shot = a.shot /\ b.poll = p
  BY <1>1, ShownFields
<1> QED  BY <1>1, <1>2 DEF StoreOrder

\* The store takes what the server said, and shows no stage that is not behind it.
LEMMA HydratedOrder ==
  ASSUME NEW d \in Drivers, NEW a \in App, NEW p \in PollAnswer, StoreOrder(d, a), PollOrder(p)
  PROVE  StoreOrder(d, Hydrated(a, p))
<1> DEFINE s == IF a.active = p.order /\ a.stage > p.stage THEN a.stage ELSE p.stage
           next == IF p.order # NoOrder
                     THEN [a EXCEPT !.active = p.order, !.stage = s]
                     ELSE IF a.active # NoOrder /\ a.pending THEN a ELSE Cleared(a)
<1>1. PICK b : b = next
  OBVIOUS
<1>2. Hydrated(a, p) = [b EXCEPT !.poll = NoPoll]
  BY <1>1 DEF Hydrated
<1>3. s \in Stage /\ p.order \in Orders \cup {NoOrder} /\ a.stage \in Stage /\ p.stage \in Stage
  BY DEF App, PollAnswer
<1>4. b \in App /\ StoreOrder(d, b)
  <2>1. CASE p.order = NoOrder
    BY <1>1, <2>1, ClearedOrder, ClearedApp
  <2>2. CASE p.order # NoOrder
    <3>1. b = [a EXCEPT !.active = p.order, !.stage = s]
      BY <1>1, <2>2
    <3>2. s >= 2 => \/ p.stage >= 2
                    \/ a.active = p.order /\ a.stage = s
      BY <1>3 DEF Stage
    <3> HIDE DEF s
    <3>3. b \in App /\ b.active = p.order /\ b.stage = s /\ b.shot = a.shot /\ b.poll = a.poll
      <4>1. b \in App
        BY <1>3, <3>1, OrderShown, ZenonT(30)
      <4>2. b.active = p.order /\ b.stage = s /\ b.shot = a.shot /\ b.poll = a.poll
        BY <1>3, <3>1, ShownFields
      <4> QED  BY <4>1, <4>2
    <3>4. s >= 2 /\ p.stage >= 2 => Coming(d, p.order, "ARRIVED_AT_PICKUP") /\ Coming(d, p.order, "PICKED_UP")
      BY <2>2 DEF PollOrder, Coming, Ahead
    <3>5. a.active = p.order /\ a.stage = s =>
            /\ s >= 2 => Coming(d, p.order, "ARRIVED_AT_PICKUP")
            /\ s >= 3 => Coming(d, p.order, "PICKED_UP")
      BY <2>2 DEF StoreOrder
    <3>6. s \in Stage /\ (s >= 3 => s >= 2)
      BY <1>3 DEF Stage
    <3> QED  BY <2>2, <3>2, <3>3, <3>4, <3>5, <3>6 DEF StoreOrder, PollOrder
  <2> QED  BY <2>1, <2>2
<1>5. PollOrder(NoPoll)
  BY DEF PollOrder, NoPoll
<1> HIDE DEF next
<1> QED  BY <1>2, <1>4, <1>5, NoPollIsAnswer, PolledOrder

\* A store that shows what its outbox has, or is just getting.
LEMMA StoreGrows ==
  ASSUME Lasts, NEW d \in Drivers, QueueKeeps(d), NEW a \in App, NEW row, Coming(d, row.order, row.kind)',
         a.active # NoOrder =>
           /\ Given(a.active)
           /\ a.stage >= 2 => \/ Coming(d, a.active, "ARRIVED_AT_PICKUP") \/ a.active \in crossed'
                              \/ row = RowOf(a.active, "ARRIVED_AT_PICKUP")
           /\ a.stage >= 3 => Coming(d, a.active, "PICKED_UP") \/ row = RowOf(a.active, "PICKED_UP"),
         a.shot # NoOrder => Given(a.shot), PollOrder(a.poll)
  PROVE  StoreOrder(d, a)'
<1>1. /\ a.active \in Orders \cup {NoOrder} /\ a.shot \in Orders \cup {NoOrder}
      /\ a.poll.order \in Orders \cup {NoOrder}
      /\ "ARRIVED_AT_PICKUP" \in Event /\ "PICKED_UP" \in Event
  BY Kinds DEF App, PollAnswer
<1>2. PollOrder(a.poll)'
  BY <1>1 DEF PollOrder, Lasts, Told
<1>3. ASSUME NEW e \in Event, a.active \in Orders,
             Coming(d, a.active, e) \/ row = RowOf(a.active, e) \/ a.active \in crossed'
      PROVE  Coming(d, a.active, e)'
  <2>1. CASE Coming(d, a.active, e)
    BY <1>3, <2>1 DEF QueueKeeps
  <2>2. CASE row = RowOf(a.active, e)
    <3>1. row.order = a.active /\ row.kind = e
      BY <2>2 DEF RowOf
    <3> QED  BY <3>1
  <2>3. CASE a.active \in crossed'
    BY <2>3 DEF Coming, Ahead, Told
  <2> QED  BY <1>3, <2>1, <2>2, <2>3
<1>4. a.active # NoOrder => /\ Given(a.active)'
                            /\ a.stage >= 2 => Coming(d, a.active, "ARRIVED_AT_PICKUP")'
                            /\ a.stage >= 3 => Coming(d, a.active, "PICKED_UP")'
  BY <1>1, <1>3 DEF Lasts
<1> QED  BY <1>1, <1>2, <1>4 DEF StoreOrder, Lasts

\* A screen queues a row that is behind what it needs.
LEMMA RowShown ==
  ASSUME IInv, OrderInv, Lasts, NEW d \in Drivers, NEW row \in Row, NEW a \in App,
         outbox' = [outbox EXCEPT ![d] = Enqueued(d, row)], app' = [app EXCEPT ![d] = a], UNCHANGED flush,
         a.posting \in {NoHandler, app[d].posting},
         \A g \in Handlers :
           api'[g] = api[g] \/ (api'[g].at = "idle" /\ g = app[d].posting /\ a.posting = NoHandler),
         Given(row.order), row.kind \in Later => Coming(d, row.order, Needs(row.kind)),
         a.active # NoOrder =>
           /\ Given(a.active)
           /\ a.stage >= 2 => \/ Coming(d, a.active, "ARRIVED_AT_PICKUP") \/ a.active \in crossed'
                              \/ row = RowOf(a.active, "ARRIVED_AT_PICKUP")
           /\ a.stage >= 3 => Coming(d, a.active, "PICKED_UP") \/ row = RowOf(a.active, "PICKED_UP"),
         a.shot # NoOrder => Given(a.shot), PollOrder(a.poll)
  PROVE  OrderKeeps
<1>1. PhoneTypes /\ PhoneOrder(d) /\ WaitInv /\ outbox[d] \in Seq(Row)
  BY DEF IInv, PhoneInv, PhoneTypes, OrderInv
<1>2. outbox'[d] = Enqueued(d, row) /\ \A e \in Drivers : e # d => outbox'[e] = outbox[e]
  BY <1>1 DEF PhoneTypes
<1>3. /\ QueueKeeps(d) /\ Coming(d, row.order, row.kind)'
      /\ outbox[d] # <<>> => Head(outbox'[d]) = Head(outbox[d])
  BY <1>1, <1>2, QueueGrows DEF PhoneOrder
<1>4. StoreOrder(d, a)'
  BY <1>3, StoreGrows
<1>5. \A g \in Handlers : g = app[d].posting => flush[d].on # g /\ g # NoHandler
  BY <1>1, AppAssumption DEF WaitInv
<1> QED  BY <1>2, <1>3, <1>4, <1>5, PhoneActs

\* A screen changes the store alone.
LEMMA StoreShown ==
  ASSUME IInv, OrderInv, Lasts, NEW d \in Drivers, NEW a \in App, app' = [app EXCEPT ![d] = a],
         UNCHANGED <<outbox, flush>>, a.posting \in {NoHandler, app[d].posting},
         \A g \in Handlers :
           api'[g] = api[g] \/ (api'[g].at = "idle" /\ g = app[d].posting /\ a.posting = NoHandler),
         StoreOrder(d, a) \/ StoreOrder(d, a)'
  PROVE  OrderKeeps
<1>1. PhoneOrder(d) /\ WaitInv /\ outbox[d] \in Seq(Row)
  BY DEF IInv, PhoneInv, PhoneTypes, OrderInv
<1>2. QueueKeeps(d)
  BY <1>1, QueueStays DEF PhoneOrder
<1>3. StoreOrder(d, a)'
  BY <1>2, StoreLasts
<1>4. \A g \in Handlers : g = app[d].posting => flush[d].on # g /\ g # NoHandler
  BY <1>1, AppAssumption DEF WaitInv
<1> QED  BY <1>2, <1>3, <1>4, PhoneActs

LEMMA ScreensOrder ==
  ASSUME IInv, OrderInv, Lasts, Remembers, NEW d \in Drivers, Screens(d)
  PROVE  OrderKeeps
<1>0. /\ app[d] \in App /\ app[d].active \in Orders \cup {NoOrder} /\ app[d].stage \in Stage
      /\ app[d].shot \in Orders \cup {NoOrder} /\ app[d].posting \in Handlers \cup {NoHandler}
      /\ NoOrder \in Orders \cup {NoOrder} /\ NoHandler \in Handlers \cup {NoHandler}
      /\ TRUE \in BOOLEAN /\ 1 \in Stage /\ 2 \in Stage /\ 3 \in Stage /\ 4 \in Stage
      /\ app \in [Drivers -> App] /\ status \in [Orders -> Status] /\ api \in [Handlers -> Request]
  BY DEF IInv, RowInv, RowTypeOK, ApiInv, PhoneInv, PhoneTypes, App, Stage
<1>s. StoreOrder(d, app[d]) /\ PostOrder(d)
  BY DEF OrderInv, PhoneOrder
<1>a. PICK x \in App : x = app[d]
  BY <1>0
<1>1. ASSUME NEW o \in Orders, Accept(d, o)
      PROVE  OrderKeeps
  <2>1. PICK a : a = [x EXCEPT !.active = o, !.stage = 1]
    OBVIOUS
  <2>2. a \in App /\ a.posting = x.posting
    <3>1. o \in Orders \cup {NoOrder} /\ 1 \in Stage /\ x \in App
      BY <1>0, <1>a
    <3> QED  BY <2>1, <3>1, OrderShown, ZenonT(30)
  <2>3. a.active = o /\ a.stage = 1 /\ a.shot = x.shot /\ a.poll = x.poll
    BY <1>0, <1>a, <2>1, ShownFields
  <2>4. app' = [app EXCEPT ![d] = a] /\ UNCHANGED <<outbox, flush, api, recorded>>
    BY <1>1, <1>a, <2>1 DEF Accept, apiVars
  <2>5. status' = [status EXCEPT ![o] = "ASSIGNED"]
    BY <1>1 DEF Accept, transitionOrder
  <2>6. Given(o)'
    BY <1>0, <2>5 DEF Given, Unassigned
  <2>7. a.shot # NoOrder => Given(a.shot)'
    BY <1>0, <1>a, <1>s, <2>3 DEF StoreOrder, Lasts
  <2>8. PollOrder(a.poll)'
    <3>1. a.poll.order \in Orders \cup {NoOrder} /\ PollOrder(a.poll)
      BY <1>a, <1>s, <2>3 DEF App, PollAnswer, StoreOrder
    <3> QED  BY <3>1 DEF PollOrder, Lasts, Told
  <2>9. StoreOrder(d, a)'
    BY <2>3, <2>6, <2>7, <2>8 DEF StoreOrder
  <2> QED  BY <1>a, <2>2, <2>4, <2>9, StoreShown
<1>2. ASSUME NEW o \in Orders, Assign(d, o)
      PROVE  OrderKeeps
  <2>1. UNCHANGED <<outbox, flush, api, app>> /\ app' = [app EXCEPT ![d] = x]
    BY <1>0, <1>a, <1>2 DEF Assign, apiVars, appVars
  <2> QED  BY <1>a, <1>s, <2>1, StoreShown
<1>3. CASE QueueArrivalPhoto(d)
  <2> DEFINE p == [x EXCEPT !.shot = x.active]
  <2>1. /\ x.active \in Orders /\ x.stage = 1
        /\ outbox' = [outbox EXCEPT ![d] = Enqueued(d, PhotoOf(x.active))]
        /\ app' = [app EXCEPT ![d] = [p EXCEPT !.pending = TRUE]]
        /\ UNCHANGED <<flush, api>>
    BY <1>0, <1>3, <1>a DEF QueueArrivalPhoto, enqueueEvent, apiVars, PhotoOf
  <2>2. p \in App /\ p.posting = x.posting
    BY <1>0, <1>a, ShotApp
  <2>3. p.active = x.active /\ p.stage = x.stage /\ p.shot = x.active /\ p.poll = x.poll
    BY <1>0, <1>a, ShownFields
  <2> HIDE DEF p
  <2>4. PICK a : a = [p EXCEPT !.pending = TRUE]
    OBVIOUS
  <2>5. a \in App /\ a.posting = x.posting
    BY <1>0, <2>2, <2>4, PendingApp
  <2>6. a.active = x.active /\ a.stage = 1 /\ a.shot = x.active /\ a.poll = x.poll
    BY <1>0, <2>1, <2>2, <2>3, <2>4, ShownFields
  <2>7. Given(x.active) /\ PollOrder(a.poll)
    BY <1>a, <1>s, <2>1, <2>6, RowAssumption DEF StoreOrder
  <2>8. PICK row : row = PhotoOf(x.active)
    OBVIOUS
  <2>9. row \in Row /\ row.order = x.active /\ row.kind \notin Later
    BY <2>1, <2>8, Kinds DEF PhotoOf, Row, Later
  <2>10. ~(a.stage >= 2) /\ ~(a.stage >= 3)
    BY <2>6
  <2> QED  BY <1>a, <2>1, <2>4, <2>5, <2>6, <2>7, <2>8, <2>9, <2>10, RowShown
<1>4. CASE ClaimArrival(d)
  <2> DEFINE p == Advanced(x, 2)
             s == IF x.active # NoOrder /\ 2 > x.stage THEN 2 ELSE x.stage
             row == RowOf(x.shot, "ARRIVED_AT_PICKUP")
  <2>1. /\ x.shot \in Orders /\ x.shot # NoOrder
        /\ outbox' = [outbox EXCEPT ![d] = Enqueued(d, row)]
        /\ app' = [app EXCEPT ![d] = [p EXCEPT !.shot = NoOrder]]
        /\ UNCHANGED <<flush, api>>
    BY <1>0, <1>4, <1>a DEF ClaimArrival, enqueueEvent, apiVars, RowOf
  <2>2. p \in App /\ p.posting = x.posting
    BY <1>0, <1>a, AdvancedApp
  <2>3. p.active = x.active /\ p.stage = s /\ p.poll = x.poll
    BY <1>0, <1>a DEF Advanced, App
  <2>4. s >= 3 => x.stage >= 3
    BY <1>0, <1>a DEF Stage
  <2> HIDE DEF p, s
  <2>5. PICK a : a = [p EXCEPT !.shot = NoOrder]
    OBVIOUS
  <2>6. a \in App /\ a.posting = x.posting
    BY <1>0, <2>2, <2>5, ShotApp
  <2>7. a.active = x.active /\ a.stage = s /\ a.shot = NoOrder /\ a.poll = x.poll
    BY <1>0, <2>2, <2>3, <2>5, ShownFields
  <2>8. /\ row \in Row /\ row.order = x.shot /\ row.kind \notin Later
    BY <2>1, Kinds DEF RowOf, Row, Later
  <2>9. /\ Given(x.shot) /\ PollOrder(a.poll)
        /\ x.active # NoOrder => Given(x.active) /\ (x.stage >= 3 => Coming(d, x.active, "PICKED_UP"))
    BY <1>a, <1>s, <2>1, <2>7 DEF StoreOrder
  <2>10. \/ x.active = NoOrder \/ row = RowOf(x.active, "ARRIVED_AT_PICKUP")
         \/ Coming(d, x.active, "ARRIVED_AT_PICKUP") \/ x.active \in crossed'
    <3>1. CASE x.active = NoOrder \/ x.active = x.shot
      BY <3>1
    <3>2. CASE x.active # NoOrder /\ x.active # x.shot /\ x.stage >= 2
      BY <1>a, <1>s, <3>2 DEF StoreOrder
    <3>3. CASE x.active # NoOrder /\ x.active # x.shot /\ ~(x.stage >= 2)
      <4>1. app'[d].active = x.active /\ app'[d].shot = NoOrder /\ app'[d].stage = s
        BY <1>0, <2>1, <2>5, <2>7
      <4>2. s > x.stage
        BY <1>0, <1>a, <3>3 DEF s, Stage
      <4>3. Crosses(d)
        BY <1>a, <2>1, <3>3, <4>1, <4>2 DEF Crosses
      <4> QED  BY <1>a, <4>3 DEF Remembers
    <3> QED  BY <3>1, <3>2, <3>3
  <2> HIDE DEF row
  <2> QED  BY <1>a, <2>1, <2>4, <2>5, <2>6, <2>7, <2>8, <2>9, <2>10, RowShown
<1>5. CASE Advance(d)
  <2>1. PICK n \in {3, 4} : n = x.stage + 1 /\ x.stage \in {2, 3} /\ x.active # NoOrder /\ x.active \in Orders
    BY <1>0, <1>5, <1>a DEF Advance
  <2>2. PICK k : k = STAGE_ORDER[n]
    OBVIOUS
  <2>3. k = IF n = 3 THEN "PICKED_UP" ELSE "ARRIVED_AT_DROPOFF"
    BY <2>1, <2>2 DEF STAGE_ORDER
  <2>4. PICK a : a = Advanced(x, n)
    OBVIOUS
  <2>5. PICK row : row = RowOf(x.active, k)
    OBVIOUS
  <2>6. /\ outbox' = [outbox EXCEPT ![d] = Enqueued(d, row)] /\ app' = [app EXCEPT ![d] = a]
        /\ UNCHANGED <<flush, api>>
    BY <1>5, <1>a, <2>1, <2>2, <2>4, <2>5 DEF Advance, enqueueEvent, apiVars, RowOf
  <2>7. a \in App /\ a.posting = x.posting
    <3>1. n \in Stage
      BY <1>0, <2>1
    <3> QED  BY <1>a, <2>4, <3>1, AdvancedApp
  <2>8. a.active = x.active /\ a.stage = n /\ a.shot = x.shot /\ a.poll = x.poll
    BY <1>a, <2>1, <2>4 DEF Advanced, App
  <2>9. /\ row \in Row /\ row.order = x.active /\ row.kind = k
    BY <2>1, <2>3, <2>5, Kinds DEF RowOf, Row
  <2>10. /\ Given(x.active) /\ PollOrder(x.poll) /\ (x.shot # NoOrder => Given(x.shot))
         /\ Coming(d, x.active, "ARRIVED_AT_PICKUP")
         /\ n = 4 => Coming(d, x.active, "PICKED_UP")
    BY <1>a, <1>s, <2>1 DEF StoreOrder
  <2>11. Coming(d, x.active, Needs(k))
    BY <2>1, <2>3, <2>10 DEF Needs
  <2>12. n = 3 => row = RowOf(x.active, "PICKED_UP")
    BY <2>3, <2>5
  <2> QED  BY <1>a, <2>1, <2>6, <2>7, <2>8, <2>9, <2>10, <2>11, <2>12, RowShown
<1>6. ASSUME NEW h \in Handlers, SubmitPod(d, h)
      PROVE  OrderKeeps
  <2>1. PICK a : a = [x EXCEPT !.posting = h]
    OBVIOUS
  <2>2. a \in App /\ a.posting = h
    BY <1>a, <2>1, PostingApp
  <2>3. /\ x.active \in Orders /\ x.active # NoOrder /\ x.stage = 4 /\ api[h].at = "idle"
        /\ api' = [api EXCEPT ![h] = Posted(x.active, "POD")] /\ app' = [app EXCEPT ![d] = a]
        /\ UNCHANGED <<outbox, flush, status, recorded>>
    BY <1>0, <1>6, <1>a, <2>1, IdleRequest DEF SubmitPod, AtTheDoor, rowVars
  <2>4. Given(x.active) /\ Coming(d, x.active, "PICKED_UP")
    BY <1>a, <1>s, <2>3 DEF StoreOrder
  <2>5. QueueKeeps(d)
    BY QueueStays, <2>3 DEF OrderInv, PhoneOrder, IInv, PhoneInv, PhoneTypes
  <2>6. StoreOrder(d, a)'
    <3>1. StoreOrder(d, a)
      BY <1>a, <1>s, <2>1, PostingOrder
    <3> QED  BY <2>2, <2>5, <3>1, StoreLasts
  <2>7. PostOrder(d)'
    <3>1. app'[d].posting = h /\ api'[h] = Posted(x.active, "POD")
      BY <1>0, <2>2, <2>3
    <3>2. api'[h].order = x.active
      BY <2>3, <3>1, Kinds, PostedRequest
    <3>3. Coming(d, x.active, "PICKED_UP")'
      BY <2>3, <2>4, <2>5, Kinds DEF QueueKeeps
    <3> QED  BY <3>1, <3>2, <3>3 DEF PostOrder
  <2>8. FlushOrder(d)'
    <3>1. \A g \in Handlers : g # h => api'[g] = api[g]
      BY <1>0, <2>3
    <3>2. flush[d].on # NoHandler => flush[d].on \in Handlers /\ flush[d].on # h
      BY <2>3 DEF IInv, PhoneInv, PhoneTypes, Flush, WaitInv
    <3> QED  BY <2>3, <3>1, <3>2, FlushLasts DEF IInv, OrderInv, PhoneOrder
  <2> QED  BY <2>2, <2>3, <2>4, <2>6, <2>7, <2>8, Kinds, PhoneBegins
<1>7. ASSUME NEW o \in Orders, PodQueued(d, o), UNCHANGED flush, Given(o), Coming(d, o, "PICKED_UP"),
             \A g \in Handlers : api'[g] = api[g] \/ (api'[g].at = "idle" /\ g = x.posting)
      PROVE  OrderKeeps
  <2> DEFINE p == [Cleared(x) EXCEPT !.posting = NoHandler]
  <2>1. p \in App /\ p.posting = NoHandler /\ StoreOrder(d, p)
    BY <1>0, <1>a, <1>s, ClearedApp, PostingApp, ClearedOrder, PostingOrder
  <2>2. p.active = NoOrder
    BY <1>a DEF Cleared, App
  <2>3. PICK b : b = p
    OBVIOUS
  <2>4. PICK a : a = [b EXCEPT !.pending = TRUE]
    OBVIOUS
  <2>5. a \in App /\ a.posting = NoHandler
    BY <1>0, <2>1, <2>3, <2>4, PendingApp
  <2>6. a.active = NoOrder /\ a.shot = b.shot /\ a.poll = b.poll
    BY <1>0, <2>1, <2>2, <2>3, <2>4, ShownFields
  <2>7. PollOrder(a.poll) /\ (a.shot # NoOrder => Given(a.shot))
    BY <2>1, <2>3, <2>6 DEF StoreOrder
  <2>8. PICK row : row = RowOf(o, "POD")
    OBVIOUS
  <2>9. app' = [app EXCEPT ![d] = a] /\ outbox' = [outbox EXCEPT ![d] = Enqueued(d, row)]
    BY <1>7, <1>a, <2>3, <2>4, <2>8 DEF PodQueued, enqueueEvent, RowOf
  <2>10. row \in Row /\ row.order = o /\ row.kind = "POD"
    BY <2>8, Kinds DEF RowOf, Row
  <2>11. Coming(d, row.order, Needs(row.kind))
    BY <1>7, <2>10 DEF Needs
  <2> QED  BY <1>7, <1>a, <2>5, <2>6, <2>7, <2>9, <2>10, <2>11, RowShown
<1>8. x.posting # NoHandler => /\ x.posting \in Handlers /\ api[x.posting].order \in Orders
                               /\ Given(api[x.posting].order) /\ Coming(d, api[x.posting].order, "PICKED_UP")
  BY <1>0, <1>a, <1>s DEF PostOrder, IInv, WaitInv, ApiInv, RequestInv, OrderInv, KnowsInv
<1>9. CASE PodAnswered(d)
  <2>1. x.posting # NoHandler /\ api' = [api EXCEPT ![x.posting] = Idle] /\ UNCHANGED flush
    BY <1>9, <1>a DEF PodAnswered
  <2>2. \A g \in Handlers : api'[g] = api[g] \/ (api'[g].at = "idle" /\ g = x.posting)
    BY <1>0, <1>8, <2>1, IdleRequest
  <2>3. CASE PodQueued(d, api[x.posting].order)
    BY <1>7, <1>8, <2>1, <2>2, <2>3
  <2>4. CASE app' = [app EXCEPT ![d] = [Cleared(@) EXCEPT !.posting = NoHandler]] /\ UNCHANGED outbox
    <3>1. PICK a : a = [Cleared(x) EXCEPT !.posting = NoHandler]
      OBVIOUS
    <3>2. a \in App /\ a.posting = NoHandler /\ StoreOrder(d, a)
      BY <1>0, <1>a, <1>s, <3>1, ClearedApp, PostingApp, ClearedOrder, PostingOrder
    <3>3. app' = [app EXCEPT ![d] = a]
      BY <1>a, <2>4, <3>1
    <3> QED  BY <1>a, <2>1, <2>2, <2>4, <3>2, <3>3, StoreShown
  <2> QED  BY <1>9, <1>a, <2>3, <2>4 DEF PodAnswered
<1>10. CASE PodLost(d)
  <2>1. UNCHANGED <<flush, api>>
    BY <1>10 DEF PodLost, apiVars
  <2>2. CASE x.posting # NoHandler /\ PodQueued(d, api[x.posting].order)
    BY <1>7, <1>8, <2>1, <2>2
  <2>3. CASE AtTheDoor(d) /\ PodQueued(d, x.active)
    <3>1. x.active \in Orders /\ Given(x.active) /\ Coming(d, x.active, "PICKED_UP")
      BY <1>0, <1>a, <1>s, <2>3 DEF AtTheDoor, StoreOrder
    <3> QED  BY <1>7, <2>1, <2>3, <3>1
  <2> QED  BY <1>10, <1>a, <2>2, <2>3 DEF PodLost
<1>11. CASE FailTrip(d)
  <2>1. PICK a : a = Cleared(x)
    OBVIOUS
  <2>2. a \in App /\ a.posting = x.posting /\ StoreOrder(d, a)
    BY <1>0, <1>a, <1>s, <2>1, ClearedApp, ClearedOrder
  <2>3. app' = [app EXCEPT ![d] = a] /\ UNCHANGED <<outbox, flush, api>>
    BY <1>11, <1>a, <2>1 DEF FailTrip, apiVars
  <2> QED  BY <1>a, <2>2, <2>3, StoreShown
<1> QED  BY <1>1, <1>2, <1>3, <1>4, <1>5, <1>6, <1>9, <1>10, <1>11 DEF Screens


\* The outbox, the poll and the restart.
LEMMA OutboxOrder ==
  ASSUME IInv, OrderInv, Lasts, NEW d \in Drivers, Outbox(d) \/ Poll(d) \/ Hydrate(d) \/ Restart(d)
  PROVE  OrderKeeps
<1>0. /\ PhoneTypes /\ WaitInv /\ ApiInv /\ FlushInv(d) /\ flush[d] \in Flush /\ outbox[d] \in Seq(Row)
      /\ app[d].poll \in PollAnswer /\ flush \in [Drivers -> Flush] /\ app \in [Drivers -> App]
      /\ api \in [Handlers -> Request] /\ TRUE \in BOOLEAN
  BY DEF IInv, ApiInv, PhoneInv, PhoneTypes, App
<1>h. flush[d].left > 0 => Head(outbox[d]) \in Row /\ outbox[d] # <<>>
  BY <1>0 DEF FlushInv, Flush
<1>s. QueueOrder(d) /\ StoreOrder(d, app[d]) /\ PostOrder(d) /\ FlushOrder(d)
  BY DEF OrderInv, PhoneOrder
<1>a. PICK x \in App : x = app[d]
  BY <1>0
<1>1. ASSUME NEW a \in App, app' = [app EXCEPT ![d] = a], StoreOrder(d, a), a.posting \in {NoHandler, x.posting},
             UNCHANGED outbox, flush'[d].on \in {NoHandler, flush[d].on},
             \A e \in Drivers : e # d => flush'[e] = flush[e],
             \A g \in Handlers :
               api'[g] = api[g] \/ (api'[g].at = "idle" /\ g = flush[d].on /\ flush'[d].on = NoHandler)
      PROVE  OrderKeeps
  <2>1. QueueKeeps(d)
    BY <1>0, <1>1, <1>s, QueueStays
  <2>2. StoreOrder(d, a)'
    BY <1>1, <2>1, StoreLasts
  <2>3. \A g \in Handlers : g = flush[d].on => g # NoHandler /\ x.posting # g
    BY <1>0, <1>a, AppAssumption DEF WaitInv
  <2> QED  BY <1>1, <1>a, <2>1, <2>2, <2>3, PhoneActs
<1>2. ASSUME NEW a \in App, RowDone(d, a), StoreOrder(d, a), a.posting = x.posting, flush[d].left > 0,
             NEW row, row = Head(outbox[d]), Landed(row)',
             \A g \in Handlers : api'[g] = api[g] \/ (api'[g].at = "idle" /\ g = flush[d].on)
      PROVE  OrderKeeps
  <2>1. outbox'[d] = Tail(outbox[d]) /\ \A e \in Drivers : e # d => outbox'[e] = outbox[e]
    BY <1>0, <1>2 DEF RowDone, PhoneTypes
  <2>2. QueueKeeps(d)
    BY <1>0, <1>2, <1>h, <1>s, <2>1, QueuePops
  <2>3. flush'[d].on = NoHandler /\ \A e \in Drivers : e # d => flush'[e] = flush[e]
    <3>1. PICK f : f = [left |-> flush[d].left - 1, on |-> NoHandler]
      OBVIOUS
    <3>2. flush' = [flush EXCEPT ![d] = f] /\ f.on = NoHandler
      BY <1>2, <3>1 DEF RowDone
    <3> QED  BY <1>0, <3>2
  <2>4. PICK b \in App : app' = [app EXCEPT ![d] = b] /\ b.posting = x.posting /\ StoreOrder(d, b)
    <3>1. PICK p : p = IF flush[d].left = 1 THEN Len(outbox[d]) > 1 ELSE a.pending
      OBVIOUS
    <3>2. p \in BOOLEAN
      <4>1. (Len(outbox[d]) > 1) \in BOOLEAN /\ a.pending \in BOOLEAN
        BY <1>0 DEF App
      <4> QED  BY <3>1, <4>1, Zenon
    <3>3. PICK b : b = [a EXCEPT !.pending = p]
      OBVIOUS
    <3>4. b \in App /\ b.posting = x.posting
      BY <1>2, <3>2, <3>3, PendingApp
    <3>5. StoreOrder(d, b)
      BY <1>2, <3>2, <3>3, PendingOrder
    <3>6. app' = [app EXCEPT ![d] = b]
      BY <1>2, <3>1, <3>3 DEF RowDone
    <3> QED  BY <3>4, <3>5, <3>6
  <2>5. StoreOrder(d, b)'
    BY <2>2, <2>4, StoreLasts
  <2>6. \A g \in Handlers : g = flush[d].on => g # NoHandler /\ x.posting # g
    BY <1>0, <1>a, AppAssumption DEF WaitInv
  <2> QED  BY <1>2, <1>a, <2>1, <2>2, <2>3, <2>4, <2>5, <2>6, PhoneActs
<1>3. PICK y : y = [x EXCEPT !.pending = TRUE]
  OBVIOUS
<1>4. y \in App /\ y.posting = x.posting /\ StoreOrder(d, y)
  BY <1>0, <1>a, <1>s, <1>3, PendingApp, PendingOrder
<1>5. CASE StartFlush(d)
  <2>1. flush[d].on = NoHandler
    BY <1>0, <1>5 DEF StartFlush, FlushInv, Flush
  <2>2. /\ flush'[d].on = flush[d].on /\ \A e \in Drivers : e # d => flush'[e] = flush[e]
        /\ UNCHANGED <<outbox, app, api>>
    BY <1>0, <1>5 DEF StartFlush, Flush, apiVars
  <2>3. app' = [app EXCEPT ![d] = x]
    BY <1>0, <1>a, <2>2
  <2> QED  BY <1>1, <1>a, <1>s, <2>2, <2>3
<1>6. ASSUME FlushStops(d),
             \A g \in Handlers : api'[g] = api[g] \/ (api'[g].at = "idle" /\ g = flush[d].on)
      PROVE  OrderKeeps
  <2>1. /\ flush'[d].on = NoHandler /\ \A e \in Drivers : e # d => flush'[e] = flush[e]
        /\ UNCHANGED outbox /\ app' = [app EXCEPT ![d] = y]
    BY <1>0, <1>3, <1>6, <1>a, NoFlushIsFlush DEF FlushStops
  <2> QED  BY <1>1, <1>4, <1>6, <2>1
<1>7. CASE SendPhoto(d)
  <2>1. PICK row : row = Head(outbox[d])
    OBVIOUS
  <2>2. /\ flush[d].left > 0 /\ row.kind = Photo /\ RowDone(d, x) /\ UNCHANGED api
        /\ photos' = photos \cup {row.order}
    BY <1>7, <1>a, <2>1 DEF SendPhoto, Sending, apiVars
  <2>3. Landed(row)'
    BY <2>2 DEF Landed
  <2> QED  BY <1>2, <1>a, <1>s, <2>1, <2>2, <2>3
<1>8. CASE RowAnswered(d)
  <2>1. PICK r : r = api[flush[d].on]
    OBVIOUS
  <2>2. PICK row : row = Head(outbox[d])
    OBVIOUS
  <2>3. /\ flush[d].on \in Handlers /\ flush[d].on # NoHandler /\ r.at = "answer"
        /\ api' = [api EXCEPT ![flush[d].on] = Idle] /\ UNCHANGED <<recorded, status>>
    BY <1>0, <1>8, <2>1 DEF RowAnswered, Flush, rowVars
  <2>4. \A g \in Handlers : api'[g] = api[g] \/ (api'[g].at = "idle" /\ g = flush[d].on)
    BY <1>0, <2>3, IdleRequest
  <2>5. /\ flush[d].left > 0 /\ row.kind # Photo /\ row.order = r.order /\ row.kind = r.event
        /\ r.event = "POD" /\ r.code = 409 => Over(r.order) \/ r.order \in crossed
    BY <1>0, <1>s, <2>1, <2>2, <2>3 DEF FlushInv, FlushOrder, RowOf
  <2>6. /\ r.code = 200 => r.event \in recorded[r.order]
        /\ r.code = 409 /\ r.event # "POD" => Told(r.order, r.event)
    BY <2>1, <2>3 DEF OrderInv, KnowsInv
  <2>7. r.code \in {200, 409} => Landed(row)'
    <3>1. r.order \in Orders
      BY <1>0, <2>1, <2>3 DEF ApiInv, RequestInv
    <3> QED  BY <2>3, <2>5, <2>6, <3>1 DEF Landed, Told, Over, Lasts
  <2>8. CASE FlushStops(d)
    BY <1>6, <2>4, <2>8
  <2>9. ASSUME NEW a \in {x, Cleared(x)}, RowDone(d, a), r.code \in {200, 409}
        PROVE  OrderKeeps
    <3>1. a \in App /\ a.posting = x.posting /\ StoreOrder(d, a)
      BY <1>a, <1>s, ClearedApp, ClearedOrder
    <3> QED  BY <1>2, <2>2, <2>4, <2>5, <2>7, <2>9, <3>1
  <2> QED  BY <1>8, <1>a, <2>1, <2>8, <2>9 DEF RowAnswered
<1>9. CASE RowLost(d)
  <2>1. FlushStops(d) /\ UNCHANGED api
    BY <1>9 DEF RowLost, apiVars
  <2> QED  BY <1>6, <2>1
<1>10. ASSUME NEW h \in Handlers, SendRow(d, h)
       PROVE  OrderKeeps
  <2>1. PICK row : row = Head(outbox[d])
    OBVIOUS
  <2>2. /\ flush[d].left > 0 /\ row.kind # Photo /\ api[h].at = "idle"
        /\ api' = [api EXCEPT ![h] = Posted(row.order, row.kind)]
        /\ flush' = [flush EXCEPT ![d].on = h]
        /\ UNCHANGED <<outbox, app, status, recorded>>
    BY <1>10, <2>1, IdleRequest DEF SendRow, Sending, rowVars
  <2>3. row.order \in Orders /\ row.kind \in Event /\ outbox[d][1] = row /\ 1 \in 1 .. Len(outbox[d])
        /\ row = RowOf(row.order, row.kind)
    BY <1>0, <1>h, <2>1, <2>2 DEF Row, RowOf
  <2>4. Given(row.order) /\ (row.kind \in Later => Told(row.order, Needs(row.kind)))
    <3>1. Given(row.order) /\ (row.kind \in Later => Ahead(d, row.order, Needs(row.kind), 1))
      BY <1>s, <2>3 DEF QueueOrder
    <3> QED  BY <3>1 DEF Ahead
  <2>5. QueueKeeps(d)
    BY <1>0, <1>s, <2>2, QueueStays
  <2>6. StoreOrder(d, x)'
    BY <1>a, <1>s, <2>5, StoreLasts
  <2>7. app' = [app EXCEPT ![d] = x]
    BY <1>0, <1>a, <2>2
  <2>8. PostOrder(d)'
    <3>1. \A g \in Handlers : g # h => api'[g] = api[g]
      BY <1>0, <2>2
    <3>2. x.posting # NoHandler => x.posting \in Handlers /\ x.posting # h
      BY <1>0, <1>a, <2>2 DEF WaitInv, App
    <3>3. PhoneInv /\ app'[d].posting = x.posting
      BY <1>a, <2>2 DEF IInv
    <3> QED  BY <1>0, <1>a, <1>s, <2>5, <3>1, <3>2, <3>3, PostLasts
  <2>9. FlushOrder(d)'
    <3>1. flush'[d].on = h /\ api'[h] = Posted(row.order, row.kind)
      BY <1>0, <2>2 DEF Flush
    <3>2. api'[h].order = row.order /\ api'[h].event = row.kind /\ api'[h].at = "load"
      BY <2>3, <3>1, PostedRequest
    <3>3. row.kind = "POD" => Told(row.order, "PICKED_UP")
      BY <2>4 DEF Later, Needs
    <3>4. row.kind = "POD" => Told(row.order, "PICKED_UP")'
      BY <2>2, <2>3, <3>3 DEF Told, Over, Lasts
    <3>5. PICK r : r = api'[flush'[d].on]
      OBVIOUS
    <3>6. Head(outbox'[d]) = RowOf(r.order, r.event) /\ r.order = row.order /\ r.event = row.kind /\ r.at = "load"
      BY <2>1, <2>2, <2>3, <3>1, <3>2, <3>5
    <3> QED  BY <3>4, <3>5, <3>6 DEF FlushOrder, RowOf
  <2>10. \A e \in Drivers : e # d => flush'[e] = flush[e]
    BY <1>0, <2>2
  <2> QED  BY <2>2, <2>3, <2>4, <2>6, <2>7, <2>8, <2>9, <2>10, PhoneBegins
<1>11. ASSUME NEW p \in PollAnswer, PollOrder(p),
              \/ app' = [app EXCEPT ![d] = Hydrated(@, p)]
              \/ app' = [app EXCEPT ![d].poll = p],
              UNCHANGED <<outbox, flush, api>>
       PROVE  OrderKeeps
  <2>1. CASE app' = [app EXCEPT ![d] = Hydrated(@, p)]
    <3>1. PICK a : a = Hydrated(x, p)
      OBVIOUS
    <3>2. a \in App /\ a.posting = x.posting /\ StoreOrder(d, a)
      BY <1>11, <1>a, <1>s, <3>1, HydratedApp, HydratedOrder
    <3>3. app' = [app EXCEPT ![d] = a]
      BY <1>a, <2>1, <3>1
    <3> QED  BY <1>1, <1>11, <3>2, <3>3
  <2>2. CASE app' = [app EXCEPT ![d].poll = p]
    <3>1. PICK a : a = [x EXCEPT !.poll = p]
      OBVIOUS
    <3>2. a \in App /\ a.posting = x.posting /\ StoreOrder(d, a)
      BY <1>11, <1>a, <1>s, <3>1, PolledApp, PolledOrder
    <3>3. app' = [app EXCEPT ![d] = a]
      BY <1>a, <2>2, <3>1
    <3> QED  BY <1>1, <1>11, <3>2, <3>3
  <2> QED  BY <1>11, <2>1, <2>2
<1>12. CASE Poll(d)
  <2>1. UNCHANGED <<outbox, flush, api>>
    BY <1>12 DEF Poll, apiVars
  <2>2. PICK p \in Answers(d) : \/ app' = [app EXCEPT ![d] = Hydrated(@, p)]
                                \/ app' = [app EXCEPT ![d].poll = p]
    BY <1>12 DEF Poll
  <2>3. p \in PollAnswer /\ PollOrder(p)
    <3>1. PICK n : n = [NoPoll EXCEPT !.got = TRUE]
      OBVIOUS
    <3>2. n \in PollAnswer /\ PollOrder(n)
      BY <3>1, NoPollIsAnswer DEF PollAnswer, PollOrder, NoPoll
    <3>3. ASSUME NEW o \in Orders, status[o] \in CountedActive, p = [got |-> TRUE, order |-> o, stage |-> serverStage(o)]
          PROVE  p \in PollAnswer /\ PollOrder(p)
      <4>1. serverStage(o) \in {1, 3} /\ (serverStage(o) = 3 => status[o] = "PICKED_UP")
        BY DEF serverStage
      <4>2. p \in PollAnswer /\ p.order = o /\ p.stage = serverStage(o)
        BY <3>3, <4>1 DEF PollAnswer, Stage
      <4>3. Given(o)
        BY <3>3 DEF Given, CountedActive, Unassigned
      <4>4. Heard(o)
        BY DEF OrderInv, HeardInv
      <4>5. p.stage >= 2 => Told(o, "ARRIVED_AT_PICKUP") /\ Told(o, "PICKED_UP")
        BY <4>1, <4>2, <4>4 DEF Heard, Told
      <4> QED  BY <4>2, <4>3, <4>5 DEF PollOrder
    <3> QED  BY <2>2, <3>1, <3>2, <3>3 DEF Answers
  <2> QED  BY <1>11, <2>1, <2>2, <2>3
<1>13. CASE Hydrate(d)
  <2>1. PICK p \in PollAnswer : p = app[d].poll
    BY <1>0
  <2>2. PollOrder(p)
    BY <1>s, <2>1 DEF StoreOrder
  <2>3. app' = [app EXCEPT ![d] = Hydrated(@, p)] /\ UNCHANGED <<outbox, flush, api>>
    BY <1>13, <2>1 DEF Hydrate, apiVars
  <2> QED  BY <1>11, <2>2, <2>3
<1>14. CASE Restart(d)
  <2>1. /\ app' = [app EXCEPT ![d] = Started] /\ flush' = [flush EXCEPT ![d] = NoFlush]
        /\ UNCHANGED <<api, outbox>>
    BY <1>14 DEF Restart, apiVars
  <2>2. StoreOrder(d, Started)
    BY DEF Started, NoPoll, StoreOrder, PollOrder
  <2>3. flush'[d].on = NoHandler /\ \A e \in Drivers : e # d => flush'[e] = flush[e]
    BY <1>0, <2>1, NoFlushIsFlush
  <2> QED  BY <1>1, <2>1, <2>2, <2>3, StartedApp
<1> QED  BY <1>5, <1>7, <1>8, <1>9, <1>10, <1>12, <1>13, <1>14 DEF Outbox

----------------------------------------------------------------------------
(* The steps of the server *)

\* A proof of delivery is refused only when the order is over, or was crossed.
LEMMA RefusedIsOver ==
  ASSUME ApiInv, HeardInv, Lasts, NEW h \in Handlers, KnowsInv(h), Handle(h) \/ HandlerFails(h),
         NEW o \in Orders, o = api[h].order, api[h].event = "POD", Told(o, "PICKED_UP"),
         api'[h].at = "answer", api'[h].code = 409
  PROVE  Over(o)' \/ o \in crossed'
<1>c. CASE o \in crossed
  BY <1>c DEF Lasts
<1> SUFFICES ASSUME o \notin crossed
             PROVE  Over(o)'
  BY <1>c
<1>0. api[h].event \notin Milestones /\ Collected(o)
  BY DEF Milestones, PHASE_RANK, HeardInv, Heard, Told, Over, Collected
<1>1. \A code \in {200, 500} : ~Answer(h, code)
  BY AnswerSays
<1>2. \A at \in {"commit", "note"} : ~Step(h, at)
  BY StepFields
<1>3. ~LoadOrder(h)
  <2>1. api \in [Handlers -> Request] /\ api[h] \in Request
    BY DEF ApiInv
  <2>2. DOMAIN api[h] = {"at", "order", "event", "saw", "rank", "code"} /\ DOMAIN api = Handlers
    BY <2>1 DEF Request
  <2> SUFFICES ASSUME LoadOrder(h)
               PROVE  FALSE
    OBVIOUS
  <2>3. api' = [api EXCEPT ![h] = [api[h] EXCEPT !.at = "replay", !.saw = status[api[h].order],
                                                 !.rank = currentPhaseRank(api[h].order)]]
    BY DEF LoadOrder
  <2> QED  BY <2>2, <2>3
<1>4. CASE ReplayPod(h)
  <2>1. api[h].at = "replay" /\ api[h].saw = "DELIVERED"
    BY <1>2, <1>4 DEF ReplayPod
  <2> QED  BY <2>1 DEF KnowsInv, SawInv, Lasts
<1>5. CASE CompleteDelivery(h)
  <2>1. ~CanTransition(o, "PICKED_UP", "DELIVERED")
    BY <1>2, <1>5 DEF CompleteDelivery
  <2>2. isTransitionAllowed("PICKED_UP", "DELIVERED")
    BY DEF isTransitionAllowed, ALLOWED, Status
  <2>3. Over(o)
    BY <1>0, <2>1, <2>2 DEF CanTransition, Collected, Over
  <2> QED  BY <2>3 DEF Lasts
<1> QED
  BY <1>0, <1>1, <1>2, <1>3, <1>4, <1>5 DEF Handle, HandlerFails, ReplayMilestone, CommitMilestone,
     RecordMilestone, WritePhase, RecordPod

\* A phone whose request the server works on.
LEMMA PhoneWaitsOn ==
  ASSUME IInv, OrderInv, Lasts, NEW h \in Handlers, Handle(h) \/ HandlerFails(h), NEW e \in Drivers,
         UNCHANGED <<outbox, flush, app>>
  PROVE  PhoneOrder(e)' /\ QueueKeeps(e)
<1>0. /\ ApiInv /\ PhoneOrder(e) /\ WaitInv /\ outbox[e] \in Seq(Row) /\ app[e] \in App
      /\ flush[e].on \in Handlers \cup {NoHandler} /\ app[e].posting \in Handlers \cup {NoHandler}
  BY DEF OrderInv, IInv, PhoneInv, PhoneTypes, Flush, App
<1>1. /\ api'[h].order = api[h].order /\ api'[h].event = api[h].event
      /\ \A g \in Handlers : g # h => api'[g] = api[g]
  BY <1>0, HandleFields
<1>2. QueueKeeps(e)
  BY <1>0, QueueStays DEF PhoneOrder
<1>3. StoreOrder(e, app[e])'
  <2>1. PICK a : a = app[e]
    OBVIOUS
  <2>2. StoreOrder(e, a)'
    BY <1>0, <1>2, <2>1, StoreLasts DEF PhoneOrder
  <2> QED  BY <2>1, <2>2 DEF StoreOrder
<1>4. PostOrder(e)'
  <2>1. app'[e].posting # NoHandler => api'[app[e].posting].order = api[app[e].posting].order
    BY <1>0, <1>1
  <2> QED  BY <1>0, <1>2, <2>1, PostLasts DEF PhoneOrder, IInv
<1>5. FlushOrder(e)'
  <2>1. CASE flush[e].on # h
    <3>1. flush'[e].on # NoHandler => api'[flush[e].on] = api[flush[e].on]
      BY <1>0, <1>1, <2>1
    <3> QED  BY <1>0, <3>1, FlushLasts DEF PhoneOrder, IInv
  <2>2. CASE flush[e].on = h
    <3>1. PICK r : r = api[h]
      OBVIOUS
    <3>2. PICK s : s = api'[h]
      OBVIOUS
    <3>3. h # NoHandler /\ r.order \in Orders /\ s.order = r.order /\ s.event = r.event
      BY <1>0, <1>1, <2>2, <3>1, <3>2, AppAssumption DEF WaitInv, ApiInv, RequestInv
    <3>4. /\ Head(outbox[e]) = RowOf(r.order, r.event)
          /\ r.event = "POD" => Told(r.order, "PICKED_UP")
      BY <1>0, <2>2, <3>1, <3>3 DEF PhoneOrder, FlushOrder
    <3>5. s.event = "POD" => Told(s.order, "PICKED_UP")'
      BY <3>3, <3>4 DEF Told, Lasts
    <3>6. ASSUME s.event = "POD", s.at = "answer", s.code = 409
          PROVE  Over(s.order)' \/ s.order \in crossed'
      <4>1. PICK o \in Orders : o = r.order
        BY <3>3
      <4>2. Told(o, "PICKED_UP") /\ r.event = "POD"
        BY <3>3, <3>4, <3>6, <4>1
      <4>3. Over(o)' \/ o \in crossed'
        BY <1>0, <3>1, <3>2, <3>6, <4>1, <4>2, RefusedIsOver DEF OrderInv
      <4> QED  BY <3>3, <4>1, <4>3
    <3> QED  BY <2>2, <3>2, <3>3, <3>4, <3>5, <3>6 DEF FlushOrder, RowOf
  <2> QED  BY <2>1, <2>2
<1>6. QueueOrder(e)'
  BY <1>2 DEF QueueKeeps
<1> QED  BY <1>2, <1>3, <1>4, <1>5, <1>6 DEF PhoneOrder

\* The server works on a request, fails it, or forgets one that nobody waits for.
LEMMA HandlersOrder ==
  ASSUME IInv, OrderInv, Lasts, NEW h \in Handlers, Serve(h) \/ Fails(h) \/ Abandon(h)
  PROVE  OrderKeeps
<1>0. /\ RowInv /\ ApiInv /\ HeardInv /\ KnowsInv(h) /\ api \in [Handlers -> Request]
      /\ UNCHANGED <<outbox, flush, app>>
  BY DEF IInv, ApiInv, OrderInv, Serve, Fails, Abandon, appVars
<1>1. CASE Serve(h) \/ Fails(h)
  <2>1. Handle(h) \/ HandlerFails(h)
    BY <1>1 DEF Serve, Fails
  <2>2. KnowsInv(h)'
    <3>1. CASE Handle(h)
      BY <1>0, <3>1, HandleHears
    <3>2. CASE HandlerFails(h)
      <4>1. Answer(h, 500) /\ api[h].at # "idle"
        BY <3>2 DEF HandlerFails
      <4>2. PICK o \in Orders, k \in Event : o = api[h].order /\ k = api[h].event
        BY <1>0, <4>1 DEF ApiInv, RequestInv, Request
      <4> QED  BY <1>0, <4>1, <4>2, KnowsAnswer
    <3> QED  BY <2>1, <3>1, <3>2
  <2>3. \A g \in Handlers : g # h => api'[g] = api[g]
    BY <1>0, <2>1, HandleFields
  <2>4. \A g \in Handlers : KnowsInv(g)'
    BY <1>0, <2>2, <2>3, KnowsStays DEF OrderInv
  <2> QED  BY <1>0, <2>1, <2>4, PhoneWaitsOn DEF OrderKeeps
<1>2. CASE Abandon(h)
  <2>1. api'[h] = Idle /\ \A g \in Handlers : g # h => api'[g] = api[g]
    BY <1>0, <1>2 DEF Abandon
  <2>2. \A g \in Handlers : KnowsInv(g)'
    <3>1. KnowsInv(h)'
      BY <2>1, IdleRequest DEF KnowsInv
    <3> QED  BY <1>0, <2>1, <3>1, KnowsStays DEF OrderInv
  <2>3. \A e \in Drivers : /\ flush[e].on # h /\ app[e].posting # h
                           /\ flush[e].on \in Handlers \cup {NoHandler}
                           /\ app[e].posting \in Handlers \cup {NoHandler}
    BY <1>2 DEF Abandon, IInv, PhoneInv, PhoneTypes, Flush, App
  <2>4. ASSUME NEW e \in Drivers
        PROVE  PhoneOrder(e)' /\ QueueKeeps(e)
    BY <1>0, <2>1, <2>3, PhoneRests
  <2> QED  BY <2>2, <2>4 DEF OrderKeeps
<1> QED  BY <1>1, <1>2

\* The dispatch engine and the staff, and nothing at all.
LEMMA EverybodyRests ==
  ASSUME IInv, OrderInv, Lasts, UNCHANGED <<api, outbox, flush, app>>
  PROVE  OrderKeeps
<1>1. \A g \in Handlers : KnowsInv(g)'
  BY KnowsStays DEF OrderInv, IInv
<1>2. ASSUME NEW e \in Drivers
      PROVE  PhoneOrder(e)' /\ QueueKeeps(e)
  BY PhoneRests
<1> QED  BY <1>1, <1>2 DEF OrderKeeps

----------------------------------------------------------------------------
(* The order of the milestones is kept *)

LEMMA InitOrder == Init => OrderInv
<1> SUFFICES ASSUME Init
             PROVE  OrderInv
  OBVIOUS
<1>1. /\ status = [o \in Orders |-> "NONE"] /\ phase = [o \in Orders |-> 0]
      /\ recorded = [o \in Orders |-> {}] /\ api = [h \in Handlers |-> Idle]
      /\ outbox = [d \in Drivers |-> <<>>] /\ flush = [d \in Drivers |-> NoFlush]
      /\ app = [d \in Drivers |-> Started]
  BY DEF Init, RowInit, ApiInit, AppInit
<1>2. HeardInv
  BY <1>1 DEF HeardInv, Heard
<1>3. \A h \in Handlers : KnowsInv(h)
  BY <1>1, IdleRequest DEF KnowsInv
<1>4. ASSUME NEW d \in Drivers
      PROVE  PhoneOrder(d)
  <2>1. outbox[d] = <<>> /\ flush[d].on = NoHandler /\ app[d] = Started /\ Len(<<>>) = 0
    BY <1>1, NoFlushIsFlush
  <2>2. QueueOrder(d)
    BY <2>1 DEF QueueOrder
  <2>3. StoreOrder(d, Started)
    BY DEF Started, NoPoll, StoreOrder, PollOrder
  <2>4. PostOrder(d) /\ FlushOrder(d)
    BY <2>1, StartedApp DEF PostOrder, FlushOrder
  <2> QED  BY <2>1, <2>2, <2>3, <2>4 DEF PhoneOrder
<1> QED  BY <1>2, <1>3, <1>4 DEF OrderInv

LEMMA NextOrder ==
  ASSUME IInv, OrderInv, [HNext]_hvars
  PROVE  OrderInv' /\ \A d \in Drivers : QueueKeeps(d)
<1>n. [Next]_vars
  BY DEF HNext, hvars
<1>0. Lasts
  BY StepLasts
<1>1. HeardInv'
  <2>1. ASSUME NEW h \in Handlers, Serve(h)
        PROVE  HeardInv'
    BY <1>0, <2>1, HandleHears DEF IInv, OrderInv, Serve
  <2>2. CASE \A h \in Handlers : ~Serve(h)
    BY <1>0, <1>n, <2>2, OthersStep, OthersHeard DEF OrderInv
  <2> QED  BY <2>1, <2>2
<1>2. OrderKeeps
  <2>1. ASSUME NEW h \in Handlers, Serve(h) \/ Fails(h) \/ Abandon(h)
        PROVE  OrderKeeps
    BY <1>0, <2>1, HandlersOrder
  <2>2. ASSUME NEW d \in Drivers, Screens(d)
        PROVE  OrderKeeps
    BY <1>0, <2>2, HistoryMoves, ScreensOrder
  <2>3. ASSUME NEW d \in Drivers, Outbox(d) \/ Poll(d) \/ Hydrate(d) \/ Restart(d)
        PROVE  OrderKeeps
    BY <1>0, <2>3, OutboxOrder
  <2>4. ASSUME NEW o \in Orders, Dispatching(o) \/ StaffCancels(o)
        PROVE  OrderKeeps
    <3>1. UNCHANGED <<api, outbox, flush, app>>
      BY <2>4, Zenon DEF Dispatching, StaffCancels, apiVars, appVars
    <3> QED  BY <1>0, <3>1, EverybodyRests
  <2>5. CASE UNCHANGED vars
    <3>1. UNCHANGED <<api, outbox, flush, app>>
      BY <2>5 DEF vars, apiVars, appVars
    <3> QED  BY <1>0, <3>1, EverybodyRests
  <2> QED  BY <1>n, <2>1, <2>2, <2>3, <2>4, <2>5 DEF Next
<1> QED  BY <1>1, <1>2 DEF OrderInv, OrderKeeps

\* The outbox, the store, the requests and the order agree on what has been reported,
\* but for the orders that were crossed.
THEOREM OrderInvariant == HSpec => []OrderInv
<1>1. HInit => Init /\ OrderInv
  BY InitOrder DEF HInit
<1>2. [HNext]_hvars => [Next]_vars
  BY DEF HNext, hvars
<1>3. IInv /\ OrderInv /\ [HNext]_hvars => OrderInv'
  BY <1>2, NextOrder
<1> QED  BY <1>1, <1>2, <1>3, AppInvariant, PTL DEF HSpec, Spec

\* The server hears of the milestones in their order and misses none, through restarts,
\* lost answers and failed requests (flushEventOutbox, POST /orders/:id/status), for
\* every order that the arrival of another one did not cross (arrival.tsx).
THEOREM MilestonesKeepOrder == HSpec => []MilestonesInOrder
<1>1. OrderInv => MilestonesInOrder
  BY DEF OrderInv, HeardInv, Heard, MilestonesInOrder
<1> QED  BY <1>1, OrderInvariant, PTL

\* A row that leaves the outbox has reached the server, or its order is over or crossed:
\* an answer of 409 is no loss (flushEventOutbox).
THEOREM NoMilestoneLost == HSpec => MilestoneKept
<1>1. HInit => Init
  BY DEF HInit
<1>2. [HNext]_hvars => [Next]_vars
  BY DEF HNext, hvars
<1>3. IInv /\ OrderInv /\ [HNext]_hvars =>
        [\A d \in Drivers : \A row \in Rows(d) : row \notin Rows(d)' => Landed(row)']_hvars
  BY <1>2, NextOrder DEF QueueKeeps
<1> QED  BY <1>1, <1>2, <1>3, OrderInvariant, AppInvariant, PTL DEF HSpec, Spec, MilestoneKept

----------------------------------------------------------------------------
(* The drivers' own orders *)

\* What the store, the open screen and a slow answer show is the driver's own.
Own(d, o) == o = NoOrder \/ driverOf[o] = d
Mine(d, a) == Own(d, a.active) /\ Own(d, a.shot) /\ Own(d, a.poll.order)
MineInv == \A d \in Drivers : Mine(d, app[d])

\* An order that has a driver keeps him.
DriverStays == \A o \in Orders : driverOf[o] \in Drivers => driverOf'[o] = driverOf[o]

LEMMA DriverLasts ==
  ASSUME RowInv, RowStep
  PROVE  DriverStays
<1>1. status \in [Orders -> Status] /\ driverOf \in [Orders -> Drivers \cup {NoDriver}]
  BY DEF RowInv, RowTypeOK
<1>2. CASE UNCHANGED driverOf
  BY <1>2 DEF DriverStays
<1>3. ASSUME NEW o \in Orders, Move(o, "ASSIGNED"), isTransitionAllowed(status[o], "ASSIGNED")
      PROVE  DriverStays
  <2>1. status[o] \in Unassigned
    BY <1>1, <1>3, Tables
  <2>2. driverOf[o] \notin Drivers
    BY <2>1, RowAssumption DEF RowInv
  <2>3. \A p \in Orders : p # o => driverOf'[p] = driverOf[p]
    BY <1>1, <1>3 DEF Move
  <2> QED  BY <2>2, <2>3 DEF DriverStays
<1> QED  BY <1>2, <1>3 DEF RowStep, Move

\* A cleared store keeps its open screen and a slow answer.
LEMMA ClearedFields ==
  ASSUME NEW a \in App
  PROVE  Cleared(a).active = NoOrder /\ Cleared(a).shot = a.shot /\ Cleared(a).poll = a.poll
<1>1. NoOrder \in Orders \cup {NoOrder} /\ 1 \in Stage
  BY DEF Stage
<1> QED  BY <1>1, ShownFields DEF Cleared

LEMMA HydratedMine ==
  ASSUME NEW d \in Drivers, NEW a \in App, NEW p \in PollAnswer, Mine(d, a), Own(d, p.order)
  PROVE  Mine(d, Hydrated(a, p))
<1> DEFINE s == IF a.active = p.order /\ a.stage > p.stage THEN a.stage ELSE p.stage
           next == IF p.order # NoOrder
                     THEN [a EXCEPT !.active = p.order, !.stage = s]
                     ELSE IF a.active # NoOrder /\ a.pending THEN a ELSE Cleared(a)
<1>1. PICK b : b = next
  OBVIOUS
<1>2. Hydrated(a, p) = [b EXCEPT !.poll = NoPoll]
  BY <1>1 DEF Hydrated
<1>3. s \in Stage /\ p.order \in Orders \cup {NoOrder}
  BY DEF App, PollAnswer
<1>4. b \in App /\ b.active \in {NoOrder, a.active, p.order} /\ b.shot = a.shot
  <2> HIDE DEF s
  <2>1. CASE p.order = NoOrder
    BY <1>1, <2>1, ClearedApp, ClearedFields
  <2>2. CASE p.order # NoOrder
    <3>1. b = [a EXCEPT !.active = p.order, !.stage = s]
      BY <1>1, <2>2
    <3>2. b \in App
      BY <1>3, <3>1, OrderShown, ZenonT(30)
    <3>3. b.active = p.order /\ b.shot = a.shot
      BY <1>3, <3>1, ShownFields
    <3> QED  BY <3>2, <3>3
  <2> QED  BY <2>1, <2>2
<1> HIDE DEF next
<1>5. PICK c : c = [b EXCEPT !.poll = NoPoll]
  OBVIOUS
<1>6. c.active = b.active /\ c.shot = b.shot /\ c.poll = NoPoll /\ NoPoll.order = NoOrder
  BY <1>4, <1>5, NoPollIsAnswer, ShownFields DEF NoPoll
<1>7. Mine(d, c)
  BY <1>4, <1>6 DEF Mine, Own
<1> QED  BY <1>2, <1>5, <1>7

\* The store of one phone changes.
LEMMA MineStays ==
  ASSUME IInv, MineInv, DriverStays, NEW d \in Drivers, NEW a \in App, app' = [app EXCEPT ![d] = a], Mine(d, a)
  PROVE  MineInv'
<1>1. app \in [Drivers -> App]
  BY DEF IInv, PhoneInv, PhoneTypes
<1>2. ASSUME NEW e \in Drivers
      PROVE  Mine(e, app'[e]) /\ app'[e] \in App
  <2>1. app'[e] = IF e = d THEN a ELSE app[e]
    BY <1>1
  <2> QED  BY <1>1, <2>1 DEF MineInv
<1>3. ASSUME NEW e \in Drivers, NEW o \in Orders \cup {NoOrder}, Own(e, o)
      PROVE  Own(e, o)'
  BY <1>3 DEF Own, DriverStays
<1>4. ASSUME NEW e \in Drivers
      PROVE  Mine(e, app[e])'
  <2>1. PICK b \in App : b = app'[e] /\ Mine(e, b)
    BY <1>2
  <2>2. b.active \in Orders \cup {NoOrder} /\ b.shot \in Orders \cup {NoOrder}
        /\ b.poll.order \in Orders \cup {NoOrder}
    BY DEF App, PollAnswer
  <2> QED  BY <1>3, <2>1, <2>2 DEF Mine
<1> QED  BY <1>4 DEF MineInv

\* The store of no phone changes.
LEMMA MineRests ==
  ASSUME IInv, MineInv, DriverStays, UNCHANGED app
  PROVE  MineInv'
<1>1. ASSUME NEW e \in Drivers
      PROVE  Mine(e, app[e])'
  <2>1. Mine(e, app[e])
    BY DEF MineInv
  <2>2. app[e].active \in Orders \cup {NoOrder} /\ app[e].shot \in Orders \cup {NoOrder}
        /\ app[e].poll.order \in Orders \cup {NoOrder}
    BY DEF IInv, PhoneInv, PhoneTypes, App, PollAnswer
  <2> QED  BY <2>1, <2>2 DEF Mine, Own, DriverStays
<1> QED  BY <1>1 DEF MineInv

LEMMA ScreensMine ==
  ASSUME IInv, MineInv, DriverStays, NEW d \in Drivers, Screens(d)
  PROVE  MineInv'
<1>0. app \in [Drivers -> App] /\ driverOf \in [Orders -> Drivers \cup {NoDriver}]
  BY DEF IInv, PhoneInv, PhoneTypes, RowInv, RowTypeOK
<1>a. PICK x \in App : x = app[d]
  BY <1>0
<1>m. Mine(d, x)
  BY <1>a DEF MineInv
<1>k. NoHandler \in Handlers \cup {NoHandler} /\ TRUE \in BOOLEAN /\ NoOrder \in Orders \cup {NoOrder}
  OBVIOUS
<1>1. ASSUME NEW o \in Orders, Accept(d, o)
      PROVE  MineInv'
  <2>1. driverOf' = [driverOf EXCEPT ![o] = d] /\ app' = [app EXCEPT ![d].active = o, ![d].stage = 1]
    BY <1>1 DEF Accept
  <2>2. driverOf'[o] = d
    BY <1>0, <2>1
  <2>3. PICK b : b = [x EXCEPT !.active = o, !.stage = 1]
    OBVIOUS
  <2>4. 1 \in Stage
    BY DEF Stage
  <2>5. b.active = o /\ b.shot = x.shot /\ b.poll = x.poll
    BY <2>3, <2>4, ShownFields
  <2>6. app' = [app EXCEPT ![d] = b]
    BY <1>a, <2>1, <2>3
  <2>7. ASSUME NEW e \in Drivers
        PROVE  Mine(e, app[e])'
    <3>1. Mine(e, app[e])
      BY DEF MineInv
    <3>2. app[e].active \in Orders \cup {NoOrder} /\ app[e].shot \in Orders \cup {NoOrder}
          /\ app[e].poll.order \in Orders \cup {NoOrder}
      BY DEF IInv, PhoneInv, PhoneTypes, App, PollAnswer
    <3>3. CASE e = d
      <4>1. app'[e] = b
        BY <1>0, <2>6, <3>3
      <4> QED  BY <1>a, <2>2, <2>5, <3>1, <3>2, <3>3, <4>1 DEF Mine, Own, DriverStays
    <3>4. CASE e # d
      <4>1. app'[e] = app[e]
        BY <1>0, <2>6, <3>4
      <4> QED  BY <3>1, <3>2, <4>1 DEF Mine, Own, DriverStays
    <3> QED  BY <3>3, <3>4
  <2> QED  BY <2>7 DEF MineInv
<1>2. ASSUME NEW o \in Orders, Assign(d, o)
      PROVE  MineInv'
  BY <1>2, MineRests DEF Assign, appVars
<1>3. CASE QueueArrivalPhoto(d)
  <2>1. x.active \in Orders \cup {NoOrder}
    BY DEF App
  <2>2. PICK b : b = [x EXCEPT !.shot = x.active]
    OBVIOUS
  <2>3. b \in App /\ b.active = x.active /\ b.shot = x.active /\ b.poll = x.poll
    BY <2>1, <2>2, ShotApp, ShownFields
  <2>4. PICK c : c = [b EXCEPT !.pending = TRUE]
    OBVIOUS
  <2>5. c \in App /\ c.active = x.active /\ c.shot = x.active /\ c.poll = x.poll
    BY <1>k, <2>3, <2>4, PendingApp, ShownFields
  <2>6. app' = [app EXCEPT ![d] = c]
    BY <1>0, <1>3, <1>a, <2>2, <2>4 DEF QueueArrivalPhoto
  <2>7. Mine(d, c)
    BY <1>m, <2>5 DEF Mine
  <2> QED  BY <2>5, <2>6, <2>7, MineStays
<1>A. ASSUME NEW n \in Stage
      PROVE  /\ Advanced(x, n).active = x.active /\ Advanced(x, n).shot = x.shot /\ Advanced(x, n).poll = x.poll
             /\ Advanced(x, n) \in App
  BY AdvancedApp DEF Advanced, App
<1>4. CASE ClaimArrival(d)
  <2>1. 2 \in Stage
    BY DEF Stage
  <2>2. PICK c : c = [Advanced(x, 2) EXCEPT !.shot = NoOrder]
    OBVIOUS
  <2>3. c \in App /\ c.active = x.active /\ c.shot = NoOrder /\ c.poll = x.poll
    BY <1>A, <1>k, <2>1, <2>2, ShotApp, ShownFields
  <2>4. app' = [app EXCEPT ![d] = c]
    BY <1>4, <1>a, <2>2 DEF ClaimArrival
  <2>5. Mine(d, c)
    BY <1>m, <2>3 DEF Mine, Own
  <2> QED  BY <2>3, <2>4, <2>5, MineStays
<1>5. CASE Advance(d)
  <2>1. x.stage + 1 \in Stage
    BY <1>5, <1>a DEF Advance, Stage
  <2>2. PICK c : c = Advanced(x, x.stage + 1)
    OBVIOUS
  <2>3. c \in App /\ Mine(d, c)
    BY <1>A, <1>m, <2>1, <2>2 DEF Mine
  <2>4. app' = [app EXCEPT ![d] = c]
    BY <1>5, <1>a, <2>2 DEF Advance
  <2> QED  BY <2>3, <2>4, MineStays
<1>6. ASSUME NEW h \in Handlers, SubmitPod(d, h)
      PROVE  MineInv'
  <2>1. PICK c : c = [x EXCEPT !.posting = h]
    OBVIOUS
  <2>2. c \in App /\ c.active = x.active /\ c.shot = x.shot /\ c.poll = x.poll
    BY <2>1, PostingApp, ShownFields
  <2>3. app' = [app EXCEPT ![d] = c]
    BY <1>6, <1>a, <2>1 DEF SubmitPod
  <2>4. Mine(d, c)
    BY <1>m, <2>2 DEF Mine
  <2> QED  BY <2>2, <2>3, <2>4, MineStays
<1>c. PICK y \in App : y = Cleared(x) /\ y.active = NoOrder /\ y.shot = x.shot /\ y.poll = x.poll
  BY ClearedApp, ClearedFields
<1>7. CASE app' = [app EXCEPT ![d] = y] \/ app' = [app EXCEPT ![d] = [y EXCEPT !.posting = NoHandler]]
  <2>1. PICK c : c = [y EXCEPT !.posting = NoHandler]
    OBVIOUS
  <2>2. c \in App /\ c.active = NoOrder /\ c.shot = x.shot /\ c.poll = x.poll
    BY <1>c, <1>k, <2>1, PostingApp, ShownFields
  <2>3. Mine(d, c) /\ Mine(d, y)
    BY <1>c, <1>m, <2>2 DEF Mine, Own
  <2> QED  BY <1>7, <2>1, <2>2, <2>3, MineStays
<1>8. ASSUME NEW o, PodQueued(d, o)
      PROVE  MineInv'
  <2>1. PICK b : b = [y EXCEPT !.posting = NoHandler]
    OBVIOUS
  <2>2. b \in App /\ b.active = NoOrder /\ b.shot = x.shot /\ b.poll = x.poll
    BY <1>c, <1>k, <2>1, PostingApp, ShownFields
  <2>3. PICK c : c = [b EXCEPT !.pending = TRUE]
    OBVIOUS
  <2>4. c \in App /\ c.active = NoOrder /\ c.shot = x.shot /\ c.poll = x.poll
    BY <1>k, <2>2, <2>3, PendingApp, ShownFields
  <2>5. app' = [app EXCEPT ![d] = c]
    BY <1>8, <1>a, <1>c, <2>1, <2>3 DEF PodQueued
  <2>6. Mine(d, c)
    BY <1>m, <2>4 DEF Mine, Own
  <2> QED  BY <2>4, <2>5, <2>6, MineStays
<1>9. CASE PodAnswered(d)
  <2>1. CASE app' = [app EXCEPT ![d] = [Cleared(@) EXCEPT !.posting = NoHandler]]
    BY <1>7, <1>a, <1>c, <2>1
  <2> QED  BY <1>8, <1>9, <2>1 DEF PodAnswered
<1>10. CASE PodLost(d)
  BY <1>8, <1>10 DEF PodLost
<1>11. CASE FailTrip(d)
  BY <1>7, <1>11, <1>a, <1>c DEF FailTrip
<1> QED  BY <1>1, <1>2, <1>3, <1>4, <1>5, <1>6, <1>9, <1>10, <1>11 DEF Screens

LEMMA OutboxMine ==
  ASSUME IInv, MineInv, DriverStays, NEW d \in Drivers, Outbox(d) \/ Poll(d) \/ Hydrate(d) \/ Restart(d)
  PROVE  MineInv'
<1>0. app \in [Drivers -> App] /\ api \in [Handlers -> Request]
  BY DEF IInv, PhoneInv, PhoneTypes, ApiInv
<1>a. PICK x \in App : x = app[d]
  BY <1>0
<1>m. Mine(d, x) /\ x.poll \in PollAnswer
  BY <1>a DEF MineInv, App
<1>c. Cleared(x) \in App /\ Mine(d, Cleared(x))
  BY <1>m, ClearedApp, ClearedFields DEF Mine, Own
<1>p. ASSUME NEW a \in App, NEW p \in BOOLEAN, Mine(d, a), app' = [app EXCEPT ![d] = [a EXCEPT !.pending = p]]
      PROVE  MineInv'
  <2>1. PICK b : b = [a EXCEPT !.pending = p]
    OBVIOUS
  <2>2. b \in App /\ b.active = a.active /\ b.shot = a.shot /\ b.poll = a.poll
    BY <1>p, <2>1, PendingApp, ShownFields
  <2>3. Mine(d, b)
    BY <1>p, <2>2 DEF Mine
  <2> QED  BY <1>p, <2>1, <2>2, <2>3, MineStays
<1>1. ASSUME NEW a \in App, Mine(d, a), RowDone(d, a)
      PROVE  MineInv'
  <2>1. PICK p : p = IF flush[d].left = 1 THEN Len(outbox[d]) > 1 ELSE a.pending
    OBVIOUS
  <2>2. p \in BOOLEAN
    <3>1. a.pending \in BOOLEAN /\ (Len(outbox[d]) > 1) \in BOOLEAN
      BY DEF App
    <3> QED  BY <2>1, <3>1
  <2>3. app' = [app EXCEPT ![d] = [a EXCEPT !.pending = p]]
    BY <1>1, <2>1 DEF RowDone
  <2> QED  BY <1>1, <1>p, <2>2, <2>3
<1>2. CASE FlushStops(d)
  <2>1. TRUE \in BOOLEAN /\ app' = [app EXCEPT ![d] = [x EXCEPT !.pending = TRUE]]
    BY <1>2, <1>a DEF FlushStops
  <2> QED  BY <1>m, <1>p, <2>1
<1>3. CASE StartFlush(d) \/ \E h \in Handlers : SendRow(d, h)
  BY <1>3, MineRests DEF StartFlush, SendRow
<1>4. CASE SendPhoto(d)
  BY <1>1, <1>4, <1>a, <1>m DEF SendPhoto
<1>5. CASE RowAnswered(d)
  BY <1>1, <1>2, <1>5, <1>a, <1>c, <1>m DEF RowAnswered
<1>6. CASE RowLost(d)
  BY <1>2, <1>6 DEF RowLost
<1>h. ASSUME NEW p \in PollAnswer, Own(d, p.order), app' = [app EXCEPT ![d] = Hydrated(@, p)]
      PROVE  MineInv'
  <2>1. PICK a : a = Hydrated(x, p)
    OBVIOUS
  <2>2. a \in App /\ Mine(d, a)
    BY <1>h, <1>m, <2>1, HydratedApp, HydratedMine
  <2>3. app' = [app EXCEPT ![d] = a]
    BY <1>a, <1>h, <2>1
  <2> QED  BY <2>2, <2>3, MineStays
<1>7. CASE Poll(d)
  <2>1. PICK p \in Answers(d) : \/ app' = [app EXCEPT ![d] = Hydrated(@, p)]
                                \/ app' = [app EXCEPT ![d].poll = p]
    BY <1>7 DEF Poll
  <2>2. p \in PollAnswer /\ Own(d, p.order)
    <3>1. PICK n : n = [NoPoll EXCEPT !.got = TRUE]
      OBVIOUS
    <3>2. n \in PollAnswer /\ Own(d, n.order)
      BY <3>1, NoPollIsAnswer DEF PollAnswer, NoPoll, Own
    <3>3. ASSUME NEW o \in Orders, driverOf[o] = d, p = [got |-> TRUE, order |-> o, stage |-> serverStage(o)]
          PROVE  p \in PollAnswer /\ Own(d, p.order)
      <4>1. serverStage(o) \in Stage
        BY DEF serverStage, Stage
      <4> QED  BY <3>3, <4>1 DEF PollAnswer, Own
    <3> QED  BY <2>1, <3>1, <3>2, <3>3 DEF Answers
  <2>3. CASE app' = [app EXCEPT ![d].poll = p]
    <3>1. PICK a : a = [x EXCEPT !.poll = p]
      OBVIOUS
    <3>2. a \in App /\ a.active = x.active /\ a.shot = x.shot /\ a.poll = p
      BY <2>2, <3>1, PolledApp, ShownFields
    <3>3. Mine(d, a)
      BY <1>m, <2>2, <3>2 DEF Mine
    <3>4. app' = [app EXCEPT ![d] = a]
      BY <1>a, <2>3, <3>1
    <3> QED  BY <3>2, <3>3, <3>4, MineStays
  <2> QED  BY <1>h, <2>1, <2>2, <2>3
<1>8. CASE Hydrate(d)
  <2>1. PICK p \in PollAnswer : p = app[d].poll /\ Own(d, p.order)
    BY <1>a, <1>m DEF Mine
  <2>2. app' = [app EXCEPT ![d] = Hydrated(@, p)]
    BY <1>8, <2>1 DEF Hydrate
  <2> QED  BY <1>h, <2>1, <2>2
<1>9. CASE Restart(d)
  <2>1. app' = [app EXCEPT ![d] = Started]
    BY <1>9 DEF Restart
  <2>2. Mine(d, Started)
    BY DEF Started, NoPoll, Mine, Own
  <2> QED  BY <2>1, <2>2, StartedApp, MineStays
<1> QED  BY <1>3, <1>4, <1>5, <1>6, <1>7, <1>8, <1>9 DEF Outbox

LEMMA NextMine == IInv /\ MineInv /\ [Next]_vars => MineInv'
<1> SUFFICES ASSUME IInv, MineInv, [Next]_vars
             PROVE  MineInv'
  OBVIOUS
<1>1. DriverStays
  BY RowSteps, DriverLasts DEF IInv
<1>2. ASSUME NEW h \in Handlers, Serve(h) \/ Fails(h) \/ Abandon(h)
      PROVE  MineInv'
  <2>1. UNCHANGED app
    BY <1>2, Zenon DEF Serve, Fails, Abandon, appVars
  <2> QED  BY <1>1, <2>1, MineRests
<1>3. ASSUME NEW d \in Drivers, Screens(d) \/ Outbox(d) \/ Poll(d) \/ Hydrate(d) \/ Restart(d)
      PROVE  MineInv'
  BY <1>1, <1>3, ScreensMine, OutboxMine
<1>4. ASSUME NEW o \in Orders, Dispatching(o) \/ StaffCancels(o)
      PROVE  MineInv'
  <2>1. UNCHANGED app
    BY <1>4, Zenon DEF Dispatching, StaffCancels, appVars
  <2> QED  BY <1>1, <2>1, MineRests
<1>5. CASE UNCHANGED vars
  BY <1>1, <1>5, MineRests DEF vars, appVars
<1> QED  BY <1>2, <1>3, <1>4, <1>5 DEF Next

\* What a phone shows, its open arrival screen included, are orders of its driver: no
\* screen and no late answer shows him another driver's (acceptOffer, GET /state).
THEOREM PhoneShowsItsOwn == Spec => []MineInv
<1>1. Init => MineInv
  BY DEF Init, AppInit, MineInv, Mine, Own, Started, NoPoll
<1> QED  BY <1>1, NextMine, AppInvariant, PTL DEF Spec

\* An order that was crossed is not the only one of its driver.
CrossedInv ==
  \A o \in crossed :
    o \in Orders /\ driverOf[o] \in Drivers /\ \E p \in Orders \ {o} : driverOf[p] = driverOf[o]

LEMMA NextCrossed ==
  ASSUME IInv, MineInv, CrossedInv, [HNext]_hvars
  PROVE  CrossedInv'
<1>1. DriverStays
  <2>1. [Next]_vars
    BY DEF HNext, hvars
  <2> QED  BY <2>1, RowSteps, DriverLasts DEF IInv
<1>2. ASSUME NEW o \in Orders, NEW p \in Orders \ {o}, driverOf[o] \in Drivers, driverOf[p] = driverOf[o]
      PROVE  driverOf'[o] \in Drivers /\ driverOf'[p] = driverOf'[o]
  BY <1>1, <1>2 DEF DriverStays
<1>3. ASSUME NEW o \in crossed
      PROVE  o \in Orders /\ driverOf'[o] \in Drivers /\ \E p \in Orders \ {o} : driverOf'[p] = driverOf'[o]
  BY <1>2, <1>3 DEF CrossedInv
<1>4. ASSUME NEW d \in Drivers, Crosses(d), NEW o, o = app[d].active
      PROVE  o \in Orders /\ driverOf'[o] \in Drivers /\ \E p \in Orders \ {o} : driverOf'[p] = driverOf'[o]
  <2>1. app[d].active \in Orders /\ app[d].shot \in Orders \ {o}
    BY <1>4 DEF Crosses, IInv, PhoneInv, PhoneTypes, App
  <2>2. driverOf[app[d].active] = d /\ driverOf[app[d].shot] = d
    BY <1>4 DEF Crosses, MineInv, Mine, Own
  <2> QED  BY <1>2, <1>4, <2>1, <2>2
<1> QED  BY <1>3, <1>4, HistoryMoves DEF CrossedInv, Remembers

\* Only a second order of the same driver makes the store take one past the restaurant:
\* the milestones of a driver's only order are covered whatever else happens.
THEOREM OnlyOrderIsNotCrossed == HSpec => []CrossedInv
<1>1. HInit => Init /\ CrossedInv
  BY DEF HInit, CrossedInv
<1>2. [HNext]_hvars => [Next]_vars
  BY DEF HNext, hvars
<1>3. IInv /\ MineInv /\ CrossedInv /\ [HNext]_hvars => CrossedInv'
  BY NextCrossed
<1> QED  BY <1>1, <1>2, <1>3, AppInvariant, PhoneShowsItsOwn, PTL DEF HSpec, Spec
=============================================================================
