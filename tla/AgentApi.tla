------------------------------ MODULE AgentApi ------------------------------
(*****************************************************************************)
(* The delivery routes of routes/agentDelivery.ts: POST /orders/:id/status   *)
(* and POST /orders/:id/pod.  A request reads the order, looks its           *)
(* idempotency key up among the order's events, and only then writes; some   *)
(* of them write twice.  Requests run side by side, a request whose client   *)
(* has gone runs on, and a process may die between two statements.           *)
(*****************************************************************************)
EXTENDS OrderRow

CONSTANT Handlers  \* requests the server works on at a time

\* The events the app of today posts.  HEADING_TO_PICKUP and HEADING_TO_DROPOFF
\* are accepted by the route, but no screen sends them any more.
PHASE_RANK == [ARRIVED_AT_PICKUP |-> 2, PICKED_UP |-> 3, ARRIVED_AT_DROPOFF |-> 5]
Milestones == DOMAIN PHASE_RANK
Event == Milestones \cup {"POD"}

VARIABLES
  phase,     \* rank of metadata.driverPhase, 0 for none
  recorded,  \* idempotency keys among the order's events
  api        \* requests being handled

apiVars == <<phase, recorded, api>>

Idle == [at |-> "idle", order |-> NoOrder, event |-> "POD", saw |-> "NONE", rank |-> 0, code |-> 0]

Request ==
  [at : {"idle", "load", "replay", "commit", "note", "answer"}, order : Orders \cup {NoOrder},
   event : Event, saw : Status, rank : 0 .. 5, code : {0, 200, 409, 500}]

ApiInit == /\ phase = [o \in Orders |-> 0]
           /\ recorded = [o \in Orders |-> {}]
           /\ api = [h \in Handlers |-> Idle]

ApiTypeOK == /\ phase \in [Orders -> 0 .. 5]
             /\ recorded \in [Orders -> SUBSET Event]
             /\ api \in [Handlers -> Request]

Posted(o, e) == [Idle EXCEPT !.at = "load", !.order = o, !.event = e]

Step(h, at) == api' = [api EXCEPT ![h].at = at, ![h].rank = 0]
Answer(h, code) ==
  api' = [api EXCEPT ![h] = [@ EXCEPT !.at = "answer", !.code = code, !.saw = "NONE", !.rank = 0]]

\* The rank of an order: what its status implies, or the phase if that is further.
currentPhaseRank(o) ==
  IF status[o] = "PICKED_UP" /\ phase[o] < PHASE_RANK.PICKED_UP THEN PHASE_RANK.PICKED_UP
                                                               ELSE phase[o]

\* Statuses from which a milestone is accepted.
AllowedFor(e) ==
  IF PHASE_RANK[e] <= PHASE_RANK.PICKED_UP THEN {"ASSIGNED", "ARRIVED"} ELSE {"PICKED_UP"}

\* The order is read once; everything below goes by this copy.
LoadOrder(h) ==
  /\ api[h].at = "load"
  /\ api' = [api EXCEPT ![h].at = "replay", ![h].saw = status[api[h].order],
                        ![h].rank = currentPhaseRank(api[h].order)]
  /\ UNCHANGED <<phase, recorded, rowVars>>

\* POST /status: a known key is a replay; a step backwards, or from a wrong status,
\* is a conflict.
ReplayMilestone(h) ==
  LET r == api[h]
  IN  /\ r.at = "replay" /\ r.event \in Milestones
      /\ \/ r.event \in recorded[r.order] /\ Answer(h, 200)
         \/ /\ r.event \notin recorded[r.order]
            /\ \/ /\ r.rank < PHASE_RANK[r.event] /\ r.saw \in AllowedFor(r.event)
                  /\ Step(h, "commit")
               \/ /\ ~(r.rank < PHASE_RANK[r.event] /\ r.saw \in AllowedFor(r.event))
                  /\ Answer(h, 409)
      /\ UNCHANGED <<phase, recorded, rowVars>>

\* POST /pod: only a delivered order is looked up for the key.
ReplayPod(h) ==
  LET r == api[h]
  IN  /\ r.at = "replay" /\ r.event = "POD"
      /\ \/ r.saw # "DELIVERED" /\ Step(h, "commit")
         \/ /\ r.saw = "DELIVERED"
            /\ Answer(h, IF "POD" \in recorded[r.order] THEN 200 ELSE 409)
      /\ UNCHANGED <<phase, recorded, rowVars>>

\* Mutant: the arrival is metadata only, as it was before revision 8.
MovesOnPickup(r) == r.event = "PICKED_UP"

\* PICKED_UP, and ARRIVED_AT_PICKUP of an ASSIGNED order, move the order: status,
\* phase and event are one transaction.
MovesTheOrder(r) ==
  r.event = "PICKED_UP" \/ (r.event = "ARRIVED_AT_PICKUP" /\ r.saw = "ASSIGNED")

\* Mutant: the order is moved without a look at what it is now.
CommitUnguarded(h) ==
  LET r == api[h]
  IN  /\ r.at = "commit" /\ r.event \in Milestones /\ MovesTheOrder(r)
      /\ status' = [status EXCEPT ![r.order] = IF r.event = "PICKED_UP" THEN "PICKED_UP" ELSE "ARRIVED"]
      /\ phase' = [phase EXCEPT ![r.order] = PHASE_RANK[r.event]]
      /\ recorded' = [recorded EXCEPT ![r.order] = @ \cup {r.event}]
      /\ Answer(h, 200)
      /\ UNCHANGED driverOf

CommitMilestone(h) ==
  LET r  == api[h]
      to == IF r.event = "PICKED_UP" THEN "PICKED_UP" ELSE "ARRIVED"
  IN  /\ r.at = "commit" /\ r.event \in Milestones /\ MovesTheOrder(r)
      /\ \/ /\ transitionOrder(r.order, r.saw, to)
            /\ phase' = [phase EXCEPT ![r.order] = PHASE_RANK[r.event]]
            /\ recorded' = [recorded EXCEPT ![r.order] = @ \cup {r.event}]
            /\ Answer(h, 200)
         \/ /\ ~CanTransition(r.order, r.saw, to)
            /\ Answer(h, 409)
            /\ UNCHANGED <<phase, recorded, status>>
      /\ UNCHANGED driverOf

\* Any other milestone is an event first, and then an update of the metadata.
RecordMilestone(h) ==
  LET r == api[h]
  IN  /\ r.at = "commit" /\ r.event \in Milestones /\ ~MovesTheOrder(r)
      /\ recorded' = [recorded EXCEPT ![r.order] = @ \cup {r.event}]
      /\ Step(h, "note")
      /\ UNCHANGED <<phase, rowVars>>

WritePhase(h) ==
  LET r == api[h]
  IN  /\ r.at = "note" /\ r.event \in Milestones
      /\ phase' = [phase EXCEPT ![r.order] = PHASE_RANK[r.event]]
      /\ Answer(h, 200)
      /\ UNCHANGED <<recorded, rowVars>>

\* completeDelivery commits first; the event with the key comes after.
CompleteDelivery(h) ==
  LET r == api[h]
  IN  /\ r.at = "commit" /\ r.event = "POD"
      /\ \/ transitionOrder(r.order, "PICKED_UP", "DELIVERED") /\ Step(h, "note")
         \/ /\ ~CanTransition(r.order, "PICKED_UP", "DELIVERED")
            /\ Answer(h, 409)
            /\ UNCHANGED status
      /\ UNCHANGED <<phase, recorded, driverOf>>

RecordPod(h) ==
  LET r == api[h]
  IN  /\ r.at = "note" /\ r.event = "POD"
      /\ recorded' = [recorded EXCEPT ![r.order] = @ \cup {"POD"}]
      /\ Answer(h, 200)
      /\ UNCHANGED <<phase, rowVars>>

Handle(h) ==
  \/ LoadOrder(h) \/ ReplayMilestone(h) \/ ReplayPod(h) \/ CommitMilestone(h)
  \/ RecordMilestone(h) \/ WritePhase(h) \/ CompleteDelivery(h) \/ RecordPod(h)

\* The process dies, or a statement fails: what it committed stays.
HandlerFails(h) ==
  /\ api[h].at \in {"load", "replay", "commit", "note"}
  /\ Answer(h, 500)
  /\ UNCHANGED <<phase, recorded, rowVars>>
=============================================================================
