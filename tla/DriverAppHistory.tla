-------------------------- MODULE DriverAppHistory --------------------------
(*****************************************************************************)
(* DriverApp with a history variable: the orders that a driver's store took  *)
(* past the restaurant by the arrival of another one.  The arrival screen    *)
(* sends the claim of the order it was opened for, and advanceOrder moves    *)
(* whichever order the store shows by then (arrival.tsx, driverStore.ts); a  *)
(* poll between the two may have put another order there.  The variable      *)
(* records what happened and takes part in no guard.                         *)
(*****************************************************************************)
EXTENDS DriverApp

VARIABLE crossed

\* What the store shows of the order is not what its driver reported.
Crosses(d) ==
  /\ app[d].shot # NoOrder /\ app[d].active \notin {NoOrder, app[d].shot}
  /\ app'[d].shot = NoOrder /\ app'[d].active = app[d].active
  /\ app'[d].stage > app[d].stage

Remembers == crossed' = crossed \cup {app[d].active : d \in {e \in Drivers : Crosses(e)}}

hvars == <<vars, crossed>>

HInit == Init /\ crossed = {}
HNext == Next /\ Remembers
HSpec == HInit /\ [][HNext]_hvars

(*****************************************************************************)
(* Properties.                                                               *)
(*****************************************************************************)
\* The server hears of the milestones of an order in their order and misses none,
\* although it would take a pickup without an arrival: the outbox stops at a row that
\* fails, and the store lets its driver go on with nothing he has not reported, unless
\* it took the arrival of another order for his (driverStore.ts, eventOutbox.ts).
MilestonesInOrder ==
  \A o \in Orders \ crossed :
    /\ "PICKED_UP" \in recorded[o] => "ARRIVED_AT_PICKUP" \in recorded[o]
    /\ "ARRIVED_AT_DROPOFF" \in recorded[o] => "PICKED_UP" \in recorded[o]

\* A row leaves the outbox only when what it says has reached the server, or the order
\* is over or crossed: an answer of 409 is taken for that (flushEventOutbox), whichever
\* of several requests with the same key it answers.
Landed(row) ==
  IF row.kind = Photo THEN row.order \in photos
                      ELSE \/ row.kind \in recorded[row.order]
                           \/ Over(row.order) \/ row.order \in crossed

MilestoneKept ==
  [][\A d \in Drivers : \A row \in Rows(d) : row \notin Rows(d)' => Landed(row)']_hvars
=============================================================================
