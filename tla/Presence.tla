------------------------------ MODULE Presence ------------------------------
(*****************************************************************************)
(* The sessions of one driver, statement by statement: the transactions      *)
(* that give him orders and take them off him (orderService.ts,              *)
(* dispatchEngine.ts, driverPresence.ts), his own availability requests and  *)
(* GPS batches (agentDelivery.ts, agent.ts), and what closes his sessions    *)
(* (gpsMonitorService.ts, fleetDiscipline.ts).  PostgreSQL runs them READ    *)
(* COMMITTED: a statement sees what was committed before it, and waits for   *)
(* a row another transaction has written.                                    *)
(*****************************************************************************)
EXTENDS OrderFSM

CONSTANTS Trips,        \* orders that are, or may become, the driver's
          Gratis,       \* those with a delivery fee of zero
          SessionRows,  \* rows of CourierOnlineSession he may come to have
          Calls,        \* requests and jobs the server works on at a time
          NoTrip

ASSUME PresenceAssumption == NoTrip \notin Trips /\ Gratis \subseteq Trips

VARIABLES
  trip,     \* status of the orders, as committed
  session,  \* the sessions
  call      \* what is being worked on

presenceVars == <<trip, session, call>>

Done == [at |-> "idle", trip |-> NoTrip, from |-> "NONE", to |-> "NONE", rows |-> {}]

Availability == {"ONLINE", "BUSY", "OFFLINE"}

\* A row that is not there yet; is "open" what has isOnline.
NoSession == [is |-> "none", availability |-> "OFFLINE", stale |-> FALSE]

Ends == {"DELIVERED", "FAILED", "CANCELLED"}

PresenceInit == /\ trip = [o \in Trips |-> "DISPATCHING"]
                /\ session = [s \in SessionRows |-> NoSession]
                /\ call = [c \in Calls |-> Done]

PresenceTypeOK ==
  /\ trip \in [Trips -> Status]
  /\ session \in [SessionRows -> [is : {"none", "open", "closed"},
                                  availability : Availability, stale : BOOLEAN]]
  /\ call \in [Calls -> [at : {"idle", "move", "settle", "count", "free", "busy", "commit",
                               "find", "set", "ping", "close"},
                         trip : Trips \cup {NoTrip}, from : Status,
                         to : Status \cup Availability, rows : SUBSET SessionRows]]

IsOpen(s) == session[s].is = "open"
OpenRows == {s \in SessionRows : IsOpen(s)}
Reaches(c, at) == call' = [call EXCEPT ![c].at = at]
Finishes(c) == call' = [call EXCEPT ![c] = Done]

(*****************************************************************************)
(* Orders.                                                                   *)
(*****************************************************************************)
\* Between its guarded update and its commit a transaction holds the row of its order.
InTransaction(c) == call[c].at \in {"settle", "count", "free", "busy", "commit"}
RowHeld(o) == \E c \in Calls : call[c].trip = o /\ InTransaction(c)

\* The handler reads the order first.  The app may not report a failure in ARRIVED.
ReadTrip(c, o, to) ==
  /\ call[c].at = "idle"
  /\ to \in Ends \cup {"ASSIGNED"} /\ isTransitionAllowed(trip[o], to)
  /\ to = "FAILED" => trip[o] \in CountedActive
  /\ call' = [call EXCEPT ![c] = [Done EXCEPT !.at = "move", !.trip = o, !.from = trip[o], !.to = to]]
  /\ UNCHANGED <<trip, session>>

\* What comes after the order: a delivery with a fee is settled, a driver who had it is released.
Follows(o, from, to) == CASE to = "ASSIGNED"      -> "busy"
                          [] from \notin Carried  -> "commit"
                          [] to = "DELIVERED"
                               /\ o \notin Gratis -> "settle"
                          [] OTHER                -> "count"

\* transitionOrder, where the order is still what was read; otherwise a conflict.
MoveTrip(c) ==
  LET o == call[c].trip
  IN  /\ call[c].at = "move" /\ ~RowHeld(o)
      /\ \/ trip[o] = call[c].from /\ Reaches(c, Follows(o, call[c].from, call[c].to))
         \/ trip[o] # call[c].from /\ Finishes(c)
      /\ UNCHANGED <<trip, session>>

\* A call that has settled a delivery and not committed it.
Settled(c) == /\ call[c].to = "DELIVERED" /\ call[c].trip \notin Gratis
              /\ call[c].at \in {"count", "free", "commit"}

\* Mutant: the release goes before the settlement and waits for nobody.
SettleLater(c) ==
  /\ call[c].at = "settle"
  /\ Reaches(c, "count")
  /\ UNCHANGED <<trip, session>>

\* The fee of a delivery goes to the account of the platform's revenue, whose row the
\* settlement holds until its commit: another one waits.
SettleTrip(c) ==
  /\ call[c].at = "settle"
  /\ \A b \in Calls : ~Settled(b)
  /\ Reaches(c, "count")
  /\ UNCHANGED <<trip, session>>

\* releaseDriverToOnline counts what else is active: its own order is not, what others
\* have not committed still is.
CountActive(c) ==
  /\ call[c].at = "count"
  /\ \/ /\ \E o \in Trips \ {call[c].trip} : trip[o] \in CountedActive
        /\ Reaches(c, "commit")
     \/ /\ \A o \in Trips \ {call[c].trip} : trip[o] \notin CountedActive
        /\ Reaches(c, "free")
  /\ UNCHANGED <<trip, session>>

Commits(c) == trip' = [trip EXCEPT ![call[c].trip] = call[c].to] /\ Finishes(c)

CommitTrip(c) == call[c].at = "commit" /\ Commits(c) /\ UNCHANGED session

\* What the UPDATE finds when it gets to the rows.
SetRows(S, a) == session' = [s \in SessionRows |->
                               IF s \in S THEN [session[s] EXCEPT !.availability = a] ELSE session[s]]

\* The release, and the commit: nothing but reads is between them.
FreeDriver(c) ==
  /\ call[c].at = "free" /\ Commits(c)
  /\ SetRows({s \in OpenRows : session[s].availability = "BUSY"}, "ONLINE")

\* markDriverBusy, likewise.
OccupyDriver(c) == call[c].at = "busy" /\ Commits(c) /\ SetRows(OpenRows, "BUSY")

\* Arrival and pickup touch no session.
AdvanceTrip(o, to) ==
  /\ to \in {"ARRIVED", "PICKED_UP"} /\ isTransitionAllowed(trip[o], to) /\ ~RowHeld(o)
  /\ trip' = [trip EXCEPT ![o] = to]
  /\ UNCHANGED <<session, call>>

(*****************************************************************************)
(* Sessions.                                                                 *)
(*****************************************************************************)
\* POST /availability: nobody goes OFFLINE with an active order.  The cash ceiling may
\* refuse ONLINE, which leaves everything as it is.
AskAvailability(c, a) ==
  /\ call[c].at = "idle" /\ a \in Availability
  /\ a = "OFFLINE" => \A o \in Trips : trip[o] \notin CountedActive
  /\ call' = [call EXCEPT ![c] = [Done EXCEPT !.at = "find", !.to = a]]
  /\ UNCHANGED <<trip, session>>

\* findFirst of an open session, by the availability request or a GPS batch.
Found(at, to, rows) == [at |-> at, trip |-> NoTrip, from |-> "NONE", to |-> to, rows |-> rows]

Finds(c, at, to) ==
  \/ \E s \in OpenRows : call' = [call EXCEPT ![c] = Found(at, to, {s})]
  \/ OpenRows = {} /\ call' = [call EXCEPT ![c] = Found(at, to, {})]

FindSession(c) == call[c].at = "find" /\ Finds(c, "set", call[c].to) /\ UNCHANGED <<trip, session>>

\* A new session; its first position may be an old one.
Opens(a) == \E s \in SessionRows, old \in BOOLEAN :
              /\ session[s].is = "none"
              /\ session' = [session EXCEPT ![s] = [is |-> "open", availability |-> a, stale |-> old]]

\* Update by the id that was found, or create.
SetAvailability(c) ==
  LET a == call[c].to
  IN  /\ call[c].at = "set" /\ Finishes(c)
      /\ \/ \E s \in call[c].rows :
              session' = [session EXCEPT ![s].availability = a,
                                         ![s].is = IF a = "OFFLINE" THEN "closed" ELSE "open"]
         \/ call[c].rows = {} /\ a # "OFFLINE" /\ Opens(a)
         \/ call[c].rows = {} /\ a = "OFFLINE" /\ UNCHANGED session
      /\ UNCHANGED trip

\* POST /location: a batch may have waited on the phone for long.
IngestLocation(c) ==
  call[c].at = "idle" /\ Finds(c, "ping", "NONE") /\ UNCHANGED <<trip, session>>

\* A session the batch opens has the availability of the schema, OFFLINE.
WriteLocation(c) ==
  /\ call[c].at = "ping" /\ Finishes(c)
  /\ \/ \E s \in call[c].rows, old \in BOOLEAN : session' = [session EXCEPT ![s].stale = old]
     \/ call[c].rows = {} /\ Opens("OFFLINE")
  /\ UNCHANGED trip

GpsAges(s) == /\ IsOpen(s) /\ session' = [session EXCEPT ![s].stale = TRUE]
              /\ UNCHANGED <<trip, call>>

\* sweepStalePresence lists, and closes what it listed by id.
ListStale(c) ==
  LET found == {s \in SessionRows : session[s].availability # "OFFLINE" /\ session[s].stale}
  IN  /\ call[c].at = "idle" /\ found # {}
      /\ call' = [call EXCEPT ![c] = [Done EXCEPT !.at = "close", !.rows = found]]
      /\ UNCHANGED <<trip, session>>

CloseStale(c) ==
  /\ call[c].at = "close" /\ Finishes(c)
  /\ session' = [s \in SessionRows |->
                   IF s \in call[c].rows
                     THEN [session[s] EXCEPT !.is = "closed", !.availability = "OFFLINE"]
                     ELSE session[s]]
  /\ UNCHANGED trip

\* applyFleetDiscipline takes a suspended company's drivers off the list.  Their sessions stay
\* open, and nothing that writes them later asks for the discipline.
SuspendFleet == SetRows(OpenRows, "OFFLINE") /\ UNCHANGED <<trip, call>>

\* A statement fails or the process dies: a transaction leaves nothing behind.
CallFails(c) == call[c].at # "idle" /\ Finishes(c) /\ UNCHANGED <<trip, session>>

Serving ==
  \/ \E c \in Calls :
       \/ \E o \in Trips, to \in Status : ReadTrip(c, o, to)
       \/ MoveTrip(c) \/ SettleTrip(c) \/ CountActive(c)
       \/ CommitTrip(c) \/ FreeDriver(c) \/ OccupyDriver(c)
       \/ \E a \in Availability : AskAvailability(c, a)
       \/ FindSession(c) \/ SetAvailability(c) \/ IngestLocation(c) \/ WriteLocation(c)
       \/ ListStale(c) \/ CloseStale(c) \/ CallFails(c)
  \/ \E o \in Trips, to \in Status : AdvanceTrip(o, to)
  \/ \E s \in SessionRows : GpsAges(s)
  \/ SuspendFleet
=============================================================================
