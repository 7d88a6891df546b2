--------------------------- MODULE BackOfficeProofs ---------------------------
(*****************************************************************************)
(* Theorems about BackOffice, for any number of orders, workers, clerks,     *)
(* invitations, accountants, withdrawals, sessions, calls and proposals,     *)
(* and any number of attempts.                                               *)
(* The desks share no state, so the invariant has one part for each, and a   *)
(* step of one leaves the parts of the others alone.                         *)
(*****************************************************************************)
EXTENDS BackOffice, DecisionsProofs

----------------------------------------------------------------------------
(* The inductive invariant *)

\* A row of FeedTypeOK and its job; what a worker has in hand.
Event == [row : {"none", "RECEIVED", "PROCESSED", "FAILED"}, note : Note, queued : BOOLEAN,
          tries : 0 .. MaxTries, stalls : 0 .. MaxStalled, gone : BOOLEAN]
Job == [at : {"idle", "create", "find", "reread", "cancel", "mark", "fail"},
        key : Hook \cup {<<>>}, saw : Status, note : Note, mine : BOOLEAN]

\* An order nobody has been given has no driver.
RowInv == /\ RowTypeOK
          /\ \A o \in Orders : status[o] \in Unassigned => driverOf[o] = NoDriver

\* Where a cancellation may be marked PROCESSED.
SeenTo(o, note) == Over(o) \/ note \in {"notified", "missing", "rejected", "skipped"}

\* What a worker knows of its job and of the order.
JobInv(w) ==
  LET j == work[w]
  IN  /\ j.at = "idle" => ~j.mine
      /\ j.at # "idle" => j.key \in Hook /\ hook[j.key].row # "none"
      /\ j.at = "create" => j.key[2] = "create"
      /\ j.at \in {"find", "reread", "cancel"} => j.key[2] = "cancel"
      /\ j.at = "cancel" => j.saw \in PRE_PICKUP_STATUSES
      /\ j.at = "mark" /\ j.key[2] = "cancel" => SeenTo(j.key[1], j.note)
      /\ j.mine => ~hook[j.key].queued /\ hook[j.key].tries > 0

\* A job that waits has an attempt left; what is PROCESSED has been seen to.
HookInv(k) ==
  /\ hook[k].queued => hook[k].tries > 0 /\ hook[k].row # "none"
  /\ k[2] = "cancel" /\ hook[k].row = "PROCESSED" => SeenTo(k[1], hook[k].note)

\* The queue has given a job to one worker.
SoleOwner ==
  \A v, w \in Workers : work[v].mine /\ work[w].mine /\ work[v].key = work[w].key => v = w

FeedInv == /\ FeedTypeOK
           /\ \A w \in Workers : JobInv(w)
           /\ \A k \in Hook : HookInv(k)
           /\ SoleOwner

\* Nothing of an item has happened before it is decided, and the clerk who has claimed an
\* invitation is the only one, and has its password still to set.
ClaimsInv ==
  /\ ClaimsTypeOK
  /\ \A i \in Items : verdict[i] \in {"none", "open"} => \A e \in Effect : applied[i][e] = 0
  /\ \A c \in Clerks :
       /\ clerk[c].at \in {"claim", "password"} => clerk[c].on \in Invites
       /\ clerk[c].at = "password" => /\ verdict[clerk[c].on] = "redeemed"
                                      /\ applied[clerk[c].on]["password"] = 0
  /\ \A b, c \in Clerks :
       clerk[b].at = "password" /\ clerk[c].at = "password" /\ clerk[b].on = clerk[c].on => b = c

\* Whoever confirms has a file or there is one; whoever pays anything has seen it confirmed.
StatementInv ==
  /\ statement = "NONE" => total = 0
  /\ statement = "CONFIRMED" => invoiced
  /\ \A a \in Accountants :
       /\ desk[a].at = "confirm" => desk[a].file \/ invoiced
       /\ desk[a].at = "pay" => statement # "NONE" /\ (total = 0 \/ invoiced)

Transferred == \E w \in Withdrawals : withdrawal[w] = "WITHDRAWN"

\* Whoever is about to write PAID has settled a withdrawal.
WithdrawalInv ==
  \A a \in Accountants : /\ desk[a].at = "settled" => Transferred
                         /\ desk[a].at \in {"settle", "fail"} => desk[a].on \in Withdrawals

PayInv == PayoutTypeOK /\ StatementInv /\ PaidIsBooked /\ WithdrawalInv /\ PaidHasTransfer

\* A session and a call of PresenceTypeOK; what a call knows at its stage.
SessionState == [is : {"none", "open", "closed"}, availability : Availability, stale : BOOLEAN]
CallState == [at : {"idle", "move", "settle", "count", "free", "busy", "commit",
                    "find", "set", "ping", "close"},
              trip : Trips \cup {NoTrip}, from : Status,
              to : Status \cup Availability, rows : SUBSET SessionRows]
OfTrip == {"move", "settle", "count", "free", "busy", "commit"}
Sound(k) == /\ k.at \in OfTrip => k.trip \in Trips /\ k.to \in Ends \cup {"ASSIGNED"}
            /\ k.at \in OfTrip /\ k.to = "DELIVERED" => k.from = "PICKED_UP"
            /\ k.at = "busy" => k.to = "ASSIGNED"
            /\ k.at \in {"find", "set"} => k.to \in Availability

SessionsInv == session \in [SessionRows -> SessionState]
CallsInv == call \in [Calls -> CallState] /\ \A c \in Calls : Sound(call[c])

\* Settled, of a call that is not there yet.
Pays(k) == k.to = "DELIVERED" /\ k.trip \notin Gratis /\ k.at \in {"count", "free", "commit"}

\* The revenue account is held by one call.
OneSettles == \A b, c \in Calls : Settled(b) /\ Settled(c) => b = c

\* An order that is not delivered for a fee, or not yet.
Occupies(o) == \/ trip[o] \in Carried \cup {"FAILED", "CANCELLED"}
               \/ trip[o] = "DELIVERED" /\ o \in Gratis

\* A delivery that does not release its driver has counted such an order.
Detained(c) == Settled(c) /\ call[c].at = "commit" => \E o \in Trips \ {call[c].trip} : Occupies(o)

PresInv == /\ trip \in [Trips -> Status] /\ SessionsInv /\ CallsInv
           /\ OneSettles
           /\ \A c \in Calls : Detained(c)

IInv == RowInv /\ FeedInv /\ ClaimsInv /\ PayInv /\ PresInv /\ DecInv

----------------------------------------------------------------------------
(* The order's row *)

\* The moves other people make of an order, with its driver.
LEMMA MovesKeepRow ==
  ASSUME RowInv, NEW o \in Orders, NEW to \in Status, isTransitionAllowed(status[o], to),
         status' = [status EXCEPT ![o] = to],
         IF to = "ASSIGNED" THEN \E d \in Drivers : driverOf' = [driverOf EXCEPT ![o] = d]
                            ELSE UNCHANGED driverOf
  PROVE  RowInv'
<1>1. RowTypeOK'
  BY DEF RowInv, RowTypeOK
<1>2. to \in Unassigned => status[o] \in Unassigned
  BY DEF RowInv, RowTypeOK, isTransitionAllowed, ALLOWED, Unassigned, Status
<1>3. to = "ASSIGNED" => to \notin Unassigned
  BY DEF Unassigned
<1> QED  BY <1>1, <1>2, <1>3 DEF RowInv, RowTypeOK

\* An order that is over stays over.
LEMMA StaysOver ==
  ASSUME RowInv, NEW o \in Orders, NEW to \in Status, isTransitionAllowed(status[o], to),
         status' = [status EXCEPT ![o] = to], NEW p \in Orders, Over(p)
  PROVE  Over(p)'
BY DEF RowInv, RowTypeOK, isTransitionAllowed, ALLOWED, Over, Status

----------------------------------------------------------------------------
(* The Foodics feed *)

LEMMA FeedTyped == FeedTypeOK <=> hook \in [Hook -> Event] /\ work \in [Workers -> Job]
BY DEF FeedTypeOK, Event, Job

LEMMA FeedTypedNext == FeedTypeOK' <=> hook' \in [Hook -> Event] /\ work' \in [Workers -> Job]
BY DEF FeedTypeOK, Event, Job

\* A step of one worker that changes no webhook row.
LEMMA WorkerMoves ==
  ASSUME FeedInv, NEW w \in Workers, UNCHANGED hook,
         FeedTypeOK', \A v \in Workers : v # w => work'[v] = work[v],
         work'[w].key = work[w].key, work'[w].mine = work[w].mine, JobInv(w)',
         \A o \in Orders : Over(o) => Over(o)'
  PROVE  FeedInv'
<1>1. \A v \in Workers : JobInv(v)'
  <2> SUFFICES ASSUME NEW v \in Workers, v # w
               PROVE  JobInv(v)'
    OBVIOUS
  <2>1. work'[v] = work[v]
    OBVIOUS
  <2>2. work[v].at = "mark" => work[v].key[1] \in Orders
    BY DEF FeedInv, JobInv, Hook
  <2> QED  BY <2>1, <2>2 DEF FeedInv, JobInv, SeenTo
<1>2. \A k \in Hook : HookInv(k)'
  BY DEF FeedInv, HookInv, SeenTo, Hook
<1>3. SoleOwner'
  <2>1. \A v \in Workers : work'[v].key = work[v].key /\ work'[v].mine = work[v].mine
    OBVIOUS
  <2> QED  BY <2>1 DEF FeedInv, SoleOwner
<1> QED  BY <1>1, <1>2, <1>3 DEF FeedInv

\* A step of one worker that writes the row of one webhook, and may end the work on it.
LEMMA RowWritten ==
  ASSUME FeedInv, UNCHANGED status, NEW w \in Workers, NEW k \in Hook, NEW h, NEW j, FeedTypeOK',
         hook' = [hook EXCEPT ![k] = h], work' = [work EXCEPT ![w] = j],
         JobInv(w)', HookInv(k)',
         hook[k].row # "none" => h.row # "none",
         \A v \in Workers \ {w} : work[v].mine /\ work[v].key = k => ~h.queued /\ h.tries > 0,
         j.mine => \A v \in Workers \ {w} : ~(work[v].mine /\ work[v].key = j.key)
  PROVE  FeedInv'
<1>1. hook'[k] = h /\ \A x \in Hook : x # k => hook'[x] = hook[x]
  BY DEF FeedInv, FeedTypeOK
<1>2. work'[w] = j /\ \A v \in Workers : v # w => work'[v] = work[v]
  BY DEF FeedInv, FeedTypeOK
<1>3. \A v \in Workers : JobInv(v)'
  <2> SUFFICES ASSUME NEW v \in Workers, v # w
               PROVE  JobInv(v)'
    OBVIOUS
  <2>1. work'[v] = work[v] /\ JobInv(v)
    BY <1>2 DEF FeedInv
  <2>2. hook[work[v].key].row # "none" /\ work[v].key \in Hook => hook'[work[v].key].row # "none"
    BY <1>1
  <2>3. work[v].mine => ~hook'[work[v].key].queued /\ hook'[work[v].key].tries > 0
    <3>1. work[v].mine => work[v].key \in Hook
      BY <2>1 DEF JobInv, FeedInv, FeedTypeOK
    <3> QED  BY <1>1, <2>1, <3>1 DEF JobInv
  <2> QED  BY <2>1, <2>2, <2>3 DEF JobInv, SeenTo, Over
<1>4. \A x \in Hook : HookInv(x)'
  <2> SUFFICES ASSUME NEW x \in Hook, x # k
               PROVE  HookInv(x)'
    OBVIOUS
  <2> QED  BY <1>1 DEF FeedInv, HookInv, SeenTo, Over
<1>5. SoleOwner'
  BY <1>2 DEF FeedInv, SoleOwner
<1> QED  BY <1>3, <1>4, <1>5 DEF FeedInv

LEMMA KeyKnown ==
  ASSUME FeedInv, NEW w \in Workers, work[w].at # "idle"
  PROVE  work[w].key \in Hook /\ work[w].key[1] \in Orders /\ work[w].key[2] \in {"create", "cancel"}
BY DEF FeedInv, JobInv, Hook

LEMMA ReceiveKeeps ==
  ASSUME FeedInv, NEW k \in Hook, Receive(k)
  PROVE  FeedInv'
<1>1. PICK queued \in BOOLEAN :
        hook' = [hook EXCEPT ![k] = [@ EXCEPT !.row = "RECEIVED", !.queued = queued,
                                              !.tries = IF queued THEN MaxTries ELSE 0]]
  BY DEF Receive
<1>2. /\ hook'[k] = [hook[k] EXCEPT !.row = "RECEIVED", !.queued = queued,
                                   !.tries = IF queued THEN MaxTries ELSE 0]
      /\ \A x \in Hook : x # k => hook'[x] = hook[x]
      /\ UNCHANGED <<work, status>> /\ hook[k].row = "none"
  BY <1>1 DEF Receive, FeedInv, FeedTypeOK, rowVars
<1>3. FeedTypeOK'
  <2> DEFINE n == IF queued THEN MaxTries ELSE 0
  <2>1. n \in 0 .. MaxTries
    BY FeedAssumption
  <2> HIDE DEF n
  <2>2. [hook[k] EXCEPT !.row = "RECEIVED", !.queued = queued, !.tries = n] \in Event
    <3>1. hook[k] \in Event
      BY FeedTyped DEF FeedInv
    <3> QED  BY <2>1, <3>1 DEF Event
  <2>3. hook'[k] \in Event
    BY <1>2, <2>2 DEF n
  <2>4. hook' = [hook EXCEPT ![k] = hook'[k]]
    BY <1>1 DEF FeedInv, FeedTypeOK
  <2> QED  BY <1>2, <2>3, <2>4, FeedTyped, FeedTypedNext DEF FeedInv
<1>4. \A w \in Workers : JobInv(w)'
  <2> TAKE w \in Workers
  <2>1. work[w].mine => work[w].at # "idle"
    BY DEF FeedInv, JobInv, FeedTypeOK
  <2> QED  BY <1>2, <2>1 DEF FeedInv, JobInv, SeenTo, Over
<1>5. \A x \in Hook : HookInv(x)'
  <2>1. HookInv(k)'
    <3>1. hook[k] \in Event
      BY FeedTyped DEF FeedInv
    <3>2. /\ hook'[k].row = "RECEIVED" /\ hook'[k].queued = queued
          /\ hook'[k].tries = IF queued THEN MaxTries ELSE 0
      BY <1>2, <3>1 DEF Event
    <3>3. hook'[k].queued => hook'[k].tries > 0
      BY <3>2, FeedAssumption
    <3>4. hook'[k].row # "none" /\ hook'[k].row # "PROCESSED"
      BY <3>2
    <3> QED  BY <3>3, <3>4 DEF HookInv
  <2> SUFFICES ASSUME NEW x \in Hook, x # k
               PROVE  HookInv(x)'
    BY <2>1
  <2>2. hook'[x] = hook[x] /\ status' = status /\ HookInv(x)
    BY <1>2 DEF FeedInv
  <2> QED  BY <2>2 DEF HookInv, SeenTo, Over
<1>6. SoleOwner'
  BY <1>2 DEF FeedInv, SoleOwner
<1> QED  BY <1>3, <1>4, <1>5, <1>6 DEF FeedInv

LEMMA TakeKeeps ==
  ASSUME FeedInv, NEW w \in Workers, NEW k \in Hook, Take(w, k)
  PROVE  FeedInv'
<1> DEFINE h == [hook[k] EXCEPT !.queued = FALSE]
<1>1. hook[k] \in Event /\ hook[k].queued /\ hook[k].tries > 0 /\ hook[k].row # "none"
      /\ hook' = [hook EXCEPT ![k] = h] /\ UNCHANGED <<status>>
      /\ ~work[w].mine
  BY DEF Take, FeedInv, FeedTypeOK, HookInv, JobInv, rowVars, Event
<1>2. \A v \in Workers : ~(work[v].mine /\ work[v].key = k)
  BY <1>1 DEF FeedInv, JobInv
<1>3. hook'[k] = h /\ h.row = hook[k].row /\ h.tries = hook[k].tries /\ ~h.queued /\ h.note = hook[k].note
  BY <1>1 DEF FeedInv, FeedTypeOK
<1>4. HookInv(k)'
  BY <1>3, <1>1 DEF FeedInv, HookInv, SeenTo, Over
<1>5. CASE hook[k].row = "PROCESSED"
  <2>1. work' = [work EXCEPT ![w] = work[w]] /\ UNCHANGED work
    BY <1>5 DEF Take, FeedInv, FeedTypeOK
  <2>2. FeedTypeOK'
    <3>1. h \in Event
      BY <1>1 DEF Event
    <3> QED  BY <1>1, <2>1, <3>1, FeedTyped, FeedTypedNext DEF FeedInv
  <2>3. JobInv(w)'
    <3>1. work[w].at # "idle" => FALSE
      BY DEF Take
    <3> QED  BY <1>1, <2>1, <3>1 DEF JobInv
  <2> QED  BY <1>1, <1>2, <1>3, <1>4, <2>1, <2>2, <2>3, RowWritten
<1>6. CASE hook[k].row # "PROCESSED"
  <2>1. PICK at \in {"mark", IF k[2] = "create" THEN "create" ELSE "find"},
             n \in {"skipped", "none"} :
          /\ work' = [work EXCEPT ![w] = [Resting EXCEPT !.key = k, !.at = at, !.mine = TRUE, !.note = n]]
          /\ at = "mark" => n = "skipped"
    BY <1>6 DEF Take
  <2> DEFINE j == [Resting EXCEPT !.key = k, !.at = at, !.mine = TRUE, !.note = n]
  <2>2. j.at = at /\ j.key = k /\ j.saw = "NONE" /\ j.note = n /\ j.mine = TRUE
    BY DEF Resting
  <2>3. work'[w] = j
    BY <2>1 DEF FeedInv, FeedTypeOK
  <2>4. k[2] \in {"create", "cancel"}
    BY DEF Hook
  <2>6. j \in Job
    BY <2>2, <2>4 DEF Job, Note, Status, Resting
  <2>8. work' = [work EXCEPT ![w] = j]
    BY <2>1
  <2> HIDE DEF j
  <2>5. JobInv(w)'
    <3>1. hook'[k].row # "none" /\ ~hook'[k].queued /\ hook'[k].tries > 0
      BY <1>1, <1>3
    <3> QED  BY <2>1, <2>2, <2>3, <2>4, <3>1 DEF JobInv, SeenTo
  <2>7. FeedTypeOK'
    <3>1. h \in Event
      BY <1>1 DEF Event
    <3> HIDE DEF h
    <3> QED  BY <1>1, <2>8, <2>6, <3>1, FeedTyped, FeedTypedNext DEF FeedInv
  <2> HIDE DEF h
  <2>9. hook[k].row # "none" => h.row # "none"
    BY <1>3
  <2>10. j.mine => \A v \in Workers \ {w} : ~(work[v].mine /\ work[v].key = j.key)
    BY <1>2, <2>2
  <2> QED  BY <1>1, <1>2, <1>4, <2>5, <2>7, <2>8, <2>9, <2>10, RowWritten
<1> QED  BY <1>5, <1>6

\* The forms a step of a job takes in the middle of it.
GoesTo(w, at, saw, note) ==
  \/ work' = [work EXCEPT ![w].at = at, ![w].saw = saw] /\ note = work[w].note
  \/ work' = [work EXCEPT ![w].at = at, ![w].saw = saw, ![w].note = note]

LEMMA WorkAfter ==
  ASSUME FeedInv, NEW w \in Workers, NEW at \in {"reread", "cancel", "mark", "fail"},
         NEW saw \in Status, NEW note \in Note, UNCHANGED hook,
         GoesTo(w, at, saw, note)
  PROVE  /\ FeedTypeOK'
         /\ \A v \in Workers : v # w => work'[v] = work[v]
         /\ work'[w].at = at /\ work'[w].saw = saw /\ work'[w].note = note
         /\ work'[w].key = work[w].key /\ work'[w].mine = work[w].mine
<1>1. work \in [Workers -> Job]
  BY FeedTyped DEF FeedInv
<1>2. /\ \A v \in Workers : v # w => work'[v] = work[v]
      /\ work'[w].at = at /\ work'[w].saw = saw /\ work'[w].note = note
      /\ work'[w].key = work[w].key /\ work'[w].mine = work[w].mine
  BY <1>1 DEF Job, GoesTo
<1>3. work' \in [Workers -> Job]
  BY <1>1 DEF Job, GoesTo
<1> QED  BY <1>2, <1>3, FeedTyped, FeedTypedNext DEF FeedInv

\* A job goes on after a step that leaves what is over over.
LEMMA JobGoesOn ==
  ASSUME FeedInv, NEW w \in Workers, work[w].at # "idle",
         NEW at \in {"reread", "cancel", "mark", "fail"}, NEW saw \in Status, NEW note \in Note,
         UNCHANGED hook,
         GoesTo(w, at, saw, note),
         at \in {"reread", "cancel"} => work[w].key[2] = "cancel",
         at = "cancel" => saw \in PRE_PICKUP_STATUSES,
         at = "mark" /\ work[w].key[2] = "cancel"
           => \A o \in Orders : o = work[w].key[1] => SeenTo(o, note)',
         \A o \in Orders : Over(o) => Over(o)'
  PROVE  FeedInv'
<1>1. /\ FeedTypeOK'
      /\ \A v \in Workers : v # w => work'[v] = work[v]
      /\ work'[w].at = at /\ work'[w].saw = saw /\ work'[w].note = note
      /\ work'[w].key = work[w].key /\ work'[w].mine = work[w].mine
  BY WorkAfter
<1>2. JobInv(w)
  BY DEF FeedInv
<1>3. JobInv(w)'
  BY <1>1, <1>2, KeyKnown DEF JobInv, SeenTo, Over
<1> QED  BY <1>1, <1>3, WorkerMoves

LEMMA CreateKeeps ==
  ASSUME RowInv, FeedInv, NEW w \in Workers, CreateOrder(w)
  PROVE  RowInv' /\ FeedInv'
<1>1. work[w].at = "create" /\ work[w].key[2] = "create" /\ work[w].key[1] \in Orders
  BY KeyKnown DEF CreateOrder, FeedInv, JobInv
<1>2. RowInv' /\ \A o \in Orders : Over(o) => Over(o)'
  BY <1>1 DEF CreateOrder, RowInv, RowTypeOK, Intake, Status, Unassigned, Over
<1>3. PICK note \in {"done", "duplicate"} : ToMark(w, note)
  BY DEF CreateOrder
<1>4. "NONE" \in Status /\ note \in Note
  BY DEF Status, Note
<1>5. FeedInv'
  BY <1>1, <1>2, <1>3, <1>4, JobGoesOn DEF GoesTo, ToMark, CreateOrder
<1> QED  BY <1>2, <1>5

LEMMA FindKeeps ==
  ASSUME RowInv, FeedInv, NEW w \in Workers, FindOrder(w)
  PROVE  RowInv' /\ FeedInv'
<1> DEFINE o == work[w].key[1]
<1>1. work[w].at = "find" /\ work[w].key[2] = "cancel" /\ o \in Orders
  BY KeyKnown DEF FindOrder, FeedInv, JobInv
<1>2. UNCHANGED <<hook, status, driverOf>>
  BY DEF FindOrder, rowVars
<1>3. "NONE" \in Status /\ work[w].note \in Note
  BY DEF Status, Note, FeedInv, FeedTypeOK
<1>4. CASE To(w, "reread")
  BY <1>1, <1>2, <1>3, <1>4, JobGoesOn DEF GoesTo, To, Over, RowInv, RowTypeOK
<1>5. ASSUME NEW note \in {"missing", "rejected", "terminal", "notified"}, ToMark(w, note),
             note = "terminal" => Over(o)
      PROVE  RowInv' /\ FeedInv'
  <2>1. (\A p \in Orders : p = o => SeenTo(p, note)') /\ note \in Note
    BY <1>2, <1>5 DEF SeenTo, Note, Over
  <2> QED  BY <1>1, <1>2, <1>3, <1>5, <2>1, JobGoesOn DEF GoesTo, ToMark, Over, RowInv, RowTypeOK
<1> QED  BY <1>4, <1>5 DEF FindOrder, TERMINAL_STATUSES, Over

LEMMA RereadKeeps ==
  ASSUME RowInv, FeedInv, NEW w \in Workers, RereadOrder(w)
  PROVE  RowInv' /\ FeedInv'
<1> DEFINE s == status[work[w].key[1]]
<1>1. work[w].at = "reread" /\ work[w].key[2] = "cancel" /\ work[w].key[1] \in Orders
  BY KeyKnown DEF RereadOrder, FeedInv, JobInv
<1>2. UNCHANGED <<hook, status, driverOf>>
  BY DEF RereadOrder, rowVars
<1>3. "NONE" \in Status /\ s \in Status /\ work[w].note \in Note
  BY <1>1 DEF Status, Note, FeedInv, FeedTypeOK, RowInv, RowTypeOK
<1>4. CASE s \in PRE_PICKUP_STATUSES /\ work' = [work EXCEPT ![w].at = "cancel", ![w].saw = s]
  BY <1>1, <1>2, <1>3, <1>4, JobGoesOn DEF GoesTo, Over, RowInv, RowTypeOK
<1>5. CASE To(w, "fail")
  BY <1>1, <1>2, <1>3, <1>5, JobGoesOn DEF GoesTo, To, Over, RowInv, RowTypeOK
<1> QED  BY <1>4, <1>5 DEF RereadOrder

LEMMA CancelKeeps ==
  ASSUME RowInv, FeedInv, NEW w \in Workers, CancelOrder(w)
  PROVE  RowInv' /\ FeedInv'
<1> DEFINE o == work[w].key[1]
<1>1. work[w].at = "cancel" /\ work[w].key[2] = "cancel" /\ o \in Orders
  BY KeyKnown DEF CancelOrder, FeedInv, JobInv
<1>2. UNCHANGED <<hook, driverOf>>
  BY DEF CancelOrder
<1>3. "NONE" \in Status /\ work[w].note \in Note /\ "done" \in Note
  BY DEF Status, Note, FeedInv, FeedTypeOK
<1>4. CASE transitionOrder(o, work[w].saw, "CANCELLED") /\ ToMark(w, "done")
  <2>1. isTransitionAllowed(status[o], "CANCELLED") /\ status' = [status EXCEPT ![o] = "CANCELLED"]
    BY <1>4 DEF transitionOrder, CanTransition
  <2>2. "CANCELLED" \in Status /\ "CANCELLED" # "ASSIGNED"
    BY DEF Status
  <2>3. RowInv' /\ \A p \in Orders : Over(p) => Over(p)'
    BY <1>1, <1>2, <2>1, <2>2, MovesKeepRow, StaysOver
  <2>4. \A p \in Orders : p = o => SeenTo(p, "done")'
    BY <1>1, <2>1 DEF SeenTo, Over, RowInv, RowTypeOK
  <2> QED  BY <1>1, <1>2, <1>3, <1>4, <2>3, <2>4, JobGoesOn DEF GoesTo, ToMark
<1>5. CASE To(w, "fail") /\ UNCHANGED status
  BY <1>1, <1>2, <1>3, <1>5, JobGoesOn DEF GoesTo, To, Over, RowInv, RowTypeOK
<1> QED  BY <1>4, <1>5 DEF CancelOrder

LEMMA JobFailsKeeps ==
  ASSUME RowInv, FeedInv, NEW w \in Workers, JobFails(w)
  PROVE  RowInv' /\ FeedInv'
<1>1. /\ work[w].at \in {"create", "find", "reread", "cancel"} /\ To(w, "fail")
      /\ UNCHANGED <<hook, status, driverOf>>
  BY DEF JobFails, rowVars
<1>2. "NONE" \in Status /\ work[w].note \in Note
  BY DEF Status, Note, FeedInv, FeedTypeOK
<1> QED  BY <1>1, <1>2, JobGoesOn DEF GoesTo, To, Over, RowInv, RowTypeOK

LEMMA RestingIdle == Resting.at = "idle" /\ Resting.mine = FALSE /\ Resting \in Job
BY DEF Resting, Job, Status, Note

\* The end of a job: its worker rests, and the row gets what h says.
LEMMA JobEnds ==
  ASSUME RowInv, FeedInv, NEW w \in Workers, NEW h \in Event, work[w].at # "idle",
         hook' = [hook EXCEPT ![work[w].key] = h], work' = [work EXCEPT ![w] = Resting],
         UNCHANGED rowVars,
         h.row = hook[work[w].key].row \/ h.row \in {"PROCESSED", "FAILED"},
         h.row = "PROCESSED" /\ work[w].key[2] = "cancel" => SeenTo(work[w].key[1], h.note),
         IF work[w].mine THEN h.queued => h.tries > 0
                         ELSE h.queued = hook[work[w].key].queued /\ h.tries = hook[work[w].key].tries
  PROVE  RowInv' /\ FeedInv'
<1> PICK k \in Hook : k = work[w].key
  BY KeyKnown
<1>1. JobInv(w) /\ HookInv(k) /\ hook[k].row # "none" /\ UNCHANGED <<status, driverOf>>
  BY KeyKnown DEF FeedInv, JobInv, rowVars
<1>2. /\ work \in [Workers -> Job] /\ hook \in [Hook -> Event]
      /\ work'[w] = Resting /\ hook'[k] = h
  BY <1>1, FeedTyped DEF FeedInv
<1>3. FeedTypeOK'
  BY <1>1, <1>2, FeedTypedNext, RestingIdle
<1>4. JobInv(w)'
  BY <1>2, RestingIdle DEF JobInv
<1>5. HookInv(k)'
  BY <1>1, <1>2 DEF HookInv, SeenTo, Over
<1>6. \A v \in Workers \ {w} : work[v].mine /\ work[v].key = k => ~h.queued /\ h.tries > 0
  <2> SUFFICES ASSUME NEW v \in Workers \ {w}, work[v].mine, work[v].key = k
               PROVE  ~h.queued /\ h.tries > 0
    OBVIOUS
  <2>1. ~work[w].mine
    BY DEF FeedInv, SoleOwner
  <2> QED  BY <2>1 DEF FeedInv, JobInv
<1>7. FeedInv'
  BY <1>1, <1>3, <1>4, <1>5, <1>6, RestingIdle, RowWritten
<1> QED  BY <1>1, <1>7 DEF RowInv, RowTypeOK

LEMMA EventFields ==
  ASSUME FeedInv, NEW k \in Hook
  PROVE  /\ hook[k] \in Event /\ hook[k].tries \in 0 .. MaxTries
         /\ hook[k].queued \in BOOLEAN /\ hook[k].stalls \in 0 .. MaxStalled
BY FeedTyped DEF FeedInv, Event

LEMMA EndedFields ==
  ASSUME NEW e \in Event, NEW gone \in BOOLEAN
  PROVE  /\ Ended(e, gone) \in Event /\ Ended(e, gone).row = e.row /\ Ended(e, gone).note = e.note
         /\ Ended(e, gone).queued = e.queued /\ Ended(e, gone).tries = 0
<1>1. 0 \in 0 .. MaxTries /\ 0 \in 0 .. MaxStalled
  BY FeedAssumption
<1> QED  BY <1>1 DEF Ended, Event

LEMMA MarkKeeps ==
  ASSUME RowInv, FeedInv, NEW w \in Workers, MarkProcessed(w) \/ MarkLost(w)
  PROVE  RowInv' /\ FeedInv'
<1> DEFINE k == work[w].key
<1>1. /\ work[w].at = "mark" /\ k \in Hook /\ JobInv(w) /\ hook[k] \in Event
      /\ work' = [work EXCEPT ![w] = Resting] /\ UNCHANGED rowVars /\ work[w].note \in Note
      /\ hook \in [Hook -> Event]
  BY KeyKnown, EventFields, FeedTyped DEF MarkProcessed, MarkLost, FeedInv, Job
<1>2. CASE MarkProcessed(w)
  <2> DEFINE done == [hook[k] EXCEPT !.row = "PROCESSED", !.note = work[w].note]
             h    == IF work[w].mine THEN Ended(done, FALSE) ELSE done
  <2>1. hook' = [hook EXCEPT ![k] = h]
    BY <1>2 DEF MarkProcessed
  <2>4. /\ done \in Event /\ done.row = "PROCESSED" /\ done.note = work[w].note
        /\ done.queued = hook[k].queued /\ done.tries = hook[k].tries
    BY <1>1 DEF Event
  <2> HIDE DEF done
  <2>2. /\ h \in Event /\ h.row = "PROCESSED" /\ h.note = work[w].note
        /\ h.queued = hook[k].queued /\ (~work[w].mine => h.tries = hook[k].tries)
    BY <2>4, EndedFields
  <2> HIDE DEF h
  <2>3. /\ h.row = "PROCESSED" /\ k[2] = "cancel" => SeenTo(k[1], h.note)
        /\ work[w].mine => ~h.queued
    BY <1>1, <2>2 DEF JobInv
  <2> QED  BY <1>1, <2>1, <2>2, <2>3, JobEnds
<1>3. CASE MarkLost(w)
  <2> DEFINE h == IF work[w].mine THEN Ended(hook[k], TRUE) ELSE hook[k]
  <2>1. hook' = [hook EXCEPT ![k] = h]
    BY <1>1, <1>3 DEF MarkLost
  <2>2. /\ h \in Event /\ h.row = hook[k].row /\ h.note = hook[k].note
        /\ h.queued = hook[k].queued /\ (~work[w].mine => h.tries = hook[k].tries)
    BY <1>1, EndedFields
  <2> HIDE DEF h
  <2>3. /\ h.row = "PROCESSED" /\ k[2] = "cancel" => SeenTo(k[1], h.note)
        /\ work[w].mine => ~h.queued
    BY <1>1, <2>2 DEF JobInv, FeedInv, HookInv
  <2> QED  BY <1>1, <2>1, <2>2, <2>3, JobEnds
<1> QED  BY <1>2, <1>3

LEMMA MarkFailedKeeps ==
  ASSUME RowInv, FeedInv, NEW w \in Workers, MarkFailed(w)
  PROVE  RowInv' /\ FeedInv'
<1> DEFINE k      == work[w].key
           failed == [hook[k] EXCEPT !.row = "FAILED", !.note = "none"]
           h      == IF ~work[w].mine THEN failed
                     ELSE IF failed.tries = 1 THEN Ended(failed, FALSE)
                     ELSE [failed EXCEPT !.tries = @ - 1, !.queued = TRUE]
<1>1. /\ work[w].at = "fail" /\ k \in Hook /\ JobInv(w) /\ hook[k] \in Event
      /\ work' = [work EXCEPT ![w] = Resting] /\ UNCHANGED rowVars
      /\ hook' = [hook EXCEPT ![k] = h] /\ hook[k].tries \in 0 .. MaxTries
  BY KeyKnown, EventFields DEF MarkFailed, FeedInv
<1>2. /\ failed \in Event /\ failed.row = "FAILED" /\ failed.tries = hook[k].tries
      /\ failed.queued = hook[k].queued
  BY <1>1 DEF Event, Note
<1> HIDE DEF failed
<1>3. /\ h \in Event /\ h.row = "FAILED"
      /\ IF work[w].mine THEN h.queued => h.tries > 0
                         ELSE h.queued = hook[k].queued /\ h.tries = hook[k].tries
  <2>1. CASE ~work[w].mine
    BY <1>2, <2>1
  <2>2. CASE work[w].mine
    <3>1. hook[k].tries \in 1 .. MaxTries /\ ~hook[k].queued
      BY <1>1, <2>2 DEF JobInv
    <3>2. CASE failed.tries = 1
      BY <1>2, <2>2, <3>1, <3>2, EndedFields
    <3>3. CASE failed.tries # 1
      <4>1. failed.tries - 1 \in 0 .. MaxTries /\ failed.tries - 1 > 0
        BY <1>2, <3>1, <3>3, FeedAssumption
      <4> QED  BY <1>2, <2>2, <3>1, <3>3, <4>1 DEF Event
    <3> QED  BY <3>2, <3>3
  <2> QED  BY <2>1, <2>2
<1> HIDE DEF h
<1> QED  BY <1>1, <1>3, JobEnds

LEMMA StallKeeps ==
  ASSUME RowInv, FeedInv, NEW w \in Workers, WorkerStalls(w)
  PROVE  RowInv' /\ FeedInv'
<1>1. work[w].mine /\ work[w].at # "idle" /\ JobInv(w) /\ UNCHANGED rowVars
  BY FeedTyped DEF WorkerStalls, FeedInv, JobInv, Job
<1> PICK k \in Hook : k = work[w].key
  BY <1>1, KeyKnown
<1>2. /\ hook[k] \in Event /\ ~hook[k].queued /\ hook[k].tries > 0
      /\ hook[k].stalls \in 0 .. MaxStalled /\ hook \in [Hook -> Event] /\ work \in [Workers -> Job]
      /\ hook[k].row # "none" /\ HookInv(k)
  BY <1>1, KeyKnown, EventFields, FeedTyped DEF FeedInv, JobInv
<1>3. PICK h \in Event : /\ hook' = [hook EXCEPT ![k] = h]
                         /\ h.row = hook[k].row /\ h.note = hook[k].note
                         /\ h.queued => h.tries > 0
  <2>1. CASE hook[k].stalls < MaxStalled /\ hook' = [hook EXCEPT ![k].stalls = @ + 1, ![k].queued = TRUE]
    <3> DEFINE h == [hook[k] EXCEPT !.stalls = @ + 1, !.queued = TRUE]
    <3>1. hook[k].stalls + 1 \in 0 .. MaxStalled
      BY <1>2, <2>1, FeedAssumption
    <3>2. h \in Event /\ h.row = hook[k].row /\ h.note = hook[k].note /\ h.tries = hook[k].tries
      BY <1>2, <3>1 DEF Event
    <3>3. hook' = [hook EXCEPT ![k] = h]
      BY <1>2, <2>1
    <3> HIDE DEF h
    <3> QED  BY <1>2, <3>2, <3>3
  <2>2. CASE hook' = [hook EXCEPT ![k] = Ended(@, TRUE)]
    <3> DEFINE h == Ended(hook[k], TRUE)
    <3>1. h \in Event /\ h.row = hook[k].row /\ h.note = hook[k].note /\ h.queued = hook[k].queued
      BY <1>2, EndedFields
    <3>2. hook' = [hook EXCEPT ![k] = h]
      BY <1>2, <2>2
    <3> HIDE DEF h
    <3> QED  BY <1>2, <3>1, <3>2
  <2> QED  BY <2>1, <2>2 DEF WorkerStalls
<1>4. CASE work' = [work EXCEPT ![w] = Resting]
  <2>1. h.row = "PROCESSED" /\ k[2] = "cancel" => SeenTo(k[1], h.note)
    BY <1>2, <1>3 DEF HookInv
  <2> QED  BY <1>1, <1>2, <1>3, <1>4, <2>1, JobEnds
<1>5. CASE work' = [work EXCEPT ![w].mine = FALSE]
  <2> DEFINE j == [work[w] EXCEPT !.mine = FALSE]
  <2>1. /\ j \in Job /\ j.at = work[w].at /\ j.key = k /\ j.saw = work[w].saw /\ j.note = work[w].note
        /\ j.mine = FALSE /\ work' = [work EXCEPT ![w] = j]
    BY <1>2, <1>5 DEF Job
  <2> HIDE DEF j
  <2>2. work'[w] = j /\ hook'[k] = h /\ UNCHANGED status
    BY <1>1, <1>2, <1>3, <2>1 DEF rowVars
  <2>3. FeedTypeOK'
    BY <1>2, <1>3, <2>1, FeedTypedNext
  <2>4. JobInv(w)'
    BY <1>1, <1>2, <1>3, <2>1, <2>2, KeyKnown DEF JobInv, SeenTo, Over
  <2>5. HookInv(k)'
    BY <1>2, <1>3, <2>2 DEF HookInv, SeenTo, Over
  <2>6. \A v \in Workers \ {w} : ~(work[v].mine /\ work[v].key = k)
    BY <1>1 DEF FeedInv, SoleOwner
  <2>8. FeedInv'
    BY <1>2, <1>3, <2>1, <2>2, <2>3, <2>4, <2>5, <2>6, RowWritten
  <2> QED  BY <1>1, <2>8 DEF rowVars, RowInv, RowTypeOK
<1> QED  BY <1>4, <1>5 DEF WorkerStalls

LEMMA OthersKeep ==
  ASSUME RowInv, FeedInv, NEW o \in Orders, OthersMove(o)
  PROVE  RowInv' /\ FeedInv'
<1>1. PICK to \in Status :
        /\ isTransitionAllowed(status[o], to) /\ status' = [status EXCEPT ![o] = to]
        /\ IF to = "ASSIGNED" THEN \E d \in Drivers : driverOf' = [driverOf EXCEPT ![o] = d]
                              ELSE UNCHANGED driverOf
  BY DEF OthersMove, transitionOrder, CanTransition
<1>2. RowInv' /\ \A p \in Orders : Over(p) => Over(p)'
  BY <1>1, MovesKeepRow, StaysOver
<1>3. UNCHANGED <<hook, work>>
  BY DEF OthersMove, feedVars
<1>4. FeedTypeOK' /\ SoleOwner'
  BY <1>3 DEF FeedInv, FeedTypeOK, SoleOwner
<1>5. \A w \in Workers : JobInv(w)'
  <2> TAKE w \in Workers
  <2>1. work[w].at # "idle" => work[w].key[1] \in Orders
    BY KeyKnown
  <2> QED  BY <1>2, <1>3, <2>1 DEF FeedInv, JobInv, SeenTo
<1>6. \A k \in Hook : HookInv(k)'
  BY <1>2, <1>3 DEF FeedInv, HookInv, SeenTo, Hook
<1> QED  BY <1>2, <1>4, <1>5, <1>6 DEF FeedInv

LEMMA FeedKeeps ==
  ASSUME RowInv, FeedInv, Feed
  PROVE  RowInv' /\ FeedInv'
<1>1. ASSUME NEW k \in Hook, Receive(k)
      PROVE  RowInv' /\ FeedInv'
  BY <1>1, ReceiveKeeps DEF Receive, rowVars, RowInv, RowTypeOK
<1>2. ASSUME NEW w \in Workers, Work(w)
      PROVE  RowInv' /\ FeedInv'
  <2>1. ASSUME NEW k \in Hook, Take(w, k)
        PROVE  RowInv' /\ FeedInv'
    BY <2>1, TakeKeeps DEF Take, rowVars, RowInv, RowTypeOK
  <2> QED  BY <1>2, <2>1, CreateKeeps, FindKeeps, RereadKeeps, CancelKeeps, MarkKeeps, MarkFailedKeeps
           DEF Work
<1> QED  BY <1>1, <1>2, JobFailsKeeps, MarkKeeps, StallKeeps, OthersKeep DEF Feed, Feeding

----------------------------------------------------------------------------
(* Invitations and requests *)

\* The table, and what an item's first decision may be.
LEMMA ItemsSplit ==
  ASSUME NEW i \in Items
  PROVE  /\ i \in Invites => Verdicts[i] = {"redeemed", "revoked"} /\ i \notin Requests
         /\ i \notin Invites => Verdicts[i] = {"APPROVED", "REJECTED", "WITHDRAWN"}
         /\ Verdicts[i] \subseteq Verdict
BY ClaimsAssumption DEF Items, Verdicts, Verdict

Acted(i) ==
  \A e \in Effect :
    \/ applied'[i][e] = applied[i][e]
    \/ /\ applied[i][e] = 0 /\ applied'[i][e] = 1
       /\ verdict'[i] \in Verdicts[i] /\ e \in EffectsOf[verdict'[i]]

\* What a step of the desks leaves of the invariant, and what ClaimOnce asks of it.
Claimed ==
  /\ ClaimsInv'
  /\ \A i \in Items : /\ \/ verdict'[i] = verdict[i]
                         \/ verdict[i] = "none" /\ verdict'[i] = "open"
                         \/ verdict[i] = "open" /\ verdict'[i] \in Verdicts[i]
                      /\ Acted(i)

LEMMA ReadInviteClaims ==
  ASSUME ClaimsInv, NEW c \in Clerks, NEW i \in Invites, ReadInvite(c, i)
  PROVE  Claimed
<1>1. clerk'[c].at = "claim" /\ clerk'[c].on = i /\ \A b \in Clerks : b # c => clerk'[b] = clerk[b]
  BY DEF ReadInvite, ClaimsInv, ClaimsTypeOK
<1>2. UNCHANGED <<verdict, applied>> /\ i \in Invites
  BY DEF ReadInvite
<1>3. ClaimsTypeOK'
  BY <1>2 DEF ReadInvite, ClaimsInv, ClaimsTypeOK
<1> QED  BY <1>1, <1>2, <1>3 DEF ClaimsInv, Claimed, Acted

\* A step after which the clerk has nothing in hand.
LEMMA Frees ==
  ASSUME ClaimsInv, NEW c \in Clerks, IsDone(c)
  PROVE  /\ clerk' \in [Clerks -> [at : {"idle", "claim", "password", "issue"}, on : Invites \cup {NoInvite}]]
         /\ clerk'[c].at = "idle" /\ \A b \in Clerks : b # c => clerk'[b] = clerk[b]
<1>1. Free.at = "idle" /\ Free \in [at : {"idle", "claim", "password", "issue"}, on : Invites \cup {NoInvite}]
  BY DEF Free
<1> HIDE DEF Free
<1> QED  BY <1>1 DEF IsDone, ClaimsInv, ClaimsTypeOK

LEMMA ClaimInviteClaims ==
  ASSUME ClaimsInv, NEW c \in Clerks, ClaimInvite(c)
  PROVE  Claimed
<1>1. PICK i \in Invites : i = clerk[c].on
  BY DEF ClaimInvite, ClaimsInv
<1>2. UNCHANGED applied /\ i \in Items /\ clerk[c].at = "claim"
  BY DEF ClaimInvite, Items
<1>3. CASE /\ verdict[i] = "open" /\ verdict' = [verdict EXCEPT ![i] = "redeemed"]
           /\ clerk' = [clerk EXCEPT ![c].at = "password"]
  <2>1. /\ clerk'[c].at = "password" /\ clerk'[c].on = i
        /\ \A b \in Clerks : b # c => clerk'[b] = clerk[b]
    BY <1>1, <1>3 DEF ClaimsInv, ClaimsTypeOK
  <2>2. /\ verdict'[i] = "redeemed" /\ \A j \in Items : j # i => verdict'[j] = verdict[j]
        /\ verdict' \in [Items -> Verdict \cup {"none", "open"}]
    BY <1>2, <1>3 DEF ClaimsInv, ClaimsTypeOK, Verdict
  <2>3. ClaimsTypeOK'
    BY <1>2, <1>3, <2>2 DEF ClaimsInv, ClaimsTypeOK
  <2>4. applied[i]["password"] = 0
    BY <1>2, <1>3 DEF ClaimsInv, Effect
  <2>5. ClaimsInv'
    BY <1>2, <1>3, <2>1, <2>2, <2>3, <2>4 DEF ClaimsInv, Items
  <2> QED  BY <1>2, <1>3, <2>2, <2>5, ItemsSplit DEF Claimed, Acted
<1>4. CASE IsDone(c) /\ UNCHANGED verdict
  <2>1. ClaimsTypeOK'
    BY <1>2, <1>4, Frees DEF ClaimsInv, ClaimsTypeOK
  <2>2. ClaimsInv'
    BY <1>2, <1>4, <2>1, Frees DEF ClaimsInv, Items
  <2> QED  BY <1>2, <1>4, <2>2 DEF Claimed, Acted
<1> QED  BY <1>1, <1>3, <1>4 DEF ClaimInvite

LEMMA SetPasswordClaims ==
  ASSUME ClaimsInv, NEW c \in Clerks, SetPassword(c)
  PROVE  Claimed
<1>1. PICK i \in Invites : i = clerk[c].on
  BY DEF SetPassword, ClaimsInv
<1>2. /\ verdict[i] = "redeemed" /\ applied[i]["password"] = 0 /\ i \in Items
      /\ UNCHANGED verdict /\ IsDone(c) /\ clerk[c].at = "password"
      /\ applied' = [applied EXCEPT ![i]["password"] = @ + 1]
  BY <1>1 DEF SetPassword, ClaimsInv, Items
<1>3. /\ applied' \in [Items -> [Effect -> Nat]]
      /\ applied'[i]["password"] = 1
      /\ \A j \in Items, e \in Effect : ~(j = i /\ e = "password") => applied'[j][e] = applied[j][e]
  BY <1>2 DEF ClaimsInv, ClaimsTypeOK, Effect
<1>4. \A b \in Clerks : b # c /\ clerk[b].at = "password" => clerk[b].on # i
  BY <1>1, <1>2 DEF ClaimsInv
<1>5. "password" \in EffectsOf["redeemed"] /\ "redeemed" \in Verdicts[i]
  BY <1>1, <1>2, ItemsSplit DEF EffectsOf
<1>6. ClaimsTypeOK'
  BY <1>2, <1>3, Frees DEF ClaimsInv, ClaimsTypeOK
<1>7. ClaimsInv'
  <2>1. \A j \in Items : verdict[j] \in {"none", "open"} => j # i
    BY <1>2
  <2>2. "password" \in Effect
    BY DEF Effect
  <2>3. clerk'[c].at = "idle" /\ \A b \in Clerks : b # c => clerk'[b] = clerk[b]
    BY <1>2, Frees
  <2>4. \A j \in Items : verdict'[j] = verdict[j]
    BY <1>2
  <2>5. \A j \in Items : verdict'[j] \in {"none", "open"} => \A e \in Effect : applied'[j][e] = 0
    BY <1>3, <2>1, <2>4 DEF ClaimsInv
  <2>6. \A b \in Clerks : clerk'[b].at = "password" => applied'[clerk'[b].on]["password"] = 0
    BY <1>3, <1>4, <2>2, <2>3 DEF ClaimsInv, Items
  <2> QED  BY <1>2, <1>6, <2>3, <2>5, <2>6 DEF ClaimsInv, Items
<1> QED  BY <1>2, <1>3, <1>5, <1>7 DEF Claimed, Acted

LEMMA RevokeClaims ==
  ASSUME ClaimsInv, NEW c \in Clerks, RevokeInvites(c)
  PROVE  Claimed
<1>1. /\ UNCHANGED applied /\ clerk' = [clerk EXCEPT ![c].at = "issue"]
      /\ \A i \in Items : verdict'[i] = IF i \in Invites /\ verdict[i] = "open" THEN "revoked" ELSE verdict[i]
      /\ verdict' = [i \in Items |-> IF i \in Invites /\ verdict[i] = "open" THEN "revoked" ELSE verdict[i]]
  BY DEF RevokeInvites
<1>2. clerk'[c].at = "issue" /\ \A b \in Clerks : b # c => clerk'[b] = clerk[b]
  BY <1>1 DEF ClaimsInv, ClaimsTypeOK
<1>3. ClaimsTypeOK'
  BY <1>1 DEF ClaimsInv, ClaimsTypeOK, Verdict
<1>4. ClaimsInv'
  BY <1>1, <1>2, <1>3 DEF ClaimsInv, Items
<1> QED  BY <1>1, <1>4, ItemsSplit DEF Claimed, Acted

LEMMA IssueClaims ==
  ASSUME ClaimsInv, NEW c \in Clerks, NEW i \in Invites, IssueInvite(c, i)
  PROVE  Claimed
<1>1. /\ UNCHANGED applied /\ IsDone(c) /\ verdict[i] = "none" /\ i \in Items
      /\ verdict' = [verdict EXCEPT ![i] = "open"]
  BY DEF IssueInvite, Items
<1>2. verdict'[i] = "open" /\ \A j \in Items : j # i => verdict'[j] = verdict[j]
  BY <1>1 DEF ClaimsInv, ClaimsTypeOK
<1>3. ClaimsTypeOK'
  BY <1>1, Frees DEF ClaimsInv, ClaimsTypeOK
<1>4. ClaimsInv'
  BY <1>1, <1>2, <1>3, Frees DEF ClaimsInv, Items
<1> QED  BY <1>1, <1>2, <1>4 DEF Claimed, Acted

LEMMA DecideClaims ==
  ASSUME ClaimsInv, NEW i \in Requests, NEW v \in Verdict, DecideRequest(i, v)
  PROVE  Claimed
<1>1. /\ verdict[i] = "open" /\ v \in Verdicts[i] /\ i \in Items /\ UNCHANGED clerk /\ i \notin Invites
      /\ verdict' = [verdict EXCEPT ![i] = v]
      /\ applied' = [applied EXCEPT ![i] = [e \in Effect |-> IF e \in EffectsOf[v] THEN @[e] + 1 ELSE @[e]]]
  BY ClaimsAssumption DEF DecideRequest, Items
<1>2. /\ verdict'[i] = v /\ \A j \in Items : j # i => verdict'[j] = verdict[j] /\ applied'[j] = applied[j]
      /\ \A e \in Effect : applied'[i][e] = IF e \in EffectsOf[v] THEN 1 ELSE 0
      /\ \A e \in Effect : applied[i][e] = 0
  BY <1>1 DEF ClaimsInv, ClaimsTypeOK
<1>3. applied' \in [Items -> [Effect -> Nat]]
  BY <1>1 DEF ClaimsInv, ClaimsTypeOK
<1>4. ClaimsTypeOK'
  BY <1>1, <1>3 DEF ClaimsInv, ClaimsTypeOK
<1>5. v \notin {"none", "open"}
  BY DEF Verdict
<1>6. ClaimsInv'
  BY <1>1, <1>2, <1>4, <1>5 DEF ClaimsInv, Items
<1> QED  BY <1>1, <1>2, <1>6 DEF Claimed, Acted

LEMMA DecidingClaims ==
  ASSUME ClaimsInv, Deciding \/ UNCHANGED claimsVars
  PROVE  Claimed
<1>1. ASSUME NEW c \in Clerks, ClerkDies(c)
      PROVE  Claimed
  BY <1>1, Frees DEF ClerkDies, ClaimsInv, ClaimsTypeOK, Claimed, Acted
<1>2. ASSUME UNCHANGED claimsVars
      PROVE  Claimed
  BY <1>2 DEF claimsVars, ClaimsInv, ClaimsTypeOK, Claimed, Acted
<1> QED  BY <1>1, <1>2, ReadInviteClaims, ClaimInviteClaims, SetPasswordClaims, RevokeClaims, IssueClaims,
            DecideClaims DEF Deciding

----------------------------------------------------------------------------
(* Statements and withdrawals *)

\* What a step may do to the desk of one accountant.
LEMMA DeskMoves ==
  ASSUME PayInv, NEW a \in Accountants
  PROVE  /\ \A at \in StatementStep \cup WithdrawalStep \cup {"idle"} :
              Goes(a, at) => /\ desk'[a].at = at /\ desk'[a].on = desk[a].on /\ desk'[a].file = desk[a].file
                             /\ \A b \in Accountants : b # a => desk'[b] = desk[b]
                             /\ desk' \in [Accountants -> [at : StatementStep \cup WithdrawalStep \cup {"idle"},
                                                           on : Withdrawals \cup {NoWithdrawal}, file : BOOLEAN]]
         /\ Rests(a) => /\ desk'[a].at = "idle" /\ \A b \in Accountants : b # a => desk'[b] = desk[b]
                        /\ desk' \in [Accountants -> [at : StatementStep \cup WithdrawalStep \cup {"idle"},
                                                      on : Withdrawals \cup {NoWithdrawal}, file : BOOLEAN]]
<1> DEFINE D == [at : StatementStep \cup WithdrawalStep \cup {"idle"},
                 on : Withdrawals \cup {NoWithdrawal}, file : BOOLEAN]
<1>1. desk \in [Accountants -> D]
  BY DEF PayInv, PayoutTypeOK
<1>2. AtRest \in D /\ AtRest.at = "idle"
  BY DEF AtRest
<1>3. \A at \in StatementStep \cup WithdrawalStep \cup {"idle"} :
        Goes(a, at) => /\ desk'[a].at = at /\ desk'[a].on = desk[a].on /\ desk'[a].file = desk[a].file
                       /\ \A b \in Accountants : b # a => desk'[b] = desk[b]
                       /\ desk' \in [Accountants -> D]
  BY <1>1 DEF Goes
<1> HIDE DEF D, AtRest
<1>4. Rests(a) => /\ desk'[a].at = "idle" /\ \A b \in Accountants : b # a => desk'[b] = desk[b]
                  /\ desk' \in [Accountants -> D]
  BY <1>1, <1>2 DEF Rests
<1> QED  BY <1>3, <1>4 DEF D

\* A transfer that has been confirmed, or failed, is not touched.
Standing == \A w \in Withdrawals : withdrawal[w] \in {"WITHDRAWN", "FAILED"} => withdrawal'[w] = withdrawal[w]

LEMMA StatementsKeep ==
  ASSUME PayInv, Statements
  PROVE  PayInv' /\ Standing
<1> PICK a \in Accountants :
      \/ \E at \in StatementStep, file \in BOOLEAN : ReadStatement(a, at, file)
      \/ CreateStatement(a) \/ Confirm(a) \/ Dispute(a) \/ Pay(a)
  BY DEF Statements
<1>1. UNCHANGED withdrawalVars /\ UNCHANGED <<tax, billing, withdrawal>> /\ Standing
  BY DEF ReadStatement, CreateStatement, Confirm, Dispute, Pay, withdrawalVars, Standing
<1>2. WithdrawalInv' /\ PaidHasTransfer'
  <2>1. CASE Rests(a)
    BY <1>1, <2>1, DeskMoves DEF PayInv, WithdrawalInv, PaidHasTransfer, Transferred
  <2>2. ASSUME NEW at \in StatementStep, NEW file \in BOOLEAN, ReadStatement(a, at, file)
        PROVE  WithdrawalInv' /\ PaidHasTransfer'
    <3>1. desk'[a].at \in StatementStep /\ \A b \in Accountants : b # a => desk'[b] = desk[b]
      BY <2>2 DEF ReadStatement, PayInv, PayoutTypeOK
    <3> QED  BY <1>1, <3>1 DEF PayInv, WithdrawalInv, PaidHasTransfer, Transferred, StatementStep
  <2> QED  BY <2>1, <2>2 DEF CreateStatement, Confirm, Dispute, Pay
<1>3. ASSUME NEW at \in StatementStep, NEW file \in BOOLEAN, ReadStatement(a, at, file)
      PROVE  (PayoutTypeOK /\ StatementInv /\ PaidIsBooked)'
  <2>1. /\ desk'[a].at = at /\ desk'[a].file = file /\ \A b \in Accountants : b # a => desk'[b] = desk[b]
        /\ UNCHANGED <<statement, total, invoiced, posted>>
    BY <1>3 DEF ReadStatement, PayInv, PayoutTypeOK, statementVars
  <2>4. desk' \in [Accountants -> [at : StatementStep \cup WithdrawalStep \cup {"idle"},
                                  on : Withdrawals \cup {NoWithdrawal}, file : BOOLEAN]]
    <3> DEFINE At == StatementStep \cup WithdrawalStep \cup {"idle"}
    <3>1. at \in At
      OBVIOUS
    <3> HIDE DEF At
    <3>2. desk \in [Accountants -> [at : At, on : Withdrawals \cup {NoWithdrawal}, file : BOOLEAN]]
      BY DEF PayInv, PayoutTypeOK, At
    <3>3. desk' = [desk EXCEPT ![a].at = at, ![a].file = file]
      BY <1>3 DEF ReadStatement
    <3>4. desk' \in [Accountants -> [at : At, on : Withdrawals \cup {NoWithdrawal}, file : BOOLEAN]]
      BY <3>1, <3>2, <3>3
    <3> QED  BY <3>4 DEF At
  <2>2. PayoutTypeOK'
    BY <1>1, <2>1, <2>4 DEF PayInv, PayoutTypeOK
  <2>3. PaidIsBooked'
    BY <2>1 DEF PayInv, PaidIsBooked
  <2> QED  BY <1>3, <2>1, <2>2, <2>3 DEF ReadStatement, PayInv, PayoutTypeOK, StatementInv
<1>4. CASE CreateStatement(a)
  <2>1. PayoutTypeOK'
    BY <1>1, <1>4, DeskMoves DEF CreateStatement, PayInv, PayoutTypeOK
  <2>2. PaidIsBooked'
    BY <1>4 DEF CreateStatement, PayInv, PayoutTypeOK, StatementInv, PaidIsBooked
  <2>3. desk'[a].at = "idle" /\ \A b \in Accountants : b # a => desk'[b] = desk[b]
    BY <1>4, DeskMoves DEF CreateStatement
  <2>4. StatementInv'
    BY <1>4, <2>3 DEF CreateStatement, PayInv, StatementInv
  <2> QED  BY <1>1, <1>2, <2>1, <2>2, <2>4 DEF PayInv
<1>5. CASE Confirm(a)
  <2>1. PayoutTypeOK'
    BY <1>1, <1>5, DeskMoves DEF Confirm, PayInv, PayoutTypeOK
  <2>2. PaidIsBooked'
    BY <1>5 DEF Confirm, PayInv, PayoutTypeOK, StatementInv, PaidIsBooked
  <2>3. desk'[a].at = "idle" /\ \A b \in Accountants : b # a => desk'[b] = desk[b]
    BY <1>5, DeskMoves DEF Confirm
  <2>4. StatementInv'
    BY <1>5, <2>3 DEF Confirm, PayInv, StatementInv
  <2> QED  BY <1>1, <1>2, <2>1, <2>2, <2>4 DEF PayInv
<1>6. CASE Dispute(a)
  <2>1. PayoutTypeOK'
    BY <1>1, <1>6, DeskMoves DEF Dispute, PayInv, PayoutTypeOK
  <2>2. PaidIsBooked'
    BY <1>6 DEF Dispute, PayInv, PayoutTypeOK, StatementInv, PaidIsBooked
  <2>3. desk'[a].at = "idle" /\ \A b \in Accountants : b # a => desk'[b] = desk[b]
    BY <1>6, DeskMoves DEF Dispute
  <2>4. StatementInv'
    BY <1>6, <2>3 DEF Dispute, PayInv, StatementInv
  <2> QED  BY <1>1, <1>2, <2>1, <2>2, <2>4 DEF PayInv
<1>7. CASE Pay(a)
  <2>1. statement # "NONE" /\ (total = 0 \/ invoiced)
    BY <1>7 DEF Pay, PayInv, StatementInv
  <2>2. PayoutTypeOK'
    BY <1>1, <1>7, DeskMoves DEF Pay, PayInv, PayoutTypeOK
  <2>3. PaidIsBooked'
    BY <1>7, <2>1 DEF Pay, PayInv, PayoutTypeOK, PaidIsBooked
  <2>4. desk'[a].at = "idle" /\ \A b \in Accountants : b # a => desk'[b] = desk[b]
    BY <1>7, DeskMoves DEF Pay
  <2>5. StatementInv'
    BY <1>7, <2>1, <2>4 DEF Pay, PayInv, StatementInv
  <2> QED  BY <1>1, <1>2, <2>2, <2>3, <2>5 DEF PayInv
<1> QED  BY <1>1, <1>2, <1>3, <1>4, <1>5, <1>6, <1>7 DEF PayInv

\* A step of the withdrawals: the statement stays, and who has settled or is about to has
\* a withdrawal to show for it.
LEMMA PayoutMoves ==
  ASSUME PayInv, UNCHANGED statementVars, NEW a \in Accountants,
         PayoutTypeOK', \A b \in Accountants : b # a => desk'[b] = desk[b],
         desk'[a].at \notin StatementStep,
         \A w \in Withdrawals : withdrawal[w] = "WITHDRAWN" => withdrawal'[w] = "WITHDRAWN",
         desk'[a].at = "settled" => Transferred',
         desk'[a].at \in {"settle", "fail"} => desk'[a].on \in Withdrawals,
         billing' = "PAID" => billing = "PAID" \/ Transferred'
  PROVE  PayInv'
<1>1. UNCHANGED <<statement, total, invoiced, posted>> /\ (Transferred => Transferred')
  BY DEF statementVars, Transferred
<1>2. StatementInv' /\ PaidIsBooked'
  BY <1>1 DEF PayInv, StatementInv, PaidIsBooked, StatementStep
<1>3. WithdrawalInv' /\ PaidHasTransfer'
  BY <1>1 DEF PayInv, WithdrawalInv, PaidHasTransfer, Transferred
<1> QED  BY <1>2, <1>3 DEF PayInv

LEMMA PayoutsKeep ==
  ASSUME PayInv, Payouts
  PROVE  PayInv' /\ Standing
<1> PICK a \in Accountants :
      \/ WriteTax(a) \/ WriteBilling(a) \/ FindWithdrawal(a) \/ ApproveBilling(a)
      \/ SettleWithdrawal(a) \/ FailWithdrawal(a)
      \/ \E w \in Withdrawals :
           CreateWithdrawal(a, w) \/ \E at \in {"settle", "fail"} : ReadWithdrawal(a, w, at)
  BY DEF Payouts
<1> DEFINE Quiet == {"idle", "submitted", "rejected", "trigger", "approve", "create", "failed"}
<1>1. \A at \in Quiet \cup {"settled"} :
        /\ at \in StatementStep \cup WithdrawalStep \cup {"idle"} /\ at \notin StatementStep
        /\ at \notin {"settle", "fail"}
  BY DEF StatementStep, WithdrawalStep
\* A step after which the accountant has nothing to do with a withdrawal.
<1>2. ASSUME NEW at \in Quiet, Goes(a, at) \/ (Rests(a) /\ at = "idle"), UNCHANGED statementVars,
             tax' \in {"DRAFT", "SUBMITTED", "ACCEPTED", "REJECTED"},
             billing' \in {"PENDING_INVOICE", "AWAITING_APPROVAL", "APPROVED", "PAID", "REJECTED"},
             billing' = "PAID" => billing = "PAID" \/ Transferred',
             withdrawal' \in [Withdrawals -> {"NONE", "PENDING", "WITHDRAWN", "FAILED"}],
             \A w \in Withdrawals : withdrawal[w] = "WITHDRAWN" => withdrawal'[w] = "WITHDRAWN"
      PROVE  PayInv'
  <2>1. /\ desk'[a].at = at /\ \A b \in Accountants : b # a => desk'[b] = desk[b]
        /\ desk' \in [Accountants -> [at : StatementStep \cup WithdrawalStep \cup {"idle"},
                                      on : Withdrawals \cup {NoWithdrawal}, file : BOOLEAN]]
    BY <1>1, <1>2, DeskMoves
  <2>2. PayoutTypeOK'
    BY <1>2, <2>1 DEF statementVars, PayInv, PayoutTypeOK
  <2>3. desk'[a].at \notin StatementStep \cup {"settled", "settle", "fail"}
    BY <1>1, <2>1
  <2> QED  BY <1>2, <2>1, <2>2, <2>3, PayoutMoves
<1>3. ASSUME UNCHANGED withdrawal
      PROVE  Standing /\ withdrawal' \in [Withdrawals -> {"NONE", "PENDING", "WITHDRAWN", "FAILED"}]
  BY <1>3 DEF Standing, PayInv, PayoutTypeOK
<1>4. CASE WriteTax(a)
  BY <1>2, <1>3, <1>4 DEF WriteTax, PayInv, PayoutTypeOK
<1>5. CASE WriteBilling(a)
  <2>1. desk[a].at = "settled" => Transferred
    BY DEF PayInv, WithdrawalInv
  <2> QED  BY <1>2, <1>3, <1>5, <2>1 DEF WriteBilling, PayInv, PayoutTypeOK, Transferred
<1>6. CASE FindWithdrawal(a) \/ ApproveBilling(a)
  BY <1>2, <1>3, <1>6 DEF FindWithdrawal, ApproveBilling, withdrawalVars, PayInv, PayoutTypeOK
<1>7. CASE SettleWithdrawal(a)
  <2>1. PICK w \in Withdrawals : w = desk[a].on
    BY <1>7 DEF SettleWithdrawal, PayInv, WithdrawalInv
  <2>2. CASE /\ withdrawal[w] = "PENDING" /\ withdrawal' = [withdrawal EXCEPT ![w] = "WITHDRAWN"]
             /\ Goes(a, "settled")
    <3>1. UNCHANGED <<statementVars, tax, billing>> /\ UNCHANGED <<statement, total, invoiced, posted>>
      BY <1>7 DEF SettleWithdrawal, statementVars
    <3>2. /\ desk'[a].at = "settled" /\ \A b \in Accountants : b # a => desk'[b] = desk[b]
          /\ desk' \in [Accountants -> [at : StatementStep \cup WithdrawalStep \cup {"idle"},
                                        on : Withdrawals \cup {NoWithdrawal}, file : BOOLEAN]]
      BY <1>1, <2>2, DeskMoves
    <3>3. /\ withdrawal' \in [Withdrawals -> {"NONE", "PENDING", "WITHDRAWN", "FAILED"}] /\ Transferred'
          /\ Standing
          /\ \A v \in Withdrawals : withdrawal[v] = "WITHDRAWN" => withdrawal'[v] = "WITHDRAWN"
      BY <2>2 DEF PayInv, PayoutTypeOK, Transferred, Standing
    <3>4. PayoutTypeOK'
      BY <3>1, <3>2, <3>3 DEF PayInv, PayoutTypeOK
    <3> QED  BY <1>1, <3>1, <3>2, <3>3, <3>4, PayoutMoves
  <2>3. CASE Rests(a) /\ UNCHANGED withdrawal
    BY <1>2, <1>3, <1>7, <2>3 DEF SettleWithdrawal, PayInv, PayoutTypeOK
  <2> QED  BY <1>7, <2>1, <2>2, <2>3 DEF SettleWithdrawal
<1>8. CASE FailWithdrawal(a)
  <2>1. PICK w \in Withdrawals : w = desk[a].on
    BY <1>8 DEF FailWithdrawal, PayInv, WithdrawalInv
  <2>2. CASE withdrawal[w] = "PENDING" /\ withdrawal' = [withdrawal EXCEPT ![w] = "FAILED"] /\ Goes(a, "failed")
    <3>1. /\ withdrawal' \in [Withdrawals -> {"NONE", "PENDING", "WITHDRAWN", "FAILED"}] /\ Standing
          /\ \A v \in Withdrawals : withdrawal[v] = "WITHDRAWN" => withdrawal'[v] = "WITHDRAWN"
      BY <2>2 DEF PayInv, PayoutTypeOK, Standing
    <3> QED  BY <1>2, <1>8, <2>2, <3>1 DEF FailWithdrawal, PayInv, PayoutTypeOK
  <2>3. CASE Rests(a) /\ UNCHANGED withdrawal
    BY <1>2, <1>3, <1>8, <2>3 DEF FailWithdrawal, PayInv, PayoutTypeOK
  <2> QED  BY <1>8, <2>1, <2>2, <2>3 DEF FailWithdrawal
<1>9. ASSUME NEW w \in Withdrawals, CreateWithdrawal(a, w)
      PROVE  PayInv' /\ Standing
  <2>1. /\ withdrawal' \in [Withdrawals -> {"NONE", "PENDING", "WITHDRAWN", "FAILED"}] /\ Standing
        /\ \A v \in Withdrawals : withdrawal[v] = "WITHDRAWN" => withdrawal'[v] = "WITHDRAWN"
    BY <1>9 DEF CreateWithdrawal, PayInv, PayoutTypeOK, Standing
  <2> QED  BY <1>2, <1>9, <2>1 DEF CreateWithdrawal, PayInv, PayoutTypeOK
<1>10. ASSUME NEW w \in Withdrawals, NEW at \in {"settle", "fail"}, ReadWithdrawal(a, w, at)
       PROVE  PayInv' /\ Standing
  <2>6. desk' = [desk EXCEPT ![a].at = at, ![a].on = w] /\ UNCHANGED <<statementVars, tax, billing, withdrawal>>
    BY <1>10 DEF ReadWithdrawal, withdrawalVars
  <2>1. desk'[a].at = at /\ desk'[a].on = w /\ \A b \in Accountants : b # a => desk'[b] = desk[b]
    BY <2>6 DEF PayInv, PayoutTypeOK
  <2>4. at \in WithdrawalStep
    BY DEF WithdrawalStep
  <2>5. desk' \in [Accountants -> [at : StatementStep \cup WithdrawalStep \cup {"idle"},
                                  on : Withdrawals \cup {NoWithdrawal}, file : BOOLEAN]]
    <3> DEFINE At == StatementStep \cup WithdrawalStep \cup {"idle"}
    <3>1. at \in At
      BY <2>4
    <3> HIDE DEF At
    <3>2. desk \in [Accountants -> [at : At, on : Withdrawals \cup {NoWithdrawal}, file : BOOLEAN]]
      BY DEF PayInv, PayoutTypeOK, At
    <3>3. desk' \in [Accountants -> [at : At, on : Withdrawals \cup {NoWithdrawal}, file : BOOLEAN]]
      BY <2>6, <3>1, <3>2
    <3> QED  BY <3>3 DEF At
  <2>2. PayoutTypeOK'
    BY <2>6, <2>5 DEF PayInv, PayoutTypeOK, statementVars
  <2>3. desk'[a].at \notin StatementStep \cup {"settled"}
    BY <2>1 DEF StatementStep
  <2> QED  BY <1>3, <2>1, <2>2, <2>3, <2>6, PayoutMoves
<1> QED  BY <1>4, <1>5, <1>6, <1>7, <1>8, <1>9, <1>10,
            <1>3 DEF WriteTax, WriteBilling, FindWithdrawal, ApproveBilling, withdrawalVars

LEMMA PayrollKeeps ==
  ASSUME PayInv, Payroll \/ UNCHANGED payoutVars
  PROVE  PayInv' /\ Standing
<1>1. ASSUME NEW a \in Accountants, DeskFails(a)
      PROVE  PayInv' /\ Standing
  <2>1. /\ Rests(a) /\ UNCHANGED <<statement, total, invoiced, posted, tax, billing, withdrawal>>
        /\ UNCHANGED statementVars
    BY <1>1 DEF DeskFails, statementVars, withdrawalVars
  <2>2. PayoutTypeOK'
    BY <2>1, DeskMoves DEF PayInv, PayoutTypeOK
  <2>3. desk'[a].at \notin StatementStep \cup {"settled", "settle", "fail"}
    BY <2>1, DeskMoves DEF StatementStep
  <2> QED  BY <2>1, <2>2, <2>3, DeskMoves, PayoutMoves DEF Standing
<1>2. ASSUME UNCHANGED payoutVars
      PROVE  PayInv' /\ Standing
  <2>1. UNCHANGED <<statement, total, invoiced, posted, tax, billing, withdrawal, desk>>
    BY <1>2 DEF payoutVars, statementVars, withdrawalVars
  <2> QED  BY <2>1 DEF PayInv, PayoutTypeOK, StatementInv, PaidIsBooked, WithdrawalInv, PaidHasTransfer,
                       Transferred, Standing
<1> QED  BY <1>1, <1>2, StatementsKeep, PayoutsKeep DEF Payroll

----------------------------------------------------------------------------
(* The sessions *)

\* What the commit of call c owes the driver.
FreesDriver(c) ==
  /\ CommitsNow(c) /\ call[c].to = "DELIVERED"
  /\ \A o \in Trips : /\ trip'[o] \notin Carried \cup {"FAILED", "CANCELLED"}
                      /\ trip'[o] = "DELIVERED" => o \notin Gratis
  => \A s \in SessionRows : ~OpenAs(s, "BUSY")'
Freed == \A c \in Calls : FreesDriver(c)

LEMMA PresenceTyped == PresInv => PresenceTypeOK
BY DEF PresInv, SessionsInv, CallsInv, PresenceTypeOK, SessionState, CallState

\* A call goes on, reads, or ends without a commit; if it holds the revenue account then,
\* it did before or nobody did.
LEMMA CallMoves ==
  ASSUME PresInv, NEW c \in Calls, NEW k \in CallState, Sound(k), call' = [call EXCEPT ![c] = k],
         UNCHANGED trip, SessionsInv',
         Pays(k) => Settled(c) \/ \A b \in Calls : ~Settled(b),
         Pays(k) /\ k.at = "commit" => \E o \in Trips \ {k.trip} : Occupies(o)
  PROVE  PresInv' /\ Freed
<1>1. /\ call'[c] = k /\ \A b \in Calls : b # c => call'[b] = call[b]
      /\ CallsInv'
  BY DEF PresInv, CallsInv
<1>2. (\A b \in Calls : Settled(b)' => Settled(b) \/ (b = c /\ Pays(k))) /\ (Settled(c)' => Pays(k))
  BY <1>1 DEF Settled, Pays
<1>3. OneSettles'
  BY <1>2 DEF OneSettles, PresInv
<1>4. \A b \in Calls : Detained(b)'
  <2>1. Detained(c)'
    BY <1>1, <1>2 DEF Detained, Occupies
  <2>2. ASSUME NEW b \in Calls, b # c
        PROVE  Detained(b)'
    BY <1>1, <2>2 DEF Detained, Occupies, Settled, PresInv
  <2> QED  BY <2>1, <2>2
<1> QED  BY <1>1, <1>3, <1>4 DEF PresInv, Freed, FreesDriver, CommitsNow

LEMMA CallEnds ==
  ASSUME PresInv, NEW c \in Calls, Finishes(c), UNCHANGED trip, SessionsInv'
  PROVE  PresInv' /\ Freed
<1>1. Done \in CallState /\ Sound(Done) /\ ~Pays(Done)
  BY DEF Done, CallState, Sound, Status, OfTrip, Pays
<1> QED  BY <1>1, CallMoves DEF Finishes

\* A stage that holds nothing.
LEMMA CallReads ==
  ASSUME PresInv, NEW c \in Calls, NEW k \in CallState, Sound(k), k.at \notin {"count", "free", "commit"},
         call' = [call EXCEPT ![c] = k], UNCHANGED <<trip, session>>
  PROVE  PresInv' /\ Freed
<1>1. ~Pays(k) /\ SessionsInv'
  BY DEF Pays, PresInv, SessionsInv
<1> QED  BY <1>1, CallMoves

LEMMA CallReaches ==
  ASSUME PresInv, NEW c \in Calls, call[c].at \in OfTrip \ {"busy"}, NEW at \in OfTrip, Reaches(c, at),
         UNCHANGED <<trip, session>>, at = "busy" => call[c].to = "ASSIGNED",
         at \in {"count", "free", "commit"} /\ call[c].to = "DELIVERED" /\ call[c].trip \notin Gratis
           => /\ Settled(c) \/ \A b \in Calls : ~Settled(b)
              /\ at = "commit" => \E o \in Trips \ {call[c].trip} : Occupies(o)
  PROVE  PresInv' /\ Freed
<1> DEFINE k == [call[c] EXCEPT !.at = at]
<1>1. /\ k \in CallState /\ k.at = at /\ k.trip = call[c].trip /\ k.to = call[c].to
      /\ k.from = call[c].from
  BY DEF PresInv, CallsInv, CallState, OfTrip
<1>2. Sound(k)
  BY <1>1 DEF PresInv, CallsInv, Sound, OfTrip
<1>3. call' = [call EXCEPT ![c] = k]
  BY DEF Reaches
<1>4. SessionsInv'
  BY DEF PresInv, SessionsInv
<1> HIDE DEF k
<1> QED  BY <1>1, <1>2, <1>3, <1>4, CallMoves DEF Pays

LEMMA CallFinds ==
  ASSUME PresInv, NEW c \in Calls, NEW at, NEW to, Finds(c, at, to), UNCHANGED <<trip, session>>,
         \/ at = "set" /\ to \in Availability
         \/ at = "ping" /\ to = "NONE"
  PROVE  PresInv' /\ Freed
<1>1. ASSUME NEW S \in SUBSET SessionRows, call' = [call EXCEPT ![c] = Found(at, to, S)]
      PROVE  PresInv' /\ Freed
  <2>1. /\ Found(at, to, S) \in CallState /\ Sound(Found(at, to, S))
        /\ Found(at, to, S).at \notin {"count", "free", "commit"}
    BY DEF Found, CallState, Sound, Status, OfTrip
  <2> QED  BY <1>1, <2>1, CallReads
<1>2. \A s \in OpenRows : {s} \in SUBSET SessionRows
  BY DEF OpenRows
<1> QED  BY <1>1, <1>2 DEF Finds

\* The steps of an order before its commit.
LEMMA TripsKeep ==
  ASSUME PresInv, NEW c \in Calls,
         \/ \E o \in Trips, to \in Status : ReadTrip(c, o, to)
         \/ MoveTrip(c) \/ SettleTrip(c) \/ CountActive(c)
  PROVE  PresInv' /\ Freed
<1>1. ASSUME NEW o \in Trips, NEW to \in Status, ReadTrip(c, o, to)
      PROVE  PresInv' /\ Freed
  <2> DEFINE k == [Done EXCEPT !.at = "move", !.trip = o, !.from = trip[o], !.to = to]
  <2>1. k \in CallState /\ k.at = "move" /\ k.trip = o /\ k.from = trip[o] /\ k.to = to
    BY DEF PresInv, Done, CallState
  <2>2. to \in Ends \cup {"ASSIGNED"} /\ (to = "DELIVERED" => trip[o] = "PICKED_UP")
    BY <1>1 DEF ReadTrip, isTransitionAllowed, ALLOWED, PresInv, Status
  <2>3. Sound(k)
    BY <2>1, <2>2 DEF Sound, OfTrip
  <2>4. call' = [call EXCEPT ![c] = k] /\ UNCHANGED <<trip, session>>
    BY <1>1 DEF ReadTrip
  <2> HIDE DEF k
  <2> QED  BY <2>1, <2>3, <2>4, CallReads
<1>2. ASSUME MoveTrip(c)
      PROVE  PresInv' /\ Freed
  <2> DEFINE at == Follows(call[c].trip, call[c].from, call[c].to)
  <2>1. /\ call[c].at = "move" /\ Sound(call[c]) /\ UNCHANGED <<trip, session>>
        /\ Reaches(c, at) \/ Finishes(c)
    BY <1>2 DEF MoveTrip, PresInv, CallsInv
  <2>2. SessionsInv' /\ at \in OfTrip /\ (at = "busy" => call[c].to = "ASSIGNED")
    BY <2>1 DEF PresInv, SessionsInv, Follows, OfTrip
  <2>3. call[c].to = "DELIVERED" /\ call[c].trip \notin Gratis => at = "settle"
    BY <2>1 DEF Follows, Sound, OfTrip, Carried
  <2>4. call[c].at \in OfTrip \ {"busy"}
    BY <2>1 DEF OfTrip
  <2> HIDE DEF at
  <2> QED  BY <2>1, <2>2, <2>3, <2>4, CallReaches, CallEnds
<1>3. ASSUME SettleTrip(c)
      PROVE  PresInv' /\ Freed
  <2>1. /\ call[c].at \in OfTrip \ {"busy"} /\ "count" \in OfTrip
        /\ Reaches(c, "count") /\ UNCHANGED <<trip, session>> /\ \A b \in Calls : ~Settled(b)
    BY <1>3 DEF SettleTrip, OfTrip
  <2> QED  BY <2>1, CallReaches
<1>4. ASSUME CountActive(c)
      PROVE  PresInv' /\ Freed
  <2>1. /\ call[c].at = "count" /\ UNCHANGED <<trip, session>>
        /\ call[c].at \in OfTrip \ {"busy"} /\ {"commit", "free"} \subseteq OfTrip
    BY <1>4 DEF CountActive, OfTrip
  <2>2. call[c].to = "DELIVERED" /\ call[c].trip \notin Gratis => Settled(c)
    BY <2>1 DEF Settled
  <2>3. \/ Reaches(c, "free")
        \/ Reaches(c, "commit") /\ \E o \in Trips \ {call[c].trip} : Occupies(o)
    BY <1>4 DEF CountActive, Occupies, Carried, CountedActive
  <2> QED  BY <2>1, <2>2, <2>3, CallReaches
<1> QED  BY <1>1, <1>2, <1>3, <1>4

\* The order is what it was to become.  Whoever is detained by it stays so: it was not
\* delivered for a fee, since then two would hold the revenue account.
LEMMA CommitsKeep ==
  ASSUME PresInv, NEW c \in Calls, CommitTrip(c) \/ FreeDriver(c) \/ OccupyDriver(c)
  PROVE  PresInv' /\ Freed
<1>1. Commits(c) /\ call[c].at \in OfTrip /\ call[c].at \in {"commit", "free", "busy"}
  BY DEF CommitTrip, FreeDriver, OccupyDriver, OfTrip
<1>2. /\ call[c].trip \in Trips /\ call[c].to \in Ends \cup {"ASSIGNED"}
      /\ call[c].at = "busy" => call[c].to = "ASSIGNED"
  BY <1>1 DEF PresInv, CallsInv, Sound, OfTrip
<1>3. /\ call'[c] = Done /\ \A b \in Calls : b # c => call'[b] = call[b]
      /\ trip'[call[c].trip] = call[c].to /\ \A o \in Trips : o # call[c].trip => trip'[o] = trip[o]
      /\ trip' \in [Trips -> Status]
  BY <1>1, <1>2 DEF Commits, Finishes, PresInv, CallsInv, Ends, Status
<1>4. CallsInv'
  <2>1. Done \in CallState /\ Sound(Done)
    BY DEF Done, CallState, Sound, Status, OfTrip
  <2> QED  BY <1>1, <1>3, <2>1 DEF Commits, Finishes, PresInv, CallsInv
<1>5. SessionsInv'
  BY DEF CommitTrip, FreeDriver, OccupyDriver, SetRows, PresInv, SessionsInv, SessionState, Availability
<1>6. \A b \in Calls : Settled(b)' => Settled(b) /\ b # c
  BY <1>3 DEF Settled, Done
<1>7. \A b \in Calls : Detained(b)'
  <2> SUFFICES ASSUME NEW b \in Calls, Settled(b)', call'[b].at = "commit"
               PROVE  \E o \in Trips \ {call'[b].trip} : Occupies(o)'
    BY DEF Detained
  <2>1. Settled(b) /\ b # c /\ call'[b] = call[b]
    BY <1>3, <1>6
  <2>2. PICK o \in Trips \ {call[b].trip} : Occupies(o)
    BY <2>1 DEF PresInv, Detained
  <2>3. CASE o # call[c].trip
    BY <1>3, <2>1, <2>2, <2>3 DEF Occupies
  <2>4. CASE o = call[c].trip
    <3>1. ~Settled(c)
      BY <2>1 DEF PresInv, OneSettles
    <3>2. call[c].to = "DELIVERED" => o \in Gratis
      BY <1>1, <1>2, <2>4, <3>1 DEF Settled
    <3> QED  BY <1>2, <1>3, <2>1, <2>2, <2>4, <3>2 DEF Occupies, Ends, Carried
  <2> QED  BY <2>3, <2>4
<1>8. Freed
  <2> SUFFICES ASSUME NEW b \in Calls, CommitsNow(b), call[b].to = "DELIVERED",
                      \A o \in Trips : /\ trip'[o] \notin Carried \cup {"FAILED", "CANCELLED"}
                                       /\ trip'[o] = "DELIVERED" => o \notin Gratis
               PROVE  \A s \in SessionRows : ~OpenAs(s, "BUSY")'
    BY DEF Freed, FreesDriver
  <2>1. b = c
    BY <1>3 DEF CommitsNow, InTransaction, Done
  <2>2. call[c].trip \notin Gratis /\ ~OccupyDriver(c)
    BY <1>2, <1>3, <2>1 DEF OccupyDriver
  <2>3. CASE FreeDriver(c)
    BY <2>3 DEF FreeDriver, SetRows, OpenRows, IsOpen, OpenAs, PresInv, SessionsInv, SessionState
  <2>4. CASE CommitTrip(c)
    <3>1. Settled(c) /\ call[c].at = "commit"
      BY <2>1, <2>2, <2>4 DEF CommitTrip, Settled
    <3>2. PICK o \in Trips \ {call[c].trip} : Occupies(o)
      BY <3>1 DEF PresInv, Detained
    <3>3. trip'[o] = trip[o]
      BY <1>3, <3>2
    <3> QED  BY <3>2, <3>3 DEF Occupies
  <2> QED  BY <2>2, <2>3, <2>4
<1>9. OneSettles'
  BY <1>6 DEF PresInv, OneSettles, CommitTrip, FreeDriver, OccupyDriver
<1> QED  BY <1>3, <1>4, <1>5, <1>7, <1>8, <1>9 DEF PresInv

LEMMA RowsSet ==
  ASSUME SessionsInv, NEW S, NEW a \in Availability, SetRows(S, a)
  PROVE  SessionsInv'
BY DEF SetRows, SessionsInv, SessionState

LEMMA RowOpened ==
  ASSUME SessionsInv, NEW a \in Availability, Opens(a)
  PROVE  SessionsInv'
BY DEF Opens, SessionsInv, SessionState

LEMMA AvailabilityKeeps ==
  ASSUME PresInv, NEW c \in Calls,
         (\E a \in Availability : AskAvailability(c, a)) \/ FindSession(c) \/ SetAvailability(c)
  PROVE  PresInv' /\ Freed
<1>1. ASSUME NEW a \in Availability, AskAvailability(c, a)
      PROVE  PresInv' /\ Freed
  <2> DEFINE k == [Done EXCEPT !.at = "find", !.to = a]
  <2>1. k \in CallState /\ Sound(k) /\ k.at \notin {"count", "free", "commit"}
    BY DEF Done, CallState, Sound, Status, OfTrip
  <2>2. call' = [call EXCEPT ![c] = k] /\ UNCHANGED <<trip, session>>
    BY <1>1 DEF AskAvailability
  <2> HIDE DEF k
  <2> QED  BY <2>1, <2>2, CallReads
<1>2. CASE FindSession(c)
  <2>1. call[c].to \in Availability
    BY <1>2 DEF FindSession, PresInv, CallsInv, Sound
  <2> QED  BY <1>2, <2>1, CallFinds DEF FindSession
<1>3. CASE SetAvailability(c)
  <2> DEFINE a == call[c].to
  <2>1. /\ a \in Availability /\ call[c].rows \subseteq SessionRows
        /\ UNCHANGED trip /\ Finishes(c)
    BY <1>3 DEF SetAvailability, PresInv, CallsInv, CallState, Sound
  <2>2. ASSUME NEW s \in call[c].rows,
               session' = [session EXCEPT ![s].availability = a,
                                          ![s].is = IF a = "OFFLINE" THEN "closed" ELSE "open"]
        PROVE  SessionsInv'
    BY <2>1, <2>2 DEF PresInv, SessionsInv, SessionState
  <2>3. ASSUME UNCHANGED session
        PROVE  SessionsInv'
    BY <2>3 DEF PresInv, SessionsInv
  <2>4. SessionsInv'
    BY <1>3, <2>1, <2>2, <2>3, RowOpened DEF SetAvailability, PresInv
  <2> QED  BY <2>1, <2>4, CallEnds
<1> QED  BY <1>1, <1>2, <1>3

LEMMA LocationKeeps ==
  ASSUME PresInv, NEW c \in Calls, IngestLocation(c) \/ WriteLocation(c)
  PROVE  PresInv' /\ Freed
<1>1. CASE IngestLocation(c)
  BY <1>1, CallFinds DEF IngestLocation
<1>2. CASE WriteLocation(c)
  <2>1. Finishes(c) /\ UNCHANGED trip /\ call[c].rows \subseteq SessionRows
    BY <1>2 DEF WriteLocation, PresInv, CallsInv, CallState
  <2>2. ASSUME NEW s \in call[c].rows, NEW old \in BOOLEAN,
               session' = [session EXCEPT ![s].stale = old]
        PROVE  SessionsInv'
    BY <2>1, <2>2 DEF PresInv, SessionsInv, SessionState
  <2>3. SessionsInv'
    BY <1>2, <2>2, RowOpened DEF WriteLocation, PresInv, Availability
  <2> QED  BY <2>1, <2>3, CallEnds
<1> QED  BY <1>1, <1>2

LEMMA SweepKeeps ==
  ASSUME PresInv, NEW c \in Calls, ListStale(c) \/ CloseStale(c) \/ CallFails(c)
  PROVE  PresInv' /\ Freed
<1>1. CASE ListStale(c)
  <2> DEFINE found == {s \in SessionRows : session[s].availability # "OFFLINE" /\ session[s].stale}
             k == [Done EXCEPT !.at = "close", !.rows = found]
  <2>1. k \in CallState /\ Sound(k) /\ k.at \notin {"count", "free", "commit"}
    BY DEF Done, CallState, Sound, Status, OfTrip
  <2>2. call' = [call EXCEPT ![c] = k] /\ UNCHANGED <<trip, session>>
    BY <1>1 DEF ListStale
  <2> HIDE DEF k
  <2> QED  BY <2>1, <2>2, CallReads
<1>2. CASE CloseStale(c)
  <2>1. SessionsInv'
    BY <1>2 DEF CloseStale, PresInv, SessionsInv, SessionState, Availability
  <2> QED  BY <1>2, <2>1, CallEnds DEF CloseStale
<1>3. CASE CallFails(c)
  <2>1. SessionsInv'
    BY <1>3 DEF CallFails, PresInv, SessionsInv
  <2> QED  BY <1>3, <2>1, CallEnds DEF CallFails
<1> QED  BY <1>1, <1>2, <1>3

\* Arrival and pickup detain whom they detained.
LEMMA AdvanceKeeps ==
  ASSUME PresInv, NEW o \in Trips, NEW to \in Status, AdvanceTrip(o, to)
  PROVE  PresInv' /\ Freed
<1>1. /\ trip' \in [Trips -> Status] /\ UNCHANGED <<session, call>>
      /\ \A p \in Trips : Occupies(p) => Occupies(p)'
  BY DEF AdvanceTrip, PresInv, Occupies, Carried
<1>2. \A c \in Calls : Detained(c)'
  BY <1>1 DEF Detained, Settled, PresInv
<1>3. Freed
  BY <1>1 DEF Freed, FreesDriver, CommitsNow, InTransaction, Done
<1> QED  BY <1>1, <1>2, <1>3 DEF PresInv, SessionsInv, CallsInv, OneSettles, Settled

LEMMA ServingKeeps ==
  ASSUME PresInv, Serving \/ UNCHANGED presenceVars
  PROVE  PresInv' /\ Freed
<1>1. ASSUME UNCHANGED <<trip, call>>, SessionsInv'
      PROVE  PresInv' /\ Freed
  BY <1>1 DEF PresInv, CallsInv, OneSettles, Settled, Detained, Occupies, Freed, FreesDriver, CommitsNow
<1>2. ASSUME NEW s \in SessionRows, GpsAges(s)
      PROVE  PresInv' /\ Freed
  <2>1. SessionsInv'
    BY <1>2 DEF GpsAges, PresInv, SessionsInv, SessionState
  <2> QED  BY <1>1, <1>2, <2>1 DEF GpsAges, PresInv
<1>3. CASE SuspendFleet
  BY <1>1, <1>3, RowsSet DEF SuspendFleet, PresInv, Availability
<1>4. CASE UNCHANGED presenceVars
  BY <1>1, <1>4 DEF presenceVars, PresInv, SessionsInv
<1> QED  BY <1>2, <1>3, <1>4, AdvanceKeeps, TripsKeep, CommitsKeep, AvailabilityKeeps, LocationKeeps,
            SweepKeeps DEF Serving

----------------------------------------------------------------------------
(* The invariant *)

LEMMA InitInv == Init => IInv
<1> SUFFICES ASSUME Init
             PROVE  IInv
  OBVIOUS
<1>1. RowInv
  BY DEF Init, RowInit, RowInv, RowTypeOK, Status
<1>2. FeedInv
  <2> DEFINE e == [row |-> "none", note |-> "none", queued |-> FALSE, tries |-> 0, stalls |-> 0, gone |-> FALSE]
  <2>1. e \in Event /\ e.row = "none" /\ e.queued = FALSE
    BY FeedAssumption DEF Event, Note
  <2>2. hook = [k \in Hook |-> e] /\ work = [w \in Workers |-> Resting]
    BY DEF Init, FeedInit
  <2> HIDE DEF e
  <2>3. FeedTypeOK
    BY <2>1, <2>2, FeedTyped, RestingIdle
  <2> QED  BY <2>1, <2>2, <2>3, RestingIdle DEF FeedInv, JobInv, HookInv, SoleOwner
<1>3. ClaimsInv
  <2>1. verdict \in [Items -> Verdict \cup {"none", "open"}] /\ applied \in [Items -> [Effect -> Nat]]
    BY DEF Init, ClaimsInit
  <2>2. /\ clerk \in [Clerks -> [at : {"idle", "claim", "password", "issue"}, on : Invites \cup {NoInvite}]]
        /\ \A c \in Clerks : clerk[c].at = "idle"
    BY DEF Init, ClaimsInit, Free
  <2> QED  BY <2>1, <2>2 DEF Init, ClaimsInit, ClaimsInv, ClaimsTypeOK
<1>4. PayInv
  <2>1. /\ desk \in [Accountants -> [at : StatementStep \cup WithdrawalStep \cup {"idle"},
                                     on : Withdrawals \cup {NoWithdrawal}, file : BOOLEAN]]
        /\ \A a \in Accountants : desk[a].at = "idle"
    BY DEF Init, PayoutInit, AtRest
  <2>2. /\ statement = "NONE" /\ total = 0 /\ invoiced = FALSE /\ posted = 0
        /\ tax = "DRAFT" /\ billing = "PENDING_INVOICE"
        /\ withdrawal \in [Withdrawals -> {"NONE", "PENDING", "WITHDRAWN", "FAILED"}]
    BY DEF Init, PayoutInit
  <2>3. PayoutTypeOK
    BY <2>1, <2>2 DEF PayoutTypeOK
  <2> HIDE DEF Init
  <2> QED  BY <2>1, <2>2, <2>3 DEF PayInv, StatementInv, PaidIsBooked, WithdrawalInv, PaidHasTransfer
<1>5. PresInv
  <2>1. NoSession \in SessionState /\ NoSession.is = "none"
    BY DEF NoSession, SessionState, Availability
  <2>2. Done \in CallState /\ Sound(Done)
    BY DEF Done, CallState, Sound, Status, OfTrip
  <2>3. "DISPATCHING" \in Status
    BY DEF Status
  <2>4. trip \in [Trips -> Status] /\ SessionsInv /\ CallsInv
    BY <2>1, <2>2, <2>3 DEF Init, PresenceInit, SessionsInv, CallsInv
  <2>5. \A c \in Calls : ~Settled(c)
    BY DEF Init, PresenceInit, Settled, Done
  <2> QED  BY <2>4, <2>5 DEF PresInv, OneSettles, Detained
<1>6. DecInv
  BY DecisionsStart DEF Init
<1> QED  BY <1>1, <1>2, <1>3, <1>4, <1>5, <1>6 DEF IInv

LEMMA FeedStutters ==
  ASSUME RowInv, FeedInv, UNCHANGED <<rowVars, feedVars>>
  PROVE  RowInv' /\ FeedInv'
<1>1. UNCHANGED <<status, driverOf, hook, work>>
  BY DEF rowVars, feedVars
<1> QED  BY <1>1 DEF RowInv, RowTypeOK, FeedInv, FeedTypeOK, JobInv, HookInv, SoleOwner, SeenTo, Over

\* A step of one desk, and what it leaves of the others.
LEMMA StepInv ==
  ASSUME IInv, [Next]_vars
  PROVE  IInv' /\ Claimed /\ Standing /\ Freed
<1>1. RowInv' /\ FeedInv'
  BY FeedKeeps, FeedStutters DEF IInv, Next, Desks, Payroll, Sessions, Proposing, vars
<1>2. Claimed
  <2>1. (Deciding \/ UNCHANGED claimsVars)
    BY DEF Next, Feed, Desks, Payroll, Sessions, Proposing, vars
  <2> QED  BY <2>1, DecidingClaims DEF IInv
<1>3. PayInv' /\ Standing
  <2>1. Payroll \/ UNCHANGED payoutVars
    BY DEF Next, Feed, Desks, Sessions, Proposing, vars
  <2> QED  BY <2>1, PayrollKeeps DEF IInv
<1>4. PresInv' /\ Freed
  <2>1. Serving \/ UNCHANGED presenceVars
    BY DEF Next, Feed, Desks, Payroll, Sessions, Proposing, vars
  <2> QED  BY <2>1, ServingKeeps DEF IInv
<1>5. DecInv'
  <2>1. Approving \/ UNCHANGED decisionVars
    BY DEF Next, Feed, Desks, Payroll, Sessions, Proposing, vars
  <2> QED  BY <2>1, ApprovingKeeps DEF IInv
<1> QED  BY <1>1, <1>2, <1>3, <1>4, <1>5 DEF IInv, Claimed

\* IInv is inductive: what each desk relies on while it waits stays true, whatever the
\* other workers, clerks and accountants do.
THEOREM DesksInvariant == Spec => []IInv
<1>1. IInv /\ [Next]_vars => IInv'
  BY StepInv
<1> QED  BY <1>1, InitInv, PTL DEF Spec

----------------------------------------------------------------------------
(* What follows *)

\* Every variable of the feed, the claims, the payouts, the sessions and the proposals
\* keeps its type.
THEOREM DesksTypes == Spec => []TypeOK
<1>1. IInv => TypeOK
  BY PresenceTyped, DecisionsTyped DEF IInv, RowInv, FeedInv, ClaimsInv, PayInv, TypeOK
<1> QED  BY <1>1, DesksInvariant, PTL

\* queues/foodicsWorker.ts: a cancellation of the POS marked PROCESSED has been seen to,
\* for any number of workers, retries and stalls.
THEOREM CancellationsAreHonoured == Spec => []CancelHonoured
<1>1. IInv => CancelHonoured
  <2>1. \A o \in Orders : Cancel(o) \in Hook /\ Cancel(o)[1] = o /\ Cancel(o)[2] = "cancel"
    BY DEF Cancel, Hook
  <2> QED  BY <2>1 DEF IInv, FeedInv, HookInv, SeenTo, CancelHonoured
<1> QED  BY <1>1, DesksInvariant, PTL

\* Who writes an order.
LEMMA RowWriters ==
  ASSUME [Next]_vars
  PROVE  \/ UNCHANGED rowVars
         \/ \E w \in Workers : CreateOrder(w) \/ CancelOrder(w)
         \/ \E o \in Orders : OthersMove(o)
<1>1. ASSUME Desks \/ Payroll \/ Sessions \/ Proposing \/ UNCHANGED vars
      PROVE  UNCHANGED rowVars
  BY <1>1 DEF Desks, Payroll, Sessions, Proposing, vars
<1>2. ASSUME NEW k \in Hook, Receive(k)
      PROVE  UNCHANGED rowVars
  BY <1>2 DEF Receive
<1>3. ASSUME NEW w \in Workers, JobFails(w) \/ MarkLost(w) \/ WorkerStalls(w)
      PROVE  UNCHANGED rowVars
  BY <1>3, Zenon DEF JobFails, MarkLost, WorkerStalls
<1>4. ASSUME NEW w \in Workers, Work(w)
      PROVE  UNCHANGED rowVars \/ CreateOrder(w) \/ CancelOrder(w)
  BY <1>4, Zenon DEF Work, Take, FindOrder, RereadOrder, MarkProcessed, MarkFailed
<1> QED  BY <1>1, <1>2, <1>3, <1>4 DEF Next, Feed, Feeding

LEMMA CancelStep ==
  ASSUME IInv, [Next]_vars, NEW w \in Workers, work[w].at = "cancel", work'[w] # work[w],
         status' # status, NEW o, o = work[w].key[1]
  PROVE  status[o] \in PRE_PICKUP_STATUSES
<1>1. work[w].saw \in PRE_PICKUP_STATUSES
  BY DEF IInv, FeedInv, JobInv
<1>2. ~UNCHANGED rowVars /\ ~UNCHANGED feedVars
  BY DEF rowVars, feedVars
<1>3. PICK v \in Workers : CreateOrder(v) \/ CancelOrder(v)
  BY <1>2, RowWriters DEF OthersMove
<1>4. v # w => work'[w] = work[w]
  BY <1>3 DEF CreateOrder, CancelOrder, ToMark, To, IInv, FeedInv, FeedTypeOK
<1>5. CancelOrder(w)
  BY <1>3, <1>4 DEF CreateOrder
<1> QED  BY <1>1, <1>5 DEF CancelOrder, transitionOrder, CanTransition

\* The list of orders the POS may cancel is consulted twice before the guarded update:
\* what it cancels has still not been collected, whatever couriers and staff did between.
THEOREM PosStaysBeforePickup == Spec => PosCancelsBeforePickup
<1> DEFINE A == \A w \in Workers :
                  LET o == work[w].key[1]
                  IN  work[w].at = "cancel" /\ work'[w].at # "cancel" /\ status'[o] # status[o]
                        => status[o] \in PRE_PICKUP_STATUSES
<1>1. IInv /\ [Next]_vars => [A]_vars
  <2> SUFFICES ASSUME IInv, [Next]_vars, NEW w \in Workers, NEW o, o = work[w].key[1],
                      work[w].at = "cancel", work'[w].at # "cancel", status'[o] # status[o]
               PROVE  status[o] \in PRE_PICKUP_STATUSES
    BY DEF PRE_PICKUP_STATUSES
  <2>1. work'[w] # work[w] /\ status' # status
    OBVIOUS
  <2> QED  BY <2>1, CancelStep
<1> QED  BY <1>1, DesksInvariant, PTL DEF Spec, PosCancelsBeforePickup

LEMMA SameTable ==
  ASSUME NEW from, NEW to, isTransitionAllowed(from, to)
  PROVE  FeedLifecycle!LegalMove(from, to)
BY DEF FeedLifecycle!LegalMove, FeedLifecycle!isTransitionAllowed, FeedLifecycle!ALLOWED,
       FeedLifecycle!Status, isTransitionAllowed, ALLOWED, Status

\* One order moves along the table and the rest stay.
LEMMA RowMoves ==
  ASSUME RowInv, RowInv', NEW o \in Orders, NEW to,
         FeedLifecycle!LegalMove(status[o], to), status' = [status EXCEPT ![o] = to],
         IF to = "ASSIGNED" THEN /\ driverOf[o] = NoDriver
                                 /\ \E d \in Drivers : driverOf' = [driverOf EXCEPT ![o] = d]
                            ELSE UNCHANGED driverOf
  PROVE  FeedLifecycle!Next
<1>1. status' \in [Orders -> FeedLifecycle!Status] /\ driverOf' \in [Orders -> Drivers \cup {NoDriver}]
  BY DEF RowInv, RowTypeOK, FeedLifecycle!Status, Status
<1>2. \A p \in Orders : p # o => status'[p] = status[p] /\ driverOf'[p] = driverOf[p]
  BY DEF RowInv, RowTypeOK
<1>3. status'[o] = to /\ driverOf \in [Orders -> Drivers \cup {NoDriver}]
  BY DEF RowInv, RowTypeOK
<1>4. IF to = "ASSIGNED" THEN driverOf[o] = NoDriver /\ driverOf'[o] \in Drivers
                         ELSE driverOf'[o] = driverOf[o]
  BY <1>3
<1> QED  BY <1>1, <1>2, <1>3, <1>4 DEF FeedLifecycle!Next, FeedLifecycle!Stays, FeedLifecycle!Moves

LEMMA FeedMoves ==
  ASSUME IInv, IInv', [Next]_vars
  PROVE  FeedLifecycle!Next \/ UNCHANGED <<status, driverOf>>
<1>1. RowInv /\ RowInv' /\ FeedInv
  BY DEF IInv
<1>2. ASSUME NEW w \in Workers, CreateOrder(w)
      PROVE  FeedLifecycle!Next \/ UNCHANGED <<status, driverOf>>
  <2>1. PICK o \in Orders : o = work[w].key[1]
    BY <1>1, <1>2, KeyKnown DEF CreateOrder
  <2>2. CASE UNCHANGED status
    BY <1>2, <2>2 DEF CreateOrder
  <2>3. CASE status[o] = "NONE" /\ \E s \in Intake : status' = [status EXCEPT ![o] = s]
    <3>1. PICK s \in Intake : status' = [status EXCEPT ![o] = s]
      BY <2>3
    <3>2. FeedLifecycle!LegalMove(status[o], s) /\ s # "ASSIGNED"
      BY <2>3 DEF FeedLifecycle!LegalMove, FeedLifecycle!Intake, Intake
    <3> QED  BY <1>1, <1>2, <3>1, <3>2, RowMoves DEF CreateOrder
  <2> QED  BY <1>2, <2>1, <2>2, <2>3 DEF CreateOrder
<1>3. ASSUME NEW w \in Workers, CancelOrder(w)
      PROVE  FeedLifecycle!Next \/ UNCHANGED <<status, driverOf>>
  <2>1. PICK o \in Orders : o = work[w].key[1]
    BY <1>1, <1>3, KeyKnown DEF CancelOrder
  <2> QED  BY <1>1, <1>3, <2>1, SameTable, RowMoves DEF CancelOrder, transitionOrder, CanTransition
<1>4. ASSUME NEW o \in Orders, OthersMove(o)
      PROVE  FeedLifecycle!Next \/ UNCHANGED <<status, driverOf>>
  <2>1. PICK to \in Status :
          /\ isTransitionAllowed(status[o], to) /\ status' = [status EXCEPT ![o] = to]
          /\ IF to = "ASSIGNED" THEN \E d \in Drivers : driverOf' = [driverOf EXCEPT ![o] = d]
                                ELSE UNCHANGED driverOf
    BY <1>4 DEF OthersMove, transitionOrder, CanTransition
  <2>2. to = "ASSIGNED" => status[o] \in Unassigned
    BY <1>1, <2>1 DEF RowInv, RowTypeOK, isTransitionAllowed, ALLOWED, Unassigned, Status
  <2>3. to = "ASSIGNED" => driverOf[o] = NoDriver
    BY <1>1, <2>2 DEF RowInv
  <2> QED  BY <1>1, <2>1, <2>3, SameTable, RowMoves
<1>5. CASE UNCHANGED rowVars
  BY <1>5 DEF rowVars
<1> QED  BY <1>2, <1>3, <1>4, <1>5, RowWriters

\* routes/webhooks.ts and queues/foodicsWorker.ts implement the order lifecycle: repeated,
\* retried and stalled jobs make each order once, and move it only as the table allows.
THEOREM FeedImplementsLifecycle == Spec => FeedLifecycleSpec
<1>1. Init => FeedLifecycle!Init
  BY DEF Init, RowInit, FeedLifecycle!Init
<1>2. IInv /\ IInv' /\ [Next]_vars => [FeedLifecycle!Next]_<<status, driverOf>>
  BY FeedMoves
<1> QED  BY <1>1, <1>2, DesksInvariant, PTL DEF Spec, FeedLifecycleSpec, FeedLifecycle!Spec,
                                                FeedLifecycle!lifecycleVars

\* inviteService.ts, fleetRequestService.ts: claim first, then act, and every case is
\* decided once and each of its effects happens at most once, for any number of clerks.
THEOREM DesksClaimOnce == Spec => ClaimSpec
<1>1. Init => ClaimedOnce!Init
  BY DEF Init, ClaimsInit, ClaimedOnce!Init, Items
<1>2. IInv /\ [Next]_vars => [ClaimedOnce!Next]_<<verdict, applied>>
  <2> SUFFICES ASSUME IInv, [Next]_vars
               PROVE  ClaimedOnce!Next
    OBVIOUS
  <2>1. Claimed
    BY StepInv
  <2> QED  BY <2>1 DEF Claimed, Acted, ClaimedOnce!Next, ClaimedOnce!Stands, ClaimedOnce!Open,
                       ClaimedOnce!Decide, ClaimedOnce!Acts
<1> QED  BY <1>1, <1>2, DesksInvariant, PTL DEF Spec, ClaimSpec, ClaimedOnce!Spec, ClaimedOnce!claimVars

\* fleetService.ts: a statement is posted exactly when it reads PAID, though it is paid,
\* confirmed and disputed by requests that each go by what they read before.
THEOREM PaidStatementsAreBooked == Spec => []PaidIsBooked
<1>1. IInv => PaidIsBooked
  BY DEF IInv, PayInv
<1> QED  BY <1>1, DesksInvariant, PTL

\* routes/financial.ts: a billing is PAID only after a confirmed transfer, although the
\* two are statements of their own and any of them may fail.
THEOREM PaidBillingsHaveTransfers == Spec => []PaidHasTransfer
<1>1. IInv => PaidHasTransfer
  BY DEF IInv, PayInv
<1> QED  BY <1>1, DesksInvariant, PTL

\* routes/financial.ts: of the operators who read a withdrawal PENDING one decides it, and
\* what he decided stands.
THEOREM TransfersStand == Spec => TransferStands
<1> DEFINE A == \A w \in Withdrawals :
                  withdrawal[w] \in {"WITHDRAWN", "FAILED"} => withdrawal'[w] = withdrawal[w]
<1>1. IInv /\ [Next]_vars => [A]_vars
  BY StepInv DEF Standing
<1> QED  BY <1>1, DesksInvariant, PTL DEF Spec, TransferStands

\* orderService.ts, driverPresence.ts: of deliveries of one driver that end at the same time
\* the settlement lets one after the other count, so the last of them frees him, for any
\* number of orders, sessions and calls.  It is about orders delivered for a fee: nothing
\* keeps a failure or a cancellation from counting what another call is about to end.
THEOREM LastDeliveryFreesDriver == Spec => LastDeliveryFrees
<1>1. IInv /\ [Next]_vars =>
        [\A c \in Calls :
           /\ CommitsNow(c) /\ call[c].to = "DELIVERED"
           /\ \A o \in Trips : /\ trip'[o] \notin Carried \cup {"FAILED", "CANCELLED"}
                               /\ trip'[o] = "DELIVERED" => o \notin Gratis
           => \A s \in SessionRows : ~OpenAs(s, "BUSY")']_vars
  BY StepInv DEF Freed, FreesDriver
<1> QED  BY <1>1, DesksInvariant, PTL DEF Spec, LastDeliveryFrees

\* routes/decisions.ts, agent/ledger.ts: each time a proposal is open at most one approval
\* runs its tool, once, and has one row, which says success only if it ran, for any number
\* of proposals and requests.
THEOREM ApprovalsRunOnce == Spec => []OncePerApproval
<1>1. IInv => OncePerApproval
  BY DEF IInv, DecInv, LedgerInv, OncePerApproval
<1> QED  BY <1>1, DesksInvariant, PTL
=============================================================================
