---------------------------- MODULE FoodicsFeed ----------------------------
(*****************************************************************************)
(* Orders and cancellations that Foodics sends: routes/webhooks.ts stores    *)
(* each event once and queues a job, queues/foodicsWorker.ts works it off.   *)
(* Jobs run side by side, are tried again when they fail, and are given to   *)
(* a second worker when the first one stalls.                                *)
(*****************************************************************************)
EXTENDS OrderRow

CONSTANTS Workers,
          MaxTries,   \* INGEST_JOB_OPTS.attempts; 1 without Redis, where the job runs inline
          MaxStalled  \* stalls after which the queue gives a job up

ASSUME FeedAssumption == MaxTries \in Nat \ {0} /\ MaxStalled \in Nat

\* order.delivery.created, and an update that says the order is inactive.
Hook == Orders \X {"create", "cancel"}
Create(o) == <<o, "create">>
Cancel(o) == <<o, "cancel">>

PRE_PICKUP_STATUSES == {"CREATED", "DISPATCHING", "NO_DRIVER", "ASSIGNED"}
TERMINAL_STATUSES == {"DELIVERED", "FAILED", "CANCELLED", "REJECTED"}

\* What a row in PROCESSED says became of its event.
Note == {"none", "done", "duplicate", "missing", "terminal", "rejected", "notified", "skipped"}

VARIABLES
  hook,  \* the WebhookEvent row of an event, and its job: queued, attempts left, stalls,
         \* gone for good without a word in the row
  work   \* jobs being worked on; "mine" until the queue gives the job to another

feedVars == <<hook, work>>

Resting == [at |-> "idle", key |-> <<>>, saw |-> "NONE", note |-> "none", mine |-> FALSE]

FeedInit ==
  /\ hook = [k \in Hook |-> [row |-> "none", note |-> "none", queued |-> FALSE, tries |-> 0, stalls |-> 0, gone |-> FALSE]]
  /\ work = [w \in Workers |-> Resting]

FeedTypeOK ==
  /\ hook \in [Hook -> [row : {"none", "RECEIVED", "PROCESSED", "FAILED"}, note : Note,
                        queued : BOOLEAN, tries : 0 .. MaxTries, stalls : 0 .. MaxStalled, gone : BOOLEAN]]
  /\ work \in [Workers -> [at : {"idle", "create", "find", "reread", "cancel", "mark", "fail"},
                           key : Hook \cup {<<>>}, saw : Status, note : Note, mine : BOOLEAN]]

To(w, at) == work' = [work EXCEPT ![w].at = at, ![w].saw = "NONE"]
\* The job of an event once a worker that has it returns, or the queue gives it up.
Ended(event, gone) == [event EXCEPT !.tries = 0, !.stalls = 0, !.gone = gone]

ToMark(w, note) == work' = [work EXCEPT ![w].at = "mark", ![w].saw = "NONE", ![w].note = note]

\* A webhook: one row for each event key, so a repeated delivery changes nothing.
\* When the job cannot be queued the row stays RECEIVED; nothing looks for it.
Receive(k) ==
  /\ hook[k].row = "none"
  /\ \E queued \in BOOLEAN :
       hook' = [hook EXCEPT ![k] = [@ EXCEPT !.row = "RECEIVED", !.queued = queued,
                                             !.tries = IF queued THEN MaxTries ELSE 0]]
  /\ UNCHANGED <<work, rowVars>>

\* A worker takes the job and reads the row.  Of a connection that is gone or broken,
\* and of an order without the tag, nothing comes.
Take(w, k) ==
  /\ work[w].at = "idle" /\ hook[k].queued
  /\ hook' = [hook EXCEPT ![k].queued = FALSE]
  /\ \/ /\ hook[k].row # "PROCESSED"
        /\ \E at \in {"mark", IF k[2] = "create" THEN "create" ELSE "find"} :
             work' = [work EXCEPT ![w] = [Resting EXCEPT !.key = k, !.at = at, !.mine = TRUE,
                                            !.note = IF at = "mark" THEN "skipped" ELSE "none"]]
     \/ hook[k].row = "PROCESSED" /\ UNCHANGED work
  /\ UNCHANGED rowVars

\* Mutant: nothing keeps the second order of one Foodics id out.
CreateAgain(w) ==
  /\ work[w].at = "create"
  /\ \E s \in Intake : status' = [status EXCEPT ![work[w].key[1]] = s]
  /\ ToMark(w, "done")
  /\ UNCHANGED <<hook, driverOf>>

\* createDeliveryOrder.  What its second attempt says of a unique key is taken for the key
\* on the Foodics order id, also when it is that of the order number, which the merchant's
\* other orders take at the same time: then no order comes of it.
CreateOrder(w) ==
  LET o == work[w].key[1]
  IN  /\ work[w].at = "create"
      /\ \/ /\ status[o] = "NONE"
            /\ \E s \in Intake : status' = [status EXCEPT ![o] = s]
            /\ ToMark(w, "done")
         \/ ToMark(w, "duplicate") /\ UNCHANGED status
      /\ UNCHANGED <<hook, driverOf>>

\* What a cancellation finds.  The supervisors are told of any order that is neither
\* over nor on the list of those before their pickup.
FindOrder(w) ==
  LET s == status[work[w].key[1]]
  IN  /\ work[w].at = "find"
      /\ \/ s = "NONE" /\ ToMark(w, "missing")
         \/ s \in TERMINAL_STATUSES /\ ToMark(w, IF s = "REJECTED" THEN "rejected" ELSE "terminal")
         \/ s \in PRE_PICKUP_STATUSES /\ To(w, "reread")
         \/ /\ s \notin TERMINAL_STATUSES \cup PRE_PICKUP_STATUSES \cup {"NONE"}
            /\ ToMark(w, "notified")
      /\ UNCHANGED <<hook, rowVars>>

\* cancelOrder reads the order again, and its transaction moves it from what it read.
RereadOrder(w) ==
  LET s == status[work[w].key[1]]
  IN  /\ work[w].at = "reread"
      /\ \/ s \in PRE_PICKUP_STATUSES /\ work' = [work EXCEPT ![w].at = "cancel", ![w].saw = s]
         \/ s \notin PRE_PICKUP_STATUSES /\ To(w, "fail")
      /\ UNCHANGED <<hook, rowVars>>

\* Mutant: the order is cancelled without a look at what it is now.
CancelUnguarded(w) ==
  /\ work[w].at = "cancel"
  /\ status' = [status EXCEPT ![work[w].key[1]] = "CANCELLED"]
  /\ ToMark(w, "done")
  /\ UNCHANGED <<hook, driverOf>>

\* Mutant: a lost race is taken for done.
CancelSwallowed(w) ==
  LET o == work[w].key[1]
  IN  /\ work[w].at = "cancel"
      /\ status' = [status EXCEPT ![o] = IF CanTransition(o, work[w].saw, "CANCELLED") THEN "CANCELLED" ELSE @]
      /\ ToMark(w, "done")
      /\ UNCHANGED <<hook, driverOf>>

CancelOrder(w) ==
  LET o == work[w].key[1]
  IN  /\ work[w].at = "cancel"
      /\ \/ transitionOrder(o, work[w].saw, "CANCELLED") /\ ToMark(w, "done")
         \/ ~CanTransition(o, work[w].saw, "CANCELLED") /\ To(w, "fail") /\ UNCHANGED status
      /\ UNCHANGED <<hook, driverOf>>

MarkProcessed(w) ==
  /\ work[w].at = "mark"
  /\ LET k    == work[w].key
         done == [hook[k] EXCEPT !.row = "PROCESSED", !.note = work[w].note]
     IN  hook' = [hook EXCEPT ![k] = IF work[w].mine THEN Ended(done, FALSE) ELSE done]
  /\ work' = [work EXCEPT ![w] = Resting]
  /\ UNCHANGED rowVars

\* Mutant: whoever fails counts, also a worker that has lost the job.
FailCountsAlways(w) ==
  /\ work[w].at = "fail"
  /\ hook' = [hook EXCEPT ![work[w].key] =
                [@ EXCEPT !.row = "FAILED", !.note = "none", !.tries = @ - 1, !.queued = (@ \/ hook[work[w].key].tries > 1)]]
  /\ work' = [work EXCEPT ![w] = Resting]
  /\ UNCHANGED rowVars

\* Mutant: the row says FAILED and that is the end of it.
FailForGood(w) ==
  /\ work[w].at = "fail"
  /\ hook' = [hook EXCEPT ![work[w].key].row = "FAILED", ![work[w].key].note = "none"]
  /\ work' = [work EXCEPT ![w] = Resting]
  /\ UNCHANGED rowVars

\* The row says FAILED, even one that another worker has marked PROCESSED; the error is
\* thrown on, and the queue tries again if the job is still this worker's.
MarkFailed(w) ==
  LET k      == work[w].key
      failed == [hook[k] EXCEPT !.row = "FAILED", !.note = "none"]
  IN  /\ work[w].at = "fail"
      /\ hook' = [hook EXCEPT ![k] =
                    IF ~work[w].mine THEN failed
                    ELSE IF failed.tries = 1 THEN Ended(failed, FALSE)
                    ELSE [failed EXCEPT !.tries = @ - 1, !.queued = TRUE]]
      /\ work' = [work EXCEPT ![w] = Resting]
      /\ UNCHANGED rowVars

Work(w) ==
  \/ \E k \in Hook : Take(w, k)
  \/ CreateOrder(w) \/ FindOrder(w) \/ RereadOrder(w) \/ CancelOrder(w)
  \/ MarkProcessed(w) \/ MarkFailed(w)

\* A statement of the job fails.
JobFails(w) ==
  /\ work[w].at \in {"create", "find", "reread", "cancel"}
  /\ To(w, "fail")
  /\ UNCHANGED <<hook, rowVars>>

\* markWebhookEvent logs an error and returns: the job is done, the row does not say so.
MarkLost(w) ==
  /\ work[w].at = "mark"
  /\ hook' = [hook EXCEPT ![work[w].key] = IF work[w].mine THEN Ended(@, TRUE) ELSE @]
  /\ work' = [work EXCEPT ![w] = Resting]
  /\ UNCHANGED rowVars

\* The worker is thought to be dead.  Its job goes to another, unless it has stalled too
\* often; and perhaps it is not dead.
WorkerStalls(w) ==
  /\ work[w].mine
  /\ \A k \in Hook : k # work[w].key => hook[k].stalls = 0  \* bound: one job stalls at a time
  /\ LET k == work[w].key
     IN  \/ /\ hook[k].stalls < MaxStalled
            /\ hook' = [hook EXCEPT ![k].stalls = @ + 1, ![k].queued = TRUE]
         \/ /\ hook[k].stalls = MaxStalled
            /\ hook' = [hook EXCEPT ![k] = Ended(@, TRUE)]
  /\ \/ work' = [work EXCEPT ![w] = Resting]
     \/ work' = [work EXCEPT ![w].mine = FALSE]
  /\ UNCHANGED rowVars

Feeding ==
  \/ \E k \in Hook : Receive(k)
  \/ \E w \in Workers : Work(w) \/ JobFails(w) \/ MarkLost(w) \/ WorkerStalls(w)
=============================================================================
