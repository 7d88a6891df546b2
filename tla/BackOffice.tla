----------------------------- MODULE BackOffice -----------------------------
(*****************************************************************************)
(* The work behind the counter: the Foodics feed, invitations and requests,  *)
(* statements and withdrawals, the sessions of a driver, the proposals of    *)
(* the agent.  They share nothing but the process they run in, so every      *)
(* behaviour is about one of them (agenda), with all of its interleavings    *)
(* and failures.                                                             *)
(*****************************************************************************)
EXTENDS FoodicsFeed, Claims, PayoutDesk, Presence, Decisions

CONSTANT Agenda  \* bound: what a behaviour may be about

ASSUME AgendaAssumption ==
  Agenda \subseteq {"feed", "claims", "statements", "withdrawals", "presence", "decisions"}

VARIABLE agenda

vars == <<rowVars, feedVars, claimsVars, payoutVars, presenceVars, decisionVars, agenda>>

Init == RowInit /\ FeedInit /\ ClaimsInit /\ PayoutInit /\ PresenceInit /\ DecisionsInit
          /\ agenda \in Agenda

\* Dispatch, couriers and staff move the order meanwhile, as transitionOrder lets them;
\* whoever assigns it writes the driver in the same transaction.
OthersMove(o) ==
  /\ \E to \in Status :
       /\ transitionOrder(o, status[o], to)
       /\ IF to = "ASSIGNED" THEN \E d \in Drivers : driverOf' = [driverOf EXCEPT ![o] = d]
                             ELSE UNCHANGED driverOf
  /\ UNCHANGED feedVars

Feed == /\ agenda = "feed"
        /\ Feeding \/ \E o \in Orders : OthersMove(o)
        /\ UNCHANGED <<claimsVars, payoutVars, presenceVars, decisionVars, agenda>>

Desks == /\ agenda = "claims" /\ Deciding
         /\ UNCHANGED <<rowVars, feedVars, payoutVars, presenceVars, decisionVars, agenda>>

Payroll ==
  /\ \/ agenda = "statements" /\ Statements
     \/ agenda = "withdrawals" /\ Payouts
     \/ \E a \in Accountants : DeskFails(a)
  /\ UNCHANGED <<rowVars, feedVars, claimsVars, presenceVars, decisionVars, agenda>>

Sessions == /\ agenda = "presence" /\ Serving
            /\ UNCHANGED <<rowVars, feedVars, claimsVars, payoutVars, decisionVars, agenda>>

Proposing == /\ agenda = "decisions" /\ Approving
             /\ UNCHANGED <<rowVars, feedVars, claimsVars, payoutVars, presenceVars, agenda>>

Next == Feed \/ Desks \/ Payroll \/ Sessions \/ Proposing

Spec == Init /\ [][Next]_vars

\* The queue hands its jobs out, and a worker that is not dead goes on.
FairSpec == Spec /\ \A w \in Workers : WF_vars(Feed /\ Work(w))

(*****************************************************************************)
(* Properties.                                                               *)
(*****************************************************************************)
\* Every variable keeps its type.
TypeOK == /\ RowTypeOK /\ FeedTypeOK /\ ClaimsTypeOK /\ PayoutTypeOK
          /\ PresenceTypeOK /\ DecisionsTypeOK

\* The POS may cancel only what no courier has collected, although the list of such
\* orders is consulted two reads before the order is cancelled (foodicsWorker.ts).
PosCancelsBeforePickup ==
  [][\A w \in Workers :
       LET o == work[w].key[1]
       IN  work[w].at = "cancel" /\ work'[w].at # "cancel" /\ status'[o] # status[o]
             => status[o] \in PRE_PICKUP_STATUSES]_vars

\* A cancellation marked PROCESSED has been seen to: the order is over, somebody was
\* told of it, or there was no order it applied to.  A race that was lost is none of
\* these, it fails and is tried again.
CancelHonoured ==
  \A o \in Orders :
    hook[Cancel(o)].row = "PROCESSED" =>
      Over(o) \/ hook[Cancel(o)].note \in {"notified", "missing", "rejected", "skipped"}

\* A webhook that is repeated, retried or handled by two workers makes one order, and
\* what the feed does to an order are steps of the order lifecycle.
FeedLifecycle == INSTANCE OrderLifecycle WITH status <- status, driverOf <- driverOf
FeedLifecycleSpec == FeedLifecycle!Spec

\* A cancellation whose job was queued is answered: it is PROCESSED, or FAILED after the
\* last attempt, unless the queue gave the job up or the mark was lost.  A race that was
\* lost does not end it, it is tried again.
CancelAnswered ==
  \A o \in Orders :
    LET event == hook[Cancel(o)]
    IN  event.queued ~> event.row = "PROCESSED" \/ event.gone \/ (event.row = "FAILED" /\ event.tries = 0)

\* Invitations and requests are decided once, whoever gets there first, and act once.
ClaimedOnce == INSTANCE ClaimOnce WITH verdict <- verdict, applied <- applied
ClaimSpec == ClaimedOnce!Spec

\* A statement is posted to the ledger exactly when it is paid, whatever the company and
\* other finance staff do meanwhile: after the transfer it is neither disputed nor
\* confirmed again, and none but an empty one is paid without a posting and an invoice.
PaidIsBooked ==
  /\ posted = 1 => statement = "PAID"
  /\ statement = "PAID" /\ total > 0 => posted = 1 /\ invoiced

\* A billing reads PAID only when a transfer was confirmed against the bank statement,
\* although the two are written one after the other.
PaidHasTransfer == billing = "PAID" => \E w \in Withdrawals : withdrawal[w] = "WITHDRAWN"

\* A transfer that was confirmed stays confirmed, and one that failed stays failed: of
\* the operators who read it PENDING one decides.
TransferStands ==
  [][\A w \in Withdrawals :
       withdrawal[w] \in {"WITHDRAWN", "FAILED"} => withdrawal'[w] = withdrawal[w]]_vars

\* routes/decisions.ts claims "race-safe", agent/ledger.ts writes "exactly one row": each time
\* a proposal is open, at most one approval of the decisions surface runs its tool, once, and
\* has one row in the ledger, which says success only if the tool ran; whatever others
\* approve, dismiss, undo or decide in the queue meanwhile.
OncePerApproval ==
  /\ \A p \in Proposals, n \in Openings : ran[p][n] <= 1
  /\ \A i, j \in 1 .. Len(ledger) :
       ledger[i].of = ledger[j].of /\ ledger[i].n = ledger[j].n => i = j
  /\ \A i \in 1 .. Len(ledger) :
       ledger[i].outcome = "success" => ran[ledger[i].of][ledger[i].n] = 1

\* A call commits its transaction.
CommitsNow(c) == InTransaction(c) /\ trip' # trip /\ call'[c] = Done

OpenAs(s, a) == session[s].is = "open" /\ session[s].availability = a

\* completeDelivery settles before it counts, and a settlement waits for the one before it:
\* of two deliveries of one driver that end at the same time the later one counts after the
\* earlier one has committed.  So the last delivery frees him, whatever else is assigned,
\* swept or asked meanwhile, if all he had was delivered for a fee.  With a cancellation or
\* a failure among his orders it does not hold (FlagAgrees).
LastDeliveryFrees ==
  [][\A c \in Calls :
       /\ CommitsNow(c) /\ call[c].to = "DELIVERED"
       /\ \A o \in Trips : /\ trip'[o] \notin Carried \cup {"FAILED", "CANCELLED"}
                           /\ trip'[o] = "DELIVERED" => o \notin Gratis
       => \A s \in SessionRows : ~OpenAs(s, "BUSY")']_vars

(*****************************************************************************)
(* What the comments claim and the code does not keep.                       *)
(*****************************************************************************)
\* driverPresence.ts, markDriverBusy and releaseDriverToOnline run inside the transaction
\* of the order "so the flag can never disagree with the order row": the transaction that
\* takes the last order off a driver leaves him no BUSY session.
FlagAgrees ==
  [][\A c \in Calls :
       /\ CommitsNow(c) /\ call[c].from \in Carried
       /\ \A o \in Trips : trip'[o] \notin Carried
       => \A s \in SessionRows : ~OpenAs(s, "BUSY")']_vars

\* routes/decisions.ts, the claim of an approval is "race-safe: another writer claimed the
\* row first": the tool does not run both for a claim and in the queue.
RunsForOneWriter ==
  \A p \in Proposals, n \in Openings : <<p, n>> \in queueRan => ran[p][n] = 0
=============================================================================
