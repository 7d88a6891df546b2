------------------------------ MODULE Dispatch ------------------------------
(*****************************************************************************)
(* The dispatch engine and the order operations that race with it:           *)
(* services/dispatch/dispatchEngine.ts, driverPresence.ts, orderService.ts,  *)
(* the job queue in front of them and the driver endpoints behind them.      *)
(*                                                                           *)
(* A database transaction is one action, but for those that take an order    *)
(* off its driver: they count what else he carries and write after, and      *)
(* READ COMMITTED lets others commit between.  What the code does outside    *)
(* one transaction is several: a dispatch round reads the order and ranks    *)
(* the drivers, later writes the offer, later looks for a batch sibling,     *)
(* later attaches it; closing a batch follows the closing of one offer; a    *)
(* retry claims the order and then transitions it.  Other actors step in     *)
(* between, and the process may die there.                                   *)
(*****************************************************************************)
EXTENDS OrderFSM, Integers, FiniteSets

CONSTANTS
  Orders, NoOrder,
  Drivers, NoDriver,   \* drivers whose row is ACTIVE
  Workers,             \* rounds that can be in flight at once (queue workers, sweeps)
  MaxOfferRounds,      \* FulfillmentSettings.maxOfferRounds
  BatchingEnabled,     \* FulfillmentSettings.batchingEnabled
  Batchable,           \* pairs of orders with one pickup branch and close drops
  CarOnly, Cars,       \* orders that need a car, drivers that have one
  Throttled,           \* drivers with throttledUntil in the future
  Reach,               \* first round whose effectiveRadiusKm covers the driver
  ShortLastLeg,        \* orders whose last leg ends within finishingSoonMinutes
  CashTotal,           \* orderTotalKwd of a COD order, 0 for a prepaid one
  Ceiling,             \* FulfillmentSettings.driverCashCeilingKwd
  OnShift,             \* drivers ONLINE with fresh GPS at the start
  Roaming,             \* bound: drivers whose availability and GPS change
  May                  \* bound: what may happen to each order besides offers (see Event)

\* Scheduled or rejected at intake; cancelled; redispatched or assigned by a
\* supervisor; carried on after it was assigned; retried after a pause; its jobs
\* and the rounds it is in lost with their process.
Event == {"late", "cancel", "staff", "trip", "retry", "loss"}

ASSUME DispatchAssumption ==
  /\ NoOrder \notin Orders /\ NoDriver \notin Drivers
  /\ MaxOfferRounds \in Nat /\ BatchingEnabled \in BOOLEAN
  /\ Batchable \subseteq Orders \X Orders
  /\ CarOnly \subseteq Orders /\ ShortLastLeg \subseteq Orders
  /\ May \in [Orders -> SUBSET Event]
  /\ Cars \subseteq Drivers /\ Throttled \subseteq Drivers
  /\ OnShift \subseteq Drivers /\ Roaming \subseteq Drivers
  /\ Reach \in [Drivers -> Nat] /\ CashTotal \in [Orders -> Nat]
  /\ Ceiling \in Nat

VARIABLES
  \* DeliveryOrder rows
  status, driverOf, offerRound,
  redispatched,   \* redispatchAttempts > 0
  retryAt,        \* nextRedispatchAt: "null", "armed" (in the future), "due"
  offers,         \* DispatchOffer rows
  \* CourierOnlineSession rows, and the driver's wallet
  session, fresh, cash,
  ending,         \* transactions that take an order off its driver, counted but not committed
  \* work that is not in the database
  todo,           \* orders handed to a round that has not started
  rounds,         \* rounds in flight
  closing,        \* batches being closed after one of their offers
  retrying        \* orders claimed for a retry, not yet transitioned

orderVars == <<status, driverOf, offerRound, redispatched, retryAt>>
driverVars == <<session, fresh, cash, ending>>
workVars == <<todo, rounds, closing, retrying>>
vars == <<status, driverOf, offerRound, redispatched, retryAt, offers,
          session, fresh, cash, ending, todo, rounds, closing, retrying>>

----------------------------------------------------------------------------
(* Types *)

OfferStatus == {"OFFERED", "ACCEPTED", "DECLINED", "EXPIRED", "CANCELLED"}

\* Round of the ACCEPTED row a manual assignment writes.
ManualRound == -1
Round == Nat \cup {ManualRound}

\* @@unique([orderId, driverId, round])
Key(x) == <<x.order, x.driver, x.round>>
NoBatch == <<NoOrder, NoDriver, 0>>

\* batchId is a fresh uuid shared by the two offers; the key of the primary
\* offer stands for it.
Offer == [order: Orders, driver: Drivers, round: Round, status: OfferStatus,
          elapsed: BOOLEAN,
          batch: (Orders \X Drivers \X Round) \cup {NoBatch}]

\* "NONE": no row with isOnline; otherwise availability of the open row.
Session == {"NONE", "OFFLINE", "ONLINE", "BUSY"}

\* Where a round in flight stands, and what it has read so far.
Stage == {"idle", "exhaust", "commit", "sibling", "attach"}
RoundState == [stage: Stage, order: Orders \cup {NoOrder}, at: Nat,
               driver: Drivers \cup {NoDriver},
               sib: Orders \cup {NoOrder}, sibAt: Nat]
Idle == [stage |-> "idle", order |-> NoOrder, at |-> 0, driver |-> NoDriver,
         sib |-> NoOrder, sibAt |-> 0]

\* The key of the offer that a round writes.
RoundKey(r) == <<r.order, r.driver, r.at>>

\* What such a transaction makes of the order, and whether it lets the driver go.
Ending == [to: {"NONE", "DELIVERED", "FAILED", "CANCELLED"}, free: BOOLEAN]
NotEnding == [to |-> "NONE", free |-> FALSE]

Closing == [batch: Orders \X Drivers \X Round, except: Orders \X Drivers \X Round,
            to: {"DECLINED", "EXPIRED"}, advance: BOOLEAN]

TypeOK ==
  /\ status \in [Orders -> Status]
  /\ driverOf \in [Orders -> Drivers \cup {NoDriver}]
  /\ offerRound \in [Orders -> Nat]
  /\ redispatched \in [Orders -> BOOLEAN]
  /\ retryAt \in [Orders -> {"null", "armed", "due"}]
  /\ offers \subseteq Offer
  /\ session \in [Drivers -> Session]
  /\ fresh \subseteq Drivers
  /\ cash \in [Drivers -> Nat]
  /\ ending \in [Orders -> Ending]
  /\ todo \subseteq Orders
  /\ rounds \in [Workers -> RoundState]
  /\ closing \subseteq Closing
  /\ retrying \subseteq Orders

Init ==
  /\ status = [o \in Orders |-> "NONE"]
  /\ driverOf = [o \in Orders |-> NoDriver]
  /\ offerRound = [o \in Orders |-> 0]
  /\ redispatched = [o \in Orders |-> FALSE]
  /\ retryAt = [o \in Orders |-> "null"]
  /\ offers = {}
  /\ session = [d \in Drivers |-> IF d \in OnShift THEN "ONLINE" ELSE "NONE"]
  /\ fresh = OnShift
  /\ cash = [d \in Drivers |-> 0]
  /\ ending = [o \in Orders |-> NotEnding]
  /\ todo = {} /\ closing = {} /\ retrying = {}
  /\ rounds = [w \in Workers |-> Idle]

----------------------------------------------------------------------------
(* Guarded transitions and presence *)

\* transitionOrder: legality check, then the update guarded by the status.
CanTransition(o, from, to) == status[o] = from /\ isTransitionAllowed(from, to)

Open(x) == x.status = "OFFERED"
Live(x) == Open(x) /\ ~x.elapsed          \* OFFERED and expiresAt > now
OffersOf(o) == {x \in offers : x.order = o}
BatchOf(b) == IF b = NoBatch THEN {} ELSE {x \in offers : x.batch = b}

\* Nothing reads expiresAt of an offer that is no longer OFFERED.
Closed(x, to) == [x EXCEPT !.status = to, !.elapsed = TRUE]

\* offers after the rows in S were set to the given status
Set(S, to) == (offers \ S) \cup {Closed(x, to) : x \in S}

\* Offers that a round still in flight has inserted.  Under READ COMMITTED the
\* statement that looks for open offers may run before that insert commits, and
\* the statement that then moves the order after it.
JustInserted(o) ==
  {x \in OffersOf(o) :
     Open(x) /\ \E w \in Workers : rounds[w].stage = "sibling" /\ RoundKey(rounds[w]) = Key(x)}

\* cancelOpenOffers, inside the caller's transaction; it may have missed some.
cancelOpenOffers(o, missed) == Set({x \in OffersOf(o) \ missed : Open(x)}, "CANCELLED")

markDriverBusy(d) ==
  session' = [session EXCEPT ![d] = IF @ = "NONE" THEN @ ELSE "BUSY"]

\* releaseDriverToOnline, the update: by what was counted (see CountActive).
releaseDriverToOnline(o) ==
  LET d == driverOf[o]
  IN  IF d # NoDriver /\ ending[o].free /\ session[d] = "BUSY"
        THEN session' = [session EXCEPT ![d] = "ONLINE"]
        ELSE UNCHANGED session

----------------------------------------------------------------------------
(* Candidate selection *)

isDriverOverCeiling(d, additional) == cash[d] + additional > Ceiling

ActiveOf(d) == {p \in Orders : driverOf[p] = d /\ status[p] \in CountedActive}

\* Any open offer anywhere, or any offer for this order ever.
ExcludedByOffer(o, d) ==
  \E x \in offers : x.driver = d /\ (Open(x) \/ x.order = o)

\* Retry rounds search without a radius cap.
InRange(o, d) == redispatched[o] \/ offerRound[o] >= Reach[d]

Eligible(o, d) ==
  /\ o \in CarOnly => d \in Cars
  /\ ~ExcludedByOffer(o, d)
  /\ InRange(o, d)
  /\ ~isDriverOverCeiling(d, CashTotal[o])

\* One active order, collected, and nearly delivered.
FinishingSoon(d) ==
  \E p \in ShortLastLeg : ActiveOf(d) = {p} /\ status[p] = "PICKED_UP"

selectCandidates(o) ==
  {d \in fresh : /\ session[d] = "ONLINE"
                 /\ Eligible(o, d)
                 /\ ActiveOf(d) = {} \/ FinishingSoon(d)}

\* Throttled drivers after all others, and within that busy after free.
RankOf(d) == (IF d \in Throttled THEN 2 ELSE 0) + (IF ActiveOf(d) = {} THEN 0 ELSE 1)

\* candidates[0].  Distance and idle time only break ties, so any driver of
\* the best rank may come first.
FirstCandidate(o) ==
  {d \in selectCandidates(o) : \A e \in selectCandidates(o) : RankOf(d) <= RankOf(e)}

----------------------------------------------------------------------------
(* A dispatch round: runDispatchRound *)

\* The round reads the order and the candidates.
BeginRound(w, o) ==
  /\ rounds[w] = Idle /\ o \in todo
  /\ todo' = todo \ {o}
  /\ \/ /\ status[o] # "DISPATCHING"
        /\ UNCHANGED rounds
     \/ /\ status[o] = "DISPATCHING"
        /\ offerRound[o] >= MaxOfferRounds \/ selectCandidates(o) = {}
        /\ rounds' = [rounds EXCEPT ![w] = [Idle EXCEPT !.stage = "exhaust", !.order = o]]
     \/ /\ status[o] = "DISPATCHING" /\ offerRound[o] < MaxOfferRounds
        /\ \E d \in FirstCandidate(o) :
             rounds' = [rounds EXCEPT ![w] = [Idle EXCEPT !.stage = "commit", !.order = o,
                                                          !.at = offerRound[o], !.driver = d]]
  /\ UNCHANGED <<orderVars, offers, driverVars, closing, retrying>>

ExhaustUnguarded(w) ==                 \* mutant: trusts the status the round read
  /\ rounds[w].stage = "exhaust"
  /\ rounds' = [rounds EXCEPT ![w] = Idle]
  /\ status' = [status EXCEPT ![rounds[w].order] = "NO_DRIVER"]
  /\ redispatched' = [redispatched EXCEPT ![rounds[w].order] = TRUE]
  /\ retryAt' = [retryAt EXCEPT ![rounds[w].order] = "armed"]
  /\ UNCHANGED <<driverOf, offerRound, offers, driverVars, todo, closing, retrying>>

\* exhaustDispatch: pause the order and stamp its retry clock, or give up
\* because the order left DISPATCHING.
ExhaustDispatch(w) ==
  LET o == rounds[w].order IN
  /\ rounds[w].stage = "exhaust"
  /\ rounds' = [rounds EXCEPT ![w] = Idle]
  /\ \/ /\ CanTransition(o, "DISPATCHING", "NO_DRIVER")
        /\ status' = [status EXCEPT ![o] = "NO_DRIVER"]
        /\ redispatched' = [redispatched EXCEPT ![o] = TRUE]
        /\ retryAt' = [retryAt EXCEPT ![o] = "armed"]
        /\ UNCHANGED <<driverOf, offerRound>>
     \/ /\ ~CanTransition(o, "DISPATCHING", "NO_DRIVER")
        /\ UNCHANGED orderVars
  /\ UNCHANGED <<offers, driverVars, todo, closing, retrying>>

CanOfferAnyRound(o, d, r) ==           \* mutant: no compare-and-set on offerRound
  status[o] = "DISPATCHING" /\ \A x \in offers : Key(x) # <<o, d, r>>
CanOfferAnyStatus(o, d, r) ==          \* mutant: the order may have left DISPATCHING
  offerRound[o] = r /\ \A x \in offers : Key(x) # <<o, d, r>>

\* The compare-and-set that writes an offer for o to d at round r.
CanOffer(o, d, r) ==
  /\ status[o] = "DISPATCHING" /\ offerRound[o] = r
  /\ \A x \in offers : Key(x) # <<o, d, r>>

NewOffer(o, d, r, elapsed, batch) ==
  [order |-> o, driver |-> d, round |-> r, status |-> "OFFERED",
   elapsed |-> elapsed, batch |-> batch]

CommitOffer(w) ==
  LET o == rounds[w].order
      d == rounds[w].driver
      r == rounds[w].at
  IN
  /\ rounds[w].stage = "commit"
  /\ \/ /\ CanOffer(o, d, r)
        /\ offers' = offers \cup {NewOffer(o, d, r, FALSE, NoBatch)}
        /\ offerRound' = [offerRound EXCEPT ![o] = @ + 1]
        /\ rounds' = [rounds EXCEPT ![w].stage = "sibling"]
     \/ /\ ~CanOffer(o, d, r)
        /\ rounds' = [rounds EXCEPT ![w] = Idle]
        /\ UNCHANGED <<offers, offerRound>>
  /\ UNCHANGED <<status, driverOf, redispatched, retryAt, driverVars, todo, closing, retrying>>

----------------------------------------------------------------------------
(* Auto-batching: findBatchSibling, attachBatchSibling *)

\* Another waiting order of the same branch, close by, with no live offer, whose
\* vehicle and whose cash the chosen driver can carry along.
BatchSiblings(o, d) ==
  {p \in Orders \ {o} :
     /\ BatchingEnabled
     /\ <<o, p>> \in Batchable
     /\ status[p] = "DISPATCHING"
     /\ \A x \in OffersOf(p) : ~Live(x)
     /\ p \in CarOnly => o \in CarOnly}

OverWithBoth(o, p, d) ==
  CashTotal[o] + CashTotal[p] > 0 /\ isDriverOverCeiling(d, CashTotal[o] + CashTotal[p])

FindSibling(w) ==
  LET o == rounds[w].order
      d == rounds[w].driver
  IN
  /\ rounds[w].stage = "sibling"
  /\ \/ \E p \in BatchSiblings(o, d) :
          rounds' = [rounds EXCEPT ![w] =
                       IF OverWithBoth(o, p, d) THEN Idle
                       ELSE [@ EXCEPT !.stage = "attach", !.sib = p, !.sibAt = offerRound[p]]]
     \/ /\ BatchSiblings(o, d) = {}
        /\ rounds' = [rounds EXCEPT ![w] = Idle]
  /\ UNCHANGED <<orderVars, offers, driverVars, todo, closing, retrying>>

AttachToAnyPrimary(w) ==               \* mutant: the primary may be closed already
  LET p == rounds[w].sib
      d == rounds[w].driver
      k == RoundKey(rounds[w])
      primary == {x \in offers : Key(x) = k}
  IN
  /\ rounds[w].stage = "attach" /\ CanOffer(p, d, rounds[w].sibAt)
  /\ rounds' = [rounds EXCEPT ![w] = Idle]
  /\ offers' = (offers \ primary) \cup {[x EXCEPT !.batch = k] : x \in primary}
                  \cup {NewOffer(p, d, rounds[w].sibAt, x.elapsed, k) : x \in primary}
  /\ offerRound' = [offerRound EXCEPT ![p] = @ + 1]
  /\ UNCHANGED <<status, driverOf, redispatched, retryAt, driverVars, todo, closing, retrying>>
AttachWithOwnWindow(w) ==              \* mutant: the sibling offer gets a fresh window
  LET p == rounds[w].sib
      d == rounds[w].driver
      k == RoundKey(rounds[w])
      primary == {x \in offers : Key(x) = k /\ Open(x)}
  IN
  /\ rounds[w].stage = "attach" /\ CanOffer(p, d, rounds[w].sibAt)
  /\ rounds' = [rounds EXCEPT ![w] = Idle]
  /\ offers' = (offers \ primary) \cup {[x EXCEPT !.batch = k] : x \in primary}
                  \cup {NewOffer(p, d, rounds[w].sibAt, FALSE, k) : x \in primary}
  /\ offerRound' = [offerRound EXCEPT ![p] = @ + 1]
  /\ UNCHANGED <<status, driverOf, redispatched, retryAt, driverVars, todo, closing, retrying>>

\* One transaction: sibling offer, round bump, and the primary offer stamped
\* with the batch if it is still OFFERED.
AttachSibling(w) ==
  LET p == rounds[w].sib
      d == rounds[w].driver
      r == rounds[w].sibAt
      k == RoundKey(rounds[w])
      primary == {x \in offers : Key(x) = k /\ Open(x)}
  IN
  /\ rounds[w].stage = "attach"
  /\ rounds' = [rounds EXCEPT ![w] = Idle]
  /\ \/ /\ CanOffer(p, d, r) /\ primary # {}
        /\ offers' = (offers \ primary)
                       \cup {[x EXCEPT !.batch = k] : x \in primary}
                       \cup {NewOffer(p, d, r, x.elapsed, k) : x \in primary}
        /\ offerRound' = [offerRound EXCEPT ![p] = @ + 1]
     \/ /\ ~(CanOffer(p, d, r) /\ primary # {})
        /\ UNCHANGED <<offers, offerRound>>
  /\ UNCHANGED <<status, driverOf, redispatched, retryAt, driverVars, todo, closing, retrying>>

----------------------------------------------------------------------------
(* How an offer ends *)

\* Time passes the expiresAt the offers of a batch share.
OfferElapses(x) ==
  /\ Live(x)
  /\ LET S == {x} \cup {y \in BatchOf(x.batch) : Live(y)}
     IN  offers' = (offers \ S) \cup {[y EXCEPT !.elapsed = TRUE] : y \in S}
  /\ UNCHANGED <<orderVars, driverVars, workVars>>

\* Close one offer; its order goes back to a round at once, or the rest of the
\* batch it was seen to be in is closed first.
CloseOffer(x, to, batch, advance) ==
  /\ offers' = Set({x}, to)
  /\ IF batch = NoBatch
       THEN /\ todo' = IF advance THEN todo \cup {x.order} ELSE todo
            /\ UNCHANGED closing
       ELSE /\ closing' = closing \cup {[batch |-> batch, except |-> Key(x),
                                         to |-> to, advance |-> advance]}
            /\ UNCHANGED todo
  /\ UNCHANGED <<orderVars, driverVars, rounds, retrying>>

ExpireWhileDispatching(x, advance) ==  \* mutant: only for orders still DISPATCHING
  /\ Open(x) /\ x.elapsed /\ status[x.order] = "DISPATCHING"
  /\ CloseOffer(x, "EXPIRED", x.batch, advance)

\* expireOffer, by the delayed job (which advances the order itself) or by the
\* sweep (whose second leg does).  It reads the row first: a primary offer may
\* have been stamped with its batch after that.
ExpireOffer(x, advance) ==
  /\ Open(x) /\ x.elapsed
  /\ \/ CloseOffer(x, "EXPIRED", x.batch, advance)
     \/ x.batch = Key(x) /\ CloseOffer(x, "EXPIRED", NoBatch, advance)

DeclineAnyOffer(x) ==                  \* mutant: a late decline is not ignored
  CloseOffer(x, "DECLINED", x.batch, TRUE)

\* declineOffer does not look at expiresAt, and reads the row afterwards.
DeclineOffer(x) == Open(x) /\ CloseOffer(x, "DECLINED", x.batch, TRUE)

CloseAndQueueOffers(c) ==              \* mutant: queues offers where orders are due
  LET S == {y \in BatchOf(c.batch) : Open(y) /\ Key(y) # c.except} IN
  /\ offers' = Set(S, c.to)
  /\ todo' = IF c.advance THEN todo \cup {c.except[1]} \cup {Key(y) : y \in S} ELSE todo
  /\ closing' = closing \ {c}
  /\ UNCHANGED <<orderVars, driverVars, rounds, retrying>>

\* closeBatchSiblings, then the jobs for every order of the batch.
CloseBatchSiblings(c) ==
  LET S == {y \in BatchOf(c.batch) : Open(y) /\ Key(y) # c.except} IN
  /\ offers' = Set(S, c.to)
  /\ todo' = IF c.advance THEN todo \cup {c.except[1]} \cup {y.order : y \in S} ELSE todo
  /\ closing' = closing \ {c}
  /\ UNCHANGED <<orderVars, driverVars, rounds, retrying>>

AcceptIgnoringOrder(x) ==              \* mutant: only the offer is guarded
  /\ Live(x)
  /\ offers' = Set({x}, "ACCEPTED")
  /\ status' = [status EXCEPT ![x.order] = "ASSIGNED"]
  /\ driverOf' = [driverOf EXCEPT ![x.order] = x.driver]
  /\ markDriverBusy(x.driver)
  /\ UNCHANGED <<offerRound, redispatched, retryAt, fresh, cash, ending, workVars>>

\* acceptOffer: the offer, its order, and the rest of the batch in one
\* transaction; a sibling whose order has gone has its offer cancelled.
AcceptOffer(x) ==
  LET sibs == {y \in BatchOf(x.batch) : Open(y) /\ y.driver = x.driver} \ {x}
      won  == {y \in sibs : y.order # x.order /\ CanTransition(y.order, "DISPATCHING", "ASSIGNED")}
      taken == {x.order} \cup {y.order : y \in won}
  IN
  /\ Live(x)
  /\ CanTransition(x.order, "DISPATCHING", "ASSIGNED")
  /\ offers' = (offers \ ({x} \cup sibs))
                 \cup {Closed(y, "ACCEPTED") : y \in {x} \cup won}
                 \cup {Closed(y, "CANCELLED") : y \in sibs \ won}
  /\ status' = [o \in Orders |-> IF o \in taken THEN "ASSIGNED" ELSE status[o]]
  /\ driverOf' = [o \in Orders |-> IF o \in taken THEN x.driver ELSE driverOf[o]]
  /\ markDriverBusy(x.driver)
  /\ UNCHANGED <<offerRound, redispatched, retryAt, fresh, cash, ending, workVars>>

----------------------------------------------------------------------------
(* The sweep, and what becomes of the work when a process dies *)

\* Leg 2 reads the list of orders without a live offer.
Wedged == {o \in Orders : status[o] = "DISPATCHING" /\ \A x \in OffersOf(o) : ~Live(x)}
SweepAfterOffers ==                    \* mutant: work derived from the offers made
  /\ todo' = todo \cup {o \in Wedged : OffersOf(o) # {}}
  /\ UNCHANGED <<orderVars, offers, driverVars, rounds, closing, retrying>>
SweepAdvance ==
  /\ todo' = todo \cup Wedged
  /\ UNCHANGED <<orderVars, offers, driverVars, rounds, closing, retrying>>

SweepAdoptOld ==                       \* mutant: only orders never paused before
  /\ retryAt' = [o \in Orders |-> IF /\ status[o] = "NO_DRIVER" /\ retryAt[o] = "null"
                                     /\ ~redispatched[o] THEN "due" ELSE retryAt[o]]
  /\ UNCHANGED <<status, driverOf, offerRound, redispatched, offers, driverVars, workVars>>

\* Leg 3a adopts paused orders that have no retry clock.
SweepAdopt ==
  /\ retryAt' = [o \in Orders |-> IF status[o] = "NO_DRIVER" /\ retryAt[o] = "null"
                                    THEN "due" ELSE retryAt[o]]
  /\ UNCHANGED <<status, driverOf, offerRound, redispatched, offers, driverVars, workVars>>

BackoffElapses(o) ==
  /\ "retry" \in May[o] /\ retryAt[o] = "armed"
  /\ retryAt' = [retryAt EXCEPT ![o] = "due"]
  /\ UNCHANGED <<status, driverOf, offerRound, redispatched, offers, driverVars, workVars>>

\* Leg 3b, retryExhaustedOrder: first the claim.  It only asks for a clock that is
\* set: a sweep that listed the order when it was due may come to it after another
\* one has retried it and it was paused again.  Bound: one retry per order between
\* its two steps.
RetryClaim(o) ==
  /\ o \notin retrying
  /\ status[o] = "NO_DRIVER"
  /\ retryAt[o] = "due" \/ (retryAt[o] = "armed" /\ "retry" \in May[o])
  /\ retryAt' = [retryAt EXCEPT ![o] = "null"]
  /\ offerRound' = [offerRound EXCEPT ![o] = 0]
  /\ retrying' = retrying \cup {o}
  /\ UNCHANGED <<status, driverOf, redispatched, offers, driverVars, todo, rounds, closing>>

RetryUnguarded(o) ==                   \* mutant: the claim is taken for a lock
  /\ o \in retrying
  /\ retrying' = retrying \ {o}
  /\ status' = [status EXCEPT ![o] = "DISPATCHING"]
  /\ todo' = todo \cup {o}
  /\ UNCHANGED <<driverOf, offerRound, redispatched, retryAt, offers, driverVars, rounds, closing>>

\* Then the transition and the next round, unless someone else was first.
RetryTransition(o) ==
  /\ o \in retrying
  /\ retrying' = retrying \ {o}
  /\ IF CanTransition(o, "NO_DRIVER", "DISPATCHING")
       THEN /\ status' = [status EXCEPT ![o] = "DISPATCHING"]
            /\ todo' = todo \cup {o}
       ELSE UNCHANGED <<status, todo>>
  /\ UNCHANGED <<driverOf, offerRound, redispatched, retryAt, offers, driverVars, rounds, closing>>

\* The transition throws: the sweep re-arms the clock.  The process dies: it does not.
RetryFails(o, rearm) ==
  /\ "loss" \in May[o] /\ o \in retrying
  /\ retrying' = retrying \ {o}
  /\ retryAt' = IF rearm /\ status[o] = "NO_DRIVER"
                  THEN [retryAt EXCEPT ![o] = "armed"] ELSE retryAt
  /\ UNCHANGED <<status, driverOf, offerRound, redispatched, offers, driverVars,
                 todo, rounds, closing>>

\* A job is dropped (no Redis, no handler), or the process holding the list dies.
LoseJob(o) ==
  /\ "loss" \in May[o] /\ o \in todo
  /\ todo' = todo \ {o}
  /\ UNCHANGED <<orderVars, offers, driverVars, rounds, closing, retrying>>

\* A process dies in the middle of a round, or before it has closed a batch.
LoseRound(w) ==
  /\ rounds[w] # Idle /\ "loss" \in May[rounds[w].order]
  /\ rounds' = [rounds EXCEPT ![w] = Idle]
  /\ UNCHANGED <<orderVars, offers, driverVars, todo, closing, retrying>>
LoseClosing(c) ==
  /\ "loss" \in May[c.except[1]]
  /\ closing' = closing \ {c}
  /\ UNCHANGED <<orderVars, offers, driverVars, todo, rounds, retrying>>

----------------------------------------------------------------------------
(* Orders: orderService.ts and its callers *)

\* createDeliveryOrder: rejected at intake, scheduled for later, or dispatched.
CreateDeliveryOrder(o, s) ==
  /\ status[o] = "NONE" /\ s \in Intake
  /\ s # "DISPATCHING" => "late" \in May[o]
  /\ status' = [status EXCEPT ![o] = s]
  /\ todo' = IF s = "DISPATCHING" THEN todo \cup {o} ELSE todo
  /\ UNCHANGED <<driverOf, offerRound, redispatched, retryAt, offers, driverVars,
                 rounds, closing, retrying>>

ToDispatch(o) ==
  /\ status' = [status EXCEPT ![o] = "DISPATCHING"]
  /\ todo' = todo \cup {o}
  /\ UNCHANGED <<driverOf, offerRound, redispatched, retryAt, offers, driverVars,
                 rounds, closing, retrying>>

\* A scheduled order comes due.
SweepScheduledOrders(o) == CanTransition(o, "CREATED", "DISPATCHING") /\ ToDispatch(o)

\* PATCH /:id/dropoff: a rejected order is cured and passes through CREATED.
FixDropoff(o) == CanTransition(o, "REJECTED", "CREATED") /\ ToDispatch(o)

\* What the callers of cancelOrder pass as allowFrom.  Only the vendor portal
\* names ARRIVED, which the table of moves allows.
SUPERVISOR_CANCELLABLE == {"CREATED", "DISPATCHING", "NO_DRIVER", "ASSIGNED", "PICKED_UP"}
VendorCancellable == {"CREATED", "DISPATCHING", "NO_DRIVER", "ASSIGNED", "ARRIVED"}

MayCancel(o) == /\ "cancel" \in May[o]
                /\ status[o] \in SUPERVISOR_CANCELLABLE \cup VendorCancellable

\* A transaction commits what it made of the order; none has counted where to is "NONE".
Commits(o, to) == ending[o].to = to /\ ending' = [ending EXCEPT ![o] = NotEnding]

\* Only who has a driver has him counted.
CancelOrder(o) ==
  /\ MayCancel(o)
  /\ CanTransition(o, status[o], "CANCELLED")
  /\ Commits(o, IF driverOf[o] = NoDriver THEN "NONE" ELSE "CANCELLED")
  /\ status' = [status EXCEPT ![o] = "CANCELLED"]
  /\ \E missed \in {{}, JustInserted(o)} : offers' = cancelOpenOffers(o, missed)
  /\ releaseDriverToOnline(o)
  /\ UNCHANGED <<driverOf, offerRound, redispatched, retryAt, fresh, cash, workVars>>

\* assignDriverManually: no look at what else the driver carries.
AssignDriverManually(o, d) ==
  LET k == <<o, d, ManualRound>>
      row == [order |-> o, driver |-> d, round |-> ManualRound, status |-> "ACCEPTED",
              elapsed |-> TRUE, batch |-> NoBatch]
  IN
  /\ "staff" \in May[o]
  /\ CanTransition(o, "NO_DRIVER", "ASSIGNED") \/ CanTransition(o, "DISPATCHING", "ASSIGNED")
  /\ \E missed \in {{}, JustInserted(o)} :
       offers' = {x \in cancelOpenOffers(o, missed) : Key(x) # k} \cup {row}
  /\ status' = [status EXCEPT ![o] = "ASSIGNED"]
  /\ driverOf' = [driverOf EXCEPT ![o] = d]
  /\ markDriverBusy(d)
  /\ UNCHANGED <<offerRound, redispatched, retryAt, fresh, cash, ending, workVars>>

\* redispatchOrder: withdraw the open offers and start over (the round counter
\* stays).  An order it read in DISPATCHING may have moved on when the
\* transaction runs: nothing checks.
RedispatchOrder(o) ==
  /\ "staff" \in May[o]
  /\ \E missed \in {{}, JustInserted(o)} : offers' = cancelOpenOffers(o, missed)
  /\ \/ /\ CanTransition(o, "NO_DRIVER", "DISPATCHING")
        /\ status' = [status EXCEPT ![o] = "DISPATCHING"]
        /\ retryAt' = [retryAt EXCEPT ![o] = "null"]
     \/ /\ status[o] \notin {"NONE", "CREATED", "REJECTED"}
        /\ UNCHANGED <<status, retryAt>>
  /\ todo' = todo \cup {o}
  /\ UNCHANGED <<driverOf, offerRound, redispatched, driverVars, rounds, closing, retrying>>

\* The arrived and picked-up milestones, and returnToMerchant.
Advance(o, from, to) ==
  /\ "trip" \in May[o] /\ CanTransition(o, from, to) /\ ending[o] = NotEnding
  /\ status' = [status EXCEPT ![o] = to]
  /\ UNCHANGED <<driverOf, offerRound, redispatched, retryAt, offers, driverVars, workVars>>
Arrive(o) == Advance(o, "ASSIGNED", "ARRIVED")
PickUp(o) == Advance(o, "ASSIGNED", "PICKED_UP") \/ Advance(o, "ARRIVED", "PICKED_UP")
ReturnToMerchant(o) == Advance(o, "FAILED", "RETURNED")

\* releaseDriverToOnline, the count, in a transaction that has moved order o and not
\* committed: o is not counted, what others have not committed still is.  A settlement
\* comes before it and holds the account of the platform's revenue (orders have a fee).
\* failDelivery is from ASSIGNED or PICKED_UP, although the table also allows ARRIVED.
CountActive(o, to) ==
  /\ status[o] \in Carried /\ CanTransition(o, status[o], to) /\ ending[o] = NotEnding
  /\ \/ to = "CANCELLED" /\ MayCancel(o)
     \/ to = "DELIVERED" /\ \A p \in Orders : ending[p].to # "DELIVERED"
     \/ to = "FAILED" /\ "trip" \in May[o] /\ status[o] # "ARRIVED"
  /\ ending' = [ending EXCEPT ![o] = [to |-> to, free |-> ActiveOf(driverOf[o]) \ {o} = {}]]
  /\ UNCHANGED <<orderVars, offers, session, fresh, cash, workVars>>

\* A later statement fails, or the process dies: nothing has happened.
EndFails(o) ==
  /\ ending[o] # NotEnding
  /\ ending' = [ending EXCEPT ![o] = NotEnding]
  /\ UNCHANGED <<orderVars, offers, session, fresh, cash, workVars>>

\* completeDelivery: COD cash lands on the driver in the same transaction.
CompleteDelivery(o) ==
  /\ Commits(o, "DELIVERED")
  /\ CanTransition(o, "PICKED_UP", "DELIVERED")
  /\ status' = [status EXCEPT ![o] = "DELIVERED"]
  /\ cash' = [cash EXCEPT ![driverOf[o]] = @ + CashTotal[o]]
  /\ releaseDriverToOnline(o)
  /\ UNCHANGED <<driverOf, offerRound, redispatched, retryAt, offers, fresh, workVars>>

FailDelivery(o) ==
  /\ Commits(o, "FAILED")
  /\ CanTransition(o, status[o], "FAILED")
  /\ status' = [status EXCEPT ![o] = "FAILED"]
  /\ releaseDriverToOnline(o)
  /\ UNCHANGED <<driverOf, offerRound, redispatched, retryAt, offers, fresh, cash, workVars>>

----------------------------------------------------------------------------
(* Drivers: availability, GPS, cash *)

\* POST /availability
SetAvailability(d, a) ==
  /\ d \in Roaming
  /\ a = "ONLINE" => ~isDriverOverCeiling(d, 0)
  /\ a = "OFFLINE" => ActiveOf(d) = {}
  /\ session' = [session EXCEPT ![d] = IF a = "OFFLINE" THEN "NONE" ELSE a]
  /\ UNCHANGED <<orderVars, offers, fresh, cash, ending, workVars>>

\* A location batch: the open session is refreshed, or one is opened with the
\* column's default availability.
IngestLocation(d) ==
  /\ d \in Roaming
  /\ fresh' = fresh \cup {d}
  /\ session' = [session EXCEPT ![d] = IF @ = "NONE" THEN "OFFLINE" ELSE @]
  /\ UNCHANGED <<orderVars, offers, cash, ending, workVars>>

GpsGoesStale(d) ==
  /\ d \in Roaming /\ d \in fresh
  /\ fresh' = fresh \ {d}
  /\ UNCHANGED <<orderVars, offers, session, cash, ending, workVars>>

\* sweepStalePresence closes the session whatever its driver carries.
SweepStalePresence(d) ==
  /\ d \notin fresh /\ session[d] \in {"ONLINE", "BUSY"}
  /\ session' = [session EXCEPT ![d] = "NONE"]
  /\ UNCHANGED <<orderVars, offers, fresh, cash, ending, workVars>>

\* recordRemittance: the driver hands in some of the cash he carries, never more.
RecordRemittance(d) ==
  /\ \E amount \in 1..cash[d] : cash' = [cash EXCEPT ![d] = @ - amount]
  /\ UNCHANGED <<orderVars, offers, session, fresh, ending, workVars>>

----------------------------------------------------------------------------

RoundStep == \E w \in Workers : \/ \E o \in Orders : BeginRound(w, o)
                                \/ ExhaustDispatch(w) \/ CommitOffer(w)
                                \/ FindSibling(w) \/ AttachSibling(w)
OfferStep == \E x \in offers : \/ OfferElapses(x) \/ DeclineOffer(x) \/ AcceptOffer(x)
                               \/ \E advance \in BOOLEAN : ExpireOffer(x, advance)
CloseStep == \E c \in closing : CloseBatchSiblings(c) \/ LoseClosing(c)
SweepStep == SweepAdvance \/ SweepAdopt
               \/ \E o \in Orders : \/ BackoffElapses(o) \/ RetryClaim(o) \/ RetryTransition(o)
                                    \/ \E rearm \in BOOLEAN : RetryFails(o, rearm)
CrashStep == \/ \E o \in Orders : LoseJob(o)
             \/ \E w \in Workers : LoseRound(w)
OrderStep == \E o \in Orders :
               \/ \E s \in Intake : CreateDeliveryOrder(o, s)
               \/ SweepScheduledOrders(o) \/ FixDropoff(o)
               \/ CancelOrder(o) \/ RedispatchOrder(o)
               \/ \E d \in Drivers : AssignDriverManually(o, d)
TripStep == \E o \in Orders : \/ Arrive(o) \/ PickUp(o) \/ ReturnToMerchant(o)
                              \/ CompleteDelivery(o) \/ FailDelivery(o) \/ EndFails(o)
                              \/ \E to \in {"DELIVERED", "FAILED", "CANCELLED"} : CountActive(o, to)
DriverStep == \E d \in Drivers :
                \/ \E a \in {"ONLINE", "BUSY", "OFFLINE"} : SetAvailability(d, a)
                \/ IngestLocation(d) \/ GpsGoesStale(d) \/ SweepStalePresence(d) \/ RecordRemittance(d)

Next == RoundStep \/ OfferStep \/ CloseStep \/ SweepStep \/ CrashStep
          \/ OrderStep \/ TripStep \/ DriverStep

Spec == Init /\ [][Next]_vars

(*****************************************************************************)
(* Fairness.  Time passes; the minute tick of the sweep keeps coming and a   *)
(* round or a retry that keeps being started is not killed at the same       *)
(* point every time.  Nothing is assumed of drivers, vendors or staff, nor   *)
(* of the job queue, which may lose every job.                               *)
(*****************************************************************************)
Fairness ==
  /\ WF_vars(\E x \in offers : OfferElapses(x))
  /\ WF_vars(\E x \in offers : ExpireOffer(x, FALSE))
  /\ WF_vars(SweepAdvance) /\ WF_vars(SweepAdopt)
  /\ \A o \in Orders :
       /\ WF_vars(BackoffElapses(o)) /\ SF_vars(retryAt[o] = "due" /\ RetryClaim(o))
       /\ SF_vars(RetryTransition(o))
       /\ SF_vars(\E w \in Workers : BeginRound(w, o))
  /\ \A w \in Workers : SF_vars(ExhaustDispatch(w)) /\ SF_vars(CommitOffer(w))
                        /\ SF_vars(FindSibling(w)) /\ SF_vars(AttachSibling(w))

FairSpec == Spec /\ Fairness

----------------------------------------------------------------------------
(* Safety *)

\* dispatchEngine "single winner", and the @@unique key: an order with a driver
\* has exactly one ACCEPTED offer, that driver's own, whatever mixture of accepts,
\* batch wins, manual assignments, stale rounds and expiries raced for it; an
\* order without a driver has none.
OneWinner ==
  \A o \in Orders :
    LET accepted == {x \in OffersOf(o) : x.status = "ACCEPTED"}
    IN  IF driverOf[o] = NoDriver THEN accepted = {}
        ELSE \E x \in accepted : x.driver = driverOf[o] /\ accepted = {x}

\* An order still up for dispatch has no driver, one on the road has one.
DriverMatchesStatus ==
  \A o \in Orders :
    /\ status[o] \in Unassigned => driverOf[o] = NoDriver
    /\ status[o] \in Carried \cup {"DELIVERED", "FAILED", "RETURNED"} => driverOf[o] \in Drivers

\* dispatchEngine header, accept-vs-expire, accept-vs-cancel, double decline:
\* whoever closes an offer first decides it; no later step of anyone changes an
\* offer that is no longer OFFERED, and no offer row disappears.
FirstCloseWins ==
  [][\A x \in offers :
       \E y \in offers' : Key(y) = Key(x) /\ (Open(x) \/ y.status = x.status)]_vars

\* runDispatchRound "count 0 means the order left DISPATCHING": a round that read
\* the order before it was cancelled, assigned or paused writes no offer after.
OffersOnlyWhileDispatching ==
  [][\A x \in offers' : (Open(x) /\ \A y \in offers : Key(y) # Key(x))
       => status[x.order] = "DISPATCHING" /\ status'[x.order] = "DISPATCHING"]_vars

\* Without batching no offer is made past maxOfferRounds, however rounds, retries
\* and stale workers interleave.
RoundsBounded ==
  ~BatchingEnabled => \A o \in Orders : offerRound[o] <= MaxOfferRounds

\* acceptOffer "winning one offer of a batch wins the whole batch": once one offer
\* of a batch is ACCEPTED none of the others is left open.
BatchWonWhole ==
  \A x \in offers : x.status = "ACCEPTED" => \A y \in BatchOf(x.batch) : ~Open(y)

\* The offers of a batch are one driver's, for different orders, and share the
\* expiry, so that one stop serves them all.
BatchShape ==
  \A x \in offers : \A y \in BatchOf(x.batch) \ {x} :
    x.driver = y.driver /\ x.order # y.order /\ (Open(x) /\ Open(y) => x.elapsed = y.elapsed)

\* The promise of OrderLifecycle.
Lifecycle == INSTANCE OrderLifecycle WITH status <- status, driverOf <- driverOf
LifecycleSpec == Lifecycle!Spec

----------------------------------------------------------------------------
(* Liveness, under FairSpec *)

HasLiveOffer(o) == \E x \in OffersOf(o) : Live(x)

\* sweepDispatch "a sweep that dies halfway loses nothing": an order in DISPATCHING
\* with no live offer always comes to have one, or leaves DISPATCHING.
NeverWedged == \A o \in Orders : (o \in Wedged) ~> (HasLiveOffer(o) \/ status[o] # "DISPATCHING")

\* exhaustDispatch "NO_DRIVER is a pause, not a terminus": every paused order goes
\* back to dispatch, also when a retry died between its claim and its transition.
PauseEnds == \A o \in Orders : (status[o] = "NO_DRIVER") ~> (status[o] # "NO_DRIVER")

\* Every offer ends: none stays OFFERED and keeps its driver out of the pool.
OffersEnd == \A o \in Orders, d \in Drivers :
  (\E x \in OffersOf(o) : x.driver = d /\ Open(x))
    ~> (\A x \in OffersOf(o) : x.driver = d => ~Open(x))

----------------------------------------------------------------------------
(* What the comments claim and the code does not keep *)

\* runDispatchRound: the compare-and-set keeps the order from ending up "with two
\* live OFFERED offers".
OneLiveOfferPerOrder ==
  \A x, y \in offers : (Live(x) /\ Live(y) /\ x.order = y.order) => x = y

\* Header of dispatchEngine: the retry rounds reach "the nearest driver anywhere",
\* "No human has to touch a NO_DRIVER order for it to be delivered": a paused order
\* is offered again, if it is not cancelled or assigned.
RetriesReachADriver ==
  \A o \in Orders : (status[o] = "NO_DRIVER")
     ~> (HasLiveOffer(o) \/ status[o] \notin {"NO_DRIVER", "DISPATCHING"})
=============================================================================
