# Darb: a TLA+ development

Darb takes delivery orders from merchants, offers each of them to drivers one at a time, and
settles the cash the drivers collect. The backend (`src/backend`) is an Express and Prisma
program over PostgreSQL (READ COMMITTED), with an optional BullMQ queue and a sweep that a cron
tick, or any request that finds the last sweep old enough, runs. Several copies of it run at
once. Drivers use an Expo app (`src/mobile`) or an Android agent (`src/android`), staff a Next.js
console (`src/frontend`).

Everything that matters is in database rows that several actors change: rounds of the
dispatch engine, drivers, merchants, finance staff, webhooks, the sweep. The code keeps them
consistent by guarded updates (`updateMany ... where status = ...`, count 0 means someone else
was first), unique keys and a few row locks. This development asks whether the guards are
enough, for four parts of the system: dispatch, the wallet, the driver's phone with the API
behind it, and the desks of the back office.

Paths below are under `backend/src` unless they start with another directory of the repository.

## Inventory

| Component | State it keeps | Operations | Talks to |
|---|---|---|---|
| Dispatch engine `services/dispatch/dispatchEngine.ts` | `DispatchOffer` rows; `offerRound`, `redispatchAttempts`, `nextRedispatchAt` of an order | a round (select, offer, batch), accept, decline, expire, exhaust, sweep, retry | orders, presence, wallet ceiling, queue |
| Driver presence `services/dispatch/driverPresence.ts`, `routes/agentDelivery.ts`, `routes/agent.ts`, `services/gpsMonitorService.ts` | `CourierOnlineSession`: open or not, ONLINE / BUSY / OFFLINE, time of the last GPS point | go on or off line, mark busy, release, ingest locations, close stale sessions | read by every round |
| Order state machine `services/orderStateMachine.ts` | status of an order | `transitionOrder`: legality table, guarded update, event | used by every other part |
| Order service `services/orderService.ts`, routes for staff and merchants | `DeliveryOrder` rows | create, schedule, cure dropoff, cancel, assign by hand, redispatch, complete, fail, return | engine (hands orders to it), presence, ledger |
| Milestones and proof of delivery `routes/agentDelivery.ts` | order events, PIN attempts in the order's metadata | arrived, picked up, delivered with PIN or photo | order service; driver app |
| Job queue `queues/dispatchQueue.ts`, `dispatchWorker.ts` | jobs in Redis, or none at all | start a round, expire an offer after a delay | engine |
| Sweeps `routes/cron.ts`, `services/opportunisticSweep.ts` | time of the last sweep | dispatch, scheduled orders, presence, money jobs | engine, order service |
| Ledger `services/wallet/walletService.ts` | accounts with cached balances, append-only entries | post a balanced transaction once per key | deliveries, remittances, payouts, refunds |
| Remittance, company cash, top-ups `services/wallet/{remittance,fleetCash,topUp}Service.ts` | hand-ins, deposits, payments | record, confirm, settle, repair | ledger |
| Statements, refunds, reconciliation `services/wallet/*` | monthly statements, refund requests | build, pay, process | ledger |
| Foodics `queues/foodicsWorker.ts`, `services/foodics/*` | integrations, imported orders | ingest webhook, cancel, write status back | order service |
| Driver app outboxes `src/mobile/src/services/{eventOutbox,outbox}.ts` | SQLite queues on the phone | enqueue, flush, drop on 409, stop on failure | milestones, location ingest |
| Fleet portal, staff, shifts, leave, violations, incentives | requests and daily records | approve, compute | drivers |
| AI agent and decisions `agent/*`, `routes/{decisions,queue,audit}.ts` | proposals, audit ledger | propose, claim, execute, dismiss, undo, roll back | tools |
| Authentication, notifications, pricing, zones, onboarding, billing, reports, imports, demo data, consoles, Android agent | their own tables | requests, periodic jobs | - |

What is hard, and what makes each part correct:

- *Dispatch*: two rounds of one order at a time; a round that acts on what it read a while ago;
  accept against expiry, cancel, manual assignment and batch attachment; a process that dies in
  the middle; jobs that are lost. Correct means: one winner, closed offers stay closed, no offer
  for an order that has gone, nothing waits for ever.
- *Presence*: the session of a driver is changed by him, by his orders and by the sweep. Correct
  means: he is BUSY while he carries something and free after the last of it.
- *Orders*: every actor moves the same status. Correct means: only legal moves, and a driver
  exactly when the status says so.
- *Ledger and what is on top*: replays, concurrent postings, overlapping statements. Correct
  means: balanced, once, never below zero where there is no credit.
- *Foodics, proof of delivery, outboxes*: duplicated, reordered and retried messages. Correct
  means: applied once, in order, and the queue drains.

`PROJECT.json` lists every component with its status and every hazard at its line.

## Modules

| Module | What it is |
|---|---|
| `OrderFSM` | the statuses and `ALLOWED`, the table of legal moves of `orderStateMachine.ts` |
| `OrderLifecycle` | abstract: the status and the driver of each order, and nothing else |
| `Dispatch` | the engine, the order service, presence, and the work in progress around them |
| `Ledger` | abstract: entries that are only added, once per key and balanced, and rows that say "paid" |
| `Wallet` | the ledger of `walletService.ts` and every handler that books through it, statement by statement |
| `OrderRow` | the row of an order and `transitionOrder`, shared by the next three |
| `AgentApi` | POST `/status` and POST `/pod` of `routes/agentDelivery.ts` |
| `DriverApp` | the driver's phone (outbox, store, screens, polling) over `AgentApi` |
| `DriverAppHistory` | `DriverApp` with a history variable: the orders a store took past the restaurant by the arrival of another one |
| `FoodicsFeed` | the webhook rows and jobs that bring orders and cancellations from Foodics |
| `ClaimOnce` | abstract: a case is decided once, and its effects happen at most once |
| `Claims` | invitations and the change requests of delivery companies |
| `PayoutDesk` | the statement of a delivery company; tax invoice, billing and withdrawal |
| `Presence` | the sessions of one driver under concurrent transactions, requests, sweeps and the discipline of his company |
| `Decisions` | the proposals of the agent, and the three routes that decide, undo and roll back |
| `BackOffice` | the composition of `FoodicsFeed`, `Claims`, `PayoutDesk`, `Presence` and `Decisions` |
| `MCDispatch`, `MCWallet`, `MCDriverApp`, `MCDriverAppHistory`, `MCBackOffice` | values of the constants for the model checker |
| `DispatchProofs`, `DispatchRefines`, `WalletProofs`, `SumProofs`, `WalletSums`, `DriverAppProofs`, `DecisionsProofs`, `BackOfficeProofs` | theorems and proofs |

Three abstract specifications tie them together. `OrderLifecycle` is implemented by `Dispatch`,
by `DriverApp` and by `BackOffice`: three views of the same row, each with its own set of
writers, keep to one lifecycle. `Ledger` is implemented by `Wallet`, and `ClaimOnce` by `Claims`.
The parts are composed where they share state: the app and the API share the order's row and the
requests in flight. Where they share none, in `BackOffice`, the composition is a choice of what a behaviour is about
(`Agenda`).

### `Dispatch`: state

- `status`, `driverOf`, `offerRound`, `redispatched`, `retryAt` are columns of `DeliveryOrder`.
  `retryAt` is `nextRedispatchAt` as null, in the future ("armed") or past ("due").
- `offers` are the `DispatchOffer` rows. `elapsed` says that `expiresAt` has passed; `batch` is
  the `batchId`, represented by the key of the offer that was first in the batch.
- `session` and `fresh` are `CourierOnlineSession`; `cash` is the driver's balance.
- `todo`, `rounds`, `closing`, `retrying` is work that exists in no row: orders handed to a
  round (by a job, or by the loop of a sweep), rounds in flight with what they have read,
  batches whose first offer is closed and whose others are not yet, and retries between their
  claim and their transition. The process that holds one may die: `LoseJob`, `LoseRound`,
  `LoseClosing`, `RetryFails`.
- `ending` is a transaction that ends the order of a driver and has counted his other active orders:
  what it leads to, and whether it will free him.

### `Dispatch`: actions

One database transaction is one action, except those that end the order of a driver. What the code
does in several transactions, or reads outside one, is several:

| Code | Actions |
|---|---|
| `runDispatchRound` | `BeginRound` (read order, settings, candidates), then `ExhaustDispatch`, or `CommitOffer` (the compare-and-set), `FindSibling`, `AttachSibling` |
| `expireOffer`, `declineOffer`, `closeBatchSiblings` | `OfferElapses`, `ExpireOffer` or `DeclineOffer`, then `CloseBatchSiblings` |
| `acceptOffer` | `AcceptOffer`, siblings included |
| `sweepDispatch` | `SweepAdvance`, `SweepAdopt`, and per order `RetryClaim` then `RetryTransition` or `RetryFails` |
| `orderService.ts` and the routes that call it | `CreateDeliveryOrder`, `SweepScheduledOrders`, `FixDropoff`, `CancelOrder`, `AssignDriverManually`, `RedispatchOrder`, `CompleteDelivery`, `FailDelivery`, `ReturnToMerchant` |
| the release of a driver, `driverPresence.ts` | `CountActive`, then the action that commits (`CancelOrder`, `CompleteDelivery`, `FailDelivery`, by `releaseDriverToOnline`), or `EndFails` |
| milestones | `Arrive`, `PickUp` |
| presence | `SetAvailability`, `IngestLocation`, `GpsGoesStale`, `SweepStalePresence` |
| remittance | `RecordRemittance` |

READ COMMITTED matters in two places. `releaseDriverToOnline` counts in one statement and updates in
the next, which see different commits: between `CountActive` and the commit of the same order others
may end, or be given to the driver. And `cancelOpenOffers` lists the open offers, and a round may
commit an offer between that statement and the one that moves the order. `CancelOrder`,
`AssignDriverManually` and `RedispatchOrder` may therefore miss the offers of `JustInserted`.

### What is abstracted

- Distance, time idle and expected arrival: `Reach` gives the first round whose radius covers a
  driver, `ShortLastLeg` the orders that will soon be delivered; ties in the ranking are a
  choice, and so is which of several siblings is batched (the code takes the oldest).
- A round reads order and candidates in one step. The reads of a round are made one after
  another in the code, within a few milliseconds, and the commit checks the order again.
- `closeBatchSiblings` lists and then closes: one step, since each row is guarded by its status.
- The sibling offer that `AttachSibling` inserts is not among those `cancelOpenOffers` can miss.
- One freshness flag stands for the 180 second cut-off of selection and the five minute one of
  the presence sweep. A session that never had a location counts as stale, which the
  code's comparison with null does not; this only adds behaviours.
- POST `/availability` and the stale-presence sweep are one step each here. The code reads, then
  writes: `Presence` has them statement by statement.
- Deliveries wait for each other between count and commit, since their settlements hold the account of
  the platform's revenue: the fee of an order is taken to be above zero here. `Presence` has both kinds
  (`Gratis`).
- `todo` is a set: a job that comes twice is an order added again later. A round the sweep runs
  itself goes through `todo` like the others.
- `RetryClaim` may also take an order whose clock is armed, because the claim only asks for a
  clock that is set and the list of due orders may be old.
- The driver of a manual assignment is any active driver; merchants, tenants, vehicles other
  than car or not, prices and events on the bus are left out.

### `Wallet`: state and actions

Every handler of `services/wallet/*` runs one interactive transaction. A worker takes it one
statement at a time, with the row locks PostgreSQL would take: an UPDATE or INSERT waits while
another transaction holds the row or the unique key, reads the last committed value, and keeps
what it wrote to itself until `Commit`. `Abort` may end it anywhere: a crash, a lost connection,
the time limit of a transaction, or the database breaking a wait cycle.

- `balance`, `books`, `status`, `asOf`, `closing` are committed: cached balances, ledger
  transactions with their legs, the status of every business row, the vendor's running balance at
  the end of each month, the closing figure of each statement. `month` is the calendar.
- `tx[w]` is the open transaction of a worker: its request, where it stands, the rows and keys it
  holds, its view of the accounts it has written, and the entries and marks it will commit.
- `acked` are the payments for which a confirmation has answered ok.

| Code | Actions |
|---|---|
| `createTopUp`, `createFleetDeposit` | `CreatePayment` |
| `requestRefund` | `RequestRefund` |
| `generateVendorStatement` | `GenerateStatement`, once a month is over (`Tick`) |
| any handler that books | `Begin`, then its statements up to `Commit` or `Abort` |
| the read `processRefund` and `postVendorPayout` start with | `Read` |
| the guarded claim of a delivery, a tip, a confirmation, a withdrawal, a declined refund | `Claim`; count 0 is `Unclaimed`, where a confirmation repairs a payment that reads PAID without an entry |
| `balance >= amount` in the WHERE of a hand-in and of a settlement | `Hold`, or `Short`, which ends the whole settlement |
| `postLedgerTransaction` | `Header` (takes the replay key), `NoLegs`, `Replay`, `Unbalanced`, then one `Leg` per account in the order of the account ids |
| the update after a posting | `Seal`, `Stamp` |

A posting is a function from accounts to signed changes, so that "balanced" and the polarity of an
account are computed, not assumed. The settlement of a cash and of a prepaid order, the tip, the
hand-in, a settlement's line, the credit, the refund, the payout and the adjustment have their
legs as in the code, the clamp of a refund included. Listings, breakdowns, the payment gateway
and currency formatting are left out; amounts are integers.

### `AgentApi` and `DriverApp`: state and actions

A request reads the order, looks its replay key up among the order's events and only then
writes, sometimes twice. Each statement is a step, `HandlerFails` may come before any of them,
and a request whose client has gone runs on.

| Code | Actions |
|---|---|
| both routes, the read of the order | `LoadOrder`: everything below goes by this copy |
| POST `/status` | `ReplayMilestone`, then `CommitMilestone` (status, phase and event in one transaction) or `RecordMilestone` and `WritePhase` |
| POST `/pod` | `ReplayPod`, `CompleteDelivery`, then `RecordPod` |
| GET `/state` and `hydrate` | `Poll`, and `Hydrate` for an answer that is slow |
| `eventOutbox.ts` | `StartFlush`, `SendPhoto`, `SendRow`, `RowAnswered`, `RowLost` |
| screens | `Accept`, `QueueArrivalPhoto`, `ClaimArrival`, `Advance`, `SubmitPod`, `PodAnswered`, `PodLost`, `FailTrip` |
| the phone is killed; the client of a request is gone | `Restart`, `Abandon` |
| everybody else | `Assign`, `Dispatching`, `StaffCancels` |

State: `phase` and `recorded` are the driver phase and the replay keys of an order; `api` the
requests being handled; `outbox` is on the phone's disk, `flush` and `app` are in its memory;
`photos` the arrival photos on the server. Photos and claims share one queue, as in the code. The
photo upload is one step, since nothing but its row depends on it. The steps of the engine that
bring an order to its driver are `Accept` (the app hears of it) and `Assign` (it does not);
`Dispatch` has them in full. `DriverAppHistory` adds `crossed`, which no guard reads: the orders that the
store took past the restaurant when its driver reported the arrival of another one (see the proofs).
Incidents, GPS batches, proof by PIN (no screen offers it),
availability and the drawing of screens are left out.

### `BackOffice` and its parts: state and actions

| Code | Actions |
|---|---|
| `routes/webhooks.ts`: one row per event key, and a job | `Receive`; the job may fail to be queued |
| `queues/foodicsWorker.ts` | `Take`, then `CreateOrder`, or `FindOrder`, `RereadOrder`, `CancelOrder`; at the end `MarkProcessed` or `MarkFailed` |
| a failing statement, a mark that is not written, a stalled worker | `JobFails`, `MarkLost`, `WorkerStalls` |
| `inviteService.ts` | `ReadInvite`, `ClaimInvite`, `SetPassword`; `RevokeInvites`, `IssueInvite`; `ClerkDies` |
| `fleetRequestService.ts` and its withdrawal | `DecideRequest` |
| `fleetService.ts`, the statement | `ReadStatement`, then `CreateStatement`, `Confirm`, `Dispute` or `Pay` |
| `autoWithdrawWorker.ts`, `routes/financial.ts` | `WriteTax`, `WriteBilling`, `FindWithdrawal`, `ApproveBilling`, `CreateWithdrawal`, `ReadWithdrawal`, `SettleWithdrawal`, `FailWithdrawal` |
| a process dies, or a statement fails, at a payout desk | `DeskFails` |
| the transactions that give a driver an order or take one off him | `ReadTrip`, `MoveTrip`, then `OccupyDriver`, or `SettleTrip` (a delivery with a fee), `CountActive` and `FreeDriver` or `CommitTrip`; `AdvanceTrip` |
| POST `/availability` | `AskAvailability`, `FindSession`, `SetAvailability` |
| POST `/location`, and time | `IngestLocation`, `WriteLocation`; `GpsAges` |
| `gpsMonitorService.ts`, `fleetDiscipline.ts` | `ListStale`, `CloseStale`; `SuspendFleet` |
| `agent/registry.ts` | `Propose` |
| `routes/decisions.ts` | `ReadProposal`, then `ClaimProposal`, `RunTool`, `WriteRow`, or `Dismiss`, or `UndoRow` and `Reopen` |
| `routes/queue.ts`, `routes/audit.ts` | `QueueRuns`, `QueueMarks`; `RollBack` |
| a statement fails, or the process dies | `CallFails`, `ApproverDies` |

`hook` is the webhook row with its job: what is queued, the attempts left and the stalls
counted. `work` is what each worker has read, and whether the job is still his: a worker taken
for dead goes on, and its writes count. `verdict` and `applied` say how a case was decided and how
often each of its effects has happened. What a request changes is one effect, whatever its type. A
total of 1 stands for any statement that is not empty. Dispatch and couriers move the order
meanwhile by any legal move (`OthersMove`). `CreateOrder` may also end as a duplicate without an order:
a number that collided twice fails the same way as a replayed event. The write-back of milestones to Foodics, which
nothing here reads, and the tokens of the connection are left out.

`trip` and `session` are the orders and the `CourierOnlineSession` rows of one driver as they are
committed; `call` is what each request, job or transaction has read and where it stands. A
transaction holds the row of its order from its guarded update to its commit, so a second one on
the same order waits (`RowHeld`); what it has written others see at the commit. Deliveries wait for
each other at the account of the platform's revenue, those with a fee of zero (`Gratis`) aside, whose
other accounts are left out, and an
accept gives the driver one order per transaction. The discipline of his company is no variable, since no
statement of the driver's or of an order reads it. Positions are a flag, fresh or stale.

`proposal`, `opening` and `ledger` are the `PendingAgentAction` and `AgentAction` rows; an opening
numbers the times a proposal is open, since an undo opens it again. `ran` counts the tool runs of
each opening's approval and `queueRan` the openings the queue has run it for, which no row of the code
does; a tool is no more than a run that succeeds or fails. All
proposals are of one run of the agent and about one subject, the key an undo looks its row up by.

## Runs

Every action of every module fires in a passing run.

| Run | Instance | States | Shows |
|---|---|---|---|
| `dispatch_race` | 1 order, 2 drivers, 2 rounds in flight, 2 offer rounds | 249,362 | `OneWinner`, `DriverMatchesStatus`, `RoundsBounded`, `FirstCloseWins`, `OffersOnlyWhileDispatching`; implements `OrderLifecycle` |
| `dispatch_batch` | 2 orders that batch, 1 driver, 2 rounds in flight, trips to their end | 594,718 | `TypeOK`, `BatchWonWhole`, `BatchShape` |
| `dispatch_live` | fair; 1 cash order beyond every radius, 1 driver who comes and goes, ceiling of one order | 31,008 | `NeverWedged`, `PauseEnds`, `OffersEnd` |
| `wallet_ledger` | 2 transactions at a time; 2 drivers, 4 orders, a deposit, a hand-in, a settlement of two lines, an adjustment, 2 months | 587,680 | `TypeOK`, `CachedBalance`, `AckedIsBooked`, `WithdrawnNotCredited`, `AllOrNothing`, `RefundUndoes`, `PostingsDoNotDeadlock`, `SpendCovered`; implements `Ledger` |
| `driver_app` | 1 phone, one fault anywhere; 1 order with two requests at a time, or 2 orders with one and at most 2 rows in the outbox | 2,044,359 | `TypeOK`, `ProofBeforeClaim`, `MilestonesInOrder`, `MilestoneKept`, `PhaseMonotone`; implements `OrderLifecycle` |
| `back_office` | fair; 1 order and 2 workers; 2 invitations, a request, 3 clerks; 1 statement, 2 withdrawals, 2 accountants; 2 orders of a driver, 1 session row, 2 calls; 1 proposal, 2 requests, 3 openings | 720,734 | `TypeOK`, `CancelHonoured`, `PaidIsBooked`, `PaidHasTransfer`, `OncePerApproval`, `PosCancelsBeforePickup`, `TransferStands`, `LastDeliveryFrees`, `CancelAnswered`; implements `OrderLifecycle` and `ClaimOnce` |

Six runs end in a violation: a comment of the source states the property and the program does
not keep it.

| Run | Property | Comment, and what happens |
|---|---|---|
| `two_live_offers` | `OneLiveOfferPerOrder` | `dispatchEngine.ts:738-746`, the compare-and-set keeps an order from having two live offers. A round that starts after another has committed reads the new `offerRound`, and nobody looks for a live offer: it makes a second one. `OneWinner` and `FirstCloseWins` hold all the same, so one driver gets the order and the other an offer that fails when he accepts. |
| `retry_starves` | `RetriesReachADriver` | `dispatchEngine.ts:10-13`, no human has to touch a paused order. Whoever had an offer once is excluded for good, so retries may find nobody for ever. |
| `order_vanishes` | `ArrivedGoesOn` | `routes/agentDelivery.ts:589-592`, the status ARRIVED needs no change in the mobile app. GET `/state` lists ASSIGNED and PICKED_UP only (line 86), so the next poll after the arrival takes the order off the screen; the driver has no button left, and POST `/failed` is refused. The run has no fault and is fair. |
| `flag_disagrees` | `FlagAgrees` | `driverPresence.ts:12-13`, the flag can never disagree with the order row. Two orders of a driver end at once: each transaction counts the other's order, which is not committed, and neither releases him. Both commit, and he stays BUSY with nothing to carry. |
| `arrival_skipped` | `PhotoBeforePickup` | `arrival.tsx:11`, the driver cannot leave without having taken the picture. The arrival screen works on the order it was opened with (`arrival.tsx:89-103`), `advanceOrder` moves the one the store shows (`driverStore.ts:283`), and GET `/state` shows the newest assignment (`agentDelivery.ts:277-281`). A poll while the photo of the first order is queued shows the second, which the arrival of the first then advances: it is picked up with no photo and no arrival. No fault is needed. |
| `tool_runs_twice` | `RunsForOneWriter` | `routes/decisions.ts:289-290`, the claim of an approval is race-safe against another writer. The queue does not claim: it runs the tool and marks afterwards (`routes/queue.ts:157-178`), so the tool runs there and again for whoever claims meanwhile. |

Mutants: each property is broken by a definition kept beside the one it replaces (its comment
starts with "Mutant"), a dropped guard, a swapped order or a missing reset that a change of the
code could bring.

### Bounds

- One order is enough for the races about one order: nothing but batching and a driver's load
  relates two orders, and those have runs of their own. Two drivers make two offers of one
  order possible; two rounds in flight give every overlap of a stale round with a later one.
  A third round would have to overlap both, and the compare-and-set of a round involves one
  other writer.
- Two offer rounds separate "exhausted" from "one more round"; with one, the second live offer
  could not exist.
- `May` says which events besides offers an order is exposed to, so that a run spends its states
  on its own question: all of them in `dispatch_race` and `dispatch_live`, cancellation, trips and
  lost work in `dispatch_batch`.
- `Roaming` says whose presence changes: the driver's of `dispatch_live`. `RetryClaim` is taken by one process at a time per
  order. Nothing else is bounded: the offers of an order are finitely many because the key
  `<order, driver, round>` is unique and a driver is never offered an order twice.
- Drivers and rounds, and in `dispatch_batch` orders, are symmetric. `dispatch_live` has no
  symmetry.
- `Wallet`: two transactions make every race of two writers, and every wait cycle of two. A
  settlement of two lines is the shortest that can stop halfway. `MaxLive` orders are on the
  road, the other postings need no live order; the four orders are one of each kind (cash, cash
  with a fee above its total, prepaid, prepaid without a fee). `LastMonth` = 2 gives one
  closed month. Hand-ins, settlements and adjustments are submitted once each, since the code
  gives each submission a fresh id. `LockRank` puts the clearing account first, so that the order
  of the ids differs from the order in which the handlers list their legs.
- `DriverApp`: `FlushLimit` = 2 makes a flush end with rows left behind (the code reads 20). `MaxTrouble` = 1: one
  lost call, late answer, crash of a handler or restart of the app, at any point. Two handlers
  let a request whose client has gone meet the retry of it. On the server no milestone of one order looks
  at another, so one order has the two requests; on the phone two orders share a store and an outbox, and
  that is the other half of the instance (`OneOrMore`): one request at a time, at most two rows in the
  outbox (a photo and its claim, or a row of each order), and one thing that goes wrong, a fault or an order
  that is cancelled or fails. `arrival_skipped` and `order_vanishes` have no fault, and the former no
  cancelled or failed order (`UnderWay`).
- `BackOffice`: `MaxTries` = 2 separates a retry from the last attempt, `MaxStalled` = 1 is the
  queue's default; one job stalls at a time. Two withdrawals, because `triggerWithdrawal` checks
  and then creates. Two orders and two calls make every race of two transactions of one driver; one
  session row is closed and found again, and a second would be opened only after the first is closed.
  Both orders have a fee; an order without one would let `LastDeliveryFrees` fail, which excludes it.
  `MaxOpenings` = 3 opens a proposal twice more after its first decision, enough for an approval that
  meets the undo of another one. `Agenda` is what a behaviour may be about: the six subjects share no
  variable, so their interleavings with each other add nothing.

### Fairness

`FairSpec` assumes, and the code justifies:

- weak fairness of `OfferElapses` and `BackoffElapses`: time passes;
- weak fairness of `ExpireOffer`, `SweepAdvance`, `SweepAdopt` and, strong, of `RetryClaim` for a
  due order: the sweep comes back every minute or with the next request, and takes the oldest
  orders first;
- strong fairness of the steps of a round and of `RetryTransition`: a round is started again and
  again, and no process dies at the same point each time. Weak fairness would be satisfied by one
  that does, since each crash disables the step.

Nothing is assumed of drivers, merchants or staff, nor of the queue: every job may be lost, so
what holds is owed to the sweep alone. Under these assumptions an order never waits unseen
(`NeverWedged`), a pause ends (`PauseEnds`) and an offer ends (`OffersEnd`). That it is delivered
does not follow; `retry_starves` shows why.

`Wallet` is checked for safety alone: nothing in it must happen, a client that is not answered
asks again.

`DriverApp!FairSpec`, used by `order_vanishes`: requests are served and answers arrive; the outbox is
flushed on every poll, GPS wake and tap of the driver (`StartFlush`, and strong fairness of
`SendRow`, which needs a free handler); the driver does what his screen asks him to, as often as
it asks. `BackOffice!FairSpec` assumes that the queue hands its jobs to workers and that a worker
that has not died goes on; with it a cancellation whose job was queued is answered
(`CancelAnswered`), unless the queue gave the job up or the mark was lost. Nothing is assumed of
couriers or of staff.

## Proofs

Checked by TLAPS for any number of orders, drivers, rounds, workers, requests and accounts, any
bounds, and any values of the other constants that satisfy the named assumptions of the modules:
types of the constants, "no such thing" values outside their sets, a settlement with at least one
line and no driver twice, account ids that differ, finitely many drivers, merchants and delivery
companies (`FiniteAssumption`, for sums over accounts). No theorem has any other hypothesis.

| Module | Theorem | States |
|---|---|---|
| `DispatchProofs` | `TypeCorrect` | `[]TypeOK`; in it, a driver's cash never goes below zero |
| | `SingleWinner` | `[]OneWinner` |
| | `DriverKnown` | `[]DriverMatchesStatus` |
| | `BatchesAlike` | `[]BatchShape` |
| | `FirstCloseDecides` | `FirstCloseWins` |
| | `BatchesAreWon` | `[]BatchWonWhole` |
| | `NoLateOffer` | `OffersOnlyWhileDispatching` |
| | `RoundsAreBounded` | `[]RoundsBounded` |
| `DispatchRefines` | `Implements` | `LifecycleSpec` |
| `WalletProofs` | `WalletTypes` | `[]TypeOK` |
| | `ConfirmationsAreBooked` | `[]AckedIsBooked` |
| | `WithdrawalsStand` | `[]WithdrawnNotCredited` |
| | `SettlementsAreWhole` | `[]AllOrNothing`, for settlements of any length |
| | `LegsDoNotDeadlock` | `[]PostingsDoNotDeadlock` |
| | `WalletImplementsLedger` | `LedgerSpec` |
| `WalletSums` | `SumsInvariant` | what a transaction sees of an account is the balance, and what its own entries add |
| | `BalancesAreSums` | `[]CachedBalance` |
| | `RefundsUndo` | `[]RefundUndoes` |
| | `SpendingIsCovered` | `SpendCovered` |
| `DriverAppProofs` | `AppTypes` | `[]TypeOK` |
| | `PhotosComeFirst` | `[]ProofBeforeClaim` |
| | `PhasesOnlyGrow` | `PhaseMonotone` |
| | `AppImplementsLifecycle` | `LifecycleSpec` |
| | `MilestonesKeepOrder` | `[]MilestonesInOrder`, of `DriverAppHistory` |
| | `NoMilestoneLost` | `MilestoneKept`, of `DriverAppHistory` |
| | `PhoneShowsItsOwn` | what a phone shows, late answers included, are orders of its driver |
| | `OnlyOrderIsNotCrossed` | `[]CrossedInv`: an order in `crossed` shares its driver with another one |
| `BackOfficeProofs` | `DesksTypes` | `[]TypeOK` |
| | `CancellationsAreHonoured` | `[]CancelHonoured` |
| | `PosStaysBeforePickup` | `PosCancelsBeforePickup` |
| | `FeedImplementsLifecycle` | `FeedLifecycleSpec` |
| | `DesksClaimOnce` | `ClaimSpec` |
| | `PaidStatementsAreBooked` | `[]PaidIsBooked` |
| | `PaidBillingsHaveTransfers` | `[]PaidHasTransfer` |
| | `TransfersStand` | `TransferStands` |
| | `LastDeliveryFreesDriver` | `LastDeliveryFrees` |
| | `ApprovalsRunOnce` | `[]OncePerApproval` |

In each module one inductive invariant carries them. Each action preserves it in a lemma of its
own, and the action properties and refinements are read off the same case split.

### Dispatch

`OneWinner` is not inductive: a round in flight could write an offer under a key that exists, a
batch could hold a stranger's offer, an accept could find an order with a driver. The invariant
`IInv` adds what excludes this:

- `TableInv(offers)`: keys are unique; a row of the manual round is ACCEPTED; offers of one batch are one
  driver's, for different orders, with one expiry; a batch carries the key of a row of the table;
- `RoundsRead`: what a round has read at its stage is complete, the round number it is about to
  use is below the bound, and a sibling is another order;
- `RoundOwnsBatch`: a round that may still form a batch has written its offer, no row is in that
  batch yet, and no other round in flight has the same key, so no stranger's offer gets into it;
- `Whole(offers)`: `BatchWonWhole` stated of the table. With `RoundOwnsBatch` it survives the one
  dangerous order, an accept of the first offer before its sibling is attached: the attachment
  finds the first offer closed and makes nothing;
- `DriverMatchesStatus`: an order up for dispatch has no driver, hence (with `OneWinner`) no
  accepted offer.

Each action is shown to preserve `IInv` in a lemma of its own, which also gives the two action
properties (`Kept`: closed rows are kept; `OpenedWell`: new rows are opened for orders in
DISPATCHING). The actions on the offer table are first reduced to lemmas about a table with rows
closed, elapsed, added or stamped, which no longer mention the rest of the state. The refinement
uses `IInv` and the same case split.

### Wallet

`AllOrNothing` is about committed entries; what makes it inductive is what an open transaction
has done so far. `IInv` adds:

- `Exclusive`: no row, account or key is held by two transactions. This is what a row lock gives,
  and it follows from `Free` in the guards;
- `TxInv` of each open transaction: its entries are under keys it holds, a settlement at line n
  has made exactly the lines before n, the marks it will commit are of rows it holds, and a stage
  is one its kind of request can be at;
- `CreditedIsPaid`: a deposit or top-up with an entry reads PAID, so a withdrawn one has none.

`LegsDoNotDeadlock` needs the order of the legs: a worker at its legs holds, among accounts, only
those of lower rank than the next one. The refinement maps a row's status to "paid" or not. Its
only step that is not a stutter is `Commit`, and there `TxInv` supplies the entry for every row
that is marked. In `WalletProofs` the sums of legs (`Balanced`) are never computed: `Header` tests
them, and the entry keeps them.

The three properties about amounts are in `WalletSums`, on top of `IInv`. The model sums with the
community module's folds, which the provers know nothing of; `SumProofs` shows what is needed of
them (a sum over a union, over a set with one more element, of functions that agree) from their
definition. Sums are over finite sets, so induction is over the subsets of one, through the
well-foundedness of the proper subset relation: the library's induction rules take an operator,
which the provers cannot instantiate.

- `SumInv` makes `CachedBalance` inductive. In the middle of a transaction the accounts do not
  agree with anything committed; what holds at every statement is `ViewInv`: what the transaction
  sees of an account is the committed balance, and the legs of the entries it has made, less what
  its present entry still owes the account. A commit then adds to both sides the same.
- `RefundUndoes` compares a reversal with a settlement of perhaps months before. `FitInv` says that the
  legs of an entry are those its key stands for, and one entry has a key; `RefundInv` that a refund is
  of a delivered order, whose settlement is booked. A reversal that is booked is balanced, which
  excludes the one case in which its clamp would give back something else: a cash order whose
  fee exceeds its total.
- `SpendCovered` is about what a guard has seen before other statements: `SpendInv` says that the
  transaction still holds the account, and that what it sees of it covers what the lines that are
  left will take (`Due`), line by line.

### DriverApp

`ProofBeforeClaim` depends on a queue on the phone's disk, a flush in its memory and requests that
outlive their client. `IInv` is `RowInv` (no driver before ASSIGNED, phase 0 up to it and 2 in
ARRIVED), `ApiInv` (what a request has read is consistent with its stage, and an order seen
collected stays so), `PhoneInv` (`FlushInv`: the first row of a flush is the one it waits
for; `QueueInv`: in the outbox a claim has its photo in front of it, or on the server),
`WaitInv` (an answer somebody waits for is of one phone's own request) and `PostedInv` (a claim on
its way has its photo on the server). `PhasesOnlyGrow` needs `ApiInv`: `WritePhase` goes by a copy that
may be old, and never writes less than what is there because the one milestone that gets as far
as that has the highest rank.

`MilestonesInOrder` and `MilestoneKept` have an invariant of their own, `OrderInv`, since the order
of the milestones is nowhere checked as a whole: the API takes a pickup from ASSIGNED, without
an arrival. It is the phone that reports one after the other, and a failed row that ends its flush.
"Told" is a milestone that is recorded, or whose order is over; `OrderInv` follows it along its way:

- `Heard`: the order's status, phase and record agree, and the record has no gap;
- `QueueOrder`: a row has the row it needs in front of it in the outbox, or that one was told;
- `StoreOrder`: a stage the store shows was queued, and so was what a slow poll will show;
- `KnowsInv`: a request came after what it needs was told; what it read is true of the order or
  was, so 200 means recorded and 409 means told. Retries with the same key are several requests, and
  each of them has all this;
- `PostOrder` and `FlushOrder`: a proof of delivery may be posted while the pickup is still queued, and is
  then refused; as a row of the outbox it is behind the pickup, and a refusal means the order is over.

What was told stays told (`Lasts`), so a request that goes on after its client has gone cannot take
any of it back.

One thing breaks this chain, and `arrival_skipped` shows it: the arrival of one order taken for that of
another, which the store then shows as arrived although its driver reported nothing. `crossed` is the set of
these orders. The two properties are stated of all others, and the theorems need no condition on the
behaviour: the invariant asks `Heard`, `QueueOrder` and the rest of orders that are not crossed, and the
only step that could break them is the one that puts its order into `crossed`. How little the exception
covers is `OnlyOrderIsNotCrossed`: a crossed order is one of at least two of its driver, since whatever a
phone shows, an open screen and a late answer included, is an order of its driver (`MineInv`). A driver who
is given one order has all its milestones in order. `PhotosComeFirst` makes no exception: an arrival that is
recorded has its photo, for crossed orders as well. A poll of the model shows any active order of the driver,
where the code shows the newest: the theorems hold of either.

### BackOffice

`IInv` is a conjunction of one part per desk. `FeedInv` says of a job at each stage what its order has
been through: at the mark, the note it is about to write is already true of the order, and stays true
because an order that is over stays over or was told of. `ClaimsInv` says that a clerk about to set
a password holds the claim nobody else can hold, and that no effect has happened without it. `PayInv`
relates a payment in progress to the statement it read, and a billing about to be PAID to a
withdrawal that is settled. `PresInv` says what a transaction is about, and that of two deliveries with a fee
at most one is past its settlement (`OneSettles`). A delivery that leaves its driver BUSY has therefore
counted an order that, when it commits, is still under way or ended otherwise (`Detained`), and
`LastDeliveryFrees` follows for a driver whose orders were all delivered. Of other endings it is false:
`flag_disagrees` has the counterexample. `DecInv` (`DecisionsProofs`) is about approvals: those to come have
not run and nobody holds them, a request that holds one is alone, and a row of the ledger that says success
has its run.

### Only model-checked

Every invariant and every action property of the passing runs is stated by a theorem. Left to
TLC alone are the liveness properties `NeverWedged`, `PauseEnds`, `OffersEnd` and `CancelAnswered`, which
are out of the prover's reach; and the runs that end in a violation, which need no proof.

## What reading the code showed besides

Met while modelling, besides what the violation runs show. Where a comment of the source is contradicted,
it is named; the violation runs show one disagreement of each kind, and these are of the same kinds
(a check before an unguarded write, a status left out of a list, a read that is old).

- *Decisions.* `OncePerApproval` is of the approvals that claim (`routes/decisions.ts:352`); `tool_runs_twice`
  has the queue beside them. `agent/ledger.ts:1` says "every approved action writes exactly one row here": an
  approval in the queue (`routes/queue.ts:149-178`) writes none. POST `/:id/undo` reopens a proposal without a
  guard and without undoing what its tool did, and finds its row by run and subject. A proposal whose tool
  failed stays "approved", as does one whose approver died.
- *Presence.* `driverPresence.ts:35-38` says that a driver still carrying another order must stay BUSY: the count
  at line 46 leaves ARRIVED out, so he is released with such an order in his hands. An order given to him
  between the count and the release has the same effect. `fleetDiscipline.ts:9-10` says that suspended drivers
  are forced OFFLINE and get no orders until operations lift it: the sessions are written once and stay open,
  and their driver's own request, or an order given to him and released, makes them ONLINE again. A GPS
  batch opens a session that is OFFLINE, with the same consequence. Two accepts of one batch by one driver
  lock its orders crosswise. The stale sweep closes a session that was freshened after it was listed. An accept
  between the check and the write of POST `/availability` makes a driver OFFLINE who carries an order. A
  prepaid delivery with a fee of zero settles nothing, so two of them may count each other like cancellations.
- *Several orders of one driver.* An order cancelled under an open arrival screen and followed by a new one has
  the same effect as in `arrival_skipped`.
- *Statements.* `fleetPortal.ts:1991-1993` says that a dispute clears the confirmation, so that no company is
  paid "on the strength of the earlier click". `postFleetPayout` writes PAID without a guard (`fleetService.ts:420`):
  a payment that read CONFIRMED overwrites a dispute that commits before it. A confirmation that loses its
  race still replaces the invoice.
- *Withdrawals.* `autoWithdrawWorker.ts:44` says "accepting an invoice twice must not queue a second payout". It
  checks and then creates, so accepting an invoice twice at once makes two withdrawals, and failing the
  second sets the billing of a settled one back to APPROVED. A crash between the withdrawal and its billing
  leaves it settled with a billing that is not PAID, and the retry is refused.
- *Invitations.* Two `createInvite` at once leave two live links.
- *Foodics.* `foodicsWorker.ts:245` takes any unique key that fails for that of a replayed webhook. It may be the
  order number, which collided again in the one retry (`orderService.ts:522-528`): the event is marked
  PROCESSED, and there is no order. A cancellation of an ARRIVED order is treated as one after the pickup.
  REJECTED counts as over although a cured dropoff brings the order back. A cancellation handled before its order is
  noted as "missing", and the order is created afterwards. A worker taken for dead can write FAILED
  over PROCESSED. RECEIVED rows whose job was never queued are looked for by nobody.
- *The app.* A proof of delivery posted while milestones are still queued is answered 409 and shown
  as delivered. After a restart the count of unsent rows is 0 until the next flush, so a poll may take an
  order off the screen that has unsent rows. The arrival photo stays in the camera cache, which the
  phone may purge: the row then fails for ever and holds back the rest.
- *Wallet.* Hand-ins and settlements lock the driver before the clearing account, so the account
  order does not exclude a wait cycle with them (`PostingsDoNotDeadlock` names the exception). An adjustment by an
  admin may take a company below zero. A payment confirmed after it was cancelled is answered
  `{ok: false}` and never credited. A refund of a cash order whose fee exceeds its total does not balance and is
  refused. Two unpaid statements carry the same money, since a payout pays a closing balance.
- *Dispatch.* `dispatchEngine.ts:244-245` says that busy drivers form a reserve tier: the sessions are filtered by
  ONLINE (line 283) before the reserve is looked at, and whoever carries is BUSY. `RETRY_ROUND_BASE` is
  called non-zero (`dispatchEngine.ts:185-190`) and is 0. The model has 0.

## Plan

Done: dispatch, the wallet with its abstract ledger, the app with the agent API, Foodics, the
desks of the back office with presence and decisions, their refinements, and proofs of every safety
property. Left, in this order:

1. Operators for the radius of a round, the backoff of a retry and the split of a settlement, checked
   against plain definitions over bounded inputs.
2. The composition of `Dispatch` with the postings of `Wallet`: the ceiling a round tests against the
   balance the ledger keeps.
3. The app with two orders of one driver and two requests at a time, as a simulation: the instance is
   too large to be searched whole.

## Not modelled

Most of the repository's lines keep no state that several actors change. The bulk is the web
console and its translations, the generated Prisma client, seed and demo data, the read-only
portals and reports, and validation and formatting in the routes; so the share of all lines that
the modules stand for is small and will stay so. By part:

- *Consoles, screens, translations, reports, heat map, briefings, ratings, chat, OCR, insights*:
  reads, formatting and calls to language models.
- *Authentication, permissions, tenancy*: filters in front of the handlers. The part with a state
  of its own, invitations, is in `Claims`.
- *Pricing, zones, distances, imports*: pure functions of their input.
- *Staff, shifts, leave, violations, incentives*: rules over daily records, one writer each. What the
  suspension of a company does to sessions is in `Presence`.
- *Notifications and the event bus*: output that nothing in the modelled parts reads back.
- *Android agent*: uploads a table of unsent rows; the outbox of the Expo app, which has an order
  to keep, is modelled.
- *Agent runtime*: prompting and the choice of a tool; what is decided about a proposal is in `Decisions`.
- *Reconciliation*: reads the ledger and reports. Its first check is `CachedBalance`.

`PROJECT.json` gives the status of and the reason for each component, and every hazard at its
line.
