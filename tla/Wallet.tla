------------------------------- MODULE Wallet -------------------------------
(*****************************************************************************)
(* The money side of the platform: the double-entry ledger of                *)
(* services/wallet/walletService.ts and the handlers that book through it    *)
(* (delivery settlement, tips, cash-desk hand-ins, fleet deposits and        *)
(* settlements, merchant top-ups, refunds, vendor statements and payouts,    *)
(* adjustments).                                                             *)
(*                                                                           *)
(* Every handler runs in one interactive database transaction.  A worker     *)
(* takes it statement by statement: each UPDATE or INSERT waits for the row  *)
(* or unique key another transaction holds, evaluates its WHERE on the last  *)
(* committed value, keeps what it wrote to itself, and holds the lock until  *)
(* Commit or Abort.  Plain reads take no lock.                               *)
(*                                                                           *)
(* Amounts are integers (thousandths of a dinar, scaled down).  A posting is *)
(* a function from accounts to the signed change of their balance, 0 where   *)
(* it has no leg.                                                            *)
(*****************************************************************************)
EXTENDS Integers, Sequences, FiniteSets, FiniteSetsExt

CONSTANTS
  Workers,     \* concurrent requests
  Drivers, Vendors, Fleets,
  Roster,      \* Roster[f]: the drivers of delivery company f
  Orders,      \* delivery orders
  OrderOf,     \* OrderOf[o]: driver, vendor, total, fee, tip, cod
  Payments,    \* top-ups and fleet deposits: money announced, then confirmed
  PaymentOf,   \* PaymentOf[x]: account credited and amount
  Remits,      \* cash-desk submissions
  RemitOf,     \* RemitOf[r]: driver, amount
  Settles,     \* settlements a delivery company submits
  SettleOf,    \* SettleOf[s]: fleet and lines, a sequence of (driver, amount)
  Adjusts,     \* corrections an admin makes
  AdjustOf,    \* AdjustOf[a]: account and signed change
  LastMonth,   \* BOUND: months that pass
  MaxLive,     \* BOUND: orders that are on the road
  LockRank     \* the order of the account ids (random uuids)

ASSUME MonthAssumption == LastMonth \in Nat \ {0}

\* Tables have finitely many rows.
ASSUME FiniteAssumption ==
  IsFiniteSet(Drivers) /\ IsFiniteSet(Vendors) /\ IsFiniteSet(Fleets)

(*****************************************************************************)
(* Accounts and postings                                                     *)
(*****************************************************************************)
DriverCash(d) == <<"DRIVER_CASH", d>>
Payable(v) == <<"VENDOR_PAYABLE", v>>
FleetCash(f) == <<"FLEET_CASH", f>>
Revenue == <<"PLATFORM_REVENUE", "tenant">>
Clearing == <<"PLATFORM_CLEARING", "tenant">>

Accounts ==
  {DriverCash(d) : d \in Drivers} \union {Payable(v) : v \in Vendors}
    \union {FleetCash(f) : f \in Fleets} \union {Revenue, Clearing}

\* Every request names rows that exist, and passes the validation its handler
\* starts with.
ASSUME AmountAssumption ==
  /\ OrderOf \in [Orders -> [driver : Drivers, vendor : Vendors, total : Nat \ {0},
                             fee : Nat, tip : Nat \ {0}, cod : BOOLEAN]]
  /\ PaymentOf \in [Payments -> [acct : Accounts \ {Clearing}, amount : Nat \ {0}]]
  /\ RemitOf \in [Remits -> [driver : Drivers, amount : Nat \ {0}]]
  /\ AdjustOf \in [Adjusts -> [acct : Accounts \ {Clearing}, change : Int \ {0}]]

\* settleDriverCash: at least one line, no driver twice, all on the roster.
ASSUME SettleAssumption ==
  /\ SettleOf \in [Settles -> [fleet : Fleets,
                               lines : Seq([driver : Drivers, amount : Nat \ {0}])]]
  /\ \A s \in Settles :
       LET lines == SettleOf[s].lines
       IN  /\ Len(lines) > 0
           /\ \A i \in DOMAIN lines : lines[i].driver \in Roster[SettleOf[s].fleet]
           /\ \A i, j \in DOMAIN lines : lines[i].driver = lines[j].driver => i = j

ASSUME RankAssumption ==
  /\ LockRank \in [Accounts -> Nat]
  /\ \A a, b \in Accounts : LockRank[a] = LockRank[b] => a = b

ASSET_LIKE == {"DRIVER_CASH", "PLATFORM_CLEARING"}

\* Debits less credits of a posting, by the polarity of each account.
Balanced(legs) ==
  MapThenSumSet(LAMBDA a : IF a[1] \in ASSET_LIKE THEN legs[a] ELSE -legs[a],
                Accounts) = 0

Touched(legs) == {a \in Accounts : legs[a] # 0}

\* A posting of up to three legs, each an account and the change of its balance.
Legs(a, x, b, y, c, z) ==
  [k \in Accounts |-> IF k = a THEN x ELSE IF k = b THEN y ELSE IF k = c THEN z ELSE 0]

Flat == [k \in Accounts |-> 0]

CodSettlement(o) ==
  LET x == OrderOf[o]
  IN  Legs(DriverCash(x.driver), x.total,
           Payable(x.vendor), x.total - x.fee,
           Revenue, x.fee)

PrepaidSettlement(o) ==
  LET x == OrderOf[o]
  IN  Legs(Payable(x.vendor), -x.fee, Revenue, x.fee, Clearing, 0)

Tip(o) ==
  LET x == OrderOf[o]
  IN  Legs(Clearing, x.tip, DriverCash(x.driver), -x.tip, Revenue, 0)

Remittance(r) ==
  LET x == RemitOf[r]
  IN  Legs(DriverCash(x.driver), -x.amount, Clearing, x.amount, Revenue, 0)

SettlementLine(s, i) ==
  LET x == SettleOf[s].lines[i]
  IN  Legs(DriverCash(x.driver), -x.amount,
           FleetCash(SettleOf[s].fleet), -x.amount,
           Revenue, 0)

\* postCredit of confirmTopUp and of confirmFleetDeposit.
Credit(x) ==
  LET p == PaymentOf[x]
  IN  Legs(Clearing, p.amount, p.acct, p.amount, Revenue, 0)

\* Mutant: a refund that charges the vendor our fee as well.
RefundFromVendor(o) ==
  LET x == OrderOf[o]
  IN  IF x.cod THEN Legs(Payable(x.vendor), -x.total, Clearing, -x.total, Revenue, 0)
               ELSE Legs(Payable(x.vendor), x.fee, Revenue, -x.fee, Clearing, 0)

\* The vendor's leg is left out when the fee was more than the total.
RefundLegs(o) ==
  LET x == OrderOf[o]
      share == IF x.total > x.fee THEN x.total - x.fee ELSE 0
  IN  Legs(Revenue, -x.fee,
           Payable(x.vendor), IF x.cod THEN -share ELSE x.fee,
           Clearing, IF x.cod THEN -x.total ELSE 0)

Payout(v, amount) == Legs(Clearing, -amount, Payable(v), -amount, Revenue, 0)

\* The clearing account takes the opposite leg, whatever the polarity.
Adjustment(x) ==
  LET t == AdjustOf[x]
  IN  Legs(Clearing, IF t.acct[1] \in ASSET_LIKE THEN -t.change ELSE t.change,
           t.acct, t.change,
           Revenue, 0)

(*****************************************************************************)
(* Requests, and what each one claims and books                              *)
(*****************************************************************************)
Months == 1 .. LastMonth
Statements == Vendors \X (1 .. LastMonth - 1)

Req ==
  ({"deliver", "tip", "refund", "decline"} \X Orders)
    \union ({"confirm", "withdraw"} \X Payments)
    \union ({"remit"} \X Remits) \union ({"settle"} \X Settles)
    \union ({"adjust"} \X Adjusts) \union ({"payout"} \X Statements)

NoReq == <<"none", "none">>

\* Rows with a status.  "tipped" and "refunded" are nullable columns of the order.
Rows ==
  ({"order", "tipped", "refunded", "refund"} \X Orders)
    \union ({"pay"} \X Payments) \union ({"statement"} \X Statements)

LockOf(row) ==
  IF row[1] \in {"tipped", "refunded"} THEN <<"order", row[2]>> ELSE row

\* The guarded updateMany a handler starts with: the row, and its two statuses.
ClaimOf(r) ==
  CASE r[1] = "deliver"  -> [row |-> <<"order", r[2]>>,  from |-> "PICKED_UP", to |-> "DELIVERED"]
    [] r[1] = "tip"      -> [row |-> <<"tipped", r[2]>>, from |-> "NULL",      to |-> "SET"]
    [] r[1] = "confirm"  -> [row |-> <<"pay", r[2]>>,    from |-> "PENDING",   to |-> "PAID"]
    [] r[1] = "withdraw" -> [row |-> <<"pay", r[2]>>,    from |-> "PENDING",   to |-> "CANCELLED"]
    [] r[1] = "decline"  -> [row |-> <<"refund", r[2]>>, from |-> "REQUESTED", to |-> "REJECTED"]

KeyOf(r, line) ==
  CASE r[1] = "deliver" /\ OrderOf[r[2]].cod  -> <<"cod-settle", r[2]>>
    [] r[1] = "deliver" /\ ~OrderOf[r[2]].cod -> <<"prepaid-settle", r[2]>>
    [] r[1] = "confirm"                       -> <<"credit", r[2]>>
    [] r[1] = "refund"                        -> <<"reversal", r[2]>>
    [] r[1] = "settle"                        -> <<"line", <<r[2], line>>>>
    [] OTHER                                  -> r

First(r) ==
  CASE r[1] \in {"deliver", "tip", "confirm", "withdraw", "decline"} -> "claim"
    [] r[1] \in {"remit", "settle"}                                  -> "hold"
    [] r[1] \in {"refund", "payout"}                                 -> "read"
    [] r[1] = "adjust"                                               -> "post"

\* A settlement takes the company's account first, as line 0.
Lines(r) == IF r[1] = "settle" THEN Len(SettleOf[r[2]].lines) ELSE 1
FirstLine(r) == IF r[1] = "settle" THEN 0 ELSE 1

SettleTotal(s) ==
  MapThenSumSet(LAMBDA i : SettleOf[s].lines[i].amount, DOMAIN SettleOf[s].lines)

\* The account a handler locks with the guard "balance >= amount".
HoldOf(r, line) ==
  CASE r[1] = "remit"  -> [acct |-> DriverCash(RemitOf[r[2]].driver),
                           least |-> RemitOf[r[2]].amount]
    [] r[1] = "settle" /\ line = 0 ->
         [acct |-> FleetCash(SettleOf[r[2]].fleet), least |-> SettleTotal(r[2])]
    [] r[1] = "settle" /\ line > 0 ->
         LET x == SettleOf[r[2]].lines[line]
         IN  [acct |-> DriverCash(x.driver), least |-> x.amount]

(*****************************************************************************)
(* State                                                                     *)
(*****************************************************************************)
VARIABLES
  balance,   \* committed WalletAccount.balanceKwd
  books,     \* committed WalletTransactions with their entries
  status,    \* committed status of every row
  asOf,      \* asOf[v][m]: running balance of v's last entry up to the end of m
  closing,   \* closingBalanceKwd of the statements generated so far
  month,     \* the current month
  acked,     \* payments some confirm call has answered ok for
  tx         \* tx[w]: the transaction worker w runs

vars == <<balance, books, status, asOf, closing, month, acked, tx>>

Idle == [req |-> NoReq, at |-> "idle", line |-> 0, todo |-> {}, held |-> {},
         view |-> Flat, made |-> {}, marks |-> {}, stamp |-> 0]

At(w, stage) == tx[w].at = stage
Kind(w) == tx[w].req[1]
Id(w) == tx[w].req[2]

\* Mutant: statements that wait for nobody.
FreeAlways(w, res) == w \in Workers /\ res = res

\* Nobody else holds the row or key: an UPDATE or INSERT of w does not wait.
Free(w, res) == \A q \in Workers \ {w} : res \notin tx[q].held

\* What w reads of an account: its own write, or the last commit.
View(w, a) == IF a \in tx[w].held THEN tx[w].view[a] ELSE balance[a]

IsBooked(key) == \E e \in books : e.key = key

LegsOf(w) ==
  LET r == tx[w].req
  IN  CASE Kind(w) = "deliver" /\ OrderOf[Id(w)].cod  -> CodSettlement(Id(w))
        [] Kind(w) = "deliver" /\ ~OrderOf[Id(w)].cod -> PrepaidSettlement(Id(w))
        [] Kind(w) = "tip"     -> Tip(Id(w))
        [] Kind(w) = "confirm" -> Credit(Id(w))
        [] Kind(w) = "remit"   -> Remittance(Id(w))
        [] Kind(w) = "settle"  -> SettlementLine(Id(w), tx[w].line)
        [] Kind(w) = "adjust"  -> Adjustment(Id(w))
        [] Kind(w) = "refund"  -> RefundLegs(Id(w))
        [] Kind(w) = "payout"  -> Payout(Id(w)[1], closing[Id(w)])

\* A payment may be found PAID without its entry: the two-transaction confirm
\* that this code replaced could crash in between.
Init ==
  /\ balance = Flat
  /\ books = {}
  /\ \E live \in {l \in SUBSET Orders : Cardinality(l) <= MaxLive},
        damaged \in SUBSET Payments :
       status = [row \in Rows |->
                   CASE row[1] = "order" /\ row[2] \in live     -> "PICKED_UP"
                     [] row[1] \in {"tipped", "refunded"}       -> "NULL"
                     [] row[1] = "pay" /\ row[2] \in damaged    -> "PAID"
                     [] OTHER                                   -> "NONE"]
  /\ asOf = [v \in Vendors |-> [m \in Months |-> 0]]
  /\ closing = [s \in Statements |-> 0]
  /\ month = 1
  /\ acked = {}
  /\ tx = [w \in Workers |-> Idle]

(*****************************************************************************)
(* Rows created by a single statement, and the turn of the month             *)
(*****************************************************************************)
\* createTopUp, createFleetDeposit: a request and a payment link, no credit.
CreatePayment(x) ==
  /\ status[<<"pay", x>>] = "NONE"
  /\ status' = [status EXCEPT ![<<"pay", x>>] = "PENDING"]
  /\ UNCHANGED <<balance, books, asOf, closing, month, acked, tx>>

\* One refund per order (Refund.orderId is unique).
RequestRefund(o) ==
  /\ status[<<"order", o>>] = "DELIVERED"
  /\ status[<<"refunded", o>>] = "NULL"
  /\ status[<<"refund", o>>] = "NONE"
  /\ status' = [status EXCEPT ![<<"refund", o>>] = "REQUESTED"]
  /\ UNCHANGED <<balance, books, asOf, closing, month, acked, tx>>

\* Mutant: a calendar that runs past its last month.
TickPast ==
  /\ month <= LastMonth
  /\ month' = month + 1
  /\ UNCHANGED <<balance, books, status, asOf, closing, acked, tx>>

Tick ==
  /\ month < LastMonth
  /\ month' = month + 1
  /\ UNCHANGED <<balance, books, status, asOf, closing, acked, tx>>

\* The statement of the last closed month; an existing one is left alone.
GenerateStatement(v) ==
  LET s == <<v, month - 1>>
  IN  /\ month > 1
      /\ status[<<"statement", s>>] = "NONE"
      /\ status' = [status EXCEPT ![<<"statement", s>>] = "FINAL"]
      /\ closing' = [closing EXCEPT ![s] = asOf[v][month - 1]]
      /\ UNCHANGED <<balance, books, asOf, month, acked, tx>>

(*****************************************************************************)
(* The steps of a transaction                                                *)
(*****************************************************************************)
Rest == <<balance, books, status, asOf, closing, month>>

Goto(w, stage) == tx' = [tx EXCEPT ![w].at = stage]
Drop(w) == tx' = [tx EXCEPT ![w] = Idle]

\* A cash-desk submission, a settlement and a correction have a fresh id each
\* time they are submitted; everything else may be asked again.
Submittable(r) ==
  /\ r[1] \in {"remit", "adjust"} => ~IsBooked(r)
  /\ r[1] = "settle" => ~IsBooked(KeyOf(r, 1))
  /\ r[1] \in {"confirm", "withdraw"} => status[<<"pay", r[2]>>] # "NONE"
  /\ r[1] \in {"refund", "decline"} => status[<<"refund", r[2]>>] # "NONE"
  /\ r[1] = "tip" => status[<<"order", r[2]>>] = "DELIVERED"
  /\ r[1] = "payout" => status[<<"statement", r[2]>>] # "NONE"

Begin(w, r) ==
  /\ At(w, "idle")
  /\ Submittable(r)
  /\ \A q \in Workers : r[1] \in {"remit", "settle", "adjust"} => tx[q].req # r
  /\ tx' = [tx EXCEPT ![w] = [Idle EXCEPT !.req = r, !.at = First(r),
                                          !.line = FirstLine(r)]]
  /\ UNCHANGED <<Rest, acked>>

\* A plain read: processRefund and postVendorPayout look before they book.
Read(w) ==
  /\ At(w, "read")
  /\ \/ /\ \/ /\ Kind(w) = "refund"
              /\ status[<<"refund", Id(w)>>] = "REQUESTED"
              /\ status[<<"refunded", Id(w)>>] = "NULL"
           \/ /\ Kind(w) = "payout"
              /\ status[<<"statement", Id(w)>>] # "PAID"
              /\ closing[Id(w)] > 0
        /\ Goto(w, "post")
     \/ /\ \/ /\ Kind(w) = "refund"
              /\ \/ status[<<"refund", Id(w)>>] # "REQUESTED"
                 \/ status[<<"refunded", Id(w)>>] # "NULL"
           \/ /\ Kind(w) = "payout"
              /\ \/ status[<<"statement", Id(w)>>] = "PAID"
                 \/ closing[Id(w)] <= 0
        /\ Drop(w)
  /\ UNCHANGED <<Rest, acked>>

\* Mutant: a confirmation in two transactions: the status first, the entry later.
ClaimCommitted(w) ==
  LET c == ClaimOf(tx[w].req)
  IN  /\ At(w, "claim")
      /\ Free(w, LockOf(c.row))
      /\ status[c.row] = c.from
      /\ status' = [status EXCEPT ![c.row] = c.to]
      /\ Goto(w, IF Kind(w) \in {"withdraw", "decline"} THEN "end" ELSE "post")
      /\ UNCHANGED <<balance, books, asOf, closing, month, acked>>

\* The guarded update took the row.
Claim(w) ==
  LET c == ClaimOf(tx[w].req)
  IN  /\ At(w, "claim")
      /\ Free(w, LockOf(c.row))
      /\ status[c.row] = c.from
      /\ tx' = [tx EXCEPT
           ![w].held = @ \union {LockOf(c.row)},
           ![w].marks = {[row |-> c.row, to |-> c.to]},
           ![w].at = IF Kind(w) \in {"withdraw", "decline"} THEN "end" ELSE "post"]
      /\ UNCHANGED <<Rest, acked>>

\* Mutant: "Somebody else has confirmed it": ok without a look at the ledger.
UnclaimedTrusting(w) ==
  LET c == ClaimOf(tx[w].req)
      paid == Kind(w) = "confirm" /\ status[c.row] = "PAID"
  IN  /\ At(w, "claim")
      /\ Free(w, LockOf(c.row))
      /\ status[c.row] # c.from
      /\ Drop(w)
      /\ acked' = IF paid THEN acked \union {Id(w)} ELSE acked
      /\ UNCHANGED Rest

\* Mutant: the money has arrived: the entry is made whatever the status.
UnclaimedCredits(w) ==
  LET c == ClaimOf(tx[w].req)
  IN  /\ At(w, "claim")
      /\ Free(w, LockOf(c.row))
      /\ status[c.row] # c.from
      /\ IF Kind(w) = "confirm" THEN Goto(w, "post") ELSE Drop(w)
      /\ UNCHANGED <<Rest, acked>>

\* Count 0.  A payment that reads PAID without its entry is repaired; one with
\* its entry is answered ok; everything else is a conflict.
Unclaimed(w) ==
  LET c == ClaimOf(tx[w].req)
      paid == Kind(w) = "confirm" /\ status[c.row] = "PAID"
  IN  /\ At(w, "claim")
      /\ Free(w, LockOf(c.row))
      /\ status[c.row] # c.from
      /\ IF paid /\ ~IsBooked(<<"credit", Id(w)>>)
         THEN Goto(w, "post") /\ UNCHANGED acked
         ELSE /\ Drop(w)
              /\ acked' = IF paid THEN acked \union {Id(w)} ELSE acked
      /\ UNCHANGED Rest

\* Mutant: the balance is looked at, and not locked.
HoldRead(w) ==
  LET h == HoldOf(tx[w].req, tx[w].line)
  IN  /\ At(w, "hold")
      /\ View(w, h.acct) >= h.least
      /\ tx' = [tx EXCEPT
           ![w].line = IF @ = 0 THEN 1 ELSE @,
           ![w].at = IF tx[w].line = 0 THEN "hold" ELSE "post"]
      /\ UNCHANGED <<Rest, acked>>

\* The row lock taken with "balance >= amount" in its WHERE.
Hold(w) ==
  LET h == HoldOf(tx[w].req, tx[w].line)
  IN  /\ At(w, "hold")
      /\ Free(w, h.acct)
      /\ View(w, h.acct) >= h.least
      /\ tx' = [tx EXCEPT
           ![w].held = @ \union {h.acct},
           ![w].view[h.acct] = View(w, h.acct),
           ![w].line = IF @ = 0 THEN 1 ELSE @,
           ![w].at = IF tx[w].line = 0 THEN "hold" ELSE "post"]
      /\ UNCHANGED <<Rest, acked>>

\* Mutant: a line that is not covered ends the settlement, the lines before it stand.
ShortStops(w) ==
  LET h == HoldOf(tx[w].req, tx[w].line)
  IN  /\ At(w, "hold")
      /\ Free(w, h.acct)
      /\ View(w, h.acct) < h.least
      /\ IF tx[w].line > 1 THEN Goto(w, "end") ELSE Drop(w)
      /\ UNCHANGED <<Rest, acked>>

Short(w) ==
  LET h == HoldOf(tx[w].req, tx[w].line)
  IN  /\ At(w, "hold")
      /\ Free(w, h.acct)
      /\ View(w, h.acct) < h.least
      /\ Drop(w)
      /\ UNCHANGED <<Rest, acked>>

\* Where a handler goes when a posting is written, or has no legs.
After(w) ==
  CASE Kind(w) = "settle" /\ tx[w].line < Lines(tx[w].req) -> "hold"
    [] Kind(w) \in {"refund", "payout"}                    -> "seal"
    [] OTHER                                               -> "end"

NextLine(w) ==
  IF Kind(w) = "settle" /\ tx[w].line < Lines(tx[w].req) THEN tx[w].line + 1
                                                         ELSE tx[w].line

\* postLedgerTransaction, the header: it carries the unique key.
Header(w) ==
  LET key == KeyOf(tx[w].req, tx[w].line)
      legs == LegsOf(w)
  IN  /\ At(w, "post")
      /\ Touched(legs) # {}
      /\ Balanced(legs)
      /\ Free(w, key)
      /\ ~IsBooked(key)
      /\ tx' = [tx EXCEPT ![w].held = @ \union {key},
                          ![w].made = @ \union {[key |-> key, legs |-> legs]},
                          ![w].todo = Touched(legs),
                          ![w].at = "legs"]
      /\ UNCHANGED <<Rest, acked>>

\* postLedgerTransaction does nothing for a posting without legs.
NoLegs(w) ==
  /\ At(w, "post")
  /\ Touched(LegsOf(w)) = {}
  /\ Goto(w, After(w))
  /\ UNCHANGED <<Rest, acked>>

\* The key is taken: the failed INSERT aborts the transaction, the handler goes
\* on with null, and the commit is a rollback.  A confirm answers ok.
Replay(w) ==
  /\ At(w, "post")
  /\ Touched(LegsOf(w)) # {}
  /\ Balanced(LegsOf(w))
  /\ IsBooked(KeyOf(tx[w].req, tx[w].line))
  /\ Drop(w)
  /\ acked' = IF Kind(w) = "confirm" THEN acked \union {Id(w)} ELSE acked
  /\ UNCHANGED Rest

Unbalanced(w) ==
  /\ At(w, "post")
  /\ ~Balanced(LegsOf(w))
  /\ Drop(w)
  /\ UNCHANGED <<Rest, acked>>

\* Mutant: the legs in the order the handler lists them: its clearing leg first for a
\* tip, last for everything else.
NextLegListed(w) ==
  CHOOSE a \in tx[w].todo :
    \A b \in tx[w].todo :
      IF Kind(w) = "tip" THEN a = Clearing \/ b # Clearing
                         ELSE a # Clearing \/ b = Clearing

\* The legs are written in the order of the account ids.
NextLeg(w) ==
  CHOOSE a \in tx[w].todo : \A b \in tx[w].todo : LockRank[a] <= LockRank[b]

\* An atomic increment: it takes the row lock and adds to the committed value.
Leg(w) ==
  LET a == NextLeg(w)
      last == tx[w].todo = {a}
  IN  /\ At(w, "legs")
      /\ Free(w, a)
      /\ tx' = [tx EXCEPT
           ![w].held = @ \union {a},
           ![w].view[a] = View(w, a) + LegsOf(w)[a],
           ![w].todo = @ \ {a},
           ![w].stamp = IF a[1] = "VENDOR_PAYABLE" THEN month ELSE @,
           ![w].line = IF last THEN NextLine(w) ELSE @,
           ![w].at = IF last THEN After(w) ELSE @]
      /\ UNCHANGED <<Rest, acked>>

\* After the posting: the guarded update of the refund, then the order's stamp;
\* the statement's update has no guard.
Seal(w) ==
  LET row == IF Kind(w) = "refund" THEN <<"refund", Id(w)>> ELSE <<"statement", Id(w)>>
  IN  /\ At(w, "seal")
      /\ Free(w, row)
      /\ IF Kind(w) = "refund" /\ status[row] # "REQUESTED"
         THEN Drop(w)
         ELSE tx' = [tx EXCEPT
                ![w].held = @ \union {row},
                ![w].marks = @ \union {[row |-> row,
                                        to |-> IF Kind(w) = "refund" THEN "PROCESSED" ELSE "PAID"]},
                ![w].at = IF Kind(w) = "refund" THEN "stamp" ELSE "end"]
      /\ UNCHANGED <<Rest, acked>>

Stamp(w) ==
  /\ At(w, "stamp")
  /\ Free(w, <<"order", Id(w)>>)
  /\ tx' = [tx EXCEPT
       ![w].held = @ \union {<<"order", Id(w)>>},
       ![w].marks = @ \union {[row |-> <<"refunded", Id(w)>>, to |-> "SET"]},
       ![w].at = "end"]
  /\ UNCHANGED <<Rest, acked>>

Marked(w) == {m.row : m \in tx[w].marks}
MarkOf(w, row) == (CHOOSE m \in tx[w].marks : m.row = row).to

Commit(w) ==
  /\ At(w, "end")
  /\ balance' = [a \in Accounts |-> View(w, a)]
  /\ books' = books \union tx[w].made
  /\ status' = [row \in Rows |-> IF row \in Marked(w) THEN MarkOf(w, row) ELSE status[row]]
  /\ asOf' = [v \in Vendors |->
                IF Payable(v) \in tx[w].held
                THEN [m \in Months |-> IF m < tx[w].stamp THEN asOf[v][m]
                                                          ELSE tx[w].view[Payable(v)]]
                ELSE asOf[v]]
  /\ acked' = IF Kind(w) = "confirm" THEN acked \union {Id(w)} ELSE acked
  /\ Drop(w)
  /\ UNCHANGED <<closing, month>>

\* The process dies, the connection is lost, the time limit of an interactive
\* transaction passes, or the database breaks a wait cycle.
Abort(w) ==
  /\ ~At(w, "idle")
  /\ Drop(w)
  /\ UNCHANGED <<Rest, acked>>

Step(w) ==
  \/ \E r \in Req : Begin(w, r)
  \/ Read(w) \/ Claim(w) \/ Unclaimed(w) \/ Hold(w) \/ Short(w)
  \/ Header(w) \/ NoLegs(w) \/ Replay(w) \/ Unbalanced(w) \/ Leg(w)
  \/ Seal(w) \/ Stamp(w) \/ Commit(w) \/ Abort(w)

Next ==
  \/ \E x \in Payments : CreatePayment(x)
  \/ \E o \in Orders : RequestRefund(o)
  \/ Tick
  \/ \E v \in Vendors : GenerateStatement(v)
  \/ \E w \in Workers : Step(w)

Spec == Init /\ [][Next]_vars

(*****************************************************************************)
(* Type invariant                                                            *)
(*****************************************************************************)
Keys ==
  ({"cod-settle", "prepaid-settle", "tip", "reversal"} \X Orders)
    \union ({"credit"} \X Payments) \union ({"payout"} \X Statements)
    \union ({"remit"} \X Remits) \union ({"adjust"} \X Adjusts)
    \union UNION {{<<"line", <<s, i>>>> : i \in DOMAIN SettleOf[s].lines} : s \in Settles}

Resources == Accounts \union Rows \union Keys
Statuses == {"NONE", "NULL", "SET", "PICKED_UP", "DELIVERED", "PENDING", "PAID",
             "CANCELLED", "REQUESTED", "PROCESSED", "REJECTED", "FINAL"}
Stages == {"idle", "read", "claim", "hold", "post", "legs", "seal", "stamp", "end"}
Entry == [key : Keys, legs : [Accounts -> Int]]
Mark == [row : Rows, to : Statuses]
Transaction ==
  [req : Req \union {NoReq}, at : Stages, line : Nat, todo : SUBSET Accounts,
   held : SUBSET Resources, view : [Accounts -> Int], made : SUBSET Entry,
   marks : SUBSET Mark, stamp : Nat]

TypeOK ==
  /\ balance \in [Accounts -> Int]
  /\ books \subseteq Entry
  /\ status \in [Rows -> Statuses]
  /\ asOf \in [Vendors -> [Months -> Int]]
  /\ closing \in [Statements -> Int]
  /\ month \in Months
  /\ acked \subseteq Payments
  /\ tx \in [Workers -> Transaction]

(*****************************************************************************)
(* Safety                                                                    *)
(*****************************************************************************)
\* Two transactions never hold the same row or key: what the guards and the
\* replay keys of every handler lean on.
Exclusive ==
  \A p, q \in Workers : p # q => tx[p].held \intersect tx[q].held = {}

\* Reconciliation check 1 (reconciliationService.ts): the cached balance of an
\* account is the sum of its entries.  A lost update or a double posting would
\* show here.
CachedBalance ==
  \A a \in Accounts : balance[a] = MapThenSumSet(LAMBDA e : e.legs[a], books)

\* A confirm call that answered ok has left the money in the ledger, whoever
\* made the posting and whatever crashed before (topUpService.ts,
\* fleetCashService.ts).
AckedIsBooked == \A x \in acked : IsBooked(<<"credit", x>>)

\* A payment withdrawn or refused is never credited, however late a
\* confirmation comes (cancelTopUp, cancelFleetDeposit, rejectFleetDeposit).
WithdrawnNotCredited ==
  \A x \in Payments : status[<<"pay", x>>] = "CANCELLED" => ~IsBooked(<<"credit", x>>)

\* settleDriverCash is all or nothing: no line is in the books without the others.
AllOrNothing ==
  \A s \in Settles :
    \A i, j \in DOMAIN SettleOf[s].lines :
      IsBooked(<<"line", <<s, i>>>>) => IsBooked(<<"line", <<s, j>>>>)

\* A processed refund takes back from the vendor and from our revenue exactly
\* what the order's delivery gave them (refundService.ts, leg design).
RefundUndoes ==
  \A o \in Orders :
    status[<<"refund", o>>] = "PROCESSED" =>
      LET mine == {e \in books : e.key \in {<<"cod-settle", o>>, <<"prepaid-settle", o>>,
                                            <<"reversal", o>>}}
      IN  \A a \in {Payable(OrderOf[o].vendor), Revenue} :
            MapThenSumSet(LAMBDA e : e.legs[a], mine) = 0

\* A hand-in or a settlement never takes a driver's or a company's account
\* below zero, whatever else was submitted at the same time
\* (remittanceService.ts, fleetCashService.ts: the guard is a row lock).
SpendCovered ==
  [][\A e \in books' \ books :
       e.key[1] \in {"remit", "line"} => \A a \in Accounts : e.legs[a] < 0 => balance'[a] >= 0]_vars

\* The row or key the next statement of w locks.
Needs(w) ==
  CASE At(w, "claim") -> {LockOf(ClaimOf(tx[w].req).row)}
    [] At(w, "hold")  -> {HoldOf(tx[w].req, tx[w].line).acct}
    [] At(w, "post")  -> {KeyOf(tx[w].req, tx[w].line)}
    [] At(w, "legs")  -> {NextLeg(w)}
    [] At(w, "seal")  -> {<<IF Kind(w) = "refund" THEN "refund" ELSE "statement", Id(w)>>}
    [] At(w, "stamp") -> {<<"order", Id(w)>>}
    [] OTHER          -> {}

WaitsFor(p, q) == p # q /\ Needs(p) \intersect tx[q].held # {}

\* "Legs are applied in accountId order (deterministic lock order, no deadlocks
\* between concurrent postings)" (walletService.ts): true of two transactions
\* that are both writing legs, unless one of them took an account before its
\* posting, as a hand-in and a settlement do with their guard.
PostingsDoNotDeadlock ==
  \A p, q \in Workers :
    (/\ At(p, "legs") /\ At(q, "legs")
     /\ WaitsFor(p, q) /\ WaitsFor(q, p))
       => {Kind(p), Kind(q)} \intersect {"remit", "settle"} # {}

(*****************************************************************************)
(* Refinement of Ledger: what stands behind a row that says "paid"           *)
(*****************************************************************************)
PaidWord == [order |-> "DELIVERED", tipped |-> "SET", pay |-> "PAID",
             refund |-> "PROCESSED", statement |-> "PAID"]

\* Rows whose paid status always comes with an entry: a prepaid order without
\* a fee books nothing, and neither does its refund.
Dues ==
  {row \in Rows :
     /\ row[1] \in DOMAIN PaidWord
     /\ row[1] \in {"order", "refund"} =>
          (OrderOf[row[2]].cod \/ OrderOf[row[2]].fee > 0)}

DueKey(row) ==
  CASE row[1] = "order" /\ OrderOf[row[2]].cod  -> <<"cod-settle", row[2]>>
    [] row[1] = "order" /\ ~OrderOf[row[2]].cod -> <<"prepaid-settle", row[2]>>
    [] row[1] = "tipped"                        -> <<"tip", row[2]>>
    [] row[1] = "pay"                           -> <<"credit", row[2]>>
    [] row[1] = "refund"                        -> <<"reversal", row[2]>>
    [] row[1] = "statement"                     -> <<"payout", row[2]>>

Settled == [row \in Dues |-> status[row] = PaidWord[row[1]]]

L == INSTANCE Ledger WITH Keys <- Keys, Obligations <- Dues, KeyOf <- DueKey,
                          Balanced <- Balanced, books <- books, settled <- Settled

\* Every commit is one step of the abstract ledger: entries are only added, one
\* per key, balanced, and a row says "paid" from the same commit as its entry.
LedgerSpec == L!Spec
=============================================================================
