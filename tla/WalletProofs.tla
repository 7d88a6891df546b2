---------------------------- MODULE WalletProofs ----------------------------
(*****************************************************************************)
(* Theorems about Wallet, for any number of requests in flight, accounts,    *)
(* orders, payments and settlements, and any order of the account ids.  The  *)
(* invariant says what a transaction in flight has locked, marked and made,  *)
(* and what it therefore knows of the committed rows.                        *)
(*****************************************************************************)
EXTENDS Wallet, TLAPS, WellFoundedInduction

----------------------------------------------------------------------------
(* The inductive invariant *)

\* The row a request moves, and the word it writes there.
RowOf(r) ==
  CASE r[1] = "deliver"               -> <<"order", r[2]>>
    [] r[1] = "tip"                   -> <<"tipped", r[2]>>
    [] r[1] \in {"confirm", "withdraw"} -> <<"pay", r[2]>>
    [] r[1] \in {"refund", "decline"} -> <<"refund", r[2]>>
    [] r[1] = "payout"                -> <<"statement", r[2]>>

WordOf(r) ==
  CASE r[1] = "deliver"  -> "DELIVERED"
    [] r[1] = "tip"      -> "SET"
    [] r[1] = "confirm"  -> "PAID"
    [] r[1] = "withdraw" -> "CANCELLED"
    [] r[1] = "decline"  -> "REJECTED"
    [] r[1] = "refund"   -> "PROCESSED"
    [] r[1] = "payout"   -> "PAID"

Claiming == {"deliver", "tip", "confirm", "withdraw", "decline"}
Marking == Claiming \union {"refund", "payout"}

\* Requests that do not end without an entry.
Booking(r) ==
  \/ r[1] \in {"tip", "confirm", "settle", "payout"}
  \/ r[1] \in {"deliver", "refund"} /\ (OrderOf[r[2]].cod \/ OrderOf[r[2]].fee > 0)

\* Lines whose header a transaction has written.
Posted(t) ==
  CASE t.at \in {"idle", "read", "claim"}  -> 0
    [] t.at \in {"hold", "post"}           -> t.line - 1
    [] t.at = "legs"                       -> t.line
    [] t.at \in {"seal", "stamp", "end"}   -> Lines(t.req)

Running(t) ==
  /\ t.at # "idle" => t.req \in Req
  /\ t.at # "idle" => t.line \in FirstLine(t.req) .. Lines(t.req)
  /\ t.at \in {"post", "legs"} => t.line > 0
  /\ t.at = "idle" => t.held = {} /\ t.req = NoReq
  /\ t.at = "read" => t.req[1] \in {"refund", "payout"}
  /\ t.at = "claim" => t.req[1] \in Claiming
  /\ t.at = "hold" => t.req[1] \in {"remit", "settle"}
  /\ t.at \in {"post", "legs"} => t.req[1] \notin {"withdraw", "decline"}
  /\ t.at = "seal" => t.req[1] \in {"refund", "payout"}
  /\ t.at = "stamp" => t.req[1] = "refund"

\* Everything made is locked, new, balanced, and a line of the request.
MadeInv(t) ==
  /\ \A e \in t.made :
       /\ e.key \in t.held /\ e.key \in Keys /\ ~IsBooked(e.key) /\ Balanced(e.legs)
       /\ \E i \in 1 .. Posted(t) : e.key = KeyOf(t.req, i)
       /\ \A f \in t.made : f.key = e.key => f = e
  /\ t.at # "idle" /\ Booking(t.req) =>
       \A i \in 1 .. Posted(t) : \E e \in t.made : e.key = KeyOf(t.req, i)

\* Everything marked is locked, and is what the request is about.
MarkInv(t) ==
  \A m \in t.marks :
    /\ t.req[1] \in Marking
    /\ LockOf(m.row) \in t.held
    /\ \/ m = [row |-> RowOf(t.req), to |-> WordOf(t.req)]
       \/ t.req[1] = "refund" /\ m = [row |-> <<"refunded", t.req[2]>>, to |-> "SET"]
    /\ t.req[1] \in {"confirm", "withdraw"} => status[m.row] = "PENDING"
    /\ t.req[1] = "decline" => status[m.row] = "REQUESTED"
    /\ t.req[1] \in {"refund", "payout"} => t.at \in {"stamp", "end"}
    /\ t.at \notin {"idle", "read", "claim", "hold"}

\* A confirmation past its claim has marked the payment, or has found it PAID.
ConfirmInv(t) ==
  t.req[1] = "confirm" /\ t.at # "claim" =>
    \/ status[<<"pay", t.req[2]>>] = "PAID"
    \/ \E m \in t.marks : m.row = <<"pay", t.req[2]>> /\ m.to = "PAID"

\* A payout past its read has found a statement with a debt.
PayoutInv(t) ==
  t.req[1] = "payout" =>
    /\ status[<<"statement", t.req[2]>>] # "NONE"
    /\ t.at # "read" => closing[t.req[2]] > 0

\* Legs are locked upwards, by whoever has not locked an account before.
LegsInv(t) ==
  t.req[1] \notin {"remit", "settle"} =>
    /\ t.at \in {"read", "claim", "post"} => t.held \intersect Accounts = {}
    /\ t.at = "legs" =>
         \A a \in t.held \intersect Accounts, b \in t.todo : LockRank[a] < LockRank[b]

TxInv(t) ==
  /\ Running(t) /\ MadeInv(t) /\ MarkInv(t) /\ ConfirmInv(t) /\ PayoutInv(t) /\ LegsInv(t)
  /\ t.at = "legs" => t.todo # {}

\* A payment is in the ledger only if its row says so.
CreditedIsPaid ==
  \A x \in Payments : IsBooked(<<"credit", x>>) => status[<<"pay", x>>] = "PAID"

IInv ==
  /\ TypeOK /\ Exclusive /\ \A w \in Workers : TxInv(tx[w])
  /\ CreditedIsPaid /\ AckedIsBooked /\ AllOrNothing

----------------------------------------------------------------------------
(* Types *)

LEMMA ReqParts ==
  ASSUME NEW r \in Req
  PROVE  /\ r[1] \in {"deliver", "tip", "refund", "decline"} => r[2] \in Orders
         /\ r[1] \in {"confirm", "withdraw"} => r[2] \in Payments
         /\ r[1] = "remit" => r[2] \in Remits
         /\ r[1] = "settle" => r[2] \in Settles
         /\ r[1] = "adjust" => r[2] \in Adjusts
         /\ r[1] = "payout" => r[2] \in Statements
         /\ r = <<r[1], r[2]>>
         /\ r[1] \in Marking \union {"remit", "settle", "adjust"}
BY DEF Req, Marking, Claiming

LEMMA LineNumbers ==
  ASSUME NEW r \in Req
  PROVE  /\ Lines(r) \in Nat /\ Lines(r) > 0 /\ FirstLine(r) \in {0, 1}
         /\ r[1] = "settle" => /\ Lines(r) = Len(SettleOf[r[2]].lines)
                               /\ 1 .. Lines(r) = DOMAIN SettleOf[r[2]].lines
                               /\ FirstLine(r) = 0
         /\ r[1] # "settle" => Lines(r) = 1 /\ FirstLine(r) = 1
<1>1. CASE r[1] = "settle"
  <2>1. r[2] \in Settles
    BY <1>1, ReqParts
  <2>2. SettleOf[r[2]].lines \in Seq([driver : Drivers, amount : Nat \ {0}])
    BY <2>1, SettleAssumption
  <2>3. Len(SettleOf[r[2]].lines) > 0
    BY <2>1, SettleAssumption
  <2> QED  BY <1>1, <2>2, <2>3 DEF Lines, FirstLine
<1>2. CASE r[1] # "settle"
  BY <1>2 DEF Lines, FirstLine
<1> QED  BY <1>1, <1>2

LEMMA KeyIn ==
  ASSUME NEW r \in Req, r[1] \notin {"withdraw", "decline"}, NEW i \in 1 .. Lines(r)
  PROVE  KeyOf(r, i) \in Keys
<1>1. CASE r[1] = "settle"
  <2>1. r[2] \in Settles /\ i \in DOMAIN SettleOf[r[2]].lines
    BY <1>1, ReqParts, LineNumbers
  <2>2. KeyOf(r, i) = <<"line", <<r[2], i>>>>
    BY <1>1 DEF KeyOf
  <2> QED  BY <2>1, <2>2 DEF Keys
<1>2. CASE r[1] \in {"deliver", "tip", "refund"}
  BY <1>2, ReqParts DEF KeyOf, Keys
<1>3. CASE r[1] \in {"confirm", "remit", "adjust", "payout"}
  BY <1>3, ReqParts DEF KeyOf, Keys
<1> QED  BY <1>1, <1>2, <1>3, ReqParts DEF Marking, Claiming

LEMMA RowIn ==
  ASSUME NEW r \in Req, r[1] \in Marking
  PROVE  /\ RowOf(r) \in Rows /\ LockOf(RowOf(r)) \in Rows /\ WordOf(r) \in Statuses
         /\ r[1] \in Claiming => ClaimOf(r).row = RowOf(r) /\ ClaimOf(r).to = WordOf(r)
<1>1. CASE r[1] \in {"deliver", "tip"}
  BY <1>1, ReqParts DEF RowOf, Rows, LockOf, WordOf, Statuses, ClaimOf
<1>2. CASE r[1] \in {"confirm", "withdraw"}
  BY <1>2, ReqParts DEF RowOf, Rows, LockOf, WordOf, Statuses, ClaimOf
<1>3. CASE r[1] \in {"refund", "decline"}
  BY <1>3, ReqParts DEF RowOf, Rows, LockOf, WordOf, Statuses, ClaimOf, Claiming
<1>4. CASE r[1] = "payout"
  BY <1>4, ReqParts DEF RowOf, Rows, LockOf, WordOf, Statuses, Claiming
<1> QED  BY <1>1, <1>2, <1>3, <1>4 DEF Marking, Claiming

\* Keys, rows and accounts are told apart by their tags.
LEMMA Tags ==
  /\ Keys \intersect Accounts = {} /\ Rows \intersect Accounts = {}
  /\ \A r \in Rows : LockOf(r) \in Rows
BY DEF Keys, Rows, Accounts, DriverCash, Payable, FleetCash, Revenue, Clearing, LockOf

LEMMA LineIn ==
  ASSUME NEW s \in Settles, NEW i \in DOMAIN SettleOf[s].lines
  PROVE  /\ SettleOf[s].lines[i].driver \in Drivers
         /\ SettleOf[s].lines[i].amount \in Int /\ SettleOf[s].lines[i].amount > 0
<1> DEFINE S == [driver : Drivers, amount : Nat \ {0}]
           q == SettleOf[s].lines
<1>1. q \in Seq(S)
  BY SettleAssumption
<1>2. \A T : \A t \in Seq(T) : \A j \in 1 .. Len(t) : t[j] \in T
  OBVIOUS
<1>3. i \in 1 .. Len(q)
  BY <1>1
<1>4. q[i] \in S
  BY <1>1, <1>2, <1>3
<1> QED  BY <1>4

\* What a handler locks with its guard is an account.
LEMMA HoldIn ==
  ASSUME NEW r \in Req, r[1] \in {"remit", "settle"}, NEW i \in FirstLine(r) .. Lines(r)
  PROVE  HoldOf(r, i).acct \in Accounts
<1>1. CASE r[1] = "remit"
  <2>1. RemitOf[r[2]].driver \in Drivers
    BY <1>1, ReqParts, AmountAssumption
  <2> QED  BY <1>1, <2>1 DEF HoldOf, Accounts
<1>2. CASE r[1] = "settle" /\ i = 0
  <2>1. SettleOf[r[2]].fleet \in Fleets
    BY <1>2, ReqParts, SettleAssumption
  <2> QED  BY <1>2, <2>1 DEF HoldOf, Accounts
<1>3. CASE r[1] = "settle" /\ i # 0
  <2>1. i \in DOMAIN SettleOf[r[2]].lines /\ r[2] \in Settles /\ i > 0
    BY <1>3, ReqParts, LineNumbers
  <2>2. SettleOf[r[2]].lines[i].driver \in Drivers
    BY <2>1, LineIn
  <2> QED  BY <1>3, <2>1, <2>2 DEF HoldOf, Accounts
<1> QED  BY <1>1, <1>2, <1>3

LEMMA CashIsAccount ==
  ASSUME NEW d \in Drivers
  PROVE  DriverCash(d) \in Accounts
BY DEF Accounts

\* Three postings are a change of every account.
LEMMA LegsAreInts ==
  ASSUME NEW a, NEW b, NEW c, NEW x \in Int, NEW y \in Int, NEW z \in Int
  PROVE  Legs(a, x, b, y, c, z) \in [Accounts -> Int]
BY DEF Legs

\* What a transaction posts is a change of every account.
LEMMA LegsIn ==
  ASSUME TypeOK, NEW w \in Workers, tx[w].req \in Req,
         tx[w].req[1] \notin {"withdraw", "decline"},
         tx[w].line \in 1 .. Lines(tx[w].req)
  PROVE  LegsOf(w) \in [Accounts -> Int]
<1> DEFINE r == tx[w].req
<1>1. CASE r[1] \in {"deliver", "tip", "refund"}
  <2>1. r[2] \in Orders
    BY <1>1, ReqParts
  <2>2. /\ OrderOf[r[2]].total \in Int /\ OrderOf[r[2]].fee \in Int /\ OrderOf[r[2]].tip \in Int
        /\ OrderOf[r[2]].cod \in BOOLEAN
    BY <2>1, AmountAssumption
  <2> DEFINE x == OrderOf[r[2]]
  <2>3. CodSettlement(r[2]) \in [Accounts -> Int]
    <3>1. x.total - x.fee \in Int
      BY <2>2
    <3> QED  BY <2>2, <3>1, LegsAreInts DEF CodSettlement
  <2>4. PrepaidSettlement(r[2]) \in [Accounts -> Int]
    <3>1. -x.fee \in Int /\ 0 \in Int
      BY <2>2
    <3> QED  BY <2>2, <3>1, LegsAreInts DEF PrepaidSettlement
  <2>5. Tip(r[2]) \in [Accounts -> Int]
    <3>1. -x.tip \in Int /\ 0 \in Int
      BY <2>2
    <3>2. Legs(Clearing, x.tip, DriverCash(x.driver), -x.tip, Revenue, 0) \in [Accounts -> Int]
      BY <2>2, <3>1, LegsAreInts
    <3> QED  BY <3>2, Zenon DEF Tip
  <2>6. RefundLegs(r[2]) \in [Accounts -> Int]
    <3> DEFINE share == IF x.total > x.fee THEN x.total - x.fee ELSE 0
    <3>1. -x.fee \in Int /\ share \in Int
      BY <2>2
    <3>2. (IF x.cod THEN -share ELSE x.fee) \in Int /\ (IF x.cod THEN -x.total ELSE 0) \in Int
      BY <2>2, <3>1
    <3> HIDE DEF share
    <3>3. Legs(Revenue, -x.fee, Payable(x.vendor), IF x.cod THEN -share ELSE x.fee,
               Clearing, IF x.cod THEN -x.total ELSE 0) \in [Accounts -> Int]
      BY <3>1, <3>2, LegsAreInts
    <3> QED  BY <3>3, Zenon DEF RefundLegs, share
  <2>7. CASE r[1] = "deliver" /\ x.cod
    BY <2>7, <2>3 DEF LegsOf, Kind, Id
  <2>8. CASE r[1] = "deliver" /\ ~x.cod
    BY <2>8, <2>4 DEF LegsOf, Kind, Id
  <2>9. CASE r[1] = "tip"
    BY <2>9, <2>5 DEF LegsOf, Kind, Id
  <2>10. CASE r[1] = "refund"
    BY <2>10, <2>6 DEF LegsOf, Kind, Id
  <2> QED  BY <1>1, <2>7, <2>8, <2>9, <2>10
<1>2. CASE r[1] = "confirm"
  <2>1. PaymentOf[r[2]].amount \in Int
    BY <1>2, ReqParts, AmountAssumption
  <2> QED  BY <1>2, <2>1 DEF LegsOf, Kind, Id, Credit, Legs
<1>3. CASE r[1] = "remit"
  <2>1. RemitOf[r[2]].amount \in Int
    BY <1>3, ReqParts, AmountAssumption
  <2> QED  BY <1>3, <2>1 DEF LegsOf, Kind, Id, Remittance, Legs
<1>4. CASE r[1] = "settle"
  <2>1. r[2] \in Settles /\ tx[w].line \in DOMAIN SettleOf[r[2]].lines
    BY <1>4, ReqParts, LineNumbers
  <2>2. /\ SettleOf[r[2]].lines[tx[w].line].amount \in Int
        /\ -SettleOf[r[2]].lines[tx[w].line].amount \in Int /\ 0 \in Int
    <3>1. SettleOf[r[2]].lines[tx[w].line].amount \in Int
      BY <2>1, LineIn, Zenon
    <3> QED  BY <3>1
  <2>3. SettlementLine(r[2], tx[w].line) \in [Accounts -> Int]
    BY <2>2, LegsAreInts DEF SettlementLine
  <2> QED  BY <1>4, <2>3 DEF LegsOf, Kind, Id
<1>5. CASE r[1] = "adjust"
  <2>1. AdjustOf[r[2]].change \in Int
    BY <1>5, ReqParts, AmountAssumption
  <2> QED  BY <1>5, <2>1 DEF LegsOf, Kind, Id, Adjustment, Legs
<1>6. CASE r[1] = "payout"
  <2>1. r[2] \in Statements /\ closing[r[2]] \in Int
    BY <1>6, ReqParts DEF TypeOK
  <2> QED  BY <1>6, <2>1 DEF LegsOf, Kind, Id, Payout, Legs
<1> QED  BY <1>1, <1>2, <1>3, <1>4, <1>5, <1>6, ReqParts DEF Marking, Claiming

\* A request that may not end without an entry has something to post.
LEMMA BookingHasLegs ==
  ASSUME TypeOK, NEW w \in Workers, tx[w].req \in Req, Booking(tx[w].req),
         tx[w].line \in 1 .. Lines(tx[w].req),
         tx[w].req[1] = "payout" => closing[tx[w].req[2]] > 0
  PROVE  Touched(LegsOf(w)) # {}
<1> DEFINE r == tx[w].req
<1>1. CASE r[1] = "deliver" /\ OrderOf[r[2]].cod
  <2>1. /\ r[2] \in Orders /\ OrderOf[r[2]].total > 0 /\ OrderOf[r[2]].total \in Int
        /\ DriverCash(OrderOf[r[2]].driver) \in Accounts
    BY <1>1, ReqParts, AmountAssumption DEF Accounts
  <2>2. LegsOf(w) = CodSettlement(r[2])
    BY <1>1 DEF LegsOf, Kind, Id
  <2>3. CodSettlement(r[2])[DriverCash(OrderOf[r[2]].driver)] = OrderOf[r[2]].total
    BY <2>1 DEF CodSettlement, Legs
  <2> QED  BY <2>1, <2>2, <2>3 DEF Touched
<1>2. CASE r[1] = "deliver" /\ ~OrderOf[r[2]].cod
  <2>1. /\ r[2] \in Orders /\ OrderOf[r[2]].fee > 0 /\ OrderOf[r[2]].fee \in Int
        /\ OrderOf[r[2]].cod \in BOOLEAN
    BY <1>2, ReqParts, AmountAssumption DEF Booking
  <2>2. Revenue \in Accounts /\ Revenue # Payable(OrderOf[r[2]].vendor)
    BY DEF Accounts, Revenue, Payable
  <2>3. LegsOf(w)[Revenue] = OrderOf[r[2]].fee
    BY <1>2, <2>1, <2>2 DEF LegsOf, Kind, Id, PrepaidSettlement, Legs
  <2> QED  BY <2>1, <2>2, <2>3 DEF Touched
<1>3. CASE r[1] = "tip"
  <2>1. r[2] \in Orders /\ OrderOf[r[2]].tip > 0 /\ OrderOf[r[2]].tip \in Int /\ Clearing \in Accounts
    BY <1>3, ReqParts, AmountAssumption DEF Accounts
  <2>2. LegsOf(w) = Tip(r[2])
    BY <1>3 DEF LegsOf, Kind, Id
  <2>3. Tip(r[2])[Clearing] = OrderOf[r[2]].tip
    BY <2>1 DEF Tip, Legs
  <2> QED  BY <2>1, <2>2, <2>3 DEF Touched
<1>4. CASE r[1] = "confirm"
  <2>1. PaymentOf[r[2]].amount > 0 /\ PaymentOf[r[2]].amount \in Int /\ Clearing \in Accounts
    BY <1>4, ReqParts, AmountAssumption DEF Accounts
  <2>2. LegsOf(w)[Clearing] = PaymentOf[r[2]].amount
    BY <1>4, <2>1 DEF LegsOf, Kind, Id, Credit, Legs
  <2> QED  BY <2>1, <2>2 DEF Touched
<1>5. CASE r[1] = "settle"
  <2>1. r[2] \in Settles /\ tx[w].line \in DOMAIN SettleOf[r[2]].lines
    BY <1>5, ReqParts, LineNumbers
  <2> DEFINE x == SettleOf[r[2]].lines[tx[w].line]
  <2>2. x.driver \in Drivers /\ x.amount \in Int /\ x.amount > 0
    BY <2>1, LineIn
  <2>3. DriverCash(x.driver) \in Accounts
    BY <2>2, CashIsAccount, Zenon
  <2>4. LegsOf(w) = SettlementLine(r[2], tx[w].line)
    BY <1>5 DEF LegsOf, Kind, Id
  <2>5. SettlementLine(r[2], tx[w].line)[DriverCash(x.driver)] = -x.amount
    BY <2>3 DEF SettlementLine, Legs
  <2>6. LegsOf(w)[DriverCash(x.driver)] # 0
    <3>1. -x.amount # 0
      BY <2>2
    <3> HIDE DEF x
    <3> QED  BY <2>4, <2>5, <3>1
  <2> QED  BY <2>3, <2>6 DEF Touched
<1>6. CASE r[1] = "refund"
  <2>1. /\ r[2] \in Orders /\ OrderOf[r[2]].total > 0 /\ OrderOf[r[2]].total \in Int
        /\ OrderOf[r[2]].fee \in Int /\ OrderOf[r[2]].cod \in BOOLEAN
        /\ ~OrderOf[r[2]].cod => OrderOf[r[2]].fee > 0
    BY <1>6, ReqParts, AmountAssumption DEF Booking
  <2>2. /\ Revenue \in Accounts /\ Clearing \in Accounts /\ Revenue # Clearing
        /\ Revenue # Payable(OrderOf[r[2]].vendor) /\ Clearing # Payable(OrderOf[r[2]].vendor)
    BY DEF Accounts, Revenue, Payable, Clearing
  <2>3. LegsOf(w) = RefundLegs(r[2])
    BY <1>6 DEF LegsOf, Kind, Id
  <2>4. RefundLegs(r[2])[Revenue] = -OrderOf[r[2]].fee
    BY <2>2 DEF RefundLegs, Legs
  <2>5. RefundLegs(r[2])[Clearing] = IF OrderOf[r[2]].cod THEN -OrderOf[r[2]].total ELSE 0
    BY <2>2 DEF RefundLegs, Legs
  <2>6. CASE OrderOf[r[2]].cod
    <3>1. RefundLegs(r[2])[Clearing] # 0
      BY <2>1, <2>5, <2>6
    <3> QED  BY <2>2, <2>3, <3>1 DEF Touched
  <2>7. CASE ~OrderOf[r[2]].cod
    <3>1. RefundLegs(r[2])[Revenue] # 0
      BY <2>1, <2>4, <2>7
    <3> QED  BY <2>2, <2>3, <3>1 DEF Touched
  <2> QED  BY <2>6, <2>7
<1>7. CASE r[1] = "payout"
  <2>1. closing[r[2]] \in Int /\ closing[r[2]] > 0 /\ Clearing \in Accounts
    BY <1>7, ReqParts DEF TypeOK, Accounts
  <2>2. LegsOf(w)[Clearing] = -closing[r[2]]
    BY <1>7, <2>1 DEF LegsOf, Kind, Id, Payout, Legs
  <2> QED  BY <2>1, <2>2 DEF Touched
<1> QED  BY <1>1, <1>2, <1>3, <1>4, <1>5, <1>6, <1>7 DEF Booking

----------------------------------------------------------------------------
(* Initially, and when nothing is committed *)

LEMMA IdleInv == Idle \in Transaction /\ TxInv(Idle)
<1>1. Flat \in [Accounts -> Int]
  BY DEF Flat
<1>2. Idle \in Transaction
  BY <1>1 DEF Idle, Transaction, Stages
<1>3. Running(Idle)
  BY DEF Idle, Running
<1>4. MadeInv(Idle)
  BY DEF Idle, MadeInv
<1>5. MarkInv(Idle) /\ ConfirmInv(Idle) /\ PayoutInv(Idle) /\ LegsInv(Idle)
  BY DEF Idle, NoReq, MarkInv, ConfirmInv, PayoutInv, LegsInv
<1> QED  BY <1>2, <1>3, <1>4, <1>5 DEF TxInv, Idle

LEMMA InitInv == Init => IInv
<1> SUFFICES ASSUME Init PROVE IInv
  OBVIOUS
<1>1. TypeOK
  <2>1. balance \in [Accounts -> Int]
    BY DEF Init, Flat
  <2>2. status \in [Rows -> Statuses]
    BY DEF Init, Statuses
  <2>3. asOf \in [Vendors -> [Months -> Int]] /\ closing \in [Statements -> Int]
    BY DEF Init
  <2>4. month \in Months
    BY MonthAssumption DEF Init, Months
  <2> QED  BY <2>1, <2>2, <2>3, <2>4, IdleInv DEF Init, TypeOK
<1>2. Exclusive
  BY DEF Init, Exclusive, Idle
<1>3. \A w \in Workers : TxInv(tx[w])
  BY IdleInv DEF Init
<1> QED  BY <1>1, <1>2, <1>3 DEF Init, IInv, CreditedIsPaid, AckedIsBooked, AllOrNothing, IsBooked

\* A transaction that is not touched keeps what it knows.
LEMMA Untouched ==
  ASSUME NEW q \in Workers, tx'[q] = tx[q], UNCHANGED <<status, books, closing>>, TxInv(tx[q])
  PROVE  TxInv(tx[q])'
<1>1. Running(tx[q])'
  BY DEF TxInv, Running
<1>2. MadeInv(tx[q])'
  <2>1. Posted(tx[q])' = Posted(tx[q])
    BY DEF Posted, Lines
  <2>2. \A i : KeyOf(tx[q].req, i)' = KeyOf(tx[q].req, i)
    BY DEF KeyOf
  <2>3. Booking(tx[q].req)' <=> Booking(tx[q].req)
    BY DEF Booking
  <2>4. \A e : Balanced(e.legs)' <=> Balanced(e.legs)
    OBVIOUS
  <2>5. \A k : IsBooked(k)' <=> IsBooked(k)
    BY DEF IsBooked
  <2> QED  BY <2>1, <2>2, <2>3, <2>4, <2>5 DEF TxInv, MadeInv
<1>3. MarkInv(tx[q])'
  BY DEF TxInv, MarkInv
<1>4. ConfirmInv(tx[q])' /\ PayoutInv(tx[q])' /\ LegsInv(tx[q])'
  BY DEF TxInv, ConfirmInv, PayoutInv, LegsInv
<1> QED  BY <1>1, <1>2, <1>3, <1>4 DEF TxInv

\* A statement that commits nothing: it is enough to look at its transaction.
LEMMA Quietly ==
  ASSUME IInv, NEW w \in Workers, UNCHANGED Rest, acked' \subseteq Payments,
         tx' \in [Workers -> Transaction],
         \A q \in Workers : q # w => tx'[q] = tx[q],
         NEW Got, \A x \in Got : Free(w, x), tx'[w].held \subseteq tx[w].held \union Got,
         TxInv(tx[w])', AckedIsBooked'
  PROVE  IInv'
<1>1. TypeOK'
  BY DEF IInv, TypeOK, Rest
<1>2. Exclusive'
  BY DEF IInv, Exclusive, Free
<1>3. \A q \in Workers : TxInv(tx[q])'
  BY Untouched DEF IInv, Rest
<1>4. CreditedIsPaid' /\ AllOrNothing'
  BY DEF IInv, CreditedIsPaid, AllOrNothing, IsBooked, Rest
<1> QED  BY <1>1, <1>2, <1>3, <1>4 DEF IInv

\* Whatever ends a transaction without a commit.
LEMMA Dropping ==
  ASSUME IInv, NEW w \in Workers, UNCHANGED Rest, Drop(w), acked' \subseteq Payments, AckedIsBooked'
  PROVE  IInv'
<1>1. tx' \in [Workers -> Transaction] /\ tx'[w] = Idle
  BY IdleInv DEF IInv, TypeOK, Drop
<1>2. \A q \in Workers : q # w => tx'[q] = tx[q]
  BY DEF IInv, TypeOK, Drop
<1>3. TypeOK'
  BY <1>1 DEF IInv, TypeOK, Rest
<1>4. Exclusive'
  BY <1>1, <1>2 DEF IInv, Exclusive, Idle
<1>5. TxInv(Idle)'
  BY IdleInv DEF TxInv, Running, MadeInv, MarkInv, ConfirmInv, PayoutInv, LegsInv, Idle, NoReq
<1>6. \A q \in Workers : TxInv(tx[q])'
  BY <1>1, <1>2, <1>5, Untouched DEF IInv, Rest
<1>7. CreditedIsPaid' /\ AllOrNothing'
  BY DEF IInv, CreditedIsPaid, AllOrNothing, IsBooked, Rest
<1> QED  BY <1>3, <1>4, <1>6, <1>7 DEF IInv

----------------------------------------------------------------------------
(* The statements of a transaction, one by one *)

\* A transaction that moves to another stage, and to nothing else.
LEMMA Going ==
  ASSUME TypeOK, NEW w \in Workers, NEW stage \in Stages, Goto(w, stage)
  PROVE  /\ tx' \in [Workers -> Transaction] /\ \A q \in Workers : q # w => tx'[q] = tx[q]
         /\ tx'[w] = [tx[w] EXCEPT !.at = stage] /\ tx[w] \in Transaction
<1>1. tx[w] \in Transaction /\ tx' = [tx EXCEPT ![w] = [tx[w] EXCEPT !.at = stage]]
  BY DEF TypeOK, Goto
<1>2. [tx[w] EXCEPT !.at = stage] \in Transaction
  BY <1>1 DEF Transaction
<1> QED  BY <1>1, <1>2 DEF TypeOK

\* A statement that locks nothing.
LEMMA Unlocked ==
  ASSUME IInv, NEW w \in Workers, UNCHANGED Rest, acked' \subseteq Payments,
         tx' \in [Workers -> Transaction],
         \A q \in Workers : q # w => tx'[q] = tx[q],
         tx'[w].held = tx[w].held, TxInv(tx[w])', AckedIsBooked'
  PROVE  IInv'
<1> DEFINE none == {}
<1>1. (\A x \in none : Free(w, x)) /\ tx'[w].held \subseteq tx[w].held \union none
  OBVIOUS
<1> HIDE DEF none
<1> QED  BY <1>1, Quietly

LEMMA BeginInv ==
  ASSUME IInv, NEW w \in Workers, NEW r \in Req, Begin(w, r)
  PROVE  IInv'
<1> DEFINE t == [Idle EXCEPT !.req = r, !.at = First(r), !.line = FirstLine(r)]
<1>1. r[1] \in Marking \union {"remit", "settle", "adjust"}
  BY ReqParts
<1>2. First(r) \in {"read", "claim", "hold", "post"}
  BY <1>1 DEF First, Marking, Claiming
<1>3. t \in Transaction
  <2>1. FirstLine(r) \in Nat
    BY LineNumbers
  <2> QED  BY <1>2, <2>1, IdleInv DEF Idle, Transaction, Stages
<1>4. /\ tx'[w] = t /\ tx' \in [Workers -> Transaction]
      /\ \A q \in Workers : q # w => tx'[q] = tx[q]
  BY <1>3 DEF Begin, IInv, TypeOK
<1>5. t.req = r /\ t.at = First(r) /\ t.line = FirstLine(r) /\ t.held = {} /\ t.made = {} /\ t.marks = {}
  BY DEF Idle
<1>6. Running(tx[w])'
  <2>1. /\ First(r) = "read" => r[1] \in {"refund", "payout"}
        /\ First(r) = "claim" => r[1] \in Claiming
        /\ First(r) = "hold" => r[1] \in {"remit", "settle"}
        /\ First(r) = "post" => r[1] = "adjust"
    BY <1>1 DEF First, Marking, Claiming
  <2>2. First(r) = "post" => FirstLine(r) > 0
    BY <2>1, LineNumbers
  <2>3. FirstLine(r) \in FirstLine(r) .. Lines(r)
    BY LineNumbers
  <2> QED  BY <1>2, <1>4, <1>5, <2>1, <2>2, <2>3 DEF Running
<1>7. MadeInv(tx[w])'
  <2>1. 1 .. Posted(t) = {}
    BY <1>2, <1>5, LineNumbers DEF Posted
  <2> QED  BY <1>4, <1>5, <2>1 DEF MadeInv
<1>8. MarkInv(tx[w])' /\ ConfirmInv(tx[w])' /\ LegsInv(tx[w])'
  <2>1. r[1] = "confirm" => First(r) = "claim"
    BY DEF First
  <2> QED  BY <1>2, <1>4, <1>5, <2>1 DEF MarkInv, ConfirmInv, LegsInv
<1>9. PayoutInv(tx[w])'
  <2>1. r[1] = "payout" => First(r) = "read" /\ status[<<"statement", r[2]>>] # "NONE"
    BY DEF First, Begin, Submittable
  <2> QED  BY <1>4, <1>5, <2>1 DEF PayoutInv, Begin, Rest
<1>10. TxInv(tx[w])'
  BY <1>2, <1>4, <1>5, <1>6, <1>7, <1>8, <1>9 DEF TxInv
<1>11. AckedIsBooked' /\ acked' \subseteq Payments /\ UNCHANGED Rest
  BY DEF Begin, Rest, IInv, AckedIsBooked, IsBooked, TypeOK
<1>12. Exclusive'
  BY <1>4, <1>5 DEF IInv, Exclusive
<1>13. TypeOK'
  BY <1>4, <1>11 DEF IInv, TypeOK, Rest
<1>14. \A q \in Workers : TxInv(tx[q])'
  BY <1>4, <1>10, <1>11, Untouched DEF IInv, Rest
<1> QED  BY <1>11, <1>12, <1>13, <1>14 DEF IInv, CreditedIsPaid, AllOrNothing, IsBooked, Rest

LEMMA ReadInv ==
  ASSUME IInv, NEW w \in Workers, Read(w)
  PROVE  IInv'
<1>1. UNCHANGED Rest /\ acked' = acked /\ At(w, "read")
  BY DEF Read
<1>2. acked' \subseteq Payments /\ AckedIsBooked'
  BY <1>1 DEF IInv, TypeOK, AckedIsBooked, IsBooked, Rest
<1>3. CASE Drop(w)
  BY <1>1, <1>2, <1>3, Dropping
<1>4. CASE Goto(w, "post") /\ (Kind(w) = "payout" => closing[Id(w)] > 0)
  <2> DEFINE t == tx[w]
  <2>1. /\ tx' \in [Workers -> Transaction] /\ \A q \in Workers : q # w => tx'[q] = tx[q]
        /\ tx'[w] = [t EXCEPT !.at = "post"]
    BY <1>4, Going DEF IInv, Stages
  <2>2. /\ t \in Transaction /\ t.at = "read" /\ t.req[1] \in {"refund", "payout"} /\ t.req \in Req
        /\ t.line \in FirstLine(t.req) .. Lines(t.req)
    BY <1>1 DEF IInv, TypeOK, TxInv, Running, At
  <2>3. t.line = 1 /\ Lines(t.req) = 1
    BY <2>2, LineNumbers
  <2>4. Running(tx[w])'
    BY <2>1, <2>2, <2>3, LineNumbers DEF Running, Transaction
  <2>5. MadeInv(tx[w])'
    <3>1. t.made = {}
      BY <2>2 DEF IInv, TxInv, MadeInv, Posted
    <3>2. 1 .. Posted(tx'[w]) = {}
      BY <2>1, <2>2, <2>3 DEF Posted, Transaction
    <3> QED  BY <2>1, <2>2, <3>1, <3>2 DEF MadeInv, Transaction
  <2>6. MarkInv(tx[w])' /\ ConfirmInv(tx[w])' /\ LegsInv(tx[w])' /\ PayoutInv(tx[w])'
    <3>1. t.marks = {}
      BY <2>2 DEF IInv, TxInv, MarkInv
    <3>2. t.held \intersect Accounts = {}
      BY <2>2 DEF IInv, TxInv, LegsInv
    <3>3. PayoutInv(t)
      BY DEF IInv, TxInv
    <3> QED  BY <1>1, <1>4, <2>1, <2>2, <3>1, <3>2, <3>3
             DEF MarkInv, ConfirmInv, LegsInv, PayoutInv, Transaction, Rest, Kind, Id
  <2>7. TxInv(tx[w])'
    BY <2>1, <2>2, <2>4, <2>5, <2>6 DEF TxInv, Transaction
  <2>8. tx'[w].held = tx[w].held
    BY <2>1, <2>2 DEF Transaction
  <2> QED  BY <1>1, <1>2, <2>1, <2>7, <2>8, Unlocked
<1> QED  BY <1>3, <1>4 DEF Read

\* A transaction that becomes another record.
LEMMA Becoming ==
  ASSUME TypeOK, NEW w \in Workers, NEW u \in Transaction, tx' = [tx EXCEPT ![w] = u]
  PROVE  /\ tx' \in [Workers -> Transaction] /\ tx'[w] = u
         /\ \A q \in Workers : q # w => tx'[q] = tx[q]
BY DEF TypeOK

\* What is known of a transaction that is about to claim its row.
LEMMA AtClaim ==
  ASSUME IInv, NEW w \in Workers, At(w, "claim")
  PROVE  LET t == tx[w]
         IN  /\ t \in Transaction /\ t.req \in Req /\ t.req[1] \in Claiming
             /\ t.line = 1 /\ Lines(t.req) = 1 /\ FirstLine(t.req) = 1
             /\ t.made = {} /\ t.marks = {} /\ t.held \intersect Accounts = {}
             /\ ClaimOf(t.req).row = RowOf(t.req) /\ ClaimOf(t.req).to = WordOf(t.req)
             /\ RowOf(t.req) \in Rows /\ WordOf(t.req) \in Statuses
             /\ LockOf(RowOf(t.req)) \in Rows
<1> DEFINE t == tx[w]
<1>1. /\ t \in Transaction /\ t.at = "claim" /\ TxInv(t)
  BY DEF IInv, TypeOK, At
<1>2. t.req \in Req /\ t.req[1] \in Claiming /\ t.line \in FirstLine(t.req) .. Lines(t.req)
  BY <1>1 DEF TxInv, Running
<1>3. t.req[1] # "settle" /\ t.req[1] # "remit" /\ t.req[1] \in Marking
  BY <1>2 DEF Claiming, Marking
<1>4. t.line = 1 /\ Lines(t.req) = 1 /\ FirstLine(t.req) = 1
  BY <1>2, <1>3, LineNumbers
<1>5. t.made = {} /\ t.marks = {} /\ t.held \intersect Accounts = {}
  BY <1>1, <1>3 DEF TxInv, MadeInv, MarkInv, LegsInv, Posted
<1> QED  BY <1>1, <1>2, <1>3, <1>4, <1>5, RowIn

LEMMA ClaimInv ==
  ASSUME IInv, NEW w \in Workers, Claim(w)
  PROVE  IInv'
<1> DEFINE t == tx[w]
           c == ClaimOf(t.req)
           m == [row |-> c.row, to |-> c.to]
           stage == IF t.req[1] \in {"withdraw", "decline"} THEN "end" ELSE "post"
           u == [t EXCEPT !.held = @ \union {LockOf(c.row)}, !.marks = {m}, !.at = stage]
<1>1. /\ At(w, "claim") /\ Free(w, LockOf(c.row)) /\ status[c.row] = c.from
      /\ tx' = [tx EXCEPT ![w] = u] /\ UNCHANGED Rest /\ acked' = acked
  BY DEF Claim, Kind
<1>2. /\ t \in Transaction /\ t.req \in Req /\ t.req[1] \in Claiming
      /\ t.line = 1 /\ Lines(t.req) = 1 /\ FirstLine(t.req) = 1
      /\ t.made = {} /\ t.marks = {} /\ t.held \intersect Accounts = {}
      /\ c.row = RowOf(t.req) /\ c.to = WordOf(t.req) /\ c.row \in Rows /\ c.to \in Statuses
      /\ LockOf(c.row) \in Rows
  BY <1>1, AtClaim
<1>3. u \in Transaction
  <2>1. m \in Mark /\ LockOf(c.row) \in Resources /\ stage \in Stages
    BY <1>2 DEF Mark, Resources, Stages
  <2> QED  BY <1>2, <2>1 DEF Transaction
<1>4. /\ tx' \in [Workers -> Transaction] /\ tx'[w] = u
      /\ \A q \in Workers : q # w => tx'[q] = tx[q]
  BY <1>1, <1>3, Becoming DEF IInv
<1>5. /\ u.req = t.req /\ u.at = stage /\ u.line = 1 /\ u.made = {} /\ u.marks = {m}
      /\ u.held = t.held \union {LockOf(c.row)}
  BY <1>2 DEF Transaction
<1> HIDE DEF u
<1>6. Running(tx[w])'
  BY <1>2, <1>4, <1>5 DEF Running, Claiming
<1>7. MadeInv(tx[w])'
  <2>1. CASE t.req[1] \in {"withdraw", "decline"}
    BY <1>4, <1>5, <2>1 DEF MadeInv, Booking
  <2>2. CASE t.req[1] \notin {"withdraw", "decline"}
    <3>1. Posted(u) = 0
      BY <1>5, <2>2 DEF Posted
    <3> QED  BY <1>4, <1>5, <3>1 DEF MadeInv
  <2> QED  BY <2>1, <2>2
<1>8. MarkInv(tx[w])'
  <2>1. /\ t.req[1] \in {"confirm", "withdraw"} => c.from = "PENDING"
        /\ t.req[1] = "decline" => c.from = "REQUESTED"
    BY DEF ClaimOf
  <2> QED  BY <1>1, <1>2, <1>4, <1>5, <2>1 DEF MarkInv, Marking, Claiming, Rest
<1>9. ConfirmInv(tx[w])'
  <2>1. t.req[1] = "confirm" => c.row = <<"pay", t.req[2]>> /\ c.to = "PAID"
    BY DEF ClaimOf
  <2> QED  BY <1>4, <1>5, <2>1 DEF ConfirmInv
<1>10. PayoutInv(tx[w])' /\ LegsInv(tx[w])'
  BY <1>2, <1>4, <1>5, Tags DEF PayoutInv, LegsInv, Claiming
<1>11. TxInv(tx[w])'
  BY <1>4, <1>5, <1>6, <1>7, <1>8, <1>9, <1>10 DEF TxInv
<1>12. acked' \subseteq Payments /\ AckedIsBooked'
  BY <1>1 DEF IInv, TypeOK, AckedIsBooked, IsBooked, Rest
<1> DEFINE Got == {LockOf(c.row)}
<1>13. (\A x \in Got : Free(w, x)) /\ tx'[w].held \subseteq tx[w].held \union Got
  BY <1>1, <1>4, <1>5
<1> HIDE DEF Got
<1> QED  BY <1>1, <1>4, <1>11, <1>12, <1>13, Quietly

LEMMA UnclaimedInv ==
  ASSUME IInv, NEW w \in Workers, Unclaimed(w)
  PROVE  IInv'
<1> DEFINE t == tx[w]
           c == ClaimOf(t.req)
           paid == t.req[1] = "confirm" /\ status[c.row] = "PAID"
<1>1. At(w, "claim") /\ UNCHANGED Rest
  BY DEF Unclaimed
<1>2. /\ t \in Transaction /\ t.req \in Req /\ t.req[1] \in Claiming
      /\ t.line = 1 /\ Lines(t.req) = 1 /\ FirstLine(t.req) = 1
      /\ t.made = {} /\ t.marks = {} /\ t.held \intersect Accounts = {}
  BY <1>1, AtClaim
<1>3. CASE paid /\ Goto(w, "post") /\ UNCHANGED acked
  <2>1. /\ tx' \in [Workers -> Transaction] /\ \A q \in Workers : q # w => tx'[q] = tx[q]
        /\ tx'[w] = [t EXCEPT !.at = "post"]
    BY <1>3, Going DEF IInv, Stages
  <2>2. /\ tx'[w].req = t.req /\ tx'[w].at = "post" /\ tx'[w].line = 1 /\ tx'[w].made = {}
        /\ tx'[w].marks = {} /\ tx'[w].held = t.held
    BY <1>2, <2>1 DEF Transaction
  <2>3. Running(tx[w])'
    BY <1>2, <1>3, <2>2 DEF Running, Claiming
  <2>4. MadeInv(tx[w])'
    <3>1. Posted(tx'[w]) = 0
      BY <2>2 DEF Posted
    <3> QED  BY <2>2, <3>1 DEF MadeInv
  <2>5. MarkInv(tx[w])' /\ PayoutInv(tx[w])' /\ LegsInv(tx[w])'
    BY <1>2, <1>3, <2>2 DEF MarkInv, PayoutInv, LegsInv
  <2>6. ConfirmInv(tx[w])'
    <3>1. c.row = <<"pay", t.req[2]>>
      BY <1>3 DEF ClaimOf
    <3> QED  BY <1>1, <1>3, <2>2, <3>1 DEF ConfirmInv, Rest
  <2>7. TxInv(tx[w])'
    BY <2>2, <2>3, <2>4, <2>5, <2>6 DEF TxInv
  <2>8. acked' \subseteq Payments /\ AckedIsBooked'
    BY <1>1, <1>3 DEF IInv, TypeOK, AckedIsBooked, IsBooked, Rest
  <2> QED  BY <1>1, <2>1, <2>2, <2>7, <2>8, Unlocked
<1>4. CASE Drop(w) /\ acked' = (IF paid THEN acked \union {t.req[2]} ELSE acked)
           /\ ~(paid /\ ~IsBooked(<<"credit", t.req[2]>>))
  <2>1. paid => t.req[2] \in Payments /\ IsBooked(<<"credit", t.req[2]>>)
    BY <1>2, <1>4, ReqParts
  <2>2. acked' \subseteq Payments /\ AckedIsBooked'
    BY <1>1, <1>4, <2>1 DEF IInv, TypeOK, AckedIsBooked, IsBooked, Rest
  <2> QED  BY <1>1, <1>4, <2>2, Dropping
<1> QED  BY <1>3, <1>4 DEF Unclaimed, Kind, Id

\* A statement that makes no entry, and ends no line.
LEMMA SameMade ==
  ASSUME NEW w \in Workers, MadeInv(tx[w]), UNCHANGED books, tx[w].at # "idle",
         tx'[w].made = tx[w].made, tx'[w].req = tx[w].req, tx[w].held \subseteq tx'[w].held,
         (1 .. Posted(tx[w]))' = 1 .. Posted(tx[w])
  PROVE  MadeInv(tx[w])'
<1>1. \A k : IsBooked(k)' <=> IsBooked(k)
  BY DEF IsBooked
<1>2. \A i : KeyOf(tx[w].req, i)' = KeyOf(tx[w].req, i)
  OBVIOUS
<1>3. \A e : Balanced(e.legs)' <=> Balanced(e.legs)
  OBVIOUS
<1>4. Booking(tx[w].req)' <=> Booking(tx[w].req)
  BY DEF Booking
<1>5. ASSUME NEW e \in tx'[w].made
      PROVE  /\ e.key \in tx'[w].held /\ e.key \in Keys /\ ~IsBooked(e.key)' /\ Balanced(e.legs)
             /\ \E i \in (1 .. Posted(tx[w]))' : e.key = KeyOf(tx'[w].req, i)
             /\ \A f \in tx'[w].made : f.key = e.key => f = e
  <2>1. e.key \in tx'[w].held /\ e.key \in Keys /\ Balanced(e.legs)
    BY DEF MadeInv
  <2>2. ~IsBooked(e.key)'
    BY <1>1 DEF MadeInv
  <2>3. \E i \in (1 .. Posted(tx[w]))' : e.key = KeyOf(tx'[w].req, i)
    <3>1. PICK i \in 1 .. Posted(tx[w]) : e.key = KeyOf(tx[w].req, i)
      BY DEF MadeInv
    <3>2. i \in (1 .. Posted(tx[w]))'
      BY <3>1, Zenon
    <3> QED  BY <3>1, <3>2
  <2>4. \A f \in tx'[w].made : f.key = e.key => f = e
    BY DEF MadeInv
  <2> QED  BY <2>1, <2>2, <2>3, <2>4
<1>6. Booking(tx'[w].req) =>
        \A i \in (1 .. Posted(tx[w]))' : \E e \in tx'[w].made : e.key = KeyOf(tx'[w].req, i)
  BY DEF MadeInv
<1> QED  BY <1>2, <1>3, <1>4, <1>5, <1>6 DEF MadeInv

LEMMA HoldInv ==
  ASSUME IInv, NEW w \in Workers, Hold(w)
  PROVE  IInv'
<1> DEFINE t == tx[w]
           a == HoldOf(t.req, t.line).acct
           line == IF t.line = 0 THEN 1 ELSE t.line
           stage == IF t.line = 0 THEN "hold" ELSE "post"
           u == [t EXCEPT !.held = @ \union {a}, !.view[a] = View(w, a),
                          !.line = line, !.at = stage]
<1>0. t \in Transaction /\ TxInv(t)
  BY DEF IInv, TypeOK
<1>a. t.at = "hold" /\ Free(w, a) /\ UNCHANGED Rest /\ acked' = acked
  BY DEF Hold, At
<1>b. tx' = [tx EXCEPT ![w] = u]
  BY DEF Hold
<1>1. /\ t \in Transaction /\ t.at = "hold" /\ Free(w, a) /\ UNCHANGED Rest /\ acked' = acked
      /\ tx' = [tx EXCEPT ![w] = u] /\ TxInv(t)
  BY <1>0, <1>a, <1>b
<1>2. /\ t.req \in Req /\ t.req[1] \in {"remit", "settle"} /\ t.line \in FirstLine(t.req) .. Lines(t.req)
  BY <1>1 DEF TxInv, Running
<1>3. a \in Accounts /\ line \in 1 .. Lines(t.req) /\ t.line \in Nat
  BY <1>2, HoldIn, LineNumbers
<1>4. View(w, a) \in Int
  BY <1>1, <1>3 DEF View, Transaction, IInv, TypeOK
<1>5. u \in Transaction
  <2>1. a \in Resources
    BY <1>3 DEF Resources
  <2>2. [t.view EXCEPT ![a] = View(w, a)] \in [Accounts -> Int]
    BY <1>1, <1>3, <1>4 DEF Transaction
  <2>3. line \in Nat /\ stage \in Stages
    BY <1>3 DEF Stages
  <2> HIDE DEF line, stage
  <2> QED  BY <1>1, <2>1, <2>2, <2>3 DEF Transaction
<1>6. /\ tx' \in [Workers -> Transaction] /\ tx'[w] = u
      /\ \A q \in Workers : q # w => tx'[q] = tx[q]
  BY <1>1, <1>5, Becoming DEF IInv
<1>7. /\ u.req = t.req /\ u.at = stage /\ u.line = line /\ u.made = t.made /\ u.marks = t.marks
      /\ u.held = t.held \union {a}
  BY <1>1 DEF Transaction
<1> HIDE DEF u
<1>8. Posted(u) = Posted(t) \/ (Posted(t) = -1 /\ Posted(u) = 0)
  BY <1>1, <1>3, <1>7 DEF Posted
<1>9. 1 .. Posted(u) = 1 .. Posted(t)
  <2>1. Posted(t) \in Int
    BY <1>1, <1>3 DEF Posted
  <2> QED  BY <1>8, <2>1
<1>10. Running(tx[w])'
  <2>1. line \in FirstLine(t.req) .. Lines(t.req) /\ line > 0 /\ stage \in {"hold", "post"}
    BY <1>2, <1>3, LineNumbers
  <2> HIDE DEF line, stage
  <2> QED  BY <1>2, <1>6, <1>7, <2>1 DEF Running
<1>11. MadeInv(tx[w])'
  <2>1. MadeInv(t) /\ UNCHANGED books /\ t.at # "idle"
    BY <1>1 DEF TxInv, Rest
  <2> QED  BY <1>6, <1>7, <1>9, <2>1, SameMade
<1>12. MarkInv(tx[w])' /\ ConfirmInv(tx[w])' /\ PayoutInv(tx[w])' /\ LegsInv(tx[w])'
  <2>1. t.marks = {}
    BY <1>1 DEF TxInv, MarkInv
  <2> QED  BY <1>2, <1>6, <1>7, <2>1 DEF MarkInv, ConfirmInv, PayoutInv, LegsInv
<1>13. TxInv(tx[w])'
  BY <1>6, <1>7, <1>10, <1>11, <1>12 DEF TxInv
<1>14. acked' \subseteq Payments /\ AckedIsBooked'
  BY <1>1 DEF IInv, TypeOK, AckedIsBooked, IsBooked, Rest
<1> DEFINE Got == {a}
<1>15. (\A x \in Got : Free(w, x)) /\ tx'[w].held \subseteq tx[w].held \union Got
  BY <1>1, <1>6, <1>7
<1> HIDE DEF Got
<1> QED  BY <1>1, <1>6, <1>13, <1>14, <1>15, Quietly

LEMMA ShortInv ==
  ASSUME IInv, NEW w \in Workers, Short(w) \/ Unbalanced(w) \/ Abort(w)
  PROVE  IInv'
<1>1. Drop(w) /\ UNCHANGED Rest /\ acked' = acked
  BY DEF Short, Unbalanced, Abort
<1>2. acked' \subseteq Payments /\ AckedIsBooked'
  BY <1>1 DEF IInv, TypeOK, AckedIsBooked, IsBooked, Rest
<1> QED  BY <1>1, <1>2, Dropping

LEMMA KeyLines ==
  ASSUME NEW r \in Req, NEW i \in 1 .. Lines(r), NEW j \in 1 .. Lines(r), KeyOf(r, i) = KeyOf(r, j)
  PROVE  i = j
<1>1. CASE r[1] = "settle"
  BY <1>1 DEF KeyOf
<1>2. CASE r[1] # "settle"
  <2>1. Lines(r) = 1
    BY <1>2, LineNumbers
  <2> QED  BY <2>1
<1> QED  BY <1>1, <1>2

\* What is known of a transaction that is about to post.
LEMMA AtPost ==
  ASSUME IInv, NEW w \in Workers, At(w, "post")
  PROVE  LET t == tx[w]
         IN  /\ t \in Transaction /\ TxInv(t) /\ t.at = "post" /\ t.req \in Req
             /\ t.req[1] \notin {"withdraw", "decline"}
             /\ t.line \in 1 .. Lines(t.req) /\ t.line \in Nat /\ FirstLine(t.req) \in {0, 1}
             /\ t.line \in FirstLine(t.req) .. Lines(t.req)
             /\ Posted(t) = t.line - 1
             /\ KeyOf(t.req, t.line) \in Keys /\ LegsOf(w) \in [Accounts -> Int]
             /\ Booking(t.req) => Touched(LegsOf(w)) # {}
<1> DEFINE t == tx[w]
<1>1. t \in Transaction /\ TxInv(t) /\ t.at = "post"
  BY DEF IInv, TypeOK, At
<1>2. /\ t.req \in Req /\ t.line \in FirstLine(t.req) .. Lines(t.req) /\ t.line > 0
      /\ t.req[1] \notin {"withdraw", "decline"}
  BY <1>1 DEF TxInv, Running
<1>3. t.line \in 1 .. Lines(t.req) /\ t.line \in Nat
  BY <1>2, LineNumbers
<1>4. t.req[1] = "payout" => closing[t.req[2]] > 0
  BY <1>1 DEF TxInv, PayoutInv
<1>5. TypeOK
  BY DEF IInv
<1>6. Posted(t) = t.line - 1
  BY <1>1 DEF Posted
<1> QED  BY <1>1, <1>2, <1>3, <1>4, <1>5, <1>6, KeyIn, LegsIn, BookingHasLegs, LineNumbers

LEMMA HeaderInv ==
  ASSUME IInv, NEW w \in Workers, Header(w)
  PROVE  IInv'
<1> DEFINE t == tx[w]
           key == KeyOf(t.req, t.line)
           legs == LegsOf(w)
           e == [key |-> key, legs |-> legs]
           u == [t EXCEPT !.held = @ \union {key}, !.made = @ \union {e},
                          !.todo = Touched(legs), !.at = "legs"]
<1>1. /\ At(w, "post") /\ Touched(legs) # {} /\ Balanced(legs) /\ Free(w, key) /\ ~IsBooked(key)
      /\ tx' = [tx EXCEPT ![w] = u] /\ UNCHANGED Rest /\ acked' = acked
  BY DEF Header
<1>2. /\ t \in Transaction /\ TxInv(t) /\ t.at = "post" /\ t.req \in Req
      /\ t.req[1] \notin {"withdraw", "decline"}
      /\ t.line \in 1 .. Lines(t.req) /\ t.line \in Nat
      /\ t.line \in FirstLine(t.req) .. Lines(t.req)
      /\ Posted(t) = t.line - 1 /\ key \in Keys /\ legs \in [Accounts -> Int]
  BY <1>1, AtPost
<1>3. u \in Transaction
  <2>1. e \in Entry /\ key \in Resources /\ Touched(legs) \subseteq Accounts
    BY <1>2 DEF Entry, Resources, Touched
  <2> HIDE DEF e, key, legs
  <2> QED  BY <1>2, <2>1 DEF Transaction, Stages
<1>4. /\ tx' \in [Workers -> Transaction] /\ tx'[w] = u
      /\ \A q \in Workers : q # w => tx'[q] = tx[q]
  BY <1>1, <1>3, Becoming DEF IInv
<1>5. /\ u.req = t.req /\ u.at = "legs" /\ u.line = t.line /\ u.made = t.made \union {e}
      /\ u.marks = t.marks /\ u.held = t.held \union {key} /\ u.todo = Touched(legs)
  BY <1>2 DEF Transaction
<1>6. e.key = key /\ e.legs = legs
  OBVIOUS
<1> HIDE DEF u, e, legs
<1>7. Running(tx[w])'
  BY <1>2, <1>4, <1>5 DEF Running
<1>8. MadeInv(tx[w])'
  <2>1. Posted(tx'[w]) = t.line
    BY <1>4, <1>5 DEF Posted
  <2>2. \A x \in t.made :
          /\ x.key \in t.held /\ x.key \in Keys /\ ~IsBooked(x.key) /\ Balanced(x.legs)
          /\ \E i \in 1 .. t.line - 1 : x.key = KeyOf(t.req, i)
          /\ \A f \in t.made : f.key = x.key => f = x
    BY <1>2 DEF TxInv, MadeInv
  <2>3. \A x \in t.made : x.key # key
    <3>1. SUFFICES ASSUME NEW x \in t.made, x.key = key PROVE FALSE
      OBVIOUS
    <3>2. PICK i \in 1 .. t.line - 1 : x.key = KeyOf(t.req, i)
      BY <2>2
    <3>3. i \in 1 .. Lines(t.req) /\ i # t.line
      BY <1>2, LineNumbers
    <3> QED  BY <1>2, <3>1, <3>2, <3>3, KeyLines
  <2>4. \A x \in u.made :
          /\ x.key \in u.held /\ x.key \in Keys /\ Balanced(x.legs)
          /\ \A f \in u.made : f.key = x.key => f = x
    BY <1>1, <1>2, <1>5, <1>6, <2>2, <2>3
  <2>5. \A x \in u.made : \E i \in 1 .. t.line : x.key = KeyOf(t.req, i)
    BY <1>2, <1>5, <1>6, <2>2
  <2>6. \A x \in u.made : ~IsBooked(x.key)'
    BY <1>1, <1>5, <1>6, <2>2 DEF IsBooked, Rest
  <2>7. Booking(t.req) => \A i \in 1 .. t.line : \E x \in u.made : x.key = KeyOf(t.req, i)
    <3>1. Booking(t.req) => \A i \in 1 .. t.line - 1 : \E x \in t.made : x.key = KeyOf(t.req, i)
      BY <1>2 DEF TxInv, MadeInv
    <3>2. \A i \in 1 .. t.line : i = t.line \/ i \in 1 .. t.line - 1
      BY <1>2
    <3> QED  BY <1>5, <1>6, <3>1, <3>2
  <2> QED  BY <1>4, <1>5, <2>1, <2>4, <2>5, <2>6, <2>7 DEF MadeInv
<1>9. MarkInv(tx[w])' /\ ConfirmInv(tx[w])' /\ PayoutInv(tx[w])'
  BY <1>1, <1>2, <1>4, <1>5 DEF TxInv, MarkInv, ConfirmInv, PayoutInv, Rest
<1>10. LegsInv(tx[w])'
  <2>1. key \notin Accounts
    BY <1>2, Tags
  <2>2. t.req[1] \notin {"remit", "settle"} => u.held \intersect Accounts = {}
    BY <1>2, <1>5, <2>1 DEF TxInv, LegsInv
  <2> QED  BY <1>4, <1>5, <2>2 DEF LegsInv
<1>11. TxInv(tx[w])'
  BY <1>1, <1>4, <1>5, <1>7, <1>8, <1>9, <1>10 DEF TxInv
<1>12. acked' \subseteq Payments /\ AckedIsBooked'
  BY <1>1 DEF IInv, TypeOK, AckedIsBooked, IsBooked, Rest
<1> DEFINE Got == {key}
<1>13. (\A x \in Got : Free(w, x)) /\ tx'[w].held \subseteq tx[w].held \union Got
  BY <1>1, <1>4, <1>5
<1> HIDE DEF Got
<1> QED  BY <1>1, <1>4, <1>11, <1>12, <1>13, Quietly

LEMMA ReplayInv ==
  ASSUME IInv, NEW w \in Workers, Replay(w)
  PROVE  IInv'
<1> DEFINE t == tx[w]
<1>1. /\ At(w, "post") /\ Drop(w) /\ UNCHANGED Rest /\ IsBooked(KeyOf(t.req, t.line))
      /\ acked' = IF t.req[1] = "confirm" THEN acked \union {t.req[2]} ELSE acked
  BY DEF Replay, Kind, Id
<1>2. t.req \in Req
  BY <1>1, AtPost
<1>3. t.req[1] = "confirm" => t.req[2] \in Payments /\ KeyOf(t.req, t.line) = <<"credit", t.req[2]>>
  BY <1>2, ReqParts DEF KeyOf
<1>4. acked' \subseteq Payments /\ AckedIsBooked'
  BY <1>1, <1>3 DEF IInv, TypeOK, AckedIsBooked, IsBooked, Rest
<1> QED  BY <1>1, <1>4, Dropping

LEMMA NoLegsInv ==
  ASSUME IInv, NEW w \in Workers, NoLegs(w)
  PROVE  IInv'
<1> DEFINE t == tx[w]
           stage == After(w)
<1>1. At(w, "post") /\ Touched(LegsOf(w)) = {} /\ Goto(w, stage) /\ UNCHANGED Rest /\ acked' = acked
  BY DEF NoLegs
<1>2. /\ t \in Transaction /\ TxInv(t) /\ t.at = "post" /\ t.req \in Req
      /\ t.req[1] \notin {"withdraw", "decline"} /\ t.line \in 1 .. Lines(t.req)
      /\ t.line \in FirstLine(t.req) .. Lines(t.req)
      /\ Posted(t) = t.line - 1 /\ ~Booking(t.req)
  BY <1>1, AtPost
<1>3. t.req[1] # "settle" /\ t.req[1] # "payout" /\ t.line = 1 /\ Lines(t.req) = 1
  BY <1>2, LineNumbers DEF Booking
<1>4. stage = IF t.req[1] = "refund" THEN "seal" ELSE "end"
  BY <1>3 DEF After, Kind
<1>5. /\ tx' \in [Workers -> Transaction] /\ \A q \in Workers : q # w => tx'[q] = tx[q]
      /\ tx'[w] = [t EXCEPT !.at = stage]
  <2>1. stage \in Stages
    BY <1>4 DEF Stages
  <2> HIDE DEF stage
  <2> QED  BY <1>1, <2>1, Going DEF IInv
<1>6. /\ tx'[w].req = t.req /\ tx'[w].at = stage /\ tx'[w].line = 1 /\ tx'[w].made = t.made
      /\ tx'[w].marks = t.marks /\ tx'[w].held = t.held
  BY <1>2, <1>3, <1>5 DEF Transaction
<1>7. stage \in {"seal", "end"} /\ (stage = "seal" => t.req[1] = "refund")
  BY <1>4
<1> HIDE DEF stage
<1>8. Running(tx[w])'
  BY <1>2, <1>3, <1>6, <1>7 DEF Running
<1>9. MadeInv(tx[w])'
  <2>1. t.made = {}
    BY <1>2, <1>3 DEF TxInv, MadeInv
  <2>2. ~Booking(tx'[w].req)
    BY <1>2, <1>6
  <2> QED  BY <1>2, <1>6, <2>1, <2>2 DEF MadeInv, Booking
<1>10. MarkInv(tx[w])' /\ ConfirmInv(tx[w])' /\ PayoutInv(tx[w])' /\ LegsInv(tx[w])'
  BY <1>1, <1>2, <1>3, <1>6, <1>7 DEF TxInv, MarkInv, ConfirmInv, PayoutInv, LegsInv, Rest
<1>11. TxInv(tx[w])'
  BY <1>6, <1>7, <1>8, <1>9, <1>10 DEF TxInv
<1>12. acked' \subseteq Payments /\ AckedIsBooked'
  BY <1>1 DEF IInv, TypeOK, AckedIsBooked, IsBooked, Rest
<1> QED  BY <1>1, <1>5, <1>6, <1>11, <1>12, Unlocked

\* The next leg is the lowest account that has not been written.
LEMMA Lowest ==
  ASSUME NEW w \in Workers, tx[w].todo \subseteq Accounts, tx[w].todo # {}
  PROVE  /\ NextLeg(w) \in tx[w].todo
         /\ \A b \in tx[w].todo : LockRank[NextLeg(w)] <= LockRank[b]
<1> DEFINE T == {LockRank[a] : a \in tx[w].todo}
           R == OpToRel(<, Nat)
<1>1. T \subseteq Nat /\ T # {}
  BY RankAssumption
<1>2. \E x \in T : \A y \in T : <<y, x>> \notin R
  <2>1. IsWellFoundedOn(R, Nat)
    BY NatLessThanWellFounded
  <2> HIDE DEF R, T
  <2> QED  BY <1>1, <2>1, WFMin
<1>3. \A x, y \in Nat : y < x => <<y, x>> \in R
  BY DEF OpToRel
<1>4. \E x \in T : \A y \in T : x <= y
  <2> HIDE DEF R, T
  <2>1. PICK x \in T : \A y \in T : <<y, x>> \notin R
    BY <1>2
  <2>2. \A y \in T : ~(y < x)
    BY <1>1, <1>3, <2>1
  <2>3. \A y \in T : x \in Nat /\ y \in Nat
    BY <1>1
  <2>4. \A y \in T : x <= y
    BY <2>2, <2>3
  <2> QED  BY <2>4
<1>5. \E a \in tx[w].todo : \A b \in tx[w].todo : LockRank[a] <= LockRank[b]
  BY <1>4
<1> QED  BY <1>5 DEF NextLeg

\* What writing a leg does to its transaction.
LEMMA LegStep ==
  ASSUME IInv, NEW w \in Workers, Leg(w)
  PROVE  LET t == tx[w]
             a == NextLeg(w)
             u == tx'[w]
             last == t.todo = {a}
         IN  /\ t \in Transaction /\ TxInv(t) /\ t.at = "legs" /\ t.req \in Req
             /\ t.req[1] \notin {"withdraw", "decline"} /\ t.todo \subseteq Accounts
             /\ t.line \in 1 .. Lines(t.req) /\ t.line \in Nat /\ Lines(t.req) \in Nat
             /\ t.line \in FirstLine(t.req) .. Lines(t.req)
             /\ a \in t.todo /\ a \in Accounts /\ \A b \in t.todo : LockRank[a] <= LockRank[b]
             /\ Free(w, a) /\ UNCHANGED Rest /\ acked' = acked
             /\ tx' \in [Workers -> Transaction] /\ \A q \in Workers : q # w => tx'[q] = tx[q]
             /\ u.req = t.req /\ u.made = t.made /\ u.marks = t.marks
             /\ u.held = t.held \union {a} /\ u.todo = t.todo \ {a}
             /\ u.view = [t.view EXCEPT ![a] = View(w, a) + LegsOf(w)[a]]
             /\ u.line \in FirstLine(t.req) .. Lines(t.req) /\ u.line > 0
             /\ \/ /\ ~last /\ u.at = "legs" /\ u.line = t.line
                \/ /\ last /\ u.at = "hold" /\ t.req[1] = "settle"
                   /\ t.line < Lines(t.req) /\ u.line = t.line + 1
                \/ /\ last /\ u.at = "seal" /\ t.req[1] \in {"refund", "payout"}
                   /\ u.line = t.line /\ t.line = Lines(t.req)
                \/ /\ last /\ u.at = "end" /\ t.req[1] \notin {"refund", "payout"}
                   /\ u.line = t.line /\ t.line = Lines(t.req)
<1> DEFINE t == tx[w]
           a == NextLeg(w)
           last == t.todo = {a}
           sum == View(w, a) + LegsOf(w)[a]
           stamp == IF a[1] = "VENDOR_PAYABLE" THEN month ELSE t.stamp
           line == IF last THEN NextLine(w) ELSE t.line
           stage == IF last THEN After(w) ELSE t.at
           u == [t EXCEPT !.held = @ \union {a}, !.view[a] = sum, !.todo = @ \ {a},
                          !.stamp = stamp, !.line = line, !.at = stage]
<1>0. t \in Transaction /\ TxInv(t) /\ TypeOK
  BY DEF IInv, TypeOK
<1>a. t.at = "legs" /\ Free(w, a) /\ UNCHANGED Rest /\ acked' = acked
  BY DEF Leg, At
<1>b. tx' = [tx EXCEPT ![w] = u]
  BY ZenonT(60) DEF Leg
<1>1. /\ t.at = "legs" /\ Free(w, a) /\ tx' = [tx EXCEPT ![w] = u] /\ UNCHANGED Rest /\ acked' = acked
      /\ t \in Transaction /\ TxInv(t) /\ TypeOK
  BY <1>0, <1>a, <1>b
<1>2. /\ t.req \in Req /\ t.line \in FirstLine(t.req) .. Lines(t.req) /\ t.line > 0
      /\ t.req[1] \notin {"withdraw", "decline"} /\ t.todo # {} /\ t.todo \subseteq Accounts
  BY <1>1 DEF TxInv, Running, Transaction
<1>3. /\ t.line \in 1 .. Lines(t.req) /\ t.line \in Nat /\ Lines(t.req) \in Nat
      /\ t.req[1] # "settle" => t.line = 1 /\ Lines(t.req) = 1
      /\ FirstLine(t.req) \in {0, 1}
  BY <1>2, LineNumbers
<1>4. a \in t.todo /\ a \in Accounts /\ \A b \in t.todo : LockRank[a] <= LockRank[b]
  BY <1>2, Lowest
<1>5. sum \in Int /\ stamp \in Nat
  <2>1. LegsOf(w)[a] \in Int
    BY <1>1, <1>2, <1>3, <1>4, LegsIn
  <2>2. View(w, a) \in Int
    BY <1>1, <1>4 DEF View, Transaction, TypeOK
  <2>3. month \in Nat /\ t.stamp \in Nat
    BY <1>1, MonthAssumption DEF TypeOK, Months, Transaction
  <2> QED  BY <2>1, <2>2, <2>3
\* The line and the stage after this leg.
<1>6. \/ /\ ~last /\ stage = "legs" /\ line = t.line
      \/ /\ last /\ stage = "hold" /\ t.req[1] = "settle"
         /\ t.line < Lines(t.req) /\ line = t.line + 1
      \/ /\ last /\ stage = "seal" /\ t.req[1] \in {"refund", "payout"}
         /\ line = t.line /\ t.line = Lines(t.req)
      \/ /\ last /\ stage = "end" /\ t.req[1] \notin {"refund", "payout"}
         /\ line = t.line /\ t.line = Lines(t.req)
  <2>1. CASE ~last
    BY <1>1, <2>1
  <2>2. CASE last /\ t.req[1] = "settle" /\ t.line < Lines(t.req)
    BY <2>2 DEF After, NextLine, Kind
  <2>3. CASE last /\ t.req[1] = "settle" /\ ~(t.line < Lines(t.req))
    BY <1>3, <2>3 DEF After, NextLine, Kind
  <2>4. CASE last /\ t.req[1] # "settle"
    BY <1>3, <2>4 DEF After, NextLine, Kind
  <2> QED  BY <2>1, <2>2, <2>3, <2>4
<1>7. line \in Nat /\ stage \in Stages /\ line \in FirstLine(t.req) .. Lines(t.req) /\ line > 0
  <2> HIDE DEF line, stage, last
  <2> QED  BY <1>2, <1>3, <1>6 DEF Stages
<1> HIDE DEF sum, stamp, line, stage
<1>8. u \in Transaction
  <2>1. a \in Resources
    BY <1>4 DEF Resources
  <2>2. [t.view EXCEPT ![a] = sum] \in [Accounts -> Int]
    BY <1>1, <1>4, <1>5 DEF Transaction
  <2> QED  BY <1>1, <1>5, <1>7, <2>1, <2>2 DEF Transaction
<1>9. /\ tx' \in [Workers -> Transaction] /\ tx'[w] = u
      /\ \A q \in Workers : q # w => tx'[q] = tx[q]
  BY <1>1, <1>8, Becoming
<1>10. /\ u.req = t.req /\ u.at = stage /\ u.line = line /\ u.made = t.made /\ u.marks = t.marks
       /\ u.held = t.held \union {a} /\ u.todo = t.todo \ {a}
       /\ u.view = [t.view EXCEPT ![a] = sum]
  BY <1>1 DEF Transaction
<1> HIDE DEF u
<1> QED  BY <1>1, <1>2, <1>3, <1>4, <1>6, <1>7, <1>9, <1>10 DEF sum

LEMMA LegInv ==
  ASSUME IInv, NEW w \in Workers, Leg(w)
  PROVE  IInv'
<1> DEFINE t == tx[w]
           a == NextLeg(w)
           u == tx'[w]
           last == t.todo = {a}
<1>1. /\ t.at = "legs" /\ Free(w, a) /\ UNCHANGED Rest /\ acked' = acked
      /\ t \in Transaction /\ TxInv(t) /\ TypeOK
  BY LegStep DEF IInv
<1>2. /\ t.req \in Req /\ t.req[1] \notin {"withdraw", "decline"} /\ t.todo \subseteq Accounts
      /\ t.line \in 1 .. Lines(t.req) /\ t.line \in Nat /\ Lines(t.req) \in Nat
      /\ a \in t.todo /\ a \in Accounts /\ \A b \in t.todo : LockRank[a] <= LockRank[b]
  BY LegStep
<1>3. /\ tx' \in [Workers -> Transaction] /\ \A q \in Workers : q # w => tx'[q] = tx[q]
      /\ u.req = t.req /\ u.made = t.made /\ u.marks = t.marks
      /\ u.held = t.held \union {a} /\ u.todo = t.todo \ {a}
      /\ u.line \in FirstLine(t.req) .. Lines(t.req) /\ u.line > 0
  BY LegStep
<1>4. \/ /\ ~last /\ u.at = "legs" /\ u.line = t.line
      \/ /\ last /\ u.at = "hold" /\ t.req[1] = "settle"
         /\ t.line < Lines(t.req) /\ u.line = t.line + 1
      \/ /\ last /\ u.at = "seal" /\ t.req[1] \in {"refund", "payout"}
         /\ u.line = t.line /\ t.line = Lines(t.req)
      \/ /\ last /\ u.at = "end" /\ t.req[1] \notin {"refund", "payout"}
         /\ u.line = t.line /\ t.line = Lines(t.req)
  BY LegStep
<1>5. Running(tx[w])'
  <2>1. /\ u.at \in {"legs", "hold", "seal", "end"}
        /\ u.at = "hold" => t.req[1] = "settle"
        /\ u.at = "seal" => t.req[1] \in {"refund", "payout"}
    BY <1>4
  <2> QED  BY <1>2, <1>3, <2>1 DEF Running
<1>6. MadeInv(tx[w])'
  <2>1. Posted(tx'[w]) = t.line /\ Posted(t) = t.line
    BY <1>1, <1>2, <1>3, <1>4 DEF Posted
  <2> QED  BY <1>1, <1>3, <2>1, SameMade DEF TxInv, Rest
<1>7. MarkInv(tx[w])'
  <2>1. \A m \in t.marks : u.at \in {"legs", "end"}
    BY <1>1, <1>4 DEF TxInv, MarkInv, Marking, Claiming
  <2>2. t.req[1] \in {"refund", "payout"} => t.marks = {}
    BY <1>1 DEF TxInv, MarkInv
  <2> QED  BY <1>1, <1>3, <2>1, <2>2 DEF TxInv, MarkInv, Rest
<1>8. ConfirmInv(tx[w])' /\ PayoutInv(tx[w])'
  BY <1>1, <1>3 DEF TxInv, ConfirmInv, PayoutInv, Rest
<1>9. LegsInv(tx[w])'
  <2>1. u.at \notin {"read", "claim", "post"}
    BY <1>4
  <2>2. ASSUME u.at = "legs", t.req[1] \notin {"remit", "settle"},
               NEW x \in u.held \intersect Accounts, NEW b \in u.todo
        PROVE  LockRank[x] < LockRank[b]
    <3>1. CASE x = a
      <4>1. b \in t.todo /\ b # a /\ b \in Accounts
        BY <1>2, <1>3
      <4>2. LockRank[a] \in Nat /\ LockRank[b] \in Nat /\ LockRank[a] # LockRank[b]
        BY <1>2, <4>1, RankAssumption
      <4> QED  BY <1>2, <3>1, <4>1, <4>2
    <3>2. CASE x # a
      BY <1>1, <1>3, <2>2, <3>2 DEF TxInv, LegsInv
    <3> QED  BY <3>1, <3>2
  <2> QED  BY <1>3, <2>1, <2>2 DEF LegsInv
<1>10. TxInv(tx[w])'
  <2>1. u.at = "legs" => u.todo # {}
    BY <1>2, <1>3, <1>4
  <2> QED  BY <1>3, <1>5, <1>6, <1>7, <1>8, <1>9, <2>1 DEF TxInv
<1>11. acked' \subseteq Payments /\ AckedIsBooked'
  BY <1>1 DEF IInv, TypeOK, AckedIsBooked, IsBooked, Rest
<1> DEFINE Got == {a}
<1>12. (\A x \in Got : Free(w, x)) /\ tx'[w].held \subseteq tx[w].held \union Got
  BY <1>1, <1>3
<1> HIDE DEF Got
<1> QED  BY <1>1, <1>3, <1>10, <1>11, <1>12, Quietly

LEMMA SealInv ==
  ASSUME IInv, NEW w \in Workers, Seal(w)
  PROVE  IInv'
<1> DEFINE t == tx[w]
           refund == t.req[1] = "refund"
           row == IF refund THEN <<"refund", t.req[2]>> ELSE <<"statement", t.req[2]>>
           to == IF refund THEN "PROCESSED" ELSE "PAID"
           m == [row |-> row, to |-> to]
           stage == IF refund THEN "stamp" ELSE "end"
           u == [t EXCEPT !.held = @ \union {row}, !.marks = @ \union {m}, !.at = stage]
<1>1. /\ t.at = "seal" /\ Free(w, row) /\ UNCHANGED Rest /\ acked' = acked
      /\ t \in Transaction /\ TxInv(t) /\ TypeOK
  BY DEF Seal, At, Kind, Id, IInv, TypeOK
<1>2. acked' \subseteq Payments /\ AckedIsBooked'
  BY <1>1 DEF IInv, TypeOK, AckedIsBooked, IsBooked, Rest
<1>3. CASE Drop(w)
  BY <1>1, <1>2, <1>3, Dropping
<1>4. CASE tx' = [tx EXCEPT ![w] = u]
  <2>1. t.req \in Req /\ t.req[1] \in {"refund", "payout"} /\ t.line \in FirstLine(t.req) .. Lines(t.req)
    BY <1>1 DEF TxInv, Running
  <2>2. /\ row = RowOf(t.req) /\ to = WordOf(t.req) /\ LockOf(row) = row
        /\ row \in Rows /\ to \in Statuses
    <3>1. row = RowOf(t.req) /\ to = WordOf(t.req) /\ LockOf(row) = row
      BY <2>1 DEF RowOf, WordOf, LockOf
    <3> QED  BY <2>1, <3>1, RowIn DEF Marking
  <2>3. /\ stage \in {"stamp", "end"} /\ (stage = "stamp" => t.req[1] = "refund")
    OBVIOUS
  <2>4. m.row = row /\ m.to = to /\ m \in Mark
    BY <2>2 DEF Mark
  <2> HIDE DEF row, to, stage, refund
  <2>5. u \in Transaction
    <3>1. row \in Resources /\ stage \in Stages
      BY <2>2, <2>3 DEF Resources, Stages
    <3> HIDE DEF m
    <3> QED  BY <1>1, <2>4, <3>1 DEF Transaction
  <2>6. /\ tx' \in [Workers -> Transaction] /\ tx'[w] = u
        /\ \A q \in Workers : q # w => tx'[q] = tx[q]
    BY <1>1, <1>4, <2>5, Becoming
  <2>7. /\ u.req = t.req /\ u.at = stage /\ u.line = t.line /\ u.made = t.made
        /\ u.marks = t.marks \union {m} /\ u.held = t.held \union {row}
    BY <1>1 DEF Transaction
  <2>8. t.marks = {}
    BY <1>1, <2>1 DEF TxInv, MarkInv
  <2> HIDE DEF u
  <2>9. Running(tx[w])'
    BY <2>1, <2>3, <2>6, <2>7 DEF Running
  <2>10. MadeInv(tx[w])'
    <3>1. Posted(tx'[w]) = Posted(t)
      BY <1>1, <2>3, <2>6, <2>7 DEF Posted
    <3> QED  BY <1>1, <2>6, <2>7, <3>1, SameMade DEF TxInv, Rest
  <2>11. MarkInv(tx[w])'
    <3>1. u.marks = {m} /\ t.req[1] \in Marking
      BY <2>1, <2>7, <2>8 DEF Marking
    <3> QED  BY <2>1, <2>2, <2>3, <2>6, <2>7, <3>1 DEF MarkInv
  <2>12. ConfirmInv(tx[w])' /\ PayoutInv(tx[w])' /\ LegsInv(tx[w])'
    BY <1>1, <2>1, <2>3, <2>6, <2>7 DEF TxInv, ConfirmInv, PayoutInv, LegsInv, Rest
  <2>13. TxInv(tx[w])'
    BY <2>3, <2>6, <2>7, <2>9, <2>10, <2>11, <2>12 DEF TxInv
  <2> DEFINE Got == {row}
  <2>14. (\A x \in Got : Free(w, x)) /\ tx'[w].held \subseteq tx[w].held \union Got
    BY <1>1, <2>6, <2>7
  <2> HIDE DEF Got
  <2> QED  BY <1>1, <1>2, <2>6, <2>13, <2>14, Quietly
<1> QED  BY <1>3, <1>4 DEF Seal, Kind, Id

LEMMA StampInv ==
  ASSUME IInv, NEW w \in Workers, Stamp(w)
  PROVE  IInv'
<1> DEFINE t == tx[w]
           order == <<"order", t.req[2]>>
           m == [row |-> <<"refunded", t.req[2]>>, to |-> "SET"]
           u == [t EXCEPT !.held = @ \union {order}, !.marks = @ \union {m}, !.at = "end"]
<1>1. /\ t.at = "stamp" /\ Free(w, order) /\ UNCHANGED Rest /\ acked' = acked
      /\ tx' = [tx EXCEPT ![w] = u] /\ t \in Transaction /\ TxInv(t) /\ TypeOK
  BY DEF Stamp, At, Id, IInv, TypeOK
<1>2. acked' \subseteq Payments /\ AckedIsBooked'
  BY <1>1 DEF IInv, TypeOK, AckedIsBooked, IsBooked, Rest
<1>3. /\ t.req \in Req /\ t.req[1] = "refund" /\ t.line \in FirstLine(t.req) .. Lines(t.req)
      /\ t.req[2] \in Orders
  BY <1>1, ReqParts DEF TxInv, Running
<1>4. m.row = <<"refunded", t.req[2]>> /\ LockOf(m.row) = order /\ order \in Rows /\ m \in Mark
  BY <1>3 DEF LockOf, Rows, Mark, Statuses
<1> HIDE DEF order
<1>5. u \in Transaction
  <2>1. order \in Resources
    BY <1>4 DEF Resources
  <2> HIDE DEF m
  <2> QED  BY <1>1, <1>4, <2>1 DEF Transaction, Stages
<1>6. /\ tx' \in [Workers -> Transaction] /\ tx'[w] = u
      /\ \A q \in Workers : q # w => tx'[q] = tx[q]
  BY <1>1, <1>5, Becoming
<1>7. /\ u.req = t.req /\ u.at = "end" /\ u.line = t.line /\ u.made = t.made
      /\ u.marks = t.marks \union {m} /\ u.held = t.held \union {order}
  BY <1>1 DEF Transaction
<1> HIDE DEF u
<1>8. Running(tx[w])'
  BY <1>3, <1>6, <1>7 DEF Running
<1>9. MadeInv(tx[w])'
  <2>1. Posted(tx'[w]) = Posted(t)
    BY <1>1, <1>6, <1>7 DEF Posted
  <2> QED  BY <1>1, <1>6, <1>7, <2>1, SameMade DEF TxInv, Rest
<1>10. MarkInv(tx[w])'
  <2>1. MarkInv(t)
    BY <1>1 DEF TxInv
  <2> QED  BY <1>1, <1>3, <1>4, <1>6, <1>7, <2>1 DEF MarkInv, Marking, Rest
<1>11. ConfirmInv(tx[w])' /\ PayoutInv(tx[w])' /\ LegsInv(tx[w])'
  BY <1>1, <1>3, <1>6, <1>7 DEF TxInv, ConfirmInv, PayoutInv, LegsInv, Rest
<1>12. TxInv(tx[w])'
  BY <1>6, <1>7, <1>8, <1>9, <1>10, <1>11 DEF TxInv
<1> DEFINE Got == {order}
<1>13. (\A x \in Got : Free(w, x)) /\ tx'[w].held \subseteq tx[w].held \union Got
  BY <1>1, <1>6, <1>7
<1> HIDE DEF Got
<1> QED  BY <1>1, <1>2, <1>6, <1>12, <1>13, Quietly

----------------------------------------------------------------------------
(* Rows created by a single statement *)

\* A row that comes into being disturbs no transaction.
LEMMA Created ==
  ASSUME IInv, NEW row \in Rows, status[row] = "NONE", NEW s \in Statuses, s # "NONE",
         status' = [status EXCEPT ![row] = s], UNCHANGED <<balance, books, asOf, month, acked, tx>>,
         closing' \in [Statements -> Int],
         \A x \in Statements : status[<<"statement", x>>] # "NONE" => closing'[x] = closing[x]
  PROVE  IInv'
<1>1. TypeOK'
  BY DEF IInv, TypeOK
<1>2. Exclusive'
  BY DEF IInv, Exclusive
<1>3. ASSUME NEW q \in Workers
      PROVE  TxInv(tx[q])'
  <2>1. TxInv(tx[q]) /\ status \in [Rows -> Statuses] /\ tx[q] \in Transaction
    BY DEF IInv, TypeOK
  <2>2. \A k \in Rows : status[k] # "NONE" => status'[k] = status[k]
    BY <2>1
  <2>3. Running(tx[q])' /\ LegsInv(tx[q])'
    BY <2>1 DEF TxInv, Running, LegsInv
  <2>4. MadeInv(tx[q])'
    <3>1. \A k : IsBooked(k)' <=> IsBooked(k)
      BY DEF IsBooked
    <3> QED  BY <2>1, <3>1 DEF TxInv, MadeInv
  <2>5. MarkInv(tx[q])'
    <3>1. \A m \in tx[q].marks : m.row \in Rows
      BY <2>1 DEF Transaction, Mark
    <3> QED  BY <2>1, <2>2, <3>1 DEF TxInv, MarkInv
  <2>6. ConfirmInv(tx[q])' /\ PayoutInv(tx[q])'
    <3>1. tx[q].req[1] = "confirm" /\ tx[q].at # "idle" => <<"pay", tx[q].req[2]>> \in Rows
      BY <2>1, ReqParts DEF TxInv, Running, Rows
    <3>2. tx[q].req[1] = "payout" /\ tx[q].at # "idle" =>
            <<"statement", tx[q].req[2]>> \in Rows /\ tx[q].req[2] \in Statements
      BY <2>1, ReqParts DEF TxInv, Running, Rows
    <3>3. status[<<"pay", tx[q].req[2]>>] = "PAID" /\ <<"pay", tx[q].req[2]>> \in Rows =>
            status'[<<"pay", tx[q].req[2]>>] = "PAID"
      BY <2>2
    <3>4. tx[q].at = "idle" => tx[q].req = NoReq
      BY <2>1 DEF TxInv, Running
    <3>5. ConfirmInv(tx[q])'
      BY <2>1, <3>1, <3>3, <3>4 DEF TxInv, ConfirmInv, NoReq
    <3>6. PayoutInv(tx[q])'
      BY <2>1, <2>2, <3>2, <3>4 DEF TxInv, PayoutInv, NoReq
    <3> QED  BY <3>5, <3>6
  <2> QED  BY <2>1, <2>3, <2>4, <2>5, <2>6 DEF TxInv
<1>4. CreditedIsPaid'
  <2>1. \A x \in Payments : <<"pay", x>> \in Rows
    BY DEF Rows
  <2>2. \A x \in Payments : status[<<"pay", x>>] = "PAID" => status'[<<"pay", x>>] = "PAID"
    BY <2>1 DEF IInv, TypeOK
  <2> QED  BY <2>2 DEF IInv, CreditedIsPaid, IsBooked
<1>5. AckedIsBooked' /\ AllOrNothing'
  BY DEF IInv, AckedIsBooked, AllOrNothing, IsBooked
<1> QED  BY <1>1, <1>2, <1>3, <1>4, <1>5 DEF IInv

LEMMA CreatePaymentInv ==
  ASSUME IInv, NEW x \in Payments, CreatePayment(x)
  PROVE  IInv'
<1>1. <<"pay", x>> \in Rows /\ "PENDING" \in Statuses /\ closing \in [Statements -> Int]
  BY DEF Rows, Statuses, IInv, TypeOK
<1> QED  BY <1>1, Created DEF CreatePayment

LEMMA RequestRefundInv ==
  ASSUME IInv, NEW o \in Orders, RequestRefund(o)
  PROVE  IInv'
<1>1. <<"refund", o>> \in Rows /\ "REQUESTED" \in Statuses /\ closing \in [Statements -> Int]
  BY DEF Rows, Statuses, IInv, TypeOK
<1> QED  BY <1>1, Created DEF RequestRefund

LEMMA GenerateStatementInv ==
  ASSUME IInv, NEW v \in Vendors, GenerateStatement(v)
  PROVE  IInv'
<1> DEFINE s == <<v, month - 1>>
<1>1. s \in Statements /\ month - 1 \in Months
  BY MonthAssumption DEF GenerateStatement, IInv, TypeOK, Months, Statements
<1>2. <<"statement", s>> \in Rows /\ "FINAL" \in Statuses
  BY <1>1 DEF Rows, Statuses
<1>3. asOf[v][month - 1] \in Int
  BY <1>1 DEF IInv, TypeOK
<1>4. /\ status[<<"statement", s>>] = "NONE" /\ status' = [status EXCEPT ![<<"statement", s>>] = "FINAL"]
      /\ closing' = [closing EXCEPT ![s] = asOf[v][month - 1]]
      /\ UNCHANGED <<balance, books, asOf, month, acked, tx>>
  BY DEF GenerateStatement
<1>5. closing \in [Statements -> Int]
  BY DEF IInv, TypeOK
<1> HIDE DEF s
<1>6. /\ closing' \in [Statements -> Int]
      /\ \A x \in Statements : status[<<"statement", x>>] # "NONE" => closing'[x] = closing[x]
  BY <1>1, <1>3, <1>4, <1>5
<1> QED  BY <1>2, <1>4, <1>6, Created

LEMMA TickInv ==
  ASSUME IInv, Tick
  PROVE  IInv'
<1>1. TypeOK'
  BY MonthAssumption DEF Tick, IInv, TypeOK, Months
<1>2. \A q \in Workers : TxInv(tx[q])'
  BY Untouched DEF Tick, IInv
<1> QED  BY <1>1, <1>2 DEF Tick, IInv, Exclusive, CreditedIsPaid, AckedIsBooked, AllOrNothing, IsBooked

----------------------------------------------------------------------------
(* The commit *)

\* Only a confirmation books under the key of a payment, only a settlement under
\* the key of a line.
LEMMA KeyOwner ==
  ASSUME NEW r \in Req, NEW i
  PROVE  /\ \A x : KeyOf(r, i) = <<"credit", x>> => r[1] = "confirm" /\ r[2] = x
         /\ \A s, j : KeyOf(r, i) = <<"line", <<s, j>>>> => r[1] = "settle" /\ r[2] = s
<1>1. /\ KeyOf(r, i)[1] = "credit" => r[1] = "confirm"
      /\ KeyOf(r, i)[1] = "line" => r[1] = "settle"
  <2>1. CASE r[1] \in {"deliver", "confirm", "refund", "settle"}
    BY <2>1 DEF KeyOf
  <2>2. CASE r[1] \notin {"deliver", "confirm", "refund", "settle"}
    <3>1. KeyOf(r, i) = r /\ r[1] # "credit" /\ r[1] # "line"
      BY <2>2, ReqParts DEF KeyOf, Marking, Claiming
    <3> QED  BY <2>2, <3>1
  <2> QED  BY <2>1, <2>2
<1>2. r[1] = "confirm" => KeyOf(r, i) = <<"credit", r[2]>>
  BY DEF KeyOf
<1>3. r[1] = "settle" => KeyOf(r, i) = <<"line", <<r[2], i>>>>
  BY DEF KeyOf
<1> QED  BY <1>1, <1>2, <1>3

\* What a commit writes to a row, and what it may overwrite.
LEMMA Writes ==
  ASSUME IInv, NEW w \in Workers, At(w, "end"), NEW row \in Marked(w)
  PROVE  LET t == tx[w]
         IN  /\ t.req \in Req /\ row \in Rows /\ LockOf(row) \in t.held
             /\ t.req[1] \in Marking
             /\ \/ row = RowOf(t.req) /\ MarkOf(w, row) = WordOf(t.req)
                \/ t.req[1] = "refund" /\ row = <<"refunded", t.req[2]>> /\ MarkOf(w, row) = "SET"
             /\ t.req[1] \in {"confirm", "withdraw"} => status[row] = "PENDING"
             /\ t.req[1] = "decline" => status[row] = "REQUESTED"
             /\ MarkOf(w, row) \in Statuses \ {"NONE"}
<1> DEFINE t == tx[w]
           m == CHOOSE x \in t.marks : x.row = row
<1>1. t \in Transaction /\ TxInv(t) /\ t.at = "end"
  BY DEF IInv, TypeOK, At
<1>2. m \in t.marks /\ m.row = row /\ MarkOf(w, row) = m.to
  <2>1. \E x \in t.marks : x.row = row
    BY DEF Marked
  <2> QED  BY <2>1 DEF MarkOf
<1> HIDE DEF m
<1>3. t.req \in Req /\ m.row \in Rows /\ m.to \in Statuses
  BY <1>1, <1>2 DEF TxInv, Running, Transaction, Mark
<1>4. /\ t.req[1] \in Marking /\ LockOf(m.row) \in t.held
      /\ \/ m = [row |-> RowOf(t.req), to |-> WordOf(t.req)]
         \/ t.req[1] = "refund" /\ m = [row |-> <<"refunded", t.req[2]>>, to |-> "SET"]
      /\ t.req[1] \in {"confirm", "withdraw"} => status[m.row] = "PENDING"
      /\ t.req[1] = "decline" => status[m.row] = "REQUESTED"
  BY <1>1, <1>2 DEF TxInv, MarkInv
<1>5. WordOf(t.req) # "NONE"
  BY <1>4 DEF WordOf, Marking, Claiming
<1>6. m.to \in Statuses \ {"NONE"}
  BY <1>3, <1>4, <1>5
<1> QED  BY <1>2, <1>3, <1>4, <1>6

\* A payment that is PAID is not written again.
LEMMA PaidStays ==
  ASSUME IInv, NEW w \in Workers, Commit(w), NEW x \in Payments, status[<<"pay", x>>] = "PAID"
  PROVE  status'[<<"pay", x>>] = "PAID"
<1> DEFINE row == <<"pay", x>>
<1>1. row \in Rows /\ At(w, "end")
  BY DEF Rows, Commit
<1>2. row \notin Marked(w)
  <2>1. SUFFICES ASSUME row \in Marked(w) PROVE FALSE
    OBVIOUS
  <2>2. tx[w].req \in Req /\ tx[w].req[1] \in Marking /\ (row = RowOf(tx[w].req) \/ row = <<"refunded", tx[w].req[2]>>)
    BY <1>1, <2>1, Writes
  <2>3. tx[w].req[1] \in {"confirm", "withdraw"}
    BY <2>2 DEF RowOf, Marking, Claiming
  <2>4. status[row] = "PENDING"
    BY <1>1, <2>1, <2>3, Writes
  <2> QED  BY <2>4
<1> QED  BY <1>1, <1>2 DEF Commit

LEMMA CommitTypes ==
  ASSUME IInv, NEW w \in Workers, Commit(w)
  PROVE  TypeOK' /\ tx'[w] = Idle /\ \A q \in Workers : q # w => tx'[q] = tx[q]
<1> DEFINE t == tx[w]
<1>1. t \in Transaction /\ TypeOK /\ TxInv(t) /\ t.at = "end" /\ At(w, "end")
  BY DEF Commit, IInv, TypeOK, At
<1>2. tx' \in [Workers -> Transaction] /\ tx'[w] = Idle /\ \A q \in Workers : q # w => tx'[q] = tx[q]
  BY <1>1, IdleInv DEF Commit, Drop, TypeOK
<1>3. balance' \in [Accounts -> Int]
  <2>1. \A a \in Accounts : View(w, a) \in Int
    BY <1>1 DEF View, Transaction, TypeOK
  <2> QED  BY <2>1 DEF Commit
<1>4. books' \subseteq Entry
  BY <1>1 DEF Commit, TypeOK, Transaction
<1>5. status' \in [Rows -> Statuses]
  <2>1. \A row \in Marked(w) : MarkOf(w, row) \in Statuses
    BY <1>1, Writes
  <2>2. \A row \in Rows : status[row] \in Statuses
    BY <1>1 DEF TypeOK
  <2> QED  BY <2>1, <2>2 DEF Commit
<1>6. asOf' \in [Vendors -> [Months -> Int]]
  <2>1. \A v \in Vendors, k \in Months : asOf[v][k] \in Int /\ asOf[v] \in [Months -> Int]
    BY <1>1 DEF TypeOK
  <2>2. \A v \in Vendors : t.view[Payable(v)] \in Int
    BY <1>1 DEF Transaction, Accounts
  <2> DEFINE row(v) == [m \in Months |-> IF m < t.stamp THEN asOf[v][m] ELSE t.view[Payable(v)]]
  <2>3. asOf' = [v \in Vendors |-> IF Payable(v) \in t.held THEN row(v) ELSE asOf[v]]
    BY DEF Commit
  <2>4. \A v \in Vendors : row(v) \in [Months -> Int]
    BY <2>1, <2>2
  <2>5. \A v \in Vendors : (IF Payable(v) \in t.held THEN row(v) ELSE asOf[v]) \in [Months -> Int]
    BY <1>1, <2>4 DEF TypeOK
  <2> HIDE DEF row
  <2> QED  BY <2>3, <2>5
<1>7. acked' \subseteq Payments
  <2>1. Kind(w) = "confirm" => Id(w) \in Payments
    BY <1>1, ReqParts DEF TxInv, Running, Kind, Id
  <2> QED  BY <1>1, <2>1 DEF Commit, TypeOK
<1> QED  BY <1>1, <1>2, <1>3, <1>4, <1>5, <1>6, <1>7 DEF TypeOK, Commit

\* A commit writes nothing another transaction has locked.
LEMMA CommitOthers ==
  ASSUME IInv, NEW w \in Workers, Commit(w), NEW q \in Workers, q # w
  PROVE  TxInv(tx[q])'
<1> DEFINE t == tx[q]
<1>1. /\ TxInv(t) /\ t \in Transaction /\ tx'[q] = t /\ At(w, "end")
      /\ t.held \intersect tx[w].held = {}
  BY CommitTypes DEF IInv, TypeOK, Exclusive, Commit
<1>2. \A row \in Rows : LockOf(row) \in t.held => status'[row] = status[row]
  <2>1. \A row \in Rows : LockOf(row) \in t.held => row \notin Marked(w)
    BY <1>1, Writes
  <2> QED  BY <2>1 DEF Commit
<1>3. \A row \in Rows : status[row] # "NONE" => status'[row] # "NONE"
  <2>1. \A row \in Marked(w) : MarkOf(w, row) # "NONE"
    BY <1>1, Writes
  <2> QED  BY <2>1 DEF Commit
<1>4. Running(tx[q])' /\ LegsInv(tx[q])'
  BY <1>1 DEF TxInv, Running, LegsInv
<1>5. MadeInv(tx[q])'
  <2>1. \A e \in t.made : ~IsBooked(e.key)'
    <3>1. \A e \in t.made : e.key \in t.held /\ ~IsBooked(e.key)
      BY <1>1 DEF TxInv, MadeInv
    <3>2. \A e \in tx[w].made : e.key \in tx[w].held
      BY DEF IInv, TxInv, MadeInv
    <3> QED  BY <1>1, <3>1, <3>2 DEF IsBooked, Commit
  <2>2. Posted(t)' = Posted(t)
    BY <1>1 DEF Posted, Lines
  <2>3. /\ \A e \in t.made :
             /\ e.key \in t.held /\ e.key \in Keys /\ Balanced(e.legs)
             /\ \E i \in 1 .. Posted(t) : e.key = KeyOf(t.req, i)
             /\ \A f \in t.made : f.key = e.key => f = e
        /\ t.at # "idle" /\ Booking(t.req) =>
             \A i \in 1 .. Posted(t) : \E e \in t.made : e.key = KeyOf(t.req, i)
    BY <1>1 DEF TxInv, MadeInv
  <2> QED  BY <1>1, <2>1, <2>2, <2>3 DEF MadeInv
<1>6. MarkInv(tx[q])'
  <2>1. \A m \in t.marks : m.row \in Rows
    BY <1>1 DEF Transaction, Mark
  <2> QED  BY <1>1, <1>2, <2>1 DEF TxInv, MarkInv
<1>7. ConfirmInv(tx[q])'
  <2>1. CASE t.req[1] = "confirm" /\ t.at # "claim"
    <3>1. t.req[2] \in Payments
      BY <1>1, <2>1, ReqParts DEF TxInv, Running, NoReq
    <3>2. status[<<"pay", t.req[2]>>] = "PAID" => status'[<<"pay", t.req[2]>>] = "PAID"
      BY <3>1, PaidStays
    <3> QED  BY <1>1, <3>2 DEF TxInv, ConfirmInv
  <2>2. CASE ~(t.req[1] = "confirm" /\ t.at # "claim")
    BY <1>1, <2>2 DEF ConfirmInv
  <2> QED  BY <2>1, <2>2
<1>8. PayoutInv(tx[q])'
  <2>1. CASE t.req[1] = "payout"
    <3>1. <<"statement", t.req[2]>> \in Rows
      BY <1>1, <2>1, ReqParts DEF TxInv, Running, NoReq, Rows
    <3> QED  BY <1>1, <1>3, <2>1, <3>1 DEF TxInv, PayoutInv, Commit
  <2>2. CASE t.req[1] # "payout"
    BY <1>1, <2>2 DEF PayoutInv
  <2> QED  BY <2>1, <2>2
<1> QED  BY <1>1, <1>4, <1>5, <1>6, <1>7, <1>8 DEF TxInv

LEMMA CommitInv ==
  ASSUME IInv, NEW w \in Workers, Commit(w)
  PROVE  IInv'
<1> DEFINE t == tx[w]
<1>1. /\ TypeOK' /\ tx'[w] = Idle /\ \A q \in Workers : q # w => tx'[q] = tx[q]
      /\ books' = books \union t.made /\ At(w, "end")
  BY CommitTypes DEF Commit
<1>2. t \in Transaction /\ TxInv(t) /\ t.at = "end" /\ t.req \in Req /\ Posted(t) = Lines(t.req)
  BY <1>1 DEF IInv, TypeOK, TxInv, Running, At, Posted
<1>3. /\ \A e \in t.made : \E i \in 1 .. Lines(t.req) : e.key = KeyOf(t.req, i)
      /\ Booking(t.req) => \A i \in 1 .. Lines(t.req) : \E e \in t.made : e.key = KeyOf(t.req, i)
  BY <1>2 DEF TxInv, MadeInv
<1>4. \A k : IsBooked(k)' <=> IsBooked(k) \/ \E e \in t.made : e.key = k
  BY <1>1 DEF IsBooked
<1>5. Exclusive'
  BY <1>1 DEF IInv, Exclusive, Idle
<1>6. \A q \in Workers : TxInv(tx[q])'
  <2>1. TxInv(tx[w])'
    BY <1>1, IdleInv DEF TxInv, Running, MadeInv, MarkInv, ConfirmInv, PayoutInv, LegsInv, Idle, NoReq
  <2> QED  BY <2>1, CommitOthers
<1>7. t.req[1] = "confirm" => /\ t.req[2] \in Payments
                              /\ status'[<<"pay", t.req[2]>>] = "PAID"
  <2>1. SUFFICES ASSUME t.req[1] = "confirm"
                 PROVE  t.req[2] \in Payments /\ status'[<<"pay", t.req[2]>>] = "PAID"
    OBVIOUS
  <2> DEFINE row == <<"pay", t.req[2]>>
  <2>2. t.req[2] \in Payments /\ row \in Rows
    BY <1>2, <2>1, ReqParts DEF Rows
  <2>3. CASE row \in Marked(w)
    <3>1. MarkOf(w, row) = "PAID"
      BY <1>1, <2>1, <2>3, Writes DEF WordOf
    <3> QED  BY <2>2, <2>3, <3>1 DEF Commit
  <2>4. CASE row \notin Marked(w)
    <3>1. status[row] = "PAID"
      BY <1>2, <2>1, <2>4 DEF TxInv, ConfirmInv, Marked
    <3> QED  BY <2>2, <3>1, PaidStays
  <2> QED  BY <2>2, <2>3, <2>4
<1>8. CreditedIsPaid'
  <2>1. SUFFICES ASSUME NEW x \in Payments, IsBooked(<<"credit", x>>)' PROVE status'[<<"pay", x>>] = "PAID"
    BY DEF CreditedIsPaid
  <2>2. CASE IsBooked(<<"credit", x>>)
    BY <2>2, PaidStays DEF IInv, CreditedIsPaid
  <2>3. CASE \E e \in t.made : e.key = <<"credit", x>>
    <3>1. PICK i \in 1 .. Lines(t.req) : KeyOf(t.req, i) = <<"credit", x>>
      BY <1>3, <2>3
    <3>2. t.req[1] = "confirm" /\ t.req[2] = x
      BY <1>2, <3>1, KeyOwner
    <3> QED  BY <1>7, <3>2
  <2> QED  BY <1>4, <2>1, <2>2, <2>3
<1>9. AckedIsBooked'
  <2>1. SUFFICES ASSUME NEW x \in acked' PROVE IsBooked(<<"credit", x>>)'
    BY DEF AckedIsBooked
  <2>2. CASE x \in acked
    BY <1>4, <2>2 DEF IInv, AckedIsBooked
  <2>3. CASE t.req[1] = "confirm" /\ x = t.req[2]
    <3>1. Booking(t.req) /\ 1 \in 1 .. Lines(t.req) /\ KeyOf(t.req, 1) = <<"credit", x>>
      BY <1>2, <2>3, LineNumbers DEF Booking, KeyOf
    <3> QED  BY <1>3, <1>4, <3>1
  <2> QED  BY <2>1, <2>2, <2>3 DEF Commit, Kind, Id
<1>10. AllOrNothing'
  <2>1. SUFFICES ASSUME NEW s \in Settles, NEW i \in DOMAIN SettleOf[s].lines,
                        NEW j \in DOMAIN SettleOf[s].lines, IsBooked(<<"line", <<s, i>>>>)'
                 PROVE  IsBooked(<<"line", <<s, j>>>>)'
    BY DEF AllOrNothing
  <2>2. CASE IsBooked(<<"line", <<s, i>>>>)
    BY <1>4, <2>2 DEF IInv, AllOrNothing
  <2>3. CASE \E e \in t.made : e.key = <<"line", <<s, i>>>>
    <3>1. PICK k \in 1 .. Lines(t.req) : KeyOf(t.req, k) = <<"line", <<s, i>>>>
      BY <1>3, <2>3
    <3>2. t.req[1] = "settle" /\ t.req[2] = s
      BY <1>2, <3>1, KeyOwner
    <3>3. j \in 1 .. Lines(t.req) /\ Booking(t.req) /\ KeyOf(t.req, j) = <<"line", <<s, j>>>>
      BY <1>2, <3>2, LineNumbers DEF Booking, KeyOf
    <3> QED  BY <1>3, <1>4, <3>3
  <2> QED  BY <1>4, <2>1, <2>2, <2>3
<1> QED  BY <1>1, <1>5, <1>6, <1>8, <1>9, <1>10 DEF IInv

----------------------------------------------------------------------------
(* The theorems *)

LEMMA StepInv == IInv /\ [Next]_vars => IInv'
<1> SUFFICES ASSUME IInv, [Next]_vars PROVE IInv'
  OBVIOUS
<1>1. CASE UNCHANGED vars
  <2>1. \A q \in Workers : TxInv(tx[q])'
    BY <1>1, Untouched DEF vars, IInv
  <2> QED  BY <1>1, <2>1 DEF vars, IInv, TypeOK, Exclusive, CreditedIsPaid, AckedIsBooked,
                             AllOrNothing, IsBooked
<1>2. CASE \E x \in Payments : CreatePayment(x)
  BY <1>2, CreatePaymentInv
<1>3. CASE \E o \in Orders : RequestRefund(o)
  BY <1>3, RequestRefundInv
<1>4. CASE Tick
  BY <1>4, TickInv
<1>5. CASE \E v \in Vendors : GenerateStatement(v)
  BY <1>5, GenerateStatementInv
<1>6. ASSUME NEW w \in Workers, Step(w)
      PROVE  IInv'
  <2>1. CASE \E r \in Req : Begin(w, r)
    BY <2>1, BeginInv
  <2>2. CASE Read(w) \/ Claim(w) \/ Unclaimed(w)
    BY <2>2, ReadInv, ClaimInv, UnclaimedInv
  <2>3. CASE Hold(w) \/ Short(w) \/ Unbalanced(w) \/ Abort(w)
    BY <2>3, HoldInv, ShortInv
  <2>4. CASE Header(w) \/ NoLegs(w) \/ Replay(w) \/ Leg(w)
    BY <2>4, HeaderInv, NoLegsInv, ReplayInv, LegInv
  <2>5. CASE Seal(w) \/ Stamp(w) \/ Commit(w)
    BY <2>5, SealInv, StampInv, CommitInv
  <2> QED  BY <1>6, <2>1, <2>2, <2>3, <2>4, <2>5 DEF Step
<1> QED  BY <1>1, <1>2, <1>3, <1>4, <1>5, <1>6 DEF Next

THEOREM WalletInvariant == Spec => []IInv
BY InitInv, StepInv, PTL DEF Spec

\* The variables of the model keep their types.
THEOREM WalletTypes == Spec => []TypeOK
<1>1. IInv => TypeOK
  BY DEF IInv
<1> QED  BY <1>1, WalletInvariant, PTL

\* A confirmation that was answered ok has its entry (confirmTopUp,
\* confirmFleetDeposit and their repair branch).
THEOREM ConfirmationsAreBooked == Spec => []AckedIsBooked
<1>1. IInv => AckedIsBooked
  BY DEF IInv
<1> QED  BY <1>1, WalletInvariant, PTL

\* A payment that was withdrawn or refused is never credited (cancelTopUp,
\* cancelFleetDeposit, rejectFleetDeposit against a late confirmation).
THEOREM WithdrawalsStand == Spec => []WithdrawnNotCredited
<1>1. IInv => WithdrawnNotCredited
  BY DEF IInv, CreditedIsPaid, WithdrawnNotCredited
<1> QED  BY <1>1, WalletInvariant, PTL

\* The lines of a settlement are in the books together (settleDriverCash).
THEOREM SettlementsAreWhole == Spec => []AllOrNothing
<1>1. IInv => AllOrNothing
  BY DEF IInv
<1> QED  BY <1>1, WalletInvariant, PTL

\* Two transactions that write legs never wait for each other, unless one of
\* them took an account with a guard (postLedgerTransaction: legs in accountId
\* order).
THEOREM LegsDoNotDeadlock == Spec => []PostingsDoNotDeadlock
<1>1. IInv => PostingsDoNotDeadlock
  <2>1. SUFFICES ASSUME IInv, NEW p \in Workers, NEW q \in Workers, At(p, "legs"), At(q, "legs"),
                        WaitsFor(p, q), WaitsFor(q, p),
                        Kind(p) \notin {"remit", "settle"}, Kind(q) \notin {"remit", "settle"}
                 PROVE  FALSE
    BY DEF PostingsDoNotDeadlock
  <2>2. /\ tx[p].todo \subseteq Accounts /\ tx[p].todo # {} /\ tx[q].todo \subseteq Accounts /\ tx[q].todo # {}
        /\ LegsInv(tx[p]) /\ LegsInv(tx[q]) /\ tx[p].at = "legs" /\ tx[q].at = "legs"
    BY <2>1 DEF IInv, TypeOK, Transaction, TxInv, At
  <2>3. NextLeg(p) \in tx[p].todo /\ NextLeg(q) \in tx[q].todo
    BY <2>2, Lowest
  <2>4. NextLeg(p) \in tx[q].held /\ NextLeg(q) \in tx[p].held
    BY <2>1 DEF WaitsFor, Needs, At
  <2>5. /\ LockRank[NextLeg(p)] < LockRank[NextLeg(q)]
        /\ LockRank[NextLeg(q)] < LockRank[NextLeg(p)]
    BY <2>1, <2>2, <2>3, <2>4 DEF LegsInv, Kind
  <2>6. LockRank[NextLeg(p)] \in Nat /\ LockRank[NextLeg(q)] \in Nat
    BY <2>2, <2>3, RankAssumption
  <2> QED  BY <2>5, <2>6
<1> QED  BY <1>1, WalletInvariant, PTL

----------------------------------------------------------------------------
(* Wallet implements Ledger *)

Paying == {"deliver", "tip", "confirm", "refund", "payout"}

\* The row of a request that pays is settled by the entry under its key.
LEMMA DueOf ==
  ASSUME NEW r \in Req, r[1] \in Marking, RowOf(r) \in Dues
  PROVE  /\ r[1] \in Paying <=> WordOf(r) = PaidWord[RowOf(r)[1]]
         /\ r[1] \in Paying => Booking(r) /\ Lines(r) = 1 /\ KeyOf(r, 1) = DueKey(RowOf(r))
<1>1. CASE r[1] = "deliver"
  <2>1. r[2] \in Orders /\ OrderOf[r[2]].cod \in BOOLEAN
    BY <1>1, ReqParts, AmountAssumption
  <2> QED  BY <1>1, <2>1 DEF RowOf, WordOf, PaidWord, Paying, Booking, Lines, KeyOf, DueKey, Dues
<1>2. CASE r[1] = "refund"
  <2>1. RowOf(r) = <<"refund", r[2]>> /\ (OrderOf[r[2]].cod \/ OrderOf[r[2]].fee > 0)
    BY <1>2 DEF RowOf, Dues
  <2> QED  BY <1>2, <2>1 DEF WordOf, PaidWord, Paying, Booking, Lines, KeyOf, DueKey
<1>3. CASE r[1] \in {"tip", "confirm"}
  <2>1. r = <<r[1], r[2]>>
    BY <1>3, ReqParts
  <2>2. CASE r[1] = "tip"
    BY <2>1, <2>2 DEF RowOf, WordOf, PaidWord, Paying, Booking, Lines, KeyOf, DueKey
  <2>3. CASE r[1] = "confirm"
    BY <2>3 DEF RowOf, WordOf, PaidWord, Paying, Booking, Lines, KeyOf, DueKey
  <2> QED  BY <1>3, <2>2, <2>3
<1>4. CASE r[1] = "payout"
  <2>1. r = <<"payout", r[2]>>
    BY <1>4, ReqParts
  <2> QED  BY <1>4, <2>1 DEF RowOf, WordOf, PaidWord, Paying, Booking, Lines, KeyOf, DueKey
<1>5. CASE r[1] \in {"withdraw", "decline"}
  BY <1>5 DEF RowOf, WordOf, PaidWord, Paying
<1> QED  BY <1>1, <1>2, <1>3, <1>4, <1>5 DEF Marking, Claiming

\* A row is created with a word that does not say "paid".
LEMMA CreatedUnsettled ==
  ASSUME TypeOK, NEW row \in Rows, status[row] = "NONE", NEW s \in {"PENDING", "REQUESTED", "FINAL"},
         status' = [status EXCEPT ![row] = s], UNCHANGED books
  PROVE  UNCHANGED <<books, Settled>>
<1>1. \A o \in Dues : o \in Rows /\ PaidWord[o[1]] \notin {"NONE", "PENDING", "REQUESTED", "FINAL"}
  BY DEF Dues, PaidWord
<1>2. \A o \in Dues : (status'[o] = PaidWord[o[1]]) <=> (status[o] = PaidWord[o[1]])
  BY <1>1 DEF TypeOK
<1> QED  BY <1>2 DEF Settled

\* A commit adds entries under new keys, and settles only what they pay.
LEMMA CommitBooks ==
  ASSUME IInv, NEW w \in Workers, Commit(w)
  PROVE  L!Book
<1> DEFINE t == tx[w]
<1>1. /\ TxInv(t) /\ t.req \in Req /\ t.at = "end" /\ Posted(t) = Lines(t.req) /\ At(w, "end")
      /\ books' = books \union t.made
  BY DEF IInv, TypeOK, TxInv, Running, Commit, At, Posted
<1>2. books \subseteq books'
  BY <1>1
<1>3. ASSUME NEW e \in books' \ books
      PROVE  e.key \in Keys /\ Balanced(e.legs) /\ \A f \in books' : f.key = e.key => f = e
  <2>1. e \in t.made /\ MadeInv(t)
    BY <1>1, <1>3 DEF TxInv
  <2>2. /\ e.key \in Keys /\ Balanced(e.legs) /\ ~IsBooked(e.key)
        /\ \A f \in t.made : f.key = e.key => f = e
    BY <2>1 DEF MadeInv
  <2> QED  BY <1>1, <2>2 DEF IsBooked
<1>4. ASSUME NEW o \in Dues
      PROVE  IF Settled[o] THEN Settled'[o] ELSE Settled'[o] => \E e \in books' : e.key = DueKey(o)
  <2>1. o \in Rows /\ o[1] \in DOMAIN PaidWord
    BY DEF Dues
  <2>2. Settled[o] = (status[o] = PaidWord[o[1]]) /\ Settled'[o] = (status'[o] = PaidWord[o[1]])
    BY DEF Settled
  <2>3. CASE o \notin Marked(w)
    BY <2>1, <2>2, <2>3 DEF Commit
  <2>4. CASE o \in Marked(w)
    <3>1. /\ t.req[1] \in Marking
          /\ \/ o = RowOf(t.req) /\ MarkOf(w, o) = WordOf(t.req)
             \/ o = <<"refunded", t.req[2]>>
          /\ t.req[1] \in {"confirm", "withdraw"} => status[o] = "PENDING"
          /\ t.req[1] = "decline" => status[o] = "REQUESTED"
      BY <1>1, <2>4, Writes
    <3>2. o[1] # "refunded"
      BY <2>1 DEF PaidWord
    <3>3. o = RowOf(t.req) /\ status'[o] = WordOf(t.req)
      BY <2>1, <2>4, <3>1, <3>2 DEF Commit
    <3>4. CASE t.req[1] \in Paying
      <4>1. status'[o] = PaidWord[o[1]] /\ KeyOf(t.req, 1) = DueKey(o) /\ Booking(t.req) /\ Lines(t.req) = 1
        BY <1>1, <3>1, <3>3, <3>4, DueOf
      <4>2. \E e \in t.made : e.key = KeyOf(t.req, 1)
        BY <1>1, <4>1 DEF TxInv, MadeInv
      <4>3. \E e \in books' : e.key = DueKey(o)
        BY <1>1, <4>1, <4>2
      <4> QED  BY <2>2, <4>1, <4>3
    <3>5. CASE t.req[1] \notin Paying
      <4>1. t.req[1] \in {"withdraw", "decline"}
        BY <3>1, <3>5 DEF Marking, Claiming, Paying
      <4>2. status[o] \in {"PENDING", "REQUESTED"}
        BY <3>1, <4>1
      <4>3. PaidWord[o[1]] \notin {"PENDING", "REQUESTED"}
        BY <2>1 DEF PaidWord
      <4>4. status'[o] # PaidWord[o[1]]
        BY <1>1, <3>1, <3>3, <3>5, DueOf
      <4> QED  BY <2>2, <4>2, <4>3, <4>4
    <3> QED  BY <3>4, <3>5
  <2> QED  BY <2>3, <2>4
<1> QED  BY <1>2, <1>3, <1>4 DEF L!Book, L!Booked

\* Every step of the wallet is a step of the abstract ledger, or leaves it alone.
LEMMA EachStepBooks == IInv /\ [Next]_vars => [L!Next]_L!vars
<1> SUFFICES ASSUME IInv, [Next]_vars PROVE [L!Next]_L!vars
  OBVIOUS
<1>1. CASE UNCHANGED <<books, status>>
  BY <1>1 DEF L!vars, Settled
<1>2. ASSUME NEW w \in Workers, Commit(w)
      PROVE  L!Next
  BY <1>2, CommitBooks, Zenon DEF L!Next
<1>3. ASSUME NEW w \in Workers, Step(w), ~Commit(w)
      PROVE  UNCHANGED <<books, status>>
  BY <1>3, Zenon DEF Step, Begin, Read, Claim, Unclaimed, Hold, Short, Header, NoLegs, Replay, Unbalanced,
              Leg, Seal, Stamp, Abort, Rest
<1>4. ASSUME NEW x \in Payments, CreatePayment(x)
      PROVE  UNCHANGED <<books, Settled>>
  <2>1. <<"pay", x>> \in Rows
    BY DEF Rows
  <2> QED  BY <1>4, <2>1, CreatedUnsettled DEF CreatePayment, IInv
<1>5. ASSUME NEW o \in Orders, RequestRefund(o)
      PROVE  UNCHANGED <<books, Settled>>
  <2>1. <<"refund", o>> \in Rows
    BY DEF Rows
  <2> QED  BY <1>5, <2>1, CreatedUnsettled DEF RequestRefund, IInv
<1>6. ASSUME NEW v \in Vendors, GenerateStatement(v)
      PROVE  UNCHANGED <<books, Settled>>
  <2>1. <<"statement", <<v, month - 1>>>> \in Rows
    BY <1>6, MonthAssumption DEF GenerateStatement, IInv, TypeOK, Months, Statements, Rows
  <2> QED  BY <1>6, <2>1, CreatedUnsettled DEF GenerateStatement, IInv
<1>7. CASE Tick
  BY <1>1, <1>7 DEF Tick
<1>8. CASE UNCHANGED vars
  BY <1>1, <1>8 DEF vars
<1> QED  BY <1>1, <1>2, <1>3, <1>4, <1>5, <1>6, <1>7, <1>8 DEF Next, L!vars

\* Entries are only added, one per key and balanced, and a row says "paid" from
\* the commit that made its entry (walletService.ts, and every service that
\* books through it).
THEOREM WalletImplementsLedger == Spec => LedgerSpec
<1>1. Init => L!Init
  BY DEF Init, L!Init, Settled
<1> QED  BY <1>1, EachStepBooks, WalletInvariant, PTL DEF Spec, LedgerSpec, L!Spec
=============================================================================
