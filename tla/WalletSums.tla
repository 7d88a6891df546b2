----------------------------- MODULE WalletSums -----------------------------
(*****************************************************************************)
(* What the balances of Wallet are worth, for any number of requests in      *)
(* flight and of accounts: every one is the sum of its entries, at every     *)
(* commit and, for a transaction, between any two of its statements; a       *)
(* refund takes back what the delivery gave; and a hand-in or a settlement   *)
(* spends no more than was there.                                            *)
(*****************************************************************************)
EXTENDS WalletProofs, SumProofs

----------------------------------------------------------------------------
(* What a transaction sees is what it made *)

\* The legs of a set of entries on one account.
Total(S, a) == Sum([e \in S |-> e.legs[a]], S)

\* The part of the entry being written that has not reached the account.
Owed(w, a) == IF At(w, "legs") /\ a \in tx[w].todo THEN LegsOf(w)[a] ELSE 0

ViewInv(w) ==
  \A a \in Accounts : View(w, a) = balance[a] + Total(tx[w].made, a) - Owed(w, a)

FiniteBooks == IsFiniteSet(books) /\ \A w \in Workers : IsFiniteSet(tx[w].made)

SumInv ==
  /\ FiniteBooks
  /\ \A a \in Accounts : balance[a] = Total(books, a)
  /\ \A w \in Workers : ViewInv(w)

----------------------------------------------------------------------------
(* Totals *)

LEMMA LegOf ==
  ASSUME NEW e \in Entry, NEW a \in Accounts
  PROVE  e.legs[a] \in Int
BY DEF Entry

LEMMA TotalIn ==
  ASSUME NEW S, IsFiniteSet(S), S \subseteq Entry, NEW a \in Accounts
  PROVE  Total(S, a) \in Int
<1> DEFINE f == [e \in S |-> e.legs[a]]
<1>1. \A e \in S : f[e] \in Int
  BY LegOf
<1> HIDE DEF f
<1>2. Sum(f, S) \in Int
  BY <1>1, SumIn
<1> QED  BY <1>2 DEF f, Total

LEMMA TotalEmpty ==
  ASSUME NEW a
  PROVE  Total({}, a) = 0
BY SumEmpty DEF Total

LEMMA TotalUnion ==
  ASSUME NEW S, IsFiniteSet(S), S \subseteq Entry, NEW R, IsFiniteSet(R), R \subseteq Entry,
         S \intersect R = {}, NEW a \in Accounts
  PROVE  Total(S \union R, a) = Total(S, a) + Total(R, a)
<1> DEFINE U == S \union R
           f == [e \in U |-> e.legs[a]]
           g == [e \in S |-> e.legs[a]]
           h == [e \in R |-> e.legs[a]]
<1>1. /\ \A e \in U : f[e] \in Int
      /\ \A e \in S : f[e] \in Int /\ g[e] = f[e]
      /\ \A e \in R : f[e] \in Int /\ h[e] = f[e]
  BY LegOf
<1> HIDE DEF f, g, h
<1>2. Sum(f, S \union R) = Sum(f, S) + Sum(f, R)
  BY <1>1, SumUnion
<1>3. Sum(g, S) = Sum(f, S) /\ Sum(h, R) = Sum(f, R)
  BY <1>1, SumAgree
<1>4. Total(U, a) = Sum(f, U) /\ Total(S, a) = Sum(g, S) /\ Total(R, a) = Sum(h, R)
  BY DEF Total, f, g, h
<1> QED  BY <1>2, <1>3, <1>4

\* One entry more.
LEMMA TotalAdd ==
  ASSUME NEW S, IsFiniteSet(S), S \subseteq Entry, NEW e \in Entry, e \notin S, NEW a \in Accounts
  PROVE  Total(S \union {e}, a) = Total(S, a) + e.legs[a]
<1> DEFINE f == [x \in {e} |-> x.legs[a]]
<1>1. IsFiniteSet({e}) /\ {e} \ {e} = {}
  BY FS_Singleton
<1>2. f[e] = e.legs[a] /\ f[e] \in Int
  BY LegOf
<1> HIDE DEF f
<1>3. Sum(f, {e}) = f[e] + Sum(f, {e} \ {e})
  BY <1>1, <1>2, SumTake
<1>4. Sum(f, {}) = 0
  BY SumEmpty
<1>5. Total({e}, a) = e.legs[a]
  BY <1>1, <1>2, <1>3, <1>4 DEF f, Total
<1>6. {e} \subseteq Entry /\ S \intersect {e} = {}
  OBVIOUS
<1> QED  BY <1>1, <1>5, <1>6, TotalUnion

----------------------------------------------------------------------------
(* Steps that move no money *)

\* The legs of a posting are those of its request.
LEMMA SameLegs ==
  ASSUME NEW w \in Workers, tx'[w].req = tx[w].req, tx'[w].line = tx[w].line,
         tx[w].req[1] = "payout" => closing'[tx[w].req[2]] = closing[tx[w].req[2]]
  PROVE  LegsOf(w)' = LegsOf(w)
BY DEF LegsOf, Kind, Id

LEMMA UntouchedView ==
  ASSUME NEW q \in Workers, ViewInv(q), tx'[q] = tx[q], UNCHANGED balance,
         tx[q].req[1] = "payout" => closing'[tx[q].req[2]] = closing[tx[q].req[2]]
  PROVE  ViewInv(q)'
<1>1. LegsOf(q)' = LegsOf(q)
  BY SameLegs
<1>2. \A a \in Accounts : View(q, a)' = View(q, a) /\ Owed(q, a)' = Owed(q, a)
  BY <1>1 DEF View, Owed, At
<1> QED  BY <1>2 DEF ViewInv

\* A transaction that sees and has made what it did before, and writes no leg.
LEMMA QuietView ==
  ASSUME NEW w \in Workers, ViewInv(w), UNCHANGED balance, ~At(w, "legs"), ~At(w, "legs")',
         \A a \in Accounts : View(w, a)' = View(w, a), tx'[w].made = tx[w].made
  PROVE  ViewInv(w)'
BY DEF ViewInv, Owed

\* A transaction that holds and has made nothing sees the committed balances.
LEMMA IdleView ==
  ASSUME TypeOK, NEW w \in Workers, balance' \in [Accounts -> Int], tx'[w] = Idle
  PROVE  ViewInv(w)'
<1>1. \A a \in Accounts : Total({}, a) = 0 /\ balance'[a] \in Int
  BY TotalEmpty
<1> QED  BY <1>1 DEF ViewInv, View, Owed, At, Idle

\* A step that locks no account, makes no entry and writes no leg.
Quiet(w) ==
  /\ UNCHANGED Rest
  /\ \A q \in Workers : q # w => tx'[q] = tx[q]
  /\ tx'[w].made = tx[w].made
  /\ tx'[w].held \intersect Accounts = tx[w].held \intersect Accounts
  /\ tx'[w].view = tx[w].view \/ tx[w].held \intersect Accounts = {}
  /\ ~At(w, "legs") /\ ~At(w, "legs")'

LEMMA BeginQuiet ==
  ASSUME IInv, NEW w \in Workers, NEW r \in Req, Begin(w, r)
  PROVE  Quiet(w) /\ tx'[w].req = r /\ tx'[w].at = First(r) /\ tx'[w].line = FirstLine(r)
<1> DEFINE t == [Idle EXCEPT !.req = r, !.at = First(r), !.line = FirstLine(r)]
<1>1. tx[w].at = "idle" /\ UNCHANGED Rest /\ tx' = [tx EXCEPT ![w] = t]
  BY DEF Begin, At
<1>2. tx'[w] = t /\ \A q \in Workers : q # w => tx'[q] = tx[q]
  BY <1>1 DEF IInv, TypeOK
<1>3. tx[w].held = {} /\ tx[w].made = {}
  BY <1>1 DEF IInv, TxInv, Running, MadeInv, Posted
<1>4. /\ t.req = r /\ t.at = First(r) /\ t.line = FirstLine(r) /\ t.held = {} /\ t.made = {}
      /\ First(r) # "legs"
  BY ReqParts DEF Idle, First, Marking, Claiming
<1> HIDE DEF t
<1> QED  BY <1>1, <1>2, <1>3, <1>4 DEF Quiet, At

\* A row is locked, or nothing is; and the transaction goes on.
LEMMA GoesQuietly ==
  ASSUME IInv, NEW w \in Workers, UNCHANGED Rest, NEW u,
         tx' = [tx EXCEPT ![w] = u], u.made = tx[w].made, u.view = tx[w].view,
         u.held \subseteq tx[w].held \union Rows, tx[w].held \subseteq u.held,
         tx[w].at # "legs", u.at # "legs"
  PROVE  Quiet(w)
<1>1. tx'[w] = u /\ \A q \in Workers : q # w => tx'[q] = tx[q]
  BY DEF IInv, TypeOK
<1>2. u.held \intersect Accounts = tx[w].held \intersect Accounts
  BY Tags
<1> QED  BY <1>1, <1>2 DEF Quiet, At

LEMMA RowsQuiet ==
  ASSUME IInv, NEW w \in Workers,
         Read(w) \/ Claim(w) \/ Unclaimed(w) \/ NoLegs(w) \/ Seal(w) \/ Stamp(w)
  PROVE  (Quiet(w) /\ tx'[w].req = tx[w].req) \/ (Drop(w) /\ UNCHANGED Rest)
<1> DEFINE t == tx[w]
<1>1. t \in Transaction /\ TxInv(t) /\ TypeOK
  BY DEF IInv, TypeOK
<1>2. ASSUME NEW stage, Goto(w, stage), UNCHANGED Rest, stage # "legs", t.at # "legs"
      PROVE  Quiet(w) /\ tx'[w].req = t.req
  <2> DEFINE u == [t EXCEPT !.at = stage]
  <2>1. tx' = [tx EXCEPT ![w] = u]
    BY <1>2 DEF Goto
  <2>2. /\ u.made = t.made /\ u.view = t.view /\ u.held = t.held /\ u.at = stage
        /\ u.req = t.req /\ tx'[w] = u
    BY <1>1, <2>1 DEF Transaction, TypeOK
  <2> HIDE DEF u
  <2> QED  BY <1>2, <2>1, <2>2, GoesQuietly
<1>3. ASSUME NEW row \in Rows, NEW marks, NEW stage, UNCHANGED Rest, stage # "legs", t.at # "legs",
             tx' = [tx EXCEPT ![w].held = @ \union {row}, ![w].marks = marks, ![w].at = stage]
      PROVE  Quiet(w) /\ tx'[w].req = t.req
  <2> DEFINE u == [t EXCEPT !.held = @ \union {row}, !.marks = marks, !.at = stage]
  <2>1. tx' = [tx EXCEPT ![w] = u]
    BY <1>3
  <2>2. /\ u.made = t.made /\ u.view = t.view /\ u.held = t.held \union {row} /\ u.at = stage
        /\ u.req = t.req /\ tx'[w] = u
    BY <1>1, <2>1 DEF Transaction, TypeOK
  <2> HIDE DEF u
  <2> QED  BY <1>3, <2>1, <2>2, GoesQuietly
<1>4. CASE Read(w)
  BY <1>2, <1>4 DEF Read, At
<1>5. CASE Claim(w)
  <2>1. At(w, "claim") /\ UNCHANGED Rest
    BY <1>5 DEF Claim
  <2>2. ClaimOf(t.req).row = RowOf(t.req) /\ LockOf(RowOf(t.req)) \in Rows
    BY <2>1, AtClaim
  <2> DEFINE row == LockOf(ClaimOf(t.req).row)
             marks == {[row |-> ClaimOf(t.req).row, to |-> ClaimOf(t.req).to]}
             stage == IF Kind(w) \in {"withdraw", "decline"} THEN "end" ELSE "post"
  <2>3. tx' = [tx EXCEPT ![w].held = @ \union {row}, ![w].marks = marks, ![w].at = stage]
    BY <1>5 DEF Claim
  <2>4. row \in Rows /\ stage # "legs" /\ t.at # "legs"
    BY <2>1, <2>2 DEF At
  <2> HIDE DEF row, marks, stage
  <2> QED  BY <1>3, <2>1, <2>3, <2>4
<1>6. CASE Unclaimed(w)
  BY <1>2, <1>6 DEF Unclaimed, At
<1>7. CASE NoLegs(w)
  BY <1>2, <1>7 DEF NoLegs, At, After
<1>8. CASE Seal(w)
  <2> DEFINE row == IF Kind(w) = "refund" THEN <<"refund", Id(w)>> ELSE <<"statement", Id(w)>>
             to == IF Kind(w) = "refund" THEN "PROCESSED" ELSE "PAID"
             marks == t.marks \union {[row |-> row, to |-> to]}
             stage == IF Kind(w) = "refund" THEN "stamp" ELSE "end"
  <2>1. t.at = "seal" /\ UNCHANGED Rest
    BY <1>8 DEF Seal, At
  <2>2. t.req \in Req /\ t.req[1] \in {"refund", "payout"}
    BY <1>1, <2>1 DEF TxInv, Running
  <2>3. row \in Rows
    BY <2>2, ReqParts DEF Kind, Id, Rows
  <2>4. CASE tx' = [tx EXCEPT ![w].held = @ \union {row}, ![w].marks = marks, ![w].at = stage]
    <3>1. stage # "legs" /\ t.at # "legs"
      BY <2>1
    <3> HIDE DEF row, marks, stage
    <3> QED  BY <1>3, <2>1, <2>3, <2>4, <3>1
  <2>5. CASE Drop(w)
    BY <2>1, <2>5
  <2> QED  BY <1>8, <2>4, <2>5 DEF Seal
<1>9. CASE Stamp(w)
  <2> DEFINE row == <<"order", Id(w)>>
             marks == t.marks \union {[row |-> <<"refunded", Id(w)>>, to |-> "SET"]}
  <2>1. t.at = "stamp" /\ UNCHANGED Rest
    BY <1>9 DEF Stamp, At
  <2>2. t.req \in Req /\ t.req[1] = "refund"
    BY <1>1, <2>1 DEF TxInv, Running
  <2>3. row \in Rows
    BY <2>2, ReqParts DEF Kind, Id, Rows
  <2>4. tx' = [tx EXCEPT ![w].held = @ \union {row}, ![w].marks = marks, ![w].at = "end"]
    BY <1>9 DEF Stamp
  <2>5. "end" # "legs" /\ t.at # "legs"
    BY <2>1
  <2> HIDE DEF row, marks
  <2> QED  BY <1>3, <2>1, <2>3, <2>4, <2>5
<1> QED  BY <1>4, <1>5, <1>6, <1>7, <1>8, <1>9

----------------------------------------------------------------------------
(* Steps that lock an account, make an entry or write a leg *)

\* What taking an account with a guard does to its transaction.
LEMMA HoldStep ==
  ASSUME IInv, NEW w \in Workers, Hold(w)
  PROVE  LET t == tx[w]
             u == tx'[w]
             a == HoldOf(t.req, t.line).acct
         IN  /\ t.at = "hold" /\ t.req \in Req /\ t.req[1] \in {"remit", "settle"}
             /\ t.line \in FirstLine(t.req) .. Lines(t.req)
             /\ a \in Accounts /\ View(w, a) >= HoldOf(t.req, t.line).least
             /\ UNCHANGED Rest /\ \A q \in Workers : q # w => tx'[q] = tx[q]
             /\ u.req = t.req /\ u.made = t.made /\ u.held = t.held \union {a}
             /\ u.view = [t.view EXCEPT ![a] = View(w, a)]
             /\ u.line = (IF t.line = 0 THEN 1 ELSE t.line)
             /\ u.at = (IF t.line = 0 THEN "hold" ELSE "post")
<1> DEFINE t == tx[w]
           a == HoldOf(t.req, t.line).acct
           line == IF t.line = 0 THEN 1 ELSE t.line
           stage == IF t.line = 0 THEN "hold" ELSE "post"
           view == [t.view EXCEPT ![a] = View(w, a)]
           u == [t EXCEPT !.held = @ \union {a}, !.view = view, !.line = line, !.at = stage]
<1>1. t \in Transaction /\ TxInv(t) /\ TypeOK
  BY DEF IInv, TypeOK
<1>2. /\ t.at = "hold" /\ UNCHANGED Rest /\ View(w, a) >= HoldOf(t.req, t.line).least
  BY DEF Hold, At
<1>3. tx' = [tx EXCEPT ![w] = u]
  BY DEF Hold
<1>4. /\ t.req \in Req /\ t.req[1] \in {"remit", "settle"} /\ t.line \in FirstLine(t.req) .. Lines(t.req)
  BY <1>1, <1>2 DEF TxInv, Running
<1>5. a \in Accounts
  BY <1>4, HoldIn
<1> HIDE DEF view, line, stage
<1>6. /\ u.req = t.req /\ u.made = t.made /\ u.held = t.held \union {a} /\ u.view = view
      /\ u.line = line /\ u.at = stage
  BY <1>1 DEF Transaction
<1>7. tx'[w] = u /\ \A q \in Workers : q # w => tx'[q] = tx[q]
  BY <1>1, <1>3 DEF TypeOK
<1> HIDE DEF u
<1> QED  BY <1>2, <1>4, <1>5, <1>6, <1>7 DEF view, line, stage

\* What making an entry does to its transaction.
LEMMA HeaderStep ==
  ASSUME IInv, NEW w \in Workers, Header(w)
  PROVE  LET t == tx[w]
             u == tx'[w]
             e == [key |-> KeyOf(t.req, t.line), legs |-> LegsOf(w)]
         IN  /\ t.at = "post" /\ e \in Entry /\ e \notin t.made /\ UNCHANGED Rest
             /\ Balanced(LegsOf(w))
             /\ \A q \in Workers : q # w => tx'[q] = tx[q]
             /\ u.req = t.req /\ u.line = t.line /\ u.made = t.made \union {e} /\ u.view = t.view
             /\ u.held \intersect Accounts = t.held \intersect Accounts
             /\ u.todo = Touched(LegsOf(w)) /\ u.at = "legs"
<1> DEFINE t == tx[w]
           key == KeyOf(t.req, t.line)
           legs == LegsOf(w)
           e == [key |-> key, legs |-> legs]
           todo == Touched(legs)
           u == [t EXCEPT !.held = @ \union {key}, !.made = @ \union {e},
                          !.todo = todo, !.at = "legs"]
<1>1. /\ At(w, "post") /\ Balanced(legs) /\ UNCHANGED Rest /\ tx' = [tx EXCEPT ![w] = u]
  BY DEF Header
<1>2. /\ t \in Transaction /\ TxInv(t) /\ t.at = "post" /\ t.req \in Req
      /\ t.req[1] \notin {"withdraw", "decline"} /\ t.line \in 1 .. Lines(t.req)
      /\ Posted(t) = t.line - 1 /\ key \in Keys /\ legs \in [Accounts -> Int]
  BY <1>1, AtPost
<1>3. e \in Entry /\ e.key = key
  BY <1>2 DEF Entry
<1>4. e \notin t.made
  <2>1. SUFFICES ASSUME e \in t.made PROVE FALSE
    OBVIOUS
  <2>2. PICK i \in 1 .. t.line - 1 : key = KeyOf(t.req, i)
    BY <1>2, <1>3, <2>1 DEF TxInv, MadeInv
  <2>3. i \in 1 .. Lines(t.req) /\ i # t.line
    BY <1>2, LineNumbers
  <2> QED  BY <1>2, <2>2, <2>3, KeyLines
<1> HIDE DEF e, key, legs, todo
<1>5. /\ u.req = t.req /\ u.line = t.line /\ u.made = t.made \union {e} /\ u.view = t.view
      /\ u.held = t.held \union {key} /\ u.todo = todo /\ u.at = "legs"
  BY <1>2 DEF Transaction
<1>6. tx'[w] = u /\ \A q \in Workers : q # w => tx'[q] = tx[q]
  BY <1>1 DEF IInv, TypeOK
<1> HIDE DEF u
<1>7. tx'[w].held \intersect Accounts = t.held \intersect Accounts
  BY <1>2, <1>5, <1>6, Tags
<1> QED  BY <1>1, <1>2, <1>3, <1>4, <1>5, <1>6, <1>7 DEF e, key, legs, todo

----------------------------------------------------------------------------
(* Each statement keeps the sums *)

\* It is enough to look at the transaction that moves.
LEMMA SumsQuietly ==
  ASSUME IInv, SumInv, NEW w \in Workers, UNCHANGED <<balance, books, closing>>,
         \A q \in Workers : q # w => tx'[q] = tx[q],
         IsFiniteSet(tx'[w].made), ViewInv(w)'
  PROVE  SumInv'
<1>1. \A q \in Workers : ViewInv(q)'
  BY UntouchedView DEF SumInv
<1>2. FiniteBooks'
  BY DEF SumInv, FiniteBooks
<1>3. \A a \in Accounts : Total(books, a)' = Total(books, a)
  OBVIOUS
<1> QED  BY <1>1, <1>2, <1>3 DEF SumInv

LEMMA SumsQuiet ==
  ASSUME IInv, SumInv, NEW w \in Workers, Quiet(w)
  PROVE  SumInv'
<1>1. UNCHANGED <<balance, books, closing>>
  BY DEF Quiet, Rest
<1>2. \A a \in Accounts : View(w, a)' = View(w, a)
  BY <1>1 DEF Quiet, View
<1>3. ViewInv(w)'
  BY <1>1, <1>2, QuietView DEF Quiet, SumInv
<1>4. IsFiniteSet(tx'[w].made)
  BY DEF Quiet, SumInv, FiniteBooks
<1> QED  BY <1>1, <1>3, <1>4, SumsQuietly DEF Quiet

LEMMA SumsDrop ==
  ASSUME IInv, SumInv, NEW w \in Workers, Drop(w), UNCHANGED Rest
  PROVE  SumInv'
<1>1. UNCHANGED <<balance, books, closing>> /\ balance' \in [Accounts -> Int] /\ TypeOK
  BY DEF Rest, IInv, TypeOK
<1>2. tx'[w] = Idle /\ \A q \in Workers : q # w => tx'[q] = tx[q]
  BY DEF Drop, IInv, TypeOK
<1>3. ViewInv(w)'
  BY <1>1, <1>2, IdleView
<1>4. IsFiniteSet(tx'[w].made)
  BY <1>2, FS_EmptySet DEF Idle
<1> QED  BY <1>1, <1>2, <1>3, <1>4, SumsQuietly

LEMMA SumsHold ==
  ASSUME IInv, SumInv, NEW w \in Workers, Hold(w)
  PROVE  SumInv'
<1> DEFINE t == tx[w]
           h == HoldOf(t.req, t.line).acct
<1>1. /\ t.at = "hold" /\ h \in Accounts /\ tx'[w].made = t.made /\ tx'[w].held = t.held \union {h}
      /\ tx'[w].view = [t.view EXCEPT ![h] = View(w, h)] /\ tx'[w].at \in {"hold", "post"}
      /\ \A q \in Workers : q # w => tx'[q] = tx[q]
  BY HoldStep
<1>2. UNCHANGED <<balance, books, closing>>
  BY HoldStep DEF Rest
<1>3. t.view \in [Accounts -> Int]
  BY DEF IInv, TypeOK, Transaction
<1> HIDE DEF h
<1>4. ASSUME NEW a \in Accounts
      PROVE  View(w, a)' = View(w, a)
  <2>1. CASE a = h
    BY <1>1, <1>2, <1>3, <2>1 DEF View
  <2>2. CASE a # h
    BY <1>1, <1>2, <1>3, <2>2 DEF View
  <2> QED  BY <2>1, <2>2
<1>5. ~At(w, "legs") /\ ~At(w, "legs")'
  BY <1>1 DEF At
<1>6. ViewInv(w)'
  BY <1>1, <1>2, <1>4, <1>5, QuietView DEF SumInv
<1>7. IsFiniteSet(tx'[w].made)
  BY <1>1 DEF SumInv, FiniteBooks
<1> QED  BY <1>1, <1>2, <1>6, <1>7, SumsQuietly

LEMMA SumsHeader ==
  ASSUME IInv, SumInv, NEW w \in Workers, Header(w)
  PROVE  SumInv'
<1> DEFINE t == tx[w]
           u == tx'[w]
           legs == LegsOf(w)
           e == [key |-> KeyOf(t.req, t.line), legs |-> legs]
<1>1. /\ t.at = "post" /\ e \in Entry /\ e \notin t.made
      /\ \A q \in Workers : q # w => tx'[q] = tx[q]
      /\ u.req = t.req /\ u.line = t.line /\ u.made = t.made \union {e} /\ u.view = t.view
      /\ u.held \intersect Accounts = t.held \intersect Accounts
      /\ u.todo = Touched(legs) /\ u.at = "legs"
  BY HeaderStep
<1>2. UNCHANGED <<balance, books, closing>>
  BY HeaderStep DEF Rest
<1>3. LegsOf(w)' = legs
  BY <1>1, <1>2, SameLegs
<1>4. IsFiniteSet(t.made) /\ t.made \subseteq Entry /\ ViewInv(w)
  BY DEF SumInv, FiniteBooks, IInv, TypeOK, Transaction
<1>5. e.legs = legs /\ legs \in [Accounts -> Int]
  <2>1. e.legs = legs
    OBVIOUS
  <2> HIDE DEF e
  <2> QED  BY <1>1, <2>1 DEF Entry
<1> HIDE DEF e, legs
<1>6. ASSUME NEW a \in Accounts
      PROVE  View(w, a)' = balance'[a] + Total(tx'[w].made, a) - Owed(w, a)'
  <2>1. View(w, a)' = View(w, a)
    BY <1>1, <1>2 DEF View
  <2>2. Owed(w, a) = 0
    BY <1>1 DEF Owed, At
  <2>3. View(w, a) = balance[a] + Total(t.made, a) - 0
    BY <1>4, <2>2 DEF ViewInv
  <2>4. Total(tx'[w].made, a) = Total(t.made, a) + legs[a]
    <3>1. Total(t.made \union {e}, a) = Total(t.made, a) + e.legs[a]
      BY <1>1, <1>4, TotalAdd
    <3> QED  BY <1>1, <1>5, <3>1
  <2>5. Owed(w, a)' = legs[a]
    BY <1>1, <1>3 DEF Owed, At, Touched
  <2>6. balance[a] \in Int /\ Total(t.made, a) \in Int /\ legs[a] \in Int
    BY <1>4, <1>5, TotalIn DEF IInv, TypeOK
  <2> QED  BY <1>2, <2>1, <2>3, <2>4, <2>5, <2>6
<1>7. ViewInv(w)'
  BY <1>6 DEF ViewInv
<1>8. IsFiniteSet(tx'[w].made)
  BY <1>1, <1>4, FS_AddElement
<1> QED  BY <1>1, <1>2, <1>7, <1>8, SumsQuietly

LEMMA SumsLeg ==
  ASSUME IInv, SumInv, NEW w \in Workers, Leg(w)
  PROVE  SumInv'
<1> DEFINE t == tx[w]
           u == tx'[w]
           a == NextLeg(w)
           last == t.todo = {a}
<1>1. /\ t \in Transaction /\ t.at = "legs" /\ t.req \in Req /\ t.req[1] \notin {"withdraw", "decline"}
      /\ t.line \in 1 .. Lines(t.req) /\ a \in t.todo /\ a \in Accounts
      /\ \A q \in Workers : q # w => tx'[q] = tx[q]
      /\ u.req = t.req /\ u.made = t.made
      /\ u.held = t.held \union {a} /\ u.todo = t.todo \ {a}
      /\ u.view = [t.view EXCEPT ![a] = View(w, a) + LegsOf(w)[a]]
      /\ \/ ~last /\ u.at = "legs" /\ u.line = t.line
         \/ last /\ u.at \in {"hold", "seal", "end"}
  BY LegStep
<1>2. UNCHANGED <<balance, books, closing>>
  BY LegStep DEF Rest
<1>3. IsFiniteSet(t.made) /\ t.made \subseteq Entry /\ ViewInv(w) /\ TypeOK
  BY DEF SumInv, FiniteBooks, IInv, TypeOK, Transaction
<1>4. LegsOf(w) \in [Accounts -> Int]
  BY <1>1, <1>3, LegsIn
<1>5. \A b \in Accounts : balance[b] \in Int /\ Total(t.made, b) \in Int /\ LegsOf(w)[b] \in Int
  BY <1>3, <1>4, TotalIn DEF TypeOK
<1>6. ~last => LegsOf(w)' = LegsOf(w)
  BY <1>1, <1>2, SameLegs
<1> HIDE DEF a
<1>7. ASSUME NEW b \in Accounts, b = a
      PROVE  View(w, b)' = View(w, b) + LegsOf(w)[b] /\ Owed(w, b) = LegsOf(w)[b] /\ Owed(w, b)' = 0
  <2>1. b \in u.held /\ u.view[b] = View(w, b) + LegsOf(w)[b] /\ b \notin u.todo
    BY <1>1, <1>7 DEF Transaction
  <2> QED  BY <1>1, <1>7, <2>1 DEF View, Owed, At
<1>8. ASSUME NEW b \in Accounts, b # a
      PROVE  View(w, b)' = View(w, b) /\ Owed(w, b)' = Owed(w, b)
  <2>1. View(w, b)' = View(w, b)
    BY <1>1, <1>2, <1>8 DEF View, Transaction
  <2>2. CASE last
    <3>1. b \notin t.todo /\ u.at # "legs"
      BY <1>1, <1>8, <2>2
    <3> QED  BY <2>1, <3>1 DEF Owed, At
  <2>3. CASE ~last
    <3>1. (b \in u.todo <=> b \in t.todo) /\ u.at = "legs" /\ LegsOf(w)' = LegsOf(w)
      BY <1>1, <1>6, <1>8, <2>3
    <3> QED  BY <1>1, <2>1, <3>1 DEF Owed, At
  <2> QED  BY <2>1, <2>2, <2>3
<1>9. ASSUME NEW b \in Accounts
      PROVE  View(w, b)' = balance'[b] + Total(tx'[w].made, b) - Owed(w, b)'
  <2>1. View(w, b) = balance[b] + Total(t.made, b) - Owed(w, b)
    BY <1>3 DEF ViewInv
  <2>2. CASE b = a
    <3>1. /\ balance[b] \in Int /\ Total(t.made, b) \in Int /\ LegsOf(w)[b] \in Int
      BY <1>5
    <3>2. Total(tx'[w].made, b) = Total(t.made, b) /\ balance'[b] = balance[b]
      BY <1>1, <1>2
    <3>3. View(w, b)' = View(w, b) + LegsOf(w)[b] /\ Owed(w, b) = LegsOf(w)[b] /\ Owed(w, b)' = 0
      BY <1>7, <2>2
    <3> QED  BY <2>1, <3>1, <3>2, <3>3
  <2>3. CASE b # a
    BY <1>1, <1>2, <1>8, <2>1, <2>3
  <2> QED  BY <2>2, <2>3
<1>10. ViewInv(w)'
  BY <1>9 DEF ViewInv
<1> QED  BY <1>1, <1>2, <1>3, <1>10, SumsQuietly

\* A commit makes the balances what the transaction saw.
LEMMA SumsCommit ==
  ASSUME IInv, SumInv, NEW w \in Workers, Commit(w)
  PROVE  SumInv'
<1> DEFINE t == tx[w]
<1>1. /\ TypeOK /\ t \in Transaction /\ TxInv(t) /\ t.at = "end" /\ t.made \subseteq Entry
      /\ IsFiniteSet(t.made) /\ IsFiniteSet(books) /\ books \subseteq Entry
  BY DEF Commit, At, IInv, TypeOK, Transaction, SumInv, FiniteBooks
<1>2. /\ balance' = [a \in Accounts |-> View(w, a)] /\ books' = books \union t.made
      /\ UNCHANGED closing
  BY DEF Commit
<1>3. TypeOK' /\ tx'[w] = Idle /\ \A q \in Workers : q # w => tx'[q] = tx[q]
  BY CommitTypes
<1>4. books \intersect t.made = {}
  BY <1>1 DEF TxInv, MadeInv, IsBooked
<1>5. ASSUME NEW a \in Accounts
      PROVE  balance'[a] = Total(books', a)
  <2>1. balance[a] = Total(books, a)
    BY DEF SumInv
  <2>2. View(w, a) = balance[a] + Total(t.made, a) - 0
    BY <1>1 DEF SumInv, ViewInv, Owed, At
  <2>3. Total(books \union t.made, a) = Total(books, a) + Total(t.made, a)
    BY <1>1, <1>4, TotalUnion
  <2>4. Total(books, a) \in Int /\ Total(t.made, a) \in Int
    BY <1>1, TotalIn
  <2> QED  BY <1>2, <2>1, <2>2, <2>3, <2>4
<1>6. FiniteBooks'
  <2>1. IsFiniteSet(books')
    BY <1>1, <1>2, FS_Union
  <2>2. \A q \in Workers : IsFiniteSet(tx'[q].made)
    BY <1>3, FS_EmptySet DEF SumInv, FiniteBooks, Idle
  <2> QED  BY <2>1, <2>2 DEF FiniteBooks
<1>7. ViewInv(w)'
  BY <1>1, <1>3, IdleView DEF TypeOK
\* Another transaction has locked the account, or sees what was committed.
<1>8. ASSUME NEW q \in Workers, q # w
      PROVE  ViewInv(q)'
  <2>1. tx'[q] = tx[q] /\ tx[q].held \intersect t.held = {}
    BY <1>3, <1>8 DEF IInv, Exclusive
  <2>2. LegsOf(q)' = LegsOf(q)
    BY <1>2, <2>1, SameLegs
  <2>3. ASSUME NEW a \in Accounts
        PROVE  View(q, a)' = balance'[a] + Total(tx'[q].made, a) - Owed(q, a)'
    <3>1. View(q, a) = balance[a] + Total(tx[q].made, a) - Owed(q, a)
      BY DEF SumInv, ViewInv
    <3>2. Owed(q, a)' = Owed(q, a)
      BY <2>1, <2>2 DEF Owed, At
    <3>3. CASE a \in tx[q].held
      <4>1. View(q, a)' = View(q, a)
        BY <2>1, <3>3 DEF View
      <4>2. a \notin t.held
        BY <2>1, <3>3
      <4>3. balance'[a] = balance[a]
        BY <1>2, <4>2 DEF View
      <4> QED  BY <2>1, <3>1, <3>2, <4>1, <4>3
    <3>4. CASE a \notin tx[q].held
      <4>1. View(q, a)' = balance'[a] /\ View(q, a) = balance[a]
        BY <2>1, <3>4 DEF View
      <4>2. /\ balance[a] \in Int /\ balance'[a] \in Int /\ Total(tx[q].made, a) \in Int
            /\ Owed(q, a) \in Int
        <5>1. IsFiniteSet(tx[q].made) /\ tx[q].made \subseteq Entry
          BY <1>1 DEF SumInv, FiniteBooks, TypeOK, Transaction
        <5>2. At(q, "legs") => LegsOf(q) \in [Accounts -> Int]
          <6>1. SUFFICES ASSUME At(q, "legs") PROVE LegsOf(q) \in [Accounts -> Int]
            OBVIOUS
          <6>2. /\ tx[q].req \in Req /\ tx[q].line \in FirstLine(tx[q].req) .. Lines(tx[q].req)
                /\ tx[q].line > 0 /\ tx[q].req[1] \notin {"withdraw", "decline"}
            BY <6>1 DEF IInv, TxInv, Running, At
          <6>3. tx[q].line \in 1 .. Lines(tx[q].req)
            BY <6>2, LineNumbers
          <6> QED  BY <1>1, <6>2, <6>3, LegsIn
        <5>3. Owed(q, a) \in Int
          BY <5>2 DEF Owed
        <5> QED  BY <1>1, <1>3, <5>1, <5>3, TotalIn DEF TypeOK
      <4>3. Total(tx'[q].made, a) = Total(tx[q].made, a)
        BY <2>1
      <4> QED  BY <3>1, <3>2, <4>1, <4>2, <4>3
    <3> QED  BY <3>3, <3>4
  <2> QED  BY <2>3 DEF ViewInv
<1>9. \A q \in Workers : ViewInv(q)'
  BY <1>7, <1>8
<1> QED  BY <1>5, <1>6, <1>9 DEF SumInv

\* A statement is generated for a month whose statement nobody pays yet.
LEMMA SumsGenerate ==
  ASSUME IInv, SumInv, NEW v \in Vendors, GenerateStatement(v)
  PROVE  SumInv'
<1>1. UNCHANGED <<balance, books, tx>>
  BY DEF GenerateStatement
<1>2. ASSUME NEW q \in Workers
      PROVE  tx[q].req[1] = "payout" => closing'[tx[q].req[2]] = closing[tx[q].req[2]]
  <2>1. SUFFICES ASSUME tx[q].req[1] = "payout"
                 PROVE  closing'[tx[q].req[2]] = closing[tx[q].req[2]]
    OBVIOUS
  <2>2. status[<<"statement", tx[q].req[2]>>] # "NONE"
    BY <2>1 DEF IInv, TxInv, PayoutInv
  <2>3. tx[q].req[2] # <<v, month - 1>>
    BY <2>2 DEF GenerateStatement
  <2>4. tx[q].req[2] \in Statements
    BY <2>1, ReqParts DEF IInv, TypeOK, Transaction, NoReq
  <2> QED  BY <2>3, <2>4 DEF GenerateStatement, IInv, TypeOK
<1>3. \A q \in Workers : ViewInv(q)'
  BY <1>1, <1>2, UntouchedView DEF SumInv
<1> QED  BY <1>1, <1>3 DEF SumInv, FiniteBooks

----------------------------------------------------------------------------
(* Every step keeps the sums *)

LEMMA SumsInit == Init => SumInv
<1> SUFFICES ASSUME Init PROVE SumInv
  OBVIOUS
<1>1. books = {} /\ balance = Flat /\ \A w \in Workers : tx[w] = Idle
  BY DEF Init
<1>2. \A a \in Accounts : Total({}, a) = 0 /\ Flat[a] = 0
  BY TotalEmpty DEF Flat
<1>3. IsFiniteSet({})
  BY FS_EmptySet
<1> QED  BY <1>1, <1>2, <1>3 DEF SumInv, FiniteBooks, ViewInv, View, Owed, At, Idle

LEMMA SumsStep == IInv /\ SumInv /\ [Next]_vars => SumInv'
<1> SUFFICES ASSUME IInv, SumInv, [Next]_vars PROVE SumInv'
  OBVIOUS
<1>1. ASSUME UNCHANGED <<balance, books, closing, tx>>
      PROVE  SumInv'
  <2>1. \A q \in Workers : ViewInv(q)'
    BY <1>1, UntouchedView DEF SumInv
  <2> QED  BY <1>1, <2>1 DEF SumInv, FiniteBooks
<1>2. CASE UNCHANGED vars
  BY <1>1, <1>2 DEF vars
<1>3. CASE \E x \in Payments : CreatePayment(x)
  BY <1>1, <1>3 DEF CreatePayment
<1>4. CASE \E o \in Orders : RequestRefund(o)
  BY <1>1, <1>4 DEF RequestRefund
<1>5. CASE Tick
  BY <1>1, <1>5 DEF Tick
<1>6. CASE \E v \in Vendors : GenerateStatement(v)
  BY <1>6, SumsGenerate
<1>7. ASSUME NEW w \in Workers, Step(w)
      PROVE  SumInv'
  <2>1. CASE \E r \in Req : Begin(w, r)
    BY <2>1, BeginQuiet, SumsQuiet
  <2>2. CASE Read(w) \/ Claim(w) \/ Unclaimed(w) \/ NoLegs(w) \/ Seal(w) \/ Stamp(w)
    BY <2>2, RowsQuiet, SumsQuiet, SumsDrop
  <2>3. CASE Short(w) \/ Replay(w) \/ Unbalanced(w) \/ Abort(w)
    <3>1. Drop(w) /\ UNCHANGED Rest
      BY <2>3 DEF Short, Replay, Unbalanced, Abort
    <3> QED  BY <3>1, SumsDrop
  <2>4. CASE Hold(w) \/ Header(w) \/ Leg(w) \/ Commit(w)
    BY <2>4, SumsHold, SumsHeader, SumsLeg, SumsCommit
  <2> QED  BY <1>7, <2>1, <2>2, <2>3, <2>4 DEF Step
<1> QED  BY <1>2, <1>3, <1>4, <1>5, <1>6, <1>7 DEF Next

\* At every step of every transaction, what it sees is the committed balance and what
\* its own entries add to it.
THEOREM SumsInvariant == Spec => []SumInv
BY SumsInit, SumsStep, WalletInvariant, PTL DEF Spec

\* The balance of every account is the sum of its entries at every commit
\* (reconciliationService.ts, check 1), however many requests post to it at once.
THEOREM BalancesAreSums == Spec => []CachedBalance
<1>1. IInv /\ SumInv => CachedBalance
  <2>1. SUFFICES ASSUME IInv, SumInv, NEW a \in Accounts
                 PROVE  balance[a] = MapThenSumSet(LAMBDA e : e.legs[a], books)
    BY DEF CachedBalance
  <2>2. IsFiniteSet(books) /\ \A e \in books : e.legs[a] \in Int
    <3>1. IsFiniteSet(books) /\ books \subseteq Entry
      BY <2>1 DEF SumInv, FiniteBooks, IInv, TypeOK
    <3> QED  BY <3>1, LegOf
  <2>3. MapThenSumSet(LAMBDA e : e.legs[a], books) = Total(books, a)
    BY <2>2, SumOfLegs DEF Total
  <2>4. balance[a] = Total(books, a)
    BY <2>1 DEF SumInv
  <2> QED  BY <2>3, <2>4, Zenon
<1> QED  BY <1>1, WalletInvariant, SumsInvariant, PTL

----------------------------------------------------------------------------
(* The legs of an entry are those its key stands for *)

Fits(e) ==
  /\ e.key[1] = "cod-settle" => OrderOf[e.key[2]].cod /\ e.legs = CodSettlement(e.key[2])
  /\ e.key[1] = "prepaid-settle" => ~OrderOf[e.key[2]].cod /\ e.legs = PrepaidSettlement(e.key[2])
  /\ e.key[1] = "reversal" => e.legs = RefundLegs(e.key[2])
  /\ e.key[1] = "remit" => e.legs = Remittance(e.key[2])
  /\ e.key[1] = "line" => e.legs = SettlementLine(e.key[2][1], e.key[2][2])

FitInv ==
  /\ \A w \in Workers : \A e \in tx[w].made : Fits(e)
  /\ \A e \in books : Fits(e) /\ Balanced(e.legs)
  /\ \A e, f \in books : e.key = f.key => e = f

LEMMA FitsNew ==
  ASSUME IInv, NEW w \in Workers, At(w, "post")
  PROVE  Fits([key |-> KeyOf(tx[w].req, tx[w].line), legs |-> LegsOf(w)])
<1> DEFINE r == tx[w].req
           k == KeyOf(r, tx[w].line)
<1>1. r \in Req /\ r[1] \notin {"withdraw", "decline"}
  BY AtPost
<1>2. CASE r[1] = "deliver"
  <2>1. OrderOf[r[2]].cod \in BOOLEAN
    BY <1>1, <1>2, ReqParts, AmountAssumption
  <2>2. CASE OrderOf[r[2]].cod
    <3>1. k = <<"cod-settle", r[2]>> /\ LegsOf(w) = CodSettlement(r[2])
      BY <1>2, <2>2 DEF KeyOf, LegsOf, Kind, Id
    <3> QED  BY <2>2, <3>1 DEF Fits
  <2>3. CASE ~OrderOf[r[2]].cod
    <3>1. k = <<"prepaid-settle", r[2]>> /\ LegsOf(w) = PrepaidSettlement(r[2])
      BY <1>2, <2>3 DEF KeyOf, LegsOf, Kind, Id
    <3> QED  BY <2>3, <3>1 DEF Fits
  <2> QED  BY <2>1, <2>2, <2>3
<1>3. CASE r[1] = "refund"
  <2>1. k = <<"reversal", r[2]>> /\ LegsOf(w) = RefundLegs(r[2])
    BY <1>3 DEF KeyOf, LegsOf, Kind, Id
  <2> QED  BY <2>1 DEF Fits
<1>4. CASE r[1] = "settle"
  <2>1. k = <<"line", <<r[2], tx[w].line>>>> /\ LegsOf(w) = SettlementLine(r[2], tx[w].line)
    BY <1>4 DEF KeyOf, LegsOf, Kind, Id
  <2> QED  BY <2>1 DEF Fits
<1>5. CASE r[1] = "confirm"
  <2>1. k = <<"credit", r[2]>>
    BY <1>5 DEF KeyOf
  <2> QED  BY <2>1 DEF Fits
<1>6. CASE r[1] = "remit"
  <2>1. k = r /\ LegsOf(w) = Remittance(r[2])
    BY <1>6 DEF KeyOf, LegsOf, Kind, Id
  <2> QED  BY <1>6, <2>1 DEF Fits
<1>7. CASE r[1] \in {"tip", "adjust", "payout"}
  <2>1. k = r
    BY <1>7 DEF KeyOf
  <2> QED  BY <1>7, <2>1 DEF Fits
<1> QED  BY <1>1, <1>2, <1>3, <1>4, <1>5, <1>6, <1>7, ReqParts DEF Marking, Claiming

\* Only a header makes an entry, and only a commit books one.
LEMMA Makes ==
  ASSUME IInv, [Next]_vars
  PROVE  \/ \E w \in Workers : Header(w)
         \/ \E w \in Workers : Commit(w)
         \/ UNCHANGED books /\ \A q \in Workers : tx'[q].made \subseteq tx[q].made
<1>1. CASE UNCHANGED <<books, tx>>
  BY <1>1
<1>2. ASSUME NEW w \in Workers, Drop(w) /\ UNCHANGED Rest
      PROVE  UNCHANGED books /\ \A q \in Workers : tx'[q].made \subseteq tx[q].made
  BY <1>2 DEF Drop, Rest, IInv, TypeOK, Idle
<1>3. ASSUME NEW w \in Workers, Quiet(w)
      PROVE  UNCHANGED books /\ \A q \in Workers : tx'[q].made \subseteq tx[q].made
  BY <1>3 DEF Quiet, Rest
<1>4. ASSUME NEW w \in Workers, Hold(w)
      PROVE  UNCHANGED books /\ \A q \in Workers : tx'[q].made \subseteq tx[q].made
  <2>1. UNCHANGED Rest /\ tx'[w].made = tx[w].made /\ \A q \in Workers : q # w => tx'[q] = tx[q]
    BY <1>4, HoldStep
  <2> QED  BY <2>1 DEF Rest
<1>5. ASSUME NEW w \in Workers, Leg(w)
      PROVE  UNCHANGED books /\ \A q \in Workers : tx'[q].made \subseteq tx[q].made
  <2>1. UNCHANGED Rest /\ tx'[w].made = tx[w].made /\ \A q \in Workers : q # w => tx'[q] = tx[q]
    BY <1>5, LegStep
  <2> QED  BY <2>1 DEF Rest
<1>6. CASE ~\E w \in Workers : Step(w)
  BY <1>1, <1>6 DEF Next, CreatePayment, RequestRefund, Tick, GenerateStatement, vars
<1>7. ASSUME NEW w \in Workers, Step(w), ~Header(w), ~Commit(w)
      PROVE  UNCHANGED books /\ \A q \in Workers : tx'[q].made \subseteq tx[q].made
  <2>1. CASE \E r \in Req : Begin(w, r)
    BY <1>3, <2>1, BeginQuiet
  <2>2. CASE Read(w) \/ Claim(w) \/ Unclaimed(w) \/ NoLegs(w) \/ Seal(w) \/ Stamp(w)
    BY <1>2, <1>3, <2>2, RowsQuiet
  <2>3. CASE Short(w) \/ Replay(w) \/ Unbalanced(w) \/ Abort(w)
    BY <1>2, <2>3 DEF Short, Replay, Unbalanced, Abort
  <2>4. CASE Hold(w) \/ Leg(w)
    BY <1>4, <1>5, <2>4
  <2> QED  BY <1>7, <2>1, <2>2, <2>3, <2>4 DEF Step
<1> QED  BY <1>6, <1>7

LEMMA FitInit == Init => FitInv
BY DEF Init, FitInv, Idle

LEMMA FitStep == IInv /\ FitInv /\ [Next]_vars => FitInv'
<1> SUFFICES ASSUME IInv, FitInv, [Next]_vars PROVE FitInv'
  OBVIOUS
<1>1. CASE UNCHANGED books /\ \A q \in Workers : tx'[q].made \subseteq tx[q].made
  BY <1>1 DEF FitInv
<1>2. ASSUME NEW w \in Workers, Header(w)
      PROVE  FitInv'
  <2> DEFINE e == [key |-> KeyOf(tx[w].req, tx[w].line), legs |-> LegsOf(w)]
  <2>1. /\ tx[w].at = "post" /\ tx'[w].made = tx[w].made \union {e}
        /\ \A q \in Workers : q # w => tx'[q] = tx[q]
    BY <1>2, HeaderStep
  <2>2. UNCHANGED books
    BY <1>2, HeaderStep DEF Rest
  <2>3. Fits(e)
    BY <2>1, FitsNew DEF At
  <2> HIDE DEF e
  <2> QED  BY <2>1, <2>2, <2>3 DEF FitInv
<1>3. ASSUME NEW w \in Workers, Commit(w)
      PROVE  FitInv'
  <2>1. tx'[w] = Idle /\ \A q \in Workers : q # w => tx'[q] = tx[q]
    BY <1>3, CommitTypes
  <2>2. books' = books \union tx[w].made /\ MadeInv(tx[w])
    BY <1>3 DEF Commit, IInv, TxInv
  <2>3. \A e \in tx[w].made : Fits(e) /\ Balanced(e.legs) /\ ~IsBooked(e.key)
    BY <2>2 DEF FitInv, MadeInv
  <2>4. \A e, f \in books' : e.key = f.key => e = f
    BY <2>2, <2>3 DEF FitInv, MadeInv, IsBooked
  <2>5. \A q \in Workers : \A e \in tx'[q].made : Fits(e)
    BY <2>1 DEF FitInv, Idle
  <2>6. \A e \in books' : Fits(e) /\ Balanced(e.legs)
    BY <2>2, <2>3 DEF FitInv
  <2> QED  BY <2>4, <2>5, <2>6 DEF FitInv
<1> QED  BY <1>1, <1>2, <1>3, Makes

----------------------------------------------------------------------------
(* A refund is of an order that was delivered, and that is in the books *)

RefundInv ==
  /\ \A o \in Orders : status[<<"refund", o>>] # "NONE" => status[<<"order", o>>] = "DELIVERED"
  /\ \A w \in Workers :
       Kind(w) = "refund" /\ ~At(w, "read") => status[<<"order", Id(w)>>] = "DELIVERED"
  /\ \A row \in Dues : row[1] \in {"order", "refund"} /\ Settled[row] => IsBooked(DueKey(row))

\* A delivered order stays delivered, and a refund appears for no other order.
LEMMA DeliveredStays ==
  ASSUME IInv, RefundInv, [Next]_vars, NEW o \in Orders
  PROVE  /\ status[<<"order", o>>] = "DELIVERED" => status'[<<"order", o>>] = "DELIVERED"
         /\ status'[<<"refund", o>>] # "NONE" => status'[<<"order", o>>] = "DELIVERED"
<1> DEFINE ord == <<"order", o>>
           ref == <<"refund", o>>
<1>1. ord \in Rows /\ ref \in Rows /\ (status[ref] # "NONE" => status[ord] = "DELIVERED")
  BY DEF Rows, RefundInv
<1>2. CASE status' = status
  BY <1>1, <1>2
<1>3. ASSUME NEW row \in Rows, row[1] \notin {"order", "refund"}, NEW s,
             status' = [status EXCEPT ![row] = s]
      PROVE  status'[ord] = status[ord] /\ status'[ref] = status[ref]
  BY <1>3
<1>4. CASE \E x \in Payments : CreatePayment(x)
  <2>1. PICK x \in Payments : CreatePayment(x)
    BY <1>4
  <2>2. <<"pay", x>> \in Rows /\ status' = [status EXCEPT ![<<"pay", x>>] = "PENDING"]
    BY <2>1 DEF CreatePayment, Rows
  <2> QED  BY <1>1, <1>3, <2>2
<1>5. CASE \E x \in Orders : RequestRefund(x)
  BY <1>1, <1>5 DEF RequestRefund, IInv, TypeOK
<1>6. CASE \E v \in Vendors : GenerateStatement(v)
  <2>1. PICK v \in Vendors : GenerateStatement(v)
    BY <1>6
  <2>2. /\ <<"statement", <<v, month - 1>>>> \in Rows
        /\ status' = [status EXCEPT ![<<"statement", <<v, month - 1>>>>] = "FINAL"]
    BY <2>1, MonthAssumption DEF GenerateStatement, IInv, TypeOK, Months, Statements, Rows
  <2> QED  BY <1>1, <1>3, <2>2
<1>7. ASSUME NEW w \in Workers, Commit(w)
      PROVE  /\ status[ord] = "DELIVERED" => status'[ord] = "DELIVERED"
             /\ status'[ref] # "NONE" => status'[ord] = "DELIVERED"
  <2> DEFINE t == tx[w]
  <2>1. At(w, "end")
    BY <1>7 DEF Commit
  <2>2. \A row \in Rows : status'[row] = IF row \in Marked(w) THEN MarkOf(w, row) ELSE status[row]
    BY <1>7 DEF Commit
  <2>3. ord \in Marked(w) => MarkOf(w, ord) = "DELIVERED"
    <3>1. SUFFICES ASSUME ord \in Marked(w) PROVE MarkOf(w, ord) = "DELIVERED"
      OBVIOUS
    <3>2. t.req[1] \in Marking /\ ord = RowOf(t.req) /\ MarkOf(w, ord) = WordOf(t.req)
      BY <2>1, <3>1, Writes
    <3>3. t.req[1] = "deliver"
      BY <3>2 DEF RowOf, Marking, Claiming
    <3> QED  BY <3>2, <3>3 DEF WordOf
  <2>4. ref \in Marked(w) => status[ord] = "DELIVERED"
    <3>1. SUFFICES ASSUME ref \in Marked(w) PROVE status[ord] = "DELIVERED"
      OBVIOUS
    <3>2. /\ t.req[1] \in Marking /\ ref = RowOf(t.req)
          /\ t.req[1] = "decline" => status[ref] = "REQUESTED"
      BY <2>1, <3>1, Writes
    <3>3. t.req[1] \in {"refund", "decline"} /\ t.req[2] = o
      BY <3>2 DEF RowOf, Marking, Claiming
    <3>4. CASE t.req[1] = "decline"
      BY <1>1, <3>2, <3>4
    <3>5. CASE t.req[1] = "refund"
      BY <2>1, <3>3, <3>5 DEF RefundInv, Kind, Id, At
    <3> QED  BY <3>3, <3>4, <3>5
  <2> QED  BY <1>1, <2>2, <2>3, <2>4
<1>8. ASSUME NEW w \in Workers, Step(w), ~Commit(w)
      PROVE  status' = status
  BY <1>8, Zenon DEF Step, Begin, Read, Claim, Unclaimed, Hold, Short, Header, NoLegs, Replay,
                     Unbalanced, Leg, Seal, Stamp, Abort, Rest
<1>9. CASE Tick \/ UNCHANGED vars
  BY <1>2, <1>9 DEF Tick, vars
<1> QED  BY <1>2, <1>4, <1>5, <1>6, <1>7, <1>8, <1>9 DEF Next

\* A step of a transaction keeps its request, or drops it, or begins; and only
\* a read leaves the stage "read".
LEMMA Requests ==
  ASSUME IInv, NEW w \in Workers, Step(w)
  PROVE  /\ \A q \in Workers : q # w => tx'[q] = tx[q]
         /\ \/ tx'[w].req = tx[w].req /\ tx[w].at # "read"
            \/ tx'[w] = Idle
            \/ \E r \in Req : Begin(w, r) /\ tx'[w].req = r /\ tx'[w].at = First(r)
            \/ Read(w) /\ tx'[w].req = tx[w].req /\ ~Drop(w)
<1>1. CASE \E r \in Req : Begin(w, r)
  BY <1>1, BeginQuiet DEF Quiet
<1>2. ASSUME Drop(w)
      PROVE  tx'[w] = Idle /\ \A q \in Workers : q # w => tx'[q] = tx[q]
  BY <1>2 DEF Drop, IInv, TypeOK
<1>3. CASE Read(w)
  BY <1>2, <1>3, RowsQuiet DEF Quiet
<1>4. CASE Claim(w) \/ Unclaimed(w) \/ NoLegs(w) \/ Seal(w) \/ Stamp(w)
  <2>1. tx[w].at # "read"
    BY <1>4 DEF Claim, Unclaimed, NoLegs, Seal, Stamp, At
  <2>2. (Quiet(w) /\ tx'[w].req = tx[w].req) \/ Drop(w)
    BY <1>4, RowsQuiet
  <2> QED  BY <1>2, <2>1, <2>2 DEF Quiet
<1>5. CASE Short(w) \/ Replay(w) \/ Unbalanced(w) \/ Abort(w)
  BY <1>2, <1>5 DEF Short, Replay, Unbalanced, Abort
<1>6. CASE Hold(w)
  BY <1>6, HoldStep
<1>7. CASE Header(w)
  BY <1>7, HeaderStep
<1>8. CASE Leg(w)
  BY <1>8, LegStep
<1>9. CASE Commit(w)
  BY <1>9, CommitTypes
<1> QED  BY <1>1, <1>3, <1>4, <1>5, <1>6, <1>7, <1>8, <1>9 DEF Step

LEMMA RefundInit == Init => RefundInv
<1> SUFFICES ASSUME Init PROVE RefundInv
  OBVIOUS
<1>1. /\ \A o \in Orders : status[<<"refund", o>>] = "NONE"
      /\ \A row \in Rows : row[1] \in {"order", "refund"} => status[row] \in {"PICKED_UP", "NONE"}
  BY DEF Init, Rows
<1>2. ASSUME NEW row \in Dues, row[1] \in {"order", "refund"}
      PROVE  ~Settled[row]
  <2>1. row \in Rows /\ status[row] \in {"PICKED_UP", "NONE"}
    BY <1>1, <1>2 DEF Dues
  <2>2. PaidWord[row[1]] \in {"DELIVERED", "PROCESSED"}
    BY <1>2 DEF PaidWord
  <2>3. Settled[row] = (status[row] = PaidWord[row[1]])
    BY DEF Settled
  <2> QED  BY <2>1, <2>2, <2>3
<1>3. \A w \in Workers : Kind(w) # "refund"
  BY DEF Init, Kind, Idle, NoReq
<1> QED  BY <1>1, <1>2, <1>3 DEF RefundInv

LEMMA RefundStep == IInv /\ RefundInv /\ [Next]_vars => RefundInv'
<1> SUFFICES ASSUME IInv, RefundInv, [Next]_vars PROVE RefundInv'
  OBVIOUS
<1>1. \A o \in Orders : status'[<<"refund", o>>] # "NONE" => status'[<<"order", o>>] = "DELIVERED"
  BY DeliveredStays
<1>2. ASSUME NEW q \in Workers, Kind(q)' = "refund", ~At(q, "read")'
      PROVE  status'[<<"order", Id(q)'>>] = "DELIVERED"
  <2> DEFINE o == tx'[q].req[2]
  <2>1. tx'[q].req[1] = "refund" /\ tx'[q].at # "read"
    BY <1>2 DEF Kind, At
  <2>2. o \in Orders
    <3>1. TypeOK'
      BY StepInv DEF IInv
    <3>2. tx'[q].req \in Req
      BY <2>1, <3>1 DEF TypeOK, Transaction, NoReq
    <3> QED  BY <2>1, <3>2, ReqParts
  <2>3. CASE tx'[q].req = tx[q].req /\ tx[q].at # "read"
    <3>1. status[<<"order", o>>] = "DELIVERED"
      BY <2>1, <2>3 DEF RefundInv, Kind, Id, At
    <3> QED  BY <2>2, <3>1, DeliveredStays DEF Id
  <2>4. CASE tx'[q].req = tx[q].req /\ Read(q) /\ ~Drop(q)
    <3>1. Kind(q) = "refund" /\ Id(q) = o
      BY <2>1, <2>4 DEF Kind, Id
    <3>2. status[<<"refund", o>>] = "REQUESTED"
      BY <2>4, <3>1 DEF Read
    <3>3. status[<<"order", o>>] = "DELIVERED"
      BY <2>2, <3>2 DEF RefundInv
    <3> QED  BY <2>2, <3>3, DeliveredStays DEF Id
  <2>5. CASE tx'[q] = tx[q]
    <3>1. status[<<"order", o>>] = "DELIVERED"
      BY <2>1, <2>5 DEF RefundInv, Kind, Id, At
    <3> QED  BY <2>2, <3>1, DeliveredStays DEF Id
  <2>6. tx'[q] # Idle
    BY <2>1 DEF Idle, NoReq
  <2>7. ASSUME NEW r \in Req
        PROVE  ~(tx'[q].req = r /\ tx'[q].at = First(r))
    BY <2>1 DEF First
  <2>8. CASE \E w \in Workers : Step(w)
    <3>1. PICK w \in Workers : Step(w)
      BY <2>8
    <3> QED  BY <2>3, <2>4, <2>5, <2>6, <2>7, <3>1, Requests
  <2>9. CASE ~\E w \in Workers : Step(w)
    <3>1. tx' = tx
      BY <2>9 DEF Next, vars, CreatePayment, RequestRefund, Tick, GenerateStatement
    <3> QED  BY <2>5, <3>1
  <2> QED  BY <2>8, <2>9
<1>3. ASSUME NEW row \in Dues, row[1] \in {"order", "refund"}, Settled[row]'
      PROVE  IsBooked(DueKey(row))'
  <2>1. [L!Next]_L!vars
    BY EachStepBooks
  <2>2. Settled[row] => IsBooked(DueKey(row))
    BY <1>3 DEF RefundInv
  <2>3. CASE UNCHANGED L!vars
    BY <1>3, <2>2, <2>3 DEF L!vars, IsBooked
  <2>4. CASE L!Next
    <3>1. books \subseteq books'
      BY <2>4 DEF L!Next, L!Book
    <3>2. IF Settled[row] THEN Settled[row]' ELSE Settled[row]' => L!Booked(DueKey(row), books')
      BY <2>4 DEF L!Next, L!Book
    <3>3. CASE Settled[row]
      BY <2>2, <3>1, <3>3 DEF IsBooked
    <3>4. CASE ~Settled[row]
      BY <1>3, <3>2, <3>4 DEF IsBooked, L!Booked
    <3> QED  BY <3>3, <3>4
  <2> QED  BY <2>1, <2>3, <2>4
<1>4. Dues' = Dues
  BY DEF Dues
<1> QED  BY <1>1, <1>2, <1>3, <1>4 DEF RefundInv

----------------------------------------------------------------------------
(* A refund takes back what the delivery gave *)

LEMMA AccountsFinite == IsFiniteSet(Accounts)
<1>1. ASSUME NEW S, IsFiniteSet(S), NEW tag
      PROVE  IsFiniteSet({<<tag, x>> : x \in S})
  <2> DEFINE T == {<<tag, x>> : x \in S}
             f == [x \in S |-> <<tag, x>>]
  <2>1. f \in Surjection(S, T)
    BY DEF Surjection
  <2> HIDE DEF f, T
  <2>2. IsFiniteSet(T)
    BY <1>1, <2>1, FS_Surjection
  <2> QED  BY <2>2 DEF T
<1>2. IsFiniteSet({DriverCash(d) : d \in Drivers})
  BY <1>1, FiniteAssumption DEF DriverCash
<1>3. IsFiniteSet({Payable(v) : v \in Vendors})
  BY <1>1, FiniteAssumption DEF Payable
<1>4. IsFiniteSet({FleetCash(f) : f \in Fleets})
  BY <1>1, FiniteAssumption DEF FleetCash
<1>5. IsFiniteSet({Revenue, Clearing})
  <2>1. IsFiniteSet({Revenue}) /\ IsFiniteSet({Clearing})
    BY FS_Singleton
  <2>2. {Revenue, Clearing} = {Revenue} \union {Clearing}
    OBVIOUS
  <2> QED  BY <2>1, <2>2, FS_Union
<1> QED  BY <1>2, <1>3, <1>4, <1>5, FS_Union DEF Accounts

\* The signed amount of a leg: debits are positive, credits negative.
Debit(legs) == [a \in Accounts |-> IF a[1] \in ASSET_LIKE THEN legs[a] ELSE -legs[a]]

LEMMA BalancedIsZero ==
  ASSUME NEW legs \in [Accounts -> Int]
  PROVE  Balanced(legs) <=> Sum(Debit(legs), Accounts) = 0
<1> DEFINE D(a) == IF a[1] \in ASSET_LIKE THEN legs[a] ELSE -legs[a]
           f == Debit(legs)
           Eq(h) == h = [s \in SUBSET Accounts |->
                           IF s = {} THEN 0
                           ELSE D(CHOOSE x \in s : TRUE) + h[s \ {CHOOSE x \in s : TRUE}]]
           q == CHOOSE h : Eq(h)
<1>1. \A a \in Accounts : f[a] = D(a) /\ f[a] \in Int
  BY DEF Debit
<1> HIDE DEF f
<1>2. \A s \in SUBSET Accounts : s # {} => (CHOOSE x \in s : TRUE) \in Accounts
  OBVIOUS
<1>3. Balanced(legs) <=> q[Accounts] = 0
  BY DEF Balanced, MapThenSumSet, MapThenFoldSet
<1>4. \A h : Eq(h) <=> FoldEq(h, f, Accounts)
  <2>1. \A s \in SUBSET Accounts : s # {} => f[CHOOSE x \in s : TRUE] = D(CHOOSE x \in s : TRUE)
    BY <1>1, <1>2
  <2> HIDE DEF D
  <2>2. ASSUME NEW h
        PROVE  Eq(h) <=> FoldEq(h, f, Accounts)
    <3>1. [s \in SUBSET Accounts |->
             IF s = {} THEN 0 ELSE D(CHOOSE x \in s : TRUE) + h[s \ {CHOOSE x \in s : TRUE}]]
          = [s \in SUBSET Accounts |->
               IF s = {} THEN 0 ELSE f[CHOOSE x \in s : TRUE] + h[s \ {CHOOSE x \in s : TRUE}]]
      BY <2>1
    <3> QED  BY <3>1 DEF FoldEq
  <2> QED  BY <2>2
<1> HIDE DEF Eq
<1>5. \E h : Eq(h)
  BY <1>1, <1>4, AccountsFinite, FoldExists
<1>6. FoldEq(q, f, Accounts)
  BY <1>4, <1>5
<1> HIDE DEF q
<1>7. q[Accounts] = Sum(f, Accounts)
  BY <1>1, <1>6, AccountsFinite, FoldIsSum
<1> QED  BY <1>3, <1>7 DEF f

\* The legs that a delivery and a refund leave on each account.
LEMMA OrderLegs ==
  ASSUME NEW o \in Orders
  PROVE  LET x == OrderOf[o]
             share == IF x.total > x.fee THEN x.total - x.fee ELSE 0
             v == Payable(x.vendor)
         IN  /\ v \in Accounts /\ Revenue \in Accounts /\ Clearing \in Accounts
             /\ v # Revenue /\ v # Clearing /\ Revenue # Clearing
             /\ x.total \in Nat /\ x.fee \in Nat /\ x.cod \in BOOLEAN
             /\ CodSettlement(o)[v] = x.total - x.fee /\ CodSettlement(o)[Revenue] = x.fee
             /\ PrepaidSettlement(o)[v] = -x.fee /\ PrepaidSettlement(o)[Revenue] = x.fee
             /\ RefundLegs(o)[v] = (IF x.cod THEN -share ELSE x.fee)
             /\ RefundLegs(o)[Revenue] = -x.fee
             /\ RefundLegs(o)[Clearing] = (IF x.cod THEN -x.total ELSE 0)
             /\ \A a \in Accounts \ {v, Revenue, Clearing} : RefundLegs(o)[a] = 0
             /\ RefundLegs(o) \in [Accounts -> Int]
<1> DEFINE x == OrderOf[o]
           v == Payable(x.vendor)
<1>1. x.vendor \in Vendors /\ x.driver \in Drivers /\ x.total \in Nat /\ x.fee \in Nat /\ x.cod \in BOOLEAN
  BY AmountAssumption
<1>2. v \in Accounts /\ Revenue \in Accounts /\ Clearing \in Accounts
  BY <1>1 DEF Accounts
<1>3. /\ v # Revenue /\ v # Clearing /\ Revenue # Clearing
      /\ DriverCash(x.driver) # v /\ DriverCash(x.driver) # Revenue
  BY DEF Payable, Revenue, Clearing, DriverCash
<1> HIDE DEF v
<1>4. /\ CodSettlement(o)[v] = x.total - x.fee /\ CodSettlement(o)[Revenue] = x.fee
      /\ PrepaidSettlement(o)[v] = -x.fee /\ PrepaidSettlement(o)[Revenue] = x.fee
  BY <1>2, <1>3 DEF CodSettlement, PrepaidSettlement, Legs, v
<1> DEFINE share == IF x.total > x.fee THEN x.total - x.fee ELSE 0
           take == IF x.cod THEN -share ELSE x.fee
           cash == IF x.cod THEN -x.total ELSE 0
<1>5. RefundLegs(o) = Legs(Revenue, -x.fee, v, take, Clearing, cash)
  BY DEF RefundLegs, v
<1>6. -x.fee \in Int /\ take \in Int /\ cash \in Int
  BY <1>1
<1> HIDE DEF take, cash
<1>7. /\ RefundLegs(o)[v] = take /\ RefundLegs(o)[Revenue] = -x.fee /\ RefundLegs(o)[Clearing] = cash
      /\ \A a \in Accounts \ {v, Revenue, Clearing} : RefundLegs(o)[a] = 0
      /\ RefundLegs(o) \in [Accounts -> Int]
  BY <1>2, <1>3, <1>5, <1>6 DEF Legs
<1> QED  BY <1>1, <1>2, <1>3, <1>4, <1>7 DEF take, cash, v

\* The refund of a cash order whose fee is above its total would not balance:
\* postLedgerTransaction refuses it.
LEMMA RefundBalances ==
  ASSUME NEW o \in Orders, Balanced(RefundLegs(o)), OrderOf[o].cod
  PROVE  OrderOf[o].fee <= OrderOf[o].total
<1> DEFINE x == OrderOf[o]
           v == Payable(x.vendor)
           share == IF x.total > x.fee THEN x.total - x.fee ELSE 0
           f == Debit(RefundLegs(o))
           A == Accounts \ {v}
           B == A \ {Revenue}
           C == B \ {Clearing}
<1>1. /\ v \in Accounts /\ Revenue \in Accounts /\ Clearing \in Accounts
      /\ v # Revenue /\ v # Clearing /\ Revenue # Clearing
      /\ x.total \in Nat /\ x.fee \in Nat
      /\ RefundLegs(o)[v] = -share /\ RefundLegs(o)[Revenue] = -x.fee /\ RefundLegs(o)[Clearing] = -x.total
      /\ \A a \in Accounts \ {v, Revenue, Clearing} : RefundLegs(o)[a] = 0
      /\ RefundLegs(o) \in [Accounts -> Int]
  BY OrderLegs
<1>2. v[1] \notin ASSET_LIKE /\ Revenue[1] \notin ASSET_LIKE /\ Clearing[1] \in ASSET_LIKE
  BY DEF Payable, Revenue, Clearing, ASSET_LIKE
<1>3. /\ \A a \in Accounts : f[a] \in Int
      /\ f[v] = share /\ f[Revenue] = x.fee /\ f[Clearing] = -x.total
      /\ \A a \in C : f[a] = 0
  BY <1>1, <1>2 DEF Debit
<1>4. Sum(f, Accounts) = 0
  BY <1>1, BalancedIsZero
<1>5. IsFiniteSet(A) /\ IsFiniteSet(B) /\ IsFiniteSet(C)
  BY AccountsFinite, FS_RemoveElement
<1> HIDE DEF f, v
<1>6. Sum(f, Accounts) = f[v] + Sum(f, A)
  BY <1>1, <1>3, AccountsFinite, SumTake
<1>7. Revenue \in A /\ Clearing \in B /\ \A a \in A : f[a] \in Int
  BY <1>1, <1>3
<1>8. Sum(f, A) = f[Revenue] + Sum(f, B)
  BY <1>5, <1>7, SumTake
<1>9. Sum(f, B) = f[Clearing] + Sum(f, C)
  BY <1>5, <1>7, SumTake
<1>10. Sum(f, C) = 0
  BY <1>3, <1>5, SumZero
<1> HIDE DEF C, B, A
<1> QED  BY <1>1, <1>3, <1>4, <1>6, <1>8, <1>9, <1>10

\* The total of two entries.
LEMMA TotalTwo ==
  ASSUME NEW e \in Entry, NEW f \in Entry, e # f, NEW a \in Accounts
  PROVE  Total({e, f}, a) = e.legs[a] + f.legs[a]
<1>1. IsFiniteSet({}) /\ IsFiniteSet({e}) /\ Total({}, a) = 0
  BY FS_EmptySet, FS_Singleton, TotalEmpty
<1>2. Total({} \union {e}, a) = Total({}, a) + e.legs[a]
  BY <1>1, TotalAdd
<1>3. Total({e} \union {f}, a) = Total({e}, a) + f.legs[a]
  BY <1>1, TotalAdd
<1>4. {} \union {e} = {e} /\ {e} \union {f} = {e, f} /\ e.legs[a] \in Int
  BY LegOf
<1>5. Total({} \union {e}, a) = Total({e}, a) /\ Total({e} \union {f}, a) = Total({e, f}, a)
  BY <1>4
<1> QED  BY <1>1, <1>2, <1>3, <1>4, <1>5

LEMMA TotalZero ==
  ASSUME NEW S, IsFiniteSet(S), NEW a, \A e \in S : e.legs[a] = 0
  PROVE  Total(S, a) = 0
<1> DEFINE f == [e \in S |-> e.legs[a]]
<1>1. \A e \in S : f[e] = 0
  OBVIOUS
<1> HIDE DEF f
<1>2. Sum(f, S) = 0
  BY <1>1, SumZero
<1> QED  BY <1>2 DEF f, Total

OfOrder(o) ==
  {e \in books : e.key \in {<<"cod-settle", o>>, <<"prepaid-settle", o>>, <<"reversal", o>>}}

LEMMA RefundsCancel ==
  ASSUME IInv, FiniteBooks, FitInv, RefundInv, NEW o \in Orders,
         status[<<"refund", o>>] = "PROCESSED", NEW a \in {Payable(OrderOf[o].vendor), Revenue}
  PROVE  Total(OfOrder(o), a) = 0
<1> DEFINE x == OrderOf[o]
           v == Payable(x.vendor)
<1>1. /\ v \in Accounts /\ Revenue \in Accounts
      /\ x.total \in Nat /\ x.fee \in Nat /\ x.cod \in BOOLEAN
      /\ CodSettlement(o)[v] = x.total - x.fee /\ CodSettlement(o)[Revenue] = x.fee
      /\ PrepaidSettlement(o)[v] = -x.fee /\ PrepaidSettlement(o)[Revenue] = x.fee
      /\ RefundLegs(o)[Revenue] = -x.fee
      /\ ~x.cod => RefundLegs(o)[v] = x.fee
      /\ x.cod => RefundLegs(o)[v] = (IF x.total > x.fee THEN -(x.total - x.fee) ELSE -0)
  BY OrderLegs
<1>2. books \subseteq Entry /\ IsFiniteSet(OfOrder(o))
  BY FS_Subset DEF OfOrder, FiniteBooks, IInv, TypeOK
<1>3. \A e \in OfOrder(o) :
        /\ Fits(e) /\ Balanced(e.legs) /\ e \in books
        /\ x.cod => e.key # <<"prepaid-settle", o>>
        /\ ~x.cod => e.key # <<"cod-settle", o>>
        /\ e.key = <<"cod-settle", o>> => e.legs = CodSettlement(o)
        /\ e.key = <<"prepaid-settle", o>> => e.legs = PrepaidSettlement(o)
        /\ e.key = <<"reversal", o>> => e.legs = RefundLegs(o)
  BY DEF OfOrder, FitInv, Fits
<1>4. CASE x.cod \/ x.fee > 0
  <2> DEFINE given == IF x.cod THEN <<"cod-settle", o>> ELSE <<"prepaid-settle", o>>
             taken == <<"reversal", o>>
             ord == <<"order", o>>
             ref == <<"refund", o>>
  <2>1. ord \in Dues /\ ref \in Dues /\ ord[1] = "order" /\ ref[1] = "refund"
    BY <1>4 DEF Dues, Rows, PaidWord
  <2>2. DueKey(ord) = given /\ DueKey(ref) = taken
    BY <1>1 DEF DueKey
  <2>3. status[ord] = "DELIVERED"
    BY DEF RefundInv
  <2>4. Settled[ord] /\ Settled[ref]
    BY <2>1, <2>3 DEF Settled, PaidWord
  <2>5. IsBooked(given) /\ IsBooked(taken)
    BY <2>1, <2>2, <2>4 DEF RefundInv
  <2>6. PICK e \in books : e.key = given
    BY <2>5 DEF IsBooked
  <2>7. PICK f \in books : f.key = taken
    BY <2>5 DEF IsBooked
  <2>8. e # f /\ e \in OfOrder(o) /\ f \in OfOrder(o)
    BY <2>6, <2>7 DEF OfOrder
  <2>9. \A g \in OfOrder(o) : g = e \/ g = f
    <3>1. SUFFICES ASSUME NEW g \in OfOrder(o) PROVE g = e \/ g = f
      OBVIOUS
    <3>2. g.key = given \/ g.key = taken
      BY <1>1, <1>3 DEF OfOrder
    <3>3. g \in books /\ \A i, j \in books : i.key = j.key => i = j
      BY <1>3 DEF FitInv
    <3> QED  BY <2>6, <2>7, <3>2, <3>3
  <2>10. OfOrder(o) = {e, f}
    BY <2>8, <2>9
  <2>11. Total({e, f}, a) = e.legs[a] + f.legs[a]
    BY <1>1, <1>2, <2>6, <2>7, <2>8, TotalTwo
  <2>12. f.legs = RefundLegs(o) /\ (x.cod => x.fee <= x.total)
    BY <1>3, <2>7, <2>8, RefundBalances
  <2>13. e.legs = IF x.cod THEN CodSettlement(o) ELSE PrepaidSettlement(o)
    BY <1>1, <1>3, <2>6, <2>8
  <2>14. e.legs[a] + f.legs[a] = 0
    <3>1. CASE x.cod
      <4>1. e.legs = CodSettlement(o) /\ f.legs = RefundLegs(o) /\ x.fee <= x.total
        BY <2>12, <2>13, <3>1
      <4>2. RefundLegs(o)[v] = -(x.total - x.fee)
        BY <1>1, <3>1, <4>1
      <4>3. CASE a = v
        BY <1>1, <4>1, <4>2, <4>3
      <4>4. CASE a = Revenue
        BY <1>1, <4>1, <4>4
      <4> QED  BY <4>3, <4>4
    <3>2. CASE ~x.cod
      <4>1. e.legs = PrepaidSettlement(o) /\ f.legs = RefundLegs(o)
        BY <2>12, <2>13, <3>2
      <4>2. CASE a = v
        BY <1>1, <3>2, <4>1, <4>2
      <4>3. CASE a = Revenue
        BY <1>1, <4>1, <4>3
      <4> QED  BY <4>2, <4>3
    <3> QED  BY <3>1, <3>2
  <2>15. Total(OfOrder(o), a) = Total({e, f}, a)
    BY <2>10
  <2> QED  BY <2>11, <2>14, <2>15
\* A prepaid order without a fee: every leg is zero.
<1>5. CASE ~x.cod /\ ~(x.fee > 0)
  <2>1. x.fee = 0
    BY <1>1, <1>5
  <2>2. ASSUME NEW e \in OfOrder(o)
        PROVE  e.legs[a] = 0
    <3>1. e.legs = PrepaidSettlement(o) \/ e.legs = RefundLegs(o)
      BY <1>3, <1>5 DEF OfOrder
    <3>2. PrepaidSettlement(o)[a] = 0 /\ RefundLegs(o)[a] = 0
      BY <1>1, <1>5, <2>1
    <3> QED  BY <3>1, <3>2
  <2> QED  BY <1>2, <2>2, TotalZero
<1> QED  BY <1>1, <1>4, <1>5

\* A processed refund takes back from the vendor and from our revenue exactly
\* what the delivery of the order gave them (refundService.ts).
THEOREM RefundsUndo == Spec => []RefundUndoes
<1>1. IInv /\ SumInv /\ FitInv /\ RefundInv => RefundUndoes
  <2>1. SUFFICES ASSUME IInv, SumInv, FitInv, RefundInv, NEW o \in Orders,
                        status[<<"refund", o>>] = "PROCESSED",
                        NEW a \in {Payable(OrderOf[o].vendor), Revenue}
                 PROVE  MapThenSumSet(LAMBDA e : e.legs[a], OfOrder(o)) = 0
    BY Zenon DEF RefundUndoes, OfOrder
  <2>2. FiniteBooks /\ a \in Accounts
    <3>1. Payable(OrderOf[o].vendor) \in Accounts /\ Revenue \in Accounts
      BY <2>1, OrderLegs
    <3> QED  BY <2>1, <3>1 DEF SumInv
  <2>3. IsFiniteSet(OfOrder(o)) /\ \A e \in OfOrder(o) : e.legs[a] \in Int
    <3>1. IsFiniteSet(OfOrder(o)) /\ OfOrder(o) \subseteq Entry
      BY <2>1, <2>2, FS_Subset DEF OfOrder, FiniteBooks, IInv, TypeOK
    <3> QED  BY <2>2, <3>1, LegOf
  <2>4. MapThenSumSet(LAMBDA e : e.legs[a], OfOrder(o)) = Total(OfOrder(o), a)
    BY <2>3, SumOfLegs DEF Total
  <2>5. Total(OfOrder(o), a) = 0
    BY <2>1, <2>2, RefundsCancel
  <2> QED  BY <2>4, <2>5, Zenon
<1>2. Spec => []FitInv
  BY FitInit, FitStep, WalletInvariant, PTL DEF Spec
<1>3. Spec => []RefundInv
  BY RefundInit, RefundStep, WalletInvariant, PTL DEF Spec
<1> QED  BY <1>1, <1>2, <1>3, WalletInvariant, SumsInvariant, PTL
----------------------------------------------------------------------------
(* A hand-in and a settlement spend no more than they have locked *)

\* The amounts of a settlement's lines, and what is left from line i on.
Amounts(s) == [i \in DOMAIN SettleOf[s].lines |-> SettleOf[s].lines[i].amount]
Due(s, i) == Sum(Amounts(s), i .. Len(SettleOf[s].lines))

\* The current posting of t has reached account a.
Written(t, a) == t.at = "end" \/ (t.at = "legs" /\ a \notin t.todo)

\* The current posting is still to reach account a, which its guard has locked.
Unwritten(t, a) == t.at = "post" \/ (t.at = "legs" /\ a \in t.todo)

Covers(t, a, amount) == a \in t.held /\ t.view[a] >= amount

RemitCovered(t) ==
  LET x == RemitOf[t.req[2]]
      a == DriverCash(x.driver)
  IN  t.at # "hold" =>
        /\ t.at \in {"post", "legs", "end"}
        /\ Covers(t, a, IF Unwritten(t, a) THEN x.amount ELSE 0)

SettleCovered(t) ==
  LET s == t.req[2]
      f == FleetCash(SettleOf[s].fleet)
  IN  t.line > 0 =>
        /\ t.at \in {"hold", "post", "legs", "end"}
        /\ t.at = "end" => t.line = Lines(t.req)
        /\ Covers(t, f, Due(s, IF Written(t, f) THEN t.line + 1 ELSE t.line))
        /\ \A i \in DOMAIN SettleOf[s].lines :
             LET d == DriverCash(SettleOf[s].lines[i].driver)
             IN  /\ i < t.line \/ (i = t.line /\ Written(t, d)) => Covers(t, d, 0)
                 /\ i = t.line /\ Unwritten(t, d) => Covers(t, d, SettleOf[s].lines[i].amount)

CoverInv(t) ==
  /\ t.req[1] = "remit" => RemitCovered(t)
  /\ t.req[1] = "settle" => SettleCovered(t) /\ (t.line = 0 => t.at = "hold")

LEMMA SettleParts ==
  ASSUME NEW s \in Settles
  PROVE  LET n == Len(SettleOf[s].lines)
         IN  /\ n \in Nat /\ n > 0 /\ DOMAIN SettleOf[s].lines = 1 .. n
             /\ SettleOf[s].fleet \in Fleets
             /\ \A i \in 1 .. n : /\ SettleOf[s].lines[i].driver \in Drivers
                                  /\ SettleOf[s].lines[i].amount \in Nat
                                  /\ SettleOf[s].lines[i].amount > 0
             /\ \A i, j \in 1 .. n :
                  SettleOf[s].lines[i].driver = SettleOf[s].lines[j].driver => i = j
<1>1. /\ SettleOf[s].lines \in Seq([driver : Drivers, amount : Nat \ {0}])
      /\ Len(SettleOf[s].lines) > 0 /\ SettleOf[s].fleet \in Fleets
      /\ \A i, j \in DOMAIN SettleOf[s].lines :
           SettleOf[s].lines[i].driver = SettleOf[s].lines[j].driver => i = j
  BY SettleAssumption
<1>2. \A T : \A q \in Seq(T) : DOMAIN q = 1 .. Len(q) /\ Len(q) \in Nat
  OBVIOUS
<1>3. DOMAIN SettleOf[s].lines = 1 .. Len(SettleOf[s].lines) /\ Len(SettleOf[s].lines) \in Nat
  BY <1>1, <1>2
<1>4. \A i \in DOMAIN SettleOf[s].lines :
        /\ SettleOf[s].lines[i].driver \in Drivers
        /\ SettleOf[s].lines[i].amount \in Int /\ SettleOf[s].lines[i].amount > 0
  BY LineIn
<1>5. \A i \in 1 .. Len(SettleOf[s].lines) :
        /\ SettleOf[s].lines[i].driver \in Drivers
        /\ SettleOf[s].lines[i].amount \in Nat /\ SettleOf[s].lines[i].amount > 0
  BY <1>3, <1>4
<1>6. \A i, j \in 1 .. Len(SettleOf[s].lines) :
        SettleOf[s].lines[i].driver = SettleOf[s].lines[j].driver => i = j
  BY <1>1, <1>3
<1> QED  BY <1>1, <1>3, <1>5, <1>6

\* One line less to pay.
LEMMA DueTake ==
  ASSUME NEW s \in Settles, NEW i \in 1 .. Len(SettleOf[s].lines)
  PROVE  Due(s, i) = SettleOf[s].lines[i].amount + Due(s, i + 1)
<1> DEFINE n == Len(SettleOf[s].lines)
           f == Amounts(s)
<1>1. n \in Nat /\ \A j \in 1 .. n : f[j] = SettleOf[s].lines[j].amount /\ f[j] \in Int
  BY SettleParts DEF Amounts
<1> HIDE DEF f
<1>2. i \in i .. n /\ (i .. n) \ {i} = (i + 1) .. n /\ i .. n \subseteq 1 .. n
  BY <1>1
<1>3. IsFiniteSet(i .. n)
  BY <1>1, FS_Interval
<1>4. Sum(f, i .. n) = f[i] + Sum(f, (i .. n) \ {i})
  BY <1>1, <1>2, <1>3, SumTake
<1>5. Sum(f, (i .. n) \ {i}) = Sum(f, (i + 1) .. n)
  BY <1>2
<1> QED  BY <1>1, <1>4, <1>5 DEF Due, f

LEMMA DueIn ==
  ASSUME NEW s \in Settles, NEW i \in Nat, i > 0
  PROVE  Due(s, i) \in Nat
<1> DEFINE n == Len(SettleOf[s].lines)
           f == Amounts(s)
<1>1. n \in Nat /\ \A j \in 1 .. n : f[j] \in Nat
  BY SettleParts DEF Amounts
<1> HIDE DEF f
<1>2. IsFiniteSet(i .. n) /\ i .. n \subseteq 1 .. n
  BY <1>1, FS_Interval
<1>3. Sum(f, i .. n) \in Nat
  BY <1>1, <1>2, SumNat
<1> QED  BY <1>3 DEF Due, f

\* Nothing is left after the last line.
LEMMA DueNone ==
  ASSUME NEW s \in Settles
  PROVE  Due(s, Len(SettleOf[s].lines) + 1) = 0
<1> DEFINE n == Len(SettleOf[s].lines)
<1>1. n \in Nat
  BY SettleParts
<1>2. (n + 1) .. n = {}
  BY <1>1
<1>3. Sum(Amounts(s), {}) = 0
  BY SumEmpty
<1> QED  BY <1>2, <1>3 DEF Due

LEMMA AmountsAt ==
  ASSUME NEW s \in Settles, NEW i \in DOMAIN SettleOf[s].lines
  PROVE  Amounts(s)[i] = SettleOf[s].lines[i].amount
BY DEF Amounts

\* The guard of the company's account asks for all of it.
LEMMA DueTotal ==
  ASSUME NEW s \in Settles
  PROVE  SettleTotal(s) = Due(s, 1)
<1> DEFINE S == DOMAIN SettleOf[s].lines
           f == Amounts(s)
           D(i) == SettleOf[s].lines[i].amount
           Eq(h) == h = [T \in SUBSET S |->
                           IF T = {} THEN 0
                           ELSE D(CHOOSE x \in T : TRUE) + h[T \ {CHOOSE x \in T : TRUE}]]
           q == CHOOSE h : Eq(h)
<1>1. /\ S = 1 .. Len(SettleOf[s].lines) /\ IsFiniteSet(S)
      /\ \A i \in S : f[i] = D(i) /\ f[i] \in Int
  <2>1. S = 1 .. Len(SettleOf[s].lines) /\ Len(SettleOf[s].lines) \in Nat
    BY SettleParts
  <2>2. \A i \in 1 .. Len(SettleOf[s].lines) : SettleOf[s].lines[i].amount \in Int
    BY SettleParts
  <2>3. IsFiniteSet(1 .. Len(SettleOf[s].lines))
    <3>1. 1 \in Int /\ Len(SettleOf[s].lines) \in Int
      BY <2>1
    <3> QED  BY <3>1, FS_Interval, Zenon
  <2>4. \A i \in S : f[i] = D(i)
    BY AmountsAt
  <2>5. \A i \in S : D(i) \in Int
    BY <2>1, <2>2
  <2> HIDE DEF D, f
  <2> QED  BY <2>1, <2>3, <2>4, <2>5
<1>2. SettleTotal(s) = q[S]
  BY DEF SettleTotal, MapThenSumSet, MapThenFoldSet
<1> HIDE DEF D, f
<1>3. \A h : Eq(h) <=> FoldEq(h, f, S)
  <2>1. \A T \in SUBSET S : T # {} => f[CHOOSE x \in T : TRUE] = D(CHOOSE x \in T : TRUE)
    BY <1>1
  <2>2. ASSUME NEW h
        PROVE  Eq(h) <=> FoldEq(h, f, S)
    <3>1. [T \in SUBSET S |->
             IF T = {} THEN 0 ELSE D(CHOOSE x \in T : TRUE) + h[T \ {CHOOSE x \in T : TRUE}]]
          = [T \in SUBSET S |->
               IF T = {} THEN 0 ELSE f[CHOOSE x \in T : TRUE] + h[T \ {CHOOSE x \in T : TRUE}]]
      BY <2>1
    <3> QED  BY <3>1 DEF FoldEq
  <2> QED  BY <2>2
<1> HIDE DEF Eq
<1>4. \E h : Eq(h)
  BY <1>1, <1>3, FoldExists
<1>5. FoldEq(q, f, S)
  BY <1>3, <1>4
<1> HIDE DEF q
<1>6. q[S] = Sum(f, S)
  BY <1>1, <1>5, FoldIsSum
<1> QED  BY <1>1, <1>2, <1>6 DEF Due, f

\* The legs a hand-in and a line of a settlement have.
LEMMA SpendLegs ==
  /\ \A r \in Remits :
       LET a == DriverCash(RemitOf[r].driver)
       IN  /\ RemitOf[r].driver \in Drivers /\ RemitOf[r].amount \in Nat
           /\ a \in Accounts /\ Remittance(r)[a] = -RemitOf[r].amount
           /\ \A b \in Accounts \ {a} : Remittance(r)[b] >= 0
  /\ \A s \in Settles : \A i \in 1 .. Len(SettleOf[s].lines) :
       LET d == DriverCash(SettleOf[s].lines[i].driver)
           f == FleetCash(SettleOf[s].fleet)
       IN  /\ d \in Accounts /\ f \in Accounts /\ d # f
           /\ SettlementLine(s, i)[d] = -SettleOf[s].lines[i].amount
           /\ SettlementLine(s, i)[f] = -SettleOf[s].lines[i].amount
           /\ \A b \in Accounts \ {d, f} : SettlementLine(s, i)[b] = 0
<1>1. ASSUME NEW r \in Remits
      PROVE  LET a == DriverCash(RemitOf[r].driver)
             IN  /\ RemitOf[r].driver \in Drivers /\ RemitOf[r].amount \in Nat
                 /\ a \in Accounts /\ Remittance(r)[a] = -RemitOf[r].amount
                 /\ \A b \in Accounts \ {a} : Remittance(r)[b] >= 0
  <2>1. RemitOf[r].driver \in Drivers /\ RemitOf[r].amount \in Nat
    BY AmountAssumption
  <2>2. DriverCash(RemitOf[r].driver) \in Accounts
    BY <2>1, CashIsAccount
  <2> QED  BY <2>1, <2>2 DEF Remittance, Legs
<1>2. ASSUME NEW s \in Settles, NEW i \in 1 .. Len(SettleOf[s].lines)
      PROVE  LET d == DriverCash(SettleOf[s].lines[i].driver)
                 f == FleetCash(SettleOf[s].fleet)
             IN  /\ d \in Accounts /\ f \in Accounts /\ d # f
                 /\ SettlementLine(s, i)[d] = -SettleOf[s].lines[i].amount
                 /\ SettlementLine(s, i)[f] = -SettleOf[s].lines[i].amount
                 /\ \A b \in Accounts \ {d, f} : SettlementLine(s, i)[b] = 0
  <2>1. SettleOf[s].lines[i].driver \in Drivers /\ SettleOf[s].fleet \in Fleets
    BY SettleParts
  <2>2. /\ DriverCash(SettleOf[s].lines[i].driver) \in Accounts
        /\ FleetCash(SettleOf[s].fleet) \in Accounts
        /\ DriverCash(SettleOf[s].lines[i].driver) # FleetCash(SettleOf[s].fleet)
    BY <2>1 DEF Accounts, DriverCash, FleetCash
  <2> QED  BY <2>2 DEF SettlementLine, Legs
<1> QED  BY <1>1, <1>2
SpendInv == \A w \in Workers : CoverInv(tx[w])

\* Where a transaction is, and what its posting has reached.
LEMMA Reached ==
  ASSUME NEW t
  PROVE  /\ t.at = "hold" => \A b : ~Written(t, b) /\ ~Unwritten(t, b)
         /\ t.at = "post" => \A b : ~Written(t, b) /\ Unwritten(t, b)
         /\ t.at = "legs" => \A b : Unwritten(t, b) <=> ~Written(t, b)
         /\ t.at = "end"  => \A b : Written(t, b) /\ ~Unwritten(t, b)
<1>1. ASSUME NEW b, t.at = "hold"
      PROVE  ~Written(t, b) /\ ~Unwritten(t, b)
  BY <1>1 DEF Written, Unwritten
<1>2. ASSUME NEW b, t.at = "post"
      PROVE  ~Written(t, b) /\ Unwritten(t, b)
  BY <1>2 DEF Written, Unwritten
<1>3. ASSUME NEW b, t.at = "legs"
      PROVE  Unwritten(t, b) <=> ~Written(t, b)
  BY <1>3 DEF Written, Unwritten
<1>4. ASSUME NEW b, t.at = "end"
      PROVE  Written(t, b) /\ ~Unwritten(t, b)
  BY <1>4 DEF Written, Unwritten
<1> QED  BY <1>1, <1>2, <1>3, <1>4

\* Locking one more account with its guard.
LEMMA CoverHold ==
  ASSUME IInv, SpendInv, NEW w \in Workers, Hold(w)
  PROVE  CoverInv(tx'[w])
<1> DEFINE t == tx[w]
           u == tx'[w]
           a == HoldOf(t.req, t.line).acct
<1>1. /\ t.at = "hold" /\ t.req \in Req /\ t.req[1] \in {"remit", "settle"}
      /\ t.line \in FirstLine(t.req) .. Lines(t.req)
      /\ a \in Accounts /\ View(w, a) >= HoldOf(t.req, t.line).least
      /\ u.req = t.req /\ u.held = t.held \union {a} /\ u.view = [t.view EXCEPT ![a] = View(w, a)]
      /\ u.line = (IF t.line = 0 THEN 1 ELSE t.line)
      /\ u.at = (IF t.line = 0 THEN "hold" ELSE "post")
  BY HoldStep
<1>2. t.view \in [Accounts -> Int] /\ CoverInv(t)
  BY DEF IInv, TypeOK, Transaction, SpendInv
<1>3. /\ a \in u.held /\ u.view[a] = View(w, a)
      /\ \A b \in Accounts \ {a} : u.view[b] = t.view[b] /\ (b \in t.held => b \in u.held)
  BY <1>1, <1>2
<1>4. CASE t.req[1] = "remit"
  <2>1. t.req[2] \in Remits /\ t.line = 1
    BY <1>1, <1>4, ReqParts, LineNumbers
  <2> DEFINE x == RemitOf[t.req[2]]
  <2>2. a = DriverCash(x.driver) /\ HoldOf(t.req, t.line).least = x.amount
    BY <1>4 DEF HoldOf
  <2>3. u.at = "post" /\ u.req[1] = "remit" /\ u.req[2] = t.req[2]
    BY <1>1, <1>4, <2>1
  <2>4. Covers(u, DriverCash(x.driver), x.amount)
    BY <1>1, <1>3, <2>2 DEF Covers
  <2>5. RemitCovered(u)
    <3>1. Unwritten(u, DriverCash(x.driver))
      BY <2>3, Reached
    <3> QED  BY <2>3, <2>4, <3>1 DEF RemitCovered
  <2> QED  BY <2>3, <2>5 DEF CoverInv
<1>5. CASE t.req[1] = "settle" /\ t.line = 0
  <2> DEFINE s == t.req[2]
             f == FleetCash(SettleOf[s].fleet)
  <2>1. s \in Settles
    BY <1>1, <1>5, ReqParts
  <2>2. a = f /\ HoldOf(t.req, t.line).least = Due(s, 1)
    BY <1>5, <2>1, DueTotal DEF HoldOf
  <2>3. u.at = "hold" /\ u.line = 1 /\ u.req = t.req /\ Covers(u, f, Due(s, 1))
    BY <1>1, <1>3, <1>5, <2>2 DEF Covers
  <2>4. ~Written(u, f)
    BY <2>3 DEF Written
  <2>5. \A i \in DOMAIN SettleOf[s].lines : ~(i < u.line)
    BY <2>1, <2>3, SettleParts
  <2>6. \A d : ~Written(u, d) /\ ~Unwritten(u, d)
    BY <2>3 DEF Written, Unwritten
  <2>7. SettleCovered(u)
    BY <2>3, <2>5, <2>6 DEF SettleCovered
  <2> QED  BY <1>5, <2>3, <2>7 DEF CoverInv
<1>6. CASE t.req[1] = "settle" /\ t.line # 0
  <2> DEFINE s == t.req[2]
             f == FleetCash(SettleOf[s].fleet)
             n == Len(SettleOf[s].lines)
             l == t.line
             cash(i) == DriverCash(SettleOf[s].lines[i].driver)
  <2>1. /\ s \in Settles /\ n \in Nat /\ l \in 1 .. n /\ l > 0 /\ DOMAIN SettleOf[s].lines = 1 .. n
    <3>1. s \in Settles
      BY <1>1, <1>6, ReqParts
    <3>2. l \in 0 .. Lines(t.req) /\ Lines(t.req) = n
      BY <1>1, <1>6, LineNumbers
    <3> QED  BY <1>6, <3>1, <3>2, SettleParts
  <2>2. a = cash(l) /\ HoldOf(t.req, l).least = SettleOf[s].lines[l].amount
    BY <1>6, <2>1 DEF HoldOf
  <2>3. /\ f \in Accounts /\ f # a
        /\ \A i \in 1 .. n : cash(i) \in Accounts /\ (i # l => cash(i) # a)
    <3>1. f \in Accounts /\ \A i \in 1 .. n : cash(i) \in Accounts /\ cash(i) # f
      BY <2>1, SpendLegs
    <3>2. \A i \in 1 .. n : i # l => SettleOf[s].lines[i].driver # SettleOf[s].lines[l].driver
      BY <2>1, SettleParts
    <3>3. \A i \in 1 .. n : i # l => cash(i) # cash(l)
      BY <3>2 DEF DriverCash
    <3> QED  BY <2>1, <2>2, <3>1, <3>3
  <2>4. u.at = "post" /\ u.line = l /\ u.req = t.req
    BY <1>1, <1>6
  <2>5. \A d : ~Written(u, d) /\ ~Written(t, d) /\ Unwritten(u, d)
    BY <1>1, <2>4, Reached
  <2>6. SettleCovered(t)
    BY <1>2, <1>6 DEF CoverInv
  <2>7. Covers(t, f, Due(s, l)) /\ \A i \in 1 .. n : i < l => Covers(t, cash(i), 0)
    <3>1. Covers(t, f, Due(s, IF Written(t, f) THEN l + 1 ELSE l))
      BY <2>1, <2>6 DEF SettleCovered
    <3>2. ASSUME NEW i \in 1 .. n, i < l
          PROVE  Covers(t, cash(i), 0)
      BY <2>1, <2>6, <3>2 DEF SettleCovered
    <3> QED  BY <2>5, <3>1, <3>2
  <2>8. Covers(u, f, Due(s, l))
    BY <1>3, <2>3, <2>7 DEF Covers
  <2>9. \A i \in 1 .. n : i < l => Covers(u, cash(i), 0)
    <3>1. SUFFICES ASSUME NEW i \in 1 .. n, i < l PROVE Covers(u, cash(i), 0)
      OBVIOUS
    <3>2. i # l
      BY <2>1, <3>1
    <3> QED  BY <1>3, <2>3, <2>7, <3>1, <3>2 DEF Covers
  <2>10. Covers(u, cash(l), SettleOf[s].lines[l].amount)
    BY <1>1, <1>3, <2>2 DEF Covers
  <2>11. SettleCovered(u)
    BY <2>1, <2>4, <2>5, <2>8, <2>9, <2>10 DEF SettleCovered
  <2> QED  BY <1>6, <2>4, <2>11 DEF CoverInv
<1> QED  BY <1>1, <1>4, <1>5, <1>6

\* The entry is written before its legs: nothing is spent yet.
LEMMA CoverHeader ==
  ASSUME IInv, SpendInv, NEW w \in Workers, Header(w)
  PROVE  CoverInv(tx'[w])
<1> DEFINE t == tx[w]
           u == tx'[w]
<1>1. /\ t.at = "post" /\ u.req = t.req /\ u.line = t.line /\ u.view = t.view /\ u.at = "legs"
      /\ u.held \intersect Accounts = t.held \intersect Accounts
  BY HeaderStep
<1>2. /\ t.view \in [Accounts -> Int] /\ CoverInv(t) /\ t.req \in Req
      /\ t.line \in 1 .. Lines(t.req)
  BY <1>1, AtPost DEF IInv, TypeOK, Transaction, SpendInv, At
<1>3. \A b \in Accounts : \A x : Covers(t, b, x) => Covers(u, b, x)
  BY <1>1 DEF Covers
<1>4. \A b : Unwritten(t, b) /\ ~Written(t, b) /\ (Unwritten(u, b) <=> ~Written(u, b))
  BY <1>1, Reached
<1>5. CASE t.req[1] = "remit"
  <2> DEFINE x == RemitOf[t.req[2]]
             a == DriverCash(x.driver)
  <2>1. t.req[2] \in Remits
    BY <1>2, <1>5, ReqParts
  <2>2. a \in Accounts /\ x.amount \in Nat
    BY <2>1, SpendLegs
  <2>3. Covers(t, a, x.amount)
    BY <1>1, <1>2, <1>4, <1>5 DEF CoverInv, RemitCovered
  <2>4. Covers(u, a, x.amount) /\ Covers(t, a, 0)
    BY <1>2, <1>3, <2>2, <2>3 DEF Covers
  <2>5. Covers(u, a, 0)
    BY <1>3, <2>2, <2>4
  <2> QED  BY <1>1, <1>5, <2>4, <2>5 DEF CoverInv, RemitCovered
<1>6. CASE t.req[1] = "settle"
  <2> DEFINE s == t.req[2]
             f == FleetCash(SettleOf[s].fleet)
             n == Len(SettleOf[s].lines)
             l == t.line
             x == SettleOf[s].lines[l].amount
             cash(i) == DriverCash(SettleOf[s].lines[i].driver)
  <2>1. s \in Settles /\ n \in Nat /\ l \in 1 .. n /\ l > 0 /\ DOMAIN SettleOf[s].lines = 1 .. n
    BY <1>2, <1>6, ReqParts, LineNumbers, SettleParts
  <2>2. f \in Accounts /\ (\A i \in 1 .. n : cash(i) \in Accounts) /\ x \in Nat
    BY <2>1, SpendLegs, SettleParts
  <2>3. SettleCovered(t)
    BY <1>2, <1>6 DEF CoverInv
  <2>4. /\ Covers(t, f, Due(s, l)) /\ Covers(t, cash(l), x)
        /\ \A i \in 1 .. n : i < l => Covers(t, cash(i), 0)
    <3>1. Covers(t, f, Due(s, IF Written(t, f) THEN l + 1 ELSE l))
      BY <2>1, <2>3 DEF SettleCovered
    <3>2. ASSUME NEW i \in 1 .. n
          PROVE  /\ i < l => Covers(t, cash(i), 0)
                 /\ i = l /\ Unwritten(t, cash(i)) => Covers(t, cash(i), SettleOf[s].lines[i].amount)
      BY <2>1, <2>3 DEF SettleCovered
    <3>3. Covers(t, f, Due(s, l)) /\ Covers(t, cash(l), x)
      BY <1>4, <2>1, <3>1, <3>2
    <3> QED  BY <3>2, <3>3
  <2>5. Due(s, l) = x + Due(s, l + 1) /\ Due(s, l + 1) \in Nat
    <3>1. l + 1 \in Nat /\ l + 1 > 0
      BY <2>1
    <3> QED  BY <2>1, <3>1, DueTake, DueIn
  <2>6. Covers(t, f, Due(s, l + 1)) /\ Covers(t, cash(l), 0)
    <3>1. t.view[f] \in Int /\ t.view[cash(l)] \in Int
      BY <1>2, <2>1, <2>2
    <3> HIDE DEF cash, f, x
    <3>2. f \in t.held /\ t.view[f] >= Due(s, l + 1)
      BY <2>2, <2>4, <2>5, <3>1 DEF Covers
    <3>3. cash(l) \in t.held /\ t.view[cash(l)] >= 0
      BY <2>2, <2>4, <3>1 DEF Covers
    <3> QED  BY <3>2, <3>3 DEF Covers
  <2>7. /\ Covers(u, f, Due(s, l)) /\ Covers(u, f, Due(s, l + 1))
        /\ Covers(u, cash(l), x) /\ Covers(u, cash(l), 0)
        /\ \A i \in 1 .. n : i < l => Covers(u, cash(i), 0)
    BY <1>3, <2>1, <2>2, <2>4, <2>6
  <2>8. SettleCovered(u)
    BY <1>1, <2>1, <2>7 DEF SettleCovered
  <2> QED  BY <1>1, <1>6, <2>1, <2>8 DEF CoverInv
<1>7. CASE t.req[1] \notin {"remit", "settle"}
  BY <1>1, <1>7 DEF CoverInv
<1> QED  BY <1>5, <1>6, <1>7

\* One leg: what it takes from an account was still owed by it.
LEMMA CoverLeg ==
  ASSUME IInv, SpendInv, NEW w \in Workers, Leg(w)
  PROVE  CoverInv(tx'[w])
<1> DEFINE t == tx[w]
           u == tx'[w]
           a == NextLeg(w)
           last == t.todo = {a}
<1>1. /\ t.at = "legs" /\ t.req \in Req /\ t.line \in 1 .. Lines(t.req) /\ t.line \in Nat
      /\ a \in t.todo /\ a \in Accounts /\ u.req = t.req
      /\ u.held = t.held \union {a} /\ u.todo = t.todo \ {a}
      /\ u.view = [t.view EXCEPT ![a] = View(w, a) + LegsOf(w)[a]]
      /\ \/ /\ ~last /\ u.at = "legs" /\ u.line = t.line
         \/ /\ last /\ u.at = "hold" /\ t.req[1] = "settle"
            /\ t.line < Lines(t.req) /\ u.line = t.line + 1
         \/ /\ last /\ u.at = "seal" /\ t.req[1] \in {"refund", "payout"}
            /\ u.line = t.line /\ t.line = Lines(t.req)
         \/ /\ last /\ u.at = "end" /\ t.req[1] \notin {"refund", "payout"}
            /\ u.line = t.line /\ t.line = Lines(t.req)
  BY LegStep
<1>2. t.view \in [Accounts -> Int] /\ CoverInv(t)
  BY DEF IInv, TypeOK, Transaction, SpendInv
<1>3. \A b \in Accounts : b # a => u.view[b] = t.view[b] /\ (b \in t.held => b \in u.held)
  BY <1>1, <1>2
<1>4. a \in t.held => u.view[a] = t.view[a] + LegsOf(w)[a] /\ a \in u.held
  BY <1>1, <1>2 DEF View
<1>5. \A b : Unwritten(t, b) <=> ~Written(t, b)
  BY <1>1 DEF Written, Unwritten
<1>6. /\ \A b : b # a /\ Written(t, b) => ~Unwritten(u, b)
      /\ \A b : Unwritten(u, b) => b # a /\ Unwritten(t, b)
      /\ ~last => \A b : Written(u, b) <=> (b = a \/ Written(t, b))
      /\ last => \A b : ~Unwritten(u, b) /\ (b # a => Written(t, b))
  BY <1>1 DEF Written, Unwritten
<1>10. Unwritten(t, a) /\ ~Unwritten(u, a)
  BY <1>1, <1>6 DEF Unwritten
<1>7. CASE t.req[1] = "remit"
  <2> DEFINE x == RemitOf[t.req[2]]
             d == DriverCash(x.driver)
  <2>1. t.req[2] \in Remits
    BY <1>1, <1>7, ReqParts
  <2>2. /\ d \in Accounts /\ x.amount \in Nat /\ LegsOf(w) = Remittance(t.req[2])
        /\ LegsOf(w)[d] = -x.amount
    BY <1>7, <2>1, SpendLegs DEF LegsOf, Kind, Id
  <2>3. Covers(t, d, IF Unwritten(t, d) THEN x.amount ELSE 0)
    BY <1>1, <1>2, <1>7 DEF CoverInv, RemitCovered
  <2>4. u.at \in {"legs", "end"}
    BY <1>1, <1>7
  <2>5. CASE a = d
    <3>1. Unwritten(t, d) /\ ~Unwritten(u, d)
      BY <1>10, <2>5
    <3>2. d \in t.held /\ t.view[d] >= x.amount /\ t.view[d] \in Int
      <4>1. Covers(t, d, x.amount)
        BY <2>3, <3>1
      <4>2. t.view[d] \in Int
        BY <1>2, <2>2
      <4> QED  BY <4>1, <4>2 DEF Covers
    <3>3. Covers(u, d, 0)
      BY <1>4, <2>2, <2>5, <3>2 DEF Covers
    <3> QED  BY <1>1, <1>7, <2>4, <3>1, <3>3 DEF CoverInv, RemitCovered
  <2>6. CASE a # d
    <3>1. Covers(u, d, IF Unwritten(t, d) THEN x.amount ELSE 0)
      BY <1>3, <2>2, <2>3, <2>6 DEF Covers
    <3>2. Covers(u, d, IF Unwritten(u, d) THEN x.amount ELSE 0)
      <4>1. CASE Unwritten(u, d)
        BY <1>6, <3>1, <4>1
      <4>2. CASE ~Unwritten(u, d)
        <5>1. u.view[d] \in Int
          BY <1>2, <1>3, <2>2, <2>6
        <5>2. d \in u.held /\ u.view[d] >= 0
          <6> HIDE DEF d
          <6>1. CASE Unwritten(t, d)
            <7>1. Covers(u, d, x.amount)
              BY <3>1, <6>1, Zenon
            <7>2. x.amount \in Nat
              BY <2>2
            <7> HIDE DEF x
            <7> QED  BY <5>1, <7>1, <7>2 DEF Covers
          <6>2. CASE ~Unwritten(t, d)
            BY <3>1, <5>1, <6>2 DEF Covers
          <6> QED  BY <6>1, <6>2
        <5> QED  BY <4>2, <5>2 DEF Covers
      <4> QED  BY <4>1, <4>2
    <3> QED  BY <1>1, <1>7, <2>4, <3>2 DEF CoverInv, RemitCovered
  <2> QED  BY <2>5, <2>6
<1>8. CASE t.req[1] = "settle"
  <2> DEFINE s == t.req[2]
             f == FleetCash(SettleOf[s].fleet)
             n == Len(SettleOf[s].lines)
             l == t.line
             x == SettleOf[s].lines[l].amount
             cash(i) == DriverCash(SettleOf[s].lines[i].driver)
  <2>1. /\ s \in Settles /\ n \in Nat /\ l \in 1 .. n /\ l \in Nat /\ l > 0
        /\ DOMAIN SettleOf[s].lines = 1 .. n /\ Lines(t.req) = n
    BY <1>1, <1>8, ReqParts, LineNumbers, SettleParts
  <2>2. /\ f \in Accounts /\ (\A i \in 1 .. n : cash(i) \in Accounts) /\ x \in Nat
        /\ cash(l) # f /\ LegsOf(w) = SettlementLine(s, l)
        /\ LegsOf(w)[cash(l)] = -x /\ LegsOf(w)[f] = -x
        /\ \A b \in Accounts \ {cash(l), f} : LegsOf(w)[b] = 0
    <3>1. LegsOf(w) = SettlementLine(s, l)
      BY <1>8 DEF LegsOf, Kind, Id
    <3>2. /\ f \in Accounts /\ cash(l) # f
          /\ SettlementLine(s, l)[cash(l)] = -x /\ SettlementLine(s, l)[f] = -x
          /\ \A b \in Accounts \ {cash(l), f} : SettlementLine(s, l)[b] = 0
      BY <2>1, SpendLegs
    <3>3. (\A i \in 1 .. n : cash(i) \in Accounts) /\ x \in Nat
      BY <2>1, SpendLegs, SettleParts
    <3> QED  BY <3>1, <3>2, <3>3
  <2>3. \A i \in 1 .. n : i # l => cash(i) # cash(l)
    <3>1. \A i \in 1 .. n : i # l => SettleOf[s].lines[i].driver # SettleOf[s].lines[l].driver
      BY <2>1, SettleParts
    <3> QED  BY <3>1 DEF DriverCash
  <2>4. \A i \in 1 .. n : cash(i) # f
    BY DEF DriverCash, FleetCash
  <2> HIDE DEF cash, f, x
  <2>5. /\ Covers(t, f, Due(s, IF Written(t, f) THEN l + 1 ELSE l))
        /\ \A i \in 1 .. n : i < l => Covers(t, cash(i), 0)
        /\ Written(t, cash(l)) => Covers(t, cash(l), 0)
        /\ Unwritten(t, cash(l)) => Covers(t, cash(l), x)
    <3>1. SettleCovered(t)
      BY <1>2, <1>8 DEF CoverInv
    <3>2. Covers(t, f, Due(s, IF Written(t, f) THEN l + 1 ELSE l))
      BY <2>1, <3>1 DEF SettleCovered, f
    <3>3. \A i \in 1 .. n :
            /\ i < l \/ (i = l /\ Written(t, cash(i))) => Covers(t, cash(i), 0)
            /\ i = l /\ Unwritten(t, cash(i)) => Covers(t, cash(i), SettleOf[s].lines[i].amount)
      BY <2>1, <3>1 DEF SettleCovered, cash
    <3>4. /\ l < l \/ (l = l /\ Written(t, cash(l))) => Covers(t, cash(l), 0)
          /\ l = l /\ Unwritten(t, cash(l)) => Covers(t, cash(l), SettleOf[s].lines[l].amount)
      BY <2>1, <3>3
    <3>5. \A i \in 1 .. n : i < l => Covers(t, cash(i), 0)
      BY <3>3
    <3> QED  BY <3>2, <3>4, <3>5 DEF x
  <2>6. Due(s, l) = x + Due(s, l + 1) /\ Due(s, l + 1) \in Nat
    <3>1. l + 1 \in Nat /\ l + 1 > 0
      BY <2>1
    <3> QED  BY <2>1, <3>1, DueTake, DueIn DEF x
  <2>7. Unwritten(t, a)
    BY <1>1 DEF Unwritten
  \* The company's account.
  <2>8. /\ (a = f \/ Written(t, f)) => Covers(u, f, Due(s, l + 1))
        /\ ~(a = f \/ Written(t, f)) => Covers(u, f, Due(s, l))
    <3>1. CASE a = f
      <4>1. ~Written(t, f)
        BY <1>5, <2>7, <3>1
      <4>2. f \in t.held /\ t.view[f] >= Due(s, l) /\ t.view[f] \in Int
        BY <1>2, <2>2, <2>5, <4>1 DEF Covers
      <4> QED  BY <1>4, <2>2, <2>6, <3>1, <4>2 DEF Covers
    <3>2. CASE a # f
      BY <1>3, <2>2, <2>5, <3>2 DEF Covers
    <3> QED  BY <3>1, <3>2
  \* The driver of this line.
  <2>9. /\ (a = cash(l) \/ Written(t, cash(l))) => Covers(u, cash(l), 0)
        /\ ~(a = cash(l) \/ Written(t, cash(l))) => Covers(u, cash(l), x)
    <3>1. cash(l) \in Accounts
      BY <2>1, <2>2
    <3>2. CASE a = cash(l)
      <4>1. cash(l) \in t.held /\ t.view[cash(l)] >= x /\ t.view[cash(l)] \in Int
        BY <1>2, <2>5, <2>7, <3>1, <3>2 DEF Covers
      <4> QED  BY <1>4, <2>2, <3>2, <4>1 DEF Covers
    <3>3. CASE a # cash(l)
      BY <1>3, <1>5, <2>5, <3>1, <3>3 DEF Covers
    <3> QED  BY <3>2, <3>3
  \* The drivers of the lines before it.
  <2>10. ASSUME NEW i \in 1 .. n, i < l
         PROVE  Covers(u, cash(i), 0)
    <3>1. cash(i) \in Accounts /\ cash(i) # f /\ cash(i) # cash(l)
      BY <2>1, <2>2, <2>3, <2>4, <2>10
    <3>2. Covers(t, cash(i), 0)
      BY <2>1, <2>4, <2>5, <2>10
    <3>3. CASE a = cash(i)
      <4>1. LegsOf(w)[cash(i)] = 0 /\ t.view[cash(i)] \in Int
        BY <1>2, <2>2, <3>1
      <4> QED  BY <1>4, <3>2, <3>3, <4>1 DEF Covers
    <3>4. CASE a # cash(i)
      BY <1>3, <3>1, <3>2, <3>4 DEF Covers
    <3> QED  BY <3>3, <3>4
  <2>11. CASE ~last
    <3>1. u.at = "legs" /\ u.line = l
      BY <1>1, <2>11
    <3>2. Covers(u, f, Due(s, IF Written(u, f) THEN l + 1 ELSE l))
      BY <1>6, <2>8, <2>11
    <3>3. /\ Written(u, cash(l)) => Covers(u, cash(l), 0)
          /\ Unwritten(u, cash(l)) => Covers(u, cash(l), x)
      BY <1>5, <1>6, <2>9, <2>11
    <3>4. SettleCovered(u)
      BY <1>1, <2>1, <2>10, <3>1, <3>2, <3>3 DEF SettleCovered, cash, f, x
    <3> QED  BY <1>1, <1>8, <3>4 DEF CoverInv
  <2>12. CASE last /\ u.at = "hold"
    <3>1. u.line = l + 1 /\ \A b : ~Written(u, b) /\ ~Unwritten(u, b)
      BY <1>1, <2>12 DEF Written, Unwritten
    <3>2. Covers(u, f, Due(s, l + 1)) /\ Covers(u, cash(l), 0)
      BY <1>6, <2>8, <2>9, <2>12
    <3>3. \A i \in 1 .. n : i < u.line => Covers(u, cash(i), 0)
      <4>1. \A i \in 1 .. n : i < u.line => i < l \/ i = l
        BY <2>1, <3>1
      <4> QED  BY <2>10, <3>2, <4>1
    <3>4. SettleCovered(u)
      BY <1>1, <2>1, <2>12, <3>1, <3>2, <3>3 DEF SettleCovered, cash, f, x
    <3> QED  BY <1>1, <1>8, <3>4 DEF CoverInv
  <2>13. CASE last /\ u.at = "end"
    <3>1. u.line = l /\ l = n /\ \A b : Written(u, b) /\ ~Unwritten(u, b)
      BY <1>1, <2>1, <2>13 DEF Written, Unwritten
    <3>2. Covers(u, f, Due(s, l + 1)) /\ Covers(u, cash(l), 0)
      BY <1>6, <2>8, <2>9, <2>13
    <3>3. SettleCovered(u)
      BY <1>1, <2>1, <2>10, <2>13, <3>1, <3>2 DEF SettleCovered, cash, f, x
    <3> QED  BY <1>1, <1>8, <3>3 DEF CoverInv
  <2> QED  BY <1>1, <1>8, <2>11, <2>12, <2>13
<1>9. CASE t.req[1] \notin {"remit", "settle"}
  BY <1>1, <1>9 DEF CoverInv
<1> QED  BY <1>7, <1>8, <1>9
LEMMA SpendStep == IInv /\ SpendInv /\ [Next]_vars => SpendInv'
<1> SUFFICES ASSUME IInv, SpendInv, [Next]_vars, NEW q \in Workers
             PROVE  CoverInv(tx'[q])
  BY DEF SpendInv
<1>1. CASE tx'[q] = tx[q]
  BY <1>1 DEF SpendInv
<1>2. CASE tx'[q] = Idle
  BY <1>2 DEF CoverInv, Idle, NoReq
<1>3. ASSUME NEW w \in Workers, Quiet(w) \/ (Drop(w) /\ UNCHANGED Rest)
      PROVE  q # w \/ Drop(w) => CoverInv(tx'[q])
  BY <1>1, <1>2, <1>3 DEF Quiet, Drop, IInv, TypeOK
<1>4. CASE ~\E w \in Workers : Step(w)
  BY <1>1, <1>4 DEF Next, CreatePayment, RequestRefund, Tick, GenerateStatement, vars
<1>5. ASSUME NEW w \in Workers, Step(w)
      PROVE  CoverInv(tx'[q])
  <2>1. CASE \E r \in Req : Begin(w, r)
    <3>1. PICK r \in Req : Begin(w, r)
      BY <2>1
    <3>2. Quiet(w) /\ tx'[w].req = r /\ tx'[w].at = First(r) /\ tx'[w].line = FirstLine(r)
      BY <3>1, BeginQuiet
    <3>3. CASE q = w
      <4>1. r[1] = "remit" => RemitCovered(tx'[w])
        BY <3>2 DEF First, RemitCovered
      <4>2. r[1] = "settle" => SettleCovered(tx'[w])
        BY <3>2, LineNumbers DEF SettleCovered
      <4>3. r[1] = "settle" => tx'[w].at = "hold"
        BY <3>2 DEF First
      <4> QED  BY <3>2, <3>3, <4>1, <4>2, <4>3 DEF CoverInv
    <3> QED  BY <1>3, <3>2, <3>3
  <2>2. CASE Read(w) \/ Claim(w) \/ Unclaimed(w) \/ Seal(w) \/ Stamp(w)
    <3>1. (Quiet(w) /\ tx'[w].req = tx[w].req) \/ (Drop(w) /\ UNCHANGED Rest)
      BY <2>2, RowsQuiet
    <3>2. tx[w].req[1] \notin {"remit", "settle"}
      <4>1. Running(tx[w]) /\ tx[w].at \in {"read", "claim", "seal", "stamp"}
        BY <2>2 DEF Read, Claim, Unclaimed, Seal, Stamp, At, IInv, TxInv
      <4> QED  BY <4>1 DEF Running, Claiming
    <3> QED  BY <1>3, <3>1, <3>2 DEF CoverInv
  <2>3. CASE NoLegs(w)
    <3>1. At(w, "post") /\ Touched(LegsOf(w)) = {} /\ Goto(w, After(w))
      BY <2>3 DEF NoLegs
    <3>2. ~Booking(tx[w].req) /\ tx[w] \in Transaction /\ tx[w].req \in Req /\ tx[w].at = "post"
      BY <3>1, AtPost
    <3>3. /\ \A p \in Workers : p # w => tx'[p] = tx[p]
          /\ tx'[w] = [tx[w] EXCEPT !.at = After(w)]
      BY <3>1 DEF Goto, IInv, TypeOK
    <3>4. tx[w].req[1] # "settle"
      BY <3>2 DEF Booking
    <3>5. ASSUME tx[w].req[1] = "remit"
          PROVE  FALSE
      <4>1. tx[w].req[2] \in Remits
        BY <3>2, <3>5, ReqParts
      <4>2. /\ RemitOf[tx[w].req[2]].amount \in Nat /\ RemitOf[tx[w].req[2]].amount # 0
            /\ LegsOf(w) = Remittance(tx[w].req[2])
        BY <3>5, <4>1, AmountAssumption DEF LegsOf, Kind, Id
      <4>3. DriverCash(RemitOf[tx[w].req[2]].driver) \in Touched(LegsOf(w))
        BY <4>1, <4>2, SpendLegs DEF Touched
      <4> QED  BY <3>1, <4>3
    <3>6. tx'[w].req = tx[w].req
      BY <3>2, <3>3 DEF Transaction
    <3> QED  BY <1>1, <3>3, <3>4, <3>5, <3>6 DEF CoverInv
  <2>4. CASE Short(w) \/ Replay(w) \/ Unbalanced(w) \/ Abort(w)
    <3>1. Drop(w) /\ UNCHANGED Rest
      BY <2>4 DEF Short, Replay, Unbalanced, Abort
    <3> QED  BY <1>3, <3>1
  <2>5. CASE Hold(w)
    <3>1. \A p \in Workers : p # w => tx'[p] = tx[p]
      BY <2>5, HoldStep
    <3> QED  BY <1>1, <2>5, <3>1, CoverHold
  <2>6. CASE Header(w)
    <3>1. \A p \in Workers : p # w => tx'[p] = tx[p]
      BY <2>6, HeaderStep
    <3> QED  BY <1>1, <2>6, <3>1, CoverHeader
  <2>7. CASE Leg(w)
    <3>1. \A p \in Workers : p # w => tx'[p] = tx[p]
      BY <2>7, LegStep
    <3> QED  BY <1>1, <2>7, <3>1, CoverLeg
  <2>8. CASE Commit(w)
    BY <1>1, <1>2, <2>8, CommitTypes
  <2> QED  BY <1>5, <2>1, <2>2, <2>3, <2>4, <2>5, <2>6, <2>7, <2>8 DEF Step
<1> QED  BY <1>4, <1>5

LEMMA SpendInit == Init => SpendInv
BY DEF Init, SpendInv, CoverInv, Idle, NoReq

\* What a commit takes from an account leaves it at zero or above.
LEMMA CommitCovered ==
  ASSUME IInv, FitInv, SpendInv, NEW w \in Workers, Commit(w),
         NEW e \in tx[w].made, e.key[1] \in {"remit", "line"},
         NEW a \in Accounts, e.legs[a] < 0
  PROVE  balance'[a] >= 0
<1> DEFINE t == tx[w]
<1>1. /\ t.at = "end" /\ t.req \in Req /\ balance'[a] = View(w, a)
      /\ CoverInv(t) /\ MadeInv(t) /\ Fits(e) /\ t.view[a] \in Int
  <2>1. t.at = "end" /\ balance'[a] = View(w, a)
    BY DEF Commit, At
  <2> QED  BY <2>1 DEF IInv, TxInv, Running, SpendInv, FitInv, TypeOK, Transaction
<1>2. PICK i \in 1 .. Lines(t.req) : e.key = KeyOf(t.req, i)
  BY <1>1 DEF MadeInv, Posted
<1>3. SUFFICES Covers(t, a, 0)
  BY <1>1 DEF Covers, View
<1>4. \A b : Written(t, b) /\ ~Unwritten(t, b)
  BY <1>1, Reached
<1>5. CASE t.req[1] = "remit"
  <2> DEFINE d == DriverCash(RemitOf[t.req[2]].driver)
  <2>1. t.req[2] \in Remits /\ e.key = t.req
    BY <1>1, <1>2, <1>5, ReqParts DEF KeyOf
  <2>2. e.legs = Remittance(t.req[2])
    BY <1>1, <1>5, <2>1 DEF Fits
  <2>3. \A b \in Accounts \ {d} : Remittance(t.req[2])[b] >= 0
    BY <2>1, SpendLegs
  <2>4. e.legs[a] \in Int
    BY LegOf DEF IInv, TypeOK, Transaction
  <2>5. a = d
    BY <2>2, <2>3, <2>4
  <2>6. Covers(t, d, 0)
    BY <1>1, <1>4, <1>5 DEF CoverInv, RemitCovered
  <2> QED  BY <2>5, <2>6
<1>6. CASE t.req[1] = "settle"
  <2> DEFINE s == t.req[2]
             f == FleetCash(SettleOf[s].fleet)
             n == Len(SettleOf[s].lines)
             d == DriverCash(SettleOf[s].lines[i].driver)
  <2>1. /\ s \in Settles /\ n \in Nat /\ i \in 1 .. n /\ Lines(t.req) = n
        /\ DOMAIN SettleOf[s].lines = 1 .. n
    BY <1>1, <1>6, ReqParts, LineNumbers, SettleParts
  <2>2. e.key = <<"line", <<s, i>>>>
    BY <1>2, <1>6 DEF KeyOf
  <2>3. e.legs = SettlementLine(s, i)
    BY <1>1, <2>2 DEF Fits
  <2>4. \A b \in Accounts \ {d, f} : SettlementLine(s, i)[b] = 0
    BY <2>1, SpendLegs
  <2>5. a = d \/ a = f
    BY <2>3, <2>4
  <2>6. SettleCovered(t) /\ t.line \in 0 .. n
    BY <1>1, <1>6, <2>1, LineNumbers DEF CoverInv, IInv, TxInv, Running
  <2>7. t.line > 0
    <3>1. t.line # 0
      BY <1>1, <1>6 DEF CoverInv
    <3> QED  BY <2>1, <2>6, <3>1
  <2>8. t.line = n /\ Covers(t, f, Due(s, n + 1)) /\ Covers(t, d, 0)
    <3>1. /\ t.line = Lines(t.req)
          /\ Covers(t, f, Due(s, IF Written(t, f) THEN t.line + 1 ELSE t.line))
          /\ \A j \in DOMAIN SettleOf[s].lines :
               j < t.line \/ (j = t.line /\ Written(t, DriverCash(SettleOf[s].lines[j].driver)))
                 => Covers(t, DriverCash(SettleOf[s].lines[j].driver), 0)
      BY <1>1, <2>6, <2>7 DEF SettleCovered
    <3>2. t.line = n
      BY <2>1, <3>1, Zenon
    <3>3. i < n \/ i = n
      <4> HIDE DEF n
      <4> QED  BY <2>1
    <3>4. Covers(t, f, Due(s, n + 1))
      BY <1>4, <3>1, <3>2, Zenon
    <3>5. Covers(t, d, 0)
      BY <1>4, <2>1, <3>1, <3>2, <3>3
    <3> QED  BY <3>2, <3>4, <3>5
  <2>9. Due(s, n + 1) = 0
    BY <2>1, DueNone
  <2> QED  BY <2>5, <2>8, <2>9
<1>7. CASE t.req[1] \notin {"remit", "settle"}
  <2>1. e.key[1] \notin {"remit", "line"}
    BY <1>1, <1>2, <1>7, ReqParts DEF KeyOf, Marking, Claiming
  <2> QED  BY <2>1
<1> QED  BY <1>5, <1>6, <1>7

\* A hand-in at the cash desk and a settlement of a delivery company never take
\* an account below zero, however many are submitted at once: the guard locks
\* the account until the commit (remittanceService.ts, fleetCashService.ts).
THEOREM SpendingIsCovered == Spec => SpendCovered
<1>1. IInv /\ FitInv /\ SpendInv /\ [Next]_vars =>
        [\A e \in books' \ books :
           e.key[1] \in {"remit", "line"} =>
             \A a \in Accounts : e.legs[a] < 0 => balance'[a] >= 0]_vars
  <2> SUFFICES ASSUME IInv, FitInv, SpendInv, [Next]_vars, NEW e \in books' \ books,
                      e.key[1] \in {"remit", "line"}, NEW a \in Accounts, e.legs[a] < 0
               PROVE  balance'[a] >= 0
    OBVIOUS
  <2>1. CASE \E w \in Workers : Commit(w)
    <3>1. PICK w \in Workers : Commit(w)
      BY <2>1
    <3>2. e \in tx[w].made
      BY <3>1 DEF Commit
    <3> QED  BY <3>1, <3>2, CommitCovered
  <2>2. CASE \E w \in Workers : Header(w)
    <3>1. UNCHANGED books
      BY <2>2, HeaderStep DEF Rest
    <3> QED  BY <3>1
  <2> QED  BY <2>1, <2>2, Makes
<1>2. Spec => []FitInv
  BY FitInit, FitStep, WalletInvariant, PTL DEF Spec
<1>3. Spec => []SpendInv
  BY SpendInit, SpendStep, WalletInvariant, PTL DEF Spec
<1> QED  BY <1>1, <1>2, <1>3, WalletInvariant, PTL DEF Spec, SpendCovered
=============================================================================
