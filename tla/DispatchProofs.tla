--------------------------- MODULE DispatchProofs ---------------------------
(*****************************************************************************)
(* Theorems about Dispatch, for any number of orders, drivers and rounds in  *)
(* flight.  The invariant has two parts that are coupled: what is known of   *)
(* the table of offers (TableInv, a predicate on a set of rows, so that a    *)
(* transaction that changes the table twice is two uses of a lemma), and     *)
(* what a round in flight may still do to it (RoundOwnsBatch).               *)
(*****************************************************************************)
EXTENDS Dispatch, TLAPS

----------------------------------------------------------------------------
(* The inductive invariant *)

\* @@unique([orderId, driverId, round])
KeysUnique(T) == \A x, y \in T : Key(x) = Key(y) => x = y

\* Rows of a manual assignment are ACCEPTED from the start.
ManualAccepted(T) == \A x \in T : x.round = ManualRound => x.status = "ACCEPTED"

\* The offers of one batch.
BatchMates(T) ==
  \A x, y \in T : (x.batch = y.batch /\ x.batch # NoBatch /\ x # y) =>
    /\ x.order # y.order /\ x.driver = y.driver
    /\ Open(x) /\ Open(y) => x.elapsed = y.elapsed

\* A batch carries the key of an offer that was made.
BatchKeyed(T) == \A x \in T : x.batch # NoBatch => \E y \in T : Key(y) = x.batch

\* A batch of which one offer was accepted has no open one.
Whole(T) ==
  \A x, y \in T : x.status = "ACCEPTED" /\ x.batch # NoBatch /\ y.batch = x.batch => ~Open(y)

TableInv(T) == /\ T \subseteq Offer
               /\ KeysUnique(T) /\ ManualAccepted(T) /\ BatchMates(T) /\ BatchKeyed(T)

\* What a round in flight has read by the time it reaches a stage.
RoundsRead ==
  \A w \in Workers :
    /\ rounds[w].stage # "idle" => rounds[w].order \in Orders
    /\ rounds[w].stage \in {"commit", "sibling", "attach"} => rounds[w].driver \in Drivers
    /\ rounds[w].stage = "commit" => rounds[w].at < MaxOfferRounds
    /\ rounds[w].stage = "attach" => /\ rounds[w].sib \in Orders
                                     /\ rounds[w].sib # rounds[w].order
                                     /\ BatchingEnabled

\* A round that may still form a batch has made its primary offer, and the batch
\* it may form does not exist yet.
MayBatch(w) == rounds[w].stage \in {"sibling", "attach"}
RoundOwnsBatch ==
  \A w \in Workers : MayBatch(w) =>
    /\ \E y \in offers : Key(y) = RoundKey(rounds[w])
    /\ \A x \in offers : x.batch # RoundKey(rounds[w])
    /\ \A v \in Workers : v # w /\ MayBatch(v) => RoundKey(rounds[v]) # RoundKey(rounds[w])

IInv ==
  /\ TypeOK /\ RoundsRead /\ RoundOwnsBatch
  /\ TableInv(offers) /\ Whole(offers) /\ OneWinner /\ DriverMatchesStatus

----------------------------------------------------------------------------
(* Offers as records *)

LEMMA KeyEq ==
  ASSUME NEW x, NEW y, Key(x) = Key(y)
  PROVE  x.order = y.order /\ x.driver = y.driver /\ x.round = y.round
BY DEF Key

LEMMA KeyType ==
  ASSUME NEW x \in Offer
  PROVE  Key(x) \in Orders \X Drivers \X Round
BY DEF Key, Offer

LEMMA ClosedFacts ==
  ASSUME NEW x \in Offer, NEW to \in OfferStatus
  PROVE  /\ Closed(x, to) \in Offer
         /\ Closed(x, to).order = x.order /\ Closed(x, to).driver = x.driver
         /\ Closed(x, to).round = x.round /\ Closed(x, to).batch = x.batch
         /\ Closed(x, to).status = to
         /\ Key(Closed(x, to)) = Key(x)
BY DEF Closed, Offer, Key

LEMMA NewOfferFacts ==
  ASSUME NEW o \in Orders, NEW d \in Drivers, NEW r \in Round, NEW e \in BOOLEAN,
         NEW b \in (Orders \X Drivers \X Round) \cup {NoBatch}
  PROVE  /\ NewOffer(o, d, r, e, b) \in Offer
         /\ NewOffer(o, d, r, e, b).order = o /\ NewOffer(o, d, r, e, b).driver = d
         /\ NewOffer(o, d, r, e, b).round = r /\ NewOffer(o, d, r, e, b).batch = b
         /\ NewOffer(o, d, r, e, b).elapsed = e
         /\ NewOffer(o, d, r, e, b).status = "OFFERED"
         /\ Key(NewOffer(o, d, r, e, b)) = <<o, d, r>>
BY DEF NewOffer, Offer, Key, OfferStatus

LEMMA NoBatchIsNoKey ==
  ASSUME NEW o \in Orders, NEW d, NEW r
  PROVE  <<o, d, r>> # NoBatch
BY DispatchAssumption DEF DispatchAssumption, NoBatch

----------------------------------------------------------------------------
(* What the transactions do to a table of offers *)

\* No row disappears, and a row that was closed keeps its status.
Kept(T, U) == \A x \in T : \E y \in U : Key(y) = Key(x) /\ (Open(x) \/ y.status = x.status)

\* No row, no batch and no open offer is new.
Old(T, U) == \A y \in U : \E x \in T : Key(y) = Key(x) /\ y.batch = x.batch /\ (Open(y) => Open(x))

Accepted(T, o) == {x \in T : x.order = o /\ x.status = "ACCEPTED"}

\* An offer past its expiry, and the primary offer of a batch.
Elapsed(y) == [y EXCEPT !.elapsed = TRUE]
Stamped(x) == [x EXCEPT !.batch = Key(x)]

\* A table after the rows of S were closed alike, each on its own, or timed out.
SetIn(T, S, to) == (T \ S) \cup {Closed(x, to) : x \in S}
ClosedIn(T, S, t) == (T \ S) \cup {Closed(x, t[x]) : x \in S}
ElapsedIn(T, S) == (T \ S) \cup {Elapsed(y) : y \in S}

\* Nothing that is neither opened nor accepted makes a batch less whole.
LEMMA WholeOld ==
  ASSUME NEW T, NEW U, Whole(T), Old(T, U), \A o : Accepted(U, o) = Accepted(T, o)
  PROVE  Whole(U)
<1> SUFFICES ASSUME NEW x \in U, NEW y \in U, x.status = "ACCEPTED", x.batch # NoBatch,
                    y.batch = x.batch, Open(y)
             PROVE  FALSE
  BY DEF Whole
<1>1. x \in T
  BY DEF Accepted
<1>2. PICK v \in T : v.batch = y.batch /\ Open(v)
  BY DEF Old
<1> QED  BY <1>1, <1>2 DEF Whole

\* Closing the open offers of S, each with a status of its own.
LEMMA CloseTable ==
  ASSUME NEW T, TableInv(T), NEW S \in SUBSET T, \A x \in S : Open(x),
         NEW t \in [S -> OfferStatus \ {"OFFERED"}],
         NEW U, U = ClosedIn(T, S, t)
  PROVE  TableInv(U) /\ Kept(T, U) /\ Old(T, U)
<1> USE DEF ClosedIn
<1>1. T \subseteq Offer /\ \A x \in S : t[x] \in OfferStatus /\ t[x] # "OFFERED"
  BY DEF TableInv
<1>2. \A x \in S : /\ Closed(x, t[x]) \in Offer /\ Closed(x, t[x]).order = x.order
                   /\ Closed(x, t[x]).driver = x.driver /\ Closed(x, t[x]).round = x.round
                   /\ Closed(x, t[x]).batch = x.batch /\ Closed(x, t[x]).status = t[x]
                   /\ Key(Closed(x, t[x])) = Key(x) /\ ~Open(Closed(x, t[x]))
                   /\ x.status = "OFFERED"
  BY <1>1, ClosedFacts DEF Open
<1>3. Kept(T, U)
  BY <1>1, <1>2 DEF Kept
<1>4. \A y \in U : \E x \in T :
        /\ Key(y) = Key(x) /\ y.batch = x.batch
        /\ y = x \/ (x \in S /\ y = Closed(x, t[x]))
        /\ x \in S => y = Closed(x, t[x])
  BY <1>1, <1>2
<1>5. U \subseteq Offer /\ Old(T, U)
  BY <1>1, <1>2 DEF Old
<1>6. KeysUnique(U)
  <2> SUFFICES ASSUME NEW y1 \in U, NEW y2 \in U, Key(y1) = Key(y2)
               PROVE  y1 = y2
    BY DEF KeysUnique
  <2>1. PICK x1 \in T :
          /\ Key(y1) = Key(x1)
          /\ y1 = x1 \/ (x1 \in S /\ y1 = Closed(x1, t[x1]))
          /\ x1 \in S => y1 = Closed(x1, t[x1])
    BY <1>4
  <2>2. PICK x2 \in T :
          /\ Key(y2) = Key(x2)
          /\ y2 = x2 \/ (x2 \in S /\ y2 = Closed(x2, t[x2]))
          /\ x2 \in S => y2 = Closed(x2, t[x2])
    BY <1>4
  <2>3. x1 = x2
    BY <2>1, <2>2 DEF TableInv, KeysUnique
  <2> QED  BY <2>1, <2>2, <2>3
<1>7. ManualAccepted(U)
  BY <1>1, <1>2 DEF TableInv, ManualAccepted
<1>8. BatchMates(U)
  BY <1>1, <1>2 DEF TableInv, BatchMates
<1>9. BatchKeyed(U)
  <2> SUFFICES ASSUME NEW y \in U, y.batch # NoBatch
               PROVE  \E z \in U : Key(z) = y.batch
    BY DEF BatchKeyed
  <2>1. PICK x \in T : y.batch = x.batch
    BY <1>4
  <2>2. PICK v \in T : Key(v) = y.batch
    BY <2>1 DEF TableInv, BatchKeyed
  <2> QED  BY <2>2, <1>3 DEF Kept
<1> QED  BY <1>3, <1>5, <1>6, <1>7, <1>8, <1>9 DEF TableInv

\* Closing them all alike, and not as ACCEPTED.
LEMMA SetTable ==
  ASSUME NEW T, TableInv(T), NEW S \in SUBSET T, \A x \in S : Open(x),
         NEW to \in {"DECLINED", "EXPIRED", "CANCELLED"},
         NEW U, U = SetIn(T, S, to)
  PROVE  /\ TableInv(U) /\ Kept(T, U) /\ Old(T, U)
         /\ \A o : Accepted(U, o) = Accepted(T, o)
<1> DEFINE t == [x \in S |-> to]
<1>1. t \in [S -> OfferStatus \ {"OFFERED"}]
  BY DEF OfferStatus
<1>2. U = ClosedIn(T, S, t)
  BY DEF SetIn, ClosedIn
<1>3. TableInv(U) /\ Kept(T, U) /\ Old(T, U)
  <2> HIDE DEF t
  <2> QED  BY <1>1, <1>2, CloseTable
<1>4. \A x \in S : x.status # "ACCEPTED" /\ Closed(x, to).status # "ACCEPTED"
  BY ClosedFacts DEF Open, TableInv, OfferStatus
<1>5. \A o : Accepted(U, o) = Accepted(T, o)
  BY <1>4 DEF Accepted, SetIn
<1> QED  BY <1>3, <1>5

\* Time passes the expiry of an offer and of the live offers of its batch.
LEMMA ElapseTable ==
  ASSUME NEW T, TableInv(T), NEW S \in SUBSET T, \A y \in S : Live(y),
         NEW b, \A y \in T : y.batch = b /\ b # NoBatch /\ Live(y) => y \in S,
         \A y \in S : y.batch = b,
         \A y, z \in S : b = NoBatch => y = z,
         NEW U, U = ElapsedIn(T, S)
  PROVE  /\ TableInv(U) /\ Kept(T, U) /\ Old(T, U)
         /\ \A o : Accepted(U, o) = Accepted(T, o)
<1> DEFINE f(y) == Elapsed(y)
<1>1. T \subseteq Offer
  BY DEF TableInv
<1>2. \A y \in S : /\ f(y) \in Offer /\ f(y).order = y.order /\ f(y).driver = y.driver
                   /\ f(y).round = y.round /\ f(y).batch = y.batch
                   /\ f(y).status = y.status /\ f(y).elapsed = TRUE
                   /\ y.status = "OFFERED"
  BY <1>1 DEF Offer, Live, Open, Elapsed
<1>3. U = (T \ S) \cup {f(y) : y \in S}
  BY DEF ElapsedIn
<1> HIDE DEF f
<1>4. \A y \in S : Key(f(y)) = Key(y)
  BY <1>2 DEF Key
<1>5. Kept(T, U) /\ U \subseteq Offer
  BY <1>1, <1>2, <1>3, <1>4 DEF Kept
<1>6. Old(T, U)
  BY <1>2, <1>3, <1>4 DEF Old, Open
<1>7. \A y \in U : \E x \in T :
        /\ Key(y) = Key(x) /\ y.batch = x.batch
        /\ y = x \/ (x \in S /\ y = f(x))
        /\ x \in S => y = f(x)
  BY <1>2, <1>3, <1>4
<1>8. KeysUnique(U)
  <2> SUFFICES ASSUME NEW y1 \in U, NEW y2 \in U, Key(y1) = Key(y2)
               PROVE  y1 = y2
    BY DEF KeysUnique
  <2>1. PICK x1 \in T :
          /\ Key(y1) = Key(x1)
          /\ y1 = x1 \/ (x1 \in S /\ y1 = f(x1))
          /\ x1 \in S => y1 = f(x1)
    BY <1>7
  <2>2. PICK x2 \in T :
          /\ Key(y2) = Key(x2)
          /\ y2 = x2 \/ (x2 \in S /\ y2 = f(x2))
          /\ x2 \in S => y2 = f(x2)
    BY <1>7
  <2>3. x1 = x2
    BY <2>1, <2>2 DEF TableInv, KeysUnique
  <2> QED  BY <2>1, <2>2, <2>3
<1>9. ManualAccepted(U)
  BY <1>2, <1>3 DEF TableInv, ManualAccepted
<1>10. BatchMates(U)
  <2> SUFFICES ASSUME NEW y1 \in U, NEW y2 \in U, y1 # y2,
                      y1.batch = y2.batch, y1.batch # NoBatch
               PROVE  /\ y1.order # y2.order /\ y1.driver = y2.driver
                      /\ Open(y1) /\ Open(y2) => y1.elapsed = y2.elapsed
    BY DEF BatchMates
  <2>1. PICK x1 \in T : /\ x1 \in S => y1 = f(x1)
                        /\ x1 \notin S => y1 = x1
                        /\ y1.batch = x1.batch
    BY <1>7
  <2>2. PICK x2 \in T : /\ x2 \in S => y2 = f(x2)
                        /\ x2 \notin S => y2 = x2
                        /\ y2.batch = x2.batch
    BY <1>7
  <2>3. /\ x1.order # x2.order /\ x1.driver = x2.driver
        /\ Open(x1) /\ Open(x2) => x1.elapsed = x2.elapsed
    <3>1. x1 # x2
      BY <2>1, <2>2
    <3>2. x1.batch = x2.batch /\ x1.batch # NoBatch
      BY <2>1, <2>2
    <3>3. BatchMates(T)
      BY DEF TableInv
    <3> QED  BY <3>1, <3>2, <3>3 DEF BatchMates
  <2>4. /\ y1.order = x1.order /\ y1.driver = x1.driver /\ (Open(y1) => Open(x1))
        /\ y2.order = x2.order /\ y2.driver = x2.driver /\ (Open(y2) => Open(x2))
    <3>1. y1.order = x1.order /\ y1.driver = x1.driver /\ (Open(y1) => Open(x1))
      BY <1>2, <2>1 DEF Open
    <3>2. y2.order = x2.order /\ y2.driver = x2.driver /\ (Open(y2) => Open(x2))
      BY <1>2, <2>2 DEF Open
    <3> QED  BY <3>1, <3>2
  <2>5. Open(y1) /\ Open(y2) => y1.elapsed = y2.elapsed
    <3>1. CASE x1 \in S /\ x2 \in S
      BY <3>1, <1>2, <2>1, <2>2
    <3>2. CASE x1 \notin S /\ x2 \notin S
      BY <3>2, <2>1, <2>2, <2>3
    <3>3. CASE x1 \in S /\ x2 \notin S
      <4>1. Live(x1) /\ b # NoBatch /\ x2.batch = b /\ ~Live(x2)
        BY <3>3, <2>1, <2>2
      <4> QED  BY <4>1, <3>3, <2>2, <2>3, <2>4 DEF Live
    <3>4. CASE x1 \notin S /\ x2 \in S
      <4>1. Live(x2) /\ b # NoBatch /\ x1.batch = b /\ ~Live(x1)
        BY <3>4, <2>1, <2>2
      <4> QED  BY <4>1, <3>4, <2>1, <2>3, <2>4 DEF Live
    <3> QED  BY <3>1, <3>2, <3>3, <3>4
  <2> QED  BY <2>3, <2>4, <2>5
<1>11. BatchKeyed(U)
  <2> SUFFICES ASSUME NEW y \in U, y.batch # NoBatch
               PROVE  \E z \in U : Key(z) = y.batch
    BY DEF BatchKeyed
  <2>1. PICK x \in T : y.batch = x.batch
    BY <1>7
  <2>2. PICK v \in T : Key(v) = y.batch
    BY <2>1 DEF TableInv, BatchKeyed
  <2> QED  BY <2>2, <1>5 DEF Kept
<1>12. \A o : Accepted(U, o) = Accepted(T, o)
  BY <1>2, <1>3 DEF Accepted
<1> QED  BY <1>5, <1>6, <1>8, <1>9, <1>10, <1>11, <1>12 DEF TableInv

\* A row with a fresh key and no batch is added.
LEMMA AddTable ==
  ASSUME NEW T, TableInv(T), NEW z \in Offer, z.batch = NoBatch,
         z.round = ManualRound => z.status = "ACCEPTED",
         \A x \in T : Key(x) # Key(z),
         NEW U, U = T \cup {z}
  PROVE  /\ TableInv(U) /\ Kept(T, U)
         /\ Whole(T) => Whole(U)
         /\ \A o : Accepted(U, o) = Accepted(T, o) \cup Accepted({z}, o)
<1>1. Kept(T, U)
  BY DEF Kept
<1>2. U \subseteq Offer /\ KeysUnique(U) /\ ManualAccepted(U)
  BY DEF TableInv, KeysUnique, ManualAccepted
<1>3. BatchMates(U) /\ BatchKeyed(U)
  BY DEF TableInv, BatchMates, BatchKeyed
<1>4. \A o : Accepted(U, o) = Accepted(T, o) \cup Accepted({z}, o)
  BY DEF Accepted
<1>5. Whole(T) => Whole(U)
  BY DEF Whole
<1> QED  BY <1>1, <1>2, <1>3, <1>4, <1>5 DEF TableInv

\* An open offer is stamped with the batch named by its own key, and the sibling
\* offer is added: same driver, same window, another order, a fresh key.
AttachedTo(T, x, z) ==
  /\ TableInv(T) /\ x \in T /\ Open(x) /\ \A y \in T : y.batch # Key(x)
  /\ z \in Offer /\ z.batch = Key(x) /\ Open(z) /\ z.round # ManualRound
  /\ z.order # x.order /\ z.driver = x.driver /\ z.elapsed = x.elapsed
  /\ \A y \in T : Key(y) # Key(z)

Attached(T, x, z) == (T \ {x}) \cup {Stamped(x)} \cup {z}

LEMMA AttachTable ==
  ASSUME NEW T, NEW x, NEW z, AttachedTo(T, x, z),
         NEW U, U = Attached(T, x, z)
  PROVE  /\ TableInv(U) /\ Kept(T, U)
         /\ Whole(T) => Whole(U)
         /\ \A y \in U : y.batch = Key(x) \/ \E v \in T : y.batch = v.batch
         /\ \A o : Accepted(U, o) = Accepted(T, o)
<1> USE DEF AttachedTo
<1> DEFINE u == Stamped(x)
<1>1. T \subseteq Offer
  BY DEF TableInv
<1>2. /\ u \in Offer /\ u.order = x.order /\ u.driver = x.driver /\ u.round = x.round
      /\ u.status = x.status /\ u.elapsed = x.elapsed /\ u.batch = Key(x) /\ Key(u) = Key(x)
  BY <1>1, KeyType DEF Offer, Key, Stamped
<1>3. U = (T \ {x}) \cup {u} \cup {z}
  BY DEF Attached
<1> HIDE DEF u
<1>4. U \subseteq Offer /\ KeysUnique(U)
  BY <1>1, <1>2, <1>3 DEF TableInv, KeysUnique
<1>5. Kept(T, U)
  BY <1>2, <1>3 DEF Kept
<1>6. ManualAccepted(U)
  BY <1>2, <1>3 DEF TableInv, ManualAccepted
<1>7. BatchMates(U)
  BY <1>2, <1>3 DEF TableInv, BatchMates
<1>8. BatchKeyed(U)
  <2> SUFFICES ASSUME NEW y \in U, y.batch # NoBatch
               PROVE  \E v \in U : Key(v) = y.batch
    BY DEF BatchKeyed
  <2>1. CASE y \in T
    <3>1. PICK v \in T : Key(v) = y.batch
      BY <2>1 DEF TableInv, BatchKeyed
    <3> QED  BY <3>1, <1>5 DEF Kept
  <2>2. CASE y \notin T
    BY <2>2, <1>2, <1>3
  <2> QED  BY <2>1, <2>2
<1>9. \A y \in U : y.batch = Key(x) \/ \E v \in T : y.batch = v.batch
  BY <1>2, <1>3
<1>10. \A o : Accepted(U, o) = Accepted(T, o)
  BY <1>2, <1>3 DEF Accepted, Open
<1>11. Whole(T) => Whole(U)
  BY <1>2, <1>3 DEF Whole, Open
<1> QED  BY <1>4, <1>5, <1>6, <1>7, <1>8, <1>9, <1>10, <1>11 DEF TableInv

----------------------------------------------------------------------------
(* What the steps have in common *)

\* An offer is made for an order in DISPATCHING, which stays there.
OpenedWell ==
  \A x \in offers' : (Open(x) /\ \A y \in offers : Key(y) # Key(x))
    => status[x.order] = "DISPATCHING" /\ status'[x.order] = "DISPATCHING"

\* What every step does.
Preserved == IInv' /\ Kept(offers, offers') /\ OpenedWell

LEMMA OldOpensNone ==
  ASSUME Old(offers, offers')
  PROVE  OpenedWell
BY DEF Old, OpenedWell

\* Rounds that neither start a batch nor forget their key keep what they own, as
\* long as no row disappears and no batch is new.
LEMMA OwnsStep ==
  ASSUME RoundOwnsBatch, Kept(offers, offers'),
         \A y \in offers' : y.batch = NoBatch \/ \E x \in offers : y.batch = x.batch,
         RoundsRead, TypeOK,
         \A w \in Workers : MayBatch(w)' => MayBatch(w) /\ RoundKey(rounds'[w]) = RoundKey(rounds[w])
  PROVE  RoundOwnsBatch'
<1> SUFFICES ASSUME NEW w \in Workers, MayBatch(w)'
             PROVE  /\ \E y \in offers' : Key(y) = RoundKey(rounds'[w])
                    /\ \A x \in offers' : x.batch # RoundKey(rounds'[w])
                    /\ \A v \in Workers : v # w /\ MayBatch(v)' =>
                         RoundKey(rounds'[v]) # RoundKey(rounds'[w])
  BY DEF RoundOwnsBatch
<1>1. MayBatch(w) /\ RoundKey(rounds'[w]) = RoundKey(rounds[w])
  OBVIOUS
<1>2. RoundKey(rounds[w]) # NoBatch
  BY <1>1, NoBatchIsNoKey DEF MayBatch, RoundsRead, RoundKey
<1>3. \E y \in offers' : Key(y) = RoundKey(rounds'[w])
  BY <1>1 DEF RoundOwnsBatch, Kept
<1>4. \A x \in offers' : x.batch # RoundKey(rounds'[w])
  BY <1>1, <1>2 DEF RoundOwnsBatch
<1>5. \A v \in Workers : v # w /\ MayBatch(v)' => RoundKey(rounds'[v]) # RoundKey(rounds'[w])
  BY <1>1 DEF RoundOwnsBatch
<1> QED  BY <1>3, <1>4, <1>5

\* OneWinner in terms of the accepted rows of a table.
LEMMA WinnerFrame ==
  ASSUME OneWinner, NEW T, NEW D, NEW o \in Orders, driverOf[o] = D,
         Accepted(T, o) = Accepted(offers, o)
  PROVE  IF D = NoDriver THEN Accepted(T, o) = {}
         ELSE \E x \in Accepted(T, o) : x.driver = D /\ Accepted(T, o) = {x}
BY DEF OneWinner, Accepted, OffersOf

LEMMA WinnerNext ==
  ASSUME \A o \in Orders :
           IF driverOf'[o] = NoDriver THEN Accepted(offers', o) = {}
           ELSE \E x \in Accepted(offers', o) : x.driver = driverOf'[o] /\ Accepted(offers', o) = {x}
  PROVE  OneWinner'
<1>1. \A o \in Orders : {x \in {x \in offers' : x.order = o} : x.status = "ACCEPTED"} = Accepted(offers', o)
  BY DEF Accepted
<1> QED  BY <1>1 DEF OneWinner, OffersOf

\* Nobody is given an order: driverOf stays and no row becomes ACCEPTED.
LEMMA SameWinner ==
  ASSUME OneWinner, driverOf' = driverOf, \A o : Accepted(offers', o) = Accepted(offers, o)
  PROVE  OneWinner'
BY WinnerFrame, WinnerNext

----------------------------------------------------------------------------
(* Every step keeps the invariant: steps that leave offers and rounds alone *)

LEMMA InvInit == Init => IInv
<1> SUFFICES ASSUME Init
             PROVE  IInv
  OBVIOUS
<1>1. Idle \in RoundState /\ Idle.stage = "idle" /\ NotEnding \in Ending
  BY DEF Idle, RoundState, Stage, NotEnding, Ending
<1>2. TypeOK
  BY <1>1, DispatchAssumption DEF DispatchAssumption, Init, TypeOK, Status, Session
<1>3. RoundsRead /\ RoundOwnsBatch
  BY <1>1 DEF Init, RoundsRead, RoundOwnsBatch, MayBatch
<1>4. TableInv(offers) /\ Whole(offers) /\ OneWinner
  BY DEF Init, TableInv, Whole, KeysUnique, ManualAccepted, BatchMates, BatchKeyed, OneWinner, OffersOf
<1>5. DriverMatchesStatus
  BY DEF Init, DriverMatchesStatus, Carried, Unassigned
<1> QED  BY <1>2, <1>3, <1>4, <1>5 DEF IInv

LEMMA QuietStep ==
  ASSUME IInv, UNCHANGED <<offers, rounds, driverOf>>, TypeOK', DriverMatchesStatus'
  PROVE  Preserved
<1>1. RoundsRead' /\ RoundOwnsBatch'
  BY DEF IInv, RoundsRead, RoundOwnsBatch, MayBatch
<1>2. TableInv(offers') /\ Whole(offers') /\ OneWinner'
  BY SameWinner DEF IInv
<1>3. Kept(offers, offers') /\ OpenedWell
  BY OldOpensNone DEF Kept, Old
<1> QED  BY <1>1, <1>2, <1>3 DEF IInv, Preserved

\* The legal moves of one order, as far as its driver is concerned.
LEMMA MoveFacts ==
  ASSUME NEW from \in Status, NEW to, isTransitionAllowed(from, to)
  PROVE  /\ to \in Status
         /\ to \in Unassigned => from \in Unassigned
         /\ to \in Carried \cup {"DELIVERED", "FAILED", "RETURNED"} /\ to # "ASSIGNED"
              => from \in Carried \cup {"FAILED"}
         /\ to = "ASSIGNED" => from \in {"DISPATCHING", "NO_DRIVER"}
BY DEF isTransitionAllowed, ALLOWED, Status, Unassigned, Carried

\* An order moves without a change of driver.
LEMMA StatusStep ==
  ASSUME TypeOK, DriverMatchesStatus, UNCHANGED driverOf, NEW o \in Orders,
         NEW to, to # "ASSIGNED", isTransitionAllowed(status[o], to),
         status' = [status EXCEPT ![o] = to]
  PROVE  /\ status' \in [Orders -> Status]
         /\ DriverMatchesStatus'
<1>1. status[o] \in Status
  BY DEF TypeOK
<1>2. /\ to \in Status
      /\ to \in Unassigned => status[o] \in Unassigned
      /\ to \in Carried \cup {"DELIVERED", "FAILED", "RETURNED"} => status[o] \in Carried \cup {"FAILED"}
  BY <1>1, MoveFacts
<1> QED  BY <1>2 DEF TypeOK, DriverMatchesStatus

LEMMA SameStatus ==
  ASSUME DriverMatchesStatus, UNCHANGED <<status, driverOf>>
  PROVE  DriverMatchesStatus'
BY DEF DriverMatchesStatus

LEMMA SessionFacts ==
  ASSUME TypeOK
  PROVE  /\ \A o \in Orders : releaseDriverToOnline(o) => session' \in [Drivers -> Session]
         /\ \A d \in Drivers : markDriverBusy(d) => session' \in [Drivers -> Session]
         /\ \A o \in Orders : \A to : Commits(o, to) => ending' \in [Orders -> Ending]
<1>1. session \in [Drivers -> Session] /\ {"BUSY", "ONLINE"} \subseteq Session
  BY DEF TypeOK, Session
<1>2. ending \in [Orders -> Ending] /\ NotEnding \in Ending
  BY DEF TypeOK, Ending, NotEnding
<1> QED  BY <1>1, <1>2 DEF releaseDriverToOnline, markDriverBusy, Commits

LEMMA SweepAndCrash ==
  ASSUME IInv, \/ SweepStep
               \/ \E c \in closing : LoseClosing(c)
               \/ \E o \in Orders : LoseJob(o)
  PROVE  Preserved
<1> USE DEF IInv
<1>1. CASE SweepAdvance
  <2>1. TypeOK'
    BY <1>1 DEF SweepAdvance, Wedged, TypeOK, orderVars, driverVars
  <2> QED  BY <1>1, <2>1, SameStatus, QuietStep DEF SweepAdvance, orderVars
<1>2. CASE SweepAdopt
  <2>1. TypeOK'
    BY <1>2 DEF SweepAdopt, TypeOK, driverVars, workVars
  <2> QED  BY <1>2, <2>1, SameStatus, QuietStep DEF SweepAdopt, workVars
<1>3. ASSUME NEW o \in Orders, BackoffElapses(o)
      PROVE  Preserved
  <2>1. TypeOK'
    BY <1>3 DEF BackoffElapses, TypeOK, driverVars, workVars
  <2> QED  BY <1>3, <2>1, SameStatus, QuietStep DEF BackoffElapses, workVars
<1>4. ASSUME NEW o \in Orders, RetryClaim(o)
      PROVE  Preserved
  <2>1. TypeOK'
    BY <1>4 DEF RetryClaim, TypeOK, driverVars
  <2> QED  BY <1>4, <2>1, SameStatus, QuietStep DEF RetryClaim
<1>5. ASSUME NEW o \in Orders, RetryTransition(o)
      PROVE  Preserved
  <2>1. status' \in [Orders -> Status] /\ DriverMatchesStatus'
    <3>1. CASE CanTransition(o, "NO_DRIVER", "DISPATCHING")
      BY <1>5, <3>1, StatusStep DEF RetryTransition, CanTransition
    <3>2. CASE ~CanTransition(o, "NO_DRIVER", "DISPATCHING")
      BY <1>5, <3>2, SameStatus DEF RetryTransition, TypeOK
    <3> QED  BY <3>1, <3>2
  <2>2. TypeOK'
    BY <1>5, <2>1 DEF RetryTransition, TypeOK, driverVars
  <2> QED  BY <1>5, <2>1, <2>2, QuietStep DEF RetryTransition
<1>6. ASSUME NEW o \in Orders, NEW rearm \in BOOLEAN, RetryFails(o, rearm)
      PROVE  Preserved
  <2>1. TypeOK'
    BY <1>6 DEF RetryFails, TypeOK, driverVars
  <2> QED  BY <1>6, <2>1, SameStatus, QuietStep DEF RetryFails
<1>7. ASSUME NEW o \in Orders, LoseJob(o)
      PROVE  Preserved
  <2>1. TypeOK'
    BY <1>7 DEF LoseJob, TypeOK, orderVars, driverVars
  <2> QED  BY <1>7, <2>1, SameStatus, QuietStep DEF LoseJob, orderVars
<1>8. ASSUME NEW c \in closing, LoseClosing(c)
      PROVE  Preserved
  <2>1. TypeOK'
    BY <1>8 DEF LoseClosing, TypeOK, orderVars, driverVars
  <2> QED  BY <1>8, <2>1, SameStatus, QuietStep DEF LoseClosing, orderVars
<1> QED  BY <1>1, <1>2, <1>3, <1>4, <1>5, <1>6, <1>7, <1>8 DEF SweepStep

LEMMA TripAndDriver ==
  ASSUME IInv, \/ \E o \in Orders : (\E s \in Intake : CreateDeliveryOrder(o, s))
                                      \/ SweepScheduledOrders(o) \/ FixDropoff(o)
               \/ TripStep \/ DriverStep
  PROVE  Preserved
<1> USE DEF IInv
<1>1. ASSUME NEW o \in Orders, NEW s \in Intake, CreateDeliveryOrder(o, s)
      PROVE  Preserved
  <2>1. s \in Status /\ s \in Unassigned
    BY DEF Intake, Status, Unassigned
  <2>2. TypeOK' /\ DriverMatchesStatus'
    BY <1>1, <2>1 DEF CreateDeliveryOrder, TypeOK, DriverMatchesStatus, Unassigned, Carried, driverVars
  <2> QED  BY <1>1, <2>2, QuietStep DEF CreateDeliveryOrder
<1>2. ASSUME NEW o \in Orders, SweepScheduledOrders(o) \/ FixDropoff(o)
      PROVE  Preserved
  <2>1. status[o] \in Unassigned /\ "DISPATCHING" \in Status
    BY <1>2 DEF SweepScheduledOrders, FixDropoff, ToDispatch, CanTransition, Unassigned, Status
  <2>2. TypeOK' /\ DriverMatchesStatus'
    BY <1>2, <2>1 DEF SweepScheduledOrders, FixDropoff, ToDispatch, TypeOK, DriverMatchesStatus, Unassigned, Carried, driverVars
  <2> QED  BY <1>2, <2>2, QuietStep DEF SweepScheduledOrders, FixDropoff, ToDispatch
<1>3. ASSUME NEW o \in Orders, NEW from, NEW to, to # "ASSIGNED", Advance(o, from, to)
      PROVE  Preserved
  <2>1. status' \in [Orders -> Status] /\ DriverMatchesStatus'
    BY <1>3, StatusStep DEF Advance, CanTransition
  <2>2. TypeOK'
    BY <1>3, <2>1 DEF Advance, TypeOK, driverVars, workVars
  <2> QED  BY <1>3, <2>1, <2>2, QuietStep DEF Advance, workVars
<1>4. ASSUME NEW o \in Orders, Arrive(o) \/ PickUp(o) \/ ReturnToMerchant(o)
      PROVE  Preserved
  BY <1>3, <1>4 DEF Arrive, PickUp, ReturnToMerchant
<1>5. ASSUME NEW o \in Orders, CompleteDelivery(o)
      PROVE  Preserved
  <2>1. status' \in [Orders -> Status] /\ DriverMatchesStatus'
    BY <1>5, StatusStep DEF CompleteDelivery, CanTransition
  <2>2. driverOf[o] \in Drivers
    BY <1>5 DEF CompleteDelivery, CanTransition, DriverMatchesStatus, Carried
  <2>3. cash' \in [Drivers -> Nat]
    <3>1. CashTotal[o] \in Nat /\ cash \in [Drivers -> Nat]
      BY DispatchAssumption DEF DispatchAssumption, TypeOK
    <3>2. cash[driverOf[o]] + CashTotal[o] \in Nat
      BY <2>2, <3>1
    <3> QED  BY <1>5, <2>2, <3>1, <3>2 DEF CompleteDelivery
  <2>4. session' \in [Drivers -> Session] /\ ending' \in [Orders -> Ending]
    BY <1>5, SessionFacts DEF CompleteDelivery
  <2>5. TypeOK'
    BY <1>5, <2>1, <2>3, <2>4 DEF CompleteDelivery, TypeOK, workVars
  <2> QED  BY <1>5, <2>1, <2>5, QuietStep DEF CompleteDelivery, workVars
<1>6. ASSUME NEW o \in Orders, FailDelivery(o)
      PROVE  Preserved
  <2>1. status' \in [Orders -> Status] /\ DriverMatchesStatus'
    BY <1>6, StatusStep DEF FailDelivery, CanTransition
  <2>2. session' \in [Drivers -> Session] /\ ending' \in [Orders -> Ending]
    BY <1>6, SessionFacts DEF FailDelivery
  <2>3. TypeOK'
    BY <1>6, <2>1, <2>2 DEF FailDelivery, TypeOK, workVars
  <2> QED  BY <1>6, <2>1, <2>3, QuietStep DEF FailDelivery, workVars
<1>7. ASSUME NEW d \in Drivers, NEW a \in {"ONLINE", "BUSY", "OFFLINE"}, SetAvailability(d, a)
      PROVE  Preserved
  <2>1. TypeOK'
    BY <1>7 DEF SetAvailability, TypeOK, Session, orderVars, workVars
  <2> QED  BY <1>7, <2>1, SameStatus, QuietStep DEF SetAvailability, orderVars, workVars
<1>8. ASSUME NEW d \in Drivers, IngestLocation(d)
      PROVE  Preserved
  <2>1. TypeOK'
    BY <1>8 DEF IngestLocation, TypeOK, Session, orderVars, workVars
  <2> QED  BY <1>8, <2>1, SameStatus, QuietStep DEF IngestLocation, orderVars, workVars
<1>9. ASSUME NEW d \in Drivers, GpsGoesStale(d)
      PROVE  Preserved
  <2>1. TypeOK'
    BY <1>9 DEF GpsGoesStale, TypeOK, orderVars, workVars
  <2> QED  BY <1>9, <2>1, SameStatus, QuietStep DEF GpsGoesStale, orderVars, workVars
<1>10. ASSUME NEW d \in Drivers, SweepStalePresence(d)
       PROVE  Preserved
  <2>1. TypeOK'
    BY <1>10 DEF SweepStalePresence, TypeOK, Session, orderVars, workVars
  <2> QED  BY <1>10, <2>1, SameStatus, QuietStep DEF SweepStalePresence, orderVars, workVars
<1>11. ASSUME NEW d \in Drivers, RecordRemittance(d)
       PROVE  Preserved
  <2>1. TypeOK'
    BY <1>11 DEF RecordRemittance, TypeOK, orderVars, workVars
  <2> QED  BY <1>11, <2>1, SameStatus, QuietStep DEF RecordRemittance, orderVars, workVars
<1>12. ASSUME NEW o \in Orders, NEW to \in {"DELIVERED", "FAILED", "CANCELLED"}, CountActive(o, to) \/ EndFails(o)
       PROVE  Preserved
  <2>1. ending' \in [Orders -> Ending]
    <3>1. \A free \in BOOLEAN : [to |-> to, free |-> free] \in Ending
      BY DEF Ending
    <3>2. ending \in [Orders -> Ending] /\ NotEnding \in Ending
      BY DEF TypeOK, Ending, NotEnding
    <3>3. PICK e \in Ending : ending' = [ending EXCEPT ![o] = e]
      <4>1. CASE EndFails(o)
        BY <3>2, <4>1 DEF EndFails
      <4>2. CASE CountActive(o, to)
        <5> DEFINE free == ActiveOf(driverOf[o]) \ {o} = {}
        <5>1. free \in BOOLEAN /\ ending' = [ending EXCEPT ![o] = [to |-> to, free |-> free]]
          BY <4>2 DEF CountActive
        <5> HIDE DEF free
        <5> QED  BY <3>1, <5>1
      <4> QED  BY <1>12, <4>1, <4>2
    <3> QED  BY <3>2, <3>3
  <2>2. UNCHANGED <<orderVars, offers, session, fresh, cash, workVars>>
    BY <1>12 DEF CountActive, EndFails
  <2>3. TypeOK'
    BY <2>1, <2>2 DEF TypeOK, orderVars, workVars
  <2> QED  BY <2>2, <2>3, SameStatus, QuietStep DEF orderVars, workVars
<1>13. ASSUME NEW o \in Orders, EndFails(o)
       PROVE  Preserved
  BY <1>12, <1>13
<1> QED  BY <1>1, <1>2, <1>4, <1>5, <1>6, <1>7, <1>8, <1>9, <1>10, <1>11, <1>12, <1>13 DEF TripStep, DriverStep

----------------------------------------------------------------------------
(* Steps of a round *)

LEMMA RoundSteps ==
  ASSUME IInv, NEW w \in Workers,
         \/ \E o \in Orders : BeginRound(w, o)
         \/ ExhaustDispatch(w) \/ FindSibling(w) \/ LoseRound(w)
  PROVE  Preserved
<1> USE DEF IInv
<1>1. Idle \in RoundState /\ Idle.stage = "idle" /\ rounds[w] \in RoundState
  BY SMTT(60) DEF Idle, RoundState, Stage, TypeOK
<1>2. UNCHANGED <<offers, driverOf>>
  BY DEF BeginRound, ExhaustDispatch, FindSibling, LoseRound, orderVars
<1>3. ASSUME TypeOK', RoundsRead', DriverMatchesStatus',
             \A v \in Workers : MayBatch(v)' => MayBatch(v) /\ RoundKey(rounds'[v]) = RoundKey(rounds[v])
      PROVE  Preserved
  <2>1. Kept(offers, offers') /\ TableInv(offers') /\ OneWinner'
    BY <1>2, SameWinner DEF Kept
  <2>2. RoundOwnsBatch'
    BY <1>2, <1>3, <2>1, OwnsStep
  <2>3. OpenedWell
    BY <1>2, OldOpensNone DEF Old
  <2> QED  BY <1>2, <1>3, <2>1, <2>2, <2>3 DEF Preserved
<1>4. ASSUME NEW o \in Orders, BeginRound(w, o)
      PROVE  Preserved
  <2>1. PICK r \in RoundState :
          /\ rounds' = [rounds EXCEPT ![w] = r]
          /\ r.stage \in {"idle", "exhaust", "commit"} /\ (r.stage # "idle" => r.order = o)
          /\ r.stage = "commit" => r.driver \in Drivers /\ r.at < MaxOfferRounds
    <3>1. CASE status[o] # "DISPATCHING"
      <4>1. rounds' = [rounds EXCEPT ![w] = Idle]
        BY <1>4, <3>1 DEF BeginRound, TypeOK
      <4> QED  BY <1>1, <4>1
    <3>2. CASE rounds' = [rounds EXCEPT ![w] = [Idle EXCEPT !.stage = "exhaust", !.order = o]]
      <4> DEFINE r == [Idle EXCEPT !.stage = "exhaust", !.order = o]
      <4>1. r \in RoundState /\ r.stage = "exhaust" /\ r.order = o
        BY DEF Idle, RoundState, Stage
      <4>2. rounds' = [rounds EXCEPT ![w] = r]
        BY <3>2
      <4> HIDE DEF r
      <4> QED  BY <4>1, <4>2
    <3>3. CASE /\ offerRound[o] < MaxOfferRounds
               /\ \E d \in FirstCandidate(o) :
                    rounds' = [rounds EXCEPT ![w] = [Idle EXCEPT !.stage = "commit", !.order = o,
                                                                 !.at = offerRound[o], !.driver = d]]
      <4>1. FirstCandidate(o) \subseteq Drivers /\ offerRound[o] \in Nat
        BY DEF FirstCandidate, selectCandidates, TypeOK
      <4>2. PICK d \in FirstCandidate(o) :
              rounds' = [rounds EXCEPT ![w] = [Idle EXCEPT !.stage = "commit", !.order = o,
                                                           !.at = offerRound[o], !.driver = d]]
        BY <3>3
      <4> DEFINE r == [Idle EXCEPT !.stage = "commit", !.order = o,
                                   !.at = offerRound[o], !.driver = d]
      <4>3. d \in Drivers
        BY <4>1
      <4>4. r \in RoundState /\ r.stage = "commit" /\ r.order = o /\ r.driver = d /\ r.at = offerRound[o]
        BY <4>1, <4>3 DEF Idle, RoundState, Stage
      <4>5. rounds' = [rounds EXCEPT ![w] = r]
        BY <4>2
      <4> HIDE DEF r
      <4> QED  BY <3>3, <4>3, <4>4, <4>5
    <3> QED  BY <1>4, <3>1, <3>2, <3>3 DEF BeginRound
  <2>2. TypeOK'
    BY <1>4, <2>1 DEF BeginRound, TypeOK, orderVars, driverVars
  <2>3. RoundsRead'
    BY <2>1, SMTT(60) DEF TypeOK, RoundsRead
  <2>4. DriverMatchesStatus'
    BY <1>4, SameStatus DEF BeginRound, orderVars
  <2>5. \A v \in Workers : MayBatch(v)' => MayBatch(v) /\ RoundKey(rounds'[v]) = RoundKey(rounds[v])
    BY <2>1 DEF TypeOK, MayBatch
  <2> QED  BY <1>3, <2>2, <2>3, <2>4, <2>5, SMTT(60)
<1>5. CASE ExhaustDispatch(w) \/ LoseRound(w)
  <2>1. rounds' = [rounds EXCEPT ![w] = Idle]
    BY <1>5 DEF ExhaustDispatch, LoseRound
  <2>2. status' \in [Orders -> Status] /\ DriverMatchesStatus'
    <3>1. CASE LoseRound(w) \/ ~CanTransition(rounds[w].order, "DISPATCHING", "NO_DRIVER")
      BY <1>5, <3>1, SameStatus DEF ExhaustDispatch, LoseRound, orderVars, TypeOK
    <3>2. CASE ExhaustDispatch(w) /\ CanTransition(rounds[w].order, "DISPATCHING", "NO_DRIVER")
      <4>1. rounds[w].order \in Orders
        BY <3>2 DEF ExhaustDispatch, RoundsRead
      <4>2. /\ status' = [status EXCEPT ![rounds[w].order] = "NO_DRIVER"]
            /\ driverOf' = driverOf
            /\ isTransitionAllowed("DISPATCHING", "NO_DRIVER")
            /\ status[rounds[w].order] = "DISPATCHING"
        BY <3>2 DEF ExhaustDispatch, CanTransition
      <4> QED  BY <4>1, <4>2, <1>2, StatusStep
    <3> QED  BY <1>5, <3>1, <3>2
  <2>3. TypeOK'
    BY <1>1, <1>5, <2>1, <2>2 DEF ExhaustDispatch, LoseRound, TypeOK, orderVars, driverVars
  <2>4. RoundsRead'
    BY <1>1, <2>1 DEF TypeOK, RoundsRead
  <2>5. \A v \in Workers : MayBatch(v)' => MayBatch(v) /\ RoundKey(rounds'[v]) = RoundKey(rounds[v])
    BY <1>1, <2>1 DEF TypeOK, MayBatch
  <2> QED  BY <1>3, <2>2, <2>3, <2>4, <2>5
<1>6. CASE FindSibling(w)
  <2>1. PICK r \in RoundState :
          /\ rounds' = [rounds EXCEPT ![w] = r]
          /\ \/ r.stage = "idle"
             \/ /\ r.stage = "attach" /\ RoundKey(r) = RoundKey(rounds[w])
                /\ r.order = rounds[w].order /\ r.driver = rounds[w].driver
                /\ r.sib \in Orders /\ r.sib # r.order /\ BatchingEnabled
    <3>1. CASE rounds' = [rounds EXCEPT ![w] = Idle]
      BY <1>1, <3>1
    <3>2. ASSUME NEW p \in BatchSiblings(rounds[w].order, rounds[w].driver),
                 rounds' = [rounds EXCEPT ![w] = [@ EXCEPT !.stage = "attach", !.sib = p,
                                                           !.sibAt = offerRound[p]]]
          PROVE  \E r \in RoundState :
                   /\ rounds' = [rounds EXCEPT ![w] = r]
                   /\ r.stage = "attach" /\ RoundKey(r) = RoundKey(rounds[w])
                   /\ r.order = rounds[w].order /\ r.driver = rounds[w].driver
                   /\ r.sib \in Orders /\ r.sib # r.order /\ BatchingEnabled
      <4>1. p \in Orders /\ p # rounds[w].order /\ BatchingEnabled /\ offerRound[p] \in Nat
        BY DEF BatchSiblings, TypeOK
      <4> DEFINE r == [rounds[w] EXCEPT !.stage = "attach", !.sib = p, !.sibAt = offerRound[p]]
      <4>2. r \in RoundState
        BY <1>1, <4>1 DEF RoundState, Stage
      <4>3. rounds' = [rounds EXCEPT ![w] = r]
        BY <3>2 DEF TypeOK
      <4>4. /\ r.stage = "attach" /\ RoundKey(r) = RoundKey(rounds[w])
            /\ r.order = rounds[w].order /\ r.driver = rounds[w].driver /\ r.sib = p
        BY <1>1 DEF RoundState, RoundKey
      <4> HIDE DEF r
      <4> QED  BY <4>1, <4>2, <4>3, <4>4
    <3> QED  BY <1>6, <3>1, <3>2 DEF FindSibling
  <2>2. TypeOK'
    BY <1>6, <2>1 DEF FindSibling, TypeOK, orderVars, driverVars
  <2>3. RoundsRead' /\ MayBatch(w)
    BY <1>6, <2>1 DEF FindSibling, TypeOK, RoundsRead, MayBatch
  <2>4. DriverMatchesStatus'
    BY <1>6, SameStatus DEF FindSibling, orderVars
  <2>5. \A v \in Workers : MayBatch(v)' => MayBatch(v) /\ RoundKey(rounds'[v]) = RoundKey(rounds[v])
    BY <2>1, <2>3 DEF TypeOK, MayBatch
  <2> QED  BY <1>3, <2>2, <2>3, <2>4, <2>5
<1> QED  BY <1>4, <1>5, <1>6

\* A round leaves the stage it is in.
LEMMA StageFacts ==
  ASSUME TypeOK, NEW w \in Workers
  PROVE  /\ rounds[w] \in RoundState /\ Idle \in RoundState /\ Idle.stage = "idle"
         /\ [rounds[w] EXCEPT !.stage = "sibling"] \in RoundState
         /\ [rounds[w] EXCEPT !.stage = "sibling"].stage = "sibling"
         /\ [rounds[w] EXCEPT !.stage = "sibling"].order = rounds[w].order
         /\ [rounds[w] EXCEPT !.stage = "sibling"].driver = rounds[w].driver
         /\ RoundKey([rounds[w] EXCEPT !.stage = "sibling"]) = RoundKey(rounds[w])
BY DEF TypeOK, RoundState, Stage, Idle, RoundKey

LEMMA CommitStep ==
  ASSUME IInv, NEW w \in Workers, CommitOffer(w)
  PROVE  Preserved
<1> USE DEF IInv
<1> DEFINE o == rounds[w].order
           d == rounds[w].driver
           r == rounds[w].at
           next == [rounds[w] EXCEPT !.stage = "sibling"]
<1>1. o \in Orders /\ d \in Drivers /\ r \in Nat /\ rounds[w].stage = "commit"
  BY StageFacts DEF CommitOffer, RoundsRead, RoundState
<1>2. UNCHANGED <<status, driverOf>> /\ DriverMatchesStatus'
  BY SameStatus DEF CommitOffer
<1>3. CASE ~CanOffer(o, d, r)
  <2>1. rounds' = [rounds EXCEPT ![w] = Idle] /\ UNCHANGED <<offers, offerRound>>
    BY <1>3 DEF CommitOffer
  <2>2. TypeOK' /\ RoundsRead'
    BY <2>1, StageFacts DEF CommitOffer, TypeOK, RoundsRead, driverVars
  <2>3. Kept(offers, offers') /\ TableInv(offers') /\ Whole(offers') /\ OneWinner'
    BY <1>2, <2>1, SameWinner DEF Kept
  <2>4. \A v \in Workers : MayBatch(v)' => MayBatch(v) /\ RoundKey(rounds'[v]) = RoundKey(rounds[v])
    BY <2>1, StageFacts DEF TypeOK, MayBatch
  <2>5. RoundOwnsBatch'
    BY <2>1, <2>3, <2>4, OwnsStep
  <2>6. OpenedWell
    BY <2>1, OldOpensNone DEF Old
  <2> QED  BY <1>2, <2>2, <2>3, <2>5, <2>6 DEF Preserved
<1>4. CASE CanOffer(o, d, r)
  <2> DEFINE z == NewOffer(o, d, r, FALSE, NoBatch)
  <2>1. /\ z \in Offer /\ z.batch = NoBatch /\ z.round = r /\ z.status = "OFFERED"
        /\ Key(z) = RoundKey(rounds[w]) /\ Key(z) = <<o, d, r>>
    <3>1. r \in Round /\ RoundKey(rounds[w]) = <<o, d, r>>
      BY <1>1 DEF RoundKey, Round
    <3> HIDE DEF o, d, r
    <3>2. z \in Offer
      BY <1>1, <3>1 DEF NewOffer, Offer, OfferStatus
    <3> QED  BY <3>1, <3>2 DEF NewOffer, Key
  <2>2. offers' = offers \cup {z} /\ rounds' = [rounds EXCEPT ![w] = next]
    BY <1>4 DEF CommitOffer, TypeOK
  <2>3. \A x \in offers : Key(x) # Key(z)
    BY <1>4, <2>1 DEF CanOffer
  <2> HIDE DEF z, o, d, r, next
  <2>4. z.round # ManualRound
    BY <1>1, <2>1 DEF ManualRound
  <2>5. TableInv(offers') /\ Kept(offers, offers') /\ Whole(offers') /\ OneWinner'
    <3>1. \A p : Accepted({z}, p) = {}
      BY <2>1 DEF Accepted
    <3>2. /\ z \in Offer /\ z.batch = NoBatch /\ offers' = offers \cup {z}
          /\ z.round = ManualRound => z.status = "ACCEPTED"
      BY <2>1, <2>2, <2>4
    <3>3. /\ TableInv(offers') /\ Kept(offers, offers') /\ Whole(offers')
          /\ \A p : Accepted(offers', p) = Accepted(offers, p) \cup Accepted({z}, p)
      BY <3>2, <2>3, AddTable
    <3>4. \A p : Accepted(offers', p) = Accepted(offers, p)
      BY <3>1, <3>3
    <3>5. OneWinner'
      BY <1>2, <3>4, SameWinner
    <3> QED  BY <3>3, <3>5
  <2>6. TypeOK'
    <3>1. offerRound' \in [Orders -> Nat]
      BY <1>1, <1>4 DEF CommitOffer, TypeOK, o, d, r
    <3>2. rounds' \in [Workers -> RoundState]
      BY <2>2, StageFacts DEF TypeOK, next
    <3> QED  BY <2>5, <3>1, <3>2 DEF CommitOffer, TypeOK, TableInv, driverVars
  <2>7. RoundsRead'
    BY <1>1, <2>2, StageFacts DEF TypeOK, RoundsRead, next, o, d
  <2>8. RoundOwnsBatch'
    <3>1. \A v \in Workers : v # w => rounds'[v] = rounds[v]
      BY <2>2 DEF TypeOK
    <3>2. rounds'[w] = next /\ RoundKey(next) = Key(z)
      BY <2>1, <2>2, StageFacts DEF TypeOK, next
    <3>3. Key(z) # NoBatch
      BY <1>1, <2>1, NoBatchIsNoKey
    <3>4. \A x \in offers : x.batch # Key(z)
      BY <2>3, <3>3 DEF TableInv, BatchKeyed
    <3>5. \A v \in Workers : v # w /\ MayBatch(v)' =>
            /\ \E y \in offers' : Key(y) = RoundKey(rounds'[v])
            /\ RoundKey(rounds'[v]) # Key(z) /\ RoundKey(rounds'[v]) # NoBatch
            /\ \A x \in offers : x.batch # RoundKey(rounds'[v])
      <4> SUFFICES ASSUME NEW v \in Workers, v # w, MayBatch(v)
                   PROVE  /\ \E y \in offers' : Key(y) = RoundKey(rounds[v])
                          /\ RoundKey(rounds[v]) # Key(z) /\ RoundKey(rounds[v]) # NoBatch
                          /\ \A x \in offers : x.batch # RoundKey(rounds[v])
        BY <3>1 DEF MayBatch
      <4>1. rounds[v].order \in Orders
        BY DEF MayBatch, RoundsRead
      <4> QED  BY <4>1, <2>3, <2>5, NoBatchIsNoKey DEF RoundOwnsBatch, Kept, RoundKey
    <3>6. \A v, u \in Workers : v # w /\ u # w /\ u # v /\ MayBatch(v)' /\ MayBatch(u)'
             => RoundKey(rounds'[u]) # RoundKey(rounds'[v])
      BY <3>1 DEF RoundOwnsBatch, MayBatch
    <3>7. z.batch = NoBatch /\ z \in offers'
      BY <2>1, <2>2
    <3> QED  BY <2>2, <3>2, <3>3, <3>4, <3>5, <3>6, <3>7 DEF RoundOwnsBatch
  <2>9. OpenedWell
    <3>1. status[o] = "DISPATCHING"
      BY <1>4 DEF CanOffer
    <3>2. z.order = o
      BY <2>1 DEF Key
    <3> QED  BY <1>2, <2>2, <3>1, <3>2 DEF OpenedWell
  <2> QED  BY <1>2, <2>5, <2>6, <2>7, <2>8, <2>9 DEF Preserved
<1> QED  BY <1>3, <1>4

LEMMA AttachStep ==
  ASSUME IInv, NEW w \in Workers, AttachSibling(w)
  PROVE  Preserved
<1> USE DEF IInv
<1> DEFINE p == rounds[w].sib
           d == rounds[w].driver
           r == rounds[w].sibAt
           k == RoundKey(rounds[w])
           primary == {x \in offers : Key(x) = k /\ Open(x)}
<1>1. /\ p \in Orders /\ d \in Drivers /\ r \in Nat /\ p # rounds[w].order
      /\ rounds[w].stage = "attach" /\ MayBatch(w)
  BY StageFacts DEF AttachSibling, RoundsRead, RoundState, MayBatch
<1>2. UNCHANGED <<status, driverOf>> /\ DriverMatchesStatus'
  BY SameStatus DEF AttachSibling
<1>3. rounds' = [rounds EXCEPT ![w] = Idle]
  BY DEF AttachSibling
<1>4. RoundsRead' /\ rounds' \in [Workers -> RoundState]
  BY <1>3, StageFacts DEF TypeOK, RoundsRead
<1>5. CASE ~(CanOffer(p, d, r) /\ primary # {})
  <2>1. UNCHANGED <<offers, offerRound>>
    BY <1>5 DEF AttachSibling
  <2>2. TypeOK'
    BY <1>4, <2>1 DEF AttachSibling, TypeOK, driverVars
  <2>3. Kept(offers, offers') /\ TableInv(offers') /\ Whole(offers') /\ OneWinner'
    BY <1>2, <2>1, SameWinner DEF Kept
  <2>4. \A v \in Workers : MayBatch(v)' => MayBatch(v) /\ RoundKey(rounds'[v]) = RoundKey(rounds[v])
    BY <1>3, StageFacts DEF TypeOK, MayBatch
  <2>5. RoundOwnsBatch'
    BY <2>1, <2>3, <2>4, OwnsStep
  <2>6. OpenedWell
    BY <2>1, OldOpensNone DEF Old
  <2> QED  BY <1>2, <1>4, <2>2, <2>3, <2>5, <2>6 DEF Preserved
<1>6. CASE CanOffer(p, d, r) /\ primary # {}
  <2>1. PICK x \in offers : Key(x) = k /\ Open(x)
    BY <1>6
  <2>2. primary = {x}
    BY <2>1 DEF TableInv, KeysUnique
  <2> DEFINE z == NewOffer(p, d, r, x.elapsed, k)
  <2>3. /\ offers' = (offers \ {x}) \cup {[x EXCEPT !.batch = k]} \cup {z}
        /\ offerRound' = [offerRound EXCEPT ![p] = @ + 1]
    BY <1>6, <2>2 DEF AttachSibling
  <2>4. k \in Orders \X Drivers \X Round /\ x \in Offer /\ x.elapsed \in BOOLEAN
    BY <2>1, KeyType DEF TableInv, Offer
  <2>5. x.order = rounds[w].order /\ x.driver = d
    BY <2>1 DEF Key, RoundKey
  <2>6. /\ z \in Offer /\ z.batch = k /\ z.round = r /\ Open(z) /\ z.order = p /\ z.driver = d
        /\ z.elapsed = x.elapsed /\ Key(z) = <<p, d, r>>
    <3>1. r \in Round
      BY <1>1 DEF Round
    <3> HIDE DEF p, d, r, k
    <3>2. z \in Offer
      BY <1>1, <2>4, <3>1 DEF NewOffer, Offer, OfferStatus
    <3> QED  BY <3>2 DEF NewOffer, Key, Open
  <2>7. z.round # ManualRound /\ \A y \in offers : Key(y) # Key(z)
    BY <1>1, <1>6, <2>6 DEF ManualRound, CanOffer
  <2>8. \A y \in offers : y.batch # k
    BY <1>1 DEF RoundOwnsBatch
  <2> HIDE DEF z, k, p, d, r, primary
  <2>9. /\ TableInv(offers') /\ Kept(offers, offers') /\ Whole(offers')
        /\ \A y \in offers' : y.batch = k \/ \E v \in offers : y.batch = v.batch
        /\ \A o : Accepted(offers', o) = Accepted(offers, o)
    <3>1. k = Key(x) /\ z.batch = Key(x) /\ \A y \in offers : y.batch # Key(x)
      BY <2>1, <2>6, <2>8
    <3>2. offers' = Attached(offers, x, z)
      BY <2>1, <2>3 DEF Stamped, Attached
    <3>3. z.order # x.order /\ z.driver = x.driver /\ z.elapsed = x.elapsed
      BY <1>1, <2>5, <2>6
    <3>4. /\ TableInv(offers') /\ Kept(offers, offers') /\ Whole(offers')
          /\ \A y \in offers' : y.batch = Key(x) \/ \E v \in offers : y.batch = v.batch
          /\ \A o : Accepted(offers', o) = Accepted(offers, o)
      <4>1. TableInv(offers) /\ Whole(offers)
        OBVIOUS
      <4>2. AttachedTo(offers, x, z)
        BY <2>1, <2>6, <2>7, <3>1, <3>3, <4>1 DEF AttachedTo
      <4> HIDE DEF IInv
      <4> QED  BY <3>2, <4>1, <4>2, AttachTable
    <3> QED  BY <3>1, <3>4
  <2>10. OneWinner'
    BY <1>2, <2>9, SameWinner
  <2>11. offerRound' \in [Orders -> Nat]
    BY <1>1, <2>3 DEF TypeOK
  <2>12. TypeOK'
    BY <1>4, <2>9, <2>11 DEF AttachSibling, TypeOK, TableInv, driverVars
  <2>13. RoundOwnsBatch'
    <3>1. \A v \in Workers : MayBatch(v)' => v # w /\ MayBatch(v) /\ rounds'[v] = rounds[v]
      BY <1>3, StageFacts DEF TypeOK, MayBatch
    <3>2. \A v \in Workers : v # w /\ MayBatch(v) => RoundKey(rounds[v]) # k
      BY <1>1 DEF RoundOwnsBatch, k
    <3> SUFFICES ASSUME NEW v \in Workers, v # w, MayBatch(v), rounds'[v] = rounds[v]
                 PROVE  /\ \E y \in offers' : Key(y) = RoundKey(rounds[v])
                        /\ \A y \in offers' : y.batch # RoundKey(rounds[v])
                        /\ \A u \in Workers : u # v /\ MayBatch(u)' =>
                             RoundKey(rounds'[u]) # RoundKey(rounds[v])
      BY <3>1 DEF RoundOwnsBatch
    <3>3. \E y \in offers' : Key(y) = RoundKey(rounds[v])
      BY <2>9 DEF RoundOwnsBatch, Kept
    <3>4. \A y \in offers' : y.batch # RoundKey(rounds[v])
      BY <2>9, <3>2 DEF RoundOwnsBatch
    <3>5. \A u \in Workers : u # v /\ MayBatch(u)' => RoundKey(rounds'[u]) # RoundKey(rounds[v])
      BY <3>1 DEF RoundOwnsBatch
    <3> QED  BY <3>3, <3>4, <3>5
  <2>14. OpenedWell
    <3>1. status[p] = "DISPATCHING"
      BY <1>6 DEF CanOffer
    <3>2. Key(Stamped(x)) = Key(x)
      BY <2>4 DEF Stamped, Key, Offer
    <3>3. offers' = (offers \ {x}) \cup {Stamped(x)} \cup {z}
      BY <2>1, <2>3 DEF Stamped
    <3> QED  BY <1>2, <2>6, <3>1, <3>2, <3>3 DEF OpenedWell
  <2> QED  BY <1>2, <1>4, <2>9, <2>10, <2>12, <2>13, <2>14 DEF Preserved
<1> QED  BY <1>5, <1>6

----------------------------------------------------------------------------
(* Steps that close offers *)

LEMMA ClosingStep ==
  ASSUME IInv, UNCHANGED <<rounds, driverOf>>, TypeOK', DriverMatchesStatus',
         TableInv(offers'), Kept(offers, offers'), Old(offers, offers'),
         \A o : Accepted(offers', o) = Accepted(offers, o)
  PROVE  Preserved
<1> USE DEF IInv
<1>1. OneWinner'
  BY SameWinner
<1>2. \A y \in offers' : y.batch = NoBatch \/ \E x \in offers : y.batch = x.batch
  BY DEF Old
<1>3. RoundOwnsBatch'
  BY <1>2, OwnsStep DEF MayBatch
<1>4. RoundsRead'
  BY DEF RoundsRead
<1>5. Whole(offers')
  BY WholeOld
<1> QED  BY <1>1, <1>3, <1>4, <1>5, OldOpensNone DEF Preserved

LEMMA SetStep ==
  ASSUME IInv, NEW S \in SUBSET offers, \A x \in S : Open(x),
         NEW to \in {"DECLINED", "EXPIRED", "CANCELLED"}, offers' = Set(S, to)
  PROVE  /\ TableInv(offers') /\ Kept(offers, offers') /\ Old(offers, offers')
         /\ \A o : Accepted(offers', o) = Accepted(offers, o)
         /\ offers' \subseteq Offer
<1>1. offers' = SetIn(offers, S, to)
  BY DEF Set, SetIn
<1>2. TableInv(offers)
  BY DEF IInv
<1>3. /\ TableInv(offers') /\ Kept(offers, offers') /\ Old(offers, offers')
      /\ \A o : Accepted(offers', o) = Accepted(offers, o)
  BY <1>1, <1>2, SetTable
<1> QED  BY <1>3 DEF TableInv

LEMMA CloseOfferStep ==
  ASSUME IInv, NEW x \in offers, Open(x), NEW to \in {"DECLINED", "EXPIRED"},
         NEW b \in {x.batch, NoBatch}, NEW advance \in BOOLEAN, CloseOffer(x, to, b, advance)
  PROVE  Preserved
<1> USE DEF IInv
<1>1. x \in Offer /\ Key(x) \in Orders \X Drivers \X Round /\ x.order \in Orders
      /\ x.batch \in (Orders \X Drivers \X Round) \cup {NoBatch}
  BY KeyType DEF TypeOK, Offer
<1>2. offers' = Set({x}, to)
  BY DEF CloseOffer
<1>3. /\ TableInv(offers') /\ Kept(offers, offers') /\ Old(offers, offers')
      /\ \A o : Accepted(offers', o) = Accepted(offers, o)
      /\ offers' \subseteq Offer
  BY <1>2, SetStep
<1>4. UNCHANGED <<orderVars, driverVars, rounds, retrying>>
  BY DEF CloseOffer
<1>5. closing' \subseteq Closing /\ todo' \subseteq Orders
  <2>1. CASE b = NoBatch
    BY <1>1, <2>1 DEF CloseOffer, TypeOK
  <2>2. CASE b # NoBatch
    <3> DEFINE c == [batch |-> b, except |-> Key(x), to |-> to, advance |-> advance]
    <3>1. c \in Closing
      BY <1>1, <2>2 DEF Closing
    <3>2. closing' = closing \cup {c} /\ UNCHANGED todo
      BY <2>2 DEF CloseOffer
    <3> QED  BY <3>1, <3>2 DEF TypeOK
  <2> QED  BY <2>1, <2>2
<1>6. TypeOK'
  BY <1>3, <1>4, <1>5 DEF TypeOK, orderVars, driverVars
<1>7. DriverMatchesStatus' /\ UNCHANGED <<rounds, driverOf>>
  BY <1>4, SameStatus DEF orderVars
<1> QED  BY <1>3, <1>6, <1>7, ClosingStep

LEMMA OfferSteps ==
  ASSUME IInv, NEW x \in offers,
         OfferElapses(x) \/ DeclineOffer(x) \/ \E advance \in BOOLEAN : ExpireOffer(x, advance)
  PROVE  Preserved
<1> USE DEF IInv
<1>1. TableInv(offers)
  OBVIOUS
<1>2. CASE OfferElapses(x)
  <2> DEFINE S == {x} \cup {y \in BatchOf(x.batch) : Live(y)}
  <2>1. /\ offers' = (offers \ S) \cup {[y EXCEPT !.elapsed = TRUE] : y \in S}
        /\ UNCHANGED <<orderVars, driverVars, workVars>> /\ Live(x)
    BY <1>2 DEF OfferElapses
  <2>2. /\ S \in SUBSET offers /\ \A y \in S : Live(y) /\ y.batch = x.batch
        /\ \A y \in offers : y.batch = x.batch /\ x.batch # NoBatch /\ Live(y) => y \in S
        /\ \A y, z \in S : x.batch = NoBatch => y = z
    BY <2>1 DEF BatchOf
  <2>3. offers' = ElapsedIn(offers, S)
    BY <2>1 DEF ElapsedIn, Elapsed
  <2> HIDE DEF S
  <2>4. /\ TableInv(offers') /\ Kept(offers, offers') /\ Old(offers, offers')
        /\ \A o : Accepted(offers', o) = Accepted(offers, o)
    <3> HIDE DEF IInv
    <3> QED  BY <1>1, <2>2, <2>3, ElapseTable
  <2>5. TypeOK'
    BY <2>1, <2>4 DEF TypeOK, TableInv, orderVars, driverVars, workVars
  <2>6. DriverMatchesStatus' /\ UNCHANGED <<rounds, driverOf>>
    BY <2>1, SameStatus DEF orderVars, workVars
  <2> QED  BY <2>4, <2>5, <2>6, ClosingStep
<1>3. CASE DeclineOffer(x)
  BY <1>3, CloseOfferStep DEF DeclineOffer
<1>4. CASE \E advance \in BOOLEAN : ExpireOffer(x, advance)
  BY <1>4, CloseOfferStep DEF ExpireOffer
<1> QED  BY <1>2, <1>3, <1>4

LEMMA CloseSiblingsStep ==
  ASSUME IInv, NEW c \in closing, CloseBatchSiblings(c)
  PROVE  Preserved
<1> USE DEF IInv
<1> DEFINE S == {y \in BatchOf(c.batch) : Open(y) /\ Key(y) # c.except}
<1>1. c \in Closing
  BY DEF TypeOK
<1>2. c.to \in {"DECLINED", "EXPIRED"} /\ c.except[1] \in Orders
  BY <1>1 DEF Closing
<1>3. S \in SUBSET offers /\ (\A y \in S : Open(y)) /\ offers' = Set(S, c.to)
  BY DEF BatchOf, CloseBatchSiblings
<1>4. /\ TableInv(offers') /\ Kept(offers, offers') /\ Old(offers, offers')
      /\ \A o : Accepted(offers', o) = Accepted(offers, o)
      /\ offers' \subseteq Offer
  BY <1>2, <1>3, SetStep
<1>5. UNCHANGED <<orderVars, driverVars, rounds, retrying>> /\ closing' = closing \ {c}
  BY DEF CloseBatchSiblings
<1>6. todo' \subseteq Orders
  <2>1. {y.order : y \in S} \subseteq Orders
    BY <1>3 DEF TypeOK, Offer
  <2>2. todo' \in {todo, todo \cup {c.except[1]} \cup {y.order : y \in S}}
    BY DEF CloseBatchSiblings
  <2> QED  BY <1>2, <2>1, <2>2 DEF TypeOK
<1>7. TypeOK'
  BY <1>4, <1>5, <1>6 DEF TypeOK, orderVars, driverVars
<1>8. DriverMatchesStatus' /\ UNCHANGED <<rounds, driverOf>>
  BY <1>5, SameStatus DEF orderVars
<1> QED  BY <1>4, <1>7, <1>8, ClosingStep

LEMMA WithdrawSteps ==
  ASSUME IInv, NEW o \in Orders, CancelOrder(o) \/ RedispatchOrder(o)
  PROVE  Preserved
<1> USE DEF IInv
<1>1. PICK missed \in {{}, JustInserted(o)} : offers' = cancelOpenOffers(o, missed)
  BY DEF CancelOrder, RedispatchOrder
<1>2. /\ TableInv(offers') /\ Kept(offers, offers') /\ Old(offers, offers')
      /\ \A p : Accepted(offers', p) = Accepted(offers, p)
      /\ offers' \subseteq Offer
  <2> DEFINE S == {x \in OffersOf(o) \ missed : Open(x)}
  <2>1. S \in SUBSET offers /\ (\A x \in S : Open(x)) /\ offers' = Set(S, "CANCELLED")
    BY <1>1 DEF OffersOf, cancelOpenOffers
  <2> QED  BY <2>1, SetStep
<1>3. UNCHANGED <<rounds, driverOf>>
  BY DEF CancelOrder, RedispatchOrder, workVars
<1>4. status' \in [Orders -> Status] /\ DriverMatchesStatus'
  <2>1. CASE CancelOrder(o)
    BY <2>1, StatusStep DEF CancelOrder, CanTransition
  <2>2. CASE RedispatchOrder(o) /\ CanTransition(o, "NO_DRIVER", "DISPATCHING")
    BY <2>2, <1>3, StatusStep, SameStatus DEF RedispatchOrder, CanTransition, TypeOK
  <2>3. CASE RedispatchOrder(o) /\ ~CanTransition(o, "NO_DRIVER", "DISPATCHING")
    BY <2>3, <1>3, SameStatus DEF RedispatchOrder, TypeOK
  <2> QED  BY <2>1, <2>2, <2>3
<1>5. TypeOK'
  <2>1. CASE CancelOrder(o)
    BY <2>1, <1>2, <1>4, SessionFacts DEF CancelOrder, TypeOK, workVars
  <2>2. CASE RedispatchOrder(o)
    BY <2>2, <1>2, <1>4 DEF RedispatchOrder, TypeOK, driverVars
  <2> QED  BY <2>1, <2>2
<1> QED  BY <1>2, <1>3, <1>4, <1>5, ClosingStep

----------------------------------------------------------------------------
(* Steps that give orders to a driver *)

LEMMA AcceptStep ==
  ASSUME IInv, NEW x \in offers, AcceptOffer(x)
  PROVE  Preserved
<1> USE DEF IInv
<1> DEFINE sibs == {y \in BatchOf(x.batch) : Open(y) /\ y.driver = x.driver} \ {x}
           won  == {y \in sibs : y.order # x.order /\ CanTransition(y.order, "DISPATCHING", "ASSIGNED")}
           taken == {x.order} \cup {y.order : y \in won}
           S == {x} \cup sibs
           W == {x} \cup won
           t == [y \in S |-> IF y \in W THEN "ACCEPTED" ELSE "CANCELLED"]
<1>1. /\ Live(x) /\ CanTransition(x.order, "DISPATCHING", "ASSIGNED")
      /\ offers' = (offers \ S) \cup {Closed(y, "ACCEPTED") : y \in W}
                                \cup {Closed(y, "CANCELLED") : y \in sibs \ won}
      /\ status' = [o \in Orders |-> IF o \in taken THEN "ASSIGNED" ELSE status[o]]
      /\ driverOf' = [o \in Orders |-> IF o \in taken THEN x.driver ELSE driverOf[o]]
      /\ markDriverBusy(x.driver)
      /\ UNCHANGED <<offerRound, redispatched, retryAt, fresh, cash, ending, workVars>>
  BY DEF AcceptOffer
<1>2. x \in Offer /\ x.order \in Orders /\ x.driver \in Drivers
  BY DEF TypeOK, Offer
<1>3. /\ S \in SUBSET offers /\ \A y \in S : Open(y) /\ y.driver = x.driver
      /\ W \subseteq S /\ S \ W = sibs \ won
  BY <1>1 DEF BatchOf, Live
<1>4. \A y \in W : y.order \in taken /\ y.order \in Orders /\ status[y.order] = "DISPATCHING"
  BY <1>1, <1>2, <1>3 DEF CanTransition, TypeOK, Offer
<1>5. \A o \in taken : \E y \in W : y.order = o
  OBVIOUS
<1>6. \A y, z \in W : y.order = z.order => y = z
  <2>1. \A y \in won : y.order # x.order /\ y.batch = x.batch /\ y \in offers /\ x.batch # NoBatch
    BY DEF BatchOf
  <2> QED  BY <2>1 DEF TableInv, BatchMates
<1>7. t \in [S -> OfferStatus \ {"OFFERED"}]
  BY DEF OfferStatus
<1>8. offers' = ClosedIn(offers, S, t)
  <2>1. (\A y \in W : t[y] = "ACCEPTED") /\ (\A y \in S \ W : t[y] = "CANCELLED")
    BY <1>3
  <2> HIDE DEF t, W, S, sibs, won
  <2> QED  BY <1>1, <1>3, <2>1 DEF ClosedIn
<1> HIDE DEF sibs, won, taken, S, W
<1>9. \A y \in S : t[y] = "ACCEPTED" <=> y \in W
  OBVIOUS
<1> HIDE DEF t
<1>10. TableInv(offers') /\ Kept(offers, offers') /\ Old(offers, offers')
  BY <1>3, <1>7, <1>8, CloseTable
<1>11. \A y \in S : /\ Closed(y, t[y]).order = y.order /\ Closed(y, t[y]).driver = x.driver
                    /\ Closed(y, t[y]).status = t[y] /\ y.status = "OFFERED"
  BY <1>3, <1>7, ClosedFacts DEF TypeOK, Open
<1>12. OneWinner'
  <2> SUFFICES ASSUME NEW o \in Orders
               PROVE  IF driverOf'[o] = NoDriver THEN Accepted(offers', o) = {}
                      ELSE \E y \in Accepted(offers', o) :
                             y.driver = driverOf'[o] /\ Accepted(offers', o) = {y}
    BY WinnerNext
  <2>1. CASE o \in taken
    <3>1. PICK z \in W : z.order = o
      BY <2>1, <1>5
    <3>2. Accepted(offers, o) = {}
      BY <1>4, <3>1 DEF DriverMatchesStatus, Unassigned, OneWinner, Accepted, OffersOf
    <3>3. z \in S /\ t[z] = "ACCEPTED"
      BY <1>3, <1>9
    <3>4. \A y \in S : y.order = o /\ t[y] = "ACCEPTED" => y = z
      BY <1>6, <1>9, <3>1
    <3>5. Accepted(offers', o) = {Closed(z, t[z])}
      BY <1>8, <1>11, <3>1, <3>2, <3>3, <3>4 DEF ClosedIn, Accepted
    <3>6. driverOf'[o] = x.driver /\ x.driver # NoDriver
      BY <1>1, <1>2, <2>1, DispatchAssumption DEF DispatchAssumption
    <3> QED  BY <1>11, <3>3, <3>5, <3>6
  <2>2. CASE o \notin taken
    <3>1. driverOf'[o] = driverOf[o]
      BY <1>1, <2>2
    <3>2. \A y \in S : y.order = o => t[y] # "ACCEPTED"
      BY <1>4, <1>9, <2>2
    <3>3. Accepted(offers', o) = Accepted(offers, o)
      BY <1>8, <1>11, <3>2 DEF ClosedIn, Accepted
    <3> QED  BY <3>1, <3>3, WinnerFrame
  <2> QED  BY <2>1, <2>2
<1>13. DriverMatchesStatus' /\ status' \in [Orders -> Status] /\ driverOf' \in [Orders -> Drivers \cup {NoDriver}]
  <2>1. /\ "ASSIGNED" \in Status /\ "ASSIGNED" \notin Unassigned
        /\ status \in [Orders -> Status] /\ driverOf \in [Orders -> Drivers \cup {NoDriver}]
    BY DEF Status, Unassigned, TypeOK
  <2> QED  BY <1>1, <1>2, <2>1 DEF DriverMatchesStatus
<1>14. UNCHANGED <<rounds, todo, closing, retrying>>
  BY <1>1 DEF workVars
<1>15. session' \in [Drivers -> Session]
  BY <1>1, <1>2, SessionFacts
<1>16. TypeOK'
  BY <1>1, <1>10, <1>13, <1>14, <1>15 DEF TypeOK, TableInv
<1>17. RoundOwnsBatch' /\ RoundsRead'
  <2>1. \A y \in offers' : y.batch = NoBatch \/ \E v \in offers : y.batch = v.batch
    BY <1>10 DEF Old
  <2>2. RoundsRead'
    BY <1>14 DEF RoundsRead
  <2> QED  BY <1>10, <1>14, <2>1, <2>2, OwnsStep DEF MayBatch
<1>18. Whole(offers')
  <2> SUFFICES ASSUME NEW u \in offers', NEW v \in offers', u.status = "ACCEPTED",
                      u.batch # NoBatch, v.batch = u.batch, Open(v)
               PROVE  FALSE
    BY DEF Whole
  <2>1. \A y \in S : Closed(y, t[y]).batch = y.batch /\ ~Open(Closed(y, t[y]))
    BY <1>3, <1>7, <1>11, ClosedFacts DEF TypeOK, Open
  <2>2. v \in offers \ S
    BY <1>8, <2>1 DEF ClosedIn
  <2>3. CASE u \in offers
    BY <2>2, <2>3 DEF Whole
  <2>4. CASE u \notin offers
    <3>1. PICK y \in S : u = Closed(y, t[y])
      BY <1>8, <2>4 DEF ClosedIn
    <3>2. y.batch = v.batch /\ y \in W /\ v # y
      BY <1>9, <1>11, <2>1, <2>2, <3>1
    <3>3. v.batch = x.batch /\ v \in offers /\ v # x
      BY <1>3, <2>2, <3>2 DEF W, S, won, sibs, BatchOf
    <3>4. v.driver = x.driver
      BY <3>2, <3>3 DEF TableInv, BatchMates
    <3> QED  BY <2>2, <3>3, <3>4 DEF S, sibs, BatchOf
  <2> QED  BY <2>3, <2>4
<1> QED  BY <1>10, <1>12, <1>13, <1>16, <1>17, <1>18, OldOpensNone DEF Preserved

LEMMA ManualStep ==
  ASSUME IInv, NEW o \in Orders, NEW d \in Drivers, AssignDriverManually(o, d)
  PROVE  Preserved
<1> USE DEF IInv
<1> DEFINE k == <<o, d, ManualRound>>
           row == [order |-> o, driver |-> d, round |-> ManualRound, status |-> "ACCEPTED",
                   elapsed |-> TRUE, batch |-> NoBatch]
<1>1. PICK missed \in {{}, JustInserted(o)} :
        offers' = {x \in cancelOpenOffers(o, missed) : Key(x) # k} \cup {row}
  BY DEF AssignDriverManually
<1> DEFINE T == cancelOpenOffers(o, missed)
           S == {x \in OffersOf(o) \ missed : Open(x)}
<1>2. /\ status' = [status EXCEPT ![o] = "ASSIGNED"] /\ driverOf' = [driverOf EXCEPT ![o] = d]
      /\ markDriverBusy(d) /\ status[o] \in {"NO_DRIVER", "DISPATCHING"}
      /\ UNCHANGED <<offerRound, redispatched, retryAt, fresh, cash, ending, workVars>>
  BY DEF AssignDriverManually, CanTransition
<1>3. /\ row \in Offer /\ row.order = o /\ row.driver = d /\ row.status = "ACCEPTED"
      /\ row.batch = NoBatch /\ row.round = ManualRound /\ Key(row) = k
  BY DEF Offer, Round, OfferStatus, Key
<1>4. TableInv(T) /\ Kept(offers, T) /\ Old(offers, T) /\ \A p : Accepted(T, p) = Accepted(offers, p)
  <2>1. S \in SUBSET offers /\ (\A x \in S : Open(x)) /\ T = SetIn(offers, S, "CANCELLED")
    BY DEF OffersOf, cancelOpenOffers, Set, SetIn
  <2> HIDE DEF S, T
  <2> QED  BY <2>1, SetTable
<1>5. Accepted(T, o) = {}
  BY <1>2, <1>4 DEF DriverMatchesStatus, Unassigned, OneWinner, Accepted, OffersOf
<1> HIDE DEF row, k, S, T
<1>6. \A x \in T : Key(x) # k
  <2> SUFFICES ASSUME NEW x \in T, Key(x) = k
               PROVE  FALSE
    OBVIOUS
  <2>1. x.order = o /\ x.round = ManualRound
    BY KeyEq, <1>3
  <2> QED  BY <2>1, <1>4, <1>5 DEF TableInv, ManualAccepted, Accepted
<1>7. offers' = T \cup {row}
  BY <1>1, <1>6 DEF T
<1>8. /\ TableInv(offers') /\ Kept(T, offers') /\ Whole(offers')
      /\ \A p : Accepted(offers', p) = Accepted(T, p) \cup Accepted({row}, p)
  <2>1. Whole(T)
    BY <1>4, WholeOld
  <2> QED  BY <1>3, <1>4, <1>6, <1>7, <2>1, AddTable
<1>9. Kept(offers, offers')
  BY <1>4, <1>8 DEF Kept, Open
<1>10. OneWinner'
  <2> SUFFICES ASSUME NEW p \in Orders
               PROVE  IF driverOf'[p] = NoDriver THEN Accepted(offers', p) = {}
                      ELSE \E y \in Accepted(offers', p) :
                             y.driver = driverOf'[p] /\ Accepted(offers', p) = {y}
    BY WinnerNext
  <2>1. CASE p = o
    <3>1. Accepted(offers', p) = {row}
      BY <1>3, <1>5, <1>8, <2>1 DEF Accepted
    <3>2. driverOf'[p] = d /\ d # NoDriver
      BY <1>2, <2>1, DispatchAssumption DEF DispatchAssumption, TypeOK
    <3> QED  BY <1>3, <3>1, <3>2
  <2>2. CASE p # o
    <3>1. Accepted(offers', p) = Accepted(offers, p)
      BY <1>3, <1>4, <1>8, <2>2 DEF Accepted
    <3>2. driverOf'[p] = driverOf[p]
      BY <1>2, <2>2 DEF TypeOK
    <3> QED  BY <3>1, <3>2, WinnerFrame
  <2> QED  BY <2>1, <2>2
<1>11. DriverMatchesStatus' /\ status' \in [Orders -> Status] /\ driverOf' \in [Orders -> Drivers \cup {NoDriver}]
  <2>1. "ASSIGNED" \in Status /\ "ASSIGNED" \notin Unassigned
    BY DEF Status, Unassigned
  <2> QED  BY <1>2, <2>1 DEF DriverMatchesStatus, TypeOK
<1>12. UNCHANGED <<rounds, todo, closing, retrying>>
  BY <1>2 DEF workVars
<1>13. TypeOK'
  BY <1>2, <1>8, <1>11, <1>12, SessionFacts DEF TypeOK, TableInv
<1>14. RoundOwnsBatch' /\ RoundsRead'
  <2>1. \A y \in offers' : y.batch = NoBatch \/ \E v \in offers : y.batch = v.batch
    BY <1>3, <1>4, <1>7 DEF Old
  <2>2. RoundsRead'
    BY <1>12 DEF RoundsRead
  <2> QED  BY <1>9, <1>12, <2>1, <2>2, OwnsStep DEF MayBatch
<1>15. OpenedWell
  BY <1>3, <1>4, <1>7 DEF OpenedWell, Old, Open
<1> QED  BY <1>8, <1>9, <1>10, <1>11, <1>13, <1>14, <1>15 DEF Preserved

----------------------------------------------------------------------------
(* The theorems *)

LEMMA StutterStep ==
  ASSUME IInv, UNCHANGED vars
  PROVE  Preserved
<1>1. UNCHANGED <<offers, rounds, driverOf, status>>
  BY DEF vars
<1>2. TypeOK'
  BY DEF IInv, TypeOK, vars
<1> QED  BY <1>1, <1>2, SameStatus, QuietStep DEF IInv

\* The invariant is inductive.
LEMMA InvStep ==
  ASSUME IInv, [Next]_vars
  PROVE  Preserved
<1>1. CASE RoundStep
  BY <1>1, RoundSteps, CommitStep, AttachStep DEF RoundStep
<1>2. CASE OfferStep
  BY <1>2, OfferSteps, AcceptStep DEF OfferStep
<1>3. CASE CloseStep
  BY <1>3, CloseSiblingsStep, SweepAndCrash DEF CloseStep
<1>4. CASE SweepStep
  BY <1>4, SweepAndCrash
<1>5. CASE CrashStep
  BY <1>5, SweepAndCrash, RoundSteps DEF CrashStep
<1>6. CASE OrderStep
  BY <1>6, TripAndDriver, WithdrawSteps, ManualStep DEF OrderStep
<1>7. CASE TripStep \/ DriverStep
  BY <1>7, TripAndDriver
<1>8. CASE UNCHANGED vars
  BY <1>8, StutterStep
<1> QED  BY <1>1, <1>2, <1>3, <1>4, <1>5, <1>6, <1>7, <1>8 DEF Next

LEMMA Invariance == Spec => []IInv
<1>1. Init => IInv
  BY InvInit
<1>2. IInv /\ [Next]_vars => IInv'
  BY InvStep DEF Preserved
<1> QED  BY <1>1, <1>2, PTL DEF Spec

\* Every variable keeps its type, in particular what a round carries from one of its
\* steps to the next and the closings that wait for their batch.
THEOREM TypeCorrect == Spec => []TypeOK
<1>1. IInv => TypeOK
  BY DEF IInv
<1> QED  BY <1>1, Invariance, PTL

\* acceptOffer, assignDriverManually, the rounds and the sweep in any interleaving: at
\* most one offer of an order is ACCEPTED, and it is its driver's.
THEOREM SingleWinner == Spec => []OneWinner
<1>1. IInv => OneWinner
  BY DEF IInv
<1> QED  BY <1>1, Invariance, PTL

\* Guarded transitions: no status says an order is waiting while a driver has it, or
\* on the road while none has.
THEOREM DriverKnown == Spec => []DriverMatchesStatus
<1>1. IInv => DriverMatchesStatus
  BY DEF IInv
<1> QED  BY <1>1, Invariance, PTL

\* The offers of a batch are one driver's, for different orders, and share their window.
THEOREM BatchesAlike == Spec => []BatchShape
<1>1. IInv => BatchShape
  BY DEF IInv, TableInv, BatchMates, BatchShape, BatchOf
<1> QED  BY <1>1, Invariance, PTL

\* acceptOffer in any interleaving with rounds that form batches, declines, expiries and
\* the closing of what is left of a batch: who wins one offer of a batch wins the batch.
THEOREM BatchesAreWon == Spec => []BatchWonWhole
<1>1. IInv => BatchWonWhole
  BY DEF IInv, Whole, BatchWonWhole, BatchOf
<1> QED  BY <1>1, Invariance, PTL

\* The guarded updates of acceptOffer, declineOffer, expireOffer, cancelOpenOffers and
\* closeBatchSiblings: the first to close an offer decides it for ever.
THEOREM FirstCloseDecides == Spec => FirstCloseWins
<1>1. IInv /\ [Next]_vars =>
        [\A x \in offers :
           \E y \in offers' : Key(y) = Key(x) /\ (Open(x) \/ y.status = x.status)]_vars
  BY InvStep DEF Preserved, Kept
<1> QED  BY <1>1, Invariance, PTL DEF Spec, FirstCloseWins

\* The compare-and-set of runDispatchRound and attachBatchSibling: no round writes an
\* offer for an order that has left DISPATCHING.
THEOREM NoLateOffer == Spec => OffersOnlyWhileDispatching
<1>1. IInv /\ [Next]_vars =>
        [\A x \in offers' : (Open(x) /\ \A y \in offers : Key(y) # Key(x))
           => status[x.order] = "DISPATCHING" /\ status'[x.order] = "DISPATCHING"]_vars
  BY InvStep DEF Preserved, OpenedWell
<1> QED  BY <1>1, Invariance, PTL DEF Spec, OffersOnlyWhileDispatching

\* No offer past maxOfferRounds while batching is off.
THEOREM RoundsAreBounded == Spec => []RoundsBounded
<1>1. Init => RoundsBounded
  BY DispatchAssumption DEF DispatchAssumption, Init, RoundsBounded
<1>2. IInv /\ RoundsBounded /\ [Next]_vars => RoundsBounded'
  <2> SUFFICES ASSUME IInv, RoundsBounded, [Next]_vars, ~BatchingEnabled, NEW p \in Orders
               PROVE  offerRound'[p] <= MaxOfferRounds
    BY DEF RoundsBounded
  <2>1. /\ offerRound \in [Orders -> Nat] /\ offerRound[p] <= MaxOfferRounds
        /\ MaxOfferRounds \in Nat
    BY DispatchAssumption DEF DispatchAssumption, IInv, TypeOK, RoundsBounded
  <2>2. CASE UNCHANGED offerRound
    BY <2>1, <2>2
  <2>3. ASSUME NEW w \in Workers, CommitOffer(w)
        PROVE  offerRound'[p] <= MaxOfferRounds
    <3>1. rounds[w].at < MaxOfferRounds /\ rounds[w].at \in Nat
      BY <2>3, StageFacts DEF IInv, RoundsRead, CommitOffer, RoundState
    <3>2. \/ UNCHANGED offerRound
          \/ /\ offerRound[rounds[w].order] = rounds[w].at
             /\ offerRound' = [offerRound EXCEPT ![rounds[w].order] = @ + 1]
      BY <2>3 DEF CommitOffer, CanOffer
    <3> QED  BY <2>1, <3>1, <3>2
  <2>4. ASSUME NEW w \in Workers, AttachSibling(w)
        PROVE  FALSE
    BY <2>4 DEF IInv, RoundsRead, AttachSibling
  <2>5. ASSUME NEW o \in Orders, RetryClaim(o)
        PROVE  offerRound'[p] <= MaxOfferRounds
    BY <2>1, <2>5, SMTT(60) DEF RetryClaim
  <2>6. CASE RoundStep
    BY <2>2, <2>3, <2>4, <2>6 DEF RoundStep, BeginRound, ExhaustDispatch, FindSibling, orderVars
  <2>7. CASE OfferStep
    BY <2>2, <2>7 DEF OfferStep, OfferElapses, DeclineOffer, AcceptOffer, ExpireOffer, CloseOffer, orderVars
  <2>8. CASE CloseStep
    BY <2>2, <2>8 DEF CloseStep, CloseBatchSiblings, LoseClosing, orderVars
  <2>9. CASE SweepStep
    BY <2>2, <2>5, <2>9 DEF SweepStep, SweepAdvance, SweepAdopt, BackoffElapses, RetryTransition,
                            RetryFails, orderVars
  <2>10. CASE CrashStep
    BY <2>2, <2>10 DEF CrashStep, LoseJob, LoseRound, orderVars
  <2>11. CASE OrderStep
    BY <2>2, <2>11 DEF OrderStep, CreateDeliveryOrder, SweepScheduledOrders, FixDropoff, ToDispatch,
                       CancelOrder, RedispatchOrder, AssignDriverManually
  <2>12. CASE TripStep
    BY <2>2, <2>12 DEF TripStep, Arrive, PickUp, Advance, CompleteDelivery, FailDelivery, ReturnToMerchant,
                       CountActive, EndFails, orderVars
  <2>13. CASE DriverStep
    BY <2>2, <2>13 DEF DriverStep, SetAvailability, IngestLocation, GpsGoesStale, SweepStalePresence,
                       RecordRemittance, orderVars
  <2>14. CASE UNCHANGED vars
    BY <2>2, <2>14 DEF vars
  <2> QED  BY <2>6, <2>7, <2>8, <2>9, <2>10, <2>11, <2>12, <2>13, <2>14 DEF Next
<1> QED  BY <1>1, <1>2, Invariance, PTL DEF Spec
=============================================================================
