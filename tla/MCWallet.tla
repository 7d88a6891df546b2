------------------------------ MODULE MCWallet ------------------------------
EXTENDS Wallet, TLC

CONSTANTS d1, d2, v1, f1, o1, o2, o3, o4, p1, r1, s1, a1

MCRoster == (f1 :> {d1, d2})

\* o1: cash on delivery; o2: its fee is more than its total; o3, o4: prepaid, o4
\* without a fee.
MCOrderOf ==
  (o1 :> [driver |-> d1, vendor |-> v1, total |-> 3, fee |-> 1, tip |-> 1, cod |-> TRUE])
    @@ (o2 :> [driver |-> d1, vendor |-> v1, total |-> 1, fee |-> 2, tip |-> 2, cod |-> TRUE])
    @@ (o3 :> [driver |-> d2, vendor |-> v1, total |-> 2, fee |-> 1, tip |-> 1, cod |-> FALSE])
    @@ (o4 :> [driver |-> d2, vendor |-> v1, total |-> 2, fee |-> 0, tip |-> 1, cod |-> FALSE])

MCPaymentOf == (p1 :> [acct |-> FleetCash(f1), amount |-> 3])

MCRemitOf == (r1 :> [driver |-> d1, amount |-> 2])

MCSettleOf ==
  (s1 :> [fleet |-> f1, lines |-> <<[driver |-> d1, amount |-> 2], [driver |-> d2, amount |-> 1]>>])

MCAdjustOf == (a1 :> [acct |-> DriverCash(d2), change |-> 1])

\* Random ids: the clearing account happens to come before the drivers'.
MCLockRank ==
  (Clearing :> 1) @@ (DriverCash(d1) :> 2) @@ (Payable(v1) :> 3)
    @@ (DriverCash(d2) :> 4) @@ (FleetCash(f1) :> 5) @@ (Revenue :> 6)

Symmetry == Permutations(Workers)
=============================================================================
