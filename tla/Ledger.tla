------------------------------- MODULE Ledger -------------------------------
(*****************************************************************************)
(* What the double-entry ledger promises, whatever the handlers that write   *)
(* it do to each other: the header of services/wallet/walletService.ts       *)
(* ("append-only", "balanced", one transaction per replay key), and the      *)
(* comments of the services that book through it (a row that says the money  *)
(* moved is committed together with the entry that moved it).                *)
(*                                                                           *)
(* books    the set of committed wallet transactions [key, legs]             *)
(* settled  settled[o]: the business row o says that its money has moved     *)
(*****************************************************************************)
EXTENDS Integers

CONSTANTS
  Keys,            \* idempotency keys
  Obligations,     \* business rows that can come to say "paid"
  KeyOf(_),        \* the key an obligation books under
  Balanced(_)      \* debits equal credits

VARIABLES books, settled

vars == <<books, settled>>

Booked(k, b) == \E e \in b : e.key = k

Init == books = {} /\ settled \in [Obligations -> BOOLEAN]

(*****************************************************************************)
(* One committed transaction: entries are added and never changed, each      *)
(* under a key of its own and balanced, and no row starts to say "paid"      *)
(* without its entry being in the books from that moment on.                 *)
(*****************************************************************************)
Book ==
  /\ books \subseteq books'
  /\ \A e \in books' \ books :
       /\ e.key \in Keys
       /\ Balanced(e.legs)
       /\ \A f \in books' : f.key = e.key => f = e
  /\ \A o \in Obligations :
       IF settled[o] THEN settled'[o] ELSE settled'[o] => Booked(KeyOf(o), books')

Next == Book

Spec == Init /\ [][Next]_vars
=============================================================================
