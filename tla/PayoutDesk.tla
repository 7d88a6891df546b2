----------------------------- MODULE PayoutDesk -----------------------------
(*****************************************************************************)
(* Paying the delivery companies: the monthly statement that the company     *)
(* confirms or disputes and the finance desk pays (fleetService.ts,          *)
(* fleetPortal.ts), and the withdrawal that an accepted tax invoice asks     *)
(* for (autoWithdrawWorker.ts, routes/financial.ts).                         *)
(*****************************************************************************)
EXTENDS Naturals

CONSTANTS Accountants,  \* requests the server works on at a time
          Withdrawals,  \* rows of PaymentWithdrawal there may be, all of one billing
          NoWithdrawal

ASSUME PayoutAssumption == NoWithdrawal \notin Withdrawals

VARIABLES
  statement,   \* status of the month's FleetPayoutStatement
  total,       \* its total: 0 or 1, which stands for any other
  invoiced,    \* the stamped invoice of the statement is filed
  posted,      \* FLEET_PAYOUT postings for it
  tax,         \* status of the tax invoice
  billing,     \* status of its billing
  withdrawal,  \* status of the withdrawals
  desk         \* requests being handled

statementVars == <<statement, total, invoiced, posted>>
withdrawalVars == <<tax, billing, withdrawal>>
payoutVars == <<statementVars, withdrawalVars, desk>>

AtRest == [at |-> "idle", on |-> NoWithdrawal, file |-> FALSE]

PayoutInit == /\ statement = "NONE" /\ total = 0 /\ invoiced = FALSE /\ posted = 0
              /\ tax = "DRAFT" /\ billing = "PENDING_INVOICE"
              /\ withdrawal = [w \in Withdrawals |-> "NONE"]
              /\ desk = [a \in Accountants |-> AtRest]

StatementStep == {"generate", "confirm", "dispute", "pay"}
WithdrawalStep == {"submitted", "rejected", "trigger", "approve", "create",
                   "settle", "settled", "fail", "failed"}

PayoutTypeOK ==
  /\ statement \in {"NONE", "FINAL", "CONFIRMED", "DISPUTED", "PAID"}
  /\ total \in {0, 1} /\ invoiced \in BOOLEAN /\ posted \in Nat
  /\ tax \in {"DRAFT", "SUBMITTED", "ACCEPTED", "REJECTED"}
  /\ billing \in {"PENDING_INVOICE", "AWAITING_APPROVAL", "APPROVED", "PAID", "REJECTED"}
  /\ withdrawal \in [Withdrawals -> {"NONE", "PENDING", "WITHDRAWN", "FAILED"}]
  /\ desk \in [Accountants -> [at : StatementStep \cup WithdrawalStep \cup {"idle"},
                               on : Withdrawals \cup {NoWithdrawal}, file : BOOLEAN]]

Goes(a, at) == desk' = [desk EXCEPT ![a].at = at]
Rests(a) == desk' = [desk EXCEPT ![a] = AtRest]

(*****************************************************************************)
(* The statement.                                                            *)
(*****************************************************************************)
\* Each request reads the statement, and refuses by what it reads.
ReadStatement(a, at, file) ==
  /\ desk[a].at = "idle"
  /\ \/ at = "generate" /\ statement = "NONE" /\ ~file
     \/ /\ at = "confirm" /\ statement \in {"FINAL", "DISPUTED"}
        /\ file \/ (statement = "FINAL" /\ invoiced)  \* INVOICE_REQUIRED
     \/ at = "dispute" /\ statement \notin {"NONE", "PAID"} /\ ~file
     \/ /\ at = "pay" /\ ~file
        /\ statement = "CONFIRMED" \/ (total = 0 /\ statement \in {"FINAL", "DISPUTED"})
  /\ desk' = [desk EXCEPT ![a].at = at, ![a].file = file]
  /\ UNCHANGED <<statementVars, withdrawalVars>>

\* One statement a month: the unique key decides between two generators.
CreateStatement(a) ==
  /\ desk[a].at = "generate"
  /\ \/ statement = "NONE" /\ statement' = "FINAL" /\ total' \in {0, 1}
     \/ statement # "NONE" /\ UNCHANGED <<statement, total>>
  /\ Rests(a)
  /\ UNCHANGED <<invoiced, posted, withdrawalVars>>

\* The file is replaced also by a confirmation that comes too late.
Confirm(a) ==
  /\ desk[a].at = "confirm"
  /\ invoiced' = (invoiced \/ desk[a].file)
  /\ statement' = IF statement \in {"FINAL", "DISPUTED"} THEN "CONFIRMED" ELSE statement
  /\ Rests(a)
  /\ UNCHANGED <<total, posted, withdrawalVars>>

\* Mutant: the dispute goes by what was read.
DisputeUnguarded(a) ==
  /\ desk[a].at = "dispute"
  /\ statement' = "DISPUTED"
  /\ Rests(a)
  /\ UNCHANGED <<total, invoiced, posted, withdrawalVars>>

Dispute(a) ==
  /\ desk[a].at = "dispute"
  /\ statement' = IF statement \in {"FINAL", "CONFIRMED"} THEN "DISPUTED" ELSE statement
  /\ Rests(a)
  /\ UNCHANGED <<total, invoiced, posted, withdrawalVars>>

\* postFleetPayout's transaction commits: the posting, unless its key is there, and
\* with it the status, whatever that is by now.
Pay(a) ==
  /\ desk[a].at = "pay"
  /\ \/ total = 0 /\ statement' = "PAID" /\ UNCHANGED posted
     \/ total = 1 /\ posted = 0 /\ posted' = 1 /\ statement' = "PAID"
     \/ total = 1 /\ posted # 0 /\ UNCHANGED <<statement, posted>>
  /\ Rests(a)
  /\ UNCHANGED <<total, invoiced, withdrawalVars>>

Statements ==
  \E a \in Accountants :
    \/ \E at \in StatementStep, file \in BOOLEAN : ReadStatement(a, at, file)
    \/ CreateStatement(a) \/ Confirm(a) \/ Dispute(a) \/ Pay(a)

(*****************************************************************************)
(* The withdrawal.                                                           *)
(*****************************************************************************)
\* The routes write the tax invoice without looking at its status, and the billing in a
\* statement of its own.
WriteTax(a) ==
  /\ desk[a].at = "idle"
  /\ \/ tax' = "SUBMITTED" /\ Goes(a, "submitted")
     \/ tax' = "ACCEPTED" /\ Goes(a, "trigger")
     \/ tax' = "REJECTED" /\ Goes(a, "rejected")
  /\ UNCHANGED <<statementVars, billing, withdrawal>>

WriteBilling(a) ==
  /\ \/ desk[a].at = "submitted" /\ billing' = "AWAITING_APPROVAL"
     \/ desk[a].at = "rejected" /\ billing' = "REJECTED"
     \/ desk[a].at = "settled" /\ billing' = "PAID"
     \/ desk[a].at = "failed" /\ billing' = "APPROVED"
  /\ Rests(a)
  /\ UNCHANGED <<statementVars, tax, withdrawal>>

\* triggerWithdrawal: a withdrawal that is pending or done is answered instead.
FindWithdrawal(a) ==
  /\ desk[a].at = "trigger"
  /\ \/ /\ tax = "ACCEPTED" /\ \A w \in Withdrawals : withdrawal[w] \notin {"PENDING", "WITHDRAWN"}
        /\ Goes(a, "approve")
     \/ /\ tax # "ACCEPTED" \/ \E w \in Withdrawals : withdrawal[w] \in {"PENDING", "WITHDRAWN"}
        /\ Rests(a)
  /\ UNCHANGED <<statementVars, withdrawalVars>>

ApproveBilling(a) ==
  /\ desk[a].at = "approve"
  /\ billing' = "APPROVED"
  /\ Goes(a, "create")
  /\ UNCHANGED <<statementVars, tax, withdrawal>>

CreateWithdrawal(a, w) ==
  /\ desk[a].at = "create" /\ withdrawal[w] = "NONE"
  /\ withdrawal' = [withdrawal EXCEPT ![w] = "PENDING"]
  /\ Rests(a)
  /\ UNCHANGED <<statementVars, tax, billing>>

ReadWithdrawal(a, w, at) ==
  /\ desk[a].at = "idle" /\ withdrawal[w] = "PENDING" /\ at \in {"settle", "fail"}
  /\ desk' = [desk EXCEPT ![a].at = at, ![a].on = w]
  /\ UNCHANGED <<statementVars, withdrawalVars>>

\* Mutant: the billing is written first.
SettleBillingFirst(a) ==
  /\ desk[a].at = "settle"
  /\ billing' = "PAID"
  /\ withdrawal' = withdrawal
  /\ Goes(a, "settled")
  /\ UNCHANGED <<statementVars, tax>>

\* Only one of those who read it PENDING gets it.
SettleWithdrawal(a) ==
  LET w == desk[a].on
  IN  /\ desk[a].at = "settle"
      /\ \/ /\ withdrawal[w] = "PENDING"
            /\ withdrawal' = [withdrawal EXCEPT ![w] = "WITHDRAWN"]
            /\ Goes(a, "settled")
         \/ withdrawal[w] # "PENDING" /\ Rests(a) /\ UNCHANGED withdrawal
      /\ UNCHANGED <<statementVars, tax, billing>>

\* Mutant: a transfer that failed after it had been confirmed.
FailUnguarded(a) ==
  /\ desk[a].at = "fail"
  /\ withdrawal' = [withdrawal EXCEPT ![desk[a].on] = "FAILED"]
  /\ Goes(a, "failed")
  /\ UNCHANGED <<statementVars, tax, billing>>

FailWithdrawal(a) ==
  LET w == desk[a].on
  IN  /\ desk[a].at = "fail"
      /\ \/ /\ withdrawal[w] = "PENDING"
            /\ withdrawal' = [withdrawal EXCEPT ![w] = "FAILED"]
            /\ Goes(a, "failed")
         \/ withdrawal[w] # "PENDING" /\ Rests(a) /\ UNCHANGED withdrawal
      /\ UNCHANGED <<statementVars, tax, billing>>

Payouts ==
  \E a \in Accountants :
    \/ WriteTax(a) \/ WriteBilling(a) \/ FindWithdrawal(a) \/ ApproveBilling(a)
    \/ SettleWithdrawal(a) \/ FailWithdrawal(a)
    \/ \E w \in Withdrawals :
         CreateWithdrawal(a, w) \/ \E at \in {"settle", "fail"} : ReadWithdrawal(a, w, at)

\* The process dies, or a statement fails: what it committed stays.
DeskFails(a) ==
  /\ desk[a].at # "idle" /\ Rests(a)
  /\ UNCHANGED <<statementVars, withdrawalVars>>
=============================================================================
