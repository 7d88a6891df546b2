--------------------------- MODULE DecisionsProofs ---------------------------
(*****************************************************************************)
(* What the steps of Decisions preserve, for any number of proposals and     *)
(* requests and any bound.  BackOfficeProofs cites ApprovingKeeps.           *)
(*****************************************************************************)
EXTENDS Decisions, TLAPS

Row == [of : Proposals, n : Openings, outcome : Outcome]
Request == [at : Stage, on : Proposals \cup {NoProposal}, n : 0 .. MaxOpenings]

\* A request holds an approval from its claim to its row.
Holds(a, p, n) == approver[a].at \in {"run", "log", "error"} /\ approver[a].on = p /\ approver[a].n = n

Written(p, n) == \E i \in 1 .. Len(ledger) : ledger[i].of = p /\ ledger[i].n = n

\* Nothing has come of the approval yet, and nobody holds it.
Unused(p, n) == ran[p][n] = 0 /\ ~Written(p, n) /\ \A a \in Approvers : ~Holds(a, p, n)

\* What a request knows at its stage.
RequestInv(a) ==
  LET p == approver[a].on  n == approver[a].n
  IN  /\ approver[a].at # "idle" => p \in Proposals /\ n \in Openings /\ proposal[p] # "none"
      /\ approver[a].at \in {"run", "log", "error"} => n <= opening[p] /\ ~Written(p, n)
      /\ approver[a].at = "run" => ran[p][n] = 0
      /\ approver[a].at = "log" => ran[p][n] = 1

\* A row that says success has its run, and is the only one of its approval.
LedgerInv ==
  /\ \A i, j \in 1 .. Len(ledger) : ledger[i].of = ledger[j].of /\ ledger[i].n = ledger[j].n => i = j
  /\ \A i \in 1 .. Len(ledger) :
       /\ ledger[i].outcome = "success" => ran[ledger[i].of][ledger[i].n] = 1
       /\ ledger[i].n <= opening[ledger[i].of]

\* The approvals to come are unused: those of later openings, and of this one while it lasts.
ToCome(p, n) == n > opening[p] \/ (n = opening[p] /\ proposal[p] = "open")

DecInv ==
  /\ proposal \in [Proposals -> {"none", "open", "approved", "rejected"}]
  /\ opening \in [Proposals -> 0 .. MaxOpenings]
  /\ ran \in [Proposals -> [Openings -> Nat]]
  /\ queueRan \subseteq Proposals \X Openings
  /\ ledger \in Seq(Row)
  /\ approver \in [Approvers -> Request]
  /\ \A p \in Proposals : IF proposal[p] = "none" THEN opening[p] = 0 ELSE opening[p] \in Openings
  /\ \A p \in Proposals, n \in Openings : /\ ran[p][n] <= 1
                                          /\ ToCome(p, n) => Unused(p, n)
  /\ \A a \in Approvers : RequestInv(a)
  /\ \A a, b \in Approvers, p \in Proposals, n \in Openings : Holds(a, p, n) /\ Holds(b, p, n) => a = b
  /\ LedgerInv

LEMMA DecisionsTyped == DecInv => DecisionsTypeOK
BY DEF DecInv, DecisionsTypeOK, Row, Request

LEMMA DecisionsStart == DecisionsInit => DecInv
<1> SUFFICES ASSUME DecisionsInit
             PROVE  DecInv
  OBVIOUS
<1>1. Away \in Request /\ Away.at = "idle"
  BY DecisionsAssumption DEF Away, Request, Stage
<1>2. /\ proposal \in [Proposals -> {"none", "open", "approved", "rejected"}]
      /\ opening \in [Proposals -> 0 .. MaxOpenings]
      /\ ran \in [Proposals -> [Openings -> Nat]]
      /\ queueRan \subseteq Proposals \X Openings
      /\ ledger \in Seq(Row) /\ Len(ledger) = 0
      /\ approver \in [Approvers -> Request]
  BY <1>1, DecisionsAssumption DEF DecisionsInit
<1>3. \A a \in Approvers : approver[a].at = "idle"
  BY <1>1 DEF DecisionsInit
<1>4. \A p \in Proposals : proposal[p] = "none" /\ opening[p] = 0 /\ \A n \in Openings : ran[p][n] = 0
  BY DEF DecisionsInit
<1> HIDE DEF DecisionsInit
<1>5. \A a \in Approvers : RequestInv(a)
  BY <1>3 DEF RequestInv
<1>6. LedgerInv
  BY <1>2 DEF LedgerInv
<1>7. \A p \in Proposals, n \in Openings : Unused(p, n)
  BY <1>2, <1>3, <1>4 DEF Unused, Written, Holds
<1>8. \A a, b \in Approvers, p \in Proposals, n \in Openings : ~Holds(a, p, n)
  BY <1>3 DEF Holds
<1> QED  BY <1>2, <1>4, <1>5, <1>6, <1>7, <1>8 DEF DecInv

\* The rows are the same but for an outcome that was rolled back.
SameRows ==
  /\ ledger' \in Seq(Row) /\ Len(ledger') = Len(ledger)
  /\ \A i \in 1 .. Len(ledger) : /\ ledger'[i].of = ledger[i].of /\ ledger'[i].n = ledger[i].n
                                 /\ ledger'[i].outcome = "success" => ledger[i].outcome = "success"

LEMMA RowsUntouched == ASSUME DecInv, UNCHANGED ledger PROVE SameRows
BY DEF SameRows, DecInv

LEMMA RowsRolledBack ==
  ASSUME DecInv, NEW i \in 1 .. Len(ledger), RolledBack(i)
  PROVE  SameRows
<1>1. ledger[i] \in Row /\ ledger \in Seq(Row)
  BY DEF DecInv
<1>2. [ledger[i] EXCEPT !.outcome = "rolled_back"] \in Row
  BY <1>1 DEF Row, Outcome
<1> QED  BY <1>1, <1>2 DEF SameRows, RolledBack, Row

\* A request reads, goes on or leaves, and holds no approval it did not hold.
LEMMA RequestMoves ==
  ASSUME DecInv, NEW a \in Approvers, NEW r \in Request,
         approver' = [approver EXCEPT ![a] = r],
         UNCHANGED <<opening, ran>>, SameRows, queueRan' \subseteq Proposals \X Openings,
         proposal' \in [Proposals -> {"none", "open", "approved", "rejected"}],
         \A p \in Proposals : /\ proposal'[p] = "none" <=> proposal[p] = "none"
                              /\ proposal'[p] = "open" => proposal[p] = "open",
         r.at # "idle" => r.on \in Proposals /\ r.n \in Openings /\ proposal[r.on] # "none",
         r.at \notin {"run", "log", "error"}
  PROVE  DecInv'
<1>1. approver' \in [Approvers -> Request] /\ approver'[a] = r
      /\ \A b \in Approvers : b # a => approver'[b] = approver[b]
  BY DEF DecInv
<1>2. \A b \in Approvers : \A p, n : Holds(b, p, n)' => Holds(b, p, n) /\ b # a
  BY <1>1 DEF Holds
<1>3. \A p, n : Written(p, n)' <=> Written(p, n)
  BY DEF Written, SameRows
<1>4. \A p \in Proposals, n \in Openings : ToCome(p, n)' => Unused(p, n)'
  BY <1>2, <1>3 DEF ToCome, Unused, DecInv
<1>5. \A b \in Approvers : RequestInv(b)'
  <2>1. RequestInv(a)'
    BY <1>1 DEF RequestInv
  <2>2. ASSUME NEW b \in Approvers, b # a
        PROVE  RequestInv(b)'
    <3>1. approver'[b] = approver[b] /\ RequestInv(b) /\ UNCHANGED <<opening, ran>>
      BY <1>1, <2>2 DEF DecInv
    <3>2. \A p \in Proposals : proposal'[p] = "none" <=> proposal[p] = "none"
      OBVIOUS
    <3> QED  BY <1>3, <3>1, <3>2 DEF RequestInv
  <2> QED  BY <2>1, <2>2
<1>6. LedgerInv'
  <2>1. Len(ledger') = Len(ledger) /\ UNCHANGED <<opening, ran>>
    BY DEF SameRows
  <2>2. \A i \in 1 .. Len(ledger) : /\ ledger'[i].of = ledger[i].of /\ ledger'[i].n = ledger[i].n
                                    /\ ledger'[i].outcome = "success" => ledger[i].outcome = "success"
    BY DEF SameRows
  <2>3. LedgerInv
    BY DEF DecInv
  <2> DEFINE k == Len(ledger)
  <2> HIDE DEF k
  <2>4. \A i, j \in 1 .. k : ledger'[i].of = ledger'[j].of /\ ledger'[i].n = ledger'[j].n => i = j
    BY <2>2, <2>3 DEF LedgerInv, k
  <2>5. \A i \in 1 .. k : /\ ledger'[i].outcome = "success" => ran'[ledger'[i].of][ledger'[i].n] = 1
                          /\ ledger'[i].n <= opening'[ledger'[i].of]
    BY <2>1, <2>2, <2>3 DEF LedgerInv, k
  <2> QED  BY <2>1, <2>4, <2>5 DEF LedgerInv, k
<1>7. \A p \in Proposals : (IF proposal[p] = "none" THEN opening[p] = 0 ELSE opening[p] \in Openings)'
  BY DEF DecInv
<1> QED  BY <1>1, <1>2, <1>4, <1>5, <1>6, <1>7 DEF DecInv, SameRows

LEMMA RollBackKeeps ==
  ASSUME DecInv, NEW i \in 1 .. Len(ledger), RollBack(i)
  PROVE  DecInv'
<1>1. SameRows /\ UNCHANGED <<proposal, opening, ran, queueRan, approver>>
  BY RowsRolledBack DEF RollBack
<1>2. \A p, n : /\ Written(p, n)' <=> Written(p, n)
               /\ \A a \in Approvers : Holds(a, p, n)' <=> Holds(a, p, n)
  BY <1>1 DEF Written, SameRows, Holds
<1>3. \A p \in Proposals, n \in Openings : ToCome(p, n)' => Unused(p, n)'
  BY <1>1, <1>2 DEF ToCome, Unused, DecInv
<1>4. \A b \in Approvers : RequestInv(b)'
  BY <1>1, <1>2 DEF RequestInv, DecInv
<1>5. LedgerInv'
  BY <1>1 DEF LedgerInv, DecInv, SameRows
<1> QED  BY <1>1, <1>2, <1>3, <1>4, <1>5 DEF DecInv, SameRows

\* What only reads, leaves, dismisses, or goes by the queue.
LEMMA ReadersKeep ==
  ASSUME DecInv, NEW a \in Approvers,
         \/ \E p \in Proposals, at \in Stage : ReadProposal(a, p, at)
         \/ Dismiss(a) \/ UndoRow(a) \/ QueueRuns(a) \/ QueueMarks(a) \/ ApproverDies(a)
  PROVE  DecInv'
<1>1. Away \in Request /\ Away.at = "idle"
  BY DecisionsAssumption DEF Away, Request, Stage
<1>2. ASSUME NEW p \in Proposals, NEW at \in Stage, ReadProposal(a, p, at)
      PROVE  DecInv'
  <2> DEFINE r == [at |-> at, on |-> p, n |-> opening[p]]
  <2>1. r \in Request /\ r.at = at /\ r.on = p /\ r.n = opening[p]
    BY DEF DecInv, Request
  <2>2. at \notin {"run", "log", "error"} /\ proposal[p] # "none"
    BY <1>2 DEF ReadProposal
  <2>3. approver' = [approver EXCEPT ![a] = r] /\ UNCHANGED <<proposal, opening, ran, queueRan, ledger>>
    BY <1>2 DEF ReadProposal
  <2> HIDE DEF r
  <2> QED  BY <2>1, <2>2, <2>3, RowsUntouched, RequestMoves DEF DecInv
<1>3. ASSUME Dismiss(a) \/ QueueMarks(a) \/ ApproverDies(a)
      PROVE  DecInv'
  <2>1. /\ approver[a].at # "idle" /\ approver[a].on \in Proposals
        /\ proposal[approver[a].on] # "none"
    BY <1>3 DEF Dismiss, QueueMarks, ApproverDies, DecInv, RequestInv
  <2>2. /\ proposal' \in [Proposals -> {"none", "open", "approved", "rejected"}]
        /\ \A p \in Proposals : /\ proposal'[p] = "none" <=> proposal[p] = "none"
                                /\ proposal'[p] = "open" => proposal[p] = "open"
    BY <1>3, <2>1 DEF Dismiss, QueueMarks, ApproverDies, DecInv
  <2>3. /\ approver' = [approver EXCEPT ![a] = Away] /\ UNCHANGED <<opening, ran, ledger>>
        /\ queueRan' \subseteq Proposals \X Openings
    BY <1>3 DEF Dismiss, QueueMarks, ApproverDies, IsAway, DecInv
  <2> QED  BY <1>1, <2>2, <2>3, RowsUntouched, RequestMoves
<1>4. ASSUME NEW at \in {"reopen", "mark"}, approver[a].at \in {"undo", "invoke"}, Steps(a, at),
             SameRows, UNCHANGED <<proposal, opening, ran>>, queueRan' \subseteq Proposals \X Openings
      PROVE  DecInv'
  <2> DEFINE r == [approver[a] EXCEPT !.at = at]
  <2>1. r \in Request /\ r.at = at /\ r.on = approver[a].on /\ r.n = approver[a].n
    BY DEF DecInv, Request, Stage
  <2>2. r.on \in Proposals /\ r.n \in Openings /\ proposal[r.on] # "none"
    BY <1>4, <2>1 DEF DecInv, RequestInv
  <2>3. approver' = [approver EXCEPT ![a] = r]
    BY <1>4 DEF Steps
  <2> HIDE DEF r
  <2> QED  BY <1>4, <2>1, <2>2, <2>3, RequestMoves DEF DecInv
<1>5. ASSUME UndoRow(a)
      PROVE  DecInv'
  <2>1. CASE Len(ledger) > 0 /\ RolledBack(Len(ledger)) /\ Steps(a, "reopen")
    <3>1. Len(ledger) \in 1 .. Len(ledger)
      BY <2>1 DEF DecInv
    <3>2. queueRan' \subseteq Proposals \X Openings
      BY <1>5 DEF UndoRow, DecInv
    <3> QED  BY <1>4, <1>5, <2>1, <3>1, <3>2, RowsRolledBack DEF UndoRow
  <2>2. CASE IsAway(a) /\ UNCHANGED ledger
    BY <1>1, <1>5, <2>2, RowsUntouched, RequestMoves DEF UndoRow, IsAway, DecInv
  <2> QED  BY <1>5, <2>1, <2>2 DEF UndoRow
<1>6. ASSUME QueueRuns(a)
      PROVE  DecInv'
  <2>1. <<approver[a].on, approver[a].n>> \in Proposals \X Openings
    BY <1>6 DEF QueueRuns, DecInv, RequestInv
  <2>2. queueRan' \subseteq Proposals \X Openings
    BY <1>6, <2>1 DEF QueueRuns, DecInv
  <2> QED  BY <1>4, <1>6, <2>2, RowsUntouched DEF QueueRuns
<1> QED  BY <1>2, <1>3, <1>5, <1>6

\* The claim takes the approval of the opening it finds, which nobody has had.
LEMMA ClaimKeeps ==
  ASSUME DecInv, NEW a \in Approvers, ClaimProposal(a)
  PROVE  DecInv'
<1> DEFINE p == approver[a].on
           n == opening[p]
<1>1. p \in Proposals /\ n \in Openings /\ UNCHANGED <<opening, ran, queueRan, ledger>>
  BY DEF ClaimProposal, DecInv, RequestInv
<1>2. CASE proposal[p] # "open" /\ IsAway(a) /\ UNCHANGED proposal
  <2>1. Away \in Request /\ Away.at = "idle"
    BY DecisionsAssumption DEF Away, Request, Stage
  <2> QED  BY <1>1, <1>2, <2>1, RowsUntouched, RequestMoves DEF IsAway, DecInv
<1>3. CASE /\ proposal[p] = "open" /\ proposal' = [proposal EXCEPT ![p] = "approved"]
           /\ approver' = [approver EXCEPT ![a] = [at |-> "run", on |-> p, n |-> n]]
  <2>1. Unused(p, n)
    BY <1>1, <1>3 DEF DecInv, ToCome
  <2>2. /\ approver' \in [Approvers -> Request]
        /\ approver'[a].at = "run" /\ approver'[a].on = p /\ approver'[a].n = n
        /\ \A b \in Approvers : b # a => approver'[b] = approver[b]
    BY <1>1, <1>3 DEF DecInv, Request, Stage, Openings
  <2>3. \A b \in Approvers : \A q, m :
          Holds(b, q, m)' => Holds(b, q, m) \/ (b = a /\ q = p /\ m = n)
    <3> HIDE DEF p, n
    <3> QED  BY <2>2 DEF Holds
  <2>4. \A q, m : Written(q, m)' <=> Written(q, m)
    BY <1>1 DEF Written
  <2>5. \A q \in Proposals, m \in Openings : ToCome(q, m)' => ToCome(q, m) /\ ~(q = p /\ m = n)
    BY <1>1, <1>3 DEF ToCome, DecInv, Openings
  <2>6. \A q \in Proposals, m \in Openings : ran'[q][m] <= 1 /\ (ToCome(q, m)' => Unused(q, m)')
    BY <1>1, <2>3, <2>4, <2>5 DEF Unused, DecInv
  <2>7. \A b \in Approvers : RequestInv(b)'
    <3>1. RequestInv(a)'
      BY <1>1, <1>3, <2>1, <2>2, <2>4 DEF RequestInv, Unused, DecInv, Openings
    <3>2. \A b \in Approvers : b # a => RequestInv(b)'
      BY <1>1, <1>3, <2>2, <2>4 DEF RequestInv, DecInv
    <3> QED  BY <3>1, <3>2
  <2>8. \A b, c \in Approvers, q \in Proposals, m \in Openings : Holds(b, q, m)' /\ Holds(c, q, m)' => b = c
    <3> HIDE DEF p, n
    <3>1. \A b \in Approvers : ~Holds(b, p, n)
      BY <2>1 DEF Unused
    <3>2. ASSUME NEW b \in Approvers, NEW c \in Approvers, NEW q \in Proposals, NEW m \in Openings,
                 Holds(b, q, m)', Holds(c, q, m)'
          PROVE  b = c
      <4>1. /\ Holds(b, q, m) \/ (b = a /\ q = p /\ m = n)
            /\ Holds(c, q, m) \/ (c = a /\ q = p /\ m = n)
        BY <2>3, <3>2
      <4>2. CASE q = p /\ m = n
        BY <3>1, <4>1, <4>2
      <4>3. CASE ~(q = p /\ m = n)
        BY <4>1, <4>3 DEF DecInv
      <4> QED  BY <4>2, <4>3
    <3> QED  BY <3>2
  <2>9. LedgerInv'
    BY <1>1 DEF LedgerInv, DecInv
  <2>10. \A q \in Proposals : (IF proposal[q] = "none" THEN opening[q] = 0 ELSE opening[q] \in Openings)'
    BY <1>1, <1>3 DEF DecInv
  <2>11. proposal' \in [Proposals -> {"none", "open", "approved", "rejected"}]
    BY <1>3 DEF DecInv
  <2> HIDE DEF p, n
  <2> QED  BY <1>1, <2>2, <2>6, <2>7, <2>8, <2>9, <2>10, <2>11 DEF DecInv
<1> QED  BY <1>2, <1>3 DEF ClaimProposal

\* The tool runs for the one request that holds the approval.
LEMMA RunKeeps ==
  ASSUME DecInv, NEW a \in Approvers, RunTool(a)
  PROVE  DecInv'
<1> DEFINE p == approver[a].on
           n == approver[a].n
<1>1. /\ p \in Proposals /\ n \in Openings /\ n <= opening[p] /\ ran[p][n] = 0 /\ Holds(a, p, n)
      /\ ~Written(p, n) /\ UNCHANGED <<proposal, opening, queueRan, ledger>>
  BY DEF RunTool, DecInv, RequestInv, Holds
<1>2. /\ ran' \in [Proposals -> [Openings -> Nat]]
      /\ \A q \in Proposals, m \in Openings :
           /\ ran'[q][m] = ran[q][m] \/ (q = p /\ m = n /\ ran'[q][m] = 1)
           /\ ran'[q][m] <= 1
  <2>1. CASE ran' = [ran EXCEPT ![p][n] = @ + 1]
    <3> HIDE DEF p, n
    <3> QED  BY <1>1, <2>1 DEF DecInv
  <2>2. CASE UNCHANGED ran
    BY <2>2 DEF DecInv
  <2> QED  BY <2>1, <2>2 DEF RunTool, Counts
<1>3. /\ approver' \in [Approvers -> Request]
      /\ approver'[a].at \in {"log", "error"} /\ approver'[a].on = p /\ approver'[a].n = n
      /\ approver'[a].at = "log" => ran'[p][n] = 1
      /\ \A b \in Approvers : b # a => approver'[b] = approver[b]
  <2>1. PICK at \in {"log", "error"} : Steps(a, at) /\ (at = "log" => Counts(a))
    BY DEF RunTool
  <2>2. approver' = [approver EXCEPT ![a].at = at] /\ approver[a] \in Request /\ at \in Stage
    BY <2>1 DEF Steps, DecInv, Stage
  <2>3. at = "log" => ran'[p][n] = 1
    BY <2>1, <1>1 DEF Counts, DecInv
  <2> QED  BY <2>1, <2>2, <2>3 DEF DecInv, Request
<1>4. \A b \in Approvers : \A q, m : Holds(b, q, m)' <=> Holds(b, q, m)
  BY <1>1, <1>3 DEF Holds
<1>5. \A q, m : Written(q, m)' <=> Written(q, m)
  BY <1>1 DEF Written
<1>6. \A q \in Proposals, m \in Openings : ToCome(q, m)' => Unused(q, m)'
  <2> SUFFICES ASSUME NEW q \in Proposals, NEW m \in Openings, ToCome(q, m)'
               PROVE  Unused(q, m)'
    OBVIOUS
  <2>1. Unused(q, m)
    BY <1>1 DEF ToCome, DecInv
  <2>2. ~(q = p /\ m = n)
    BY <2>1, <1>1 DEF Unused
  <2> QED  BY <1>2, <1>4, <1>5, <2>1, <2>2 DEF Unused
<1>7. \A b \in Approvers : RequestInv(b)'
  <2>1. RequestInv(a)'
    <3>1. proposal[p] # "none"
      BY <1>1 DEF Holds, DecInv, RequestInv
    <3> HIDE DEF p, n
    <3> QED  BY <1>1, <1>3, <1>5, <3>1 DEF RequestInv
  <2>2. ASSUME NEW b \in Approvers, b # a
        PROVE  RequestInv(b)'
    <3>1. approver[b].at \in {"run", "log", "error"} => ~(approver[b].on = p /\ approver[b].n = n)
      BY <1>1, <2>2 DEF DecInv, Holds
    <3> QED  BY <1>1, <1>2, <1>3, <1>5, <2>2, <3>1 DEF RequestInv, DecInv
  <2> QED  BY <2>1, <2>2
<1>8. LedgerInv'
  <2>1. \A i \in 1 .. Len(ledger) : ledger[i] \in Row
    BY DEF DecInv
  <2>2. \A i \in 1 .. Len(ledger) : /\ ledger[i].of \in Proposals /\ ledger[i].n \in Openings
                                   /\ ~(ledger[i].of = p /\ ledger[i].n = n)
    BY <1>1, <2>1 DEF Written, Row
  <2>3. LedgerInv /\ UNCHANGED <<opening, ledger>>
    BY <1>1 DEF DecInv
  <2> HIDE DEF p, n
  <2> QED  BY <1>2, <2>2, <2>3 DEF LedgerInv
<1> HIDE DEF p, n
<1> QED  BY <1>1, <1>2, <1>3, <1>4, <1>6, <1>7, <1>8 DEF DecInv

\* The row of an approval is written by the request that holds it, and ends it.
LEMMA WriteKeeps ==
  ASSUME DecInv, NEW a \in Approvers, WriteRow(a)
  PROVE  DecInv'
<1> DEFINE p == approver[a].on
           n == approver[a].n
           end == IF approver[a].at = "log" THEN "success" ELSE "failure"
           row == [of |-> p, n |-> n, outcome |-> end]
<1>1. /\ p \in Proposals /\ n \in Openings /\ n <= opening[p] /\ Holds(a, p, n) /\ ~Written(p, n)
      /\ approver[a].at = "log" => ran[p][n] = 1
      /\ UNCHANGED <<proposal, opening, ran, queueRan>>
  BY DEF WriteRow, DecInv, RequestInv, Holds
<1>2. row \in Row /\ row.of = p /\ row.n = n /\ row.outcome = end
  BY <1>1 DEF Row, Outcome
<1>3. ledger' = Append(ledger, row)
  BY DEF WriteRow
<1>4. approver' = [approver EXCEPT ![a] = Away]
  BY DEF WriteRow, IsAway
<1>5. end = "success" => ran[p][n] = 1
  BY <1>1
<1> HIDE DEF p, n, end, row
<1>6. /\ ledger' \in Seq(Row) /\ Len(ledger') = Len(ledger) + 1 /\ ledger'[Len(ledger) + 1] = row
      /\ \A i \in 1 .. Len(ledger) : ledger'[i] = ledger[i]
  BY <1>2, <1>3 DEF DecInv
<1>7. Len(ledger) \in Nat /\ \A i \in 1 .. Len(ledger) : ledger[i] \in Row
  BY DEF DecInv
<1>8. \A q, m : Written(q, m)' => Written(q, m) \/ (q = p /\ m = n)
  BY <1>2, <1>6, <1>7 DEF Written
<1>9. Away \in Request /\ Away.at = "idle"
  BY DecisionsAssumption DEF Away, Request, Stage
<1>10. /\ approver' \in [Approvers -> Request] /\ approver'[a].at = "idle"
       /\ \A b \in Approvers : b # a => approver'[b] = approver[b]
  BY <1>4, <1>9 DEF DecInv
<1>11. \A b \in Approvers : \A q, m : Holds(b, q, m)' => Holds(b, q, m) /\ b # a
  BY <1>10 DEF Holds
<1>12. \A q \in Proposals, m \in Openings : ToCome(q, m)' => Unused(q, m)'
  <2> SUFFICES ASSUME NEW q \in Proposals, NEW m \in Openings, ToCome(q, m)'
               PROVE  Unused(q, m)'
    OBVIOUS
  <2>1. Unused(q, m)
    BY <1>1 DEF ToCome, DecInv
  <2>2. ~(q = p /\ m = n)
    BY <2>1, <1>1 DEF Unused
  <2> QED  BY <1>1, <1>8, <1>11, <2>1, <2>2 DEF Unused
<1>13. \A b \in Approvers : RequestInv(b)'
  <2>1. RequestInv(a)'
    BY <1>10 DEF RequestInv
  <2>2. ASSUME NEW b \in Approvers, b # a
        PROVE  RequestInv(b)'
    <3>1. approver[b].at \in {"run", "log", "error"} => ~(approver[b].on = p /\ approver[b].n = n)
      BY <1>1, <2>2 DEF DecInv, Holds
    <3> QED  BY <1>1, <1>8, <1>10, <2>2, <3>1 DEF RequestInv, DecInv
  <2> QED  BY <2>1, <2>2
<1>14. LedgerInv'
  <2>1. \A i \in 1 .. Len(ledger) : ~(ledger[i].of = p /\ ledger[i].n = n)
    BY <1>1 DEF Written
  <2>2. \A i \in 1 .. Len(ledger') : \/ i \in 1 .. Len(ledger) /\ ledger'[i] = ledger[i]
                                     \/ i = Len(ledger) + 1 /\ ledger'[i] = row
    <3> DEFINE k == Len(ledger)
    <3>1. k \in Nat /\ Len(ledger') = k + 1 /\ ledger'[k + 1] = row
          /\ \A i \in 1 .. k : ledger'[i] = ledger[i]
      BY <1>6, <1>7
    <3> HIDE DEF k
    <3>2. \A i \in 1 .. Len(ledger') : i \in 1 .. k \/ i = k + 1
      BY <3>1
    <3>3. ASSUME NEW i \in 1 .. Len(ledger')
          PROVE  \/ i \in 1 .. k /\ ledger'[i] = ledger[i]
                 \/ i = k + 1 /\ ledger'[i] = row
      <4>1. CASE i \in 1 .. k
        BY <3>1, <4>1
      <4>2. CASE i = k + 1
        BY <3>1, <4>2
      <4> QED  BY <3>2, <4>1, <4>2
    <3> QED  BY <3>3 DEF k
  <2>3. \A i, j \in 1 .. Len(ledger') : ledger'[i].of = ledger'[j].of /\ ledger'[i].n = ledger'[j].n => i = j
    BY <1>2, <2>1, <2>2 DEF LedgerInv, DecInv
  <2>4. \A i \in 1 .. Len(ledger') :
          /\ ledger'[i].outcome = "success" => ran'[ledger'[i].of][ledger'[i].n] = 1
          /\ ledger'[i].n <= opening'[ledger'[i].of]
    BY <1>1, <1>2, <1>5, <2>2 DEF LedgerInv, DecInv
  <2> QED  BY <2>3, <2>4 DEF LedgerInv
<1> QED  BY <1>1, <1>6, <1>10, <1>11, <1>12, <1>13, <1>14 DEF DecInv

\* A proposal that opens, for the first time or again, opens with an approval to come.
LEMMA OpensKeep ==
  ASSUME DecInv, NEW p \in Proposals, opening[p] < MaxOpenings,
         proposal' = [proposal EXCEPT ![p] = "open"],
         opening' = [opening EXCEPT ![p] = @ + 1],
         UNCHANGED <<ran, queueRan, ledger>>,
         \/ UNCHANGED approver
         \/ \E a \in Approvers : IsAway(a)
  PROVE  DecInv'
<1>1. Away \in Request /\ Away.at = "idle"
  BY DecisionsAssumption DEF Away, Request, Stage
<1>2. /\ approver' \in [Approvers -> Request]
      /\ \A b \in Approvers : approver'[b] = approver[b] \/ approver'[b].at = "idle"
  BY <1>1 DEF IsAway, DecInv
<1>3. /\ opening[p] \in Nat /\ opening' \in [Proposals -> 0 .. MaxOpenings]
      /\ opening'[p] = opening[p] + 1 /\ opening'[p] \in Openings /\ proposal'[p] = "open"
      /\ \A q \in Proposals : q # p => opening'[q] = opening[q] /\ proposal'[q] = proposal[q]
      /\ proposal' \in [Proposals -> {"none", "open", "approved", "rejected"}]
  BY DecisionsAssumption DEF DecInv, Openings
<1>4. \A b \in Approvers : \A q, m : Holds(b, q, m)' => Holds(b, q, m)
  BY <1>2 DEF Holds
<1>5. \A q, m : Written(q, m)' <=> Written(q, m)
  BY DEF Written
<1>6. \A q \in Proposals : opening[q] \in 0 .. MaxOpenings /\ opening[q] <= opening'[q]
  BY <1>3 DEF DecInv
<1>7. \A q \in Proposals, m \in Openings : ToCome(q, m)' => ToCome(q, m)
  BY <1>3, <1>6 DEF ToCome, Openings
<1>8. \A q \in Proposals, m \in Openings : ToCome(q, m)' => Unused(q, m)'
  BY <1>4, <1>5, <1>7 DEF Unused, DecInv
<1>9. \A b \in Approvers : RequestInv(b)'
  <2> SUFFICES ASSUME NEW b \in Approvers
               PROVE  RequestInv(b)'
    OBVIOUS
  <2>1. CASE approver'[b].at = "idle"
    BY <2>1 DEF RequestInv
  <2>2. CASE approver'[b] = approver[b] /\ approver[b].at # "idle"
    BY <1>3, <1>5, <1>6, <2>2 DEF RequestInv, DecInv, Openings
  <2> QED  BY <1>2, <2>1, <2>2
<1>10. LedgerInv'
  <2>1. \A i \in 1 .. Len(ledger) : ledger[i].of \in Proposals /\ ledger[i].n \in Openings
    <3>1. \A i \in 1 .. Len(ledger) : ledger[i] \in Row
      BY DEF DecInv
    <3> QED  BY <3>1 DEF Row
  <2> QED  BY <1>6, <2>1 DEF LedgerInv, DecInv, Openings
<1>11. \A q \in Proposals : (IF proposal[q] = "none" THEN opening[q] = 0 ELSE opening[q] \in Openings)'
  BY <1>3 DEF DecInv
<1> QED  BY <1>2, <1>3, <1>4, <1>8, <1>9, <1>10, <1>11 DEF DecInv

LEMMA ApprovingKeeps ==
  ASSUME DecInv, Approving \/ UNCHANGED decisionVars
  PROVE  DecInv'
<1>1. CASE UNCHANGED decisionVars
  BY <1>1 DEF decisionVars, DecInv, RequestInv, LedgerInv, ToCome, Unused, Written, Holds
<1>2. ASSUME NEW p \in Proposals, Propose(p)
      PROVE  DecInv'
  <2>1. opening[p] = 0 /\ opening[p] < MaxOpenings
    BY <1>2, DecisionsAssumption DEF Propose, DecInv
  <2>2. opening' = [opening EXCEPT ![p] = @ + 1]
    BY <1>2, <2>1 DEF Propose
  <2> QED  BY <1>2, <2>1, <2>2, OpensKeep DEF Propose
<1>3. ASSUME NEW a \in Approvers, Reopen(a)
      PROVE  DecInv'
  <2>1. approver[a].on \in Proposals
    BY <1>3 DEF Reopen, DecInv, RequestInv
  <2> QED  BY <1>3, <2>1, OpensKeep DEF Reopen
<1> QED  BY <1>1, <1>2, <1>3, ReadersKeep, ClaimKeeps, RunKeeps, WriteKeeps, RollBackKeeps DEF Approving
=============================================================================
