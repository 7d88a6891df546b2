------------------------------ MODULE Decisions ------------------------------
(*****************************************************************************)
(* The proposals of the agent (agent/registry.ts) and the people who decide  *)
(* them: the decisions surface (routes/decisions.ts), which claims a         *)
(* proposal, runs its tool and writes the audit row, and can undo that; the  *)
(* older queue (routes/queue.ts), which runs the tool and marks after; and   *)
(* the rollback of an audit row (routes/audit.ts).  All proposals are of     *)
(* one run of the agent and about one subject, which is what an undo goes    *)
(* by when it looks for the row.                                             *)
(*****************************************************************************)
EXTENDS Naturals, Sequences

CONSTANTS Proposals,    \* PendingAgentAction
          Approvers,    \* requests the server works on at a time
          NoProposal,
          MaxOpenings   \* bound: how often a proposal is opened

ASSUME DecisionsAssumption == NoProposal \notin Proposals /\ MaxOpenings \in Nat \ {0}

VARIABLES
  proposal,  \* "none" for a row not yet there, "open", or its resolution
  opening,   \* how often it has been opened: which of its approvals is meant
  ran,       \* how often its tool ran for the approval of each opening that was claimed
  queueRan,  \* openings in which the queue ran its tool, without a claim
  ledger,    \* AgentAction, in the order of creation
  approver   \* requests being handled, the proposal and the opening they are about

decisionVars == <<proposal, opening, ran, queueRan, ledger, approver>>

Away == [at |-> "idle", on |-> NoProposal, n |-> 0]

Openings == 1 .. MaxOpenings

DecisionsInit ==
  /\ proposal = [p \in Proposals |-> "none"]
  /\ opening = [p \in Proposals |-> 0]
  /\ ran = [p \in Proposals |-> [n \in Openings |-> 0]]
  /\ queueRan = {}
  /\ ledger = <<>>
  /\ approver = [a \in Approvers |-> Away]

\* Stages of a request: of an approval, a dismissal, an undo, and of the queue.
Stage == {"idle", "approve", "run", "log", "error", "dismiss", "undo", "reopen",
          "invoke", "mark", "reject"}

Outcome == {"success", "failure", "rolled_back"}

DecisionsTypeOK ==
  /\ proposal \in [Proposals -> {"none", "open", "approved", "rejected"}]
  /\ opening \in [Proposals -> 0 .. MaxOpenings]
  /\ ran \in [Proposals -> [Openings -> Nat]]
  /\ queueRan \subseteq Proposals \X Openings
  /\ ledger \in Seq([of : Proposals, n : Openings, outcome : Outcome])
  /\ approver \in [Approvers -> [at : Stage, on : Proposals \cup {NoProposal}, n : 0 .. MaxOpenings]]

Steps(a, at) == approver' = [approver EXCEPT ![a].at = at]
IsAway(a) == approver' = [approver EXCEPT ![a] = Away]

\* A tool that needs approval leaves a proposal.
Propose(p) ==
  /\ proposal[p] = "none"
  /\ proposal' = [proposal EXCEPT ![p] = "open"]
  /\ opening' = [opening EXCEPT ![p] = 1]
  /\ UNCHANGED <<ran, queueRan, ledger, approver>>

\* Every route reads the proposal first: what is resolved is refused, and only what was
\* approved is undone.
ReadProposal(a, p, at) ==
  /\ approver[a].at = "idle"
  /\ \/ at \in {"approve", "dismiss", "invoke", "reject"} /\ proposal[p] = "open"
     \/ at = "undo" /\ proposal[p] = "approved"
  /\ approver' = [approver EXCEPT ![a] = [at |-> at, on |-> p, n |-> opening[p]]]
  /\ UNCHANGED <<proposal, opening, ran, queueRan, ledger>>

\* Mutant: the claim goes by what was read.
ClaimRead(a) ==
  /\ approver[a].at = "approve" /\ Steps(a, "run")
  /\ proposal' = [proposal EXCEPT ![approver[a].on] = "approved"]
  /\ UNCHANGED <<opening, ran, queueRan, ledger>>

\* updateMany where it is not resolved.  The approval is that of the opening it finds.
ClaimProposal(a) ==
  LET p == approver[a].on
  IN  /\ approver[a].at = "approve"
      /\ \/ /\ proposal[p] = "open"
            /\ proposal' = [proposal EXCEPT ![p] = "approved"]
            /\ approver' = [approver EXCEPT ![a] = [at |-> "run", on |-> p, n |-> opening[p]]]
         \/ proposal[p] # "open" /\ IsAway(a) /\ UNCHANGED proposal
      /\ UNCHANGED <<opening, ran, queueRan, ledger>>

Counts(a) == ran' = [ran EXCEPT ![approver[a].on][approver[a].n] = @ + 1]

\* The tool is run, or answers with an error, whatever it did before.  A tool that is only
\* recorded counts as run.
RunTool(a) ==
  /\ approver[a].at = "run"
  /\ \/ Counts(a) /\ Steps(a, "log")
     \/ (Counts(a) \/ UNCHANGED ran) /\ Steps(a, "error")
  /\ UNCHANGED <<proposal, opening, queueRan, ledger>>

\* writeAgentAction, with the outcome of the tool.
WriteRow(a) ==
  /\ approver[a].at \in {"log", "error"}
  /\ ledger' = Append(ledger, [of |-> approver[a].on, n |-> approver[a].n,
                               outcome |-> IF approver[a].at = "log" THEN "success" ELSE "failure"])
  /\ IsAway(a)
  /\ UNCHANGED <<proposal, opening, ran, queueRan>>

\* A dismissal is claimed alike; its memory row suppresses the next proposal, not this one.
Dismiss(a) ==
  LET p == approver[a].on
  IN  /\ approver[a].at = "dismiss" /\ IsAway(a)
      /\ proposal' = IF proposal[p] = "open" THEN [proposal EXCEPT ![p] = "rejected"] ELSE proposal
      /\ UNCHANGED <<opening, ran, queueRan, ledger>>

RolledBack(i) == ledger' = [ledger EXCEPT ![i].outcome = "rolled_back"]

\* The undo takes the last row there is of the run and the subject, whatever its proposal
\* and outcome; none, or one older than five minutes, is refused.
UndoRow(a) ==
  /\ approver[a].at = "undo"
  /\ \/ Len(ledger) > 0 /\ RolledBack(Len(ledger)) /\ Steps(a, "reopen")
     \/ IsAway(a) /\ UNCHANGED ledger
  /\ UNCHANGED <<proposal, opening, ran, queueRan>>

\* By id, whatever has become of it.
Reopen(a) ==
  LET p == approver[a].on
  IN  /\ approver[a].at = "reopen" /\ opening[p] < MaxOpenings
      /\ proposal' = [proposal EXCEPT ![p] = "open"]
      /\ opening' = [opening EXCEPT ![p] = @ + 1]
      /\ IsAway(a)
      /\ UNCHANGED <<ran, queueRan, ledger>>

\* The queue runs the tool without a claim, which no row tells of, ...
QueueRuns(a) == /\ approver[a].at = "invoke" /\ Steps(a, "mark")
                /\ queueRan' = queueRan \cup {<<approver[a].on, approver[a].n>>}
                /\ UNCHANGED <<proposal, opening, ran, ledger>>

\* ... and then marks by id; a rejection is marked at once.
QueueMarks(a) ==
  LET p == approver[a].on
  IN  /\ approver[a].at \in {"mark", "reject"} /\ IsAway(a)
      /\ proposal' = [proposal EXCEPT ![p] =
                        IF approver[a].at = "mark" THEN "approved" ELSE "rejected"]
      /\ UNCHANGED <<opening, ran, queueRan, ledger>>

\* The owner rolls a row back later, of the tool that can be.
RollBack(i) == /\ ledger[i].outcome = "success" /\ RolledBack(i)
               /\ UNCHANGED <<proposal, opening, ran, queueRan, approver>>

\* The process dies, or a statement fails: what it wrote stays.
ApproverDies(a) == approver[a].at # "idle" /\ IsAway(a) /\ UNCHANGED <<proposal, opening, ran, queueRan, ledger>>

Approving ==
  \/ \E p \in Proposals : Propose(p)
  \/ \E a \in Approvers :
       \/ \E p \in Proposals, at \in Stage : ReadProposal(a, p, at)
       \/ ClaimProposal(a) \/ RunTool(a) \/ WriteRow(a)
       \/ Dismiss(a) \/ UndoRow(a) \/ Reopen(a)
       \/ QueueRuns(a) \/ QueueMarks(a) \/ ApproverDies(a)
  \/ \E i \in 1 .. Len(ledger) : RollBack(i)
=============================================================================
