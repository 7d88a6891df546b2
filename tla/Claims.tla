------------------------------- MODULE Claims -------------------------------
(*****************************************************************************)
(* Two desks where several people may decide the same case: invitations,     *)
(* which their owner redeems and staff replace (inviteService.ts), and the   *)
(* change requests of the delivery companies, which staff decide and the     *)
(* company may take back (fleetRequestService.ts, routes/fleetPortal.ts).    *)
(* All of them claim the row before they act.                                *)
(*****************************************************************************)
EXTENDS Naturals

CONSTANTS Clerks,    \* requests the server works on at a time
          Invites,   \* UserInvite, all of one user
          Requests,  \* FleetChangeRequest
          NoInvite

ASSUME ClaimsAssumption == Invites \cap Requests = {} /\ NoInvite \notin Invites

Items == Invites \cup Requests

Verdict == {"redeemed", "revoked", "APPROVED", "REJECTED", "WITHDRAWN"}

Verdicts == [i \in Items |-> IF i \in Invites THEN {"redeemed", "revoked"}
                                             ELSE {"APPROVED", "REJECTED", "WITHDRAWN"}]

\* The password is set; what the company asked for is done, or its documents are
\* turned down.
Effect == {"password", "change", "documents"}

EffectsOf == [redeemed |-> {"password"}, revoked |-> {},
              APPROVED |-> {"change"}, REJECTED |-> {"documents"}, WITHDRAWN |-> {}]

VARIABLES
  verdict,  \* "none" for a row not yet there, "open", or how it was decided
  applied,  \* how often each effect of an item has happened
  clerk     \* requests being handled, and the invitation they are about

claimsVars == <<verdict, applied, clerk>>

Free == [at |-> "idle", on |-> NoInvite]

ClaimsInit == /\ verdict = [i \in Items |-> IF i \in Invites THEN "none" ELSE "open"]
              /\ applied = [i \in Items |-> [e \in Effect |-> 0]]
              /\ clerk = [c \in Clerks |-> Free]

ClaimsTypeOK ==
  /\ verdict \in [Items -> Verdict \cup {"none", "open"}]
  /\ applied \in [Items -> [Effect -> Nat]]
  /\ clerk \in [Clerks -> [at : {"idle", "claim", "password", "issue"}, on : Invites \cup {NoInvite}]]

IsDone(c) == clerk' = [clerk EXCEPT ![c] = Free]

\* redeemInvite reads the row, and a used link is refused.  While it hashes the password
\* others may get there first.
ReadInvite(c, i) ==
  /\ clerk[c].at = "idle" /\ verdict[i] = "open"
  /\ clerk' = [clerk EXCEPT ![c] = [at |-> "claim", on |-> i]]
  /\ UNCHANGED <<verdict, applied>>

\* Mutant: the claim goes by what was read.
ClaimUnguarded(c) ==
  /\ clerk[c].at = "claim"
  /\ verdict' = [verdict EXCEPT ![clerk[c].on] = "redeemed"]
  /\ clerk' = [clerk EXCEPT ![c].at = "password"]
  /\ UNCHANGED applied

\* updateMany where it is still unused: the loser is told USED.
ClaimInvite(c) ==
  LET i == clerk[c].on
  IN  /\ clerk[c].at = "claim"
      /\ \/ /\ verdict[i] = "open"
            /\ verdict' = [verdict EXCEPT ![i] = "redeemed"]
            /\ clerk' = [clerk EXCEPT ![c].at = "password"]
         \/ verdict[i] # "open" /\ IsDone(c) /\ UNCHANGED verdict
      /\ UNCHANGED applied

SetPassword(c) ==
  /\ clerk[c].at = "password"
  /\ applied' = [applied EXCEPT ![clerk[c].on]["password"] = @ + 1]
  /\ IsDone(c)
  /\ UNCHANGED verdict

\* createInvite uses up the links the user has, and then writes a new one.
RevokeInvites(c) ==
  /\ clerk[c].at = "idle"
  /\ verdict' = [i \in Items |-> IF i \in Invites /\ verdict[i] = "open" THEN "revoked" ELSE verdict[i]]
  /\ clerk' = [clerk EXCEPT ![c].at = "issue"]
  /\ UNCHANGED applied

IssueInvite(c, i) ==
  /\ clerk[c].at = "issue" /\ verdict[i] = "none"
  /\ verdict' = [verdict EXCEPT ![i] = "open"]
  /\ IsDone(c)
  /\ UNCHANGED applied

\* The process dies, or a statement fails: what it committed stays.
ClerkDies(c) == clerk[c].at # "idle" /\ IsDone(c) /\ UNCHANGED <<verdict, applied>>

\* approveFleetRequest and rejectFleetRequest claim and act in one transaction; a
\* withdrawal by the company is a claim and nothing else.
DecideRequest(i, v) ==
  /\ verdict[i] = "open" /\ v \in Verdicts[i]
  /\ verdict' = [verdict EXCEPT ![i] = v]
  /\ applied' = [applied EXCEPT ![i] =
                   [e \in Effect |-> IF e \in EffectsOf[v] THEN @[e] + 1 ELSE @[e]]]
  /\ UNCHANGED clerk

Deciding ==
  \/ \E c \in Clerks :
       \/ ClaimInvite(c) \/ SetPassword(c) \/ RevokeInvites(c) \/ ClerkDies(c)
       \/ \E i \in Invites : ReadInvite(c, i) \/ IssueInvite(c, i)
  \/ \E i \in Requests : \E v \in Verdict : DecideRequest(i, v)
=============================================================================
