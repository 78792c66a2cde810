----------------------------- MODULE DefendPlane -----------------------------
(***************************************************************************)
(* The first composition root of the defend plane (app/defend/wiring.py):  *)
(* the approval workflow in front of the effector guard.  All its state    *)
(* is in memory; a restart is a new plane.                                 *)
(***************************************************************************)
EXTENDS EffectorGuard

CONSTANTS
  Requests,   \* ids of approval requests
  Humans,     \* requesters and approvers
  HighBlast,  \* scopes with a high blast radius
  Solo        \* the policy mode

VARIABLES
  requests,   \* the approval requests
  grounds     \* the approval request each effect was allowed on

approvalVars == <<guardVars, requests, grounds>>

\* "nobody" asks for nothing.
ASSUME ApprovalAssumption == GuardAssumption /\ "nobody" \notin Humans

NoRequest == [state |-> "none", requester |-> "nobody", scope |-> Global, at |-> 0, approvers |-> <<>>]
Request == [state : {"none", "pending", "approved", "denied", "expired"},
            requester : Humans \cup {"nobody"}, scope : Scopes \cup {Global},
            at : Nat, approvers : Seq(Humans)]

ApprovalInit ==
  /\ GuardInit
  /\ requests = [r \in Requests |-> NoRequest]
  /\ grounds = {}

Quiet == UNCHANGED <<now, chain, scopes, killed, hits, keys, call, effects, calls, faults, grounds>>
-----------------------------------------------------------------------------
(* ApprovalWorkflow *)

Ask(r, h, s) ==
  /\ Operator1 /\ requests[r] = NoRequest
  /\ requests' = [requests EXCEPT ![r] =
       [state |-> "pending", requester |-> h, scope |-> s, at |-> now, approvers |-> <<>>]]
  /\ Quiet

\* A request as its next use finds it: expired when it is too old.
Seen(r) == IF requests[r].state \in {"pending", "approved"} /\ now - requests[r].at > ApprovalTTL
           THEN [requests[r] EXCEPT !.state = "expired"] ELSE requests[r]

Required(q) == IF ~Solo /\ q.scope \in HighBlast THEN 2 ELSE 1

\* Mutant: the votes already given are not looked at.
MayApproveTwice(q, h) == q.state = "pending" /\ (h # q.requester \/ Solo)

\* Mutant: a denied request can still be approved.
MayApproveDenied(q, h) ==
  /\ q.state \in {"pending", "denied"} /\ (h # q.requester \/ Solo)
  /\ h \notin Range(q.approvers)

\* A human approves a request of somebody else, once.
MayApprove(q, h) ==
  q.state = "pending" /\ (h # q.requester \/ Solo) /\ h \notin Range(q.approvers)

Approved(q, h) == [q EXCEPT !.approvers = Append(@, h),
                            !.state = IF Len(q.approvers) + 1 >= Required(q) THEN "approved" ELSE @]

\* What expires does so even when the approval is refused.
Approve(r, h) ==
  /\ Operator1 /\ requests[r] # NoRequest
  /\ requests' = [requests EXCEPT ![r] =
       IF MayApprove(Seen(r), h) THEN Approved(Seen(r), h) ELSE Seen(r)]
  /\ Quiet

\* Also an approved request can be denied.
Deny(r) ==
  /\ Operator1 /\ requests[r] # NoRequest
  /\ requests' = [requests EXCEPT ![r] =
       IF Seen(r).state \in {"pending", "approved"} THEN [Seen(r) EXCEPT !.state = "denied"] ELSE Seen(r)]
  /\ Quiet

\* The approval for the guard, dated from the request; Never when there is none.
Authorization(q) == IF q.state = "approved" THEN q.at ELSE Never
-----------------------------------------------------------------------------
(* handle_effector_request *)

HandleKilled(a, s) ==
  /\ Called /\ Halted(s)
  /\ Log(<<E("denied", a, s)>>)
  /\ UNCHANGED <<now, scopes, killed, hits, keys, call, effects, acts, requests, grounds>>

HandleUnapproved(a, s, k, b) ==
  /\ Called /\ ~Halted(s)
  /\ Execute(a, s, k, b, Never)
  /\ UNCHANGED <<now, scopes, killed, effects, acts, requests, grounds>>

HandleApproved(a, s, k, b, r) ==
  /\ Called /\ ~Halted(s) /\ requests[r] # NoRequest
  /\ requests' = [requests EXCEPT ![r] = Seen(r)]
  /\ Execute(a, s, k, b, Authorization(Seen(r)))
  /\ grounds' = IF call' = NoCall THEN grounds ELSE grounds \cup {<<Len(effects) + 1, r, now>>}
  /\ UNCHANGED <<now, scopes, killed, effects, acts>>

ApprovalNext ==
  \/ GuardStep /\ UNCHANGED <<requests, grounds>>
  \/ \E r \in Requests, h \in Humans : (\E s \in Scopes : Ask(r, h, s)) \/ Approve(r, h)
  \/ \E r \in Requests : Deny(r)
  \/ \E a \in Agents, s \in Scopes :
       \/ HandleKilled(a, s)
       \/ \E k \in Keys, b \in Bodies :
            \/ HandleUnapproved(a, s, k, b)
            \/ \E r \in Requests : HandleApproved(a, s, k, b, r)

ApprovalSpec == ApprovalInit /\ [][ApprovalNext]_approvalVars
-----------------------------------------------------------------------------
\* The type invariant.
ApprovalTypeOK ==
  /\ requests \in [Requests -> Request]
  /\ grounds \subseteq Nat \X Requests \X Nat

\* Everything that takes effect does so on a request at most ApprovalTTL old
\* that as many different humans approved as its scope requires, in team mode
\* none of them the requester.
EffectsAreApproved == \A g \in grounds :
  LET q == requests[g[2]] IN
  /\ g[3] - q.at <= ApprovalTTL
  /\ Cardinality(Range(q.approvers)) >= Required(q)
  /\ ~Solo => q.requester \notin Range(q.approvers)

\* "Denials and expirations terminal": a denied or expired request stays so,
\* and no request after it is allowed on its ground.
TerminalSteps == \A r \in Requests : requests[r].state \in {"denied", "expired"} =>
  /\ requests'[r] = requests[r]
  /\ \A g \in grounds' \ grounds : g[2] # r
TerminalIsFinal == [][TerminalSteps]_approvalVars

\* Types, and effects only on approvals in force.
ApprovalsHold == ApprovalTypeOK /\ EffectsAreApproved
=============================================================================
