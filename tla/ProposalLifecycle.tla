-------------------------- MODULE ProposalLifecycle --------------------------
(***************************************************************************)
(* What the Defend plane promises of a proposal: it is opened once, either *)
(* held for evidence or proposed; approved once, by someone other than its *)
(* requester; rehearsed at most once and only when approved; closed for    *)
(* good otherwise.  Each decision is on the record exactly when it holds.  *)
(* Time, processes and stores do not appear.                               *)
(***************************************************************************)
EXTENDS Naturals

CONSTANTS Items, People, None,
          Places  \* the places of a record, in order

VARIABLES stage,      \* what the store says of a proposal
          requester,  \* who asked for it
          record      \* the receipts of its decisions, each with its place

lifecycle == <<stage, requester, record>>

LifecycleInit ==
  /\ stage = [i \in Items |-> None]
  /\ requester = [i \in Items |-> None]
  /\ record = [i \in Items |-> {}]

\* One receipt, behind all there are.
Decide(i, from, to, who) ==
  /\ stage[i] \in from
  /\ stage' = [stage EXCEPT ![i] = to]
  /\ \E n \in Places :
       /\ \A d \in record[i] : d[1] < n
       /\ record' = [record EXCEPT ![i] = @ \cup {<<n, to, who>>}]

Open(i) ==
  /\ \E r \in People, s \in {"held", "proposed"} :
       /\ Decide(i, {None}, s, r)
       /\ requester' = [requester EXCEPT ![i] = r]

Approve(i) ==
  /\ \E a \in People \ {requester[i]} : Decide(i, {"proposed"}, "approved", a)
  /\ UNCHANGED requester

Rehearse(i) == Decide(i, {"approved"}, "rehearsed", None) /\ UNCHANGED requester

Close(i) ==
  /\ \E s \in {"expired", "quarantined"} : Decide(i, {"proposed", "approved"}, s, None)
  /\ UNCHANGED requester

LifecycleNext == \E i \in Items : Open(i) \/ Approve(i) \/ Rehearse(i) \/ Close(i)

Lifecycle == LifecycleInit /\ [][LifecycleNext]_lifecycle
=============================================================================
