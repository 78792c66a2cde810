----------------------------- MODULE DefendCases -----------------------------
(***************************************************************************)
(* The proposals of the Defend plane (killinchu_defend_plane.py) and of    *)
(* the building inspections mounted in it (killinchu_defend_inspection.py) *)
(* in one SQLite file: events or inspections opened as proposals,          *)
(* approvals, rehearsals, and the receipts both append to one chain per    *)
(* session scope.  Several processes share the file; a handler runs on the *)
(* event loop, so a process serves one call at a time, and BEGIN IMMEDIATE *)
(* makes every transaction one step.  A call that dies, or whose lock wait *)
(* ends, between two transactions leaves what is committed.                *)
(*                                                                         *)
(* An item is a source event id or an inspection id of one scope.  A body  *)
(* stands for everything else in the request, the requester included.      *)
(***************************************************************************)
EXTENDS Naturals, Sequences, FiniteSets, SequencesExt

CONSTANTS Events, Inspections,   \* the items of each kind
          ScopeOf,               \* item -> session scope
          Bodies, Requester,     \* request bodies; body -> who asks
          People, Approvers,     \* names; those with the role of approver
          Procs, None,
          EventTtl, InspectionTtl,  \* 30 and 15 minutes
          LockWait,              \* the longest a call waits for the store
          MaxTime, MaxReceipts   \* bounds

Items == Events \cup Inspections

VARIABLES now,       \* the clock
          item,      \* the rows of each item
          receipts,  \* the receipts table, in rowid order
          proc,      \* the inspection call a process is serving
          replies,   \* assessments answered
          damaged    \* inspections whose rows were edited outside the program
vars == <<now, item, receipts, proc, replies, damaged>>

Stages    == {"held", "proposed", "approved", "rehearsed", "expired", "quarantined"}
Decisions == {"held", "proposed"}
Rows      == [body : Bodies, decision : Decisions, stage : Stages, expires : Nat,
              approver : People \cup {None}, at : 0..MaxTime]
Idle      == [pc |-> "idle", item |-> None, body |-> None, who |-> None,
              asked |-> 0, decision |-> "held"]

\* The two kinds differ, and rows are not taken for their absence.
ASSUME CasesAssumption ==
  /\ Events \cap Inspections = {} /\ None \notin Rows
  /\ Requester \in [Bodies -> People] /\ Approvers \subseteq People
  /\ {EventTtl, InspectionTtl, LockWait, MaxTime, MaxReceipts} \subseteq Nat

TypeOK ==
  /\ now \in 0..MaxTime
  /\ item \in [Items -> Rows \cup {None}]
  /\ Len(receipts) <= MaxReceipts
  /\ \A i \in 1..Len(receipts) :
       receipts[i] \in [scope : {ScopeOf[k] : k \in Items}, item : Items,
                        kind : Stages \cup {"collision", "failure"},
                        who : People \cup {None}, previous : 0..(i - 1)]
  /\ proc \in [Procs -> [pc : {"idle", "look", "assess", "save", "again",
                               "approve", "rehearse"},
                         item : Inspections \cup {None}, body : Bodies \cup {None},
                         who : People \cup {None}, asked : 0..MaxTime,
                         decision : Decisions]]
  /\ replies \subseteq [item : Inspections, body : Bodies, decision : Decisions]
  /\ damaged \subseteq Inspections

Init ==
  /\ now = 0
  /\ item = [k \in Items |-> None]
  /\ receipts = <<>>
  /\ proc = [p \in Procs |-> Idle]
  /\ replies = {}
  /\ damaged = {}

-----------------------------------------------------------------------------
(* _receipt: linked to the last receipt of the scope.                      *)

\* Mutant: the predecessor is looked up in the whole table.
PreviousAnywhere(scope) == Len(receipts)

Previous(scope) == SelectLastInSeq(receipts, LAMBDA r : r.scope = scope)

Receipt(k, kind, who) ==
  /\ Len(receipts) < MaxReceipts
  /\ receipts' = Append(receipts, [scope |-> ScopeOf[k], item |-> k, kind |-> kind,
                                   who |-> who, previous |-> Previous(ScopeOf[k])])

\* A row moves to its next stage with the receipt of the same transaction.
Moves(k, to, who) ==
  /\ item' = [item EXCEPT ![k].stage = to, ![k].at = now,
                          ![k].approver = IF to = "approved" THEN who ELSE @]
  /\ Receipt(k, to, who)

Opens(k, b, decision, expires) ==
  /\ item' = [item EXCEPT ![k] = [body |-> b, decision |-> decision, stage |-> decision,
                                  expires |-> expires, approver |-> None, at |-> now]]
  /\ Receipt(k, decision, Requester[b])

At(k, s) == item[k] # None /\ item[k].stage = s

Independent(k, who) == who # Requester[item[k].body]

-----------------------------------------------------------------------------
(* DefendStore: one transaction per call, the clock read inside it.        *)

AnalyzeNew(k, b) ==
  /\ item[k] = None
  /\ \E d \in Decisions : Opens(k, b, d, now + EventTtl)
  /\ UNCHANGED <<now, proc, replies, damaged>>

\* The same event is answered from its rows, which changes nothing.
AnalyzeCollision(k, b) ==
  /\ item[k] # None /\ item[k].body # b
  /\ Receipt(k, "collision", None)
  /\ UNCHANGED <<now, item, proc, replies, damaged>>

\* Mutant: the requester may approve.
ApproveOwn(k, who) ==
  /\ At(k, "proposed") /\ now < item[k].expires
  /\ Moves(k, "approved", who)
  /\ UNCHANGED <<now, proc, replies, damaged>>

\* Mutant: the expiry is not looked at.
ApproveLate(k, who) ==
  /\ At(k, "proposed") /\ Independent(k, who)
  /\ Moves(k, "approved", who)
  /\ UNCHANGED <<now, proc, replies, damaged>>

Approve(k, who) ==
  /\ At(k, "proposed") /\ Independent(k, who) /\ now < item[k].expires
  /\ Moves(k, "approved", who)
  /\ UNCHANGED <<now, proc, replies, damaged>>

Rehearse(k) ==
  /\ At(k, "approved")
  /\ Moves(k, "rehearsed", None)
  /\ UNCHANGED <<now, proc, replies, damaged>>

-----------------------------------------------------------------------------
(* InspectionStore: the handler reads the clock before the store is locked,*)
(* and an assessment looks, infers outside any transaction, and saves.     *)

Call(p, pc, k, b, who) ==
  /\ proc[p].pc = "idle"
  /\ proc' = [proc EXCEPT ![p] = [Idle EXCEPT !.pc = pc, !.item = k, !.body = b,
                                              !.who = who, !.asked = now]]
  /\ UNCHANGED <<now, item, receipts, replies, damaged>>

Goes(p, pc) == proc' = [proc EXCEPT ![p].pc = pc]
Leaves(p)   == proc' = [proc EXCEPT ![p] = Idle]

Answer(p, k, d) ==
  replies' = replies \cup {[item |-> k, body |-> proc[p].body, decision |-> d]}

\* _replay_or_collision finds an assessment of this inspection.
Replays(p) ==
  LET k == proc[p].item
  IN  /\ item[k] # None
      /\ \/ /\ item[k].body = proc[p].body
            /\ Answer(p, k, item[k].decision)
            /\ UNCHANGED receipts
         \/ /\ item[k].body # proc[p].body
            /\ Receipt(k, "collision", None)
            /\ UNCHANGED replies
      /\ Leaves(p)
      /\ UNCHANGED item

Look(p) ==
  /\ proc[p].pc = "look"
  /\ \/ Replays(p)
     \/ /\ item[proc[p].item] = None
        /\ Goes(p, "assess")
        /\ UNCHANGED <<item, receipts, replies>>
  /\ UNCHANGED <<now, damaged>>

\* The decision depends on the evidence and on when it was asked for.
Assess(p) ==
  /\ proc[p].pc = "assess"
  /\ \E d \in Decisions : proc' = [proc EXCEPT ![p].pc = "save", ![p].decision = d]
  /\ UNCHANGED <<now, item, receipts, replies, damaged>>

\* The adapter failed: a receipt, and no assessment is stored.
AssessFails(p) ==
  /\ proc[p].pc = "assess"
  /\ Receipt(proc[p].item, "failure", None)
  /\ Leaves(p)
  /\ UNCHANGED <<now, item, replies, damaged>>

\* Mutant: the loser of a race answers with the assessment it made itself.
SaveOwnAnswer(p) ==
  LET k == proc[p].item
  IN  /\ proc[p].pc = "save"
      /\ \/ item[k] # None /\ UNCHANGED <<item, receipts>>
         \/ item[k] = None /\ Opens(k, proc[p].body, proc[p].decision,
                                    proc[p].asked + InspectionTtl)
      /\ Answer(p, k, proc[p].decision)
      /\ Leaves(p)
      /\ UNCHANGED <<now, damaged>>

\* Mutant: the inspection is not looked up again before it is stored.
SaveBlind(p) ==
  LET k == proc[p].item
  IN  /\ proc[p].pc = "save"
      /\ Opens(k, proc[p].body, proc[p].decision, proc[p].asked + InspectionTtl)
      /\ Answer(p, k, proc[p].decision)
      /\ Leaves(p)
      /\ UNCHANGED <<now, damaged>>

\* A concurrent writer may have stored the inspection meanwhile.
Save(p) ==
  LET k == proc[p].item
  IN  /\ proc[p].pc = "save"
      /\ \/ item[k] # None /\ Goes(p, "again") /\ UNCHANGED <<item, receipts, replies>>
         \/ /\ item[k] = None
            /\ Opens(k, proc[p].body, proc[p].decision, proc[p].asked + InspectionTtl)
            /\ Answer(p, k, proc[p].decision)
            /\ Leaves(p)
      /\ UNCHANGED <<now, damaged>>

Again(p) ==
  /\ proc[p].pc = "again"
  /\ Replays(p)
  /\ UNCHANGED <<now, damaged>>

\* Mutant: a proposal may still be used at the time it expires.
OverdueLater(p) == item[proc[p].item].expires < proc[p].asked

Overdue(p) == item[proc[p].item].expires <= proc[p].asked

Expire(p) == Overdue(p) /\ Moves(proc[p].item, "expired", None)

Quarantine(p) ==
  /\ ~Overdue(p) /\ proc[p].item \in damaged
  /\ Moves(proc[p].item, "quarantined", None)

Sound(p) == ~Overdue(p) /\ proc[p].item \notin damaged

\* What does not find its stage, or its approver, is refused and changes nothing.
InspectionApprove(p) ==
  LET k == proc[p].item  who == proc[p].who
  IN  /\ proc[p].pc = "approve"
      /\ At(k, "proposed") /\ Independent(k, who)
      /\ Expire(p) \/ Quarantine(p) \/ (Sound(p) /\ Moves(k, "approved", who))
      /\ Leaves(p)
      /\ UNCHANGED <<now, replies, damaged>>

\* Mutant: the rehearsal does not look at the rows again.
RehearseUnchecked(p) ==
  /\ proc[p].pc = "rehearse"
  /\ At(proc[p].item, "approved")
  /\ Expire(p) \/ (~Overdue(p) /\ Moves(proc[p].item, "rehearsed", None))
  /\ Leaves(p)
  /\ UNCHANGED <<now, replies, damaged>>

InspectionRehearse(p) ==
  LET k == proc[p].item
  IN  /\ proc[p].pc = "rehearse"
      /\ At(k, "approved")
      /\ Expire(p) \/ Quarantine(p) \/ (Sound(p) /\ Moves(k, "rehearsed", None))
      /\ Leaves(p)
      /\ UNCHANGED <<now, replies, damaged>>

\* Refused, out of lock wait, or dead: the call ends and changes nothing more.
CallEnds(p) ==
  /\ proc[p].pc # "idle"
  /\ Leaves(p)
  /\ UNCHANGED <<now, item, receipts, replies, damaged>>

-----------------------------------------------------------------------------
(* The environment.                                                        *)

\* The rows of an inspection are edited outside the program.
Damage(k) ==
  /\ item[k] # None
  /\ damaged' = damaged \cup {k}
  /\ UNCHANGED <<now, item, receipts, proc, replies>>

Tick ==
  /\ now < MaxTime
  /\ \A p \in Procs : proc[p].pc \in {"approve", "rehearse"} => now < proc[p].asked + LockWait
  /\ now' = now + 1
  /\ UNCHANGED <<item, receipts, proc, replies, damaged>>

Next ==
  \/ \E k \in Events :
       \/ \E b \in Bodies : AnalyzeNew(k, b) \/ AnalyzeCollision(k, b)
       \/ \E who \in People : Approve(k, who)
       \/ Rehearse(k)
  \/ \E p \in Procs :
       \/ \E k \in Inspections :
            \/ \E b \in Bodies : Call(p, "look", k, b, None)
            \/ \E who \in Approvers : Call(p, "approve", k, None, who)
            \/ Call(p, "rehearse", k, None, None)
       \/ Look(p) \/ Assess(p) \/ AssessFails(p) \/ Save(p) \/ Again(p)
       \/ InspectionApprove(p) \/ InspectionRehearse(p) \/ CallEnds(p)
  \/ \E k \in Inspections : Damage(k)
  \/ Tick

Spec == Init /\ [][Next]_vars

-----------------------------------------------------------------------------
(* What the receipts and the rows say of a proposal are one lifecycle.     *)

DecisionsOf(k) == {i \in 1..Len(receipts) : receipts[i].item = k /\ receipts[i].kind \in Stages}
RecordOf(k) == {<<i, receipts[i].kind, receipts[i].who>> : i \in DecisionsOf(k)}

Abstract == INSTANCE ProposalLifecycle WITH
  Places <- 1..MaxReceipts,
  stage <- [k \in Items |-> IF item[k] = None THEN None ELSE item[k].stage],
  requester <- [k \in Items |-> IF item[k] = None THEN None ELSE Requester[item[k].body]],
  record <- [k \in Items |-> RecordOf(k)]

\* Rows and receipts move together through the lifecycle of a proposal, over
\* racing assessments, refused calls and processes that die.
KeepsLifecycle == Abstract!Lifecycle

\* All answers to one inspection come from one stored assessment: also the call
\* that lost the race to store its own (assess_and_propose).
AnswersAgree ==
  \A r \in replies :
    /\ item[r.item] # None
    /\ item[r.item].body = r.body /\ item[r.item].decision = r.decision

\* A proposal is approved before it expires; an inspection, whose handler reads
\* the clock before it waits for the store, at most that wait too late.
ApprovedInTime ==
  \A k \in Items :
    (item[k] # None /\ item[k].stage = "approved")
      => item[k].at < item[k].expires + (IF k \in Inspections THEN LockWait ELSE 0)

\* The rows behind a rehearsal were sound when it was made, whatever happened
\* between its approval and its rehearsal.
RehearsesSound ==
  [][\A k \in damaged : At(k, "approved") => ~At(k, "rehearsed")']_vars

\* The receipts of each scope form one chain from its first receipt: no two
\* follow the same one, and none follows a receipt of another scope.
ChainPerScope ==
  \A i, j \in 1..Len(receipts) :
    /\ (i # j /\ receipts[i].scope = receipts[j].scope)
         => receipts[i].previous # receipts[j].previous
    /\ receipts[i].previous = j => receipts[i].scope = receipts[j].scope

\* The answers, the times and the receipts agree with the rows.
CasesSound == TypeOK /\ AnswersAgree /\ ApprovedInTime /\ ChainPerScope

\* No proposal leaves its lifecycle, and none is rehearsed on edited rows.
CasesMove == KeepsLifecycle /\ RehearsesSound
=============================================================================
