-------------------------- MODULE DefendCasesProofs --------------------------
(***************************************************************************)
(* The proposals of the Defend plane are sound, and follow the lifecycle   *)
(* of a proposal, for any items, bodies, people, processes and times.      *)
(*                                                                         *)
(* Every step leaves rows and receipts alone, notes a collision or a       *)
(* failure, opens a proposal that is not there, or moves one to its next   *)
(* stage, with its receipt (RowSteps).  The rest follows from these:       *)
(*   - a receipt follows the last one of its scope (Linked);               *)
(*   - a call has read the clock at most LockWait before it gets the store *)
(*     (CallsKnown);                                                       *)
(*   - what a row says of its request and decision never changes.          *)
(*                                                                         *)
(* The passive reads of their store are sound for any pages, writers,      *)
(* readers and commits: a main file without sidecars holds the last        *)
(* commit, and a file whose fingerprint is the same has not been written.  *)
(***************************************************************************)
EXTENDS DefendCases, PassiveRead, WellFoundedInduction, TLAPS

ReceiptRec == [scope : {ScopeOf[k] : k \in Items}, item : Items,
               kind : Stages \cup {"collision", "failure"}, who : People \cup {None}, previous : Nat]
CallRec == [pc : {"idle", "look", "assess", "save", "again", "approve", "rehearse"},
            item : Inspections \cup {None}, body : Bodies \cup {None},
            who : People \cup {None}, asked : 0..MaxTime, decision : Decisions]
ReplyRec == [item : Inspections, body : Bodies, decision : Decisions]

\* The type invariant, with its records named.
Types ==
  /\ now \in 0..MaxTime /\ item \in [Items -> Rows \cup {None}]
  /\ receipts \in Seq(ReceiptRec) /\ Len(receipts) <= MaxReceipts
  /\ proc \in [Procs -> CallRec] /\ replies \subseteq ReplyRec /\ damaged \subseteq Inspections

\* A call in progress knows what it is about, and has not waited too long.
CallKnown(c) ==
  /\ c.asked <= now
  /\ c.pc # "idle" => c.item \in Inspections
  /\ c.pc \in {"look", "assess", "save", "again"} => c.body \in Bodies
  /\ c.pc = "approve" => c.who \in People
  /\ c.pc \in {"approve", "rehearse"} => now <= c.asked + LockWait
CallsKnown == \A p \in Procs : CallKnown(proc[p])

\* A receipt follows the last one of its scope.
Follows(i, n) ==
  /\ n \in 0..i-1
  /\ n # 0 => receipts[n].scope = receipts[i].scope
  /\ \A j \in n+1..i-1 : receipts[j].scope # receipts[i].scope
Linked == \A i \in 1..Len(receipts) : Follows(i, receipts[i].previous)

\* The inductive invariant.
IInv == Types /\ CallsKnown /\ Linked /\ AnswersAgree /\ ApprovedInTime
-----------------------------------------------------------------------------
\* A set of numbers up to n has a largest.
LEMMA Largest ==
  ASSUME NEW n \in Nat, NEW S \in SUBSET (1..n), S # {}
  PROVE  Max(S) \in S /\ \A x \in S : x <= Max(S)
<1> DEFINE T == {i \in Nat : i <= n /\ n - i \in S}
           R == OpToRel(<, Nat)
<1>1. T \subseteq Nat /\ T # {}
  <2>1. PICK x \in S : TRUE
    OBVIOUS
  <2>2. n - x \in T
    <3>1. x \in Nat /\ x <= n
      OBVIOUS
    <3>2. n - (n - x) = x /\ n - x \in Nat /\ n - x <= n
      BY <3>1
    <3> QED BY <3>2
  <2> QED BY <2>2
<1>2. IsWellFoundedOn(R, Nat)
  BY NatLessThanWellFounded
<1>3. \A i, j \in Nat : i < j => <<i, j>> \in R
  BY DEF OpToRel
<1> HIDE DEF R, T
<1>4. PICK t \in T : \A y \in T : <<y, t>> \notin R
  BY <1>1, <1>2, WFMin
<1> USE DEF T
<1>5. n - t \in S
  OBVIOUS
<1>6. ASSUME NEW x \in S PROVE n - t >= x
  <2>1. n - x \in T
    <3>1. x \in Nat /\ x <= n
      OBVIOUS
    <3>2. n - (n - x) = x /\ n - x \in Nat /\ n - x <= n
      BY <3>1
    <3> QED BY <3>2
  <2>2. ~(n - x < t)
    BY <1>1, <1>3, <1>4, <2>1
  <2> QED BY <2>2
<1>7. Max(S) \in S /\ \A y \in S : Max(S) >= y
  BY <1>5, <1>6 DEF Max
<1> QED BY <1>7

\* The last receipt of a scope.
LEMMA PreviousIsLast ==
  ASSUME Types, NEW s
  PROVE  /\ Previous(s) \in 0..Len(receipts)
         /\ Previous(s) # 0 => receipts[Previous(s)].scope = s
         /\ \A j \in Previous(s) + 1 .. Len(receipts) : receipts[j].scope # s
<1> DEFINE I == {i \in 1..Len(receipts) : receipts[i].scope = s}
<1>1. Len(receipts) \in Nat /\ I \in SUBSET (1..Len(receipts))
  BY DEF Types
<1>2. Previous(s) = IF I # {} THEN Max(I) ELSE 0
  BY DEF Previous, SelectLastInSeq
<1>3. CASE I = {}
  BY <1>1, <1>2, <1>3
<1>4. CASE I # {}
  <2>1. Max(I) \in I /\ \A x \in I : x <= Max(I)
    BY <1>1, <1>4, Largest
  <2>2. Previous(s) \in 1..Len(receipts) /\ receipts[Previous(s)].scope = s
    BY <1>2, <1>4, <2>1
  <2>3. ASSUME NEW j \in Previous(s) + 1 .. Len(receipts) PROVE receipts[j].scope # s
    <3>1. j \in 1..Len(receipts) /\ j > Previous(s)
      BY <1>1, <2>2
    <3>2. j \notin I
      BY <1>1, <1>2, <1>4, <2>1, <2>2, <3>1
    <3> QED BY <3>1, <3>2
  <2> QED BY <1>1, <2>2, <2>3
<1> QED BY <1>3, <1>4

\* One receipt is appended and linked.
Noted(k, kind, who) ==
  /\ receipts' \in Seq(ReceiptRec) /\ Len(receipts) \in Nat
  /\ Len(receipts') = Len(receipts) + 1 /\ Len(receipts') <= MaxReceipts
  /\ \A i \in 1..Len(receipts) : receipts'[i] = receipts[i]
  /\ LET r == receipts'[Len(receipts) + 1]
     IN  r.item = k /\ r.kind = kind /\ r.who = who /\ r.scope = ScopeOf[k] /\ r.previous = Previous(ScopeOf[k])

LEMMA ReceiptNoted ==
  ASSUME CasesAssumption, Types, NEW k \in Items, NEW kind \in Stages \cup {"collision", "failure"},
         NEW who \in People \cup {None}, Receipt(k, kind, who)
  PROVE  Noted(k, kind, who)
<1> DEFINE r == [scope |-> ScopeOf[k], item |-> k, kind |-> kind, who |-> who, previous |-> Previous(ScopeOf[k])]
<1>1. Len(receipts) < MaxReceipts /\ receipts' = Append(receipts, r) /\ MaxReceipts \in Nat
  BY DEF Receipt, CasesAssumption
<1>2. receipts \in Seq(ReceiptRec) /\ Len(receipts) \in Nat
  BY DEF Types
<1>3. Previous(ScopeOf[k]) \in Nat
  BY <1>2, PreviousIsLast
<1>4. r \in ReceiptRec
  BY <1>3 DEF ReceiptRec
<1>5. r.item = k /\ r.kind = kind /\ r.who = who /\ r.scope = ScopeOf[k] /\ r.previous = Previous(ScopeOf[k])
  OBVIOUS
<1> HIDE DEF r
<1>6. /\ receipts' \in Seq(ReceiptRec) /\ Len(receipts') = Len(receipts) + 1
      /\ receipts'[Len(receipts) + 1] = r /\ \A i \in 1..Len(receipts) : receipts'[i] = receipts[i]
  BY <1>1, <1>2, <1>4
<1> QED BY <1>1, <1>2, <1>5, <1>6 DEF Noted

\* The links stay as they are, and the new one is right.
LEMMA NotedIsLinked ==
  ASSUME Types, Linked, NEW k, NEW kind, NEW who, Noted(k, kind, who)
  PROVE  Linked'
<1> SUFFICES ASSUME NEW i \in 1..Len(receipts') PROVE Follows(i, receipts[i].previous)'
  BY DEF Linked
<1>1. /\ Len(receipts) \in Nat /\ Len(receipts') = Len(receipts) + 1
      /\ \A j \in 1..Len(receipts) : receipts'[j] = receipts[j]
  BY DEF Noted
<1>2. CASE i \in 1..Len(receipts)
  <2>1. Follows(i, receipts[i].previous)
    BY <1>2 DEF Linked
  <2> QED BY <1>1, <1>2, <2>1 DEF Follows
<1>3. CASE i = Len(receipts) + 1
  <2>1. receipts'[i].scope = ScopeOf[k] /\ receipts'[i].previous = Previous(ScopeOf[k])
    BY <1>3 DEF Noted
  <2> QED BY <1>1, <1>3, <2>1, PreviousIsLast DEF Follows
<1> QED BY <1>1, <1>2, <1>3
-----------------------------------------------------------------------------
(* Rows and receipts *)

\* How late an approval may be.
Wait(k) == IF k \in Inspections THEN LockWait ELSE 0
Mark(k, kind) == Receipt(k, kind, None) /\ item' = item
Opening(k, b, d, x) == item[k] = None /\ Opens(k, b, d, x)
Approving(k, who) ==
  At(k, "proposed") /\ Independent(k, who) /\ now < item[k].expires + Wait(k) /\ Moves(k, "approved", who)
Rehearsing(k) == At(k, "approved") /\ k \notin damaged /\ Moves(k, "rehearsed", None)
Closing(k, to) == (At(k, "proposed") \/ At(k, "approved")) /\ Moves(k, to, None)
RowStep ==
  \/ \E k \in Items, kind \in {"collision", "failure"} : Mark(k, kind)
  \/ \E k \in Items, b \in Bodies, d \in Decisions, x \in Nat : Opening(k, b, d, x)
  \/ \E k \in Items, who \in People : Approving(k, who)
  \/ \E k \in Items : Rehearsing(k)
  \/ \E k \in Items, to \in {"expired", "quarantined"} : Closing(k, to)

\* The fields of a call in progress.
LEMMA CallFields ==
  ASSUME CasesAssumption, Types, NEW p \in Procs
  PROVE  /\ proc[p] \in CallRec /\ proc[p].asked \in Nat /\ now \in Nat /\ LockWait \in Nat
         /\ InspectionTtl \in Nat /\ EventTtl \in Nat /\ proc[p].decision \in Decisions
BY DEF Types, CallRec, CasesAssumption

\* A row has a request, a decision, a stage and times.
LEMMA RowFields ==
  ASSUME Types, NEW k \in Items, item[k] # None
  PROVE  /\ item[k] \in Rows /\ item[k].body \in Bodies /\ item[k].decision \in Decisions
         /\ item[k].expires \in Nat /\ item[k].at \in 0..MaxTime /\ item[k].stage \in Stages
         /\ item[k].approver \in People \cup {None}
BY DEF Types, Rows

\* What an assessment that is looked up again does.
LEMMA ReplayRows ==
  ASSUME CasesAssumption, Types, CallsKnown, NEW p \in Procs, proc[p].pc # "idle", Replays(p)
  PROVE  UNCHANGED <<item, receipts>> \/ \E k \in Items : Mark(k, "collision")
<1>1. proc[p].item \in Items
  BY DEF CallsKnown, CallKnown, Items
<1> QED BY <1>1 DEF Replays, Mark

\* What a step does to the rows and the receipts.
LEMMA RowSteps ==
  ASSUME CasesAssumption, Types, CallsKnown, [Next]_vars
  PROVE  UNCHANGED <<item, receipts>> \/ (RowStep /\ UNCHANGED <<now, damaged>>)
<1>1. ASSUME NEW k \in Events, NEW b \in Bodies, AnalyzeNew(k, b) PROVE RowStep /\ UNCHANGED <<now, damaged>>
  <2>1. PICK d \in Decisions : Opens(k, b, d, now + EventTtl)
    BY <1>1 DEF AnalyzeNew
  <2>2. now + EventTtl \in Nat /\ k \in Items
    BY DEF Types, CasesAssumption, Items
  <2>3. Opening(k, b, d, now + EventTtl)
    BY <1>1, <2>1 DEF AnalyzeNew, Opening
  <2> QED BY <1>1, <2>2, <2>3 DEF RowStep, AnalyzeNew
<1>2. ASSUME NEW k \in Events, NEW b \in Bodies, AnalyzeCollision(k, b) PROVE RowStep /\ UNCHANGED <<now, damaged>>
  BY <1>2 DEF AnalyzeCollision, RowStep, Mark, Items
<1>3. ASSUME NEW k \in Events, NEW who \in People, Approve(k, who) PROVE RowStep /\ UNCHANGED <<now, damaged>>
  <2>1. k \in Items /\ Wait(k) = 0
    BY DEF CasesAssumption, Items, Wait
  <2>2. item[k].expires \in Nat /\ now \in Nat
    BY <1>3, <2>1, RowFields DEF Approve, At, Types
  <2>3. Approving(k, who)
    BY <1>3, <2>1, <2>2 DEF Approve, Approving
  <2> QED BY <1>3, <2>1, <2>3 DEF RowStep, Approve
<1>4. ASSUME NEW k \in Events, Rehearse(k) PROVE RowStep /\ UNCHANGED <<now, damaged>>
  BY <1>4 DEF Rehearse, RowStep, Rehearsing, Items, Types, CasesAssumption
<1>5. ASSUME NEW p \in Procs, Look(p) \/ Again(p)
      PROVE  UNCHANGED <<item, receipts>> \/ (RowStep /\ UNCHANGED <<now, damaged>>)
  <2>1. UNCHANGED <<item, receipts>> \/ (Replays(p) /\ proc[p].pc # "idle")
    BY <1>5 DEF Look, Again
  <2>2. UNCHANGED <<item, receipts>> \/ \E k \in Items : Mark(k, "collision")
    BY <2>1, ReplayRows
  <2> QED BY <1>5, <2>2 DEF Look, Again, RowStep
<1>6. ASSUME NEW p \in Procs, AssessFails(p) PROVE RowStep /\ UNCHANGED <<now, damaged>>
  <2>1. proc[p].item \in Items /\ Mark(proc[p].item, "failure")
    BY <1>6 DEF AssessFails, CallsKnown, CallKnown, Items, Mark
  <2> QED BY <1>6, <2>1 DEF AssessFails, RowStep
<1>7. ASSUME NEW p \in Procs, Save(p)
      PROVE  UNCHANGED <<item, receipts>> \/ (RowStep /\ UNCHANGED <<now, damaged>>)
  <2>1. /\ proc[p].item \in Items /\ proc[p].body \in Bodies /\ proc[p].decision \in Decisions
        /\ proc[p].asked + InspectionTtl \in Nat
    BY <1>7, CallFields DEF Save, CallsKnown, CallKnown, Items
  <2>2. UNCHANGED <<item, receipts>>
        \/ Opening(proc[p].item, proc[p].body, proc[p].decision, proc[p].asked + InspectionTtl)
    BY <1>7 DEF Save, Opening
  <2> QED BY <1>7, <2>1, <2>2 DEF Save, RowStep
<1>8. ASSUME NEW p \in Procs, InspectionApprove(p) \/ InspectionRehearse(p)
      PROVE  RowStep /\ UNCHANGED <<now, damaged>>
  <2> DEFINE k == proc[p].item
  <2>1. k \in Inspections /\ k \in Items /\ Wait(k) = LockWait
    BY <1>8 DEF InspectionApprove, InspectionRehearse, CallsKnown, CallKnown, Items, Wait
  <2>2. /\ At(k, "proposed") \/ At(k, "approved")
        /\ UNCHANGED <<now, damaged>>
    BY <1>8 DEF InspectionApprove, InspectionRehearse
  <2>3. CASE Expire(p) \/ Quarantine(p)
    <3>1. Closing(k, "expired") \/ Closing(k, "quarantined")
      BY <2>2, <2>3 DEF Expire, Quarantine, Closing
    <3> QED BY <2>1, <2>2, <3>1 DEF RowStep
  <2>4. CASE InspectionApprove(p) /\ Sound(p) /\ Moves(k, "approved", proc[p].who)
    <3>1. proc[p].who \in People /\ now <= proc[p].asked + LockWait /\ proc[p].asked < item[k].expires
      <4>1. item[k].expires \in Nat
        BY <2>1, <2>4, RowFields DEF InspectionApprove, At
      <4> QED BY <2>4, <4>1, CallFields DEF InspectionApprove, CallsKnown, CallKnown, Sound, Overdue
    <3>2. now < item[k].expires + LockWait
      <4>1. item[k].expires \in Nat
        BY <2>1, <2>4, RowFields DEF InspectionApprove, At
      <4> QED BY <3>1, <4>1, CallFields
    <3>3. Approving(k, proc[p].who)
      BY <2>1, <2>4, <3>2 DEF InspectionApprove, Approving
    <3> QED BY <2>1, <2>2, <3>1, <3>3 DEF RowStep
  <2>5. CASE InspectionRehearse(p) /\ Sound(p) /\ Moves(k, "rehearsed", None)
    <3>1. Rehearsing(k)
      BY <2>5 DEF InspectionRehearse, Rehearsing, Sound
    <3> QED BY <2>1, <2>2, <3>1 DEF RowStep
  <2> QED BY <1>8, <2>3, <2>4, <2>5 DEF InspectionApprove, InspectionRehearse
<1>9. CASE \/ \E p \in Procs : \/ Assess(p) \/ CallEnds(p)
                               \/ \E k \in Inspections : \E pc, b, who : Call(p, pc, k, b, who)
           \/ \E k \in Inspections : Damage(k)
           \/ Tick \/ UNCHANGED vars
  BY <1>9 DEF Assess, CallEnds, Call, Damage, Tick, vars
<1> QED BY <1>1, <1>2, <1>3, <1>4, <1>5, <1>6, <1>7, <1>8, <1>9 DEF Next
-----------------------------------------------------------------------------
(* What a row step leaves behind *)

\* One row is another, all others are as they were.
OnlyRow(k) ==
  /\ item' \in [Items -> Rows \cup {None}] /\ item'[k] # None
  /\ \A j \in Items : j # k => item'[j] = item[j]

LEMMA Moved ==
  ASSUME CasesAssumption, Types, NEW k \in Items, item[k] # None, NEW to \in Stages,
         NEW who \in People \cup {None}, Moves(k, to, who), to = "approved" => who \in People
  PROVE  /\ OnlyRow(k) /\ Noted(k, to, who)
         /\ item'[k].stage = to /\ item'[k].at = now /\ item'[k].body = item[k].body
         /\ item'[k].decision = item[k].decision /\ item'[k].expires = item[k].expires
<1> DEFINE a == IF to = "approved" THEN who ELSE item[k].approver
           r == [item[k] EXCEPT !.stage = to, !.at = now, !.approver = a]
<1>1. item[k] \in Rows /\ a \in People \cup {None} /\ now \in 0..MaxTime
  BY RowFields DEF Types
<1>2. r \in Rows
  BY <1>1 DEF Rows
<1>3. r.stage = to /\ r.at = now /\ r.body = item[k].body /\ r.decision = item[k].decision
      /\ r.expires = item[k].expires
  BY <1>1 DEF Rows
<1>4. item' = [item EXCEPT ![k] = r]
  BY <1>1 DEF Moves, Types, Rows
<1> HIDE DEF r
<1>5. OnlyRow(k) /\ item'[k] = r
  BY <1>2, <1>4 DEF OnlyRow, Types, CasesAssumption
<1>6. Noted(k, to, who)
  BY ReceiptNoted DEF Moves
<1> QED BY <1>3, <1>5, <1>6

LEMMA Opened ==
  ASSUME CasesAssumption, Types, NEW k \in Items, NEW b \in Bodies, NEW d \in Decisions, NEW x \in Nat,
         Opening(k, b, d, x)
  PROVE  /\ OnlyRow(k) /\ item[k] = None /\ Requester[b] \in People /\ Noted(k, d, Requester[b])
         /\ item'[k].stage = d /\ item'[k].body = b /\ item'[k].decision = d
<1> DEFINE r == [body |-> b, decision |-> d, stage |-> d, expires |-> x, approver |-> None, at |-> now]
<1>1. r \in Rows /\ r.stage = d /\ r.body = b /\ r.decision = d
  BY DEF Rows, Types, Decisions, Stages
<1>2. item' = [item EXCEPT ![k] = r] /\ Receipt(k, d, Requester[b]) /\ item[k] = None
  BY DEF Opening, Opens
<1> HIDE DEF r
<1>3. OnlyRow(k) /\ item'[k] = r
  BY <1>1, <1>2 DEF OnlyRow, Types, CasesAssumption
<1>4. Requester[b] \in People
  BY DEF CasesAssumption
<1>5. Noted(k, d, Requester[b])
  BY <1>2, <1>4, ReceiptNoted DEF Decisions, Stages
<1> QED BY <1>1, <1>2, <1>3, <1>4, <1>5

\* What a row says of its request and its decision never changes.
KeptRow(k) ==
  item[k] # None => item'[k] # None /\ item'[k].body = item[k].body /\ item'[k].decision = item[k].decision

LEMMA RowsKept ==
  ASSUME CasesAssumption, Types, Linked, ApprovedInTime, RowStep, UNCHANGED <<now, damaged>>
  PROVE  /\ item' \in [Items -> Rows \cup {None}] /\ \A k \in Items : KeptRow(k)
         /\ receipts' \in Seq(ReceiptRec) /\ Len(receipts') <= MaxReceipts
         /\ Linked' /\ ApprovedInTime'
<1> DEFINE Goal == /\ item' \in [Items -> Rows \cup {None}] /\ \A k \in Items : KeptRow(k)
                   /\ receipts' \in Seq(ReceiptRec) /\ Len(receipts') <= MaxReceipts
                   /\ Linked' /\ ApprovedInTime'
           InTime(k) == (item'[k] # None /\ item'[k].stage = "approved")
                          => item'[k].at < item'[k].expires + Wait(k)
<1>1. ASSUME NEW k \in Items, NEW kind, NEW who, OnlyRow(k), Noted(k, kind, who), KeptRow(k), InTime(k)
      PROVE  Goal
  <2>1. \A j \in Items : KeptRow(j)
    BY <1>1 DEF OnlyRow, KeptRow
  <2>2. ApprovedInTime'
    BY <1>1 DEF OnlyRow, ApprovedInTime, Wait
  <2> QED BY <1>1, <2>1, <2>2, NotedIsLinked DEF OnlyRow, Noted
<1>2. ASSUME NEW k \in Items, NEW kind \in {"collision", "failure"}, Mark(k, kind) PROVE Goal
  <2>1. Noted(k, kind, None)
    BY <1>2, ReceiptNoted DEF Mark
  <2>2. ApprovedInTime'
    BY <1>2 DEF Mark, ApprovedInTime
  <2> QED BY <1>2, <2>1, <2>2, NotedIsLinked DEF Mark, Noted, KeptRow, Types
<1>3. ASSUME NEW k \in Items, NEW b \in Bodies, NEW d \in Decisions, NEW x \in Nat, Opening(k, b, d, x)
      PROVE  Goal
  <2>1. KeptRow(k) /\ InTime(k)
    BY <1>3, Opened DEF KeptRow, Decisions
  <2> QED BY <1>1, <1>3, <2>1, Opened
<1>4. ASSUME NEW k \in Items, NEW who \in People, Approving(k, who) PROVE Goal
  <2>1. /\ OnlyRow(k) /\ Noted(k, "approved", who) /\ item'[k].at = now /\ item'[k].body = item[k].body
        /\ item'[k].decision = item[k].decision /\ item'[k].expires = item[k].expires
    BY <1>4, Moved DEF Approving, At, Stages
  <2>2. KeptRow(k) /\ InTime(k)
    BY <1>4, <2>1 DEF KeptRow, Approving, OnlyRow
  <2> QED BY <1>1, <2>1, <2>2
<1>5. ASSUME NEW k \in Items, NEW to \in {"rehearsed", "expired", "quarantined"}, item[k] # None,
             Moves(k, to, None)
      PROVE  Goal
  <2>1. /\ OnlyRow(k) /\ Noted(k, to, None) /\ item'[k].stage = to /\ item'[k].body = item[k].body
        /\ item'[k].decision = item[k].decision
    BY <1>5, Moved DEF Stages
  <2>2. KeptRow(k) /\ InTime(k)
    BY <2>1 DEF KeptRow, OnlyRow
  <2> QED BY <1>1, <2>1, <2>2
<1> HIDE DEF Goal
<1>6. Goal
  BY <1>2, <1>3, <1>4, <1>5 DEF RowStep, Rehearsing, Closing, At
<1> QED BY <1>6 DEF Goal
-----------------------------------------------------------------------------
(* Calls and answers *)

\* The steps of the event store, the calls of an inspection that begin, and the
\* steps of those in progress.
EventStep(k) ==
  \/ \E b \in Bodies : AnalyzeNew(k, b) \/ AnalyzeCollision(k, b)
  \/ \E who \in People : Approve(k, who)
  \/ Rehearse(k)
Begins(p, k) ==
  \/ \E b \in Bodies : Call(p, "look", k, b, None)
  \/ \E who \in Approvers : Call(p, "approve", k, None, who)
  \/ Call(p, "rehearse", k, None, None)
GoesOn(p) ==
  \/ Look(p) \/ Assess(p) \/ AssessFails(p) \/ Save(p) \/ Again(p)
  \/ InspectionApprove(p) \/ InspectionRehearse(p) \/ CallEnds(p)

LEMMA NextIsSplit ==
  ASSUME [Next]_vars
  PROVE  \/ \E k \in Events : EventStep(k)
         \/ \E p \in Procs : (\E k \in Inspections : Begins(p, k)) \/ GoesOn(p)
         \/ \E k \in Inspections : Damage(k)
         \/ Tick \/ UNCHANGED vars
BY DEF Next, EventStep, Begins, GoesOn

\* Only one call goes on.
LEMMA OneCall ==
  ASSUME CasesAssumption, Types, CallsKnown, NEW p \in Procs, NEW c \in CallRec,
         proc' = [proc EXCEPT ![p] = c], now' = now, CallKnown(c)
  PROVE  proc' \in [Procs -> CallRec] /\ CallsKnown'
<1>1. \A q \in Procs : proc'[q] = IF q = p THEN c ELSE proc[q]
  BY DEF Types
<1> QED BY <1>1 DEF Types, CallsKnown, CallKnown

LEMMA IdleCall ==
  ASSUME CasesAssumption, Types, CallsKnown, NEW p \in Procs, Leaves(p), now' = now
  PROVE  proc' \in [Procs -> CallRec] /\ CallsKnown'
<1>1. Idle \in CallRec /\ CallKnown(Idle)
  BY DEF Idle, CallRec, CallKnown, Decisions, CasesAssumption, Types
<1> QED BY <1>1, OneCall DEF Leaves

LEMMA CallSteps ==
  ASSUME CasesAssumption, Types, CallsKnown, [Next]_vars
  PROVE  now' \in 0..MaxTime /\ damaged' \subseteq Inspections /\ proc' \in [Procs -> CallRec] /\ CallsKnown'
<1> DEFINE Goal == now' \in 0..MaxTime /\ damaged' \subseteq Inspections /\ proc' \in [Procs -> CallRec] /\ CallsKnown'
<1>1. ASSUME UNCHANGED proc, UNCHANGED now, damaged' \subseteq Inspections PROVE Goal
  BY <1>1 DEF Types, CallsKnown, CallKnown
<1>2. ASSUME NEW p \in Procs, Leaves(p), UNCHANGED <<now, damaged>> PROVE Goal
  BY <1>2, IdleCall DEF Types
<1>3. ASSUME NEW p \in Procs, NEW k \in Inspections, NEW pc, NEW b, NEW who, Call(p, pc, k, b, who),
             \/ pc = "look" /\ b \in Bodies /\ who = None
             \/ pc = "approve" /\ b = None /\ who \in Approvers
             \/ pc = "rehearse" /\ b = None /\ who = None
      PROVE  Goal
  <2> DEFINE c == [Idle EXCEPT !.pc = pc, !.item = k, !.body = b, !.who = who, !.asked = now]
  <2>1. who \in People \cup {None} /\ now \in 0..MaxTime /\ LockWait \in Nat
        /\ (pc = "approve" => who \in People)
    BY <1>3 DEF Types, CasesAssumption
  <2>2. c \in CallRec
    BY <1>3, <2>1 DEF CallRec, Idle, Decisions
  <2>3. c.pc = pc /\ c.item = k /\ c.body = b /\ c.who = who /\ c.asked = now
    BY DEF Idle
  <2> HIDE DEF c
  <2>4. CallKnown(c)
    BY <1>3, <2>1, <2>3 DEF CallKnown
  <2>5. proc' = [proc EXCEPT ![p] = c] /\ UNCHANGED <<now, damaged>>
    BY <1>3 DEF Call, c
  <2> QED BY <2>2, <2>4, <2>5, OneCall DEF Types
<1>4. ASSUME NEW p \in Procs, NEW pc \in {"assess", "save", "again"}, NEW d \in Decisions,
             proc[p].pc \in {"look", "assess", "save"},
             proc' = [proc EXCEPT ![p] = [proc[p] EXCEPT !.pc = pc, !.decision = d]],
             UNCHANGED <<now, damaged>>
      PROVE  Goal
  <2> DEFINE c == [proc[p] EXCEPT !.pc = pc, !.decision = d]
  <2>1. proc[p] \in CallRec /\ CallKnown(proc[p])
    BY DEF Types, CallsKnown
  <2>2. c \in CallRec /\ c.pc = pc /\ c.item = proc[p].item /\ c.body = proc[p].body /\ c.asked = proc[p].asked
    BY <2>1 DEF CallRec
  <2> HIDE DEF c
  <2>3. CallKnown(c)
    BY <1>4, <2>1, <2>2 DEF CallKnown
  <2>4. proc' = [proc EXCEPT ![p] = c]
    BY <1>4 DEF c
  <2> QED BY <1>4, <2>2, <2>3, <2>4, OneCall DEF Types
<1>5. ASSUME NEW p \in Procs, NEW pc \in {"assess", "again"}, proc[p].pc \in {"look", "save"}, Goes(p, pc),
             UNCHANGED <<now, damaged>>
      PROVE  Goal
  <2>1. proc[p] \in CallRec /\ proc[p].decision \in Decisions
    BY DEF Types, CallRec
  <2>2. [proc[p] EXCEPT !.pc = pc] = [proc[p] EXCEPT !.pc = pc, !.decision = proc[p].decision]
    BY <2>1 DEF CallRec
  <2>3. proc' = [proc EXCEPT ![p] = [proc[p] EXCEPT !.pc = pc]]
    BY <1>5 DEF Goes
  <2> QED BY <1>4, <1>5, <2>1, <2>2, <2>3
<1>6. ASSUME NEW p \in Procs, Assess(p) PROVE Goal
  <2>1. PICK d \in Decisions : proc' = [proc EXCEPT ![p].pc = "save", ![p].decision = d]
    BY <1>6 DEF Assess
  <2>2. proc' = [proc EXCEPT ![p] = [proc[p] EXCEPT !.pc = "save", !.decision = d]]
    BY <2>1 DEF Types, CallRec
  <2> QED BY <1>4, <1>6, <2>2 DEF Assess
<1>7. ASSUME NEW p \in Procs, Look(p) PROVE Goal
  BY <1>2, <1>5, <1>7 DEF Look, Replays
<1>8. ASSUME NEW p \in Procs, Save(p) PROVE Goal
  BY <1>2, <1>5, <1>8 DEF Save
<1>9. ASSUME NEW p \in Procs,
             AssessFails(p) \/ Again(p) \/ InspectionApprove(p) \/ InspectionRehearse(p) \/ CallEnds(p)
      PROVE  Goal
  BY <1>2, <1>9 DEF AssessFails, Again, Replays, InspectionApprove, InspectionRehearse, CallEnds
<1>10. ASSUME (\E k \in Inspections : Damage(k)) \/ UNCHANGED vars PROVE Goal
  BY <1>1, <1>10 DEF Damage, vars, Types
<1>11. ASSUME Tick PROVE Goal
  <2>1. now' \in 0..MaxTime /\ now' = now + 1 /\ proc' = proc /\ damaged' = damaged /\ now \in Nat
    BY <1>11 DEF Tick, Types, CasesAssumption
  <2>2. ASSUME NEW p \in Procs PROVE CallKnown(proc[p])'
    <3>1. /\ CallKnown(proc[p]) /\ proc[p].asked \in Nat /\ LockWait \in Nat
          /\ proc[p].pc \in {"approve", "rehearse"} => now < proc[p].asked + LockWait
      BY <1>11, CallFields DEF CallsKnown, Tick
    <3> QED BY <2>1, <3>1 DEF CallKnown
  <2> QED BY <2>1, <2>2 DEF Types, CallsKnown
<1> HIDE DEF Goal
<1>12. Goal
  <2>1. ASSUME NEW k \in Events, EventStep(k) PROVE Goal
    <3>1. UNCHANGED <<now, proc, damaged>>
      BY <2>1 DEF EventStep, AnalyzeNew, AnalyzeCollision, Approve, Rehearse
    <3> QED BY <1>1, <3>1 DEF Types
  <2>2. ASSUME NEW p \in Procs, NEW k \in Inspections, Begins(p, k) PROVE Goal
    BY <1>3, <2>2 DEF Begins
  <2>3. ASSUME NEW p \in Procs, GoesOn(p) PROVE Goal
    BY <1>6, <1>7, <1>8, <1>9, <2>3 DEF GoesOn
  <2> QED BY <1>10, <1>11, <2>1, <2>2, <2>3, NextIsSplit
<1> QED BY <1>12 DEF Goal
-----------------------------------------------------------------------------

\* An answer says what the row says.
Agrees(r) == item[r.item] # None /\ item[r.item].body = r.body /\ item[r.item].decision = r.decision

\* What is answered is what is stored.
LEMMA AnswerSteps ==
  ASSUME CasesAssumption, Types, CallsKnown, [Next]_vars
  PROVE  replies' = replies \/ \E r \in ReplyRec : replies' = replies \cup {r} /\ Agrees(r)'
<1> DEFINE Goal == replies' = replies \/ \E r \in ReplyRec : replies' = replies \cup {r} /\ Agrees(r)'
<1>1. ASSUME NEW p \in Procs, NEW d \in Decisions, proc[p].item \in Inspections, proc[p].body \in Bodies,
             Answer(p, proc[p].item, d), item'[proc[p].item] # None,
             item'[proc[p].item].body = proc[p].body, item'[proc[p].item].decision = d
      PROVE  Goal
  <2>1. PICK r \in ReplyRec : r.item = proc[p].item /\ r.body = proc[p].body /\ r.decision = d
                              /\ replies' = replies \cup {r}
    <3> DEFINE a == [item |-> proc[p].item, body |-> proc[p].body, decision |-> d]
    <3>1. a \in ReplyRec /\ a.item = proc[p].item /\ a.body = proc[p].body /\ a.decision = d
          /\ replies' = replies \cup {a}
      BY <1>1 DEF ReplyRec, Answer
    <3> HIDE DEF a
    <3> QED BY <3>1
  <2>2. Agrees(r)'
    BY <1>1, <2>1 DEF Agrees
  <2> QED BY <2>1, <2>2
<1>2. ASSUME NEW p \in Procs, Replays(p), proc[p].pc \in {"look", "again"} PROVE Goal
  <2>1. proc[p].item \in Inspections /\ proc[p].item \in Items /\ proc[p].body \in Bodies
    BY <1>2 DEF CallsKnown, CallKnown, Items
  <2>2. item[proc[p].item] # None /\ item' = item
        /\ (replies' = replies \/ (item[proc[p].item].body = proc[p].body
                                    /\ Answer(p, proc[p].item, item[proc[p].item].decision)))
    BY <1>2 DEF Replays
  <2>3. item[proc[p].item].decision \in Decisions
    BY <2>1, <2>2, RowFields
  <2> QED BY <1>1, <2>1, <2>2, <2>3
<1>3. ASSUME NEW p \in Procs, Save(p) PROVE Goal
  <2>1. /\ proc[p].item \in Inspections /\ proc[p].item \in Items /\ proc[p].body \in Bodies
        /\ proc[p].decision \in Decisions /\ proc[p].asked + InspectionTtl \in Nat
    BY <1>3, CallFields DEF Save, CallsKnown, CallKnown, Items
  <2>2. replies' = replies
        \/ (Opening(proc[p].item, proc[p].body, proc[p].decision, proc[p].asked + InspectionTtl)
             /\ Answer(p, proc[p].item, proc[p].decision))
    BY <1>3 DEF Save, Opening
  <2> QED BY <1>1, <2>1, <2>2, Opened DEF OnlyRow
<1>4. ASSUME NEW p \in Procs, Look(p) \/ Again(p) PROVE Goal
  BY <1>2, <1>4 DEF Look, Again
<1>5. ASSUME UNCHANGED replies PROVE Goal
  BY <1>5
<1> HIDE DEF Goal
<1>6. ASSUME NEW p \in Procs, GoesOn(p) PROVE Goal
  <2>1. Look(p) \/ Again(p) \/ Save(p) \/ UNCHANGED replies
    BY <1>6 DEF GoesOn, Assess, AssessFails, InspectionApprove, InspectionRehearse, CallEnds
  <2> QED BY <1>3, <1>4, <1>5, <2>1
<1>7. ASSUME NEW p \in Procs, NEW k \in Inspections, Begins(p, k) PROVE UNCHANGED replies
  BY <1>7 DEF Begins, Call
<1>8. ASSUME NEW k \in Events, EventStep(k) PROVE UNCHANGED replies
  BY <1>8 DEF EventStep, AnalyzeNew, AnalyzeCollision, Approve, Rehearse
<1>9. ASSUME (\E k \in Inspections : Damage(k)) \/ Tick \/ UNCHANGED vars PROVE UNCHANGED replies
  BY <1>9 DEF Damage, Tick, vars
<1> HIDE DEF Goal
<1>10. Goal
  BY <1>5, <1>6, <1>7, <1>8, <1>9, NextIsSplit
<1> QED BY <1>10 DEF Goal
-----------------------------------------------------------------------------
(* The invariant *)

LEMMA InitHolds == ASSUME CasesAssumption, Init PROVE IInv
<1>1. Types
  <2>1. Idle \in CallRec
    BY DEF Idle, CallRec, Decisions, CasesAssumption
  <2>2. receipts \in Seq(ReceiptRec) /\ Len(receipts) = 0
    BY DEF Init
  <2> QED BY <2>1, <2>2 DEF Init, Types, CasesAssumption
<1>2. CallsKnown
  BY DEF Init, CallsKnown, CallKnown, Idle
<1>3. Linked
  BY DEF Init, Linked
<1>4. AnswersAgree /\ ApprovedInTime
  BY DEF Init, AnswersAgree, ApprovedInTime
<1> QED BY <1>1, <1>2, <1>3, <1>4 DEF IInv

LEMMA InvariantStep == ASSUME CasesAssumption, IInv, [Next]_vars PROVE IInv'
<1> USE DEF IInv
<1>1. /\ item' \in [Items -> Rows \cup {None}] /\ \A k \in Items : KeptRow(k)
      /\ receipts' \in Seq(ReceiptRec) /\ Len(receipts') <= MaxReceipts
      /\ Linked' /\ ApprovedInTime'
  <2>1. CASE UNCHANGED <<item, receipts>>
    BY <2>1 DEF Types, KeptRow, Linked, Follows, ApprovedInTime
  <2>2. CASE RowStep /\ UNCHANGED <<now, damaged>>
    BY <2>2, RowsKept
  <2> QED BY <2>1, <2>2, RowSteps
<1>2. now' \in 0..MaxTime /\ damaged' \subseteq Inspections /\ proc' \in [Procs -> CallRec] /\ CallsKnown'
  BY CallSteps
<1>3. replies' \subseteq ReplyRec /\ AnswersAgree'
  <2>1. ASSUME NEW r \in replies PROVE r \in ReplyRec /\ Agrees(r)'
    <3>1. r \in ReplyRec /\ r.item \in Items /\ Agrees(r)
      BY <2>1 DEF Types, ReplyRec, Items, AnswersAgree, Agrees
    <3> QED BY <1>1, <3>1 DEF KeptRow, Agrees
  <2>2. ASSUME NEW r \in replies' PROVE r \in ReplyRec /\ Agrees(r)'
    BY <2>1, <2>2, AnswerSteps
  <2> QED BY <2>2 DEF AnswersAgree, Agrees
<1>4. Types'
  BY <1>1, <1>2, <1>3 DEF Types
<1> QED BY <1>1, <1>2, <1>3, <1>4

LEMMA InvariantIsSound == ASSUME CasesAssumption, IInv PROVE CasesSound
<1> USE DEF IInv
<1>1. TypeOK
  <2>1. ASSUME NEW i \in 1..Len(receipts)
        PROVE  receipts[i] \in [scope : {ScopeOf[k] : k \in Items}, item : Items,
                                kind : Stages \cup {"collision", "failure"},
                                who : People \cup {None}, previous : 0..(i - 1)]
    <3>1. receipts[i] \in ReceiptRec /\ receipts[i].previous \in 0..(i - 1)
      BY DEF Types, Linked, Follows
    <3> QED BY <3>1 DEF ReceiptRec
  <2> QED BY <2>1 DEF TypeOK, Types, CallRec, ReplyRec
<1>2. ChainPerScope
  <2>1. ASSUME NEW i \in 1..Len(receipts), NEW j \in 1..Len(receipts), i < j,
               receipts[i].scope = receipts[j].scope
        PROVE  receipts[i].previous # receipts[j].previous
    <3>1. Follows(i, receipts[i].previous) /\ Follows(j, receipts[j].previous)
      BY DEF Linked
    <3>2. SUFFICES ASSUME receipts[i].previous = receipts[j].previous PROVE FALSE
      OBVIOUS
    <3>3. i \in receipts[j].previous + 1 .. j - 1
      BY <2>1, <3>1, <3>2 DEF Follows
    <3> QED BY <2>1, <3>1, <3>3 DEF Follows
  <2>2. ASSUME NEW i \in 1..Len(receipts), NEW j \in 1..Len(receipts), receipts[i].previous = j
        PROVE  receipts[i].scope = receipts[j].scope
    BY <2>2 DEF Linked, Follows
  <2>3. ASSUME NEW i \in 1..Len(receipts), NEW j \in 1..Len(receipts), i # j,
               receipts[i].scope = receipts[j].scope
        PROVE  receipts[i].previous # receipts[j].previous
    BY <2>1, <2>3
  <2> QED BY <2>2, <2>3 DEF ChainPerScope
<1> QED BY <1>1, <1>2 DEF CasesSound

\* Every reachable state of the cases satisfies the invariant: rows, receipts,
\* calls and answers are well formed and agree with each other.
THEOREM CasesInvariant == Spec => []IInv
<1>1. Init => IInv
  BY InitHolds, CasesAssumption
<1>2. IInv /\ [Next]_vars => IInv'
  BY InvariantStep, CasesAssumption
<1> QED BY <1>1, <1>2, PTL DEF Spec

\* All answers to one inspection come from one stored assessment, also when two
\* calls race to store theirs (assess_and_propose); a proposal is approved before
\* it expires, an inspection at most the wait for the store too late; and the
\* receipts of a scope form one chain (_receipt).
THEOREM CasesAreSound == Spec => []CasesSound
<1>1. IInv => CasesSound
  BY InvariantIsSound, CasesAssumption
<1> QED BY <1>1, CasesInvariant, PTL
-----------------------------------------------------------------------------
(* The lifecycle of a proposal *)

\* What one receipt does to the records.
LEMMA RecordNoted ==
  ASSUME CasesAssumption, Types, NEW k \in Items, NEW kind, NEW who, Noted(k, kind, who)
  PROVE  LET n == Len(receipts) + 1
         IN  /\ n \in 1..MaxReceipts /\ \A d \in RecordOf(k) : d[1] < n
             /\ \A j \in Items : RecordOf(j)' =
                  IF j = k /\ kind \in Stages THEN RecordOf(j) \cup {<<n, kind, who>>} ELSE RecordOf(j)
<1> DEFINE n == Len(receipts) + 1
<1>1. /\ Len(receipts) \in Nat /\ Len(receipts') = n /\ n <= MaxReceipts
      /\ \A i \in 1..Len(receipts) : receipts'[i] = receipts[i]
      /\ receipts'[n].item = k /\ receipts'[n].kind = kind /\ receipts'[n].who = who
  BY DEF Noted
<1>2. n \in 1..MaxReceipts
  BY <1>1 DEF CasesAssumption
<1>3. \A d \in RecordOf(k) : d[1] < n
  BY <1>1 DEF RecordOf, DecisionsOf
<1>4. ASSUME NEW j \in Items
      PROVE  RecordOf(j)' =
               IF j = k /\ kind \in Stages THEN RecordOf(j) \cup {<<n, kind, who>>} ELSE RecordOf(j)
  <2>1. DecisionsOf(j)' = IF j = k /\ kind \in Stages THEN DecisionsOf(j) \cup {n} ELSE DecisionsOf(j)
    <3>1. 1..n = (1..Len(receipts)) \cup {n}
      BY <1>1
    <3> QED BY <1>1, <3>1 DEF DecisionsOf
  <2>2. \A i \in DecisionsOf(j) : i # n /\ receipts'[i] = receipts[i]
    BY <1>1 DEF DecisionsOf
  <2> QED BY <1>1, <2>1, <2>2 DEF RecordOf
<1> QED BY <1>2, <1>3, <1>4

LEMMA LifecycleStarts == ASSUME CasesAssumption, Init PROVE Abstract!LifecycleInit
<1>1. \A k \in Items : RecordOf(k) = {}
  BY DEF Init, RecordOf, DecisionsOf
<1> QED BY <1>1 DEF Init, Abstract!LifecycleInit

\* The store's account of a proposal, as the lifecycle sees it.
StageOf(k) == IF item[k] = None THEN None ELSE item[k].stage
AskedBy(k) == IF item[k] = None THEN None ELSE Requester[item[k].body]

\* A row that moves with its receipt makes a decision of the lifecycle.
LEMMA DecisionIsMade ==
  ASSUME CasesAssumption, Types, NEW k \in Items, NEW to \in Stages, NEW who, NEW from,
         OnlyRow(k), Noted(k, to, who), item'[k].stage = to, StageOf(k) \in from
  PROVE  Abstract!Decide(k, from, to, who)
<1> DEFINE n == Len(receipts) + 1
<1>1. [j \in Items |-> StageOf(j)]' = [[j \in Items |-> StageOf(j)] EXCEPT ![k] = to]
  BY DEF OnlyRow, StageOf
<1>2. n \in 1..MaxReceipts /\ \A d \in RecordOf(k) : d[1] < n
  BY RecordNoted
<1>3. \A j \in Items : RecordOf(j)' = IF j = k THEN RecordOf(j) \cup {<<n, to, who>>} ELSE RecordOf(j)
  BY RecordNoted
<1>4. [j \in Items |-> RecordOf(j)]'
        = [[j \in Items |-> RecordOf(j)] EXCEPT ![k] = @ \cup {<<n, to, who>>}]
  BY <1>3
<1> QED BY <1>1, <1>2, <1>4 DEF Abstract!Decide, StageOf

\* A request stays as it is.
LEMMA RequestKept ==
  ASSUME NEW k \in Items, OnlyRow(k), AskedBy(k)' = AskedBy(k)
  PROVE  UNCHANGED [j \in Items |-> AskedBy(j)]
BY DEF OnlyRow, AskedBy

LEMMA LifecycleSteps ==
  ASSUME CasesAssumption, IInv, [Next]_vars
  PROVE  Abstract!LifecycleNext \/ UNCHANGED Abstract!lifecycle
<1> DEFINE Goal == Abstract!LifecycleNext \/ UNCHANGED Abstract!lifecycle
<1> USE DEF IInv
<1>1. ASSUME UNCHANGED item, \A k \in Items : RecordOf(k)' = RecordOf(k) PROVE Goal
  BY <1>1 DEF Abstract!lifecycle
<1>2. ASSUME NEW k \in Items, NEW kind \in {"collision", "failure"}, Mark(k, kind) PROVE Goal
  <2>1. Noted(k, kind, None)
    BY <1>2, ReceiptNoted DEF Mark
  <2>2. \A j \in Items : RecordOf(j)' = RecordOf(j)
    BY <2>1, RecordNoted DEF Stages
  <2> QED BY <1>1, <1>2, <2>2 DEF Mark
<1>3. ASSUME NEW k \in Items, NEW b \in Bodies, NEW d \in Decisions, NEW x \in Nat, Opening(k, b, d, x)
      PROVE  Goal
  <2>1. /\ OnlyRow(k) /\ item[k] = None /\ Requester[b] \in People /\ Noted(k, d, Requester[b])
        /\ item'[k].stage = d /\ item'[k].body = b /\ d \in Stages /\ d \in {"held", "proposed"}
    BY <1>3, Opened DEF Decisions, Stages
  <2>2. Abstract!Decide(k, {None}, d, Requester[b])
    BY <2>1, DecisionIsMade DEF StageOf
  <2>3. [j \in Items |-> AskedBy(j)]' = [[j \in Items |-> AskedBy(j)] EXCEPT ![k] = Requester[b]]
    BY <2>1 DEF OnlyRow, AskedBy
  <2>4. Abstract!Open(k)
    BY <2>1, <2>2, <2>3 DEF Abstract!Open, AskedBy
  <2> QED BY <2>4 DEF Abstract!LifecycleNext
<1>4. ASSUME NEW k \in Items, NEW who \in People, Approving(k, who) PROVE Goal
  <2>1. /\ item[k] # None /\ StageOf(k) \in {"proposed"} /\ who # AskedBy(k) /\ "approved" \in Stages
        /\ Moves(k, "approved", who)
    BY <1>4 DEF Approving, At, StageOf, AskedBy, Independent, Stages
  <2>2. /\ OnlyRow(k) /\ Noted(k, "approved", who) /\ item'[k].stage = "approved"
        /\ item'[k].body = item[k].body
    BY <2>1, Moved
  <2>3. Abstract!Decide(k, {"proposed"}, "approved", who)
    BY <2>1, <2>2, DecisionIsMade
  <2>4. UNCHANGED [j \in Items |-> AskedBy(j)]
    BY <2>1, <2>2, RequestKept DEF OnlyRow, AskedBy
  <2>5. Abstract!Approve(k)
    BY <2>1, <2>3, <2>4 DEF Abstract!Approve, AskedBy
  <2> QED BY <2>5 DEF Abstract!LifecycleNext
<1>5. ASSUME NEW k \in Items, NEW to \in {"rehearsed", "expired", "quarantined"}, NEW from,
             item[k] # None, StageOf(k) \in from, Moves(k, to, None)
      PROVE  Abstract!Decide(k, from, to, None) /\ UNCHANGED [j \in Items |-> AskedBy(j)]
  <2>1. OnlyRow(k) /\ Noted(k, to, None) /\ item'[k].stage = to /\ item'[k].body = item[k].body /\ to \in Stages
    BY <1>5, Moved DEF Stages
  <2>2. Abstract!Decide(k, from, to, None)
    BY <1>5, <2>1, DecisionIsMade
  <2>3. UNCHANGED [j \in Items |-> AskedBy(j)]
    BY <1>5, <2>1, RequestKept DEF OnlyRow, AskedBy
  <2> QED BY <2>2, <2>3
<1>6. ASSUME NEW k \in Items, Rehearsing(k) PROVE Goal
  <2>1. Abstract!Decide(k, {"approved"}, "rehearsed", None) /\ UNCHANGED [j \in Items |-> AskedBy(j)]
    BY <1>5, <1>6 DEF Rehearsing, At, StageOf
  <2>2. Abstract!Rehearse(k)
    BY <2>1 DEF Abstract!Rehearse, AskedBy
  <2> QED BY <2>2 DEF Abstract!LifecycleNext
<1>7. ASSUME NEW k \in Items, NEW to \in {"expired", "quarantined"}, Closing(k, to) PROVE Goal
  <2>1. Abstract!Decide(k, {"proposed", "approved"}, to, None) /\ UNCHANGED [j \in Items |-> AskedBy(j)]
    BY <1>5, <1>7 DEF Closing, At, StageOf
  <2>2. Abstract!Close(k)
    BY <2>1 DEF Abstract!Close, AskedBy
  <2> QED BY <2>2 DEF Abstract!LifecycleNext
<1>8. ASSUME UNCHANGED <<item, receipts>> PROVE Goal
  BY <1>1, <1>8 DEF RecordOf, DecisionsOf
<1> HIDE DEF Goal
<1>9. Goal
  BY <1>2, <1>3, <1>4, <1>6, <1>7, <1>8, RowSteps DEF RowStep
<1> QED BY <1>9 DEF Goal

\* What was approved on rows that are edited since is not rehearsed.
LEMMA RehearsalSteps ==
  ASSUME CasesAssumption, IInv, [Next]_vars
  PROVE  \A k \in damaged : At(k, "approved") => ~At(k, "rehearsed")'
<1> USE DEF IInv
<1> SUFFICES ASSUME NEW k \in Items, k \in damaged, At(k, "approved"), At(k, "rehearsed")' PROVE FALSE
  BY DEF Types, Items
<1>1. \A j \in Items : OnlyRow(j) => j = k
  BY DEF OnlyRow, At
<1>2. ASSUME NEW j \in Items, Rehearsing(j) PROVE FALSE
  <2>1. OnlyRow(j)
    BY <1>2, Moved DEF Rehearsing, At, Stages
  <2> QED BY <1>1, <1>2, <2>1 DEF Rehearsing
<1>3. ASSUME NEW j \in Items, NEW b \in Bodies, NEW d \in Decisions, NEW x \in Nat, Opening(j, b, d, x)
      PROVE  FALSE
  BY <1>1, <1>3, Opened DEF At
<1>4. ASSUME NEW j \in Items, NEW to \in {"approved", "expired", "quarantined"},
             NEW who \in People \cup {None}, item[j] # None,
             to = "approved" => who \in People, Moves(j, to, who)
      PROVE  FALSE
  <2>1. OnlyRow(j) /\ item'[j].stage = to
    BY <1>4, Moved DEF Stages
  <2> QED BY <1>1, <2>1 DEF At
<1>5. ASSUME NEW j \in Items, NEW who \in People, Approving(j, who) PROVE FALSE
  BY <1>4, <1>5 DEF Approving, At
<1>6. ASSUME NEW j \in Items, NEW to \in {"expired", "quarantined"}, Closing(j, to) PROVE FALSE
  BY <1>4, <1>6 DEF Closing, At
<1>7. ASSUME UNCHANGED item PROVE FALSE
  BY <1>7 DEF At
<1> QED BY <1>2, <1>3, <1>5, <1>6, <1>7, RowSteps DEF RowStep, Mark

\* Rows and receipts of a proposal move together through its lifecycle: opened
\* once, approved once and by someone else, rehearsed or closed for good, each
\* with one receipt (DefendStore and InspectionStore, over races, refusals and
\* calls that die); and none is rehearsed on rows edited since its approval.
THEOREM CasesMoveRightly == Spec => CasesMove
<1>1. Init => Abstract!LifecycleInit
  BY LifecycleStarts, CasesAssumption
<1>2. IInv /\ [Next]_vars => [Abstract!LifecycleNext]_(Abstract!lifecycle)
  BY LifecycleSteps, CasesAssumption
<1>3. IInv /\ [Next]_vars => [\A k \in damaged : At(k, "approved") => ~At(k, "rehearsed")']_vars
  BY RehearsalSteps, CasesAssumption
<1>4. Spec => Abstract!Lifecycle
  BY <1>1, <1>2, CasesInvariant, PTL DEF Spec, Abstract!Lifecycle
<1>5. Spec => RehearsesSound
  BY <1>3, CasesInvariant, PTL DEF Spec, RehearsesSound
<1> QED BY <1>4, <1>5 DEF CasesMove, KeepsLifecycle
-----------------------------------------------------------------------------
(* The passive reads of the store *)

ReadRec == [pc : Steps, stamp : Nat, got : [Pages -> Commits], left : SUBSET Pages, last : Commits]

\* Without sidecars nobody writes and the main file holds the last commit.
NoSidecarSynced == ~sidecar => open = {} /\ Synced

\* A read whose fingerprint is still the file's has what the file holds; once
\* it has looked for sidecars the second time, that is the last commit it saw.
Unwritten(c) ==
  /\ c.pc \in {"sidecar", "stamp"} => c.left = Pages
  /\ c.pc \in {"pages", "sidecar2", "stamp2"} => c.stamp <= stamp
  /\ c.pc \in {"pages", "sidecar2"} /\ c.stamp = stamp => \A p \in Pages \ c.left : c.got[p] = main[p]
  /\ c.pc = "sidecar2" => c.left = {}
  /\ c.pc = "stamp2" /\ c.stamp = stamp => \A p \in Pages : c.got[p] = c.last
  /\ c.pc = "served" => \A p \in Pages : c.got[p] = c.last

ReadInv == ReadTypeOK /\ NoSidecarSynced /\ \A r \in Readers : Unwritten(read[r])

LEMMA ReadInitHolds == ASSUME ReadAssumption, PassiveInit PROVE ReadInv
<1>1. 0 \in Commits
  BY DEF ReadAssumption, Commits
<1>2. Start \in ReadRec
  BY <1>1 DEF Start, ReadRec, Steps
<1> QED BY <1>1, <1>2 DEF PassiveInit, ReadInv, ReadTypeOK, ReadRec, NoSidecarSynced, Synced, Unwritten, Start

\* A writer: what it writes to the main file shows in the fingerprint.
LEMMA WriterStep ==
  ASSUME ReadAssumption, ReadInv, NEW w \in Writers,
         Connect(w) \/ Commit(w) \/ Close(w) \/ Crash(w) \/ (\E p \in Pages : Checkpoint(w, p))
  PROVE  ReadInv'
<1> USE DEF ReadInv
<1>1. ReadTypeOK'
  <2>1. CASE Commit(w)
    BY <2>1 DEF ReadTypeOK, Commit, Commits, ReadAssumption
  <2>2. ASSUME NEW p \in Pages, Checkpoint(w, p) PROVE ReadTypeOK'
    <3>1. main' \in [Pages -> Commits] /\ stamp' \in Nat
      BY <2>2 DEF ReadTypeOK, Checkpoint
    <3> QED BY <2>2, <3>1 DEF ReadTypeOK, Checkpoint
  <2>3. CASE Connect(w) \/ Close(w) \/ Crash(w)
    BY <2>3 DEF ReadTypeOK, Connect, Close, Crash
  <2> QED BY <2>1, <2>2, <2>3
<1>2. NoSidecarSynced'
  BY DEF NoSidecarSynced, Synced, Connect, Commit, Close, Crash, Checkpoint, ReadTypeOK
<1>3. read' = read /\ ((stamp' = stamp /\ main' = main) \/ (stamp' = stamp + 1 /\ stamp \in Nat))
  BY DEF Connect, Commit, Close, Crash, Checkpoint, ReadTypeOK
<1>4. ASSUME NEW r \in Readers PROVE Unwritten(read[r])'
  <2>1. Unwritten(read[r]) /\ read[r].stamp \in Nat /\ stamp \in Nat
    BY DEF ReadTypeOK
  <2>2. CASE stamp' = stamp /\ main' = main
    BY <1>3, <2>1, <2>2 DEF Unwritten
  <2>3. CASE stamp' = stamp + 1
    <3>1. read[r].pc \in {"pages", "sidecar2", "stamp2"} => read[r].stamp <= stamp' /\ read[r].stamp # stamp'
      BY <2>1, <2>3 DEF Unwritten
    <3> QED BY <1>3, <2>1, <3>1 DEF Unwritten
  <2> QED BY <1>3, <2>2, <2>3
<1> QED BY <1>1, <1>2, <1>4

ReaderSteps(r) ==
  \/ LooksBefore(r) \/ StampsBefore(r) \/ ReadsDone(r) \/ LooksAfter(r) \/ Compares(r) \/ Retries(r)
  \/ \E p \in Pages : ReadsPage(r, p)

LEMMA PassiveReaderStep ==
  ASSUME ReadAssumption, ReadInv, NEW r \in Readers, ReaderSteps(r)
  PROVE  ReadInv'
<1> DEFINE c == read[r]
           Goal == \E d \in ReadRec : read' = [read EXCEPT ![r] = d] /\ Unwritten(d)
<1>1. c \in ReadRec /\ Unwritten(c) /\ read \in [Readers -> ReadRec] /\ main \in [Pages -> Commits]
      /\ commit \in Commits /\ stamp \in Nat /\ NoSidecarSynced
  BY DEF ReadInv, ReadTypeOK, ReadRec
<1>2. UNCHANGED <<main, stamp, sidecar, commit, open>>
  BY DEF ReaderSteps, LooksBefore, StampsBefore, ReadsDone, LooksAfter, Compares, Retries, ReadsPage
<1>3. ASSUME LooksBefore(r) PROVE Goal
  <2> DEFINE d == [c EXCEPT !.pc = IF sidecar THEN "refused" ELSE "stamp"]
  <2>1. c.pc = "sidecar" /\ read' = [read EXCEPT ![r] = d]
    BY <1>3 DEF LooksBefore, ReadGoes
  <2>2. d \in ReadRec /\ Unwritten(d)
    BY <1>1, <2>1 DEF ReadRec, Steps, Unwritten
  <2> QED BY <2>1, <2>2
<1>4. ASSUME StampsBefore(r) PROVE Goal
  <2> DEFINE d == [c EXCEPT !.pc = "pages", !.stamp = stamp]
  <2>1. read' = [read EXCEPT ![r] = d]
    BY <1>4 DEF StampsBefore
  <2>2. d \in ReadRec /\ d.pc = "pages" /\ d.stamp = stamp /\ d.left = c.left /\ d.got = c.got
    BY <1>1 DEF ReadRec, Steps
  <2>3. c.pc = "stamp"
    BY <1>4 DEF StampsBefore
  <2>4. d.left = Pages /\ d.stamp <= stamp
    BY <1>1, <2>2, <2>3 DEF Unwritten
  <2>5. Unwritten(d)
    BY <2>2, <2>4 DEF Unwritten
  <2> QED BY <2>1, <2>2, <2>5
<1>5. ASSUME NEW p \in Pages, ReadsPage(r, p) PROVE Goal
  <2> DEFINE d == [c EXCEPT !.got[p] = main[p], !.left = @ \ {p}]
  <2>1. c.pc = "pages" /\ read' = [read EXCEPT ![r] = d]
    BY <1>5 DEF ReadsPage
  <2>2. d \in ReadRec /\ d.pc = "pages" /\ d.stamp = c.stamp /\ d.left = c.left \ {p}
        /\ d.got = [c.got EXCEPT ![p] = main[p]]
    BY <1>1, <2>1 DEF ReadRec
  <2>3. \A q \in Pages : d.got[q] = IF q = p THEN main[p] ELSE c.got[q]
    BY <1>1, <2>2 DEF ReadRec
  <2>4. Unwritten(d)
    BY <1>1, <2>1, <2>2, <2>3 DEF Unwritten
  <2> QED BY <2>1, <2>2, <2>4
<1>6. ASSUME ReadsDone(r) PROVE Goal
  <2> DEFINE d == [c EXCEPT !.pc = "sidecar2"]
  <2>1. c.pc = "pages" /\ c.left = {} /\ read' = [read EXCEPT ![r] = d]
    BY <1>6 DEF ReadsDone, ReadGoes
  <2>2. d \in ReadRec /\ Unwritten(d)
    BY <1>1, <2>1 DEF ReadRec, Steps, Unwritten
  <2> QED BY <2>1, <2>2
\* No sidecar now: what the file holds is the last commit.
<1>7. ASSUME LooksAfter(r) PROVE Goal
  <2> DEFINE d == [c EXCEPT !.pc = IF sidecar THEN "refused" ELSE "stamp2", !.last = commit]
  <2>1. c.pc = "sidecar2" /\ read' = [read EXCEPT ![r] = d]
    BY <1>7 DEF LooksAfter
  <2>2. d \in ReadRec /\ d.pc = (IF sidecar THEN "refused" ELSE "stamp2") /\ d.last = commit
        /\ d.stamp = c.stamp /\ d.got = c.got
    BY <1>1 DEF ReadRec, Steps
  <2>3. Unwritten(d)
    BY <1>1, <2>1, <2>2 DEF Unwritten, NoSidecarSynced, Synced
  <2> QED BY <2>1, <2>2, <2>3
<1>8. ASSUME Compares(r) PROVE Goal
  <2> DEFINE d == [c EXCEPT !.pc = IF stamp = c.stamp THEN "served" ELSE "refused"]
  <2>1. c.pc = "stamp2" /\ read' = [read EXCEPT ![r] = d]
    BY <1>8 DEF Compares, ReadGoes
  <2>2. d \in ReadRec /\ Unwritten(d)
    BY <1>1, <2>1 DEF ReadRec, Steps, Unwritten
  <2> QED BY <2>1, <2>2
<1>9. ASSUME Retries(r) PROVE Goal
  <2>1. Start \in ReadRec /\ Unwritten(Start)
    BY DEF Start, ReadRec, Steps, Commits, ReadAssumption, Unwritten
  <2> QED BY <1>9, <2>1 DEF Retries
<1> HIDE DEF Goal
<1>10. Goal
  BY <1>3, <1>4, <1>5, <1>6, <1>7, <1>8, <1>9 DEF ReaderSteps
<1>11. PICK d \in ReadRec : read' = [read EXCEPT ![r] = d] /\ Unwritten(d)
  BY <1>10 DEF Goal
<1>12. \A o \in Readers : read'[o] = IF o = r THEN d ELSE read[o]
  BY <1>1, <1>11
<1>13. \A o \in Readers : Unwritten(read'[o]) /\ (Unwritten(read'[o]) => Unwritten(read[o])')
  BY <1>2, <1>11, <1>12 DEF ReadInv, Unwritten
<1>14. ReadTypeOK'
  <2>1. read' \in [Readers -> ReadRec]
    BY <1>1, <1>11
  <2> QED BY <1>2, <2>1 DEF ReadInv, ReadTypeOK, ReadRec
<1> QED BY <1>2, <1>13, <1>14 DEF ReadInv, NoSidecarSynced, Synced

\* The invariant of the passive reads.
THEOREM ReadInvariant == PassiveSpec => []ReadInv
<1>1. ReadAssumption /\ PassiveInit => ReadInv
  BY ReadInitHolds
<1>2. ReadAssumption /\ ReadInv /\ [PassiveNext]_passiveVars => ReadInv'
  <2> SUFFICES ASSUME ReadAssumption, ReadInv, [PassiveNext]_passiveVars PROVE ReadInv'
    OBVIOUS
  <2>1. CASE UNCHANGED passiveVars
    BY <2>1 DEF passiveVars, ReadInv, ReadTypeOK, NoSidecarSynced, Synced, Unwritten
  <2> QED BY <2>1, WriterStep, PassiveReaderStep DEF PassiveNext, ReaderSteps
<1> QED BY <1>1, <1>2, ReadAssumption, PTL DEF PassiveSpec

\* killinchu_defend_plane.py:233-265 (read_connection): a read that is served holds the last
\* commit, whole, whatever any number of writers commit, checkpoint and leave
\* behind meanwhile, and however often they crash.
THEOREM PassiveReadsAreSound == PassiveSpec => []ReadSound
<1>1. ReadInv => ReadSound
  BY DEF ReadInv, ReadSound, ServesOneCommit, ServesLastCommit, Unwritten
<1> QED BY <1>1, ReadInvariant, PTL
=============================================================================
