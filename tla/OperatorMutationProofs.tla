------------------------ MODULE OperatorMutationProofs ------------------------
(***************************************************************************)
(* The safety of the operator-mutation protocol for any deployment: any    *)
(* number of processes, threads, keys, stores and ledgers.  The argument:  *)
(* a row, once claimed, keeps its request, and once staged keeps its       *)
(* execution; so what a handler thread has read of its row before a        *)
(* conditional update still names the execution the row is about after it, *)
(* although every other column may have moved meanwhile.                   *)
(***************************************************************************)
EXTENDS OperatorMutation, TLAPS

\* A claimed row is about a request; a completed one has a receipt.
RowsAreClaimed ==
  \A x \in Slots :
    /\ row[x].state # "none" => row[x].body \in Bodies
    /\ row[x].state = "completed" => row[x].receipt \in Receipt /\ row[x].receipt.stamp = row[x].stamp

\* The row of a running thread is claimed for the request of the thread.
OwnRow(t) == pc[t] # "idle" =>
  loc[t].body \in Bodies /\ RowOf(t).state # "none" /\ RowOf(t).body = loc[t].body

\* A thread that mints has seen the execution its row is about ...
SeenIsCurrent(t) == pc[t] \in {"begin", "emit", "complete"} =>
  RowOf(t).state \in Staged /\ RowOf(t).stamp = loc[t].seen.stamp

\* ... and one that completes holds a receipt of it from the ledger.
NodeIsRecorded(t) == pc[t] = "complete" =>
  /\ loc[t].node \in Receipt /\ loc[t].node.stamp = loc[t].seen.stamp
  /\ loc[t].node \in ledger[LedgerOf[Home[t]]]

ThreadInv == \A t \in Threads : OwnRow(t) /\ SeenIsCurrent(t) /\ NodeIsRecorded(t)

IInv == /\ TypeOK /\ RowsAreClaimed /\ ThreadInv
        /\ EffectMatchesStage /\ OneReceiptPerKey /\ ReceiptsAreOfStagedMutations
        /\ CompletedIsRecorded /\ AnswersAgree

\* What a thread works on is well typed.
LEMMA ThreadTypes ==
  ASSUME TypeOK, NEW t \in Threads
  PROVE  /\ Home[t] \in Procs /\ LedgerOf[Home[t]] \in Ledgers
         /\ loc[t] \in Locals /\ Slot(t) \in Slots /\ RowOf(t) \in Row
         /\ \A k \in Keys : SlotOf(t, k) \in Slots
BY DeploymentAssumption DEF TypeOK, Locals, Slots, Slot, SlotOf, RowOf

LEMMA RestType == Rest \in Locals /\ NoRow \in Row
<1>1. (CHOOSE k \in Keys : TRUE) \in Keys
  BY DeploymentAssumption
<1>2. NoRow \in Row
  BY DEF NoRow, Row, States
<1> QED BY <1>1, <1>2 DEF Rest, FreshLocals, Locals

LEMMA InitHolds == Init => IInv
<1> SUFFICES ASSUME Init PROVE IInv
  OBVIOUS
<1>1. TypeOK
  BY RestType DEF Init, TypeOK, PCs
<1>2. RowsAreClaimed /\ EffectMatchesStage /\ CompletedIsRecorded
  BY DEF Init, RowsAreClaimed, EffectMatchesStage, CompletedIsRecorded, NoRow, Staged
<1>3. OneReceiptPerKey /\ ReceiptsAreOfStagedMutations /\ AnswersAgree
  BY DEF Init, OneReceiptPerKey, ReceiptsAreOfStagedMutations, AnswersAgree
<1>4. ThreadInv
  BY DEF Init, ThreadInv, OwnRow, SeenIsCurrent, NodeIsRecorded
<1> QED BY <1>1, <1>2, <1>3, <1>4 DEF IInv

-----------------------------------------------------------------------------
(* The shape of a step: one row at most moves, in one of four ways.        *)

Claims(x) == \E b \in Bodies :
  /\ row[x].state = "none"
  /\ row' = [row EXCEPT ![x] = [NoRow EXCEPT !.state = "in_progress", !.body = b]]
  /\ UNCHANGED <<effects, stamp, ledger, replies>>

Executes(x) ==
  /\ row[x].state = "in_progress" /\ stamp' = stamp + 1
  /\ row' = [row EXCEPT ![x] = [row[x] EXCEPT !.state = "receipt_pending", !.stamp = stamp + 1]]
  /\ \/ effects' = [effects EXCEPT ![x] = @ \cup {stamp + 1}]
     \/ effects' = effects /\ row[x].body \in LiveBodies
  /\ UNCHANGED <<ledger, replies>>

Relabels(x, to) ==
  /\ row' = [row EXCEPT ![x] = [row[x] EXCEPT !.state = to]]
  /\ \/ /\ row[x].state \in {"in_progress", "needs_operator_review"}
        /\ to \in {"needs_operator_review", "abandoned_after_review"}
     \/ {row[x].state, to} \subseteq {"receipt_pending", "receipt_emitting"}
  /\ UNCHANGED <<effects, stamp, ledger, replies>>

Completes(x, n) ==
  /\ row[x].state = "receipt_emitting"
  /\ n \in Receipt /\ n.stamp = row[x].stamp /\ \E l \in Ledgers : n \in ledger[l]
  /\ row' = [row EXCEPT ![x] = [row[x] EXCEPT !.state = "completed", !.receipt = n]]
  /\ replies' \in {replies, replies \cup {Answer(x, row[x].body, row'[x])}}
  /\ UNCHANGED <<effects, stamp, ledger>>

RowsMove ==
  \/ UNCHANGED <<row, effects, stamp>> /\ (ledger' = ledger \/ replies' = replies)
  \/ \E x \in Slots : \/ Claims(x) \/ Executes(x)
                      \/ \E to \in States : Relabels(x, to)
                      \/ \E n \in Receipt : Completes(x, n)

\* Every step moves the rows in one of these ways.
LEMMA StepsMoveRows == ASSUME IInv, [Next]_vars PROVE RowsMove
<1>1. CASE UNCHANGED vars
  BY <1>1 DEF vars, RowsMove
<1>2. ASSUME NEW t \in Threads, NEW k \in Keys, NEW b \in Bodies, ClaimFresh(t, k, b) PROVE RowsMove
  BY <1>2, ThreadTypes DEF IInv, ClaimFresh, Claims, RowsMove
<1>3. ASSUME NEW t \in Threads, Apply(t) \/ ApplyCommitsLate(t) PROVE RowsMove
  <2>1. Slot(t) \in Slots
    BY ThreadTypes DEF IInv
  <2>2. Executes(Slot(t))
    BY <1>3 DEF Apply, ApplyCommitsLate, StageRow, SetRow, RowOf, Executes
  <2> QED BY <2>1, <2>2 DEF RowsMove
<1>4. ASSUME NEW t \in Threads, ApplyCached(t) PROVE RowsMove
  <2>1. Slot(t) \in Slots /\ RowOf(t).body \in LiveBodies
    BY <1>4, ThreadTypes DEF IInv, ThreadInv, OwnRow, ApplyCached
  <2>2. Executes(Slot(t))
    BY <1>4, <2>1 DEF ApplyCached, StageRow, SetRow, RowOf, Executes
  <2> QED BY <2>1, <2>2 DEF RowsMove
<1>5. ASSUME NEW t \in Threads, NEW to \in States, SetState(t, to), UNCHANGED <<effects, stamp, ledger, replies>>,
             \/ /\ RowOf(t).state \in {"in_progress", "needs_operator_review"}
                /\ to \in {"needs_operator_review", "abandoned_after_review"}
             \/ {RowOf(t).state, to} \subseteq {"receipt_pending", "receipt_emitting"}
      PROVE RowsMove
  <2>1. Slot(t) \in Slots
    BY ThreadTypes DEF IInv
  <2>2. Relabels(Slot(t), to)
    BY <1>5 DEF SetState, SetRow, RowOf, Relabels
  <2> QED BY <2>1, <2>2 DEF RowsMove
<1>6. ASSUME NEW t \in Threads, FailMutation(t) \/ BeginEmission(t) PROVE RowsMove
  BY <1>5, <1>6 DEF FailMutation, BeginEmission, States, RowsMove
<1>7. ASSUME NEW t \in Threads, OperatorRetries(t) \/ OperatorCloses(t) PROVE RowsMove
  BY <1>5, <1>7 DEF OperatorRetries, OperatorCloses, States, RowsMove
<1>8. ASSUME NEW t \in Threads, Complete(t) \/ CompleteAmbiguous(t) PROVE RowsMove
  <2>1. RowOf(t) \in Row /\ Slot(t) \in Slots /\ LedgerOf[Home[t]] \in Ledgers
    BY ThreadTypes DEF IInv
  <2>2. CASE row' = row
    BY <1>8, <2>2 DEF RowsMove, Complete, CompleteAmbiguous
  <2>3. CASE RowOf(t).state = "receipt_emitting" /\ SetRow(t, CompletedRow(t))
    <3>1. /\ RowOf(t).stamp = loc[t].seen.stamp /\ loc[t].node \in Receipt
          /\ loc[t].node.stamp = RowOf(t).stamp /\ loc[t].node \in ledger[LedgerOf[Home[t]]]
      BY <1>8 DEF IInv, ThreadInv, SeenIsCurrent, NodeIsRecorded, Complete, CompleteAmbiguous
    <3>2. CompletedRow(t) = [RowOf(t) EXCEPT !.state = "completed", !.receipt = loc[t].node]
      BY <2>1, <3>1 DEF CompletedRow, Row
    <3>4. row'[Slot(t)] = CompletedRow(t) /\ loc[t].body = RowOf(t).body
      BY <1>8, <2>1, <2>3 DEF SetRow, IInv, TypeOK, ThreadInv, OwnRow, Complete, CompleteAmbiguous
    <3>5. replies' \in {replies, replies \cup {Answer(Slot(t), RowOf(t).body, row'[Slot(t)])}}
      BY <1>8, <3>4 DEF Complete, CompleteAmbiguous, ReplyTo
    <3>3. Completes(Slot(t), loc[t].node)
      BY <1>8, <2>1, <2>3, <3>1, <3>2, <3>5 DEF Completes, SetRow, RowOf, Complete, CompleteAmbiguous
    <3> QED BY <2>1, <3>1, <3>3 DEF RowsMove
  <2> QED BY <1>8, <2>2, <2>3 DEF Complete, CompleteAmbiguous
<1>9. ASSUME NEW t \in Threads, ApplyRefused(t) \/ ApplyFails(t) \/ EnterReconcile(t) \/ EmitNew(t)
             \/ EmitExisting(t) \/ EmitRefused(t) \/ EmitFails(t) \/ OperatorLeaves(t)
      PROVE RowsMove
  BY <1>9 DEF ApplyRefused, ApplyFails, RollBack, EnterReconcile, EmitNew, EmitExisting,
     EmitRefused, EmitFails, OperatorLeaves, RowsMove
<1>10. ASSUME NEW t \in Threads, NEW k \in Keys,
              OperatorRead(t, k) \/ \E b \in Bodies : ClaimExisting(t, k, b) \/ ClaimConflict(t, k, b)
       PROVE RowsMove
  BY <1>10 DEF OperatorRead, ClaimExisting, ClaimConflict, RowsMove
<1>11. ASSUME NEW p \in Procs, CrashAndRestart(p) PROVE RowsMove
  BY <1>11 DEF CrashAndRestart, RowsMove
<1> QED
  <2>1. ASSUME NEW t \in Threads, Step(t) PROVE RowsMove
    BY <2>1, <1>3, <1>4, <1>6, <1>7, <1>8, <1>9 DEF Step
  <2>2. ASSUME NEW t \in Threads, Failure(t) PROVE RowsMove
    BY <2>2, <1>3, <1>8, <1>9 DEF Failure
  <2>3. ASSUME NEW t \in Threads, Arrival(t) PROVE RowsMove
    BY <2>3, <1>2, <1>10 DEF Arrival
  <2> QED BY <2>1, <2>2, <2>3, <1>1, <1>11 DEF Next

\* A row keeps its request once claimed, its execution once staged, and
\* everything once it is settled.
Kept(r, s) ==
  /\ r.state # "none" => s.state # "none" /\ s.body = r.body
  /\ r.state \in Staged => s.state \in Staged /\ s.stamp = r.stamp
  /\ r.state \in {"completed", "abandoned_after_review"} => s = r

RowsKept == \A x \in Slots : Kept(row[x], row'[x])

LEMMA RowsProgress == ASSUME IInv, RowsMove PROVE RowsKept
<1> SUFFICES ASSUME NEW y \in Slots PROVE Kept(row[y], row'[y])
  BY DEF RowsKept
<1>1. row \in [Slots -> Row] /\ row[y] \in Row
  BY DEF IInv, TypeOK
<1>2. CASE row'[y] = row[y]
  BY <1>2 DEF Kept
<1>3. ASSUME NEW x \in Slots, Claims(x) PROVE Kept(row[y], row'[y])
  BY <1>1, <1>3 DEF Claims, Kept, Staged
<1>4. ASSUME NEW x \in Slots, Executes(x) PROVE Kept(row[y], row'[y])
  BY <1>1, <1>4 DEF Executes, Kept, Staged, Row
<1>5. ASSUME NEW x \in Slots, NEW to \in States, Relabels(x, to) PROVE Kept(row[y], row'[y])
  BY <1>1, <1>5 DEF Relabels, Kept, Staged, Row
<1>6. ASSUME NEW x \in Slots, NEW n \in Receipt, Completes(x, n) PROVE Kept(row[y], row'[y])
  BY <1>1, <1>6 DEF Completes, Kept, Staged, Row
<1> QED BY <1>2, <1>3, <1>4, <1>5, <1>6 DEF RowsMove

-----------------------------------------------------------------------------
(* The threads.                                                            *)

\* A step of another thread, or the crash of another process.
Undisturbed(u) ==
  /\ pc'[u] = pc[u] /\ loc'[u] = loc[u] /\ bound'[Home[u]] = bound[Home[u]]
  /\ ledger[LedgerOf[Home[u]]] \subseteq ledger'[LedgerOf[Home[u]]]

SafeThread(u) == OwnRow(u) /\ SeenIsCurrent(u) /\ NodeIsRecorded(u)

LEMMA UndisturbedIsSafe ==
  ASSUME IInv, RowsKept, NEW u \in Threads, Undisturbed(u)
  PROVE  SafeThread(u)'
<1>1. Slot(u) \in Slots /\ Slot(u)' = Slot(u)
  BY ThreadTypes DEF IInv, Undisturbed, Slot, SlotOf
<1>2. Kept(RowOf(u), RowOf(u)')
  BY <1>1 DEF RowsKept, RowOf
<1>3. SafeThread(u)
  BY DEF IInv, ThreadInv, SafeThread
<1>4. OwnRow(u)'
  BY <1>2, <1>3 DEF SafeThread, OwnRow, Kept, Undisturbed
<1>5. SeenIsCurrent(u)'
  BY <1>2, <1>3 DEF SafeThread, SeenIsCurrent, Kept, Undisturbed
<1>6. NodeIsRecorded(u)'
  BY <1>3 DEF SafeThread, NodeIsRecorded, Undisturbed
<1> QED BY <1>4, <1>5, <1>6 DEF SafeThread

LEMMA IdleIsSafe == ASSUME NEW u \in Threads, pc'[u] = "idle" PROVE SafeThread(u)'
BY DEF SafeThread, OwnRow, SeenIsCurrent, NodeIsRecorded

\* A thread that goes on with its request keeps its own row.
LEMMA OwnRowStays ==
  ASSUME IInv, RowsKept, NEW t \in Threads, bound' = bound, pc[t] # "idle",
         loc'[t].key = loc[t].key, loc'[t].body = loc[t].body
  PROVE  OwnRow(t)' /\ Kept(RowOf(t), RowOf(t)')
<1>1. Slot(t) \in Slots /\ Slot(t)' = Slot(t)
  BY ThreadTypes DEF IInv, Slot, SlotOf
<1>2. Kept(RowOf(t), RowOf(t)')
  BY <1>1 DEF RowsKept, RowOf
<1> QED BY <1>2 DEF IInv, ThreadInv, OwnRow, Kept

\* A step of a thread leaves the others alone, and the ledgers grow.
OnlyThread(t) ==
  /\ bound' = bound
  /\ \A u \in Threads \ {t} : pc'[u] = pc[u] /\ loc'[u] = loc[u]
  /\ \A l \in Ledgers : ledger[l] \subseteq ledger'[l]

LEMMA OneThreadMoves ==
  ASSUME IInv, NEW t \in Threads, Step(t) \/ Failure(t) \/ Arrival(t)
  PROVE  OnlyThread(t)
<1>1. ASSUME ledger' = ledger, bound' = bound,
             Return(t) \/ (\E l : Goto(t, l)) \/ (\E l, m : pc' = [pc EXCEPT ![t] = l] /\ loc' = [loc EXCEPT ![t] = m])
             \/ UNCHANGED <<pc, loc>>
      PROVE  OnlyThread(t)
  BY <1>1 DEF OnlyThread, Return, Goto, IInv, TypeOK
<1>2. CASE Apply(t) \/ ApplyCommitsLate(t) \/ ApplyCached(t)
  BY <1>1, <1>2 DEF Apply, ApplyCommitsLate, ApplyCached
<1>3. CASE ApplyRefused(t) \/ ApplyFails(t) \/ FailMutation(t)
  BY <1>1, <1>3 DEF ApplyRefused, ApplyFails, RollBack, FailMutation
<1>4. CASE EnterReconcile(t) \/ BeginEmission(t)
  <2>1. CASE EnterReconcile(t)
    BY <2>1 DEF EnterReconcile, OnlyThread, Return, IInv, TypeOK
  <2>2. CASE BeginEmission(t)
    BY <1>1, <2>2 DEF BeginEmission
  <2> QED BY <1>4, <2>1, <2>2
<1>5. CASE EmitNew(t) \/ EmitFails(t)
  BY <1>5, ThreadTypes DEF EmitNew, EmitFails, AppendReceipt, Return, OnlyThread, IInv, TypeOK
<1>6. CASE EmitExisting(t)
  BY <1>6 DEF EmitExisting, OnlyThread, IInv, TypeOK
<1>7. CASE EmitRefused(t) \/ Complete(t) \/ CompleteAmbiguous(t)
  BY <1>1, <1>7 DEF EmitRefused, Complete, CompleteAmbiguous
<1>8. CASE OperatorLeaves(t) \/ OperatorRetries(t) \/ OperatorCloses(t)
  BY <1>1, <1>8 DEF OperatorLeaves, OperatorRetries, OperatorCloses
<1>9. ASSUME NEW k \in Keys, OperatorRead(t, k) PROVE OnlyThread(t)
  BY <1>9 DEF OperatorRead, OnlyThread, IInv, TypeOK
<1>10. ASSUME NEW k \in Keys, NEW b \in Bodies, ClaimFresh(t, k, b) PROVE OnlyThread(t)
  BY <1>10 DEF ClaimFresh, OnlyThread, IInv, TypeOK
<1>11. ASSUME NEW k \in Keys, NEW b \in Bodies, ClaimExisting(t, k, b) PROVE OnlyThread(t)
  BY <1>11 DEF ClaimExisting, OnlyThread, IInv, TypeOK
<1>12. ASSUME NEW k \in Keys, NEW b \in Bodies, ClaimConflict(t, k, b) PROVE OnlyThread(t)
  BY <1>12 DEF ClaimConflict, OnlyThread, IInv, TypeOK
<1>13. CASE Step(t)
  BY <1>13, <1>2, <1>3, <1>4, <1>5, <1>6, <1>7, <1>8 DEF Step
<1>14. CASE Failure(t)
  BY <1>14, <1>2, <1>3, <1>5, <1>7 DEF Failure
<1>15. CASE Arrival(t)
  BY <1>15, <1>9, <1>10, <1>11, <1>12 DEF Arrival
<1> QED BY <1>13, <1>14, <1>15

\* The thread that moves is safe after its step.
LEMMA MoverIsSafe ==
  ASSUME IInv, RowsKept, NEW t \in Threads, Step(t) \/ Failure(t) \/ Arrival(t)
  PROVE  SafeThread(t)'
<1> USE DEF IInv
<1>0. loc[t] \in Locals /\ Slot(t) \in Slots /\ RowOf(t) \in Row /\ Home[t] \in Procs
      /\ LedgerOf[Home[t]] \in Ledgers
  BY ThreadTypes
<1>1. ASSUME Return(t) PROVE SafeThread(t)'
  BY <1>1, IdleIsSafe DEF Return, TypeOK
<1>2. ASSUME NEW l \in {"enter", "fail"}, Goto(t, l), bound' = bound, pc[t] # "idle" PROVE SafeThread(t)'
  <2>1. loc'[t] = loc[t] /\ pc'[t] = l
    BY <1>2 DEF Goto, TypeOK
  <2>2. OwnRow(t)'
    BY <1>2, <2>1, OwnRowStays
  <2> QED BY <2>1, <2>2 DEF SafeThread, SeenIsCurrent, NodeIsRecorded
<1>3. CASE Apply(t) \/ ApplyCached(t) \/ OperatorRetries(t)
  BY <1>1, <1>2, <1>3 DEF Apply, ApplyCached, OperatorRetries
<1>4. CASE ApplyRefused(t) \/ ApplyFails(t)
  BY <1>1, <1>2, <1>4 DEF ApplyRefused, ApplyFails, RollBack
<1>5. CASE ApplyCommitsLate(t) \/ FailMutation(t) \/ EmitRefused(t) \/ EmitFails(t) \/ Complete(t)
           \/ CompleteAmbiguous(t) \/ OperatorLeaves(t) \/ OperatorCloses(t)
  BY <1>1, <1>5 DEF ApplyCommitsLate, FailMutation, EmitRefused, EmitFails, Complete, CompleteAmbiguous,
     OperatorLeaves, OperatorCloses
<1>6. CASE EnterReconcile(t)
  <2>1. CASE Return(t)
    BY <1>1, <2>1
  <2>2. CASE /\ RowOf(t).state = "receipt_pending" /\ pc' = [pc EXCEPT ![t] = "begin"]
             /\ loc' = [loc EXCEPT ![t].seen = RowOf(t)]
    <3>1. /\ pc'[t] = "begin" /\ loc'[t].seen = RowOf(t) /\ loc'[t].key = loc[t].key
          /\ loc'[t].body = loc[t].body /\ row' = row /\ bound' = bound /\ pc[t] # "idle"
      BY <1>0, <1>6, <2>2 DEF EnterReconcile, TypeOK, Locals
    <3>2. OwnRow(t)'
      BY <3>1, OwnRowStays
    <3>3. RowOf(t)' = RowOf(t)
      BY <3>1 DEF RowOf, Slot, SlotOf
    <3> QED BY <2>2, <3>1, <3>2, <3>3 DEF SafeThread, SeenIsCurrent, NodeIsRecorded, Staged
  <2> QED BY <1>6, <2>1, <2>2 DEF EnterReconcile
<1>7. CASE BeginEmission(t)
  <2>1. CASE Return(t)
    BY <1>1, <2>1
  <2>2. CASE Goto(t, "emit")
    <3>1. pc[t] = "begin" /\ bound' = bound /\ loc'[t] = loc[t] /\ pc'[t] = "emit"
      BY <1>7, <2>2 DEF BeginEmission, Goto, TypeOK
    <3>2. OwnRow(t)' /\ Kept(RowOf(t), RowOf(t)')
      BY <3>1, OwnRowStays
    <3>3. SeenIsCurrent(t)'
      BY <3>1, <3>2 DEF SeenIsCurrent, Kept, ThreadInv
    <3> QED BY <3>1, <3>2, <3>3 DEF SafeThread, NodeIsRecorded
  <2> QED BY <1>7, <2>1, <2>2 DEF BeginEmission
<1>8. ASSUME NEW r \in Receipt, pc[t] = "emit", pc' = [pc EXCEPT ![t] = "complete"], bound' = bound,
             loc' = [loc EXCEPT ![t].node = r], r \in ledger'[LedgerOf[Home[t]]], r.stamp = loc[t].seen.stamp
      PROVE SafeThread(t)'
  <2>1. /\ pc'[t] = "complete" /\ loc'[t].node = r /\ loc'[t].seen = loc[t].seen
        /\ loc'[t].key = loc[t].key /\ loc'[t].body = loc[t].body
    BY <1>0, <1>8 DEF TypeOK, Locals
  <2>2. OwnRow(t)' /\ Kept(RowOf(t), RowOf(t)')
    BY <1>8, <2>1, OwnRowStays
  <2>3. SeenIsCurrent(t)'
    BY <1>8, <2>1, <2>2 DEF SeenIsCurrent, Kept, ThreadInv
  <2> QED BY <1>8, <2>1, <2>2, <2>3 DEF SafeThread, NodeIsRecorded
<1>9. CASE EmitNew(t)
  <2>1. NewReceipt(t) \in Receipt /\ NewReceipt(t).stamp = loc[t].seen.stamp
    BY <1>0 DEF NewReceipt, Receipt, Locals, Row, TypeOK
  <2>2. NewReceipt(t) \in ledger'[LedgerOf[Home[t]]]
    BY <1>0, <1>9 DEF EmitNew, AppendReceipt, TypeOK
  <2> QED BY <1>8, <1>9, <2>1, <2>2 DEF EmitNew
<1>10. CASE EmitExisting(t)
  BY <1>0, <1>8, <1>10 DEF EmitExisting, Recorded, TypeOK
<1>11. ASSUME NEW k \in Keys, OperatorRead(t, k) PROVE SafeThread(t)'
  <2>1. /\ pc'[t] = "decide" /\ loc'[t].key = k /\ loc'[t].body = row[SlotOf(t, k)].body
        /\ row[SlotOf(t, k)].state # "none" /\ row' = row /\ bound' = bound
    BY <1>11 DEF OperatorRead, FreshLocals, TypeOK
  <2>2. RowOf(t)' = row[SlotOf(t, k)] /\ SlotOf(t, k) \in Slots
    BY <2>1, ThreadTypes DEF RowOf, Slot, SlotOf
  <2> QED BY <2>1, <2>2 DEF SafeThread, OwnRow, SeenIsCurrent, NodeIsRecorded, RowsAreClaimed
<1>12. ASSUME NEW k \in Keys, NEW b \in Bodies, ClaimFresh(t, k, b) PROVE SafeThread(t)'
  <2>1. /\ pc'[t] = "apply" /\ loc'[t].key = k /\ loc'[t].body = b /\ bound' = bound
    BY <1>12 DEF ClaimFresh, FreshLocals, TypeOK
  <2>2. SlotOf(t, k) \in Slots
    BY ThreadTypes
  <2>3. row'[SlotOf(t, k)] = [NoRow EXCEPT !.state = "in_progress", !.body = b]
    BY <1>12, <2>2 DEF ClaimFresh, TypeOK
  <2>4. RowOf(t)' = row'[SlotOf(t, k)]
    BY <2>1 DEF RowOf, Slot, SlotOf
  <2> QED BY <2>1, <2>3, <2>4 DEF SafeThread, OwnRow, SeenIsCurrent, NodeIsRecorded, NoRow
<1>13. ASSUME NEW k \in Keys, NEW b \in Bodies, ClaimExisting(t, k, b) PROVE SafeThread(t)'
  <2>0. row' = row /\ bound' = bound /\ pc[t] = "idle" /\ row[SlotOf(t, k)].body = b
    BY <1>13 DEF ClaimExisting
  <2>1. CASE UNCHANGED <<pc, loc>>
    BY <2>0, <2>1, IdleIsSafe
  <2>2. CASE /\ row[SlotOf(t, k)].state = "receipt_pending" /\ pc' = [pc EXCEPT ![t] = "enter"]
             /\ loc' = [loc EXCEPT ![t] = FreshLocals(k, b)]
    <3>1. pc'[t] = "enter" /\ loc'[t].key = k /\ loc'[t].body = b
      BY <2>2 DEF FreshLocals, TypeOK
    <3>2. RowOf(t)' = row[SlotOf(t, k)]
      BY <2>0, <3>1 DEF RowOf, Slot, SlotOf
    <3> QED BY <2>0, <2>2, <3>1, <3>2 DEF SafeThread, OwnRow, SeenIsCurrent, NodeIsRecorded
  <2> QED BY <1>13, <2>1, <2>2 DEF ClaimExisting
<1>14. ASSUME NEW k \in Keys, NEW b \in Bodies, ClaimConflict(t, k, b) PROVE SafeThread(t)'
  BY <1>14, IdleIsSafe DEF ClaimConflict
<1>15. CASE Step(t)
  BY <1>15, <1>3, <1>4, <1>5, <1>6, <1>7, <1>9, <1>10 DEF Step
<1>16. CASE Failure(t)
  BY <1>16, <1>4, <1>5 DEF Failure
<1>17. CASE Arrival(t)
  BY <1>17, <1>11, <1>12, <1>13, <1>14 DEF Arrival
<1> QED BY <1>15, <1>16, <1>17

LEMMA ThreadsStaySafe == ASSUME IInv, [Next]_vars PROVE ThreadInv'
<1> SUFFICES ASSUME NEW u \in Threads PROVE SafeThread(u)'
  BY DEF ThreadInv, SafeThread
<1>1. RowsKept
  BY StepsMoveRows, RowsProgress
<1>2. Home[u] \in Procs /\ LedgerOf[Home[u]] \in Ledgers
  BY ThreadTypes DEF IInv
<1>3. CASE UNCHANGED vars
  BY <1>1, <1>3, UndisturbedIsSafe DEF vars, Undisturbed
<1>4. ASSUME NEW t \in Threads, Step(t) \/ Failure(t) \/ Arrival(t) PROVE SafeThread(u)'
  <2>1. CASE u = t
    BY <1>1, <1>4, <2>1, MoverIsSafe
  <2>2. CASE u # t
    <3>1. Undisturbed(u)
      BY <1>2, <1>4, <2>2, OneThreadMoves DEF OnlyThread, Undisturbed
    <3> QED BY <1>1, <3>1, UndisturbedIsSafe
  <2> QED BY <2>1, <2>2
<1>5. ASSUME NEW p \in Procs, CrashAndRestart(p) PROVE SafeThread(u)'
  <2>1. CASE Home[u] = p
    BY <1>5, <2>1, IdleIsSafe DEF CrashAndRestart
  <2>2. CASE Home[u] # p
    <3>1. pc'[u] = pc[u] /\ loc'[u] = loc[u]
      BY <1>5, <2>2 DEF CrashAndRestart
    <3>2. bound'[Home[u]] = bound[Home[u]]
      BY <1>2, <1>5, <2>2 DEF CrashAndRestart, IInv, TypeOK
    <3>3. LedgerOf[Home[u]] = LedgerOf[p] => LedgerOf[p] \in Durable
      BY <1>2, <2>2, DeploymentAssumption
    <3>4. ledger'[LedgerOf[Home[u]]] = ledger[LedgerOf[Home[u]]]
      BY <1>2, <1>5, <3>3 DEF CrashAndRestart
    <3>5. Undisturbed(u)
      BY <3>1, <3>2, <3>4 DEF Undisturbed
    <3> QED BY <1>1, <3>5, UndisturbedIsSafe
  <2> QED BY <2>1, <2>2
<1> QED BY <1>3, <1>4, <1>5 DEF Next

-----------------------------------------------------------------------------
(* Types.                                                                  *)

\* The new value of the row a step moves is a row.
LEMMA MovedRows ==
  ASSUME IInv, NEW t \in Threads
  PROVE  /\ \A to \in States : [RowOf(t) EXCEPT !.state = to] \in Row
         /\ [RowOf(t) EXCEPT !.state = "receipt_pending", !.stamp = stamp + 1] \in Row
         /\ pc[t] = "complete" => CompletedRow(t) \in Row
         /\ \A b \in Bodies : [NoRow EXCEPT !.state = "in_progress", !.body = b] \in Row
<1>1. loc[t] \in Locals /\ RowOf(t) \in Row
  BY ThreadTypes DEF IInv
<1>2. \A to \in States : [RowOf(t) EXCEPT !.state = to] \in Row
  BY <1>1 DEF Row
<1>3. [RowOf(t) EXCEPT !.state = "receipt_pending", !.stamp = stamp + 1] \in Row
  <2>1. stamp + 1 \in Nat
    BY DEF IInv, TypeOK
  <2> QED BY <1>1, <2>1 DEF Row, States
<1>4. pc[t] = "complete" => CompletedRow(t) \in Row
  BY <1>1 DEF CompletedRow, Row, Locals, States
<1>5. \A b \in Bodies : [NoRow EXCEPT !.state = "in_progress", !.body = b] \in Row
  BY DEF NoRow, Row, States
<1> QED BY <1>2, <1>3, <1>4, <1>5

\* The labels and the locals a step leaves behind.
LEMMA ControlTypes ==
  ASSUME IInv, NEW t \in Threads
  PROVE  /\ Return(t) => pc' \in [Threads -> PCs] /\ loc' \in [Threads -> Locals]
         /\ \A l \in PCs : Goto(t, l) => pc' \in [Threads -> PCs] /\ loc' \in [Threads -> Locals]
<1>1. Return(t) => pc' \in [Threads -> PCs]
  BY DEF Return, IInv, TypeOK, PCs
<1>2. Return(t) => loc' \in [Threads -> Locals]
  BY RestType DEF Return, IInv, TypeOK
<1>3. \A l \in PCs : Goto(t, l) => pc' \in [Threads -> PCs] /\ loc' \in [Threads -> Locals]
  BY DEF Goto, IInv, TypeOK
<1> QED BY <1>1, <1>2, <1>3

\* A reply of a running thread is a reply.
LEMMA ReplyTypes ==
  ASSUME IInv, NEW t \in Threads, pc[t] # "idle", NEW r \in Row, r.receipt \in Receipt
  PROVE  Answer(Slot(t), loc[t].body, r) \in Reply
BY ThreadTypes DEF IInv, ThreadInv, OwnRow, Answer, Reply, Row

LEMMA TypeStep == ASSUME IInv, [Next]_vars PROVE TypeOK'
<1>0. TypeOK
  BY DEF IInv
<1> DEFINE Control == pc' \in [Threads -> PCs] /\ loc' \in [Threads -> Locals]
           Rows == row' \in [Slots -> Row]
           Effects == effects' \in [Slots -> SUBSET Nat]
<1>1. CASE UNCHANGED vars
  BY <1>0, <1>1 DEF vars, TypeOK
<1>2. ASSUME NEW t \in Threads, Apply(t) \/ ApplyCommitsLate(t) \/ ApplyCached(t) PROVE TypeOK'
  <2>1. Control
    BY <1>2, ControlTypes DEF Apply, ApplyCommitsLate, ApplyCached, PCs
  <2>2. Rows
    BY <1>2, <1>0, MovedRows, ThreadTypes DEF Apply, ApplyCommitsLate, ApplyCached, StageRow, SetRow, TypeOK
  <2>3. Effects
    BY <1>2, <1>0, ThreadTypes DEF Apply, ApplyCommitsLate, ApplyCached, TypeOK
  <2> QED BY <1>2, <1>0, <2>1, <2>2, <2>3 DEF Apply, ApplyCommitsLate, ApplyCached, Fault, TypeOK
<1>3. ASSUME NEW t \in Threads, ApplyRefused(t) \/ ApplyFails(t) \/ FailMutation(t) PROVE TypeOK'
  <2>1. Control
    BY <1>3, ControlTypes DEF ApplyRefused, ApplyFails, RollBack, FailMutation, PCs
  <2>2. Rows
    BY <1>3, <1>0, MovedRows, ThreadTypes DEF ApplyRefused, ApplyFails, RollBack, FailMutation,
       SetState, SetRow, States, TypeOK
  <2> QED BY <1>3, <1>0, <2>1, <2>2 DEF ApplyRefused, ApplyFails, RollBack, FailMutation, Fault, TypeOK
<1>4. ASSUME NEW t \in Threads, EnterReconcile(t) PROVE TypeOK'
  <2>1. Control
    <3>1. CASE Return(t)
      BY <3>1, ControlTypes
    <3>2. CASE pc' = [pc EXCEPT ![t] = "begin"] /\ loc' = [loc EXCEPT ![t].seen = RowOf(t)]
      BY <3>2, <1>0, ThreadTypes DEF TypeOK, Locals, PCs
    <3> QED BY <1>4, <3>1, <3>2 DEF EnterReconcile
  <2>2. replies' \subseteq Reply
    <3>1. CASE RowOf(t).state = "completed" /\ ReplyTo(t, RowOf(t))
      <4>1. Answer(Slot(t), loc[t].body, RowOf(t)) \in Reply
        BY <1>4, <3>1, <1>0, ThreadTypes, ReplyTypes DEF EnterReconcile, IInv, RowsAreClaimed, RowOf
      <4> QED BY <4>1, <3>1, <1>0 DEF ReplyTo, TypeOK
    <3> QED BY <1>4, <3>1, <1>0 DEF EnterReconcile, TypeOK
  <2> QED BY <1>4, <1>0, <2>1, <2>2 DEF EnterReconcile, TypeOK
<1>5. ASSUME NEW t \in Threads, BeginEmission(t) PROVE TypeOK'
  <2>1. Control
    BY <1>5, ControlTypes DEF BeginEmission, PCs
  <2>2. Rows
    BY <1>5, <1>0, MovedRows, ThreadTypes DEF BeginEmission, SetState, SetRow, States, TypeOK
  <2> QED BY <1>5, <1>0, <2>1, <2>2 DEF BeginEmission, TypeOK
<1>6. ASSUME NEW t \in Threads PROVE
        /\ NewReceipt(t) \in Receipt
        /\ AppendReceipt(t) => ledger' \in [Ledgers -> SUBSET Receipt] /\ minted' \in Nat
  <2>1. NewReceipt(t) \in Receipt
    BY <1>0, ThreadTypes DEF NewReceipt, Receipt, Locals, Row, TypeOK
  <2> QED BY <2>1, <1>0 DEF AppendReceipt, TypeOK
<1>7. ASSUME NEW t \in Threads, EmitNew(t) PROVE TypeOK'
  <2>1. Control
    BY <1>7, <1>6, <1>0 DEF EmitNew, TypeOK, Locals, PCs
  <2> QED BY <1>7, <1>6, <1>0, <2>1 DEF EmitNew, TypeOK
<1>8. ASSUME NEW t \in Threads, EmitExisting(t) PROVE TypeOK'
  <2>1. Control
    BY <1>8, <1>0, ThreadTypes DEF EmitExisting, Recorded, TypeOK, Locals, PCs
  <2> QED BY <1>8, <1>0, <2>1 DEF EmitExisting, TypeOK
<1>9. ASSUME NEW t \in Threads, EmitRefused(t) \/ EmitFails(t) \/ OperatorLeaves(t) PROVE TypeOK'
  <2>1. Control
    BY <1>9, ControlTypes DEF EmitRefused, EmitFails, OperatorLeaves
  <2>2. ledger' \in [Ledgers -> SUBSET Receipt] /\ minted' \in Nat
    BY <1>9, <1>6, <1>0 DEF EmitRefused, EmitFails, OperatorLeaves, TypeOK
  <2> QED BY <1>9, <1>0, <2>1, <2>2 DEF EmitRefused, EmitFails, OperatorLeaves, Fault, TypeOK
<1>10. ASSUME NEW t \in Threads, Complete(t) \/ CompleteAmbiguous(t) PROVE TypeOK'
  <2>0. pc[t] = "complete" /\ CompletedRow(t) \in Row
    BY <1>10, MovedRows DEF Complete, CompleteAmbiguous
  <2>1. Control
    BY <1>10, ControlTypes DEF Complete, CompleteAmbiguous
  <2>2. Rows
    BY <1>10, <1>0, <2>0, ThreadTypes DEF Complete, CompleteAmbiguous, SetRow, TypeOK
  <2>3. replies' \subseteq Reply
    <3>1. CompletedRow(t).receipt = loc[t].node
      BY <1>0, ThreadTypes DEF CompletedRow, Row
    <3>2. Answer(Slot(t), loc[t].body, CompletedRow(t)) \in Reply
      BY <2>0, <3>1, ReplyTypes DEF IInv, ThreadInv, NodeIsRecorded
    <3> QED BY <1>10, <1>0, <3>2 DEF Complete, CompleteAmbiguous, ReplyTo, TypeOK
  <2> QED BY <1>10, <1>0, <2>1, <2>2, <2>3 DEF Complete, CompleteAmbiguous, Fault, TypeOK
<1>11. ASSUME NEW t \in Threads, OperatorRetries(t) \/ OperatorCloses(t) PROVE TypeOK'
  <2>1. Control
    BY <1>11, ControlTypes DEF OperatorRetries, OperatorCloses, PCs
  <2>2. Rows
    BY <1>11, <1>0, MovedRows, ThreadTypes DEF OperatorRetries, OperatorCloses, SetState, SetRow, States, TypeOK
  <2> QED BY <1>11, <1>0, <2>1, <2>2 DEF OperatorRetries, OperatorCloses, TypeOK
<1>12. ASSUME NEW t \in Threads, NEW k \in Keys, NEW b \in Bodies \cup {NoBody}
       PROVE  FreshLocals(k, b) \in Locals
  BY RestType DEF FreshLocals, Locals
<1>13. ASSUME NEW t \in Threads, NEW k \in Keys, OperatorRead(t, k) PROVE TypeOK'
  <2>1. row[SlotOf(t, k)] \in Row
    BY <1>0, ThreadTypes DEF TypeOK
  <2>2. FreshLocals(k, row[SlotOf(t, k)].body) \in Locals
    BY <1>12, <2>1 DEF Row
  <2>3. [FreshLocals(k, row[SlotOf(t, k)].body) EXCEPT !.seen = row[SlotOf(t, k)]] \in Locals
    BY <2>1, <2>2 DEF Locals
  <2>4. Control
    BY <1>13, <2>3, <1>0 DEF OperatorRead, TypeOK, PCs
  <2> QED BY <1>13, <1>0, <2>4 DEF OperatorRead, TypeOK
<1>14. ASSUME NEW t \in Threads, NEW k \in Keys, NEW b \in Bodies, ClaimFresh(t, k, b) PROVE TypeOK'
  <2>1. Control
    BY <1>14, <1>12, <1>0 DEF ClaimFresh, TypeOK, PCs
  <2>2. Rows
    BY <1>14, <1>0, MovedRows, ThreadTypes DEF ClaimFresh, TypeOK
  <2> QED BY <1>14, <1>0, <2>1, <2>2 DEF ClaimFresh, Request, TypeOK
<1>15. ASSUME NEW t \in Threads, NEW k \in Keys, NEW b \in Bodies, ClaimExisting(t, k, b) PROVE TypeOK'
  <2>1. Control
    BY <1>15, <1>12, <1>0 DEF ClaimExisting, TypeOK, PCs
  <2>2. replies' \subseteq Reply
    <3>1. SlotOf(t, k) \in Slots /\ row[SlotOf(t, k)] \in Row
      BY <1>0, ThreadTypes DEF TypeOK
    <3>2. row[SlotOf(t, k)].state = "completed" => Answer(SlotOf(t, k), b, row[SlotOf(t, k)]) \in Reply
      BY <3>1 DEF IInv, RowsAreClaimed, Answer, Reply, Row
    <3> QED BY <1>15, <1>0, <3>2 DEF ClaimExisting, TypeOK
  <2> QED BY <1>15, <1>0, <2>1, <2>2 DEF ClaimExisting, Request, TypeOK
<1>16. ASSUME NEW t \in Threads, NEW k \in Keys, NEW b \in Bodies, ClaimConflict(t, k, b) PROVE TypeOK'
  BY <1>16, <1>0 DEF ClaimConflict, Request, TypeOK
<1>17. ASSUME NEW p \in Procs, CrashAndRestart(p) PROVE TypeOK'
  <2>1. Control
    BY <1>17, <1>0, RestType DEF CrashAndRestart, TypeOK, PCs
  <2>2. ledger' \in [Ledgers -> SUBSET Receipt] /\ bound' \in [Procs -> Stores]
    BY <1>17, <1>0 DEF CrashAndRestart, TypeOK
  <2> QED BY <1>17, <1>0, <2>1, <2>2 DEF CrashAndRestart, Fault, TypeOK
<1>18. ASSUME NEW t \in Threads, Step(t) PROVE TypeOK'
  BY <1>18, <1>2, <1>3, <1>4, <1>5, <1>7, <1>8, <1>9, <1>10, <1>11 DEF Step
<1>19. ASSUME NEW t \in Threads, Failure(t) PROVE TypeOK'
  BY <1>19, <1>2, <1>3, <1>9, <1>10 DEF Failure
<1>20. ASSUME NEW t \in Threads, Arrival(t) PROVE TypeOK'
  BY <1>20, <1>13, <1>14, <1>15, <1>16 DEF Arrival
<1> QED BY <1>1, <1>17, <1>18, <1>19, <1>20 DEF Next

-----------------------------------------------------------------------------
(* The rows, the ledgers and the replies.                                  *)

LEMMA RowsStaySound == ASSUME IInv, RowsMove PROVE RowsAreClaimed' /\ EffectMatchesStage'
<1>0. row \in [Slots -> Row] /\ effects \in [Slots -> SUBSET Nat] /\ stamp \in Nat
  BY DEF IInv, TypeOK
<1> DEFINE Sound(r, e) == /\ r.state # "none" => r.body \in Bodies
                          /\ r.state = "completed" => r.receipt \in Receipt /\ r.receipt.stamp = r.stamp
                          /\ \A n \in e : r.state \in Staged /\ r.stamp = n
                          /\ r.state \in Staged /\ r.body \notin LiveBodies => r.stamp \in e
<1>1. \A x \in Slots : row[x] \in Row /\ Sound(row[x], effects[x])
  BY <1>0 DEF IInv, RowsAreClaimed, EffectMatchesStage
<1>2. ASSUME \A x \in Slots : Sound(row'[x], effects'[x])
      PROVE  RowsAreClaimed' /\ EffectMatchesStage'
  BY <1>2 DEF RowsAreClaimed, EffectMatchesStage
<1>3. CASE UNCHANGED <<row, effects, stamp>>
  BY <1>1, <1>2, <1>3
<1>4. ASSUME NEW x \in Slots, Claims(x) PROVE \A y \in Slots : Sound(row'[y], effects'[y])
  BY <1>0, <1>1, <1>4 DEF Claims, NoRow, Staged
<1>5. ASSUME NEW x \in Slots, Executes(x) PROVE \A y \in Slots : Sound(row'[y], effects'[y])
  <2>1. effects[x] = {}
    BY <1>0, <1>1, <1>5 DEF Executes, Staged
  <2>2. Sound(row'[x], effects'[x])
    BY <1>0, <1>1, <1>5, <2>1 DEF Executes, Row, Staged
  <2>3. \A y \in Slots \ {x} : row'[y] = row[y] /\ effects'[y] = effects[y]
    BY <1>0, <1>5 DEF Executes
  <2> QED BY <1>1, <2>2, <2>3
<1>6. ASSUME NEW x \in Slots, NEW to \in States, Relabels(x, to)
      PROVE \A y \in Slots : Sound(row'[y], effects'[y])
  <2>1. Sound(row'[x], effects'[x])
    BY <1>0, <1>1, <1>6 DEF Relabels, Row, Staged
  <2>2. \A y \in Slots \ {x} : row'[y] = row[y] /\ effects'[y] = effects[y]
    BY <1>0, <1>6 DEF Relabels
  <2> QED BY <1>1, <2>1, <2>2
<1>7. ASSUME NEW x \in Slots, NEW n \in Receipt, Completes(x, n)
      PROVE \A y \in Slots : Sound(row'[y], effects'[y])
  <2>1. Sound(row'[x], effects'[x])
    BY <1>0, <1>1, <1>7 DEF Completes, Row, Staged
  <2>2. \A y \in Slots \ {x} : row'[y] = row[y] /\ effects'[y] = effects[y]
    BY <1>0, <1>7 DEF Completes
  <2> QED BY <1>1, <2>1, <2>2
<1> QED BY <1>2, <1>3, <1>4, <1>5, <1>6, <1>7 DEF RowsMove

\* A ledger only grows by the new receipt of a thread at "emit"; only the
\* crash of its process empties it.
LedgersMove ==
  \/ UNCHANGED ledger
  \/ \E t \in Threads : pc[t] = "emit" /\ Recorded(t) = {} /\ AppendReceipt(t) /\ UNCHANGED row
  \/ \E p \in Procs : /\ ledger' = [l \in Ledgers |-> IF l = LedgerOf[p] /\ l \notin Durable THEN {} ELSE ledger[l]]
                      /\ UNCHANGED row

LEMMA StepsMoveLedgers == ASSUME [Next]_vars PROVE LedgersMove
<1>1. ASSUME NEW t \in Threads, Step(t) PROVE LedgersMove
  BY <1>1 DEF Step, Apply, ApplyCached, ApplyRefused, RollBack, FailMutation, EnterReconcile, BeginEmission,
     EmitNew, EmitExisting, EmitRefused, Complete, OperatorLeaves, OperatorRetries, OperatorCloses, LedgersMove
<1>2. ASSUME NEW t \in Threads, Failure(t) PROVE LedgersMove
  BY <1>2 DEF Failure, ApplyCommitsLate, ApplyFails, RollBack, EmitFails, CompleteAmbiguous, LedgersMove
<1>3. ASSUME NEW t \in Threads, Arrival(t) PROVE LedgersMove
  BY <1>3 DEF Arrival, OperatorRead, ClaimFresh, ClaimExisting, ClaimConflict, LedgersMove
<1>4. ASSUME NEW p \in Procs, CrashAndRestart(p) PROVE LedgersMove
  BY <1>4 DEF CrashAndRestart, LedgersMove
<1> QED BY <1>1, <1>2, <1>3, <1>4 DEF Next, vars, LedgersMove

\* The receipt a thread appends is the first of its key, and its execution is staged.
LEMMA LedgersStaySound ==
  ASSUME IInv, RowsKept, LedgersMove
  PROVE  OneReceiptPerKey' /\ ReceiptsAreOfStagedMutations' /\
         (Durable = Ledgers => \A l \in Ledgers : ledger[l] \subseteq ledger'[l])
<1>0. ledger \in [Ledgers -> SUBSET Receipt] /\ \A x \in Slots : Kept(row[x], row'[x])
  BY DEF IInv, TypeOK, RowsKept
<1>1. \A r \in Receipt, s \in Stores :
        row[<<s, r.key>>].state \in Staged /\ row[<<s, r.key>>].stamp = r.stamp
        => row'[<<s, r.key>>].state \in Staged /\ row'[<<s, r.key>>].stamp = r.stamp
  BY <1>0 DEF Kept, Slots, Receipt
<1>2. ASSUME \A l \in Ledgers : ledger'[l] \subseteq ledger[l]
      PROVE  OneReceiptPerKey' /\ ReceiptsAreOfStagedMutations'
  <2>1. OneReceiptPerKey'
    BY <1>2 DEF IInv, OneReceiptPerKey
  <2>2. ASSUME NEW l \in Ledgers, NEW r \in ledger'[l]
        PROVE \E s \in Stores : row'[<<s, r.key>>].state \in Staged /\ row'[<<s, r.key>>].stamp = r.stamp
    <3>1. r \in ledger[l] /\ r \in Receipt
      BY <1>0, <1>2
    <3> QED BY <1>1, <3>1 DEF IInv, ReceiptsAreOfStagedMutations
  <2> QED BY <2>1, <2>2 DEF ReceiptsAreOfStagedMutations
<1>4. ASSUME NEW p \in Procs,
             ledger' = [l \in Ledgers |-> IF l = LedgerOf[p] /\ l \notin Durable THEN {} ELSE ledger[l]]
      PROVE  /\ \A l \in Ledgers : ledger'[l] \subseteq ledger[l]
             /\ Durable = Ledgers => \A l \in Ledgers : ledger[l] \subseteq ledger'[l]
  BY <1>4
<1>3. ASSUME NEW t \in Threads, pc[t] = "emit", Recorded(t) = {}, AppendReceipt(t)
      PROVE  /\ OneReceiptPerKey' /\ ReceiptsAreOfStagedMutations'
             /\ \A l \in Ledgers : ledger[l] \subseteq ledger'[l]
  <2> DEFINE n == NewReceipt(t)
             m == LedgerOf[Home[t]]
  <2>1. /\ m \in Ledgers /\ n \in Receipt /\ n.key = loc[t].key /\ n.stamp = loc[t].seen.stamp
        /\ bound[Home[t]] \in Stores
    BY ThreadTypes DEF IInv, TypeOK, NewReceipt, Receipt, Locals, Row
  <2>2. ledger' = [ledger EXCEPT ![m] = @ \cup {n}]
    BY <1>3 DEF AppendReceipt
  <2>3. \A r \in ledger[m] : r.key # n.key
    BY <1>3, <2>1 DEF Recorded
  <2>4. row[<<bound[Home[t]], n.key>>].state \in Staged /\ row[<<bound[Home[t]], n.key>>].stamp = n.stamp
    BY <1>3, <2>1 DEF IInv, ThreadInv, SeenIsCurrent, RowOf, Slot, SlotOf
  <2> HIDE DEF n, m
  <2>5. OneReceiptPerKey'
    BY <1>0, <2>1, <2>2, <2>3 DEF IInv, OneReceiptPerKey
  <2>6. ReceiptsAreOfStagedMutations'
    <3> SUFFICES ASSUME NEW l \in Ledgers, NEW r \in ledger'[l]
                 PROVE \E s \in Stores : row'[<<s, r.key>>].state \in Staged /\ row'[<<s, r.key>>].stamp = r.stamp
      BY DEF ReceiptsAreOfStagedMutations
    <3>1. CASE r = n
      BY <1>1, <2>1, <2>4, <3>1
    <3>2. CASE r \in ledger[l]
      <4>1. r \in Receipt
        BY <1>0, <3>2
      <4> QED BY <1>1, <3>2, <4>1 DEF IInv, ReceiptsAreOfStagedMutations
    <3> QED BY <1>0, <2>1, <2>2, <3>1, <3>2
  <2> QED BY <1>0, <2>1, <2>2, <2>5, <2>6
<1> QED BY <1>0, <1>2, <1>3, <1>4 DEF LedgersMove

LEMMA CompletedStaysRecorded ==
  ASSUME IInv, RowsMove, Durable = Ledgers => \A l \in Ledgers : ledger[l] \subseteq ledger'[l]
  PROVE  CompletedIsRecorded'
<1> DEFINE Recorded1(r, L) == r.state = "completed" =>
             r.receipt.stamp = r.stamp /\ \E l \in Ledgers : r.receipt \in L[l]
<1> SUFFICES ASSUME Durable = Ledgers, NEW y \in Slots PROVE Recorded1(row'[y], ledger')
  BY DEF CompletedIsRecorded
<1>1. row \in [Slots -> Row] /\ row[y] \in Row /\ Recorded1(row[y], ledger)
  BY DEF IInv, TypeOK, CompletedIsRecorded
<1>2. CASE row'[y] = row[y]
  BY <1>1, <1>2
<1>3. ASSUME NEW x \in Slots, Claims(x) PROVE Recorded1(row'[y], ledger')
  BY <1>1, <1>2, <1>3 DEF Claims, NoRow
<1>4. ASSUME NEW x \in Slots, Executes(x) PROVE Recorded1(row'[y], ledger')
  BY <1>1, <1>2, <1>4 DEF Executes, Row
<1>5. ASSUME NEW x \in Slots, NEW to \in States, Relabels(x, to) PROVE Recorded1(row'[y], ledger')
  BY <1>1, <1>2, <1>5 DEF Relabels, Row
<1>6. ASSUME NEW x \in Slots, NEW n \in Receipt, Completes(x, n) PROVE Recorded1(row'[y], ledger')
  <2>1. CASE x = y
    BY <1>1, <1>6, <2>1 DEF Completes, Row
  <2>2. CASE x # y
    BY <1>1, <1>2, <1>6, <2>2 DEF Completes
  <2> QED BY <2>1, <2>2
<1> QED BY <1>2, <1>3, <1>4, <1>5, <1>6 DEF RowsMove

\* A new answer is the outcome of a row that is completed after the step.
RepliesMove ==
  \/ UNCHANGED replies
  \/ \E x \in Slots, b \in Bodies :
       /\ replies' = replies \cup {Answer(x, b, row'[x])}
       /\ row'[x].state = "completed" /\ row'[x].body = b

LEMMA StepsMoveReplies == ASSUME IInv, [Next]_vars PROVE RepliesMove
<1>1. ASSUME NEW t \in Threads, EnterReconcile(t) PROVE RepliesMove
  <2>1. CASE RowOf(t).state = "completed" /\ ReplyTo(t, RowOf(t))
    <3>1. pc[t] = "enter" /\ row' = row /\ Slot(t) \in Slots
      BY <1>1, ThreadTypes DEF EnterReconcile, IInv
    <3>2. loc[t].body \in Bodies /\ RowOf(t).body = loc[t].body
      BY <3>1 DEF IInv, ThreadInv, OwnRow
    <3> QED BY <2>1, <3>1, <3>2 DEF ReplyTo, RowOf, RepliesMove
  <2> QED BY <1>1, <2>1 DEF EnterReconcile, RepliesMove
<1>2. ASSUME NEW t \in Threads, Complete(t) PROVE RepliesMove
  <2>1. CASE RowOf(t).state = "receipt_emitting" /\ SetRow(t, CompletedRow(t)) /\ ReplyTo(t, CompletedRow(t))
    <3>1. pc[t] = "complete" /\ Slot(t) \in Slots /\ RowOf(t) \in Row
      BY <1>2, ThreadTypes DEF Complete, IInv
    <3>2. loc[t].body \in Bodies /\ RowOf(t).body = loc[t].body
      BY <3>1 DEF IInv, ThreadInv, OwnRow
    <3>3. row'[Slot(t)] = CompletedRow(t)
      BY <2>1, <3>1 DEF SetRow, IInv, TypeOK
    <3>4. CompletedRow(t).state = "completed" /\ CompletedRow(t).body = RowOf(t).body
      BY <3>1 DEF CompletedRow, Row
    <3> QED BY <2>1, <3>1, <3>2, <3>3, <3>4 DEF ReplyTo, RepliesMove
  <2> QED BY <1>2, <2>1 DEF Complete, RepliesMove
<1>3. ASSUME NEW t \in Threads, NEW k \in Keys, NEW b \in Bodies, ClaimExisting(t, k, b) PROVE RepliesMove
  BY <1>3, ThreadTypes DEF IInv, ClaimExisting, RepliesMove
<1>4. ASSUME NEW t \in Threads, Step(t)
      PROVE  replies' = replies \/ EnterReconcile(t) \/ Complete(t)
  BY <1>4 DEF Step, Apply, ApplyCached, ApplyRefused, RollBack, FailMutation, BeginEmission,
     EmitNew, EmitExisting, EmitRefused, OperatorLeaves, OperatorRetries, OperatorCloses
<1>5. ASSUME NEW t \in Threads, Failure(t) PROVE replies' = replies
  BY <1>5 DEF Failure, ApplyCommitsLate, ApplyFails, RollBack, EmitFails, CompleteAmbiguous
<1>6. ASSUME NEW t \in Threads, Arrival(t) PROVE RepliesMove
  BY <1>3, <1>6 DEF Arrival, OperatorRead, ClaimFresh, ClaimConflict, RepliesMove
<1>7. ASSUME NEW p \in Procs, CrashAndRestart(p) PROVE replies' = replies
  BY <1>7 DEF CrashAndRestart
<1> QED BY <1>1, <1>2, <1>4, <1>5, <1>6, <1>7 DEF Next, vars, RepliesMove

LEMMA AnswersStayTrue == ASSUME IInv, RowsKept, RepliesMove PROVE AnswersAgree'
<1>1. ASSUME NEW a \in replies
      PROVE /\ a.asked = row'[a.slot].body /\ a.stamp = row'[a.slot].stamp
            /\ row'[a.slot].state = "completed" /\ a.receipt = row'[a.slot].receipt
  <2>1. a.slot \in Slots
    BY DEF IInv, TypeOK, Reply
  <2> QED BY <2>1 DEF IInv, AnswersAgree, RowsKept, Kept
<1>2. ASSUME NEW x \in Slots, NEW b \in Bodies, replies' = replies \cup {Answer(x, b, row'[x])},
             row'[x].state = "completed", row'[x].body = b
      PROVE AnswersAgree'
  BY <1>1, <1>2 DEF AnswersAgree, Answer
<1> QED BY <1>1, <1>2 DEF RepliesMove, AnswersAgree

-----------------------------------------------------------------------------
LEMMA InductiveStep == ASSUME IInv, [Next]_vars PROVE IInv'
<1>1. RowsMove /\ LedgersMove /\ RepliesMove
  BY StepsMoveRows, StepsMoveLedgers, StepsMoveReplies
<1>2. RowsKept
  BY <1>1, RowsProgress
<1> QED BY <1>1, <1>2, TypeStep, ThreadsStaySafe, RowsStaySound, LedgersStaySound,
     CompletedStaysRecorded, AnswersStayTrue DEF IInv

\* The inductive invariant holds in every deployment.
THEOREM MutationInvariant == Spec => []IInv
<1>1. Init => IInv
  BY InitHolds
<1>2. IInv /\ [Next]_vars => IInv'
  BY InductiveStep
<1> QED BY <1>1, <1>2, PTL DEF Spec

\* Type correctness.
THEOREM TypeCorrect == Spec => []TypeOK
BY MutationInvariant, PTL DEF IInv

\* At most one execution under a key commits its rows to a store
\* (claim_operator_mutation's "at-most-once"), for any number of handlers,
\* operators, processes and crashes.
THEOREM KeyHasOneEffect == Spec => []AtMostOneEffect
<1>1. IInv => AtMostOneEffect
  BY DEF IInv, TypeOK, EffectMatchesStage, AtMostOneEffect
<1> QED BY <1>1, MutationInvariant, PTL

\* Domain rows and staged response describe the same execution.
THEOREM EffectsAreStaged == Spec => []EffectMatchesStage
BY MutationInvariant, PTL DEF IInv

\* What the operator closed as "without replay" has not happened.
THEOREM ClosedHasNoEffect == Spec => []ClosedWithoutEffect
<1>1. IInv => ClosedWithoutEffect
  BY DEF IInv, TypeOK, EffectMatchesStage, ClosedWithoutEffect, Staged
<1> QED BY <1>1, MutationInvariant, PTL

\* One receipt per key in a chain, with concurrent and repeated emissions.
THEOREM KeyHasOneReceipt == Spec => []OneReceiptPerKey
BY MutationInvariant, PTL DEF IInv

\* Every receipt is evidence of a staged mutation.
THEOREM ReceiptsAreEvidence == Spec => []ReceiptsAreOfStagedMutations
BY MutationInvariant, PTL DEF IInv

\* A completed mutation is in the durable chain.
THEOREM CompletionIsRecorded == Spec => []CompletedIsRecorded
BY MutationInvariant, PTL DEF IInv

\* Effects, staged rows and receipts agree, in every deployment.
THEOREM RowsEffectsReceiptsAgree == Spec => []MutationSound
BY TypeCorrect, KeyHasOneEffect, EffectsAreStaged, ClosedHasNoEffect, ReceiptsAreEvidence,
   CompletionIsRecorded, PTL DEF MutationSound

\* All successful answers for a key agree with the one outcome.
THEOREM RepliesAgree == Spec => []AnswersAgree
BY MutationInvariant, PTL DEF IInv

\* Completed and closed rows never change; a staged response is never taken back.
THEOREM SettledStays == Spec => SettledIsFinal
<1>1. ASSUME IInv, [Next]_vars
      PROVE \A x \in Slots :
              /\ row[x].state \in {"completed", "abandoned_after_review"} => row'[x] = row[x]
              /\ row[x].state \in Staged => row'[x].state \in Staged /\ row'[x].stamp = row[x].stamp
  BY <1>1, StepsMoveRows, RowsProgress DEF RowsKept, Kept
<1> QED BY <1>1, MutationInvariant, PTL DEF Spec, SettledIsFinal

-----------------------------------------------------------------------------
(* The abstract contract.                                                  *)

Abs(r) == [status |-> Status(r), body |-> r.body, stamp |-> r.stamp, receipt |-> r.receipt]
Record == [x \in Slots |-> Abs(row[x])]
Evidence == UNION {ledger[l] : l \in Ledgers}

\* The abstract record moves as its row does.
LEMMA AbstractRow ==
  ASSUME NEW x \in Slots, NEW s, row \in [Slots -> Row], row' = [row EXCEPT ![x] = s]
  PROVE  Record' = [Record EXCEPT ![x] = Abs(s)]
BY DEF Record, Abs

LEMMA StatusOf ==
  ASSUME NEW r \in Row
  PROVE  /\ Status(r) = "open" <=> r.state = "none"
         /\ Status(r) = "reserved" <=> r.state \in {"in_progress", "needs_operator_review"}
         /\ Status(r) = "executed" <=> r.state \in {"receipt_pending", "receipt_emitting"}
         /\ Status(r) = "settled" <=> r.state = "completed"
         /\ Status(r) = "closed" <=> r.state = "abandoned_after_review"
BY DEF Status, Row, States

LEMMA ContractStep ==
  ASSUME IInv, IInv', [Next]_vars
  PROVE  [Contract!Next]_(Contract!vars)
<1> DEFINE Stutter == UNCHANGED <<Record, replies, Evidence, stamp>>
<1>0. /\ row \in [Slots -> Row] /\ stamp \in Nat /\ \A x \in Slots : row[x] \in Row
      /\ Record \in [Slots -> {Abs(r) : r \in Row}]
  BY DEF IInv, TypeOK, Record
<1>1. RowsMove /\ LedgersMove /\ RepliesMove
  BY StepsMoveRows, StepsMoveLedgers, StepsMoveReplies
<1>2. Stutter => [Contract!Next]_(Contract!vars)
  BY DEF Contract!vars, Record, Evidence, Abs
<1>3. CASE UNCHANGED <<row, effects, stamp>> /\ replies' = replies
  <2>1. ASSUME NEW r \in Evidence'
        PROVE \E x \in Slots : Record[x].status \in {"executed", "settled"} /\ Record[x].stamp = r.stamp
    <3>1. PICK l \in Ledgers : r \in ledger'[l]
      BY DEF Evidence
    <3>2. r \in Receipt
      BY <3>1 DEF IInv, TypeOK
    <3>3. PICK s \in Stores : row[<<s, r.key>>].state \in Staged /\ row[<<s, r.key>>].stamp = r.stamp
      BY <1>3, <3>1 DEF IInv, ReceiptsAreOfStagedMutations
    <3>4. <<s, r.key>> \in Slots
      BY <3>2 DEF Slots, Receipt
    <3>5. Status(row[<<s, r.key>>]) \in {"executed", "settled"}
      BY <1>0, <3>3, <3>4, StatusOf DEF Staged
    <3> QED BY <3>3, <3>4, <3>5 DEF Record, Abs
  <2>2. Record' = Record
    BY <1>3 DEF Record
  <2>3. Contract!Issue
    BY <1>3, <2>1, <2>2 DEF Contract!Issue, Record, Evidence, Abs
  <2> QED BY <2>3 DEF Contract!Next
<1>4. CASE UNCHANGED <<row, effects, stamp>> /\ ledger' = ledger
  <2>1. Record' = Record /\ Evidence' = Evidence
    BY <1>4 DEF Record, Evidence
  <2>2. CASE replies' = replies
    BY <1>2, <1>4, <2>1, <2>2
  <2>3. ASSUME NEW x \in Slots, NEW b \in Bodies, replies' = replies \cup {Answer(x, b, row[x])},
               row[x].state = "completed", row[x].body = b
        PROVE Contract!Next
    <3>1. Status(row[x]) = "settled"
      BY <2>3 DEF Status
    <3>2. Contract!Answer(x)
      BY <1>4, <2>1, <2>3, <3>1 DEF Contract!Answer, Contract!AnswerOf, Answer, Record, Evidence, Abs
    <3> QED BY <3>2 DEF Contract!Next
  <2> QED BY <1>1, <1>4, <2>2, <2>3 DEF RepliesMove
<1>5. ASSUME NEW x \in Slots, Claims(x) PROVE Contract!Next
  <2>1. PICK b \in Bodies : /\ row[x].state = "none"
                            /\ row' = [row EXCEPT ![x] = [NoRow EXCEPT !.state = "in_progress", !.body = b]]
    BY <1>5 DEF Claims
  <2>2. Status(row[x]) = "open"
    BY <1>0, <2>1, StatusOf
  <2>3. Abs([NoRow EXCEPT !.state = "in_progress", !.body = b])
        = Contract!Entry("reserved", b, 0, NoReceipt)
    <3> DEFINE s == [NoRow EXCEPT !.state = "in_progress", !.body = b]
    <3>1. s.state = "in_progress" /\ s.body = b /\ s.stamp = 0 /\ s.receipt = NoReceipt
      BY DEF NoRow
    <3> HIDE DEF s
    <3>2. Status(s) = "reserved"
      BY <3>1 DEF Status
    <3>3. Abs(s) = [status |-> "reserved", body |-> b, stamp |-> 0, receipt |-> NoReceipt]
      BY <3>1, <3>2 DEF Abs
    <3> QED BY <3>3 DEF s, Contract!Entry
  <2>4. Record' = [Record EXCEPT ![x] = Contract!Entry("reserved", b, 0, NoReceipt)]
    BY <1>0, <2>1, <2>3, AbstractRow
  <2>5. Contract!Reserve(x, b)
    BY <1>5, <2>2, <2>4 DEF Claims, Contract!Reserve, Contract!Put, Record, Evidence, Abs
  <2> QED BY <2>5 DEF Contract!Next
<1>6. ASSUME NEW x \in Slots, Executes(x) PROVE Contract!Next
  <2>1. Status(row[x]) = "reserved"
    BY <1>0, <1>6, StatusOf DEF Executes
  <2>2. Abs([row[x] EXCEPT !.state = "receipt_pending", !.stamp = stamp + 1])
        = Contract!Entry("executed", row[x].body, stamp', row[x].receipt)
    <3> DEFINE s == [row[x] EXCEPT !.state = "receipt_pending", !.stamp = stamp + 1]
    <3>1. s.state = "receipt_pending" /\ s.body = row[x].body /\ s.stamp = stamp + 1 /\ s.receipt = row[x].receipt
      BY <1>0 DEF Row
    <3> HIDE DEF s
    <3>2. Status(s) = "executed"
      BY <3>1 DEF Status
    <3>3. Abs(s) = [status |-> "executed", body |-> row[x].body, stamp |-> stamp', receipt |-> row[x].receipt]
      BY <1>6, <3>1, <3>2 DEF Abs, Executes
    <3> QED BY <3>3 DEF s, Contract!Entry
  <2>3. Record' = [Record EXCEPT ![x] = Contract!Entry("executed", Record[x].body, stamp', Record[x].receipt)]
    <3>1. Record' = [Record EXCEPT ![x] = Abs([row[x] EXCEPT !.state = "receipt_pending", !.stamp = stamp + 1])]
      BY <1>0, <1>6, AbstractRow DEF Executes
    <3>2. Record[x].body = row[x].body /\ Record[x].receipt = row[x].receipt
      BY DEF Record, Abs
    <3> QED BY <2>2, <3>1, <3>2
  <2>4. Contract!Execute(x)
    <3>1. stamp' > stamp /\ UNCHANGED <<replies, Evidence>>
      BY <1>0, <1>6 DEF Executes, Evidence
    <3>2. Record[x].status = "reserved"
      BY <2>1 DEF Record, Abs
    <3> QED BY <2>3, <3>1, <3>2 DEF Contract!Execute, Contract!Put, Record, Evidence, Abs
  <2> QED BY <2>4 DEF Contract!Next
<1>7. ASSUME NEW x \in Slots, NEW to \in States, Relabels(x, to) PROVE [Contract!Next]_(Contract!vars)
  <2>0. Record' = [Record EXCEPT ![x] = Abs([row[x] EXCEPT !.state = to])]
    BY <1>0, <1>7, AbstractRow DEF Relabels
  <2>1. CASE {row[x].state, to} \subseteq {"receipt_pending", "receipt_emitting"}
             \/ to = "needs_operator_review"
    <3>1. Abs([row[x] EXCEPT !.state = to]) = Abs(row[x])
      BY <1>0, <1>7, <2>1 DEF Relabels, Abs, Row, Status
    <3>2. Record' = Record
      BY <2>0, <3>1 DEF Record
    <3> QED BY <1>2, <1>7, <3>2 DEF Relabels, Evidence
  <2>2. CASE /\ row[x].state \in {"in_progress", "needs_operator_review"}
             /\ to = "abandoned_after_review"
    <3>1. Status(row[x]) = "reserved"
      BY <1>0, <2>2, StatusOf
    <3>2. Abs([row[x] EXCEPT !.state = to]) = Contract!Entry("closed", row[x].body, row[x].stamp, row[x].receipt)
      BY <1>0, <2>2 DEF Abs, Row, Status, Contract!Entry
    <3>3. Record' = [Record EXCEPT ![x] =
                 Contract!Entry("closed", Record[x].body, Record[x].stamp, Record[x].receipt)]
      BY <2>0, <3>2 DEF Record, Abs
    <3>4. Contract!Close(x)
      BY <1>7, <3>1, <3>3 DEF Relabels, Contract!Close, Contract!Put, Record, Evidence, Abs
    <3> QED BY <3>4 DEF Contract!Next
  <2> QED BY <1>7, <2>1, <2>2 DEF Relabels
<1>8. ASSUME NEW x \in Slots, NEW n \in Receipt, Completes(x, n) PROVE Contract!Next
  <2>1. Status(row[x]) = "executed"
    BY <1>0, <1>8, StatusOf DEF Completes
  <2>2. Abs([row[x] EXCEPT !.state = "completed", !.receipt = n])
        = Contract!Entry("settled", row[x].body, row[x].stamp, n)
    <3> DEFINE s == [row[x] EXCEPT !.state = "completed", !.receipt = n]
    <3>1. s.state = "completed" /\ s.body = row[x].body /\ s.stamp = row[x].stamp /\ s.receipt = n
      BY <1>0 DEF Row
    <3> HIDE DEF s
    <3>2. Status(s) = "settled"
      BY <3>1 DEF Status
    <3>3. Abs(s) = [status |-> "settled", body |-> row[x].body, stamp |-> row[x].stamp, receipt |-> n]
      BY <3>1, <3>2 DEF Abs
    <3> QED BY <3>3 DEF s, Contract!Entry
  <2>3. Record' = [Record EXCEPT ![x] = Contract!Entry("settled", Record[x].body, Record[x].stamp, n)]
    BY <1>0, <1>8, <2>2, AbstractRow DEF Completes, Record, Abs
  <2>4. n \in Evidence /\ Evidence' = Evidence /\ n.stamp = Record[x].stamp /\ stamp' = stamp
    BY <1>8 DEF Completes, Evidence, Record, Abs
  <2>5. row'[x].body = row[x].body
    BY <1>0, <1>8 DEF Completes, Row
  <2>6. Answer(x, row[x].body, row'[x]) = Contract!AnswerOf(x, Record'[x])
    BY <2>5 DEF Answer, Contract!AnswerOf, Record, Abs
  <2>7. Contract!Settle(x)
    BY <1>8, <2>1, <2>3, <2>4, <2>6 DEF Completes, Contract!Settle, Contract!Put, Record, Evidence, Abs
  <2> QED BY <2>7 DEF Contract!Next
<1> QED BY <1>1, <1>3, <1>4, <1>5, <1>6, <1>7, <1>8 DEF RowsMove

\* The whole protocol, with its threads, locks, crashes and reconciliation,
\* keeps the contract of an idempotency key.
THEOREM ImplementsContract == Spec => ContractSpec
<1>1. Init => Contract!Init
  <2> SUFFICES ASSUME Init PROVE Contract!Init
    OBVIOUS
  <2>1. \A x \in Slots : Abs(row[x]) = Contract!Open
    BY DEF Init, NoRow, Abs, Status, Contract!Open, Contract!Entry
  <2>2. Record = [x \in Slots |-> Contract!Open]
    BY <2>1 DEF Record
  <2>3. Evidence = {}
    BY DEF Init, Evidence
  <2> QED BY <2>2, <2>3 DEF Init, Contract!Init, Record, Evidence, Abs
<1>2. IInv /\ IInv' /\ [Next]_vars => [Contract!Next]_(Contract!vars)
  BY ContractStep
<1> QED BY <1>1, <1>2, MutationInvariant, PTL DEF Spec, ContractSpec, Contract!Spec
=============================================================================
