-------------------------- MODULE OperatorMutation --------------------------
(***************************************************************************)
(* The operator-mutation protocol of killinchu_backend.py: a handler       *)
(* claims an idempotency key, commits its domain rows together with the    *)
(* staged response, and only then mints the canonical receipt and          *)
(* completes the row.  Requests run on handler threads of several server   *)
(* processes; a process may crash at any point, a domain write, an         *)
(* emission or a commit may fail, and the operator reconciles rows whose   *)
(* outcome is ambiguous.                                                   *)
(*                                                                         *)
(* A "store" is the database a process bound to when it started            *)
(* (_Store._init falls back to another one when the first is down), a      *)
(* "ledger" the receipt chain a process appends to: one durable chain for  *)
(* all processes, or one per process that is lost with the process.        *)
(*                                                                         *)
(* A "stamp" identifies one execution of a mutation: the staged response   *)
(* carries the time of the execution, so the digest in the receipt         *)
(* material of two executions differs.                                     *)
(***************************************************************************)
EXTENDS Naturals, FiniteSets

CONSTANTS
  Procs,        \* server processes
  Threads,      \* handler threads
  Home,         \* the process of a thread
  Operators,    \* the threads that serve the operator's requests
  Keys,         \* idempotency-key hashes
  Bodies,       \* <<operation, actor, request digest>> of a request
  LiveBodies,   \* the bodies of live.refresh, which may answer from cache
  Stores,       \* databases a process can bind to
  Ledgers,      \* receipt ledgers
  LedgerOf,     \* the ledger of a process
  Durable,      \* the ledgers that survive the crash of a process
  NoBody, NoReceipt,
  MaxRequests,  \* bound on the client requests
  MaxFaults     \* bound on the crashes and failures

ASSUME DeploymentAssumption ==
  /\ Home \in [Threads -> Procs]
  /\ Operators \subseteq Threads
  /\ Keys # {}
  /\ LedgerOf \in [Procs -> Ledgers]
  /\ Durable \subseteq Ledgers
  /\ LiveBodies \subseteq Bodies
  /\ NoBody \notin Bodies
  /\ MaxRequests \in Nat /\ MaxFaults \in Nat
  /\ \A p, q \in Procs : LedgerOf[p] = LedgerOf[q] => p = q \/ LedgerOf[p] \in Durable

VARIABLES
  row,       \* the operator_mutations table of each store
  effects,   \* the executions whose domain rows are committed, by store and key
  ledger,    \* the receipts in each ledger
  bound,     \* the store a process is bound to
  pc, loc,   \* program counter and locals of each thread
  replies,   \* the successful answers given so far
  stamp, minted, requests, faults   \* counters

vars == <<row, effects, ledger, bound, pc, loc, replies, stamp, minted, requests, faults>>

States == {"none", "in_progress", "receipt_pending", "receipt_emitting", "completed",
           "needs_operator_review", "abandoned_after_review"}
Staged == {"receipt_pending", "receipt_emitting", "completed"}

Receipt == [key : Keys, stamp : Nat, id : Nat]
Row == [state : States, body : Bodies \cup {NoBody}, stamp : Nat,
        receipt : Receipt \cup {NoReceipt}]
NoRow == [state |-> "none", body |-> NoBody, stamp |-> 0, receipt |-> NoReceipt]

Slots == Stores \X Keys

\* The locals of a thread: its key, the body it was asked to run, the row
\* it has read, and the receipt it has minted.
Locals == [key : Keys, body : Bodies \cup {NoBody}, seen : Row,
           node : Receipt \cup {NoReceipt}]
FreshLocals(k, b) == [key |-> k, body |-> b, seen |-> NoRow, node |-> NoReceipt]
Rest == FreshLocals(CHOOSE k \in Keys : TRUE, NoBody)

Reply == [slot : Slots, asked : Bodies, stamp : Nat, receipt : Receipt]

PCs == {"idle", "apply", "fail", "enter", "begin", "emit", "complete", "decide"}

Init ==
  /\ row = [x \in Slots |-> NoRow]
  /\ effects = [x \in Slots |-> {}]
  /\ ledger = [l \in Ledgers |-> {}]
  /\ bound \in [Procs -> Stores]
  /\ pc = [t \in Threads |-> "idle"]
  /\ loc = [t \in Threads |-> Rest]
  /\ replies = {}
  /\ stamp = 0 /\ minted = 0 /\ requests = 0 /\ faults = 0
-----------------------------------------------------------------------------
SlotOf(t, k) == <<bound[Home[t]], k>>
Slot(t) == SlotOf(t, loc[t].key)
RowOf(t) == row[Slot(t)]

SetRow(t, r) == row' = [row EXCEPT ![Slot(t)] = r]
SetState(t, to) == SetRow(t, [RowOf(t) EXCEPT !.state = to])

Goto(t, label) == pc' = [pc EXCEPT ![t] = label] /\ UNCHANGED loc
Return(t) == pc' = [pc EXCEPT ![t] = "idle"] /\ loc' = [loc EXCEPT ![t] = Rest]

Answer(x, b, r) == [slot |-> x, asked |-> b, stamp |-> r.stamp, receipt |-> r.receipt]
ReplyTo(t, r) == replies' = replies \cup {Answer(Slot(t), loc[t].body, r)}

Request == requests < MaxRequests /\ requests' = requests + 1
Fault == faults < MaxFaults /\ faults' = faults + 1

\* A thread holds its process's reconcile_lock from the moment it has read
\* a pending row until it answers.
LockFree(p) == \A u \in Threads : Home[u] = p => pc[u] \notin {"begin", "emit", "complete"}
-----------------------------------------------------------------------------
(* _claim_mutation: one INSERT ... ON CONFLICT DO NOTHING, then the existing row. *)

\* Mutant: INSERT OR REPLACE.
ClaimFreshReplaces(t, k, b) ==
  /\ pc[t] = "idle" /\ Request
  /\ row' = [row EXCEPT ![SlotOf(t, k)] = [NoRow EXCEPT !.state = "in_progress", !.body = b]]
  /\ pc' = [pc EXCEPT ![t] = "apply"]
  /\ loc' = [loc EXCEPT ![t] = FreshLocals(k, b)]
  /\ UNCHANGED <<effects, ledger, bound, replies, stamp, minted, faults>>

ClaimFresh(t, k, b) ==
  /\ pc[t] = "idle" /\ Request
  /\ row[SlotOf(t, k)].state = "none"
  /\ row' = [row EXCEPT ![SlotOf(t, k)] = [NoRow EXCEPT !.state = "in_progress", !.body = b]]
  /\ pc' = [pc EXCEPT ![t] = "apply"]
  /\ loc' = [loc EXCEPT ![t] = FreshLocals(k, b)]
  /\ UNCHANGED <<effects, ledger, bound, replies, stamp, minted, faults>>

\* Mutant: a completed row is replayed to whoever presents its key.
ClaimExistingAnyBody(t, k, b) ==
  /\ pc[t] = "idle" /\ Request
  /\ row[SlotOf(t, k)].state = "completed"
  /\ replies' = replies \cup {Answer(SlotOf(t, k), b, row[SlotOf(t, k)])}
  /\ UNCHANGED <<row, effects, ledger, bound, pc, loc, stamp, minted, faults>>

\* The same request again: replay a completed row, reconcile a pending one,
\* refuse (409) any other state.
ClaimExisting(t, k, b) ==
  /\ pc[t] = "idle" /\ Request
  /\ LET r == row[SlotOf(t, k)] IN
     /\ r.body = b
     /\ \/ /\ r.state = "completed"
           /\ replies' = replies \cup {Answer(SlotOf(t, k), b, r)}
           /\ UNCHANGED <<pc, loc>>
        \/ /\ r.state = "receipt_pending"
           /\ pc' = [pc EXCEPT ![t] = "enter"]
           /\ loc' = [loc EXCEPT ![t] = FreshLocals(k, b)]
           /\ UNCHANGED replies
        \/ /\ r.state \notin {"completed", "receipt_pending"}
           /\ UNCHANGED <<pc, loc, replies>>
  /\ UNCHANGED <<row, effects, ledger, bound, stamp, minted, faults>>

\* The key was used for another request: 409, nothing changes.
ClaimConflict(t, k, b) ==
  /\ pc[t] = "idle" /\ Request
  /\ row[SlotOf(t, k)].body \notin {b, NoBody}
  /\ UNCHANGED <<row, effects, ledger, bound, pc, loc, replies, stamp, minted, faults>>
-----------------------------------------------------------------------------
(* The handler's transaction: domain rows and staged response commit together. *)

StageRow(t) == SetRow(t, [RowOf(t) EXCEPT !.state = "receipt_pending", !.stamp = stamp + 1])

\* Mutant: the rows are committed before the claim is checked.
ApplyBeforeStage(t) ==
  /\ pc[t] = "apply"
  /\ effects' = [effects EXCEPT ![Slot(t)] = @ \cup {stamp + 1}]
  /\ stamp' = stamp + 1
  /\ IF RowOf(t).state = "in_progress" THEN StageRow(t) ELSE UNCHANGED row
  /\ Goto(t, "enter")
  /\ UNCHANGED <<ledger, bound, replies, minted, requests, faults>>

Apply(t) ==
  /\ pc[t] = "apply"
  /\ RowOf(t).state = "in_progress"
  /\ effects' = [effects EXCEPT ![Slot(t)] = @ \cup {stamp + 1}]
  /\ stamp' = stamp + 1
  /\ StageRow(t)
  /\ Goto(t, "enter")
  /\ UNCHANGED <<ledger, bound, replies, minted, requests, faults>>

\* The commit raises although its transaction stays open; the next statement
\* of the connection (fail_operator_mutation, which finds nothing to fail)
\* commits it, and the handler answers 500.
ApplyCommitsLate(t) ==
  /\ pc[t] = "apply" /\ Fault
  /\ RowOf(t).state = "in_progress"
  /\ effects' = [effects EXCEPT ![Slot(t)] = @ \cup {stamp + 1}]
  /\ stamp' = stamp + 1
  /\ StageRow(t)
  /\ Return(t)
  /\ UNCHANGED <<ledger, bound, replies, minted, requests>>

\* live.refresh with a recent snapshot stages its answer and writes no rows.
ApplyCached(t) ==
  /\ pc[t] = "apply" /\ loc[t].body \in LiveBodies
  /\ RowOf(t).state = "in_progress"
  /\ stamp' = stamp + 1
  /\ StageRow(t)
  /\ Goto(t, "enter")
  /\ UNCHANGED <<effects, ledger, bound, replies, minted, requests, faults>>

\* Mutant: the domain rows are committed statement by statement.
RollBackPartly(t) ==
  /\ pc[t] = "apply"
  /\ effects' = [effects EXCEPT ![Slot(t)] = @ \cup {stamp + 1}]
  /\ stamp' = stamp + 1
  /\ Goto(t, "fail")
  /\ UNCHANGED <<row, ledger, bound, replies, minted, requests>>

\* The transaction rolls back.  The handlers then fail the mutation, except
\* that the cached path has no except clause and leaves the claim as it is.
RollBack(t) ==
  /\ pc[t] = "apply"
  /\ \/ Goto(t, "fail")
     \/ loc[t].body \in LiveBodies /\ Return(t)
  /\ UNCHANGED <<row, effects, ledger, bound, replies, stamp, minted, requests>>

\* stage_operator_mutation finds the claim gone; a domain statement raises.
ApplyRefused(t) == RowOf(t).state # "in_progress" /\ RollBack(t) /\ UNCHANGED faults
ApplyFails(t) == Fault /\ RollBack(t)

\* Mutant: a failure is written unconditionally.
FailMutationBlindly(t) ==
  /\ pc[t] = "fail" /\ SetState(t, "needs_operator_review") /\ Return(t)
  /\ UNCHANGED <<effects, ledger, bound, replies, stamp, minted, requests, faults>>

FailMutation(t) ==
  /\ pc[t] = "fail"
  /\ IF RowOf(t).state = "in_progress" THEN SetState(t, "needs_operator_review")
                                       ELSE UNCHANGED row
  /\ Return(t)
  /\ UNCHANGED <<effects, ledger, bound, replies, stamp, minted, requests, faults>>
-----------------------------------------------------------------------------
(* _reconcile_mutation, under the reconcile_lock of the process. *)

EnterReconcile(t) ==
  /\ pc[t] = "enter" /\ LockFree(Home[t])
  /\ \/ /\ RowOf(t).state = "completed"
        /\ ReplyTo(t, RowOf(t))
        /\ Return(t)
     \/ /\ RowOf(t).state \notin {"completed", "receipt_pending"}
        /\ Return(t)
        /\ UNCHANGED replies
     \/ /\ RowOf(t).state = "receipt_pending"
        /\ pc' = [pc EXCEPT ![t] = "begin"]
        /\ loc' = [loc EXCEPT ![t].seen = RowOf(t)]
        /\ UNCHANGED replies
  /\ UNCHANGED <<row, effects, ledger, bound, stamp, minted, requests, faults>>

\* Mutant: the transition to "receipt_emitting" is not conditional.
BeginEmissionBlindly(t) ==
  /\ pc[t] = "begin" /\ SetState(t, "receipt_emitting") /\ Goto(t, "emit")
  /\ UNCHANGED <<effects, ledger, bound, replies, stamp, minted, requests, faults>>

BeginEmission(t) ==
  /\ pc[t] = "begin"
  /\ \/ RowOf(t).state = "receipt_pending" /\ SetState(t, "receipt_emitting") /\ Goto(t, "emit")
     \/ RowOf(t).state # "receipt_pending" /\ UNCHANGED row /\ Return(t)
  /\ UNCHANGED <<effects, ledger, bound, replies, stamp, minted, requests, faults>>

\* Mutants: no lookup before the append; a lookup by material instead of by key.
RecordedNever(t) == {}
RecordedMaterial(t) ==
  {r \in ledger[LedgerOf[Home[t]]] : r.key = loc[t].key /\ r.stamp = loc[t].seen.stamp}

\* _emit_receipt, under the ledger lock: an operator mutation already in the
\* chain is returned when its material is the same and refused otherwise.
Recorded(t) == {r \in ledger[LedgerOf[Home[t]]] : r.key = loc[t].key}
NewReceipt(t) == [key |-> loc[t].key, stamp |-> loc[t].seen.stamp, id |-> minted + 1]
AppendReceipt(t) ==
  /\ ledger' = [ledger EXCEPT ![LedgerOf[Home[t]]] = @ \cup {NewReceipt(t)}]
  /\ minted' = minted + 1

EmitNew(t) ==
  /\ pc[t] = "emit" /\ Recorded(t) = {}
  /\ AppendReceipt(t)
  /\ pc' = [pc EXCEPT ![t] = "complete"]
  /\ loc' = [loc EXCEPT ![t].node = NewReceipt(t)]
  /\ UNCHANGED <<row, effects, bound, replies, stamp, requests, faults>>

\* Mutant: the recorded node is taken without comparing its material.
EmitExistingAny(t) ==
  /\ pc[t] = "emit"
  /\ \E r \in Recorded(t) :
       /\ pc' = [pc EXCEPT ![t] = "complete"]
       /\ loc' = [loc EXCEPT ![t].node = r]
  /\ UNCHANGED <<row, effects, ledger, bound, replies, stamp, minted, requests, faults>>

EmitExisting(t) ==
  /\ pc[t] = "emit"
  /\ \E r \in Recorded(t) :
       /\ r.stamp = loc[t].seen.stamp
       /\ pc' = [pc EXCEPT ![t] = "complete"]
       /\ loc' = [loc EXCEPT ![t].node = r]
  /\ UNCHANGED <<row, effects, ledger, bound, replies, stamp, minted, requests, faults>>

EmitRefused(t) ==
  /\ pc[t] = "emit"
  /\ \E r \in Recorded(t) : r.stamp # loc[t].seen.stamp
  /\ Return(t)
  /\ UNCHANGED <<row, effects, ledger, bound, replies, stamp, minted, requests, faults>>

\* Mutant: the receipt is used although the ledger refused it.
EmitFailsUnnoticed(t) ==
  /\ pc[t] = "emit" /\ Fault
  /\ pc' = [pc EXCEPT ![t] = "complete"]
  /\ loc' = [loc EXCEPT ![t].node = NewReceipt(t)]
  /\ UNCHANGED <<row, effects, ledger, bound, replies, stamp, minted, requests>>

\* The ledger is unavailable, or it stored the receipt and failed to say so.
EmitFails(t) ==
  /\ pc[t] = "emit" /\ Fault
  /\ \/ UNCHANGED <<ledger, minted>>
     \/ Recorded(t) = {} /\ AppendReceipt(t)
  /\ Return(t)
  /\ UNCHANGED <<row, effects, bound, replies, stamp, requests>>

CompletedRow(t) == [RowOf(t) EXCEPT !.state = "completed", !.stamp = loc[t].seen.stamp,
                                    !.receipt = loc[t].node]

Complete(t) ==
  /\ pc[t] = "complete"
  /\ \/ /\ RowOf(t).state = "receipt_emitting"
        /\ SetRow(t, CompletedRow(t))
        /\ ReplyTo(t, CompletedRow(t))
     \/ /\ RowOf(t).state # "receipt_emitting"
        /\ UNCHANGED <<row, replies>>
  /\ Return(t)
  /\ UNCHANGED <<effects, ledger, bound, stamp, minted, requests, faults>>

\* The commit of the completion raises, before or after it took effect.
CompleteAmbiguous(t) ==
  /\ pc[t] = "complete" /\ Fault
  /\ \/ UNCHANGED row
     \/ RowOf(t).state = "receipt_emitting" /\ SetRow(t, CompletedRow(t))
  /\ Return(t)
  /\ UNCHANGED <<effects, ledger, bound, replies, stamp, minted, requests>>
-----------------------------------------------------------------------------
(* mutation_reconcile: the operator's request.  The row is read before the *)
(* body of the request is awaited, and acted on after it.                  *)

OperatorRead(t, k) ==
  /\ pc[t] = "idle" /\ t \in Operators
  /\ row[SlotOf(t, k)].state # "none"
  /\ pc' = [pc EXCEPT ![t] = "decide"]
  /\ loc' = [loc EXCEPT ![t] = [FreshLocals(k, row[SlotOf(t, k)].body)
                                  EXCEPT !.seen = row[SlotOf(t, k)]]]
  /\ UNCHANGED <<row, effects, ledger, bound, replies, stamp, minted, requests, faults>>

\* Nothing to decide, or the operator did not confirm the inspection.
OperatorLeaves(t) ==
  /\ pc[t] = "decide" /\ loc[t].seen.state # "receipt_pending"
  /\ Return(t)
  /\ UNCHANGED <<row, effects, ledger, bound, replies, stamp, minted, requests, faults>>

\* Mutants: a retry that trusts the row as it was read; none for an ambiguous one.
OperatorRetriesBlindly(t) ==
  /\ pc[t] = "decide" /\ loc[t].seen.state = "receipt_emitting"
  /\ SetState(t, "receipt_pending") /\ Goto(t, "enter")
  /\ UNCHANGED <<effects, ledger, bound, replies, stamp, minted, requests, faults>>
OperatorRetriesPending(t) ==
  /\ pc[t] = "decide" /\ loc[t].seen.state = "receipt_pending"
  /\ Goto(t, "enter")
  /\ UNCHANGED <<row, effects, ledger, bound, replies, stamp, minted, requests, faults>>

\* retry_receipt_emission with the absence of the receipt confirmed: the
\* handler takes the operator's word for it.
OperatorRetries(t) ==
  /\ pc[t] = "decide"
  /\ \/ loc[t].seen.state = "receipt_pending" /\ UNCHANGED row /\ Goto(t, "enter")
     \/ /\ loc[t].seen.state = "receipt_emitting"
        /\ \/ RowOf(t).state = "receipt_emitting" /\ SetState(t, "receipt_pending") /\ Goto(t, "enter")
           \/ RowOf(t).state # "receipt_emitting" /\ UNCHANGED row /\ Return(t)
  /\ UNCHANGED <<effects, ledger, bound, replies, stamp, minted, requests, faults>>

\* Mutant: the operator closes the row as it was read.
OperatorClosesBlindly(t) ==
  /\ pc[t] = "decide"
  /\ loc[t].seen.state \in {"in_progress", "needs_operator_review"}
  /\ SetState(t, "abandoned_after_review")
  /\ Return(t)
  /\ UNCHANGED <<effects, ledger, bound, replies, stamp, minted, requests, faults>>

\* close_without_replay of a claim whose side effects were inspected.
OperatorCloses(t) ==
  /\ pc[t] = "decide"
  /\ loc[t].seen.state \in {"in_progress", "needs_operator_review"}
  /\ IF RowOf(t).state = loc[t].seen.state THEN SetState(t, "abandoned_after_review")
                                           ELSE UNCHANGED row
  /\ Return(t)
  /\ UNCHANGED <<effects, ledger, bound, replies, stamp, minted, requests, faults>>
-----------------------------------------------------------------------------
\* A process dies with its threads, its lock and a ledger held in memory; it
\* comes back bound to whichever store it can open.
CrashAndRestart(p) ==
  /\ Fault
  /\ pc' = [t \in Threads |-> IF Home[t] = p THEN "idle" ELSE pc[t]]
  /\ loc' = [t \in Threads |-> IF Home[t] = p THEN Rest ELSE loc[t]]
  /\ ledger' = [l \in Ledgers |-> IF l = LedgerOf[p] /\ l \notin Durable THEN {} ELSE ledger[l]]
  /\ \E s \in Stores : bound' = [bound EXCEPT ![p] = s]
  /\ UNCHANGED <<row, effects, replies, stamp, minted, requests>>

\* The steps a running thread takes by itself, and those a fault causes.
Step(t) ==
  \/ Apply(t) \/ ApplyCached(t) \/ ApplyRefused(t) \/ FailMutation(t)
  \/ EnterReconcile(t) \/ BeginEmission(t)
  \/ EmitNew(t) \/ EmitExisting(t) \/ EmitRefused(t) \/ Complete(t)
  \/ OperatorLeaves(t) \/ OperatorRetries(t) \/ OperatorCloses(t)
Failure(t) == ApplyCommitsLate(t) \/ ApplyFails(t) \/ EmitFails(t) \/ CompleteAmbiguous(t)
Arrival(t) ==
  \E k \in Keys :
    \/ OperatorRead(t, k)
    \/ \E b \in Bodies : ClaimFresh(t, k, b) \/ ClaimExisting(t, k, b) \/ ClaimConflict(t, k, b)

Next == \/ \E t \in Threads : Step(t) \/ Failure(t) \/ Arrival(t)
        \/ \E p \in Procs : CrashAndRestart(p)

Spec == Init /\ [][Next]_vars

\* Threads keep running, and each operator thread keeps reading the rows and
\* at last confirms a retry.  No fairness on clients, failures and crashes.
FairSpec ==
  /\ Spec
  /\ \A t \in Threads : WF_vars(Step(t))
  /\ \A t \in Operators : SF_vars(OperatorRetries(t)) /\ \A k \in Keys : SF_vars(OperatorRead(t, k))
-----------------------------------------------------------------------------
TypeOK ==
  /\ row \in [Slots -> Row]
  /\ effects \in [Slots -> SUBSET Nat]
  /\ ledger \in [Ledgers -> SUBSET Receipt]
  /\ bound \in [Procs -> Stores]
  /\ pc \in [Threads -> PCs]
  /\ loc \in [Threads -> Locals]
  /\ replies \subseteq Reply
  /\ stamp \in Nat /\ minted \in Nat /\ requests \in Nat /\ faults \in Nat

\* "The durable reservation makes retries at-most-once even if the process
\* fails after the mutation begins" (claim_operator_mutation): two
\* executions under one key never both commit their rows to one store,
\* whatever the handlers, the operator and the crashes do.
AtMostOneEffect == \A x \in Slots : \A m, n \in effects[x] : m = n

\* Rows and staged response commit together: an execution whose rows are in
\* the database is the one the mutation row describes, and a staged mutation
\* other than a cached live read has its rows.
EffectMatchesStage ==
  \A x \in Slots :
    /\ \A n \in effects[x] : row[x].state \in Staged /\ row[x].stamp = n
    /\ row[x].state \in Staged /\ row[x].body \notin LiveBodies => row[x].stamp \in effects[x]

\* A reservation the operator closed as "without replay" has no effect, also
\* when its handler was still running when the operator closed it.
ClosedWithoutEffect ==
  \A x \in Slots : row[x].state = "abandoned_after_review" => effects[x] = {}

\* A chain holds at most one receipt for a key, whatever was retried: after a
\* lost answer, after an operator wrongly confirmed its absence, and with two
\* processes emitting at once (_emit_receipt returns the recorded node).
OneReceiptPerKey ==
  \A l \in Ledgers : \A r1, r2 \in ledger[l] : r1.key = r2.key => r1 = r2

\* No receipt is minted for a mutation that was not staged.
ReceiptsAreOfStagedMutations ==
  \A l \in Ledgers : \A r \in ledger[l] :
    \E s \in Stores : row[<<s, r.key>>].state \in Staged /\ row[<<s, r.key>>].stamp = r.stamp

\* With durable ledgers the receipt a completed row stores is in the chain.
CompletedIsRecorded ==
  Durable = Ledgers =>
    \A x \in Slots : row[x].state = "completed" =>
      /\ row[x].receipt.stamp = row[x].stamp
      /\ \E l \in Ledgers : row[x].receipt \in ledger[l]

\* Rows, domain effects and receipts agree in every state: one execution per
\* key and store, staged with its rows, never one that was closed, and the
\* receipt of each completed row in the chain of its own mutation.
MutationSound ==
  /\ TypeOK /\ AtMostOneEffect /\ EffectMatchesStage /\ ClosedWithoutEffect
  /\ ReceiptsAreOfStagedMutations /\ CompletedIsRecorded

\* Every successful answer for a key, first or replayed, by whichever process,
\* carries the outcome of the same execution and the same receipt, and goes
\* to a caller who asked for that very request.
AnswersAgree ==
  \A a \in replies :
    /\ a.asked = row[a.slot].body /\ a.stamp = row[a.slot].stamp
    /\ row[a.slot].state = "completed" /\ a.receipt = row[a.slot].receipt

\* A store keeps what is settled: a completed or closed row never changes
\* again, and no step takes back a staged response.
SettledIsFinal ==
  [][\A x \in Slots :
       /\ row[x].state \in {"completed", "abandoned_after_review"} => row'[x] = row[x]
       /\ row[x].state \in Staged => row'[x].state \in Staged /\ row'[x].stamp = row[x].stamp]_vars

\* The promise of the key, in the terms of the abstract contract.
Status(r) == CASE r.state = "none" -> "open"
               [] r.state \in {"in_progress", "needs_operator_review"} -> "reserved"
               [] r.state \in {"receipt_pending", "receipt_emitting"} -> "executed"
               [] r.state = "completed" -> "settled"
               [] r.state = "abandoned_after_review" -> "closed"
Contract == INSTANCE MutationContract WITH
  answers <- replies, evidence <- UNION {ledger[l] : l \in Ledgers}, last <- stamp,
  record <- [x \in Slots |-> [status |-> Status(row[x]), body |-> row[x].body,
                              stamp |-> row[x].stamp, receipt |-> row[x].receipt]]
ContractSpec == Contract!Spec

\* "operator reconciliation is required" (_claim_mutation), and one operator
\* who keeps retrying is enough: a staged mutation is completed at last, from
\* any combination of lost emissions, ambiguous commits and crashes, by the
\* handler or by an operator bound to the same store, unless the ledger has
\* the key from an execution in another store and refuses the receipt.
Refused(x) == \E l \in Ledgers : \E r \in ledger[l] : r.key = x[2] /\ r.stamp # row[x].stamp
StagedIsCompleted ==
  \A x \in Slots :
    row[x].state \in Staged ~>
      \/ row[x].state = "completed" \/ Refused(x)
      \/ \A t \in Operators : bound[Home[t]] # x[1]

\* The promise of claim_operator_mutation read across a restart: an execution
\* is not repeated because the process came back on the fallback store.
KeyRunsOnce ==
  \A k \in Keys : \A s1, s2 \in Stores :
    effects[<<s1, k>>] # {} /\ effects[<<s2, k>>] # {} => s1 = s2
=============================================================================
