--------------------------- MODULE MutationContract ---------------------------
(***************************************************************************)
(* What an idempotency key promises, without threads, locks, crashes or    *)
(* reconciliation: a slot (a key in a store) is reserved for one request,  *)
(* executed at most once or closed unexecuted, and once settled has one    *)
(* receipt, which every successful answer carries.                         *)
(***************************************************************************)
EXTENDS Naturals

CONSTANTS Slots, Bodies, NoBody, NoReceipt

VARIABLES
  record,    \* the status, request, execution and receipt of each slot
  answers,   \* the successful answers given
  evidence,  \* the receipts that can be shown
  last       \* the stamp of the latest execution

vars == <<record, answers, evidence, last>>

Entry(status, body, stamp, receipt) ==
  [status |-> status, body |-> body, stamp |-> stamp, receipt |-> receipt]
Open == Entry("open", NoBody, 0, NoReceipt)
Put(x, entry) == record' = [record EXCEPT ![x] = entry]
AnswerOf(x, r) == [slot |-> x, asked |-> r.body, stamp |-> r.stamp, receipt |-> r.receipt]

Init ==
  /\ record = [x \in Slots |-> Open]
  /\ answers = {} /\ evidence = {} /\ last = 0

Reserve(x, b) ==
  /\ record[x].status = "open"
  /\ Put(x, Entry("reserved", b, 0, NoReceipt))
  /\ UNCHANGED <<answers, evidence, last>>

Execute(x) ==
  /\ record[x].status = "reserved"
  /\ last' > last
  /\ Put(x, Entry("executed", record[x].body, last', record[x].receipt))
  /\ UNCHANGED <<answers, evidence>>

Close(x) ==
  /\ record[x].status = "reserved"
  /\ Put(x, Entry("closed", record[x].body, record[x].stamp, record[x].receipt))
  /\ UNCHANGED <<answers, evidence, last>>

\* A receipt is minted for an executed slot only (a slow party may still mint
\* one after another settled the slot); evidence may be lost.
Issue ==
  /\ \A r \in evidence' \ evidence :
       \E x \in Slots : record[x].status \in {"executed", "settled"} /\ record[x].stamp = r.stamp
  /\ UNCHANGED <<record, answers, last>>

\* The party that settles a slot may answer its own caller in the same step.
Settle(x) ==
  /\ record[x].status = "executed"
  /\ \E r \in evidence :
       /\ r.stamp = record[x].stamp
       /\ Put(x, Entry("settled", record[x].body, record[x].stamp, r))
  /\ answers' \in {answers, answers \cup {AnswerOf(x, record'[x])}}
  /\ UNCHANGED <<evidence, last>>

Answer(x) ==
  /\ record[x].status = "settled"
  /\ answers' = answers \cup {AnswerOf(x, record[x])}
  /\ UNCHANGED <<record, evidence, last>>

Next ==
  \/ Issue
  \/ \E x \in Slots :
       \/ Execute(x) \/ Close(x) \/ Settle(x) \/ Answer(x)
       \/ \E b \in Bodies : Reserve(x, b)

Spec == Init /\ [][Next]_vars
=============================================================================
