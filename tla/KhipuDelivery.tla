---------------------------- MODULE KhipuDelivery ----------------------------
(***************************************************************************)
(* Delivery of Khipu receipts from one organ to the mirror of another:     *)
(* the LMDB log and outbox of the sender (khipu_lmdb/core.py, outbox.py),  *)
(* one attempt of delivery and the acceptance of a batch (delivery.py),    *)
(* and the snapshot barriers around both (szl_khipu_delivery_routes.py).   *)
(*                                                                         *)
(* Both sites keep their store through a crash of the process and fall     *)
(* back to their last snapshot when the disk is lost.  Requests and        *)
(* answers can be lost, and a request whose sender gave up can still       *)
(* arrive.  The locks of the routes leave one dispatch and one receive in  *)
(* progress at a time.                                                     *)
(*                                                                         *)
(* A digest covers the bodies of its receipt and of all before it, so it   *)
(* is the sequence of them, and a receipt's number is its length less one. *)
(* The bytes of a receipt also hold its time, which no digest covers.      *)
(***************************************************************************)
EXTENDS Naturals, Sequences, FiniteSets, SequencesExt

CONSTANTS
  Bodies,       \* payloads
  Unfit,        \* those append() takes and replication refuses (too large, not finite)
  Limit,        \* bound on the receipts of a batch
  DirectPosts,  \* the operator also posts single receipts to the mirror
  MaxAppends,   \* bound on the receipts
  MaxFaults     \* bound on lost messages, failing snapshots, crashes and lost disks

ASSUME DeliveryAssumption ==
  /\ Unfit \subseteq Bodies
  /\ Limit \in Nat \ {0} /\ DirectPosts \in BOOLEAN
  /\ MaxAppends \in Nat /\ MaxFaults \in Nat

VARIABLES
  source,       \* the sender's store: log, acknowledged digest, pending batch
  sink,         \* the receiver's mirror: origins, inbound cursor, last batch
  sourceCopy, sinkCopy,  \* their snapshots
  pc, batch,    \* the dispatch in progress and its batch
  conn,         \* its connection
  late,         \* the requests whose sender gave up
  serving,      \* the batch the receiver has accepted and not yet answered
  time, faults

vars == <<source, sink, sourceCopy, sinkCopy, pc, batch, conn, late, serving, time, faults>>

Origin == [digest : Seq(Bodies), ts : Nat]
Batch == Seq(Origin)
Source == [log : Seq(Origin), acked : Seq(Bodies), pending : Batch]
Sink == [mirror : Seq(Origin), last : Seq(Bodies), batch : Batch]

Digest(s) == IF s = <<>> THEN <<>> ELSE s[Len(s)].digest
Prev(o) == SubSeq(o.digest, 1, Len(o.digest) - 1)
Fit(o) == o.digest[Len(o.digest)] \notin Unfit

Init ==
  /\ source = [log |-> <<>>, acked |-> <<>>, pending |-> <<>>]
  /\ sink = [mirror |-> <<>>, last |-> <<>>, batch |-> <<>>]
  /\ sourceCopy = source /\ sinkCopy = sink
  /\ pc = "idle" /\ batch = <<>> /\ conn = "none"
  /\ late = {} /\ serving = <<>>
  /\ time = 0 /\ faults = 0

Fault == faults < MaxFaults /\ faults' = faults + 1
-----------------------------------------------------------------------------
(* The sender's store. *)

Receipt(b) == [digest |-> Append(Digest(source.log), b), ts |-> time + 1]

AppendReceipt(b) ==
  /\ time < MaxAppends
  /\ source' = [source EXCEPT !.log = Append(@, Receipt(b))]
  /\ time' = time + 1
  /\ UNCHANGED <<sink, sourceCopy, sinkCopy, pc, batch, conn, late, serving, faults>>

\* outbox._load: the state agrees with the log ...
Agrees(s) ==
  /\ Len(s.acked) + Len(s.pending) <= Len(s.log)
  /\ s.acked = Digest(SubSeq(s.log, 1, Len(s.acked)))
  /\ s.pending = SubSeq(s.log, Len(s.acked) + 1, Len(s.acked) + Len(s.pending))
  /\ \A i \in (Len(s.acked)..(Len(s.acked) + Len(s.pending))) \ {0} : Fit(s.log[i])
\* ... and the head of the log, which every call reads, can be replicated.
Loadable(s) == Agrees(s) /\ (s.log # <<>> => Fit(s.log[Len(s.log)]))

\* What a batch can hold: up to Limit receipts, cut where the next one would
\* make it too large; each receipt looked at has to be fit.
Window(s) == IF Len(s.log) - Len(s.acked) < Limit THEN Len(s.log) - Len(s.acked) ELSE Limit
Cut(s, n) == SubSeq(s.log, Len(s.acked) + 1, Len(s.acked) + n)
NextBatches(s) ==
  {Cut(s, n) : n \in {m \in 1..Window(s) :
     \A i \in 1..(IF m < Window(s) THEN m + 1 ELSE m) : Fit(s.log[Len(s.acked) + i])}}
-----------------------------------------------------------------------------
(* One dispatch: run("outbound") of the routes around deliver_once. *)

\* Mutant: an uncertain batch is cut anew.
PrepareAnew ==
  /\ pc = "idle" /\ Loadable(source)
  /\ \E b \in NextBatches(source) :
       /\ batch' = b
       /\ source' = [source EXCEPT !.pending = b]
  /\ pc' = "confirm"
  /\ UNCHANGED <<sink, sourceCopy, sinkCopy, conn, late, serving, time, faults>>

\* prepare: replay the pending batch, or persist a new one.  Nothing changes
\* when the state can not be loaded or there is nothing to send.
Prepare ==
  /\ pc = "idle" /\ Loadable(source)
  /\ \E b \in IF source.pending # <<>> THEN {source.pending} ELSE NextBatches(source) :
       /\ batch' = b
       /\ source' = [source EXCEPT !.pending = b]
  /\ pc' = "confirm"
  /\ UNCHANGED <<sink, sourceCopy, sinkCopy, conn, late, serving, time, faults>>

EndDispatch == pc' = "idle" /\ batch' = <<>> /\ conn' = "none"

\* snapshot_confirmed, with the exact pending batch in the snapshot.
ConfirmPending ==
  /\ pc = "confirm"
  /\ Loadable(source) /\ source.pending = batch
  /\ sourceCopy' = source
  /\ pc' = "send"
  /\ UNCHANGED <<source, sink, sinkCopy, batch, conn, late, serving, time, faults>>

\* Mutant: the batch leaves before its snapshot.
SendUnconfirmed ==
  /\ pc \in {"confirm", "send"}
  /\ Loadable(source) /\ source.pending = batch
  /\ pc' = "wait" /\ conn' = "sent"
  /\ UNCHANGED <<source, sink, sourceCopy, sinkCopy, batch, late, serving, time, faults>>

\* deliver_once prepares again and sends only the batch that was confirmed.
Send ==
  /\ pc = "send"
  /\ Loadable(source) /\ source.pending = batch
  /\ pc' = "wait" /\ conn' = "sent"
  /\ UNCHANGED <<source, sink, sourceCopy, sinkCopy, batch, late, serving, time, faults>>

\* Mutant: the pending batch is not cleared.
AcknowledgeKeeps ==
  /\ pc = "wait" /\ conn = "answer"
  /\ Loadable(source) /\ source.pending = batch
  /\ source' = [source EXCEPT !.acked = Digest(batch)]
  /\ pc' = "settle" /\ conn' = "none"
  /\ UNCHANGED <<sink, sourceCopy, sinkCopy, batch, late, serving, time, faults>>

\* An exact answer advances the cursor.
Acknowledge ==
  /\ pc = "wait" /\ conn = "answer"
  /\ Loadable(source) /\ source.pending = batch
  /\ source' = [source EXCEPT !.acked = Digest(batch), !.pending = <<>>]
  /\ pc' = "settle" /\ conn' = "none"
  /\ UNCHANGED <<sink, sourceCopy, sinkCopy, batch, late, serving, time, faults>>

ConfirmAck ==
  /\ pc = "settle"
  /\ Loadable(source) /\ source.pending = <<>> /\ source.acked = Digest(batch)
  /\ sourceCopy' = source
  /\ EndDispatch
  /\ UNCHANGED <<source, sink, sinkCopy, late, serving, time, faults>>

\* The head has become unfit meanwhile (a snapshot may have been published
\* before its check failed), or the receiver refused.
DispatchBlocked ==
  /\ \/ pc \in {"confirm", "settle"} /\ ~Loadable(source) /\ sourceCopy' \in {sourceCopy, source}
     \/ /\ pc = "send" \/ (pc = "wait" /\ conn = "answer")
        /\ ~Loadable(source) /\ UNCHANGED sourceCopy
     \/ pc = "wait" /\ conn = "refused" /\ UNCHANGED sourceCopy
  /\ EndDispatch
  /\ UNCHANGED <<source, sink, sinkCopy, late, serving, time, faults>>

\* A snapshot fails, published or not; the request or its answer is lost or
\* comes too late; the process dies.  The request may still be on its way.
DispatchFails ==
  /\ pc # "idle" /\ Fault
  /\ \/ pc \in {"confirm", "settle"} /\ sourceCopy' = source
     \/ UNCHANGED sourceCopy
  /\ late' \in IF conn = "sent" THEN {late, late \cup {batch}} ELSE {late}
  /\ EndDispatch
  /\ UNCHANGED <<source, sink, sinkCopy, serving, time>>

LoseSource ==
  /\ Fault
  /\ source' = sourceCopy
  /\ late' \in IF conn = "sent" THEN {late, late \cup {batch}} ELSE {late}
  /\ EndDispatch
  /\ UNCHANGED <<sink, sourceCopy, sinkCopy, serving, time>>
-----------------------------------------------------------------------------
(* The receiver: run("inbound") of the routes around accept_batch. *)

Mirrored(k) == Range(k.mirror)
Held(k, o) == o \in Mirrored(k)
\* Mutant: a digest is held whatever the other bytes are.
ConflictsNever(k, o) == FALSE

Conflicts(k, o) == \E e \in Mirrored(k) : e.digest = o.digest /\ e # o
CursorHeld(k) == k.last # <<>> => \E e \in Mirrored(k) : e.digest = k.last

\* Mutant: the last batch is not recognised.
ReplaysNever(k, b) == FALSE

\* Mutant: the batch need not continue at the cursor.
ContinuesAnywhere(k, b) == k.batch # b /\ \A i \in DOMAIN b : ~Conflicts(k, b[i])

\* An exact replay of the last batch, or the next contiguous one, of origins
\* the mirror does not hold with other bytes.
Replays(k, b) == k.batch = b /\ \A i \in DOMAIN b : Held(k, b[i])
Continues(k, b) == k.batch # b /\ Prev(b[1]) = k.last /\ \A i \in DOMAIN b : ~Conflicts(k, b[i])
Acceptable(k, b) == CursorHeld(k) /\ (Replays(k, b) \/ Continues(k, b))

\* Mutant: each origin gets a wrapper, held or not.
AcceptedAgain(k, b) ==
  IF k.batch = b THEN {k}
  ELSE {[mirror |-> k.mirror \o b, last |-> Digest(b), batch |-> b]}

\* The receipts of a batch at the places of a set, in order.
Missing(k, b) == {i \in DOMAIN b : ~Held(k, b[i])}
Places(S) == {f \in [1..Cardinality(S) -> S] : Range(f) = S /\ \A i, j \in DOMAIN f : i < j => f[i] < f[j]}
Picked(b, f) == [i \in DOMAIN f |-> b[f[i]]]

\* One transaction: the wrappers that are missing, and the cursor.
Accepted(k, b) ==
  IF k.batch = b THEN {k}
  ELSE {[mirror |-> k.mirror \o Picked(b, f), last |-> Digest(b), batch |-> b] : f \in Places(Missing(k, b))}

Arrives(b) ==
  \/ conn = "sent" /\ b = batch /\ conn' = "served" /\ UNCHANGED late
  \/ b \in late /\ late' = late \ {b} /\ UNCHANGED conn

Accept(b) ==
  /\ serving = <<>> /\ Acceptable(sink, b)
  /\ Arrives(b)
  /\ sink' \in Accepted(sink, b)
  /\ serving' = b
  /\ UNCHANGED <<source, sourceCopy, sinkCopy, pc, batch, time, faults>>

Refuse(b) ==
  /\ serving = <<>> /\ ~Acceptable(sink, b)
  /\ \/ conn = "sent" /\ b = batch /\ conn' = "refused" /\ UNCHANGED late
     \/ b \in late /\ late' = late \ {b} /\ UNCHANGED conn
  /\ UNCHANGED <<source, sink, sourceCopy, sinkCopy, pc, batch, serving, time, faults>>

Reply(answer) == conn' = IF conn = "served" THEN answer ELSE conn

\* Mutant: the answer leaves without a snapshot.
ConfirmReceivedLive ==
  /\ serving # <<>>
  /\ Reply("answer")
  /\ serving' = <<>>
  /\ UNCHANGED <<source, sink, sourceCopy, sinkCopy, pc, batch, late, time, faults>>

\* The snapshot must hold the cursor of this batch and all its origins; then
\* the answer leaves.
ConfirmReceived ==
  /\ serving # <<>>
  /\ sink.batch = serving /\ sink.last = Digest(serving)
  /\ \A i \in DOMAIN serving : Held(sink, serving[i])
  /\ sinkCopy' = sink
  /\ Reply("answer")
  /\ serving' = <<>>
  /\ UNCHANGED <<source, sink, sourceCopy, pc, batch, late, time, faults>>

\* The snapshot fails, published or not, or the process dies.
ReceiveFails ==
  /\ serving # <<>> /\ Fault
  /\ sinkCopy' \in {sinkCopy, sink}
  /\ Reply("refused")
  /\ serving' = <<>>
  /\ UNCHANGED <<source, sink, sourceCopy, pc, batch, late, time>>

LoseSink ==
  /\ Fault
  /\ sink' = sinkCopy
  /\ Reply("refused")
  /\ serving' = <<>>
  /\ UNCHANGED <<source, sourceCopy, sinkCopy, pc, batch, late, time>>

\* append_replicated through the operator's route: any receipt the sender has,
\* in any order; a receipt that is held is not repeated, a conflict refused.
PostDirectly(i) ==
  /\ DirectPosts
  /\ LET o == source.log[i] IN
     /\ Fit(o) /\ ~Held(sink, o) /\ ~Conflicts(sink, o)
     /\ sink' = [sink EXCEPT !.mirror = Append(@, o)]
  /\ UNCHANGED <<source, sourceCopy, sinkCopy, pc, batch, conn, late, serving, time, faults>>
-----------------------------------------------------------------------------
Dispatch == Prepare \/ ConfirmPending \/ Send \/ Acknowledge \/ ConfirmAck \/ DispatchBlocked
Requests == late \cup (IF conn = "sent" THEN {batch} ELSE {})
Receive == ConfirmReceived \/ \E b \in Requests : Accept(b) \/ Refuse(b)

Next ==
  \/ Dispatch \/ DispatchFails \/ LoseSource
  \/ Receive \/ ReceiveFails \/ LoseSink
  \/ \E b \in Bodies : AppendReceipt(b)
  \/ \E i \in DOMAIN source.log : PostDirectly(i)

Spec == Init /\ [][Next]_vars

\* The operator dispatches again and again, and both sites run on.
FairSpec == Spec /\ WF_vars(Dispatch) /\ WF_vars(Receive)
-----------------------------------------------------------------------------
\* The type invariant; a connection lasts while its dispatch waits.
TypeOK ==
  /\ source \in Source /\ sourceCopy \in Source
  /\ sink \in Sink /\ sinkCopy \in Sink
  /\ pc \in {"idle", "confirm", "send", "wait", "settle"}
  /\ batch \in Batch /\ serving \in Batch /\ late \subseteq Batch
  /\ conn \in {"none", "sent", "served", "answer", "refused"}
  /\ conn # "none" <=> pc = "wait"
  /\ time \in Nat /\ faults \in Nat

\* The outbox never contradicts its log, in the live store and in the
\* snapshot a site may wake up with: CORRUPT_STATE is for damage only.
OutboxAgrees == Agrees(source) /\ Agrees(sourceCopy)

\* The copy the mirror has of the sender's log, up to its cursor.
Copied(k) ==
  [i \in 1..Len(k.last) |-> CHOOSE o \in Mirrored(k) : o.digest = SubSeq(k.last, 1, i)]

\* The mirror holds, byte for byte, a prefix of the log, and so does what
\* either site would come back with: no receipt is skipped, and none is sent
\* that the sender could lose and mint anew ("snapshot barriers").
MirrorFollows ==
  \A k \in {sink, sinkCopy} : \A s \in {source, sourceCopy} :
    /\ \A i \in 1..Len(k.last) : \E o \in Mirrored(k) : o.digest = SubSeq(k.last, 1, i)
    /\ IsPrefix(Copied(k), s.log)

\* What the sender counts as delivered survives the loss of the receiver's disk.
AckedIsSecured ==
  \A s \in {source, sourceCopy} : IsPrefix(s.acked, sinkCopy.last)

\* Whatever both sites come back with, the batch that is pending, or the next
\* one, is one the receiver accepts: an uncertain delivery can be repeated.
CanContinue ==
  \A k \in {sink, sinkCopy} : \A s \in {source, sourceCopy} :
    IF s.pending # <<>> THEN Acceptable(k, s.pending) ELSE s.acked = k.last

\* "retain one mirror wrapper per exact foreign receipt" (append_replicated),
\* with replays, restored snapshots and direct posts in any order.
MirroredOnce ==
  \A i, j \in DOMAIN sink.mirror : sink.mirror[i].digest = sink.mirror[j].digest => i = j

\* The two sites agree, live and in the snapshots they may wake up with; only
\* a receipt posted from a log that was lost can stand in the way of a batch.
DeliverySound ==
  /\ TypeOK /\ OutboxAgrees /\ MirrorFollows /\ AckedIsSecured /\ MirroredOnce
  /\ DirectPosts \/ CanContinue

\* Log and snapshot of the mirror implement durable replication.
Replication == INSTANCE ReplicatedLog WITH log <- source.log, secured <- Copied(sinkCopy)
ReplicationSpec == Replication!Spec

\* The operator's dispatches bring every receipt over, in spite of the faults.
AllDelivered == <>[](Len(source.acked) = Len(source.log) /\ sink.last = source.acked)
=============================================================================
