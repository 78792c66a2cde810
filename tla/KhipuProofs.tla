----------------------------- MODULE KhipuProofs -----------------------------
(***************************************************************************)
(* The two ways a Khipu receipt reaches another organ, for any payloads,   *)
(* peers, threads and faults.                                              *)
(*                                                                         *)
(* Delivery in batches is sound and implements durable replication:        *)
(* whatever is on its way to the receiver is in the sender's snapshot, so  *)
(* the receiver can only be where that snapshot says, or one pending batch *)
(* further; and what the sender has acknowledged is never past the         *)
(* receiver's snapshot.                                                    *)
(*                                                                         *)
(* The replication loop is sound: the lock makes a push one step for the   *)
(* flags; past the cursor a peer has a receipt at most as often as an      *)
(* operator or a restart allowed, once more if a push that is under way or *)
(* has paused the sender took it there.                                    *)
(***************************************************************************)
EXTENDS KhipuDelivery, Replicator, SequenceTheorems, FiniteSetTheorems, TLAPS

\* Each digest covers those before it.
Chain(log) == \A i \in DOMAIN log :
  Len(log[i].digest) = i /\ \A j \in 1..i : log[j].digest = SubSeq(log[i].digest, 1, j)

\* One log is the start of another.
Starts(s, t) == Len(s) <= Len(t) /\ \A i \in DOMAIN s : s[i] = t[i]

\* A batch is a piece of a log.
First(b) == Len(b[1].digest)
End(b) == Len(Digest(b))
Segment(b, log) ==
  /\ b # <<>> /\ First(b) \in 1..End(b) /\ End(b) <= Len(log) /\ Len(b) = End(b) - First(b) + 1
  /\ \A i \in DOMAIN b : b[i] = log[First(b) + i - 1]

LogsChain == Chain(source.log) /\ Chain(sourceCopy.log) /\ Starts(sourceCopy.log, source.log)

\* The live sender is where its snapshot is, or has acknowledged its batch.
Behind ==
  \/ source.acked = sourceCopy.acked /\ sourceCopy.pending \in {<<>>, source.pending}
  \/ sourceCopy.pending # <<>> /\ source.acked = Digest(sourceCopy.pending)

\* What is sent is pending, and pending in the snapshot.
BatchPends ==
  /\ pc \in {"confirm", "send", "wait"} => batch # <<>> /\ batch = source.pending
  /\ pc \in {"send", "wait"} => sourceCopy.pending = batch /\ sourceCopy.acked = source.acked

\* A request is a piece of the log: the pending batch or one that is acknowledged.
Known(b, s) == Segment(b, s.log) /\ (b = s.pending \/ End(b) <= Len(s.acked))
RequestsKnown ==
  /\ \A b \in late : Known(b, sourceCopy)
  /\ serving # <<>> => Known(serving, sourceCopy)
  /\ conn = "served" => serving = batch

\* A mirror holds the receipts of a log up to its cursor.
CursorHolds(k, s) ==
  /\ Len(k.last) <= Len(s.log) /\ k.last = Digest(k.batch)
  /\ k.last # <<>> => k.last = s.log[Len(k.last)].digest
  /\ \A i \in 1..Len(k.last) : s.log[i] \in Mirrored(k)

\* The cursor is where the sender is, or has taken its pending batch.
InStep(k, s) ==
  \/ k.last = s.acked
  \/ s.pending # <<>> /\ k.batch = s.pending /\ k.last = Digest(s.pending)

Once(k) == \A i, j \in DOMAIN k.mirror : k.mirror[i].digest = k.mirror[j].digest => i = j
OnlyBatches(k, s) == DirectPosts \/ Mirrored(k) \subseteq Range(s.log)

Follows(k, s) == CursorHolds(k, s) /\ InStep(k, s) /\ Once(k) /\ OnlyBatches(k, s)
MirrorsFollow ==
  /\ Follows(sink, sourceCopy) /\ Follows(sinkCopy, sourceCopy)
  /\ Len(sinkCopy.last) <= Len(sink.last)

\* What the sender has acknowledged, or may, is in the receiver's snapshot.
Secured ==
  /\ Len(source.acked) <= Len(sinkCopy.last)
  /\ conn = "answer" => End(batch) <= Len(sinkCopy.last)

IInv == /\ TypeOK /\ OutboxAgrees /\ LogsChain /\ Behind /\ BatchPends
        /\ RequestsKnown /\ MirrorsFollow /\ Secured
-----------------------------------------------------------------------------
(* Digests, logs and batches. *)

LEMMA DigestType ==
  ASSUME NEW s \in Seq(Origin)
  PROVE  /\ Digest(s) \in Seq(Bodies)
         /\ s # <<>> => Len(s) \in DOMAIN s /\ Digest(s) = s[Len(s)].digest
<1>1. CASE s = <<>>
  BY <1>1 DEF Digest
<1>2. CASE s # <<>>
  <2>1. Len(s) \in 1..Len(s) /\ s[Len(s)] \in Origin
    BY <1>2
  <2> QED BY <1>2, <2>1 DEF Digest, Origin
<1> QED BY <1>1, <1>2

\* What outbox._load checks, position by position.
AgreesAt(log, acked, pending) ==
  /\ Len(acked) + Len(pending) <= Len(log)
  /\ acked # <<>> => acked = log[Len(acked)].digest
  /\ \A i \in DOMAIN pending : pending[i] = log[Len(acked) + i]
  /\ \A i \in (Len(acked)..(Len(acked) + Len(pending))) \ {0} : Fit(log[i])

\* The two parts of a log.
LEMMA PartsByPlace ==
  ASSUME NEW log \in Seq(Origin), NEW acked \in Seq(Bodies), NEW pending \in Seq(Origin),
         Len(acked) + Len(pending) <= Len(log)
  PROVE  /\ acked = Digest(SubSeq(log, 1, Len(acked))) <=> (acked # <<>> => acked = log[Len(acked)].digest)
         /\ pending = SubSeq(log, Len(acked) + 1, Len(acked) + Len(pending)) <=>
              \A i \in DOMAIN pending : pending[i] = log[Len(acked) + i]
<1>1. acked = Digest(SubSeq(log, 1, Len(acked))) <=> (acked # <<>> => acked = log[Len(acked)].digest)
  <2>1. CASE acked = <<>>
    <3>1. SubSeq(log, 1, Len(acked)) = <<>>
      BY <2>1
    <3> QED BY <2>1, <3>1 DEF Digest
  <2>2. CASE acked # <<>>
    <3> DEFINE old == SubSeq(log, 1, Len(acked))
    <3>1. Len(acked) \in 1..Len(log)
      BY <2>2
    <3>2. old \in Seq(Origin) /\ Len(old) = Len(acked) /\ old[Len(acked)] = log[Len(acked)]
      BY <3>1
    <3>3. old # <<>> /\ Digest(old) = log[Len(acked)].digest
      <4> HIDE DEF old
      <4> QED BY <3>1, <3>2 DEF Digest
    <3> QED BY <2>2, <3>3
  <2> QED BY <2>1, <2>2
<1>2. pending = SubSeq(log, Len(acked) + 1, Len(acked) + Len(pending)) <=>
        \A i \in DOMAIN pending : pending[i] = log[Len(acked) + i]
  <2> DEFINE next == SubSeq(log, Len(acked) + 1, Len(acked) + Len(pending))
  <2>1. next \in Seq(Origin) /\ Len(next) = Len(pending) /\ \A i \in 1..Len(pending) : next[i] = log[Len(acked) + i]
    <3>1. \A i \in (Len(acked) + 1)..(Len(acked) + Len(pending)) : log[i] \in Origin
      OBVIOUS
    <3> QED BY <3>1, SubSeqProperties
  <2> HIDE DEF next
  <2>2. pending = next <=> \A i \in DOMAIN pending : pending[i] = log[Len(acked) + i]
    <3>1. ASSUME \A i \in DOMAIN pending : pending[i] = log[Len(acked) + i] PROVE pending = next
      <4>1. \A i \in 1..Len(pending) : pending[i] = next[i]
        BY <2>1, <3>1
      <4> QED BY <2>1, <4>1, SeqEqual
    <3>2. DOMAIN pending = 1..Len(pending)
      OBVIOUS
    <3> QED BY <2>1, <3>1, <3>2
  <2> QED BY <2>2 DEF next
<1> QED BY <1>1, <1>2

LEMMA AgreesByPlace ==
  ASSUME NEW s \in Source PROVE Agrees(s) <=> AgreesAt(s.log, s.acked, s.pending)
<1>1. s.log \in Seq(Origin) /\ s.acked \in Seq(Bodies) /\ s.pending \in Seq(Origin)
  BY DEF Source, Batch
<1>2. CASE Len(s.acked) + Len(s.pending) <= Len(s.log)
  BY <1>1, <1>2, PartsByPlace DEF Agrees, AgreesAt
<1> QED BY <1>2 DEF Agrees, AgreesAt

\* The digest of a receipt extends the one before.
LEMMA ChainLinks ==
  ASSUME NEW log \in Seq(Origin), Chain(log), NEW i \in DOMAIN log
  PROVE  /\ log[i] \in Origin /\ Len(log[i].digest) = i
         /\ Prev(log[i]) \in Seq(Bodies) /\ Len(Prev(log[i])) = i - 1
         /\ i > 1 => Prev(log[i]) = log[i - 1].digest
         /\ \A j \in DOMAIN log : log[i].digest = log[j].digest => i = j
<1>1. log[i] \in Origin /\ i \in 1..Len(log) /\ Len(log[i].digest) = i /\ log[i].digest \in Seq(Bodies)
  <2>1. log[i] \in Origin /\ i \in 1..Len(log)
    OBVIOUS
  <2> QED BY <2>1 DEF Chain, Origin
<1>2. Prev(log[i]) \in Seq(Bodies) /\ Len(Prev(log[i])) = i - 1
  BY <1>1 DEF Prev
<1>3. i > 1 => Prev(log[i]) = log[i - 1].digest
  BY <1>1 DEF Prev, Chain
<1> QED BY <1>1, <1>2, <1>3 DEF Chain

\* Where a segment ends, and what it continues.
LEMMA SegmentEnds ==
  ASSUME NEW log \in Seq(Origin), Chain(log), NEW b \in Batch, Segment(b, log)
  PROVE  /\ First(b) \in 1..End(b) /\ End(b) \in 1..Len(log)
         /\ Digest(b) = log[End(b)].digest /\ Digest(b) # <<>> /\ Prev(b[1]) = Prev(log[First(b)])
         /\ \A i \in DOMAIN b : First(b) + i - 1 \in DOMAIN log /\ b[i] = log[First(b) + i - 1]
         /\ \A i \in First(b)..End(b) : log[i] = b[i - First(b) + 1] /\ i - First(b) + 1 \in DOMAIN b
<1>1. b \in Seq(Origin) /\ Len(b) \in Nat \ {0} /\ Digest(b) = b[Len(b)].digest /\ End(b) \in Nat
  BY DigestType DEF Segment, Batch, End
<1>2. First(b) \in 1..End(b) /\ End(b) <= Len(log) /\ Len(b) = End(b) - First(b) + 1
  BY DEF Segment
<1>3. b[Len(b)] = log[End(b)]
  BY <1>1, <1>2 DEF Segment
<1>4. b[1] = log[First(b)]
  BY <1>1, <1>2 DEF Segment
<1>5. Digest(b) # <<>>
  BY <1>1, <1>2 DEF End
<1> QED BY <1>1, <1>2, <1>3, <1>4, <1>5 DEF Segment

\* The pending batch is the piece of the log after the acknowledged part.
LEMMA PendingSegment ==
  ASSUME NEW log \in Seq(Origin), NEW acked \in Seq(Bodies), NEW pending \in Seq(Origin),
         AgreesAt(log, acked, pending), Chain(log), pending # <<>>
  PROVE  /\ Segment(pending, log)
         /\ First(pending) = Len(acked) + 1 /\ End(pending) = Len(acked) + Len(pending)
         /\ Prev(pending[1]) = acked
<1>1. Len(acked) \in Nat /\ Len(pending) \in Nat \ {0} /\ Len(acked) + Len(pending) <= Len(log)
  BY DEF AgreesAt
<1>2. \A i \in 1..Len(pending) : pending[i] = log[Len(acked) + i] /\ Len(acked) + i \in DOMAIN log
  BY <1>1 DEF AgreesAt
<1>3. \A i \in 1..Len(pending) : Len(pending[i].digest) = Len(acked) + i
  BY <1>2 DEF Chain
<1>4. 1 \in 1..Len(pending) /\ Len(pending) \in 1..Len(pending) /\ Digest(pending) = pending[Len(pending)].digest
  BY <1>1 DEF Digest
<1>5. First(pending) = Len(acked) + 1 /\ End(pending) = Len(acked) + Len(pending)
  BY <1>3, <1>4 DEF First, End
<1>6. Prev(pending[1]) = acked
  <2>1. Prev(pending[1]) = Prev(log[Len(acked) + 1]) /\ Len(acked) + 1 \in DOMAIN log
    BY <1>2, <1>4
  <2>2. CASE acked = <<>>
    BY <2>1, <2>2, ChainLinks
  <2>3. CASE acked # <<>>
    <3>1. Len(acked) + 1 > 1 /\ Len(acked) + 1 - 1 = Len(acked)
      BY <1>1, <2>3
    <3> QED BY <2>1, <2>3, <3>1, ChainLinks DEF AgreesAt
  <2> QED BY <2>2, <2>3
<1>7. \A i \in DOMAIN pending : pending[i] = log[First(pending) + i - 1]
  <2>1. \A i \in 1..Len(pending) : First(pending) + i - 1 = Len(acked) + i
    BY <1>1, <1>5
  <2>2. DOMAIN pending = 1..Len(pending)
    OBVIOUS
  <2> QED BY <1>2, <2>1, <2>2
<1> QED BY <1>1, <1>5, <1>6, <1>7 DEF Segment

\* A longer log has the pieces of the shorter one.
LEMMA SegmentStays ==
  ASSUME NEW s \in Seq(Origin), NEW t \in Seq(Origin), Starts(s, t), NEW b \in Batch, Segment(b, s), Chain(s)
  PROVE  Segment(b, t)
<1>1. \A i \in DOMAIN b : First(b) + i - 1 \in DOMAIN s
  BY SegmentEnds
<1>2. \A i \in DOMAIN b : b[i] = t[First(b) + i - 1]
  BY <1>1 DEF Segment, Starts
<1>3. End(b) <= Len(t)
  BY SegmentEnds DEF Starts
<1> QED BY <1>2, <1>3 DEF Segment

-----------------------------------------------------------------------------
(* The live sender and its snapshot. *)

LEMMA StoreParts ==
  ASSUME NEW s \in Source
  PROVE  /\ s.log \in Seq(Origin) /\ s.acked \in Seq(Bodies) /\ s.pending \in Seq(Origin) /\ s.pending \in Batch
         /\ Len(s.log) \in Nat /\ Len(s.acked) \in Nat
BY DEF Source, Batch

\* What a store is to the requests and mirrors below.
Good(s) == s \in Source /\ AgreesAt(s.log, s.acked, s.pending) /\ Chain(s.log)

LEMMA PendingOf ==
  ASSUME NEW s, Good(s), s.pending # <<>>
  PROVE  /\ Segment(s.pending, s.log) /\ Digest(s.pending) \in Seq(Bodies)
         /\ First(s.pending) = Len(s.acked) + 1 /\ First(s.pending) <= End(s.pending)
         /\ Len(Digest(s.pending)) = End(s.pending) /\ End(s.pending) \in Nat
         /\ Prev(s.pending[1]) = s.acked
<1>1. s.log \in Seq(Origin) /\ s.acked \in Seq(Bodies) /\ s.pending \in Seq(Origin)
  BY StoreParts DEF Good
<1>2. /\ Segment(s.pending, s.log) /\ First(s.pending) = Len(s.acked) + 1
      /\ End(s.pending) = Len(s.acked) + Len(s.pending) /\ Prev(s.pending[1]) = s.acked
  BY <1>1, PendingSegment DEF Good
<1>3. Digest(s.pending) \in Seq(Bodies) /\ Len(Digest(s.pending)) = End(s.pending) /\ End(s.pending) \in Nat
  BY <1>1, DigestType DEF End
<1> QED BY <1>2, <1>3 DEF Segment

\* A request the snapshot knows the live store knows.
LEMMA KnownLive ==
  ASSUME Good(source), Good(sourceCopy), Starts(sourceCopy.log, source.log), Behind,
         NEW b \in Batch, Known(b, sourceCopy)
  PROVE  Known(b, source)
<1>1. Segment(b, source.log) /\ b # <<>> /\ End(b) \in Nat
  <2>1. Segment(b, source.log)
    BY SegmentStays, StoreParts DEF Known, Good
  <2> QED BY <2>1, DigestType DEF Segment, End, Batch
<1>2. CASE source.acked = sourceCopy.acked /\ sourceCopy.pending \in {<<>>, source.pending}
  BY <1>1, <1>2 DEF Known
<1>3. CASE sourceCopy.pending # <<>> /\ source.acked = Digest(sourceCopy.pending)
  <2>1. Len(source.acked) = End(sourceCopy.pending) /\ Len(sourceCopy.acked) <= Len(source.acked)
    BY <1>3, PendingOf, StoreParts DEF Good
  <2> QED BY <1>1, <2>1, StoreParts DEF Known, Good
<1> QED BY <1>2, <1>3 DEF Behind

\* A mirror that follows the snapshot follows the live store.
LEMMA FollowsLive ==
  ASSUME Good(source), Good(sourceCopy), Starts(sourceCopy.log, source.log), Behind,
         NEW k \in Sink, Follows(k, sourceCopy), Len(source.acked) <= Len(k.last)
  PROVE  Follows(k, source)
<1>1. k.last \in Seq(Bodies) /\ Len(k.last) \in Nat
  BY DEF Sink
<1>2. \A i \in 1..Len(k.last) : i \in DOMAIN sourceCopy.log /\ i \in DOMAIN source.log /\ sourceCopy.log[i] = source.log[i]
  BY <1>1, StoreParts DEF Follows, CursorHolds, Starts, Good
<1>3. CursorHolds(k, source)
  <2>1. Len(k.last) <= Len(source.log)
    BY <1>1, StoreParts DEF Follows, CursorHolds, Starts, Good
  <2>2. k.last # <<>> => Len(k.last) \in 1..Len(k.last)
    BY <1>1
  <2> QED BY <1>2, <2>1, <2>2 DEF Follows, CursorHolds
<1>4. InStep(k, source)
  <2>1. CASE source.acked = sourceCopy.acked /\ sourceCopy.pending \in {<<>>, source.pending}
    BY <2>1 DEF Follows, InStep
  <2>2. CASE sourceCopy.pending # <<>> /\ source.acked = Digest(sourceCopy.pending)
    <3>1. Len(sourceCopy.acked) < Len(source.acked)
      BY <2>2, PendingOf, StoreParts DEF Good
    <3>2. k.last # sourceCopy.acked
      BY <1>1, <3>1, StoreParts DEF Good
    <3> QED BY <2>2, <3>2 DEF Follows, InStep
  <2> QED BY <2>1, <2>2 DEF Behind
<1>5. OnlyBatches(k, source)
  <2>1. \A i \in DOMAIN sourceCopy.log : i \in DOMAIN source.log /\ sourceCopy.log[i] = source.log[i]
    BY StoreParts DEF Starts, Good
  <2> QED BY <2>1 DEF Follows, OnlyBatches, Range
<1> QED BY <1>3, <1>4, <1>5 DEF Follows
-----------------------------------------------------------------------------
(* The receiver takes a batch. *)

\* The receipts a batch adds, in their order.
LEMMA PickedPlaces ==
  ASSUME NEW b \in Batch, NEW S \in SUBSET DOMAIN b, NEW f \in Places(S)
  PROVE  /\ Cardinality(S) \in Nat /\ DOMAIN Picked(b, f) = 1..Cardinality(S)
         /\ Picked(b, f) \in Seq(Origin) /\ Len(Picked(b, f)) = Cardinality(S)
         /\ \A i \in 1..Cardinality(S) : f[i] \in S /\ Picked(b, f)[i] = b[f[i]]
         /\ \A i, j \in 1..Cardinality(S) : f[i] = f[j] => i = j
         /\ \A x \in S : \E i \in 1..Cardinality(S) : f[i] = x
<1>1. Cardinality(S) \in Nat
  <2>1. IsFiniteSet(DOMAIN b)
    BY FS_Interval DEF Batch
  <2> QED BY <2>1, FS_Subset, FS_CardinalityType
<1>2. f \in [1..Cardinality(S) -> S] /\ Range(f) = S /\ \A i, j \in DOMAIN f : i < j => f[i] < f[j]
  BY DEF Places
<1>3. \A i, j \in 1..Cardinality(S) : f[i] = f[j] => i = j
  <2>1. \A i \in 1..Cardinality(S) : f[i] \in Nat
    BY <1>2 DEF Batch
  <2> QED BY <1>1, <1>2, <2>1
<1>4. \A x \in S : \E i \in 1..Cardinality(S) : f[i] = x
  BY <1>2 DEF Range
<1>5. \A i \in 1..Cardinality(S) : f[i] \in S /\ Picked(b, f)[i] = b[f[i]] /\ b[f[i]] \in Origin
  BY <1>2 DEF Picked, Batch
<1>6. Picked(b, f) \in [1..Cardinality(S) -> Origin]
  BY <1>2, <1>5 DEF Picked
<1>7. Picked(b, f) \in Seq(Origin) /\ Len(Picked(b, f)) = Cardinality(S)
  BY <1>1, <1>6, SeqDef
<1> QED BY <1>1, <1>3, <1>4, <1>5, <1>6, <1>7

LEMMA JoinedAt ==
  ASSUME NEW s \in Seq(Origin), NEW t \in Seq(Origin)
  PROVE  /\ s \o t \in Seq(Origin) /\ Len(s \o t) = Len(s) + Len(t)
         /\ \A i \in 1..Len(s) : (s \o t)[i] = s[i]
         /\ \A i \in 1..Len(t) : (s \o t)[Len(s) + i] = t[i]
<1>1. s \o t \in Seq(Origin) /\ Len(s \o t) = Len(s) + Len(t)
  OBVIOUS
<1>2. \A i \in 1..Len(s) : (s \o t)[i] = s[i]
  OBVIOUS
<1>3. ASSUME NEW i \in 1..Len(t) PROVE (s \o t)[Len(s) + i] = t[i]
  OBVIOUS
<1> QED BY <1>1, <1>2, <1>3

\* A batch that is accepted: the cursor is at its end, its receipts are held,
\* and no digest stands twice.
LEMMA AcceptedHolds ==
  ASSUME NEW k \in Sink, NEW log \in Seq(Origin), Chain(log), NEW b \in Batch, Segment(b, log),
         k.batch # b, \A i \in DOMAIN b : ~Conflicts(k, b[i]), Once(k), NEW m \in Accepted(k, b)
  PROVE  /\ m \in Sink /\ m.last = Digest(b) /\ m.batch = b
         /\ Mirrored(m) = Mirrored(k) \cup Range(b) /\ Once(m)
<1>1. PICK f \in Places(Missing(k, b)) : m = [mirror |-> k.mirror \o Picked(b, f), last |-> Digest(b), batch |-> b]
  BY DEF Accepted
<1> DEFINE S == Missing(k, b)
           n == Cardinality(S)
           p == Picked(b, f)
<1>2. S \in SUBSET DOMAIN b
  BY DEF Missing
<1>3. /\ n \in Nat /\ p \in Seq(Origin) /\ Len(p) = n /\ DOMAIN p = 1..n
      /\ \A i \in 1..n : f[i] \in S /\ p[i] = b[f[i]]
      /\ \A i, j \in 1..n : f[i] = f[j] => i = j
      /\ \A x \in S : \E i \in 1..n : f[i] = x
  BY <1>2, PickedPlaces
<1> HIDE DEF n, p, S
<1>4. k.mirror \in Seq(Origin) /\ b \in Seq(Origin)
  BY DEF Sink, Batch
<1>5. m.mirror = k.mirror \o p /\ m.last = Digest(b) /\ m.batch = b
  BY <1>1 DEF p
<1>6. /\ m.mirror \in Seq(Origin) /\ Len(m.mirror) = Len(k.mirror) + n
      /\ \A i \in 1..Len(k.mirror) : m.mirror[i] = k.mirror[i]
      /\ \A i \in 1..n : m.mirror[Len(k.mirror) + i] = p[i]
  <2>1. k.mirror \o p = m.mirror
    BY <1>5
  <2>2. k.mirror \in Seq(Origin) /\ p \in Seq(Origin)
    BY <1>3, <1>4
  <2>3. /\ k.mirror \o p \in Seq(Origin) /\ Len(k.mirror \o p) = Len(k.mirror) + Len(p)
        /\ \A i \in 1..Len(k.mirror) : (k.mirror \o p)[i] = k.mirror[i]
        /\ \A i \in 1..Len(p) : (k.mirror \o p)[Len(k.mirror) + i] = p[i]
    BY <2>2, JoinedAt
  <2>4. Len(p) = n
    BY <1>3
  <2> QED BY <2>1, <2>3, <2>4
<1>7. m \in Sink
  <2>1. Digest(b) \in Seq(Bodies)
    BY <1>4, DigestType
  <2>2. k.mirror \o p \in Seq(Origin)
    BY <1>5, <1>6
  <2> QED BY <1>1, <2>1, <2>2 DEF Sink, p
<1>8. Mirrored(m) = Mirrored(k) \cup Range(b)
  <2>1. Mirrored(m) = Mirrored(k) \cup Range(p)
    BY <1>3, <1>4, <1>5, RangeConcatenation DEF Mirrored
  <2>2. Range(p) \subseteq Range(b)
    BY <1>2, <1>3 DEF Range
  <2>3. ASSUME NEW i \in DOMAIN b PROVE b[i] \in Mirrored(k) \cup Range(p)
    <3>1. CASE i \in S
      BY <1>3, <3>1 DEF Range
    <3>2. CASE i \notin S
      BY <3>2 DEF S, Missing, Held
    <3> QED BY <3>1, <3>2
  <2> QED BY <2>1, <2>2, <2>3 DEF Range
<1>9. Once(m)
  <2>1. \A i \in 1..n : f[i] \in DOMAIN b /\ p[i] \in Range(b)
    BY <1>2, <1>3 DEF Range
  <2>2. ASSUME NEW i \in 1..Len(k.mirror), NEW j \in 1..n PROVE k.mirror[i].digest # p[j].digest
    <3>1. k.mirror[i] \in Mirrored(k)
      BY <1>4 DEF Mirrored, Range
    <3>2. ~Conflicts(k, p[j]) /\ ~Held(k, p[j])
      BY <1>3, <2>1 DEF S, Missing
    <3> QED BY <3>1, <3>2 DEF Conflicts, Held
  <2>3. ASSUME NEW i \in 1..n, NEW j \in 1..n, p[i].digest = p[j].digest PROVE i = j
    <3>1. /\ b[f[i]] = log[First(b) + f[i] - 1] /\ First(b) + f[i] - 1 \in DOMAIN log
          /\ b[f[j]] = log[First(b) + f[j] - 1] /\ First(b) + f[j] - 1 \in DOMAIN log
      BY <2>1, SegmentEnds
    <3>2. First(b) + f[i] - 1 = First(b) + f[j] - 1
      <4>1. log[First(b) + f[i] - 1].digest = log[First(b) + f[j] - 1].digest
        BY <1>3, <2>3, <3>1
      <4> QED BY <3>1, <4>1, ChainLinks
    <3>3. f[i] \in Nat /\ f[j] \in Nat /\ First(b) \in Nat
      <4>1. First(b) \in Nat
        BY SegmentEnds
      <4>2. f[i] \in DOMAIN b /\ f[j] \in DOMAIN b /\ DOMAIN b = 1..Len(b)
        BY <1>4, <2>1
      <4> QED BY <4>1, <4>2
    <3> QED BY <1>3, <3>2, <3>3
  <2>4. \A i, j \in 1..Len(k.mirror) : k.mirror[i].digest = k.mirror[j].digest => i = j
    BY <1>4 DEF Once
  <2>5. ASSUME NEW i \in DOMAIN m.mirror, NEW j \in DOMAIN m.mirror, m.mirror[i].digest = m.mirror[j].digest PROVE i = j
    <3>1. \A x \in DOMAIN m.mirror : x \in 1..Len(k.mirror) \/ (x - Len(k.mirror) \in 1..n /\ x = Len(k.mirror) + (x - Len(k.mirror)))
      <4>1. DOMAIN m.mirror = 1..(Len(k.mirror) + n) /\ Len(k.mirror) \in Nat
        BY <1>4, <1>6
      <4> QED BY <1>3, <4>1
    <3>2. CASE i \in 1..Len(k.mirror) /\ j \in 1..Len(k.mirror)
      BY <1>6, <2>4, <2>5, <3>2
    <3>3. CASE i \in 1..Len(k.mirror) /\ j \notin 1..Len(k.mirror)
      <4>1. j - Len(k.mirror) \in 1..n /\ m.mirror[j] = p[j - Len(k.mirror)] /\ m.mirror[i] = k.mirror[i]
        BY <1>6, <3>1, <3>3
      <4> QED BY <2>2, <2>5, <3>3, <4>1
    <3>4. CASE i \notin 1..Len(k.mirror) /\ j \in 1..Len(k.mirror)
      <4>1. i - Len(k.mirror) \in 1..n /\ m.mirror[i] = p[i - Len(k.mirror)] /\ m.mirror[j] = k.mirror[j]
        BY <1>6, <3>1, <3>4
      <4> QED BY <2>2, <2>5, <3>4, <4>1
    <3>5. CASE i \notin 1..Len(k.mirror) /\ j \notin 1..Len(k.mirror)
      <4>1. m.mirror[i] = p[i - Len(k.mirror)] /\ m.mirror[j] = p[j - Len(k.mirror)]
        BY <1>6, <3>1, <3>5
      <4> QED BY <2>3, <2>5, <3>1, <3>5, <4>1
    <3> QED BY <3>2, <3>3, <3>4, <3>5
  <2> QED BY <2>5 DEF Once
<1> QED BY <1>5, <1>7, <1>8, <1>9

\* A receiver that follows a sender still does when it accepts a request.
LEMMA AcceptFollows ==
  ASSUME NEW s, Good(s), NEW k \in Sink, Follows(k, s), NEW b \in Batch, Known(b, s),
         Acceptable(k, b), NEW m \in Accepted(k, b)
  PROVE  /\ m \in Sink /\ Follows(m, s) /\ Len(k.last) <= Len(m.last)
         /\ m.last = Digest(b) /\ m.batch = b /\ \A i \in DOMAIN b : Held(m, b[i])
<1>1. CASE k.batch = b
  <2>1. m = k /\ k.last \in Seq(Bodies)
    BY <1>1 DEF Accepted, Sink
  <2>2. \A i \in DOMAIN b : Held(k, b[i])
    BY <1>1 DEF Acceptable, Replays, Continues
  <2>3. k.last = Digest(b)
    BY <1>1 DEF Follows, CursorHolds
  <2> QED BY <1>1, <2>1, <2>2, <2>3
<1>2. CASE k.batch # b
  <2> DEFINE log == s.log
  <2>1. log \in Seq(Origin) /\ Chain(log) /\ Segment(b, log) /\ k.last \in Seq(Bodies) /\ Len(k.last) \in Nat
        /\ Len(s.acked) \in Nat
    BY StoreParts DEF Good, Known, Sink
  <2> HIDE DEF log
  <2>2. Prev(b[1]) = k.last /\ \A i \in DOMAIN b : ~Conflicts(k, b[i])
    BY <1>2 DEF Acceptable, Replays, Continues
  <2>3. m \in Sink /\ m.last = Digest(b) /\ m.batch = b /\ Mirrored(m) = Mirrored(k) \cup Range(b) /\ Once(m)
    BY <1>2, <2>1, <2>2, AcceptedHolds DEF Follows
  <2>4. /\ First(b) \in 1..End(b) /\ End(b) \in 1..Len(log) /\ Len(Digest(b)) = End(b)
        /\ Digest(b) = log[End(b)].digest /\ Digest(b) # <<>> /\ Prev(b[1]) = Prev(log[First(b)])
        /\ \A i \in DOMAIN b : First(b) + i - 1 \in DOMAIN log /\ b[i] = log[First(b) + i - 1]
        /\ \A i \in First(b)..End(b) : log[i] = b[i - First(b) + 1] /\ i - First(b) + 1 \in DOMAIN b
    BY <2>1, SegmentEnds DEF End
  <2>5. Len(k.last) = First(b) - 1
    <3>1. First(b) \in DOMAIN log
      BY <2>1, <2>4
    <3> QED BY <2>1, <2>2, <2>4, <3>1, ChainLinks
  <2>6. CursorHolds(m, s)
    <3>1. ASSUME NEW i \in 1..End(b) PROVE log[i] \in Mirrored(m)
      <4>1. CASE i < First(b)
        <5>1. i \in 1..Len(k.last)
          BY <2>4, <2>5, <4>1
        <5> QED BY <2>3, <5>1 DEF Follows, CursorHolds, log
      <4>2. CASE i >= First(b)
        <5>1. i \in First(b)..End(b)
          BY <2>4, <4>2
        <5> QED BY <2>3, <2>4, <5>1 DEF Range
      <4> QED BY <2>4, <4>1, <4>2
    <3>2. Len(m.last) = End(b) /\ End(b) <= Len(s.log)
      BY <2>3, <2>4 DEF log
    <3>3. m.last = s.log[Len(m.last)].digest
      BY <2>3, <2>4, <3>2 DEF log
    <3> QED BY <2>3, <3>1, <3>2, <3>3 DEF CursorHolds, log
  <2>7. b = s.pending /\ b # <<>>
    <3>1. CASE k.last = s.acked
      BY <2>1, <2>4, <2>5, <3>1 DEF Known, Segment
    <3>2. CASE s.pending # <<>> /\ k.batch = s.pending /\ k.last = Digest(s.pending)
      BY <1>2, <2>1, <2>4, <2>5, <3>2, PendingOf DEF Known
    <3> QED BY <3>1, <3>2 DEF Follows, InStep
  <2>8. OnlyBatches(m, s)
    <3>1. Range(b) \subseteq Range(s.log)
      BY <2>4 DEF Range, log
    <3> QED BY <2>3, <3>1 DEF Follows, OnlyBatches
  <2>9. \A i \in DOMAIN b : Held(m, b[i])
    BY <2>3 DEF Held, Range
  <2>10. InStep(m, s)
    BY <2>3, <2>7 DEF InStep
  <2>11. Len(k.last) <= Len(m.last)
    BY <2>3, <2>4, <2>5
  <2> QED BY <2>3, <2>6, <2>8, <2>9, <2>10, <2>11 DEF Follows
<1> QED BY <1>1, <1>2

\* Without single posts a receiver that follows a sender accepts what is next.
LEMMA NextIsAcceptable ==
  ASSUME NEW s, Good(s), NEW k \in Sink, Follows(k, s), ~DirectPosts
  PROVE  IF s.pending # <<>> THEN Acceptable(k, s.pending) ELSE s.acked = k.last
<1> DEFINE log == s.log
           b == s.pending
<1>1. log \in Seq(Origin) /\ Chain(log) /\ b \in Batch /\ k.last \in Seq(Bodies) /\ Len(k.last) \in Nat
      /\ Len(s.acked) \in Nat
  BY StoreParts DEF Good, Sink
<1>2. CASE b = <<>>
  BY <1>2 DEF Follows, InStep
<1>3. CASE b # <<>>
  <2>1. /\ Segment(b, log) /\ First(b) = Len(s.acked) + 1 /\ First(b) <= End(b)
        /\ Len(Digest(b)) = End(b) /\ End(b) \in Nat /\ Prev(b[1]) = s.acked
    BY <1>3, PendingOf
  <2>2. CursorHeld(k)
    <3>1. CASE k.last # <<>>
      <4>1. Len(k.last) \in 1..Len(k.last)
        BY <1>1, <3>1
      <4>2. log[Len(k.last)] \in Mirrored(k) /\ log[Len(k.last)].digest = k.last
        BY <3>1, <4>1 DEF Follows, CursorHolds
      <4> QED BY <4>2 DEF CursorHeld
    <3> QED BY <3>1 DEF CursorHeld
  <2> HIDE DEF log, b
  <2>3. \A i \in DOMAIN b : First(b) + i - 1 \in DOMAIN log /\ b[i] = log[First(b) + i - 1]
    BY <1>1, <2>1, SegmentEnds
  <2>4. CASE k.last = s.acked
    <3>1. k.batch # b
      <4>1. Len(k.last) # End(b)
        BY <1>1, <2>1, <2>4
      <4>2. k.last # Digest(b)
        BY <2>1, <4>1
      <4> QED BY <4>2 DEF Follows, CursorHolds
    <3>2. ASSUME NEW i \in DOMAIN b, NEW e \in Mirrored(k), e.digest = b[i].digest PROVE e = b[i]
      <4>1. PICK j \in DOMAIN log : e = log[j]
        BY DEF Follows, OnlyBatches, Range, log
      <4> QED BY <1>1, <2>3, <3>2, <4>1, ChainLinks
    <3> QED BY <1>3, <2>1, <2>2, <2>4, <3>1, <3>2 DEF Acceptable, Continues, Conflicts, b
  <2>5. CASE k.batch = b /\ k.last = Digest(b)
    <3>1. \A i \in DOMAIN b : First(b) + i - 1 \in 1..End(b)
      <4>1. DOMAIN b = 1..Len(b) /\ Len(b) = End(b) - First(b) + 1 /\ Len(b) \in Nat
        BY <1>1, <2>1 DEF Batch, Segment
      <4> QED BY <1>1, <2>1, <4>1
    <3>2. \A i \in DOMAIN b : Held(k, b[i])
      BY <2>1, <2>3, <2>5, <3>1 DEF Held, Follows, CursorHolds, log
    <3> QED BY <1>3, <2>2, <2>5, <3>2 DEF Acceptable, Replays, b
  <2> QED BY <1>3, <2>4, <2>5 DEF Follows, InStep, b
<1> QED BY <1>2, <1>3

\* The copy a mirror has of the log it follows.
LEMMA CopiedIs ==
  ASSUME NEW s, Good(s), NEW k \in Sink, Follows(k, s)
  PROVE  /\ Copied(k) \in Seq(Origin) /\ Len(Copied(k)) = Len(k.last) /\ DOMAIN Copied(k) = 1..Len(k.last)
         /\ Len(k.last) <= Len(s.log) /\ Len(k.last) \in Nat
         /\ \A i \in 1..Len(k.last) : i \in DOMAIN s.log /\ Copied(k)[i] = s.log[i]
         /\ \A i \in 1..Len(k.last) : \E o \in Mirrored(k) : o.digest = SubSeq(k.last, 1, i)
<1> DEFINE n == Len(k.last)
           log == s.log
<1>1. log \in Seq(Origin) /\ Chain(log) /\ k.last \in Seq(Bodies) /\ n \in Nat /\ n <= Len(log)
  BY StoreParts DEF Good, Sink, Follows, CursorHolds
<1>2. ASSUME NEW i \in 1..n
      PROVE  /\ i \in DOMAIN log /\ log[i] \in Mirrored(k) /\ log[i].digest = SubSeq(k.last, 1, i)
             /\ \A e \in Mirrored(k) : e.digest = SubSeq(k.last, 1, i) => e = log[i]
  <2>1. n \in DOMAIN log /\ i \in DOMAIN log /\ k.last # <<>>
    BY <1>1
  <2>2. log[i] \in Mirrored(k) /\ k.last = log[n].digest
    BY <2>1 DEF Follows, CursorHolds
  <2>3. log[i].digest = SubSeq(k.last, 1, i)
    BY <1>1, <2>1, <2>2 DEF Chain
  <2>4. ASSUME NEW e \in Mirrored(k), e.digest = SubSeq(k.last, 1, i) PROVE e = log[i]
    BY <2>2, <2>3, <2>4 DEF Follows, Once, Mirrored, Range
  <2> QED BY <2>1, <2>2, <2>3, <2>4
<1>3. ASSUME NEW i \in 1..n PROVE (CHOOSE o \in Mirrored(k) : o.digest = SubSeq(k.last, 1, i)) = log[i]
  BY <1>2
<1>4. Copied(k) = [i \in 1..n |-> log[i]]
  BY <1>3 DEF Copied
<1>5. \A i \in 1..n : log[i] \in Origin
  BY <1>1, <1>2
<1> HIDE DEF n, log
<1>6. Copied(k) \in [1..n -> Origin] /\ \A i \in 1..n : Copied(k)[i] = log[i]
  BY <1>4, <1>5
<1>7. Copied(k) \in Seq(Origin) /\ Len(Copied(k)) = n /\ DOMAIN Copied(k) = 1..n
  BY <1>1, <1>6, SeqDef
<1>8. \A i \in 1..n : \E o \in Mirrored(k) : o.digest = SubSeq(k.last, 1, i)
  BY <1>2
<1> QED BY <1>1, <1>2, <1>6, <1>7, <1>8 DEF n, log

-----------------------------------------------------------------------------
(* The invariant holds at the start and is kept. *)

LEMMA InitHolds == Init => IInv
<1> SUFFICES ASSUME Init PROVE IInv
  OBVIOUS
<1> USE DEF Init
<1>1. TypeOK
  BY DEF TypeOK, Source, Sink, Batch
<1>2. OutboxAgrees
  BY DEF OutboxAgrees, Agrees, Digest
<1>3. LogsChain /\ Behind /\ BatchPends /\ RequestsKnown
  BY DEF LogsChain, Chain, Starts, Behind, BatchPends, RequestsKnown
<1>4. MirrorsFollow
  BY DEF MirrorsFollow, Follows, CursorHolds, InStep, Once, OnlyBatches, Mirrored, Range, Digest
<1>5. Secured
  BY DEF Secured
<1> QED BY <1>1, <1>2, <1>3, <1>4, <1>5 DEF IInv

\* A batch that is cut from a log, all of it fit, may be pending.
LEMMA PieceAgrees ==
  ASSUME NEW log \in Seq(Origin), NEW acked \in Seq(Bodies), NEW pending \in Seq(Origin),
         AgreesAt(log, acked, pending), NEW m \in Nat \ {0}, Len(acked) + m <= Len(log),
         \A i \in 1..m : Fit(log[Len(acked) + i]),
         NEW b, b = SubSeq(log, Len(acked) + 1, Len(acked) + m)
  PROVE  b \in Seq(Origin) /\ b # <<>> /\ AgreesAt(log, acked, b)
<1>1. b \in Seq(Origin) /\ Len(b) = m /\ \A i \in 1..m : b[i] = log[Len(acked) + i]
  <2>1. \A i \in (Len(acked) + 1)..(Len(acked) + m) : log[i] \in Origin
    OBVIOUS
  <2> QED BY <2>1, SubSeqProperties
<1>2. ASSUME NEW i \in Len(acked)..(Len(acked) + m), i # 0 PROVE Fit(log[i])
  <2>1. CASE i = Len(acked)
    BY <1>2, <2>1 DEF AgreesAt
  <2>2. CASE i # Len(acked)
    <3>1. i - Len(acked) \in 1..m /\ Len(acked) + (i - Len(acked)) = i
      BY <2>2
    <3> QED BY <3>1
  <2> QED BY <2>1, <2>2
<1>3. DOMAIN b = 1..m /\ b # <<>>
  BY <1>1, LenProperties, EmptySeq
<1> QED BY <1>1, <1>2, <1>3 DEF AgreesAt

LEMMA CutFits ==
  ASSUME NEW s \in Source, Agrees(s), NEW b \in NextBatches(s)
  PROVE  b \in Batch /\ b # <<>> /\ Agrees([s EXCEPT !.pending = b])
<1>1. s.log \in Seq(Origin) /\ s.acked \in Seq(Bodies) /\ s.pending \in Seq(Origin)
      /\ Len(s.acked) \in Nat /\ Len(s.log) \in Nat
  BY StoreParts
<1>2. AgreesAt(s.log, s.acked, s.pending)
  BY AgreesByPlace
<1>3. Window(s) \in Int /\ Window(s) <= Len(s.log) - Len(s.acked)
  <2>1. \A x, y, z \in Nat : LET w == IF x - y < z THEN x - y ELSE z IN w \in Int /\ w <= x - y
    OBVIOUS
  <2>2. Limit \in Nat
    BY DeliveryAssumption
  <2> QED BY <1>1, <2>1, <2>2, Zenon DEF Window
<1>4. PICK m \in 1..Window(s) : b = Cut(s, m) /\ \A i \in 1..(IF m < Window(s) THEN m + 1 ELSE m) : Fit(s.log[Len(s.acked) + i])
  BY DEF NextBatches
<1>5. m \in Nat \ {0} /\ Len(s.acked) + m <= Len(s.log) /\ \A i \in 1..m : Fit(s.log[Len(s.acked) + i])
  <2>1. m \in Nat \ {0} /\ m <= Window(s)
    BY <1>3
  <2>2. \A i \in 1..m : i \in 1..(IF m < Window(s) THEN m + 1 ELSE m)
    BY <1>3
  <2>3. Len(s.acked) + m <= Len(s.log)
    <3>1. \A x, y \in Nat, w \in Int : m \in Nat /\ m <= w /\ w <= x - y => y + m <= x
      BY <2>1
    <3> QED BY <1>1, <1>3, <2>1, <3>1, Zenon
  <2> QED BY <1>4, <2>1, <2>2, <2>3
<1>6. b = SubSeq(s.log, Len(s.acked) + 1, Len(s.acked) + m)
  BY <1>4 DEF Cut
<1>7. b \in Seq(Origin) /\ b # <<>> /\ AgreesAt(s.log, s.acked, b)
  BY <1>1, <1>2, <1>5, <1>6, PieceAgrees
<1> DEFINE r == [s EXCEPT !.pending = b]
<1>8. r \in Source /\ r.log = s.log /\ r.acked = s.acked /\ r.pending = b
  BY <1>7 DEF Source, Batch
<1> HIDE DEF r
<1>9. Agrees(r)
  BY <1>7, <1>8, AgreesByPlace
<1> QED BY <1>7, <1>9 DEF Batch, r

\* An acknowledged batch becomes the end of the acknowledged part.
LEMMA PartAgrees ==
  ASSUME NEW log \in Seq(Origin), NEW acked \in Seq(Bodies), NEW pending \in Seq(Origin),
         AgreesAt(log, acked, pending), Chain(log), pending # <<>>
  PROVE  Digest(pending) \in Seq(Bodies) /\ AgreesAt(log, Digest(pending), <<>>)
<1> DEFINE d == Digest(pending)
<1>1. Segment(pending, log) /\ d \in Seq(Bodies) /\ Len(d) = Len(acked) + Len(pending)
  BY PendingSegment, DigestType DEF End
<1>2. d = log[Len(d)].digest
  BY <1>1, SegmentEnds DEF End, Batch
<1> HIDE DEF d
<1>3. Len(d) \in Nat /\ Len(d) <= Len(log) /\ Len(d) \in (Len(acked)..(Len(acked) + Len(pending))) \ {0}
  <2>1. Len(acked) \in Nat /\ Len(pending) \in Nat \ {0} /\ Len(acked) + Len(pending) <= Len(log)
    BY DEF AgreesAt
  <2> QED BY <1>1, <2>1
<1>4. Fit(log[Len(d)])
  BY <1>3 DEF AgreesAt
<1>5. \A i \in (Len(d)..(Len(d) + 0)) \ {0} : i = Len(d)
  BY <1>3
<1>6. Len(<<>>) = 0 /\ DOMAIN <<>> = {}
  OBVIOUS
<1>7. AgreesAt(log, d, <<>>)
  BY <1>2, <1>3, <1>4, <1>5, <1>6 DEF AgreesAt
<1> QED BY <1>1, <1>7 DEF d

LEMMA AckAgrees ==
  ASSUME NEW s \in Source, Agrees(s), Chain(s.log), s.pending # <<>>
  PROVE  /\ [s EXCEPT !.acked = Digest(s.pending), !.pending = <<>>] \in Source
         /\ Agrees([s EXCEPT !.acked = Digest(s.pending), !.pending = <<>>])
<1> DEFINE d == Digest(s.pending)
           r == [s EXCEPT !.acked = d, !.pending = <<>>]
<1>1. Digest(s.pending) \in Seq(Bodies) /\ AgreesAt(s.log, Digest(s.pending), <<>>)
  BY StoreParts, AgreesByPlace, PartAgrees
<1> HIDE DEF d
<1>2. r \in Source /\ r.log = s.log /\ r.acked = d /\ r.pending = <<>>
  <2>1. d \in Seq(Bodies)
    BY <1>1 DEF d
  <2>2. <<>> \in Seq(Origin)
    OBVIOUS
  <2> QED BY <2>1, <2>2 DEF Source, Batch
<1> HIDE DEF r
<1>3. Agrees(r)
  BY <1>1, <1>2, AgreesByPlace DEF d
<1> QED BY <1>2, <1>3 DEF r, d

\* A new receipt extends the log.
LEMMA ReceiptExtends ==
  ASSUME NEW log \in Seq(Origin), Chain(log), NEW b \in Bodies, NEW t \in Nat,
         NEW o, o = [digest |-> Append(Digest(log), b), ts |-> t]
  PROVE  o \in Origin /\ Append(log, o) \in Seq(Origin) /\ Chain(Append(log, o)) /\ Starts(log, Append(log, o))
<1> DEFINE more == Append(log, o)
           n == Len(log)
<1>1. Digest(log) \in Seq(Bodies) /\ Len(Digest(log)) = n /\ (n # 0 => Digest(log) = log[n].digest)
  <2>1. CASE log = <<>>
    BY <2>1 DEF Digest
  <2>2. CASE log # <<>>
    <3>1. n \in DOMAIN log /\ Digest(log) = log[n].digest /\ Digest(log) \in Seq(Bodies)
      BY <2>2, DigestType
    <3> QED BY <3>1, ChainLinks
  <2> QED BY <2>1, <2>2
<1>2. o \in Origin /\ Len(o.digest) = n + 1
  BY <1>1 DEF Origin
<1>3. more \in Seq(Origin) /\ Len(more) = n + 1 /\ more[n + 1] = o /\ \A i \in 1..n : more[i] = log[i]
  BY <1>2
<1>4. \A j \in 1..n : SubSeq(o.digest, 1, j) = SubSeq(Digest(log), 1, j)
  <2> DEFINE d == Digest(log)
  <2>1. d \in Seq(Bodies) /\ Len(d) = n
    BY <1>1
  <2> HIDE DEF d
  <2>2. \A j \in 1..n : SubSeq(Append(d, b), 1, j) = SubSeq(d, 1, j)
    BY <2>1
  <2> QED BY <2>2 DEF d
<1>5. SubSeq(o.digest, 1, n + 1) = o.digest
  BY <1>2, SubSeqFull DEF Origin
<1> HIDE DEF more
<1>6. \A i \in 1..n : Len(log[i].digest) = i /\ \A j \in 1..i : log[j].digest = SubSeq(log[i].digest, 1, j)
  BY DEF Chain
<1>7. ASSUME NEW i \in 1..n PROVE Len(more[i].digest) = i /\ \A j \in 1..i : more[j].digest = SubSeq(more[i].digest, 1, j)
  <2>1. \A j \in 1..i : j \in 1..n /\ more[j] = log[j]
    BY <1>3
  <2>2. more[i] = log[i]
    BY <1>3
  <2> QED BY <1>6, <2>1, <2>2
<1>8. \A j \in 1..n : more[j].digest = SubSeq(o.digest, 1, j)
  <2>1. CASE n = 0
    BY <2>1
  <2>2. CASE n # 0
    <3>1. n \in 1..n
      BY <2>2
    <3> QED BY <1>1, <1>3, <1>4, <1>6, <2>2, <3>1
  <2> QED BY <2>1, <2>2
<1>9. Chain(more)
  <2>1. DOMAIN more = 1..(n + 1)
    BY <1>3
  <2>2. ASSUME NEW i \in 1..(n + 1)
        PROVE  Len(more[i].digest) = i /\ \A j \in 1..i : more[j].digest = SubSeq(more[i].digest, 1, j)
    <3>1. CASE i \in 1..n
      BY <1>7, <3>1
    <3>2. CASE i = n + 1
      <4>1. \A j \in 1..(n + 1) : j \in 1..n \/ j = n + 1
        OBVIOUS
      <4> QED BY <1>2, <1>3, <1>5, <1>8, <3>2, <4>1
    <3> QED BY <3>1, <3>2
  <2> QED BY <2>1, <2>2 DEF Chain
<1> QED BY <1>2, <1>3, <1>9 DEF Starts, more

\* The acknowledged and the pending part stay where they are in a longer log.
LEMMA LongerAgrees ==
  ASSUME NEW log \in Seq(Origin), NEW more \in Seq(Origin), Starts(log, more),
         NEW acked \in Seq(Bodies), NEW pending \in Seq(Origin), AgreesAt(log, acked, pending)
  PROVE  AgreesAt(more, acked, pending)
<1>1. Len(acked) \in Nat /\ Len(pending) \in Nat /\ Len(acked) + Len(pending) <= Len(log) /\ Len(log) <= Len(more)
  BY DEF AgreesAt, Starts
<1>2. \A i \in 1..Len(log) : log[i] = more[i]
  BY DEF Starts
<1>3. acked # <<>> => Len(acked) \in 1..Len(log)
  BY <1>1
<1>4. \A i \in DOMAIN pending : Len(acked) + i \in 1..Len(log)
  <2>1. DOMAIN pending = 1..Len(pending)
    OBVIOUS
  <2> QED BY <1>1, <2>1
<1>5. \A i \in (Len(acked)..(Len(acked) + Len(pending))) \ {0} : i \in 1..Len(log)
  BY <1>1
<1>6. Len(acked) + Len(pending) <= Len(more)
  BY <1>1
<1> QED BY <1>2, <1>3, <1>4, <1>5, <1>6 DEF AgreesAt

LEMMA StoresGood ==
  ASSUME TypeOK, OutboxAgrees, LogsChain
  PROVE  Good(source) /\ Good(sourceCopy) /\ Starts(sourceCopy.log, source.log)
BY AgreesByPlace DEF TypeOK, OutboxAgrees, LogsChain, Good

\* A receiver that follows a sender has all the sender has acknowledged.
LEMMA FollowsAcked ==
  ASSUME NEW s, Good(s), NEW k \in Sink, Follows(k, s)
  PROVE  Len(s.acked) <= Len(k.last)
<1>1. Len(s.acked) \in Nat
  BY StoreParts DEF Good
<1>2. CASE k.last = s.acked
  BY <1>1, <1>2
<1>3. CASE s.pending # <<>> /\ k.last = Digest(s.pending)
  <2>1. Len(k.last) = End(s.pending) /\ End(s.pending) \in Nat /\ Len(s.acked) + 1 <= End(s.pending)
    BY <1>3, PendingOf
  <2> QED BY <1>1, <2>1
<1> QED BY <1>2, <1>3 DEF Follows, InStep

\* The stores when a snapshot of the sender is published, or not.
LEMMA Published ==
  ASSUME IInv, UNCHANGED <<source, sink, sinkCopy>>, sourceCopy' \in {sourceCopy, source}
  PROVE  /\ OutboxAgrees' /\ LogsChain' /\ Behind' /\ MirrorsFollow'
         /\ \A b \in Batch : Known(b, sourceCopy) => Known(b, sourceCopy')
<1>1. CASE sourceCopy' = sourceCopy
  BY <1>1 DEF IInv, OutboxAgrees, LogsChain, Behind, MirrorsFollow
<1>2. CASE sourceCopy' = source
  <2>1. Good(source) /\ Good(sourceCopy) /\ Starts(sourceCopy.log, source.log) /\ sink \in Sink /\ sinkCopy \in Sink
    BY StoresGood DEF IInv, TypeOK
  <2>2. OutboxAgrees' /\ Behind'
    BY <1>2 DEF IInv, OutboxAgrees, Behind
  <2>3. Starts(source.log, source.log)
    BY <2>1, StoreParts DEF Starts, Good
  <2>4. LogsChain'
    BY <1>2, <2>3 DEF IInv, LogsChain
  <2>5. Len(source.acked) <= Len(sinkCopy.last) /\ Len(source.acked) <= Len(sink.last)
    <3>1. Len(source.acked) \in Nat /\ Len(sinkCopy.last) \in Nat /\ Len(sink.last) \in Nat
      BY <2>1, StoreParts DEF Good, Sink
    <3> QED BY <3>1 DEF IInv, Secured, MirrorsFollow
  <2>6. MirrorsFollow'
    BY <1>2, <2>1, <2>5, FollowsLive DEF IInv, MirrorsFollow
  <2>7. \A b \in Batch : Known(b, sourceCopy) => Known(b, sourceCopy')
    BY <1>2, <2>1, KnownLive DEF IInv
  <2> QED BY <2>2, <2>4, <2>6, <2>7
<1> QED BY <1>1, <1>2

\* A batch on the connection is pending in the snapshot.
LEMMA BatchKnown ==
  ASSUME IInv, conn # "none"
  PROVE  batch \in Batch /\ batch # <<>> /\ Known(batch, sourceCopy)
<1>1. pc = "wait" /\ batch # <<>> /\ sourceCopy.pending = batch /\ batch \in Batch
  BY DEF IInv, TypeOK, BatchPends
<1>2. Segment(batch, sourceCopy.log)
  BY <1>1, StoresGood, PendingOf DEF IInv
<1> QED BY <1>1, <1>2 DEF Known

\* A receipt posted to a mirror takes nothing away from it.
LEMMA PostFollows ==
  ASSUME NEW s, NEW k \in Sink, Follows(k, s), DirectPosts, NEW o \in Origin, ~Held(k, o), ~Conflicts(k, o),
         NEW m, m = [k EXCEPT !.mirror = Append(@, o)]
  PROVE  m \in Sink /\ Follows(m, s) /\ m.last = k.last
<1>1. /\ k.mirror \in Seq(Origin) /\ m.mirror = Append(k.mirror, o)
      /\ m.last = k.last /\ m.batch = k.batch
  BY DEF Sink
<1> DEFINE l == k.mirror
<1>2. /\ Append(l, o) \in Seq(Origin) /\ Len(Append(l, o)) = Len(l) + 1 /\ DOMAIN Append(l, o) = 1..(Len(l) + 1)
      /\ Append(l, o)[Len(l) + 1] = o /\ \A i \in 1..Len(l) : Append(l, o)[i] = l[i]
  <2> HIDE DEF l
  <2>1. l \in Seq(Origin)
    BY <1>1 DEF l
  <2> QED BY <2>1
<1>3. m \in Sink
  BY <1>2 DEF Sink
<1>4. Mirrored(k) \subseteq Mirrored(m)
  BY <1>1, <1>2 DEF Mirrored, Range
<1>5. CursorHolds(m, s) /\ InStep(m, s) /\ OnlyBatches(m, s)
  BY <1>1, <1>4 DEF Follows, CursorHolds, InStep, OnlyBatches
<1>6. \A e \in Mirrored(k) : e.digest # o.digest
  BY DEF Held, Conflicts
<1>7. \A i \in 1..Len(l) : l[i].digest # o.digest
  BY <1>1, <1>6 DEF Mirrored, Range
<1>8. Once(m)
  <2>1. \A i, j \in 1..Len(l) : l[i].digest = l[j].digest => i = j
    BY <1>1 DEF Follows, Once
  <2>2. \A i \in 1..(Len(l) + 1) : i \in 1..Len(l) \/ i = Len(l) + 1
    BY <1>1
  <2> HIDE DEF l
  <2>3. m.mirror = Append(l, o)
    BY <1>1 DEF l
  <2>4. ASSUME NEW i \in 1..(Len(l) + 1), NEW j \in 1..(Len(l) + 1), Append(l, o)[i].digest = Append(l, o)[j].digest
        PROVE  i = j
    BY <1>2, <1>7, <2>1, <2>2, <2>4
  <2> QED BY <1>2, <2>3, <2>4 DEF Once
<1> QED BY <1>1, <1>3, <1>5, <1>8 DEF Follows

LEMMA TypeStep == ASSUME IInv, [Next]_vars PROVE TypeOK'
<1>1. TypeOK /\ source \in Source /\ sourceCopy \in Source /\ sink \in Sink /\ sinkCopy \in Sink
      /\ Good(source) /\ Good(sourceCopy)
  BY StoresGood DEF IInv, TypeOK
<1>2. CASE UNCHANGED vars
  BY <1>1, <1>2 DEF TypeOK, vars
<1>3. ASSUME NEW b \in Bodies, AppendReceipt(b) PROVE TypeOK'
  <2>1. Append(source.log, Receipt(b)) \in Seq(Origin)
    BY <1>1, ReceiptExtends DEF Good, Receipt, TypeOK, Source
  <2>2. source' \in Source
    BY <1>1, <1>3, <2>1 DEF AppendReceipt, Source
  <2> QED BY <1>1, <1>3, <2>2 DEF AppendReceipt, TypeOK
<1>4. CASE Prepare
  <2>1. PICK b \in IF source.pending # <<>> THEN {source.pending} ELSE NextBatches(source) :
          batch' = b /\ source' = [source EXCEPT !.pending = b]
    BY <1>4 DEF Prepare
  <2>2. b \in Batch
    BY <1>1, <1>4, <2>1, StoreParts, CutFits DEF Prepare, Loadable
  <2>3. source' \in Source /\ batch' \in Batch
    BY <1>1, <2>1, <2>2 DEF Source
  <2> QED BY <1>1, <1>4, <2>3 DEF Prepare, TypeOK
<1>5. CASE ConfirmPending \/ Send
  BY <1>1, <1>5 DEF ConfirmPending, Send, TypeOK
<1>6. CASE Acknowledge
  <2>1. batch # <<>> /\ source.pending = batch
    BY <1>6 DEF Acknowledge, IInv, TypeOK, BatchPends
  <2>2. source' \in Source
    BY <1>1, <1>6, <2>1, AckAgrees DEF Acknowledge, Good, Loadable
  <2> QED BY <1>1, <1>6, <2>2 DEF Acknowledge, TypeOK
<1>7. CASE ConfirmAck \/ DispatchBlocked
  <2>1. <<>> \in Batch
    BY DEF Batch
  <2>2. sourceCopy' \in {sourceCopy, source} /\ EndDispatch /\ UNCHANGED <<source, sink, sinkCopy, late, serving, time, faults>>
    BY <1>7 DEF ConfirmAck, DispatchBlocked
  <2> QED BY <1>1, <2>1, <2>2 DEF EndDispatch, TypeOK
<1>8. CASE DispatchFails \/ LoseSource
  <2>1. <<>> \in Batch
    BY DEF Batch
  <2>2. /\ sourceCopy' \in {sourceCopy, source} /\ source' \in {source, sourceCopy} /\ EndDispatch
        /\ late' \in {late, late \cup {batch}} /\ faults' = faults + 1 /\ UNCHANGED <<sink, sinkCopy, serving, time>>
    BY <1>8 DEF DispatchFails, LoseSource, Fault
  <2> QED BY <1>1, <2>1, <2>2 DEF EndDispatch, TypeOK
<1>9. CASE Receive
  <2>1. CASE ConfirmReceived
    <3>1. <<>> \in Batch
      BY DEF Batch
    <3> QED BY <1>1, <2>1, <3>1 DEF ConfirmReceived, Reply, TypeOK
  <2>2. ASSUME NEW b \in Requests, Accept(b) PROVE TypeOK'
    <3>1. b \in Batch /\ Known(b, sourceCopy)
      BY <1>1, BatchKnown DEF Requests, TypeOK, IInv, RequestsKnown
    <3>2. sink' \in Sink
      BY <1>1, <2>2, <3>1, AcceptFollows DEF Accept, IInv, MirrorsFollow
    <3> QED BY <1>1, <2>2, <3>1, <3>2 DEF Accept, Arrives, TypeOK
  <2>3. ASSUME NEW b \in Requests, Refuse(b) PROVE TypeOK'
    BY <1>1, <2>3 DEF Refuse, TypeOK
  <2> QED BY <1>9, <2>1, <2>2, <2>3 DEF Receive
<1>10. CASE ReceiveFails \/ LoseSink
  <2>1. <<>> \in Batch
    BY DEF Batch
  <2> QED BY <1>1, <1>10, <2>1 DEF ReceiveFails, LoseSink, Reply, Fault, TypeOK
<1>11. ASSUME NEW i \in DOMAIN source.log, PostDirectly(i) PROVE TypeOK'
  <2>1. source.log[i] \in Origin
    BY <1>1 DEF Source
  <2>2. sink' \in Sink
    BY <1>1, <1>11, <2>1, PostFollows DEF PostDirectly, IInv, MirrorsFollow
  <2> QED BY <1>1, <1>11, <2>2 DEF PostDirectly, TypeOK
<1> QED BY <1>2, <1>3, <1>4, <1>5, <1>6, <1>7, <1>8, <1>9, <1>10, <1>11 DEF Next, Dispatch

\* The sender's steps.
LEMMA SenderKeeps ==
  ASSUME IInv, \/ Dispatch \/ DispatchFails \/ LoseSource \/ \E b \in Bodies : AppendReceipt(b)
  PROVE  OutboxAgrees' /\ LogsChain' /\ Behind' /\ BatchPends' /\ RequestsKnown' /\ MirrorsFollow' /\ Secured'
<1> DEFINE Kept == OutboxAgrees' /\ LogsChain' /\ Behind' /\ BatchPends' /\ RequestsKnown' /\ MirrorsFollow' /\ Secured'
<1>1. /\ TypeOK /\ source \in Source /\ sourceCopy \in Source /\ sink \in Sink /\ sinkCopy \in Sink
      /\ Good(source) /\ Good(sourceCopy) /\ Starts(sourceCopy.log, source.log)
  BY StoresGood DEF IInv, TypeOK
<1>2. ASSUME NEW b \in Bodies, AppendReceipt(b) PROVE Kept
  <2> DEFINE more == Append(source.log, Receipt(b))
  <2>1. more \in Seq(Origin) /\ Chain(more) /\ Starts(source.log, more)
    BY <1>1, ReceiptExtends DEF Good, Receipt, TypeOK, Source
  <2> HIDE DEF more
  <2>2. source'.log = more /\ source'.acked = source.acked /\ source'.pending = source.pending /\ source' \in Source
    BY <1>1, <1>2, <2>1 DEF AppendReceipt, Source, more
  <2>3. OutboxAgrees'
    <3>1. AgreesAt(more, source.acked, source.pending)
      BY <1>1, <2>1, LongerAgrees, StoreParts DEF Good
    <3>2. Agrees(source')
      BY <2>2, <3>1, AgreesByPlace
    <3> QED BY <1>2, <3>2 DEF IInv, OutboxAgrees, AppendReceipt
  <2>4. LogsChain'
    <3>1. Starts(sourceCopy.log, more)
      <4>1. sourceCopy.log \in Seq(Origin) /\ source.log \in Seq(Origin)
        BY <1>1, StoreParts
      <4>2. \A r, s \in Seq(Origin) : Starts(r, s) /\ Starts(s, more) => Starts(r, more)
        BY <2>1 DEF Starts
      <4> QED BY <1>1, <2>1, <4>1, <4>2
    <3> QED BY <1>2, <2>1, <2>2, <3>1 DEF IInv, LogsChain, AppendReceipt
  <2>5. Behind' /\ BatchPends' /\ RequestsKnown' /\ MirrorsFollow' /\ Secured'
    BY <1>2, <2>2 DEF IInv, Behind, BatchPends, RequestsKnown, MirrorsFollow, Secured, AppendReceipt
  <2> QED BY <2>3, <2>4, <2>5
<1>3. CASE Prepare
  <2>1. PICK b \in IF source.pending # <<>> THEN {source.pending} ELSE NextBatches(source) :
          batch' = b /\ source' = [source EXCEPT !.pending = b]
    BY <1>3 DEF Prepare
  <2>2. b # <<>> /\ Agrees(source') /\ source.pending \in {<<>>, b}
    <3>1. CASE source.pending # <<>>
      <4>1. b = source.pending /\ source' = source
        BY <1>1, <2>1, <3>1 DEF Source
      <4> QED BY <3>1, <4>1 DEF IInv, OutboxAgrees
    <3>2. CASE source.pending = <<>>
      BY <1>1, <1>3, <2>1, <3>2, CutFits DEF Prepare, Loadable
    <3> QED BY <3>1, <3>2
  <2>3. source'.log = source.log /\ source'.acked = source.acked /\ source'.pending = b /\ batch' = b
    BY <1>1, <2>1 DEF Source
  <2>4. OutboxAgrees' /\ LogsChain'
    BY <1>3, <2>2, <2>3 DEF IInv, OutboxAgrees, LogsChain, Prepare
  <2>5. Behind' /\ BatchPends'
    BY <1>3, <2>2, <2>3 DEF IInv, Behind, BatchPends, Prepare
  <2>6. RequestsKnown' /\ MirrorsFollow' /\ Secured'
    <3>1. conn = "none"
      BY <1>1, <1>3 DEF Prepare, TypeOK
    <3> QED BY <1>3, <2>3, <3>1 DEF IInv, RequestsKnown, MirrorsFollow, Secured, Prepare
  <2> QED BY <2>4, <2>5, <2>6
<1>4. CASE ConfirmPending
  <2>1. OutboxAgrees' /\ LogsChain' /\ Behind' /\ MirrorsFollow' /\ \A b \in Batch : Known(b, sourceCopy) => Known(b, sourceCopy')
    BY <1>4, Published DEF ConfirmPending
  <2>2. BatchPends'
    BY <1>4 DEF IInv, BatchPends, ConfirmPending
  <2>3. RequestsKnown' /\ Secured'
    BY <1>1, <1>4, <2>1 DEF IInv, RequestsKnown, Secured, ConfirmPending, TypeOK
  <2> QED BY <2>1, <2>2, <2>3
<1>5. CASE Send
  BY <1>5 DEF IInv, OutboxAgrees, LogsChain, Behind, BatchPends, RequestsKnown, MirrorsFollow, Secured, Send
<1>6. CASE Acknowledge
  <2>1. batch # <<>> /\ source.pending = batch /\ sourceCopy.pending = batch
    BY <1>6 DEF Acknowledge, IInv, BatchPends
  <2>2. /\ Agrees(source') /\ source'.log = source.log /\ source'.acked = Digest(batch)
        /\ source'.pending = <<>>
    BY <1>1, <1>6, <2>1, AckAgrees DEF Acknowledge, Good, Loadable, Source
  <2>3. OutboxAgrees' /\ LogsChain'
    BY <1>6, <2>2 DEF IInv, OutboxAgrees, LogsChain, Acknowledge
  <2>4. Behind' /\ BatchPends'
    BY <1>6, <2>1, <2>2 DEF Behind, BatchPends, Acknowledge
  <2>5. RequestsKnown' /\ MirrorsFollow'
    BY <1>6 DEF IInv, RequestsKnown, MirrorsFollow, Acknowledge
  <2>6. Secured'
    BY <1>6, <2>2 DEF IInv, Secured, Acknowledge, End
  <2> QED BY <2>3, <2>4, <2>5, <2>6
<1>7. CASE ConfirmAck \/ DispatchBlocked \/ DispatchFails
  <2>1. sourceCopy' \in {sourceCopy, source} /\ EndDispatch /\ UNCHANGED <<source, sink, sinkCopy, serving>>
        /\ late' \in IF conn = "sent" THEN {late, late \cup {batch}} ELSE {late}
    BY <1>7 DEF ConfirmAck, DispatchBlocked, DispatchFails
  <2>2. OutboxAgrees' /\ LogsChain' /\ Behind' /\ MirrorsFollow' /\ \A b \in Batch : Known(b, sourceCopy) => Known(b, sourceCopy')
    BY <2>1, Published
  <2>3. BatchPends' /\ Secured'
    BY <2>1 DEF IInv, BatchPends, Secured, EndDispatch
  <2>4. RequestsKnown'
    BY <1>1, <2>1, <2>2, BatchKnown DEF IInv, RequestsKnown, EndDispatch, TypeOK
  <2> QED BY <2>2, <2>3, <2>4
<1>8. CASE LoseSource
  <2>1. source' = sourceCopy /\ EndDispatch /\ UNCHANGED <<sourceCopy, sink, sinkCopy, serving>>
        /\ late' \in IF conn = "sent" THEN {late, late \cup {batch}} ELSE {late}
    BY <1>8 DEF LoseSource
  <2>2. Starts(sourceCopy.log, sourceCopy.log)
    BY <1>1, StoreParts DEF Starts
  <2>3. OutboxAgrees' /\ LogsChain' /\ Behind' /\ MirrorsFollow' /\ BatchPends'
    BY <2>1, <2>2 DEF IInv, OutboxAgrees, LogsChain, Behind, MirrorsFollow, BatchPends, EndDispatch
  <2>4. RequestsKnown'
    BY <1>1, <2>1, BatchKnown DEF IInv, RequestsKnown, EndDispatch, TypeOK
  <2>5. Secured'
    BY <1>1, <2>1, FollowsAcked DEF IInv, MirrorsFollow, Secured, EndDispatch
  <2> QED BY <2>3, <2>4, <2>5
<1> QED BY <1>2, <1>3, <1>4, <1>5, <1>6, <1>7, <1>8 DEF Dispatch

\* The receiver's steps.
LEMMA ReceiverKeeps ==
  ASSUME IInv, \/ Receive \/ ReceiveFails \/ LoseSink \/ \E i \in DOMAIN source.log : PostDirectly(i)
  PROVE  OutboxAgrees' /\ LogsChain' /\ Behind' /\ BatchPends' /\ RequestsKnown' /\ MirrorsFollow' /\ Secured'
<1> DEFINE Kept == RequestsKnown' /\ MirrorsFollow' /\ Secured'
<1>1. /\ TypeOK /\ source \in Source /\ sink \in Sink /\ sinkCopy \in Sink /\ Good(source) /\ Good(sourceCopy)
      /\ Len(sink.last) \in Nat /\ Len(sinkCopy.last) \in Nat
  BY StoresGood DEF IInv, TypeOK, Sink
<1>2. OutboxAgrees' /\ LogsChain' /\ Behind' /\ BatchPends'
  <2>1. UNCHANGED <<source, sourceCopy, pc, batch>>
    BY DEF Receive, Accept, Refuse, ConfirmReceived, ReceiveFails, LoseSink, PostDirectly
  <2> QED BY <2>1 DEF IInv, OutboxAgrees, LogsChain, Behind, BatchPends
<1>3. ASSUME NEW b \in Requests, Accept(b) PROVE Kept
  <2>1. b \in Batch /\ Known(b, sourceCopy)
    BY <1>1, BatchKnown DEF Requests, TypeOK, IInv, RequestsKnown
  <2>2. sink' \in Sink /\ Follows(sink', sourceCopy) /\ Len(sink.last) <= Len(sink'.last) /\ sink'.last = Digest(b)
    BY <1>1, <1>3, <2>1, AcceptFollows DEF Accept, IInv, MirrorsFollow
  <2>3. MirrorsFollow'
    <3>1. Len(sink'.last) \in Nat
      BY <2>2 DEF Sink
    <3>2. Len(sinkCopy.last) <= Len(sink'.last)
      BY <1>1, <2>2, <3>1 DEF IInv, MirrorsFollow
    <3> QED BY <1>3, <2>2, <3>2 DEF IInv, MirrorsFollow, Accept
  <2>4. RequestsKnown'
    <3>1. conn # "served"
      BY <1>3, BatchKnown DEF IInv, RequestsKnown, Accept
    <3> QED BY <1>3, <2>1, <3>1 DEF IInv, RequestsKnown, Accept, Arrives
  <2>5. Secured'
    BY <1>3 DEF IInv, Secured, Accept, Arrives
  <2> QED BY <2>3, <2>4, <2>5
<1>4. ASSUME NEW b \in Requests, Refuse(b) PROVE Kept
  BY <1>4 DEF IInv, RequestsKnown, MirrorsFollow, Secured, Refuse
<1>5. CASE ConfirmReceived \/ ReceiveFails
  <2>1. /\ sinkCopy' \in {sinkCopy, sink} /\ serving' = <<>> /\ UNCHANGED <<source, sourceCopy, sink, batch, late>>
        /\ conn' # "served" /\ (conn' = "answer" => conn = "answer" \/ (conn = "served" /\ ConfirmReceived))
    BY <1>5 DEF ConfirmReceived, ReceiveFails, Reply
  <2>2. MirrorsFollow' /\ Len(sinkCopy.last) <= Len(sinkCopy'.last)
    BY <1>1, <2>1 DEF IInv, MirrorsFollow
  <2>3. RequestsKnown'
    BY <2>1 DEF IInv, RequestsKnown
  <2>4. Secured'
    <3>1. Len(source.acked) \in Nat /\ Len(sinkCopy'.last) \in Nat
      BY <1>1, <2>1, StoreParts
    <3>2. conn # "none" => End(batch) \in Nat
      BY BatchKnown, SegmentEnds, DigestType DEF End, Batch
    <3>3. CASE conn = "served" /\ ConfirmReceived
      <4>1. sinkCopy' = sink /\ sink.last = Digest(batch)
        BY <3>3 DEF ConfirmReceived, IInv, RequestsKnown
      <4>2. End(batch) <= Len(sinkCopy'.last)
        BY <1>1, <4>1 DEF End
      <4> QED BY <1>1, <2>1, <2>2, <3>1, <4>2 DEF IInv, Secured
    <3>4. CASE ~(conn = "served" /\ ConfirmReceived)
      BY <1>1, <2>1, <2>2, <3>1, <3>2, <3>4 DEF IInv, Secured
    <3> QED BY <3>3, <3>4
  <2> QED BY <1>2, <2>2, <2>3, <2>4
<1>6. CASE LoseSink
  <2>1. sink' = sinkCopy /\ serving' = <<>> /\ UNCHANGED <<source, sourceCopy, sinkCopy, batch, late>>
        /\ conn' # "served" /\ (conn' = "answer" => conn = "answer")
    BY <1>6 DEF LoseSink, Reply
  <2> QED BY <1>1, <1>2, <2>1 DEF IInv, RequestsKnown, MirrorsFollow, Secured
<1>7. ASSUME NEW i \in DOMAIN source.log, PostDirectly(i) PROVE Kept
  <2>1. source.log[i] \in Origin
    BY <1>1 DEF Source
  <2>2. Follows(sink', sourceCopy) /\ sink'.last = sink.last
    BY <1>1, <1>7, <2>1, PostFollows DEF PostDirectly, IInv, MirrorsFollow
  <2> QED BY <1>7, <2>2 DEF IInv, RequestsKnown, MirrorsFollow, Secured, PostDirectly
<1> QED BY <1>2, <1>3, <1>4, <1>5, <1>6, <1>7 DEF Receive

LEMMA InvariantStep == IInv /\ [Next]_vars => IInv'
<1> SUFFICES ASSUME IInv, [Next]_vars PROVE IInv'
  OBVIOUS
<1>1. TypeOK'
  BY TypeStep
<1>2. CASE UNCHANGED vars
  BY <1>1, <1>2 DEF IInv, OutboxAgrees, LogsChain, Behind, BatchPends, RequestsKnown, MirrorsFollow, Secured, vars
<1>3. CASE Next
  BY <1>1, <1>3, SenderKeeps, ReceiverKeeps DEF Next, IInv
<1> QED BY <1>2, <1>3

\* The sites stay in step, whatever fails: the invariant behind the others.
THEOREM DeliveryInvariant == Spec => []IInv
<1> QED BY InitHolds, InvariantStep, PTL DEF Spec
-----------------------------------------------------------------------------
(* What follows from the invariant. *)

LEMMA BothFollow ==
  ASSUME IInv, NEW k \in {sink, sinkCopy}, NEW s \in {source, sourceCopy}
  PROVE  k \in Sink /\ Good(s) /\ Follows(k, s)
<1>1. /\ Good(source) /\ Good(sourceCopy) /\ Starts(sourceCopy.log, source.log)
      /\ sink \in Sink /\ sinkCopy \in Sink
  BY StoresGood DEF IInv, TypeOK
<1>2. Len(source.acked) <= Len(sinkCopy.last) /\ Len(source.acked) <= Len(sink.last)
  <2>1. Len(source.acked) \in Nat /\ Len(sinkCopy.last) \in Nat /\ Len(sink.last) \in Nat
    BY <1>1, StoreParts DEF Good, Sink
  <2> QED BY <2>1 DEF IInv, Secured, MirrorsFollow
<1>3. Follows(k, sourceCopy)
  BY DEF IInv, MirrorsFollow
<1>4. Follows(k, source)
  BY <1>1, <1>2, <1>3, FollowsLive DEF IInv
<1> QED BY <1>1, <1>3, <1>4

\* Two sequences that agree on the length of the first.
LEMMA PrefixByPlace ==
  ASSUME NEW S, NEW s \in Seq(S), NEW t \in Seq(S), Len(s) <= Len(t), \A i \in 1..Len(s) : s[i] = t[i]
  PROVE  IsPrefix(s, t)
<1>1. SubSeq(s, 1, Len(s)) = s
  BY SubSeqFull
<1>2. SubSeq(t, 1, Len(s)) \in Seq(S) /\ Len(SubSeq(t, 1, Len(s))) = Len(s)
      /\ \A i \in 1..Len(s) : SubSeq(t, 1, Len(s))[i] = t[i]
  OBVIOUS
<1>3. SubSeq(t, 1, Len(s)) = s
  BY <1>2, SeqEqual
<1> QED BY <1>1, <1>3 DEF IsPrefix

LEMMA AckedPrefix ==
  ASSUME NEW s, Good(s), NEW k \in Sink, Follows(k, s)
  PROVE  IsPrefix(s.acked, k.last)
<1> DEFINE log == s.log
           a == s.acked
           l == k.last
<1>1. /\ log \in Seq(Origin) /\ Chain(log) /\ a \in Seq(Bodies) /\ l \in Seq(Bodies)
      /\ Len(a) \in Nat /\ Len(l) \in Nat /\ Len(a) <= Len(l) /\ Len(l) <= Len(log)
      /\ (l # <<>> => l = log[Len(l)].digest) /\ (a # <<>> => a = log[Len(a)].digest)
  <2>1. log \in Seq(Origin) /\ Chain(log) /\ a \in Seq(Bodies) /\ Len(a) \in Nat
    BY StoreParts DEF Good
  <2>2. l \in Seq(Bodies) /\ Len(l) \in Nat /\ Len(a) <= Len(l)
    BY FollowsAcked DEF Sink
  <2>3. Len(l) <= Len(log) /\ (l # <<>> => l = log[Len(l)].digest)
    BY DEF Follows, CursorHolds
  <2>4. a # <<>> => a = log[Len(a)].digest
    BY DEF Good, AgreesAt
  <2> QED BY <2>1, <2>2, <2>3, <2>4
<1> HIDE DEF log, a, l
<1>2. CASE a = <<>>
  <2>1. Len(a) = 0 /\ SubSeq(a, 1, 0) = <<>> /\ SubSeq(l, 1, 0) = <<>>
    BY <1>1, <1>2
  <2> QED BY <1>1, <2>1 DEF IsPrefix, a, l
<1>3. CASE a # <<>>
  <2>1. Len(a) \in 1..Len(l) /\ Len(l) \in DOMAIN log /\ l # <<>>
    BY <1>1, <1>3
  <2>2. a = SubSeq(l, 1, Len(a))
    BY <1>1, <1>3, <2>1 DEF Chain
  <2>3. SubSeq(a, 1, Len(a)) = a
    BY <1>1, SubSeqFull
  <2> QED BY <1>1, <2>2, <2>3 DEF IsPrefix, a, l
<1> QED BY <1>2, <1>3

LEMMA InvariantIsSound == IInv => DeliverySound
<1> SUFFICES ASSUME IInv PROVE DeliverySound
  OBVIOUS
<1>1. TypeOK /\ OutboxAgrees
  BY DEF IInv
<1>2. MirrorFollows
  <2> SUFFICES ASSUME NEW k \in {sink, sinkCopy}, NEW s \in {source, sourceCopy}
               PROVE  /\ \A i \in 1..Len(k.last) : \E o \in Mirrored(k) : o.digest = SubSeq(k.last, 1, i)
                      /\ IsPrefix(Copied(k), s.log)
    BY DEF MirrorFollows
  <2>1. k \in Sink /\ Good(s) /\ Follows(k, s)
    BY BothFollow
  <2>2. s.log \in Seq(Origin)
    BY <2>1, StoreParts DEF Good
  <2> QED BY <2>1, <2>2, CopiedIs, PrefixByPlace
<1>3. AckedIsSecured
  BY BothFollow, AckedPrefix DEF AckedIsSecured
<1>4. MirroredOnce
  BY DEF IInv, MirrorsFollow, Follows, Once, MirroredOnce
<1>5. DirectPosts \/ CanContinue
  BY BothFollow, NextIsAcceptable DEF CanContinue
<1> QED BY <1>1, <1>2, <1>3, <1>4, <1>5 DEF DeliverySound

\* Delivery is sound: outbox, mirror and snapshots agree, nothing acknowledged
\* can be lost, no receipt is mirrored twice, and without single posts
\* (append_replicated) the next batch is always one accept_batch takes.
THEOREM DeliveryIsSound == Spec => []DeliverySound
<1> QED BY DeliveryInvariant, InvariantIsSound, PTL
-----------------------------------------------------------------------------
(* Delivery implements durable replication. *)

\* A snapshot of the receiver secures more of the sender's log.
LEMMA SnapshotSecures ==
  ASSUME IInv, sinkCopy' \in {sinkCopy, sink}
  PROVE  Replication!PrefixOf(Copied(sinkCopy), Copied(sinkCopy')) /\ Replication!PrefixOf(Copied(sinkCopy'), source.log)
<1>1. /\ sink \in Sink /\ sinkCopy \in Sink /\ Good(source)
      /\ Follows(sink, source) /\ Follows(sinkCopy, source) /\ Len(sinkCopy.last) <= Len(sink.last)
  BY BothFollow DEF IInv, MirrorsFollow
<1>2. \A k \in {sink, sinkCopy} :
        /\ Len(Copied(k)) = Len(k.last) /\ DOMAIN Copied(k) = 1..Len(k.last)
        /\ Len(k.last) <= Len(source.log) /\ Len(k.last) \in Nat
        /\ \A i \in 1..Len(k.last) : Copied(k)[i] = source.log[i]
  BY <1>1, CopiedIs
<1>3. \A i \in 1..Len(sinkCopy.last) : i \in 1..Len(sink.last)
  BY <1>1, <1>2
<1>4. CASE sinkCopy' = sinkCopy
  BY <1>2, <1>4 DEF Replication!PrefixOf
<1>5. CASE sinkCopy' = sink
  BY <1>1, <1>2, <1>3, <1>5 DEF Replication!PrefixOf
<1> QED BY <1>4, <1>5

LEMMA ReplicationStep ==
  ASSUME IInv, [Next]_vars
  PROVE  [Replication!Grow \/ Replication!Forget \/ Replication!Secure]_<<source.log, Copied(sinkCopy)>>
<1>1. Good(source) /\ Good(sourceCopy) /\ source.log \in Seq(Origin)
  BY StoresGood, StoreParts DEF IInv, Good
<1>2. CASE UNCHANGED <<source, sinkCopy>>
  BY <1>2
<1>3. ASSUME NEW b \in Bodies, AppendReceipt(b) PROVE Replication!Grow
  <2>1. Starts(source.log, Append(source.log, Receipt(b)))
    BY <1>1, ReceiptExtends DEF Good, Receipt, IInv, TypeOK
  <2>2. source'.log = Append(source.log, Receipt(b)) /\ UNCHANGED sinkCopy
    BY <1>1, <1>3 DEF AppendReceipt, Good, Source
  <2> QED BY <2>1, <2>2 DEF Starts, Replication!Grow, Replication!PrefixOf
<1>4. CASE Prepare \/ Acknowledge
  <2>1. source'.log = source.log /\ UNCHANGED sinkCopy
    BY <1>1, <1>4 DEF Prepare, Acknowledge, Good, Source
  <2> QED BY <2>1
<1>5. CASE LoseSource
  <2>1. sinkCopy \in Sink /\ Follows(sinkCopy, sourceCopy) /\ Starts(sourceCopy.log, source.log)
    BY DEF IInv, TypeOK, MirrorsFollow, LogsChain
  <2>2. source' = sourceCopy /\ UNCHANGED sinkCopy
    BY <1>5 DEF LoseSource
  <2>3. Replication!PrefixOf(Copied(sinkCopy), sourceCopy.log)
    BY <1>1, <2>1, CopiedIs DEF Replication!PrefixOf
  <2> QED BY <2>1, <2>2, <2>3 DEF Starts, Replication!Forget, Replication!PrefixOf
<1>6. CASE ConfirmReceived \/ ReceiveFails
  <2>1. sinkCopy' \in {sinkCopy, sink} /\ UNCHANGED source
    BY <1>6 DEF ConfirmReceived, ReceiveFails
  <2> QED BY <2>1, SnapshotSecures DEF Replication!Secure
<1>7. UNCHANGED <<source, sinkCopy>> \/ (\E b \in Bodies : AppendReceipt(b)) \/ Prepare \/ Acknowledge \/ LoseSource
      \/ ConfirmReceived \/ ReceiveFails
  BY DEF Next, vars, Dispatch, ConfirmPending, Send, ConfirmAck, DispatchBlocked, DispatchFails, Receive, Accept, Refuse,
    LoseSink, PostDirectly
<1> QED BY <1>2, <1>3, <1>4, <1>5, <1>6, <1>7

\* Log and snapshot of the mirror implement durable replication: what the
\* receiver has secured only grows, and the sender never loses a part of it.
THEOREM ImplementsReplication == Spec => ReplicationSpec
<1>1. Init => Replication!Init
  <2> SUFFICES ASSUME Init PROVE source.log = <<>> /\ Copied(sinkCopy) = <<>>
    BY DEF Replication!Init
  <2>1. sinkCopy.last = <<>> /\ source.log = <<>>
    BY DEF Init
  <2>2. Copied(sinkCopy) = [i \in 1..0 |-> CHOOSE o \in Mirrored(sinkCopy) : o.digest = SubSeq(sinkCopy.last, 1, i)]
    BY <2>1 DEF Copied
  <2> QED BY <2>1, <2>2
<1>2. IInv /\ [Next]_vars => [Replication!Grow \/ Replication!Forget \/ Replication!Secure]_<<source.log, Copied(sinkCopy)>>
  BY ReplicationStep
<1> QED BY <1>1, <1>2, DeliveryInvariant, PTL DEF Spec, ReplicationSpec, Replication!Spec
-----------------------------------------------------------------------------
(* The replication loop *)

Push == [last : Nat, next : Nat, complete : BOOLEAN, uncertain : BOOLEAN, acked : Nat]
Arrivals == [PeerIndex -> [Receipts -> Nat]]

\* The loop thread, if one runs, is the one start() has recorded.
ThreadRecorded == alive \subseteq {thread}

\* Only the holder of the lock pushes, and the flags let it.
PushIsHeld ==
  /\ holder = None => push = NoPush
  /\ holder # None => enabled /\ ~paused /\ cursor < push.last
  /\ paused => ~enabled

\* What a push knows of the peers it has been at.
PushIsExact ==
  /\ push.uncertain => ~push.complete
  /\ push.complete => \A p \in PeerIndex, r \in Pushed : p < push.next => arrivals[p][r] > 0
  /\ push.uncertain \/ push.complete \/ push.acked = 0

\* How often a peer may have a receipt.
Untouched(p, r) == push.next <= p \/ r > push.last \/ (push.acked = 0 /\ ~push.uncertain)
Allowed(p, r) ==
  IF r <= cursor \/ paused \/ ~Untouched(p, r) THEN grants + 1 ELSE grants
AtMostAllowed == \A p \in PeerIndex, r \in Receipts : arrivals[p][r] <= Allowed(p, r)

LoopIInv == /\ LoopTypeOK /\ push \in Push /\ arrivals \in Arrivals
        /\ ThreadRecorded /\ PushIsHeld /\ PushIsExact
        /\ CursorIsDelivered /\ PeersHoldPrefixes /\ AtMostAllowed
-----------------------------------------------------------------------------
(* Receipts that reach a peer. *)

LEMMA PeersNumbered ==
  ASSUME ReplicatorAssumption
  PROVE  PeerIndex = 1..Len(Peers) /\ Len(Peers) \in Nat /\ MaxReceipts \in Nat /\ MaxGrants \in Nat
BY DEF ReplicatorAssumption, PeerIndex

LEMMA Reached ==
  ASSUME arrivals \in Arrivals, NEW p \in PeerIndex, NEW k, Reach(p, k)
  PROVE  /\ arrivals' \in Arrivals
         /\ \A q \in PeerIndex, r \in Receipts :
              arrivals'[q][r] = IF q = p /\ r \in Pushed /\ r <= k THEN arrivals[q][r] + 1 ELSE arrivals[q][r]
<1> DEFINE row == [r \in Receipts |-> IF r \in Pushed /\ r <= k THEN arrivals[p][r] + 1 ELSE arrivals[p][r]]
<1>1. row \in [Receipts -> Nat]
  BY DEF Arrivals
<1>2. arrivals' = [arrivals EXCEPT ![p] = row]
  BY DEF Reach
<1>3. \A r \in Receipts : row[r] = IF r \in Pushed /\ r <= k THEN arrivals[p][r] + 1 ELSE arrivals[p][r]
  OBVIOUS
<1> HIDE DEF row
<1>4. arrivals' \in Arrivals /\ \A q \in PeerIndex : arrivals'[q] = IF q = p THEN row ELSE arrivals[q]
  BY <1>1, <1>2 DEF Arrivals
<1> QED BY <1>3, <1>4

\* A request that delivers the batch or a first part of it: nothing is lost,
\* and the peer has what comes before.
LEMMA DeliveryKeeps ==
  ASSUME ReplicatorAssumption, LoopIInv, Post, NEW k \in cursor..push.last, Reach(push.next, k), UNCHANGED cursor
  PROVE  arrivals' \in Arrivals /\ CursorIsDelivered' /\ PeersHoldPrefixes'
<1>1. push.next \in PeerIndex /\ arrivals \in Arrivals /\ push \in Push /\ LoopTypeOK
  BY DEF Post, LoopIInv
<1>2. cursor \in Nat /\ produced \in Nat /\ MaxReceipts \in Nat /\ cursor <= MaxReceipts /\ push.last \in Nat /\ k \in Nat /\ k <= MaxReceipts
      /\ push.last <= MaxReceipts
  BY <1>1, PeersNumbered DEF LoopTypeOK, Push
<1>3. /\ arrivals' \in Arrivals
      /\ \A q \in PeerIndex, r \in Receipts :
           arrivals'[q][r] = IF q = push.next /\ r \in Pushed /\ r <= k THEN arrivals[q][r] + 1 ELSE arrivals[q][r]
  BY <1>1, Reached
<1>4. \A q \in PeerIndex, r \in Receipts : arrivals[q][r] \in Nat
  BY <1>1 DEF Arrivals
<1>5. \A q \in PeerIndex, r \in Receipts : arrivals[q][r] > 0 => arrivals'[q][r] > 0
  BY <1>3, <1>4
<1>6. CursorIsDelivered'
  <2>1. \A r \in 1..cursor : r \in Receipts
    BY <1>2 DEF Receipts
  <2> QED BY <1>5, <2>1 DEF LoopIInv, CursorIsDelivered
<1>7. ASSUME NEW p \in PeerIndex, NEW r \in Receipts, arrivals'[p][r] > 0, NEW q \in 1..r PROVE arrivals'[p][q] > 0
  <2>1. q \in Receipts /\ r \in Nat /\ q \in Nat /\ q <= r
    BY <1>2 DEF Receipts
  <2>2. CASE arrivals[p][r] > 0
    BY <1>5, <2>1, <2>2 DEF LoopIInv, PeersHoldPrefixes
  <2>3. CASE ~(arrivals[p][r] > 0)
    <3>1. p = push.next /\ r \in Pushed /\ r <= k
      BY <1>3, <1>7, <2>3
    <3>2. CASE q \in Pushed
      <4>1. q <= k
        BY <1>2, <2>1, <3>1
      <4> QED BY <1>3, <1>4, <2>1, <3>1, <3>2, <4>1
    <3>3. CASE q \notin Pushed
      <4>1. q \in 1..cursor
        BY <1>2, <2>1, <3>1, <3>3 DEF Pushed
      <4> QED BY <1>5, <2>1, <4>1 DEF LoopIInv, CursorIsDelivered
    <3> QED BY <3>2, <3>3
  <2> QED BY <2>2, <2>3
<1> QED BY <1>3, <1>6, <1>7 DEF PeersHoldPrefixes
-----------------------------------------------------------------------------
(* The invariant holds at the start and is kept. *)

LEMMA LoopStarts == ASSUME ReplicatorAssumption, LoopInit PROVE LoopIInv
<1> USE DEF LoopInit, Fresh, NoPush
<1>1. PeerIndex = 1..Len(Peers) /\ Len(Peers) \in Nat /\ MaxReceipts \in Nat /\ MaxGrants \in Nat
  BY PeersNumbered
<1>2. LoopTypeOK
  <2>1. EnabledAtStart \in BOOLEAN
    BY DEF ReplicatorAssumption
  <2>2. 0 \in 0..MaxReceipts /\ 0 \in 0..MaxGrants /\ 1 \in 1..(Len(Peers) + 1)
    BY <1>1
  <2>3. push.next = 1 /\ push.last = 0 /\ push.acked = 0 /\ produced = 0 /\ cursor = 0 /\ grants = 0
    OBVIOUS
  <2>4. push.next \in 1..(Len(Peers) + 1) /\ push.last \in 0..produced /\ push.acked < push.next /\ cursor \in 0..produced
    BY <2>2, <2>3
  <2> QED BY <2>1, <2>2, <2>3, <2>4 DEF LoopTypeOK
<1>3. push \in Push /\ arrivals \in Arrivals
  BY DEF Push, Arrivals
<1>4. \A p \in PeerIndex, r \in Receipts : arrivals[p][r] = 0
  OBVIOUS
<1>5. ThreadRecorded /\ PushIsHeld /\ CursorIsDelivered /\ PeersHoldPrefixes
  BY <1>4 DEF ThreadRecorded, PushIsHeld, CursorIsDelivered, PeersHoldPrefixes
<1>6. PushIsExact
  BY <1>1 DEF PushIsExact
<1>7. AtMostAllowed
  BY <1>4 DEF AtMostAllowed, Allowed
<1> QED BY <1>2, <1>3, <1>5, <1>6, <1>7 DEF LoopIInv

LEMMA LoopTypeStep == ASSUME ReplicatorAssumption, LoopIInv, [LoopNext]_loopVars PROVE LoopTypeOK' /\ push' \in Push
<1> DEFINE Kept == LoopTypeOK' /\ push' \in Push
<1>1. LoopTypeOK /\ push \in Push /\ PeerIndex = 1..Len(Peers) /\ Len(Peers) \in Nat /\ MaxReceipts \in Nat /\ MaxGrants \in Nat
      /\ EnabledAtStart \in BOOLEAN
  BY PeersNumbered DEF LoopIInv, ReplicatorAssumption
<1>2. CASE UNCHANGED loopVars
  BY <1>1, <1>2 DEF LoopTypeOK, loopVars, flags, threads
<1>3. CASE Produce \/ Disable \/ Enable
  <2>1. CASE Produce
    <3>1. produced' \in 0..MaxReceipts /\ cursor' \in 0..produced' /\ push'.last \in 0..produced'
      BY <1>1, <2>1 DEF Produce, LoopTypeOK, flags, Push
    <3> QED BY <1>1, <2>1, <3>1 DEF Produce, LoopTypeOK, flags, threads
  <2>2. CASE Disable
    BY <1>1, <2>2 DEF Disable, LoopTypeOK, flags, threads
  <2>3. CASE Enable
    <3>1. grants' \in 0..MaxGrants
      BY <1>1, <2>3 DEF Enable, LoopTypeOK
    <3> QED BY <1>1, <2>3, <3>1 DEF Enable, LoopTypeOK, flags, threads
  <2> QED BY <1>3, <2>1, <2>2, <2>3
<1>4. ASSUME NEW t \in Pushers, Begin(t) PROVE Kept
  <2>1. push' = [last |-> produced, next |-> 1, complete |-> TRUE, uncertain |-> FALSE, acked |-> 0]
    BY <1>4 DEF Begin, NoPush
  <2>2. push' \in Push /\ push'.last = produced /\ push'.next = 1 /\ push'.acked = 0
    BY <1>1, <2>1 DEF Push, LoopTypeOK
  <2> QED BY <1>1, <1>4, <2>2 DEF Begin, LoopTypeOK, flags, threads
<1>5. CASE Acknowledged \/ Unauthorized \/ Unknown
  <2>1. push.next \in PeerIndex /\ Steady
    BY <1>5 DEF Acknowledged, Unauthorized, Unknown, Post
  <2>2. /\ push' \in Push /\ push'.last = push.last /\ push'.next = push.next + 1
        /\ push'.acked \in {push.acked, push.acked + 1}
    <3>1. \/ push' = [push EXCEPT !.next = @ + 1, !.acked = @ + 1, !.uncertain = ~push.complete]
          \/ push' = [push EXCEPT !.next = @ + 1, !.complete = FALSE, !.uncertain = push.acked > 0]
          \/ push' = [push EXCEPT !.next = @ + 1, !.complete = FALSE, !.uncertain = TRUE]
      BY <1>5 DEF Acknowledged, Unauthorized, Unknown
    <3>2. ASSUME NEW w \in BOOLEAN, NEW q, q = [push EXCEPT !.next = @ + 1, !.acked = @ + 1, !.uncertain = w]
          PROVE  q \in Push /\ q.last = push.last /\ q.next = push.next + 1 /\ q.acked = push.acked + 1
      <4>1. ASSUME NEW n \in Nat, NEW a \in Nat, NEW c \in BOOLEAN
            PROVE  [push EXCEPT !.next = n, !.complete = c, !.acked = a, !.uncertain = w] \in Push
        BY <1>1 DEF Push
      <4>2. push.next + 1 \in Nat /\ push.acked + 1 \in Nat /\ push.acked \in Nat /\ push.complete \in BOOLEAN
        BY <1>1 DEF Push
      <4>3. q = [push EXCEPT !.next = push.next + 1, !.complete = push.complete, !.acked = push.acked + 1, !.uncertain = w]
        BY <1>1, <3>2 DEF Push
      <4> QED BY <1>1, <4>1, <4>2, <4>3 DEF Push
    <3>3. ASSUME NEW w \in BOOLEAN, NEW q, q = [push EXCEPT !.next = @ + 1, !.complete = FALSE, !.uncertain = w]
          PROVE  q \in Push /\ q.last = push.last /\ q.next = push.next + 1 /\ q.acked = push.acked
      <4>1. ASSUME NEW n \in Nat, NEW a \in Nat, NEW c \in BOOLEAN
            PROVE  [push EXCEPT !.next = n, !.complete = c, !.acked = a, !.uncertain = w] \in Push
        BY <1>1 DEF Push
      <4>2. push.next + 1 \in Nat /\ push.acked + 1 \in Nat /\ push.acked \in Nat /\ push.complete \in BOOLEAN
        BY <1>1 DEF Push
      <4>3. q = [push EXCEPT !.next = push.next + 1, !.complete = FALSE, !.acked = push.acked, !.uncertain = w]
        BY <1>1, <3>3 DEF Push
      <4> QED BY <1>1, <4>1, <4>2, <4>3 DEF Push
    <3>4. (~push.complete) \in BOOLEAN /\ (push.acked > 0) \in BOOLEAN /\ TRUE \in BOOLEAN
      OBVIOUS
    <3> QED BY <3>1, <3>2, <3>3, <3>4, Zenon
  <2>3. push'.next \in 1..(Len(Peers) + 1) /\ push'.acked < push'.next
    BY <1>1, <2>1, <2>2 DEF LoopTypeOK, Push
  <2> QED BY <1>1, <2>1, <2>2, <2>3 DEF LoopTypeOK, Steady, flags, threads
<1>6. CASE Finish
  <2>1. push' = NoPush /\ NoPush \in Push
    BY <1>6 DEF Finish, NoPush, Push
  <2> QED BY <1>1, <1>6, <2>1 DEF Finish, Advance, Pause, LoopTypeOK, threads, NoPush
<1>7. CASE Stop \/ \E t \in Loops : Start(t) \/ LoopEnds(t)
  BY <1>1, <1>7 DEF Stop, Start, LoopEnds, LoopTypeOK, flags
<1>8. CASE Restart
  <2>1. NoPush \in Push
    BY DEF NoPush, Push
  <2>2. push'.next = 1 /\ push'.last = 0 /\ push'.acked = 0 /\ push' = NoPush
    BY <1>8 DEF Restart, NoPush
  <2>3. grants' \in 0..MaxGrants /\ cursor' \in 0..produced' /\ produced' \in 0..MaxReceipts
    BY <1>1, <1>8 DEF Restart, LoopTypeOK
  <2>4. push'.next \in 1..(Len(Peers) + 1) /\ push'.last \in 0..produced' /\ push'.acked < push'.next
    BY <1>1, <2>2, <2>3
  <2> QED BY <1>1, <1>8, <2>1, <2>2, <2>3, <2>4 DEF Restart, LoopTypeOK
<1> QED BY <1>2, <1>3, <1>4, <1>5, <1>6, <1>7, <1>8 DEF LoopNext, Pushing

LEMMA LoopStep == ASSUME ReplicatorAssumption, LoopIInv, [LoopNext]_loopVars PROVE LoopIInv'
<1>1. /\ LoopTypeOK /\ push \in Push /\ arrivals \in Arrivals /\ PeerIndex = 1..Len(Peers) /\ Len(Peers) \in Nat
      /\ MaxReceipts \in Nat /\ MaxGrants \in Nat /\ LoopTypeOK' /\ push' \in Push
  BY PeersNumbered, LoopTypeStep DEF LoopIInv
<1>2. cursor \in Nat /\ grants \in Nat /\ produced \in Nat /\ (\A p \in PeerIndex, r \in Receipts : arrivals[p][r] \in Nat)
      /\ (\A p \in PeerIndex : p \in Nat /\ p >= 1) /\ (\A r \in Receipts : r \in Nat)
  <2>1. cursor \in Nat /\ grants \in Nat /\ produced \in Nat
    BY <1>1 DEF LoopTypeOK
  <2>2. \A p \in PeerIndex, r \in Receipts : arrivals[p][r] \in Nat
    BY <1>1 DEF Arrivals
  <2>3. (\A p \in PeerIndex : p \in Nat /\ p >= 1) /\ (\A r \in Receipts : r \in Nat)
    BY <1>1 DEF Receipts
  <2> QED BY <2>1, <2>2, <2>3
<1>3. \A p \in PeerIndex, r \in Receipts : arrivals[p][r] <= grants + 1
  BY <1>1, <1>2 DEF LoopIInv, AtMostAllowed, Allowed
<1> DEFINE Rest == arrivals' \in Arrivals /\ ThreadRecorded' /\ PushIsHeld' /\ PushIsExact' /\ CursorIsDelivered' /\ PeersHoldPrefixes'
                   /\ AtMostAllowed'
<1> SUFFICES Rest
  BY <1>1 DEF LoopIInv
<1>4. CASE UNCHANGED loopVars
  BY <1>4 DEF LoopIInv, ThreadRecorded, PushIsHeld, PushIsExact, Pushed, CursorIsDelivered, PeersHoldPrefixes, AtMostAllowed, Allowed,
    Untouched, loopVars, flags, threads
<1>5. CASE Produce \/ Disable
  BY <1>5 DEF LoopIInv, ThreadRecorded, PushIsHeld, PushIsExact, Pushed, CursorIsDelivered, PeersHoldPrefixes, AtMostAllowed, Allowed,
    Untouched, Produce, Disable, flags, threads
<1>6. CASE Enable
  <2>1. AtMostAllowed'
    BY <1>1, <1>2, <1>6 DEF LoopIInv, AtMostAllowed, Allowed, Untouched, Enable, threads
  <2>2. ThreadRecorded' /\ PushIsHeld' /\ PushIsExact' /\ CursorIsDelivered' /\ PeersHoldPrefixes' /\ arrivals' \in Arrivals
    BY <1>6 DEF LoopIInv, ThreadRecorded, PushIsHeld, PushIsExact, Pushed, CursorIsDelivered, PeersHoldPrefixes, Enable, threads
  <2> QED BY <2>1, <2>2
<1>7. ASSUME NEW t \in Pushers, Begin(t) PROVE Rest
  <2>1. push'.last = produced /\ push'.next = 1 /\ push'.complete = TRUE /\ push'.uncertain = FALSE /\ push'.acked = 0
    BY <1>7 DEF Begin, NoPush
  <2>2. holder = None /\ push = NoPush /\ t # None /\ ~paused /\ enabled /\ UNCHANGED <<cursor, enabled, paused, arrivals, grants, alive, thread>>
    BY <1>7 DEF Begin, LoopIInv, PushIsHeld, ReplicatorAssumption, flags, threads
  <2>3. PushIsHeld' /\ ThreadRecorded'
    BY <1>2, <1>7, <2>1, <2>2 DEF Begin, LoopIInv, PushIsHeld, ThreadRecorded
  <2>4. PushIsExact'
    BY <1>2, <2>1 DEF PushIsExact
  <2>5. AtMostAllowed'
    BY <2>1, <2>2 DEF LoopIInv, AtMostAllowed, Allowed, Untouched, NoPush
  <2> QED BY <1>1, <2>2, <2>3, <2>4, <2>5 DEF LoopIInv, CursorIsDelivered, PeersHoldPrefixes
<1>8. CASE Acknowledged \/ Unknown
  <2>1. /\ Post /\ push.next \in PeerIndex /\ holder # None /\ ~push.uncertain /\ push.last \in Nat /\ push.acked \in Nat /\ push.next \in Nat
        /\ UNCHANGED <<produced, cursor, enabled, paused, holder, grants, thread, alive>>
        /\ cursor < push.last
    BY <1>1, <1>8 DEF Acknowledged, Unknown, Post, Steady, flags, threads, LoopIInv, PushIsHeld, Push
  <2>2. PICK k \in cursor..push.last : Reach(push.next, k) /\ (Acknowledged => k = push.last)
    <3>1. CASE Acknowledged
      <4>1. push.last \in cursor..push.last
        BY <1>2, <2>1
      <4> QED BY <3>1, <4>1 DEF Acknowledged
    <3>2. CASE Unknown /\ ~Acknowledged
      BY <3>2 DEF Unknown
    <3> QED BY <1>8, <3>1, <3>2
  <2>3. arrivals' \in Arrivals /\ CursorIsDelivered' /\ PeersHoldPrefixes'
    BY <2>1, <2>2, DeliveryKeeps
  <2>4. \A q \in PeerIndex, r \in Receipts :
          arrivals'[q][r] = IF q = push.next /\ r \in Pushed /\ r <= k THEN arrivals[q][r] + 1 ELSE arrivals[q][r]
    BY <1>1, <2>1, <2>2, Reached
  <2>5. /\ push'.last = push.last /\ push'.next = push.next + 1 /\ (push'.uncertain => ~push'.complete)
        /\ push'.uncertain \/ push'.acked > 0
        /\ push'.complete => push.complete /\ Acknowledged
        /\ push'.uncertain \/ push'.complete
    <3>1. CASE Acknowledged
      <4>1. push' = [push EXCEPT !.next = @ + 1, !.acked = @ + 1, !.uncertain = ~push.complete]
        BY <3>1 DEF Acknowledged
      <4>2. ASSUME NEW w \in BOOLEAN
            PROVE  LET q == [push EXCEPT !.next = @ + 1, !.acked = @ + 1, !.uncertain = w]
                   IN  /\ q.complete = push.complete /\ q.uncertain = w /\ q.acked = push.acked + 1
                       /\ q.last = push.last /\ q.next = push.next + 1
        BY <1>1 DEF Push
      <4>3. push'.complete = push.complete /\ push'.uncertain = (~push.complete) /\ push'.acked = push.acked + 1
            /\ push'.last = push.last /\ push'.next = push.next + 1
        BY <4>1, <4>2, Zenon
      <4>4. push'.acked > 0
        BY <2>1, <4>3
      <4> QED BY <3>1, <4>3, <4>4, Zenon
    <3>2. CASE Unknown
      <4>1. push' = [push EXCEPT !.next = @ + 1, !.complete = FALSE, !.uncertain = TRUE]
        BY <3>2 DEF Unknown
      <4>2. push'.complete = FALSE /\ push'.uncertain = TRUE /\ push'.last = push.last /\ push'.next = push.next + 1
        BY <1>1, <4>1 DEF Push
      <4> QED BY <4>2
    <3> QED BY <1>8, <3>1, <3>2
  <2>6. Pushed' = Pushed /\ \A r \in Pushed : r \in Receipts /\ r <= push.last /\ r > cursor
    BY <1>1, <1>2, <2>1, <2>5 DEF Pushed, Receipts, LoopTypeOK
  <2>7. PushIsExact'
    <3>1. ASSUME push'.complete, NEW p \in PeerIndex, NEW r \in Pushed, p < push'.next PROVE arrivals'[p][r] > 0
      <4>1. CASE p = push.next
        <5>1. k = push.last /\ r \in Receipts /\ r \in Pushed /\ r <= k
          BY <2>2, <2>5, <2>6, <3>1
        <5>2. arrivals'[p][r] = arrivals[p][r] + 1 /\ arrivals[p][r] \in Nat
          BY <1>2, <2>4, <4>1, <5>1
        <5> QED BY <5>2
      <4>2. CASE p # push.next
        <5>1. p < push.next
          BY <1>2, <2>1, <2>5, <3>1, <4>2
        <5>2. arrivals[p][r] > 0
          BY <2>5, <3>1, <5>1 DEF LoopIInv, PushIsExact
        <5> QED BY <1>2, <2>4, <2>6, <4>2, <5>2
      <4> QED BY <4>1, <4>2
    <3> QED BY <2>5, <2>6, <3>1 DEF PushIsExact
  <2>8. AtMostAllowed'
    <3> SUFFICES ASSUME NEW p \in PeerIndex, NEW r \in Receipts PROVE arrivals'[p][r] <= Allowed(p, r)'
      BY DEF AtMostAllowed
    <3>1. arrivals[p][r] <= Allowed(p, r) /\ arrivals[p][r] <= grants + 1
      BY <1>3 DEF LoopIInv, AtMostAllowed
    <3>2. ~paused
      BY <2>1 DEF LoopIInv, PushIsHeld
    <3>3. CASE p = push.next /\ r \in Pushed /\ r <= k
      <4>1. arrivals[p][r] <= grants
        BY <1>2, <2>1, <2>6, <3>1, <3>2, <3>3 DEF Allowed, Untouched
      <4>2. ~(r <= cursor) /\ ~Untouched(p, r)'
        BY <1>2, <2>1, <2>5, <2>6, <3>3 DEF Untouched
      <4>3. Allowed(p, r)' = grants + 1
        BY <2>1, <4>2 DEF Allowed
      <4> QED BY <1>2, <2>4, <3>3, <4>1, <4>3
    <3>4. CASE ~(p = push.next /\ r \in Pushed /\ r <= k)
      <4>1. Untouched(p, r)' => Untouched(p, r)
        BY <1>2, <2>1, <2>5 DEF Untouched
      <4>2. Allowed(p, r)' = grants + 1 \/ Allowed(p, r)' = Allowed(p, r)
        BY <2>1, <4>1 DEF Allowed
      <4>3. arrivals'[p][r] = arrivals[p][r]
        BY <2>4, <3>4
      <4> QED BY <3>1, <4>2, <4>3
    <3> QED BY <3>3, <3>4
  <2>9. PushIsHeld' /\ ThreadRecorded'
    BY <2>1, <2>5 DEF LoopIInv, PushIsHeld, ThreadRecorded
  <2> QED BY <2>3, <2>7, <2>8, <2>9
<1>9. CASE Unauthorized
  <2>1. /\ holder # None /\ ~push.uncertain /\ UNCHANGED <<cursor, enabled, paused, holder, grants, thread, alive, arrivals>>
        /\ push.next \in Nat /\ push.acked \in Nat
    BY <1>1, <1>9 DEF Unauthorized, Post, Steady, flags, threads, Push
  <2>2. push'.last = push.last /\ push'.next = push.next + 1 /\ push'.complete = FALSE
        /\ push'.uncertain = (push.acked > 0) /\ push'.acked = push.acked
    <3>1. push' = [push EXCEPT !.next = @ + 1, !.complete = FALSE, !.uncertain = push.acked > 0]
      BY <1>9 DEF Unauthorized
    <3>2. ASSUME NEW w \in BOOLEAN
          PROVE  LET q == [push EXCEPT !.next = @ + 1, !.complete = FALSE, !.uncertain = w]
                 IN  /\ q.complete = FALSE /\ q.uncertain = w /\ q.acked = push.acked
                     /\ q.last = push.last /\ q.next = push.next + 1
      BY <1>1 DEF Push
    <3>3. (push.acked > 0) \in BOOLEAN
      OBVIOUS
    <3> QED BY <3>1, <3>2, <3>3, Zenon
  <2>3. push'.uncertain \/ push'.acked = 0
    <3>1. push.acked > 0 \/ push.acked = 0
      BY <2>1
    <3> QED BY <2>2, <3>1, Zenon
  <2>4. PushIsExact' /\ PushIsHeld' /\ ThreadRecorded'
    BY <2>1, <2>2, <2>3 DEF LoopIInv, PushIsExact, PushIsHeld, ThreadRecorded
  <2>5. AtMostAllowed'
    <3> SUFFICES ASSUME NEW p \in PeerIndex, NEW r \in Receipts PROVE arrivals'[p][r] <= Allowed(p, r)'
      BY DEF AtMostAllowed
    <3>1. arrivals[p][r] <= Allowed(p, r) /\ arrivals[p][r] <= grants + 1
      BY <1>3 DEF LoopIInv, AtMostAllowed
    <3>2. Untouched(p, r)' => Untouched(p, r)
      BY <1>2, <2>1, <2>2 DEF Untouched
    <3>3. Allowed(p, r)' = grants + 1 \/ Allowed(p, r)' = Allowed(p, r)
      BY <2>1, <3>2 DEF Allowed
    <3> QED BY <2>1, <3>1, <3>3
  <2> QED BY <1>1, <2>1, <2>4, <2>5 DEF LoopIInv, CursorIsDelivered, PeersHoldPrefixes
<1>10. CASE Finish
  <2>1. /\ holder # None /\ ~paused /\ (push.next \notin PeerIndex \/ push.uncertain) /\ cursor < push.last
        /\ cursor' = (IF push.complete THEN push.last ELSE cursor) /\ enabled' = (enabled /\ ~push.uncertain)
        /\ paused' = (paused \/ push.uncertain) /\ holder' = None /\ push' = NoPush
        /\ UNCHANGED <<produced, arrivals, grants, thread, alive>> /\ push.last \in Nat /\ push.last <= MaxReceipts
    BY <1>1, <1>10 DEF Finish, Advance, Pause, threads, LoopIInv, PushIsHeld, LoopTypeOK, Push
  <2>2. PushIsHeld' /\ PushIsExact' /\ ThreadRecorded'
    <3>1. push'.next = 1 /\ push'.uncertain = FALSE /\ push'.acked = 0
      BY <2>1 DEF NoPush
    <3>2. PushIsExact'
      BY <1>2, <3>1 DEF PushIsExact
    <3> QED BY <2>1, <3>2 DEF LoopIInv, PushIsHeld, ThreadRecorded
  <2>3. CursorIsDelivered'
    <3>1. CASE push.complete
      <4>1. push.next \notin PeerIndex /\ \A p \in PeerIndex : p < push.next
        BY <1>1, <2>1, <3>1 DEF LoopIInv, PushIsExact, LoopTypeOK, Push
      <4>2. \A r \in 1..push.last : r \in 1..cursor \/ r \in Pushed
        BY <1>2, <2>1 DEF Pushed
      <4> QED BY <2>1, <3>1, <4>1, <4>2 DEF LoopIInv, PushIsExact, CursorIsDelivered
    <3>2. CASE ~push.complete
      BY <2>1, <3>2 DEF LoopIInv, CursorIsDelivered
    <3> QED BY <3>1, <3>2
  <2>4. AtMostAllowed'
    <3> SUFFICES ASSUME NEW p \in PeerIndex, NEW r \in Receipts PROVE arrivals[p][r] <= Allowed(p, r)'
      BY <2>1 DEF AtMostAllowed
    <3>1. arrivals[p][r] <= Allowed(p, r) /\ arrivals[p][r] <= grants + 1
      BY <1>3 DEF LoopIInv, AtMostAllowed
    <3>2. CASE push.uncertain
      BY <2>1, <3>1, <3>2 DEF Allowed
    <3>3. CASE ~push.uncertain /\ push.complete
      BY <1>2, <2>1, <3>1, <3>3 DEF Allowed, Untouched
    <3>4. CASE ~push.uncertain /\ ~push.complete
      <4>1. push.acked = 0
        BY <3>4 DEF LoopIInv, PushIsExact
      <4> QED BY <1>2, <2>1, <3>1, <3>4, <4>1 DEF Allowed, Untouched
    <3> QED BY <3>2, <3>3, <3>4
  <2> QED BY <1>1, <2>1, <2>2, <2>3, <2>4 DEF LoopIInv, PeersHoldPrefixes
<1>11. CASE Stop \/ \E t \in Loops : Start(t) \/ LoopEnds(t)
  <2>1. UNCHANGED <<cursor, enabled, paused, holder, push, arrivals, grants>>
    BY <1>11 DEF Stop, Start, LoopEnds, flags
  <2>2. ThreadRecorded'
    BY <1>11 DEF Stop, Start, LoopEnds, LoopIInv, ThreadRecorded
  <2> QED BY <2>1, <2>2 DEF LoopIInv, PushIsHeld, PushIsExact, Pushed, CursorIsDelivered, PeersHoldPrefixes, AtMostAllowed, Allowed, Untouched
<1>12. CASE Restart
  <2>1. /\ cursor' = 0 /\ paused' = FALSE /\ holder' = None /\ push' = NoPush /\ alive' = {} /\ grants' = grants + 1
        /\ UNCHANGED arrivals
    BY <1>12 DEF Restart
  <2>2. AtMostAllowed'
    BY <1>2, <1>3, <2>1 DEF AtMostAllowed, Allowed
  <2>3. ThreadRecorded' /\ PushIsHeld' /\ CursorIsDelivered'
    BY <2>1 DEF ThreadRecorded, PushIsHeld, CursorIsDelivered
  <2>4. PushIsExact'
    BY <1>2, <2>1 DEF PushIsExact, NoPush
  <2> QED BY <1>1, <2>1, <2>2, <2>3, <2>4 DEF LoopIInv, PeersHoldPrefixes
<1> QED BY <1>4, <1>5, <1>6, <1>7, <1>8, <1>9, <1>10, <1>11, <1>12 DEF LoopNext, Pushing

LEMMA LoopIsAsClaimed == ASSUME ReplicatorAssumption, LoopIInv PROVE LoopSound
<1>1. OneLoop
  <2>1. IsFiniteSet({thread}) /\ Cardinality({thread}) = 1
    BY FS_Singleton
  <2> QED BY <2>1, FS_Subset, FS_CardinalityType DEF LoopIInv, ThreadRecorded, OneLoop
<1>2. OncePerGrant
  <2>1. grants \in Nat /\ \A p \in PeerIndex, r \in Receipts : arrivals[p][r] \in Nat
    BY PeersNumbered DEF LoopIInv, LoopTypeOK, Arrivals
  <2> QED BY <2>1 DEF LoopIInv, AtMostAllowed, Allowed, OncePerGrant
<1> QED BY <1>1, <1>2 DEF LoopIInv, LoopSound

\* What the cursor of the replicator (push_once) has passed every peer has, a
\* peer never has a receipt more often than an operator or a restart allowed,
\* and one loop thread runs at most.
THEOREM LoopIsSound == LoopSpec => []LoopSound
<1>1. LoopInit => LoopIInv
  BY LoopStarts, ReplicatorAssumption
<1>2. LoopIInv /\ [LoopNext]_loopVars => LoopIInv'
  BY LoopStep, ReplicatorAssumption
<1>3. LoopIInv => LoopSound
  BY LoopIsAsClaimed, ReplicatorAssumption
<1> QED BY <1>1, <1>2, <1>3, PTL DEF LoopSpec

\* Nothing leaves between a disable() and the next enable(): the lock lets no
\* push that began before go on after it.
THEOREM DisableIsFinal == LoopSpec => DisableHolds
<1>1. LoopInit => LoopIInv
  BY LoopStarts, ReplicatorAssumption
<1>2. LoopIInv /\ [LoopNext]_loopVars => LoopIInv'
  BY LoopStep, ReplicatorAssumption
<1>3. LoopIInv /\ [LoopNext]_loopVars => [arrivals' # arrivals => enabled]_loopVars
  BY DEF LoopIInv, PushIsHeld, LoopNext, loopVars, Produce, Disable, Enable, Begin, Pushing, Acknowledged, Unauthorized, Unknown,
    Post, Finish, Start, LoopEnds, Stop, Restart
<1> QED BY <1>1, <1>2, <1>3, PTL DEF LoopSpec, DisableHolds
=============================================================================
