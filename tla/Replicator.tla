----------------------------- MODULE Replicator -----------------------------
(***************************************************************************)
(* The optional replication sender (szl_khipu_replicate.py): a loop thread *)
(* and direct callers push the receipts past a cursor to every peer.  A    *)
(* push holds one lock from its first read to its last write, requests     *)
(* included; cursor and pause are in memory.  Source and peers are         *)
(* external: a source that returns what it has from the cursor on, peers   *)
(* of which only the receipts that reach them are kept.                    *)
(***************************************************************************)
EXTENDS Integers, Sequences, FiniteSets

CONSTANTS
  Loops,           \* identities for loop threads
  Callers,         \* other callers of push_once
  Peers,           \* the peers, in order
  EnabledAtStart,  \* KHIPU_REPLICATION
  Outcomes,        \* what may become of a request
  MaxReceipts, MaxGrants,
  None

Pushers == Loops \cup Callers

ASSUME ReplicatorAssumption ==
  /\ None \notin Pushers /\ Peers \in Seq({Peers[i] : i \in DOMAIN Peers}) /\ EnabledAtStart \in BOOLEAN
  /\ MaxReceipts \in Nat /\ MaxGrants \in Nat

VARIABLES
  produced,  \* the source holds receipts 1..produced
  cursor, enabled, paused,
  holder,    \* the pusher that holds the lock
  push,      \* its push
  thread,    \* self._thread
  alive,     \* the loop threads that run
  stopped,   \* self._stop
  arrivals,  \* how often a receipt has reached a peer
  grants     \* pauses an operator ended, and restarts

flags == <<cursor, enabled, paused>>
threads == <<thread, alive, stopped>>
loopVars == <<produced, flags, holder, push, threads, arrivals, grants>>

NoPush == [last |-> 0, next |-> 1, complete |-> TRUE, uncertain |-> FALSE, acked |-> 0]
Receipts == 1..MaxReceipts
PeerIndex == DOMAIN Peers

Fresh ==
  /\ cursor = 0 /\ enabled = EnabledAtStart /\ paused = FALSE
  /\ holder = None /\ push = NoPush
  /\ thread = None /\ alive = {} /\ stopped = FALSE

LoopInit ==
  /\ produced = 0 /\ grants = 0
  /\ arrivals = [p \in PeerIndex |-> [r \in Receipts |-> 0]]
  /\ Fresh

Produce ==
  /\ produced < MaxReceipts
  /\ produced' = produced + 1
  /\ UNCHANGED <<flags, holder, push, threads, arrivals, grants>>

\* Mutant: the flag is cleared without the lock.
DisableAtOnce ==
  /\ enabled' = FALSE
  /\ UNCHANGED <<produced, cursor, paused, holder, push, threads, arrivals, grants>>

Disable ==
  /\ holder = None
  /\ enabled' = FALSE
  /\ UNCHANGED <<produced, cursor, paused, holder, push, threads, arrivals, grants>>

Enable ==
  /\ holder = None
  /\ grants < MaxGrants
  /\ enabled' = TRUE /\ paused' = FALSE
  /\ grants' = IF paused THEN grants + 1 ELSE grants
  /\ UNCHANGED <<produced, cursor, holder, push, threads, arrivals>>
-----------------------------------------------------------------------------
(* push_once *)

\* A loop thread pushes between two looks at the stop event, and only when enabled.
MayPush(t) == t \in Callers \/ (t \in alive /\ ~stopped)

\* Mutant: the receipt right after the cursor is not seen.
BeginLate(t) ==
  /\ MayPush(t) /\ holder = None
  /\ enabled /\ produced > cursor + 1
  /\ holder' = t
  /\ push' = [NoPush EXCEPT !.last = produced]
  /\ UNCHANGED <<produced, flags, threads, arrivals, grants>>

Begin(t) ==
  /\ MayPush(t) /\ holder = None
  /\ enabled /\ produced > cursor
  /\ holder' = t
  /\ push' = [NoPush EXCEPT !.last = produced]
  /\ UNCHANGED <<produced, flags, threads, arrivals, grants>>

\* Mutant: the cursor is taken for the next receipt to send.
PushedSkips == (cursor + 2)..push.last

Pushed == (cursor + 1)..push.last

\* The receipts of the push up to k reach peer p.
Reach(p, k) ==
  arrivals' = [arrivals EXCEPT ![p] =
    [r \in Receipts |-> IF r \in Pushed /\ r <= k THEN @[r] + 1 ELSE @[r]]]

Post == holder # None /\ push.next \in PeerIndex /\ ~push.uncertain

Steady == UNCHANGED <<produced, flags, holder, threads, grants>>

Acknowledged ==
  /\ Post /\ "acknowledged" \in Outcomes
  /\ Reach(push.next, push.last)
  /\ push' = [push EXCEPT !.next = @ + 1, !.acked = @ + 1, !.uncertain = ~push.complete]
  /\ Steady

\* Mutant: a refusal after an acknowledgement is only a refusal.
UnauthorizedOnly ==
  /\ Post /\ "unauthorized" \in Outcomes
  /\ push' = [push EXCEPT !.next = @ + 1, !.complete = FALSE]
  /\ Steady /\ UNCHANGED arrivals

\* HTTP 401: nothing was taken; what an earlier peer took cannot be undone.
Unauthorized ==
  /\ Post /\ "unauthorized" \in Outcomes
  /\ push' = [push EXCEPT !.next = @ + 1, !.complete = FALSE, !.uncertain = push.acked > 0]
  /\ Steady /\ UNCHANGED arrivals

\* Mutant: an answer that is not an acknowledgement is passed over.
UnknownIgnored ==
  /\ Post /\ "unknown" \in Outcomes
  /\ \E k \in cursor..push.last : Reach(push.next, k)
  /\ push' = [push EXCEPT !.next = @ + 1, !.uncertain = TRUE]
  /\ Steady

\* No answer, or one that does not acknowledge the batch: part of it may have arrived.
Unknown ==
  /\ Post /\ "unknown" \in Outcomes
  /\ \E k \in cursor..push.last : Reach(push.next, k)
  /\ push' = [push EXCEPT !.next = @ + 1, !.complete = FALSE, !.uncertain = TRUE]
  /\ Steady

Pause ==
  /\ enabled' = (enabled /\ ~push.uncertain)
  /\ paused' = (paused \/ push.uncertain)

\* Mutant: the last receipt is taken for their number.
AdvanceByLast == cursor' = IF push.complete THEN cursor + push.last ELSE cursor

Advance == cursor' = IF push.complete THEN push.last ELSE cursor

Finish ==
  /\ holder # None /\ (push.next \notin PeerIndex \/ push.uncertain)
  /\ Advance /\ Pause
  /\ holder' = None /\ push' = NoPush
  /\ UNCHANGED <<produced, threads, arrivals, grants>>
-----------------------------------------------------------------------------
(* the loop thread *)

\* Mutant: a thread that still runs does not prevent another.
StartAlways(t) ==
  /\ t \in Loops \ alive
  /\ stopped' = FALSE /\ thread' = t /\ alive' = alive \cup {t}
  /\ UNCHANGED <<produced, flags, holder, push, arrivals, grants>>

Start(t) ==
  /\ t \in Loops \ alive
  /\ thread \notin alive
  /\ stopped' = FALSE /\ thread' = t /\ alive' = alive \cup {t}
  /\ UNCHANGED <<produced, flags, holder, push, arrivals, grants>>

\* The caller waits two seconds for the thread, a push may take longer.
Stop ==
  /\ ~stopped
  /\ stopped' = TRUE
  /\ UNCHANGED <<produced, flags, holder, push, thread, alive, arrivals, grants>>

LoopEnds(t) ==
  /\ t \in alive /\ stopped /\ holder # t
  /\ alive' = alive \ {t}
  /\ UNCHANGED <<produced, flags, holder, push, thread, stopped, arrivals, grants>>

Restart ==
  /\ grants < MaxGrants
  /\ grants' = grants + 1
  /\ cursor' = 0 /\ enabled' = EnabledAtStart /\ paused' = FALSE
  /\ holder' = None /\ push' = NoPush
  /\ thread' = None /\ alive' = {} /\ stopped' = FALSE
  /\ UNCHANGED <<produced, arrivals>>

Pushing == Acknowledged \/ Unauthorized \/ Unknown \/ Finish

LoopNext ==
  \/ Produce \/ Disable \/ Enable
  \/ \E t \in Pushers : Begin(t)
  \/ Pushing
  \/ \E t \in Loops : Start(t) \/ LoopEnds(t)
  \/ Stop \/ Restart

LoopSpec == LoopInit /\ [][LoopNext]_loopVars
-----------------------------------------------------------------------------
\* Every variable holds what its declaration says, and the cursor stays within the source.
LoopTypeOK ==
  /\ produced \in 0..MaxReceipts /\ cursor \in 0..produced
  /\ enabled \in BOOLEAN /\ paused \in BOOLEAN /\ stopped \in BOOLEAN
  /\ holder \in Pushers \cup {None} /\ thread \in Loops \cup {None} /\ alive \subseteq Loops
  /\ push.next \in 1..(Len(Peers) + 1) /\ push.last \in 0..produced /\ push.acked < push.next
  /\ grants \in 0..MaxGrants

\* "Failed or partial batches retain their cursor": what the cursor has passed
\* every peer has.
CursorIsDelivered ==
  \A p \in PeerIndex, r \in 1..cursor : arrivals[p][r] > 0

\* "Ambiguous or partial delivery pauses this process": without an operator who
\* ends a pause, or a restart, no peer is sent a receipt twice.
OncePerGrant ==
  \A p \in PeerIndex, r \in Receipts : arrivals[p][r] <= 1 + grants

\* A peer never has a receipt without those before it.
PeersHoldPrefixes ==
  \A p \in PeerIndex, r \in Receipts : arrivals[p][r] > 0 => \A q \in 1..r : arrivals[p][q] > 0

\* Once disable() has returned nothing is sent until enable().
DisableHolds == [][arrivals' # arrivals => enabled]_loopVars

\* However stop() and start() follow each other, one loop thread runs at most.
OneLoop == Cardinality(alive) <= 1

\* What the cursor has passed every peer has, a prefix in order, and at most
\* once more than an operator or a restart allowed; one loop runs at most.
LoopSound == LoopTypeOK /\ CursorIsDelivered /\ OncePerGrant /\ PeersHoldPrefixes /\ OneLoop

Running == enabled /\ ~stopped /\ alive # {}

\* While the loop runs and nothing pauses it, what the source holds is delivered.
ReceiptsReachPeers ==
  \A r \in Receipts : produced >= r /\ Running ~> cursor >= r \/ ~Running
=============================================================================
