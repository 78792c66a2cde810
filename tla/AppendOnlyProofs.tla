--------------------------- MODULE AppendOnlyProofs ---------------------------
(***************************************************************************)
(* The three append-only stores are sound for any number of processes,     *)
(* records, reads and faults.                                              *)
(*                                                                         *)
(* The audit chain: a process between its head read and its commit holds   *)
(* the write lock, so the row it commits follows the last row; what a      *)
(* checkpoint or a drill has read stays in the table, which only grows.    *)
(*                                                                         *)
(* The bucket: a commit with the head as its parent was computed from the  *)
(* repository as it is; a file leaves a directory only when its record is  *)
(* stored, so what a flush or a reader holds is still there or stored.     *)
(*                                                                         *)
(* The receipt ledger takes no lock across its steps: a node is stored     *)
(* only at the index at which it was built, so a node that is stored was   *)
(* built on the whole chain, and its author saw every receipt in it.       *)
(***************************************************************************)
EXTENDS AuditChain, HFBucket, ReceiptLedger, FiniteSetTheorems, TLAPS

-----------------------------------------------------------------------------
(* The audit chain *)

\* Only the holder of the lock is inside a transaction.
Writing(c) == conn[c].pc \in {"insert", "commit"}
LockHeld == \A c \in Conns : Writing(c) => lock = c

\* A row to commit follows the last one.
RowFollows == \A c \in Conns : At(c, "commit") => conn[c].row.prior = Head1(events)

\* append returns only what the table holds.
RowStored == \A c \in Conns : At(c, "return") =>
  \E k \in DOMAIN events : events[k].hash = conn[c].row.hash

\* The pinned head is among the rows the pin counts, which the table has.
Held(h, n) == h # Genesis => \E j \in 1..n : events[j].hash = h
PinHeld(p) == p.events <= Len(events) /\ Held(p.head, p.events)
PinsHeld == \A c \in Conns :
  /\ At(c, "count") => Held(conn[c].pin.head, Len(events))
  /\ conn[c].pc \in {"begin", "insert"} => PinHeld(conn[c].pin)
  /\ At(c, "commit") => PinHeld(conn[c].row.pin)

\* A restored dump is the result of a call that has ended.
RestoredAtRest == \A c \in Conns : conn[c].verdict = "restored" => At(c, "idle")

\* A dump verifies, and the backups its events announce are in the table.
Announced(rows) == {e.hash : e \in {e \in Range(rows) : e.type = "backup"}}
DumpsSound == \A c \in Conns : At(c, "saved") =>
  Verifies(conn[c].dump) /\ Announced(conn[c].dump) \subseteq backups

IInv == /\ TypeOK
        /\ NoFork /\ AckedStored /\ BackupsAnchored
        /\ PinOrdered /\ RestoredIsSound
        /\ LockHeld /\ RowFollows /\ RowStored /\ PinsHeld /\ DumpsSound /\ RestoredAtRest
-----------------------------------------------------------------------------
(* Rows, heads and pins. *)

\* The rows before the last one are those the table had.
LEMMA AppendKeeps ==
  ASSUME NEW rows \in Seq(Event), NEW e \in Event
  PROVE  /\ Append(rows, e) \in Seq(Event)
         /\ Len(Append(rows, e)) = Len(rows) + 1
         /\ \A k \in DOMAIN rows : k \in DOMAIN Append(rows, e) /\ Append(rows, e)[k] = rows[k]
         /\ Append(rows, e)[Len(rows) + 1] = e
         /\ Range(Append(rows, e)) = Range(rows) \cup {e}
BY DEF Range

\* A chain that verifies still does when a row follows its last one.
LEMMA FollowingVerifies ==
  ASSUME NEW rows \in Seq(Event), NEW e \in Event, Verifies(rows), e.prior = Head1(rows)
  PROVE  Verifies(Append(rows, e))
<1> DEFINE more == Append(rows, e)
<1> SUFFICES ASSUME NEW k \in DOMAIN more PROVE more[k].prior = Head1(SubSeq(more, 1, k - 1))
  BY DEF Verifies
<1>1. more \in Seq(Event) /\ Len(more) = Len(rows) + 1 /\ k \in 1..(Len(rows) + 1)
  BY AppendKeeps
<1>2. SubSeq(more, 1, k - 1) = SubSeq(rows, 1, k - 1)
  BY <1>1
<1>3. CASE k \in DOMAIN rows
  BY <1>2, <1>3, AppendKeeps DEF Verifies
<1>4. CASE k = Len(rows) + 1
  <2>1. SubSeq(rows, 1, k - 1) = rows
    BY <1>4
  <2> QED BY <1>2, <1>4, <2>1, AppendKeeps
<1> QED BY <1>1, <1>3, <1>4

\* The head of a chain is the hash of its last row or the genesis hash.
LEMMA HeadIsRow ==
  ASSUME NEW rows \in Seq(Event)
  PROVE  /\ Head1(rows) \in Nat
         /\ Head1(rows) # Genesis => \E j \in 1..Len(rows) : rows[j].hash = Head1(rows)
<1>1. CASE rows = <<>>
  BY <1>1 DEF Head1, Genesis
<1>2. CASE rows # <<>>
  <2>1. Len(rows) \in 1..Len(rows) /\ rows[Len(rows)] \in Event
    BY <1>2
  <2>2. Head1(rows) = rows[Len(rows)].hash
    BY <1>2 DEF Head1, Last
  <2> QED BY <2>1, <2>2 DEF Event
<1> QED BY <1>1, <1>2

\* What a step does to the tables: nothing, or it adds the row of one process.
TableStep(c) ==
  /\ At(c, "commit")
  /\ events' = Append(events, conn[c].row)
  /\ backups' = IF conn[c].row.type = "backup" THEN backups \cup {conn[c].row.hash} ELSE backups

LEMMA StepsExtendTable ==
  ASSUME [Next]_vars PROVE UNCHANGED <<events, backups>> \/ \E c \in Conns : TableStep(c)
BY DEF Next, vars, StartAppend, StartCheckpoint, CountEvents, Begin, Busy, Insert, Commit, Return, RollBack,
  StartResume, VerifyRows, ReadSeq, StartDrill, Restore, Crash, TableStep

\* The rows the table has it keeps at their place.
LEMMA RowsStay ==
  ASSUME TypeOK, [Next]_vars
  PROVE  /\ events' \in Seq(Event) /\ Len(events) <= Len(events')
         /\ \A k \in DOMAIN events : k \in DOMAIN events' /\ events'[k] = events[k]
         /\ backups \subseteq backups'
<1>1. CASE UNCHANGED <<events, backups>>
  BY <1>1 DEF TypeOK
<1>2. ASSUME NEW c \in Conns, TableStep(c)
      PROVE  /\ events' \in Seq(Event) /\ Len(events) <= Len(events')
             /\ \A k \in DOMAIN events : k \in DOMAIN events' /\ events'[k] = events[k]
             /\ backups \subseteq backups'
  BY <1>2, AppendKeeps DEF TableStep, TypeOK, Call
<1> QED BY <1>1, <1>2, StepsExtendTable
-----------------------------------------------------------------------------
(* The invariant holds at the start and is kept. *)

LEMMA InitHolds == Init => IInv
BY ChainAssumption DEF Init, IInv, TypeOK, NoFork, AckedStored, BackupsAnchored, PinOrdered, RestoredIsSound, LockHeld,
  RowFollows, RowStored, PinsHeld, DumpsSound, RestoredAtRest, Verifies, Checkpoints, Range, At, Writing, Idle, Call, Blank, Event, Pin, NoPin,
  Genesis

LEMMA IdleIsCall == Idle \in Call
BY DEF Idle, Call, Blank, Event, Pin, NoPin, Genesis

LEMMA TypeStep == ASSUME TypeOK, [Next]_vars PROVE TypeOK'
<1>1. CASE UNCHANGED vars
  BY <1>1 DEF TypeOK, vars
<1>2. ASSUME NEW c \in Conns, NEW r \in Call, conn' = [conn EXCEPT ![c] = r],
             UNCHANGED hashed \/ hashed' = hashed + 1, UNCHANGED reads \/ reads' = reads + 1,
             UNCHANGED faults \/ faults' = faults + 1,
             lock' \in {lock, c, Free}, acked' \subseteq Nat
      PROVE  TypeOK'
  <2>1. events' \in Seq(Event) /\ backups' \subseteq Nat
    BY RowsStay, StepsExtendTable DEF TypeOK, TableStep, Call, Event
  <2>2. {hashed', reads', faults'} \subseteq Nat
    BY <1>2 DEF TypeOK
  <2> QED BY <1>2, <2>1, <2>2 DEF TypeOK
<1> SUFFICES ASSUME NEW c \in Conns, Next!(c) PROVE TypeOK'
  BY <1>1 DEF Next
<1>3. conn[c] \in Call /\ Idle \in Call
  BY IdleIsCall DEF TypeOK
<1>4. hashed \in Nat /\ Len(events) \in Nat /\ Head1(events) \in Nat
  BY HeadIsRow DEF TypeOK
<1>5. CASE StartAppend(c)
  <2>1. \A t \in {"event", "backup"} : [Idle EXCEPT !.pc = "begin", !.row.type = t] \in Call
    BY <1>3 DEF Call, Event
  <2> QED BY <1>2, <1>5, <2>1 DEF StartAppend, TypeOK
<1>6. CASE StartCheckpoint(c)
  <2>1. [Idle EXCEPT !.pc = "count", !.row.type = "checkpoint", !.pin.head = Head1(events)] \in Call
    BY <1>3, <1>4 DEF Call, Event, Pin
  <2> QED BY <1>2, <1>6, <2>1 DEF StartCheckpoint, TypeOK
<1>7. CASE CountEvents(c)
  <2>1. [conn[c] EXCEPT !.pc = "begin", !.pin.events = Len(events)] \in Call
    BY <1>3, <1>4 DEF Call, Pin
  <2> QED BY <1>2, <1>7, <2>1 DEF CountEvents, TypeOK
<1>8. CASE Begin(c)
  <2>1. [conn[c] EXCEPT !.pc = "insert"] \in Call
    BY <1>3 DEF Call
  <2> QED BY <1>2, <1>8, <2>1 DEF Begin, TypeOK
<1>9. CASE Busy(c) \/ RollBack(c) \/ Crash(c)
  BY <1>2, <1>3, <1>9 DEF Busy, RollBack, Crash, Fault, TypeOK
<1>10. CASE Insert(c)
  <2> DEFINE row == [hash |-> hashed + 1, type |-> conn[c].row.type, prior |-> Head1(events), pin |-> conn[c].pin]
  <2>1. row \in Event
    BY <1>3, <1>4 DEF Call, Event
  <2>2. conn' = [conn EXCEPT ![c] = [@ EXCEPT !.pc = "commit", !.row = row]] /\ hashed' = hashed + 1
    BY <1>10 DEF Insert
  <2>3. [conn[c] EXCEPT !.pc = "commit", !.row = row] \in Call
    <3> HIDE DEF row
    <3> QED BY <1>3, <2>1 DEF Call
  <2> HIDE DEF row
  <2> QED BY <1>2, <1>10, <2>2, <2>3 DEF Insert, TypeOK
<1>11. CASE Commit(c)
  <2>1. [conn[c] EXCEPT !.pc = "return"] \in Call
    BY <1>3 DEF Call
  <2> QED BY <1>2, <1>11, <2>1 DEF Commit, TypeOK
<1>12. CASE Return(c)
  <2>1. conn[c].row.hash \in Nat
    BY <1>3 DEF Call, Event
  <2> QED BY <1>2, <1>3, <1>12, <2>1 DEF Return, TypeOK
<1>13. CASE StartResume(c)
  <2>1. [Idle EXCEPT !.pc = "genesis"] \in Call
    BY <1>3 DEF Call
  <2>2. ASSUME NEW k \in DOMAIN events PROVE [Idle EXCEPT !.pc = "verify", !.pin = events[k].pin] \in Call
    <3>1. events[k] \in Event
      BY DEF TypeOK
    <3>2. events[k].pin \in Pin
      BY <3>1 DEF Event
    <3> QED BY <1>3, <3>2 DEF Call
  <2> QED BY <1>2, <1>13, <2>1, <2>2 DEF StartResume, TypeOK, Checkpoints
<1>14. CASE VerifyRows(c) \/ ReadSeq(c)
  <2>1. \A v \in {"ok", "broken", "rewritten"} : [Idle EXCEPT !.verdict = v] \in Call
    BY <1>3 DEF Call
  <2>2. [conn[c] EXCEPT !.pc = "seq"] \in Call
    BY <1>3 DEF Call
  <2>3. \A v \in {"ok", "rewritten"} : [Idle EXCEPT !.pin = conn[c].pin, !.verdict = v] \in Call
    BY <1>3 DEF Call
  <2>4. CASE VerifyRows(c)
    BY <1>2, <2>1, <2>2, <2>4 DEF VerifyRows, TypeOK
  <2>5. CASE ReadSeq(c)
    BY <1>2, <2>3, <2>5 DEF ReadSeq, TypeOK
  <2> QED BY <1>14, <2>4, <2>5
<1>15. CASE StartDrill(c)
  <2>1. [Idle EXCEPT !.pc = "saved", !.dump = events] \in Call
    BY <1>3 DEF Call, TypeOK
  <2> QED BY <1>2, <1>15, <2>1 DEF StartDrill, TypeOK
<1>16. CASE Restore(c)
  <2>1. [conn[c] EXCEPT !.pc = "idle", !.saved = backups, !.verdict = "restored"] \in Call
    BY <1>3 DEF Call, TypeOK
  <2> QED BY <1>2, <1>16, <2>1 DEF Restore, TypeOK
<1> QED BY <1>5, <1>6, <1>7, <1>8, <1>9, <1>10, <1>11, <1>12, <1>13, <1>14, <1>15, <1>16

\* What a step does to a call, as far as the invariant can tell.
Quiet == UNCHANGED <<events, backups>>
Turns(c, from, to) == conn[c].pc \in from /\ conn'[c].pc = to

CallStep(c) ==
  \/ /\ conn'[c].verdict # "restored"
     /\ \/ Turns(c, {"idle"}, "begin") /\ conn'[c].pin = NoPin /\ Quiet /\ UNCHANGED <<lock, acked>>
        \/ Turns(c, {"idle"}, "count") /\ conn'[c].pin.head = Head1(events) /\ Quiet /\ UNCHANGED <<lock, acked>>
        \/ /\ Turns(c, {"count"}, "begin") /\ Quiet /\ UNCHANGED <<lock, acked>>
           /\ conn'[c].pin.head = conn[c].pin.head /\ conn'[c].pin.events = Len(events)
        \/ /\ Turns(c, {"begin"}, "insert") /\ Quiet /\ UNCHANGED acked
           /\ lock = Free /\ lock' = c /\ conn'[c].pin = conn[c].pin
        \/ /\ Turns(c, {"insert"}, "commit") /\ Quiet /\ UNCHANGED <<lock, acked>>
           /\ conn'[c].row.prior = Head1(events) /\ conn'[c].row.pin = conn[c].pin
        \/ /\ Turns(c, {"commit"}, "return") /\ TableStep(c) /\ UNCHANGED acked
           /\ lock' = Free /\ conn'[c].row = conn[c].row
        \/ /\ Turns(c, {"return"}, "idle") /\ Quiet /\ UNCHANGED lock
           /\ acked' = acked \cup {conn[c].row.hash}
        \/ /\ conn'[c].pc = "idle" /\ Quiet /\ UNCHANGED acked
           /\ lock' # lock => lock' = Free /\ (Writing(c) \/ lock = c)
        \/ /\ conn[c].pc \in {"idle", "verify", "genesis", "seq"}
           /\ conn'[c].pc \in {"idle", "verify", "genesis", "seq"} /\ Quiet /\ UNCHANGED <<lock, acked>>
        \/ Turns(c, {"idle"}, "saved") /\ conn'[c].dump = events /\ Quiet /\ UNCHANGED <<lock, acked>>
  \/ /\ Turns(c, {"saved"}, "idle") /\ Quiet /\ UNCHANGED <<lock, acked>>
     /\ conn'[c].dump = conn[c].dump /\ conn'[c].saved = backups

LEMMA StepsAreCalls ==
  ASSUME TypeOK, RestoredAtRest, [Next]_vars
  PROVE  \/ UNCHANGED <<events, backups, lock, conn, acked>>
         \/ \E c \in Conns : CallStep(c) /\ \A d \in Conns \ {c} : conn'[d] = conn[d]
<1>1. CASE UNCHANGED vars
  BY <1>1 DEF vars
<1> SUFFICES ASSUME NEW c \in Conns, Next!(c)
             PROVE  CallStep(c) /\ \A d \in Conns \ {c} : conn'[d] = conn[d]
  BY <1>1 DEF Next
<1>2. c \in DOMAIN conn /\ conn[c] \in Call
  BY DEF TypeOK
<1>rest. conn[c].verdict = "restored" => conn[c].pc = "idle"
  BY DEF RestoredAtRest, At
<1>3. Idle.pc = "idle" /\ Idle.verdict = "none" /\ Idle.pin = NoPin /\ Idle \in Call
  BY IdleIsCall DEF Idle
<1> USE DEF CallStep, Turns, Quiet, At, Writing
<1>4. CASE StartAppend(c)
  <2>1. \A t \in {"event", "backup"} : LET r == [Idle EXCEPT !.pc = "begin", !.row.type = t] IN
          r.pc = "begin" /\ r.pin = NoPin /\ r.verdict = "none"
    BY <1>3 DEF Call
  <2> QED BY <1>2, <1>4, <2>1 DEF StartAppend, TypeOK
<1>5. CASE StartCheckpoint(c)
  BY <1>2, <1>rest, <1>3, <1>5 DEF StartCheckpoint, TypeOK, Call, Event, Pin
<1>6. CASE CountEvents(c)
  BY <1>2, <1>rest, <1>6 DEF CountEvents, TypeOK, Call, Pin
<1>7. CASE Begin(c)
  BY <1>2, <1>rest, <1>7 DEF Begin, TypeOK, Call
<1>8. CASE Insert(c)
  BY <1>2, <1>rest, <1>8 DEF Insert, TypeOK, Call
<1>9. CASE Commit(c)
  BY <1>2, <1>rest, <1>9 DEF Commit, TypeOK, Call, TableStep
<1>10. CASE Return(c)
  BY <1>2, <1>rest, <1>3, <1>10 DEF Return, TypeOK
<1>11. CASE Busy(c) \/ RollBack(c) \/ Crash(c)
  BY <1>2, <1>rest, <1>3, <1>11 DEF Busy, RollBack, Crash, TypeOK
<1>12. CASE StartResume(c)
  <2>1. \A p : LET r == [Idle EXCEPT !.pc = "verify", !.pin = p] IN r.pc = "verify" /\ r.verdict = "none"
    BY <1>3 DEF Call
  <2>2. LET r == [Idle EXCEPT !.pc = "genesis"] IN r.pc = "genesis" /\ r.verdict = "none"
    BY <1>3 DEF Call
  <2>3. \/ conn'[c] = [Idle EXCEPT !.pc = "genesis"]
        \/ \E k \in Checkpoints(events) : conn'[c] = [Idle EXCEPT !.pc = "verify", !.pin = events[k].pin]
    BY <1>2, <1>12 DEF StartResume, TypeOK
  <2>4. conn'[c].pc \in {"genesis", "verify"} /\ conn'[c].verdict = "none"
    BY <2>1, <2>2, <2>3
  <2>5. \A d \in Conns \ {c} : conn'[d] = conn[d]
    BY <1>12 DEF StartResume, TypeOK
  <2> QED BY <1>12, <2>4, <2>5 DEF StartResume
<1>13. CASE VerifyRows(c)
  BY <1>2, <1>rest, <1>3, <1>13 DEF VerifyRows, TypeOK, Call
<1>14. CASE ReadSeq(c)
  BY <1>2, <1>rest, <1>3, <1>14 DEF ReadSeq, TypeOK, Call
<1>15. CASE StartDrill(c)
  BY <1>2, <1>rest, <1>3, <1>15 DEF StartDrill, TypeOK, Call
<1>16. CASE Restore(c)
  BY <1>2, <1>rest, <1>16 DEF Restore, TypeOK, Call
<1> QED BY <1>4, <1>5, <1>6, <1>7, <1>8, <1>9, <1>10, <1>11, <1>12, <1>13, <1>14, <1>15, <1>16

LEMMA RestStep == ASSUME TypeOK, RestoredAtRest, [Next]_vars PROVE RestoredAtRest'
BY StepsAreCalls DEF RestoredAtRest, At, CallStep, Turns, TypeOK

\* The lock: whoever is in a transaction has it, and keeps it until the end.
LEMMA LockStep == ASSUME TypeOK, RestoredAtRest, LockHeld, [Next]_vars PROVE LockHeld'
BY StepsAreCalls, ChainAssumption DEF LockHeld, Writing, CallStep, Turns, TypeOK

\* A row to commit follows the last one: nobody else commits meanwhile.
LEMMA FollowsStep == ASSUME TypeOK, RestoredAtRest, LockHeld, RowFollows, [Next]_vars PROVE RowFollows'
BY StepsAreCalls DEF RowFollows, LockHeld, Writing, At, CallStep, Turns, Quiet, TableStep, TypeOK

\* The row a process has committed.
LEMMA TableStepStores ==
  ASSUME TypeOK, NEW c \in Conns, TableStep(c)
  PROVE  /\ conn[c].row \in Event
         /\ Len(events') = Len(events) + 1 /\ events'[Len(events) + 1] = conn[c].row
         /\ DOMAIN events' = 1..(Len(events) + 1)
         /\ Range(events') = Range(events) \cup {conn[c].row}
<1>1. conn[c].row \in Event /\ events \in Seq(Event)
  BY DEF TypeOK, Call
<1> QED BY <1>1, AppendKeeps DEF TableStep

LEMMA StoredStep == ASSUME TypeOK, RestoredAtRest, RowStored, [Next]_vars PROVE RowStored'
<1> SUFFICES ASSUME NEW d \in Conns, conn'[d].pc = "return"
             PROVE  \E k \in DOMAIN events' : events'[k].hash = conn'[d].row.hash
  BY DEF RowStored, At
<1>1. CASE conn[d].pc = "return" /\ conn'[d] = conn[d]
  BY <1>1, RowsStay DEF RowStored, At
<1>2. CASE TableStep(d) /\ conn'[d].row = conn[d].row
  <2>1. Len(events) + 1 \in DOMAIN events' /\ events'[Len(events) + 1] = conn'[d].row
    BY <1>2, TableStepStores DEF TypeOK
  <2> QED BY <2>1
<1> QED BY <1>1, <1>2, StepsAreCalls DEF CallStep, Turns

LEMMA PinsStep == ASSUME TypeOK, RestoredAtRest, PinsHeld, [Next]_vars PROVE PinsHeld'
<1>1. Len(events) \in Nat /\ Len(events') \in Nat /\ Len(events) <= Len(events')
  BY RowsStay
<1>2. ASSUME NEW h, NEW n \in Nat, n <= Len(events), Held(h, n) PROVE Held(h, n)'
  BY <1>1, <1>2, RowsStay DEF Held
<1>3. \A d \in Conns : conn[d].pin \in Pin /\ conn[d].row.pin \in Pin
  BY DEF TypeOK, Call, Event
<1>4. ASSUME NEW p \in Pin, PinHeld(p) PROVE PinHeld(p)'
  BY <1>1, <1>2, <1>4, RowsStay DEF PinHeld, Pin
<1> SUFFICES ASSUME NEW d \in Conns
             PROVE  /\ conn'[d].pc = "count" => Held(conn[d].pin.head, Len(events))'
                    /\ conn'[d].pc \in {"begin", "insert"} => PinHeld(conn[d].pin)'
                    /\ conn'[d].pc = "commit" => PinHeld(conn[d].row.pin)'
  BY DEF PinsHeld, At
<1> USE DEF PinsHeld, At, Turns
<1>5. ASSUME conn[d].pc = "count", conn'[d].pin.head = conn[d].pin.head PROVE Held(conn[d].pin.head, Len(events))'
  <2>1. Held(conn[d].pin.head, Len(events))
    BY <1>5
  <2> QED BY <1>1, <1>5, <2>1, RowsStay DEF Held
<1>6. CASE conn'[d] = conn[d]
  BY <1>3, <1>4, <1>5, <1>6 DEF Held
<1>7. CASE CallStep(d)
  <2>1. ASSUME conn'[d].pc = "count", conn'[d].pin.head = Head1(events), Quiet PROVE Held(conn[d].pin.head, Len(events))'
    BY <2>1, HeadIsRow DEF Held, Quiet, TypeOK
  <2>2. ASSUME conn'[d].pin = NoPin PROVE PinHeld(conn[d].pin)'
    BY <1>1, <2>2 DEF NoPin, PinHeld, Held
  <2>3. ASSUME conn[d].pc = "count", conn'[d].pin.head = conn[d].pin.head, conn'[d].pin.events = Len(events), Quiet
        PROVE  PinHeld(conn[d].pin)'
    BY <1>1, <1>5, <2>3 DEF PinHeld, Held, Quiet
  <2>4. ASSUME conn[d].pc = "begin", conn'[d].pin = conn[d].pin PROVE PinHeld(conn[d].pin)'
    BY <1>3, <1>4, <2>4
  <2>5. ASSUME conn[d].pc = "insert", conn'[d].row.pin = conn[d].pin PROVE PinHeld(conn[d].row.pin)'
    BY <1>3, <1>4, <2>5
  <2> QED BY <1>7, <2>1, <2>2, <2>3, <2>4, <2>5 DEF CallStep
<1> QED BY <1>6, <1>7, StepsAreCalls

LEMMA DumpsStep == ASSUME TypeOK, NoFork, BackupsAnchored, RestoredAtRest, DumpsSound, [Next]_vars PROVE DumpsSound'
<1> SUFFICES ASSUME NEW d \in Conns, conn'[d].pc = "saved"
             PROVE  Verifies(conn'[d].dump) /\ Announced(conn'[d].dump) \subseteq backups'
  BY DEF DumpsSound, At, Verifies, Announced
<1>1. CASE conn'[d] = conn[d]
  BY <1>1, RowsStay DEF DumpsSound, At
<1>2. CASE CallStep(d) /\ conn'[d].dump = events
  BY <1>2, RowsStay DEF NoFork, BackupsAnchored, Announced
<1> QED BY <1>1, <1>2, StepsAreCalls DEF CallStep, Turns

LEMMA RestoredStep ==
  ASSUME TypeOK, RestoredAtRest, DumpsSound, RestoredIsSound, [Next]_vars PROVE RestoredIsSound'
<1> SUFFICES ASSUME NEW d \in Conns, conn'[d].verdict = "restored"
             PROVE  Verifies(conn'[d].dump) /\ Announced(conn'[d].dump) \subseteq conn'[d].saved
  BY DEF RestoredIsSound, Verifies, Announced
<1>1. CASE conn'[d] = conn[d]
  BY <1>1 DEF RestoredIsSound, Announced
<1>2. CASE conn[d].pc = "saved" /\ conn'[d].dump = conn[d].dump /\ conn'[d].saved = backups
  BY <1>2 DEF DumpsSound, At
<1> QED BY <1>1, <1>2, StepsAreCalls DEF CallStep, Turns
-----------------------------------------------------------------------------
(* The table. *)

LEMMA ForkStep == ASSUME TypeOK, RowFollows, NoFork, [Next]_vars PROVE NoFork'
<1>1. CASE UNCHANGED <<events, backups>>
  BY <1>1 DEF NoFork, Verifies
<1>2. ASSUME NEW c \in Conns, TableStep(c) PROVE NoFork'
  <2>1. conn[c].row \in Event /\ events \in Seq(Event)
    BY <1>2, TableStepStores DEF TypeOK
  <2>2. Verifies(Append(events, conn[c].row))
    BY <1>2, <2>1, FollowingVerifies DEF NoFork, RowFollows, TableStep
  <2> QED BY <1>2, <2>2 DEF NoFork, TableStep
<1> QED BY <1>1, <1>2, StepsExtendTable

LEMMA AnchorStep == ASSUME TypeOK, BackupsAnchored, [Next]_vars PROVE BackupsAnchored'
<1>1. CASE UNCHANGED <<events, backups>>
  BY <1>1 DEF BackupsAnchored
<1>2. ASSUME NEW c \in Conns, TableStep(c) PROVE BackupsAnchored'
  <2>1. Range(events') = Range(events) \cup {conn[c].row}
    BY <1>2, TableStepStores
  <2> QED BY <1>2, <2>1 DEF BackupsAnchored, TableStep
<1> QED BY <1>1, <1>2, StepsExtendTable

LEMMA AckedStep == ASSUME TypeOK, RestoredAtRest, RowStored, AckedStored, [Next]_vars PROVE AckedStored'
<1>1. Range(events) \subseteq Range(events')
  BY RowsStay DEF Range
<1>2. CASE UNCHANGED acked
  BY <1>1, <1>2 DEF AckedStored
<1>3. ASSUME NEW c \in Conns, conn[c].pc = "return", acked' = acked \cup {conn[c].row.hash} PROVE AckedStored'
  <2>1. conn[c].row.hash \in {e.hash : e \in Range(events)}
    BY <1>3 DEF RowStored, At, Range
  <2> QED BY <1>1, <1>3, <2>1 DEF AckedStored
<1> QED BY <1>2, <1>3, StepsAreCalls DEF CallStep, Turns

LEMMA PinOrderStep == ASSUME TypeOK, PinsHeld, PinOrdered, [Next]_vars PROVE PinOrdered'
<1>1. CASE UNCHANGED <<events, backups>>
  BY <1>1 DEF PinOrdered, Checkpoints
<1>2. ASSUME NEW c \in Conns, TableStep(c) PROVE PinOrdered'
  <2> SUFFICES ASSUME NEW k \in DOMAIN events', events'[k].type = "checkpoint"
               PROVE  /\ events'[k].pin.events < k
                      /\ Held(events[k].pin.head, events[k].pin.events)'
    BY DEF PinOrdered, Checkpoints, Held
  <2>1. CASE k \in DOMAIN events
    <3>1. events'[k] = events[k] /\ events[k] \in Event
      BY <2>1, RowsStay DEF TypeOK
    <3>2. events[k].pin.events < k /\ Held(events[k].pin.head, events[k].pin.events)
      BY <2>1, <3>1 DEF PinOrdered, Checkpoints, Held
    <3>3. events[k].pin.events \in Nat /\ \A j \in 1..events[k].pin.events : j \in DOMAIN events
      BY <2>1, <3>1, <3>2 DEF Event, Pin, TypeOK
    <3> QED BY <3>1, <3>2, <3>3, RowsStay DEF Held
  <2>2. CASE k = Len(events) + 1
    <3>1. events'[k] = conn[c].row /\ conn[c].row \in Event
      BY <1>2, <2>2, TableStepStores
    <3>2. PinHeld(conn[c].row.pin)
      BY <1>2 DEF PinsHeld, TableStep
    <3>3. conn[c].row.pin.events \in Nat /\ Len(events) \in Nat
      BY <3>1 DEF Event, Pin, TypeOK
    <3>4. \A j \in 1..conn[c].row.pin.events : j \in DOMAIN events
      BY <3>2, <3>3 DEF PinHeld, TypeOK
    <3> QED BY <2>2, <3>1, <3>2, <3>3, <3>4, RowsStay DEF PinHeld, Held
  <2> QED BY <1>2, <2>1, <2>2, TableStepStores DEF TypeOK
<1> QED BY <1>1, <1>2, StepsExtendTable
-----------------------------------------------------------------------------
\* The inductive invariant of the audit chain (app/defend/chain_store.py, the
\* checkpoints of strict_scopes.py and the drill of drills.py).
THEOREM ChainInvariant == Spec => []IInv
<1>1. IInv /\ [Next]_vars => IInv'
  BY TypeStep, RestStep, LockStep, FollowsStep, StoredStep, PinsStep, DumpsStep, RestoredStep,
     ForkStep, AnchorStep, AckedStep, PinOrderStep DEF IInv
<1> QED BY InitHolds, <1>1, PTL DEF Spec

\* The chain never forks, an event append has returned stays in it, and the
\* backups and their events agree: for any number of processes and faults.
THEOREM ChainIsSound == Spec => []ChainSound
<1>1. IInv => ChainSound
  BY DEF IInv, ChainSound
<1> QED BY ChainInvariant, <1>1, PTL

\* The pin of a checkpoint counts the head it names and nothing after itself,
\* and what a drill restores verifies and has its backups.
THEOREM ReadsAreSound == Spec => []ReadsSound
<1>1. IInv => ReadsSound
  BY DEF IInv, ReadsSound
<1> QED BY ChainInvariant, <1>1, PTL
-----------------------------------------------------------------------------
(* The table is one append-only list for all processes. *)

Row(k) == [key |-> "none", hash |-> events[k].hash]
Rows == [k \in DOMAIN events |-> Row(k)]
Handed == {[key |-> "none", hash |-> h] : h \in acked}

LEMMA CanonicalStep ==
  ASSUME IInv, [Next]_vars
  PROVE  [Canonical!Append1 \/ Canonical!Hand]_<<Rows, Handed>>
<1> USE DEF IInv
<1>1. events \in Seq(Event) /\ events' \in Seq(Event)
  BY RowsStay DEF TypeOK
<1> DEFINE R == [key : {"none"}, hash : Nat]
<1>2. Rows \in Seq(R) /\ Len(Rows) = Len(events) /\ DOMAIN Rows = DOMAIN events
  <2>1. \A k \in 1..Len(events) : events[k] \in Event
    BY <1>1
  <2>2. Rows \in [1..Len(events) -> R]
    BY <1>1, <2>1 DEF Rows, Row, Event
  <2> HIDE DEF R
  <2> QED BY <1>1, <2>2
<1>3. CASE UNCHANGED <<events, backups>> /\ UNCHANGED acked
  BY <1>3 DEF Rows, Row, Handed
<1>4. ASSUME NEW c \in Conns, TableStep(c), UNCHANGED acked PROVE Canonical!Append1
  <2> DEFINE r == [key |-> "none", hash |-> conn[c].row.hash]
  <2>4. /\ Rows' = [k \in 1..(Len(events) + 1) |-> [key |-> "none", hash |-> events'[k].hash]]
        /\ events'[Len(events) + 1] = conn[c].row /\ conn[c].row \in Event
        /\ \A k \in 1..Len(events) : events'[k] = events[k]
    BY <1>1, <1>4, TableStepStores, RowsStay DEF Rows, Row
  <2>5. r \in R
    BY <2>4 DEF Event
  <2>1. Rows' = Append(Rows, r)
    <3>1. \A k \in 1..Len(events) : Rows[k] = [key |-> "none", hash |-> events[k].hash]
      BY <1>1 DEF Rows, Row
    <3> QED BY <1>1, <1>2, <2>4, <3>1
  <2>2. Len(Rows') = Len(Rows) + 1 /\ Rows'[Len(Rows) + 1] = r
    <3> HIDE DEF r, R
    <3> QED BY <1>2, <2>1, <2>5
  <2>3. r.key = "none"
    OBVIOUS
  <2> QED BY <1>4, <2>1, <2>2, <2>3 DEF Canonical!Append1, Canonical!RecordedKeys, Rows, Row, Handed
<1>5. ASSUME NEW c \in Conns, conn[c].pc = "return", acked' = acked \cup {conn[c].row.hash}, UNCHANGED <<events, backups>>
      PROVE  Canonical!Hand
  <2>1. PICK k \in DOMAIN events : events[k].hash = conn[c].row.hash
    BY <1>5 DEF RowStored, At
  <2>2. Handed' = Handed \cup {Rows[k]}
    BY <1>5, <2>1 DEF Handed, Rows, Row
  <2> QED BY <1>2, <1>5, <2>1, <2>2 DEF Canonical!Hand, Rows, Row, Handed
<1> QED BY <1>3, <1>4, <1>5, StepsAreCalls DEF CallStep, Turns, Quiet

\* The table of every process implements one append-only list (chain_store.py).
THEOREM ImplementsCanonical == Spec => CanonicalSpec
<1>1. Init => Canonical!Init
  BY DEF Init, Canonical!Init
<1>2. IInv /\ [Next]_vars => [Canonical!Append1 \/ Canonical!Hand]_<<Rows, Handed>>
  BY CanonicalStep
<1> QED BY ChainInvariant, <1>1, <1>2, PTL DEF Spec, CanonicalSpec, Canonical!Spec, Rows, Row, Handed
-----------------------------------------------------------------------------
(* The bucket *)

\* A flush in progress, over the files Q and the repository r: it holds a
\* finite batch; what it takes for stored is stored; what it is about to store
\* is still there to be stored, whoever else flushes the directory; and its
\* snapshot is the repository of its revision.
FlushOk(b, Q, r) ==
  /\ b \in Flush /\ IsFiniteSet(b.batch)
  /\ b.known \subseteq InRepo(r)
  /\ b.pc = "drop" => IdsOf(b.batch) \subseteq InRepo(r)
  /\ b.pc \in {"snapshot", "commit"} => IdsOf(b.batch) \subseteq IdsOf(Q) \cup InRepo(r)
  /\ b.pc = "commit" =>
       /\ b.base.rev <= r.rev
       /\ b.base.rev = r.rev => b.base = r
       /\ InRepo(b.base) \subseteq InRepo(r)
FlushesOk == \A p \in Procs : FlushOk(proc[p], Pending(p), repo)

\* Between its two reads, a reader misses what it will find in the directory
\* or what has gone into the repository.
ReaderMisses == \A p \in Procs : reader.pc = p /\ reader.whole =>
  reader.before \subseteq reader.got \cup IdsOf(Pending(p)) \cup Stored

BucketInv == /\ BucketTypeOK /\ (\A q \in Queues : IsFiniteSet(queue[q]))
             /\ NothingLost /\ EntriesOnce /\ HeadMatches
             /\ FlushesOk /\ MissedIsStored /\ ReaderMisses
-----------------------------------------------------------------------------
(* Sets written out as sequences. *)

\* A finite set is listed without repetition.
LEMMA SetListed ==
  ASSUME NEW S, IsFiniteSet(S)
  PROVE  SetToSeq(S) \in Seq(S) /\ Range(SetToSeq(S)) = S /\ IsInjective(SetToSeq(S))
<1> DEFINE n == Cardinality(S)
           s == SetToSeq(S)
<1>1. n \in Nat /\ ExistsBijection(1..n, S)
  BY FS_CardinalityType
<1>2. \E f \in [1..n -> S] : IsInjective(f)
  BY <1>1 DEF ExistsBijection, Bijection, Injection
<1>3. s \in [1..n -> S] /\ IsInjective(s)
  BY <1>2 DEF SetToSeq
<1>4. s \in Injection(1..n, S)
  BY <1>3 DEF Injection
<1>5. Cardinality(1..n) = n
  BY <1>1, FS_Interval
<1>6. s \in Surjection(1..n, S)
  BY <1>4, <1>5, FS_Injection
<1>7. Range(s) = S
  BY <1>3, <1>6 DEF Surjection, Range
<1>8. s \in Seq(S)
  BY <1>1, <1>3
<1> QED BY <1>3, <1>7, <1>8

\* The ids of a sequence and of one that follows it.
LEMMA FollowedBy ==
  ASSUME NEW T, NEW s \in Seq(T), NEW t \in Seq(T)
  PROVE  /\ s \o t \in Seq(T)
         /\ Range(s \o t) = Range(s) \cup Range(t)
         /\ IsInjective(s) /\ IsInjective(t) /\ Range(s) \cap Range(t) = {} => IsInjective(s \o t)
<1> DEFINE r == s \o t
<1>1. r \in Seq(T) /\ Len(r) = Len(s) + Len(t) /\ Len(s) \in Nat /\ Len(t) \in Nat
  OBVIOUS
<1>2. \A k \in 1..Len(s) : r[k] = s[k] /\ k \in 1..Len(r)
  BY <1>1
<1>3. \A k \in 1..Len(t) : r[Len(s) + k] = t[k] /\ Len(s) + k \in 1..Len(r)
  BY <1>1
<1>4. \A k \in 1..Len(r) : k \in 1..Len(s) \/ (k - Len(s) \in 1..Len(t) /\ k = Len(s) + (k - Len(s)))
  BY <1>1
<1>5. DOMAIN r = 1..Len(r) /\ DOMAIN s = 1..Len(s) /\ DOMAIN t = 1..Len(t)
  BY <1>1
<1>6. Range(r) \subseteq Range(s) \cup Range(t)
  BY <1>2, <1>3, <1>4, <1>5 DEF Range
<1>7. Range(s) \subseteq Range(r) /\ Range(t) \subseteq Range(r)
  BY <1>2, <1>3, <1>5 DEF Range
<1>8. ASSUME IsInjective(s), IsInjective(t), Range(s) \cap Range(t) = {}, NEW j \in DOMAIN r, NEW k \in DOMAIN r, r[j] = r[k]
      PROVE  j = k
  <2>1. CASE j \in 1..Len(s) /\ k \in 1..Len(s)
    BY <2>1, <1>2, <1>5, <1>8 DEF IsInjective
  <2>2. CASE j \notin 1..Len(s) /\ k \notin 1..Len(s)
    <3>1. j - Len(s) \in 1..Len(t) /\ k - Len(s) \in 1..Len(t) /\ r[j] = t[j - Len(s)] /\ r[k] = t[k - Len(s)]
      BY <2>2, <1>3, <1>4, <1>5
    <3>2. j - Len(s) = k - Len(s)
      BY <3>1, <1>5, <1>8 DEF IsInjective
    <3> QED BY <3>2, <1>1, <1>5
  <2>3. CASE j \in 1..Len(s) /\ k \notin 1..Len(s)
    BY <2>3, <1>2, <1>3, <1>4, <1>5, <1>8 DEF Range
  <2>4. CASE j \notin 1..Len(s) /\ k \in 1..Len(s)
    BY <2>4, <1>2, <1>3, <1>4, <1>5, <1>8 DEF Range
  <2> QED BY <2>1, <2>2, <2>3, <2>4
<1> HIDE DEF r
<1>9. IsInjective(s) /\ IsInjective(t) /\ Range(s) \cap Range(t) = {} => IsInjective(r)
  BY <1>8 DEF IsInjective
<1> QED BY <1>1, <1>6, <1>7, <1>9 DEF r

\* What head.json says of sequences of ids is well formed.
LEMMA HeadOfTyped ==
  ASSUME NEW shards \in [Days -> Seq(Ids)], BucketAssumption
  PROVE  HeadOf(shards) \in HeadFile
<1> DEFINE full == {d \in Days : shards[d] # <<>>}
           lines(d) == {d} \X DOMAIN shards[d]
           all == {lines(d) : d \in full}
           f == [d \in full |-> lines(d)]
<1>1. IsFiniteSet(full)
  <2>1. IsFiniteSet(Days)
    BY FS_Interval DEF Days, BucketAssumption
  <2> QED BY <2>1, FS_Subset
<1>2. IsFiniteSet(all)
  <2>1. f \in Surjection(full, all)
    BY DEF Surjection
  <2> QED BY <2>1, <1>1, FS_Surjection
<1>3. ASSUME NEW X \in all PROVE IsFiniteSet(X)
  <2>1. PICK d \in full : X = lines(d)
    OBVIOUS
  <2>2. DOMAIN shards[d] = 1..Len(shards[d]) /\ Len(shards[d]) \in Nat
    OBVIOUS
  <2>3. IsFiniteSet(1..Len(shards[d]))
    BY <2>2, FS_Interval
  <2>4. IsFiniteSet({d})
    BY FS_Singleton
  <2> QED BY <2>1, <2>2, <2>3, <2>4, FS_Product
<1>4. Cardinality(UNION all) \in Nat
  BY <1>2, <1>3, FS_UNION, FS_CardinalityType
<1>5. \A d \in full : shards[d][Len(shards[d])] \in Ids
  OBVIOUS
<1> QED BY <1>4, <1>5 DEF HeadOf, HeadFile

\* The shards with additions are those the snapshot has and the new ids.
LEMMA ExtendedShard ==
  ASSUME NEW b \in Flush, IsFiniteSet(b.batch), NEW d \in Days
  PROVE  /\ Extended(b, d) \in Seq(Ids)
         /\ Range(Extended(b, d)) = Shard(b.base, d) \cup Additions(b, d)
         /\ IsInjective(b.base.shards[d]) => IsInjective(Extended(b, d))
         /\ d \notin Changed(b) => Extended(b, d) = b.base.shards[d]
<1> DEFINE A == Additions(b, d)
           s == b.base.shards[d]
<1>1. s \in Seq(Ids)
  BY DEF Flush, Repo
<1>2. IsFiniteSet(A) /\ A \subseteq Ids
  <2> DEFINE R == {r \in b.batch : r.day = d /\ r.id \in A}
             f == [r \in R |-> r.id]
  <2>1. IsFiniteSet(R)
    BY FS_Subset
  <2>2. \A i \in A : [id |-> i, day |-> d] \in R /\ f[[id |-> i, day |-> d]] = i
    BY DEF Additions
  <2>3. f \in Surjection(R, A)
    BY <2>2 DEF Surjection
  <2>4. IsFiniteSet(A)
    BY <2>1, <2>3, FS_Surjection
  <2> QED BY <2>4 DEF Additions
<1>3. SetToSeq(A) \in Seq(A) /\ Range(SetToSeq(A)) = A /\ IsInjective(SetToSeq(A))
  BY <1>2, SetListed
<1>4. SetToSeq(A) \in Seq(Ids)
  BY <1>2, <1>3
<1>5. A \cap Range(s) = {}
  BY DEF Additions, Shard
<1>6. d \notin Changed(b) => SetToSeq(A) = <<>>
  BY <1>3, A = {} => SetToSeq(A) \in Seq({}) DEF Changed
<1> QED BY <1>1, <1>3, <1>4, <1>5, <1>6, FollowedBy DEF Extended, Shard

\* What a commit with the head as its parent makes of the repository.
LEMMA WriteGrows ==
  ASSUME BucketAssumption, BucketInv, NEW p \in Procs, FlushAt(p, "commit"),
         ParentIsHead(proc[p]), repo' = Written(proc[p])
  PROVE  /\ repo' \in Repo /\ repo'.rev = repo.rev + 1
         /\ Stored \subseteq Stored' /\ IdsOf(proc[p].batch) \subseteq Stored'
         /\ Stored' \subseteq Stored \cup IdsOf(proc[p].batch)
         /\ EntriesOnce' /\ HeadMatches'
<1> DEFINE b == proc[p]
<1>1. b \in Flush /\ IsFiniteSet(b.batch) /\ repo \in Repo /\ b.base = repo
  BY DEF BucketInv, BucketTypeOK, FlushesOk, FlushOk, ParentIsHead, FlushAt
<1>2. \A d \in Days : /\ Extended(b, d) \in Seq(Ids)
                      /\ Range(Extended(b, d)) = Shard(repo, d) \cup Additions(b, d)
                      /\ IsInjective(Extended(b, d))
                      /\ d \notin Changed(b) => Extended(b, d) = repo.shards[d]
  BY <1>1, ExtendedShard DEF BucketInv, EntriesOnce
<1> DEFINE ext == [d \in Days |-> Extended(b, d)]
<1>3. ext \in [Days -> Seq(Ids)]
  BY <1>2
<1>4. ext = [d \in Days |-> IF d \in Changed(b) THEN Extended(b, d) ELSE repo.shards[d]]
  BY <1>2
<1>5. repo' = [rev |-> repo.rev + 1, shards |-> ext, head |-> HeadOf(ext)]
  BY <1>4 DEF Written
<1>6. HeadOf(ext) \in HeadFile
  BY <1>3, HeadOfTyped
<1> HIDE DEF ext
<1>7. repo' \in Repo /\ repo'.rev = repo.rev + 1 /\ repo'.shards = ext /\ repo'.head = HeadOf(ext)
  BY <1>1, <1>3, <1>5, <1>6 DEF Repo
<1>8. HeadMatches' /\ EntriesOnce'
  BY <1>2, <1>7 DEF HeadMatches, EntriesOnce, HeadOf, ext
<1>9. \A d \in Days : Shard(repo', d) = Shard(repo, d) \cup Additions(b, d)
  BY <1>2, <1>7 DEF Shard, ext
<1>10. Stored' = Stored \cup UNION {Additions(b, d) : d \in Days}
  BY <1>9 DEF Stored, InRepo
<1>11. \A d \in Days : Additions(b, d) \subseteq IdsOf(b.batch)
  <2> TAKE d \in Days
  <2> SUFFICES ASSUME NEW i \in Additions(b, d) PROVE i \in IdsOf(b.batch)
    OBVIOUS
  <2>1. [id |-> i, day |-> d] \in b.batch /\ [id |-> i, day |-> d].id = i
    BY DEF Additions
  <2> QED BY <2>1 DEF IdsOf
<1>12. \A r \in b.batch : r.id \in Stored'
  <2> TAKE r \in b.batch
  <2>1. r \in Record /\ r = [id |-> r.id, day |-> r.day] /\ r.id \in Ids /\ r.day \in Days
    BY <1>1 DEF Flush, Record
  <2>2. r.id \in Shard(repo, r.day) \/ r.id \in Additions(b, r.day)
    BY <1>1, <2>1 DEF Additions
  <2> QED BY <1>10, <2>1, <2>2 DEF Stored, InRepo
<1> QED BY <1>7, <1>8, <1>10, <1>11, <1>12 DEF IdsOf
-----------------------------------------------------------------------------
(* What every step keeps. *)

\* A flush in another process goes on: the repository only grows, and a file
\* that goes has been stored.
LEMMA FlushStays ==
  ASSUME NEW b, NEW Q, NEW r, NEW R, NEW w, FlushOk(b, Q, r), r \in Repo, w \in Repo,
         InRepo(r) \subseteq InRepo(w), IdsOf(Q) \subseteq IdsOf(R) \cup InRepo(w),
         w = r \/ w.rev = r.rev + 1
  PROVE  FlushOk(b, R, w)
<1>1. b.pc = "commit" => /\ b.base.rev <= w.rev
                         /\ b.base.rev = w.rev => b.base = w
                         /\ InRepo(b.base) \subseteq InRepo(w)
  <2>1. SUFFICES ASSUME b.pc = "commit", w # r PROVE b.base.rev <= w.rev /\ b.base.rev # w.rev
    BY DEF FlushOk
  <2>2. b.base.rev \in Nat /\ r.rev \in Nat /\ b.base.rev <= r.rev /\ w.rev = r.rev + 1
    BY <2>1 DEF FlushOk, Flush, Repo
  <2> QED BY <2>2
<1> QED BY <1>1 DEF FlushOk

\* Stored ids stay, and an id leaves a directory for the repository only.
RepoMoves == repo' = repo \/ (repo'.rev = repo.rev + 1 /\ Stored \subseteq Stored')
QueuesMove == \A q \in Queues : IdsOf(queue[q]) \subseteq IdsOf(queue'[q]) \cup Stored'

LEMMA RepoStep ==
  ASSUME BucketAssumption, BucketInv, [BucketNext]_bucketVars
  PROVE  RepoMoves /\ repo' \in Repo /\ EntriesOnce' /\ HeadMatches' /\ Stored \subseteq Stored'
<1>1. CASE UNCHANGED repo
  BY <1>1 DEF BucketInv, BucketTypeOK, RepoMoves, EntriesOnce, HeadMatches, Stored
<1>2. ASSUME NEW p \in Procs, FlushAt(p, "commit"), ParentIsHead(proc[p]), repo' = Written(proc[p])
      PROVE  RepoMoves /\ repo' \in Repo /\ EntriesOnce' /\ HeadMatches' /\ Stored \subseteq Stored'
  BY <1>2, WriteGrows DEF RepoMoves
<1>3. UNCHANGED repo \/ \E p \in Procs : FlushAt(p, "commit") /\ ParentIsHead(proc[p]) /\ repo' = Written(proc[p])
  <2>1. ASSUME NEW p \in Procs, FlushStep(p) \/ RequestFails(p)
        PROVE  UNCHANGED repo \/ (FlushAt(p, "commit") /\ ParentIsHead(proc[p]) /\ repo' = Written(proc[p]))
    BY <2>1 DEF FlushStep, ListPending, NothingPending, LoadPending, Snapshot, CommitBatch,
                AlreadyStored, CommitConflicts, Drop, RequestFails
  <2>2. ASSUME NEW p \in Procs, ProcessDies(p) \/ ReadShards(p) \/ ReadQueue(p) PROVE UNCHANGED repo
    BY <2>2 DEF ProcessDies, ReadShards, ReadQueue
  <2>3. ASSUME NEW p \in Procs, NEW i \in Ids, AppendRecord(p, i) PROVE UNCHANGED repo
    BY <2>3 DEF AppendRecord
  <2>4. ReadEnds \/ NewDay \/ UNCHANGED bucketVars => UNCHANGED repo
    BY DEF ReadEnds, NewDay, bucketVars
  <2> QED BY <2>1, <2>2, <2>3, <2>4 DEF BucketNext
<1> QED BY <1>1, <1>2, <1>3

LEMMA IdsOfSub == ASSUME NEW S, NEW T, S \subseteq T PROVE IdsOf(S) \subseteq IdsOf(T)
BY DEF IdsOf

\* A drop leaves the records it did not flush.
LEMMA DropLeaves ==
  ASSUME BucketAssumption, BucketInv, NEW p \in Procs, Drop(p)
  PROVE  /\ QueuesMove /\ queue' \in [Queues -> SUBSET Record]
         /\ \A q \in Queues : queue'[q] \subseteq queue[q]
<1>1. /\ queue \in [Queues -> SUBSET Record] /\ QueueOf[p] \in Queues
      /\ IdsOf(proc[p].batch) \subseteq Stored /\ Stored' = Stored
  BY DEF BucketInv, BucketTypeOK, BucketAssumption, FlushesOk, FlushOk, Drop, FlushAt, Stored
<1> DEFINE rest == {r \in Pending(p) : r.id \notin IdsOf(proc[p].batch)}
<1>2. queue' = [queue EXCEPT ![QueueOf[p]] = rest]
  BY DEF Drop
<1>3. IdsOf(Pending(p)) \subseteq IdsOf(rest) \cup Stored
  BY <1>1 DEF IdsOf
<1> QED BY <1>1, <1>2, <1>3 DEF QueuesMove, Pending

\* An append adds one file, of an id the directory does not have.
LEMMA AppendAdds ==
  ASSUME BucketAssumption, BucketInv, NEW p \in Procs, NEW i \in Ids, AppendRecord(p, i)
  PROVE  /\ \A q \in Queues : queue[q] \subseteq queue'[q] /\ IsFiniteSet(queue'[q])
         /\ queue' \in [Queues -> SUBSET Record]
         /\ \A q \in Queues : \A r, s \in queue'[q] : r.id = s.id => r = s
         /\ \A q \in Queues : accepted'[q] \subseteq IdsOf(queue'[q]) \cup Stored
<1> DEFINE Q == QueueOf[p]
           new == [id |-> i, day |-> today]
<1>1. /\ queue \in [Queues -> SUBSET Record] /\ Q \in Queues /\ new \in Record /\ new.id = i
      /\ accepted \in [Queues -> SUBSET Ids]
      /\ \A q \in Queues : IsFiniteSet(queue[q])
      /\ \A q \in Queues : \A r, s \in queue[q] : r.id = s.id => r = s
      /\ \A q \in Queues : accepted[q] \subseteq IdsOf(queue[q]) \cup Stored
      /\ proc[p].known \subseteq Stored
  BY DEF BucketInv, BucketTypeOK, BucketAssumption, Record, NothingLost, FlushesOk, FlushOk, Stored
<1>2. accepted' = [accepted EXCEPT ![Q] = @ \cup {i}]
  BY DEF AppendRecord
<1>3. CASE Fresh(p, i)
  <2>1. queue' = [queue EXCEPT ![Q] = @ \cup {new}] /\ i \notin IdsOf(queue[Q])
    BY <1>3 DEF AppendRecord, Fresh, Pending
  <2>2. \A q \in Queues : queue'[q] = IF q = Q THEN queue[q] \cup {new} ELSE queue[q]
    BY <2>1, <1>1
  <2>3. \A q \in Queues : IsFiniteSet(queue'[q])
    <3> TAKE q \in Queues
    <3>1. IsFiniteSet(queue[q])
      BY <1>1
    <3>2. IsFiniteSet(queue[q] \cup {new})
      BY <3>1, FS_AddElement
    <3> QED BY <2>2, <3>1, <3>2
  <2>4. \A q \in Queues : \A r, s \in queue'[q] : r.id = s.id => r = s
    BY <2>1, <2>2, <1>1 DEF IdsOf
  <2>5. \A q \in Queues : accepted'[q] \subseteq IdsOf(queue'[q]) \cup Stored
    <3> TAKE q \in Queues
    <3>1. CASE q = Q
      <4>1. queue'[q] = queue[q] \cup {new} /\ accepted'[q] = accepted[q] \cup {i}
        BY <2>2, <3>1, <1>1, <1>2
      <4>2. IdsOf(queue'[q]) = IdsOf(queue[q]) \cup {i}
        BY <4>1, <1>1 DEF IdsOf
      <4> QED BY <4>1, <4>2, <1>1
    <3>2. CASE q # Q
      BY <2>2, <3>2, <1>1, <1>2
    <3> QED BY <3>1, <3>2
  <2>6. queue' \in [Queues -> SUBSET Record]
    BY <2>1, <1>1
  <2>7. \A q \in Queues : queue[q] \subseteq queue'[q]
    BY <2>2
  <2> QED BY <2>3, <2>4, <2>5, <2>6, <2>7
<1>4. CASE ~Fresh(p, i)
  <2>1. queue' = queue /\ i \in Stored \cup IdsOf(queue[Q])
    BY <1>4, <1>1 DEF AppendRecord, Fresh, Pending
  <2> QED BY <2>1, <1>1, <1>2
<1> QED BY <1>3, <1>4

\* The directories after a step.
QueueTypes ==
  /\ queue \in [Queues -> SUBSET Record]
  /\ \A q \in Queues : IsFiniteSet(queue[q]) /\ \A r, s \in queue[q] : r.id = s.id => r = s

LEMMA QueueStep ==
  ASSUME BucketAssumption, BucketInv, [BucketNext]_bucketVars
  PROVE  QueuesMove /\ QueueTypes' /\ NothingLost'
<1>1. QueueTypes /\ NothingLost /\ Stored \subseteq Stored'
  BY RepoStep DEF BucketInv, BucketTypeOK, QueueTypes
<1>2. CASE UNCHANGED <<queue, accepted>>
  BY <1>1, <1>2 DEF QueuesMove, QueueTypes, NothingLost
<1>3. ASSUME NEW p \in Procs, Drop(p) PROVE QueuesMove /\ QueueTypes' /\ NothingLost'
  <2>1. /\ QueuesMove /\ queue' \in [Queues -> SUBSET Record]
        /\ \A q \in Queues : queue'[q] \subseteq queue[q]
    BY <1>3, DropLeaves
  <2>2. UNCHANGED accepted
    BY <1>3 DEF Drop
  <2>3. QueueTypes'
    BY <2>1, <1>1, FS_Subset DEF QueueTypes
  <2> QED BY <2>1, <2>2, <2>3, <1>1 DEF QueuesMove, NothingLost
<1>4. ASSUME NEW p \in Procs, NEW i \in Ids, AppendRecord(p, i) PROVE QueuesMove /\ QueueTypes' /\ NothingLost'
  BY <1>1, <1>4, AppendAdds, IdsOfSub DEF QueuesMove, QueueTypes, NothingLost
<1>5. UNCHANGED <<queue, accepted>> \/ (\E p \in Procs : Drop(p)) \/ (\E p \in Procs, i \in Ids : AppendRecord(p, i))
  <2>1. ASSUME NEW p \in Procs, FlushStep(p) \/ RequestFails(p) PROVE Drop(p) \/ UNCHANGED <<queue, accepted>>
    BY <2>1 DEF FlushStep, ListPending, NothingPending, LoadPending, Snapshot, CommitBatch,
                AlreadyStored, CommitConflicts, RequestFails
  <2>2. ASSUME NEW p \in Procs, ProcessDies(p) \/ ReadShards(p) \/ ReadQueue(p) PROVE UNCHANGED <<queue, accepted>>
    BY <2>2 DEF ProcessDies, ReadShards, ReadQueue
  <2>3. ReadEnds \/ NewDay \/ UNCHANGED bucketVars => UNCHANGED <<queue, accepted>>
    BY DEF ReadEnds, NewDay, bucketVars
  <2> QED BY <2>1, <2>2, <2>3 DEF BucketNext
<1> QED BY <1>2, <1>3, <1>4, <1>5
-----------------------------------------------------------------------------
(* The flushes after a step. *)

LEMMA FlushKept ==
  ASSUME BucketAssumption, BucketInv, [BucketNext]_bucketVars, NEW p \in Procs
  PROVE  FlushOk(proc[p], Pending(p)', repo')
<1>1. FlushOk(proc[p], Pending(p), repo) /\ repo \in Repo /\ QueueOf[p] \in Queues
  BY DEF BucketInv, BucketTypeOK, FlushesOk, BucketAssumption
<1>2. RepoMoves /\ repo' \in Repo /\ InRepo(repo) \subseteq InRepo(repo')
  BY RepoStep DEF Stored
<1>3. IdsOf(Pending(p)) \subseteq IdsOf(Pending(p)') \cup InRepo(repo')
  BY <1>1, QueueStep DEF QueuesMove, Pending, Stored
<1> QED BY <1>1, <1>2, <1>3, FlushStays DEF RepoMoves

\* It is enough to look at the flush that moves.
LEMMA OneFlushMoves ==
  ASSUME BucketAssumption, BucketInv, [BucketNext]_bucketVars,
         NEW p \in Procs, NEW n, proc' = [proc EXCEPT ![p] = n], FlushOk(n, Pending(p)', repo')
  PROVE  FlushesOk' /\ proc' \in [Procs -> Flush]
<1>1. proc \in [Procs -> Flush] /\ n \in Flush
  BY DEF BucketInv, BucketTypeOK, FlushOk
<1>2. \A o \in Procs : proc'[o] = IF o = p THEN n ELSE proc[o]
  BY <1>1
<1>3. \A o \in Procs : FlushOk(proc[o], Pending(o)', repo')
  BY FlushKept
<1>4. \A o \in Procs : FlushOk(proc'[o], Pending(o)', repo')
  BY <1>2, <1>3
<1> QED BY <1>1, <1>4 DEF FlushesOk

LEMMA EmptyRepoTyped == EmptyRepo \in Repo
BY DEF EmptyRepo, Repo, HeadFile

\* A flush that ends keeps only what its process knows.
LEMMA FinishOk ==
  ASSUME NEW p \in Procs, NEW c \in Flush, NEW Q, NEW r, c.known \subseteq InRepo(r), proc' = Finish(p, c)
  PROVE  \E n : proc' = [proc EXCEPT ![p] = n] /\ FlushOk(n, Q, r)
<1> DEFINE n == [c EXCEPT !.pc = "idle", !.names = {}, !.batch = {}, !.base = EmptyRepo, !.tries = 0]
<1>1. n \in Flush /\ n.known = c.known /\ n.batch = {} /\ n.pc = "idle"
  BY EmptyRepoTyped DEF Flush
<1>2. FlushOk(n, Q, r)
  BY <1>1, FS_EmptySet DEF FlushOk
<1>3. proc' = [proc EXCEPT ![p] = n]
  BY DEF Finish
<1> QED BY <1>2, <1>3

\* Another attempt holds the batch it held.
LEMMA RetryOk ==
  ASSUME BucketAssumption, NEW p \in Procs, proc \in [Procs -> Flush], NEW Q, NEW r, FlushOk(proc[p], Q, r),
         proc[p].pc \in {"snapshot", "commit"}, Retry(p)
  PROVE  \E n : proc' = [proc EXCEPT ![p] = n] /\ FlushOk(n, Q, r)
<1> DEFINE b == proc[p]
<1>1. b \in Flush
  OBVIOUS
<1>2. CASE b.tries + 1 < MaxRetries
  <2> DEFINE n == [b EXCEPT !.pc = "snapshot", !.base = EmptyRepo, !.tries = @ + 1]
  <2>0. b.tries + 1 \in Nat
    BY <1>1 DEF Flush
  <2>1. n \in Flush /\ n.known = b.known /\ n.batch = b.batch /\ n.pc = "snapshot"
    BY <1>1, <2>0, EmptyRepoTyped DEF Flush
  <2>2. FlushOk(n, Q, r)
    BY <2>1 DEF FlushOk
  <2>3. proc' = [proc EXCEPT ![p] = n]
    BY <1>2 DEF Retry
  <2> QED BY <2>2, <2>3
<1>3. CASE ~(b.tries + 1 < MaxRetries)
  <2> DEFINE c == [b EXCEPT !.state = "unreachable"]
  <2>1. c \in Flush /\ c.known \subseteq InRepo(r)
    BY <1>1 DEF Flush, FlushOk
  <2>2. proc' = Finish(p, c)
    BY <1>3 DEF Retry
  <2> QED BY <2>1, <2>2, FinishOk
<1> QED BY <1>2, <1>3

\* A flush whose batch is stored may drop it.
LEMMA MayDrop ==
  ASSUME NEW p \in Procs, NEW Q, NEW r, FlushOk(proc[p], Q, r), IdsOf(proc[p].batch) \subseteq InRepo(r),
         proc' = [proc EXCEPT ![p].pc = "drop"]
  PROVE  \E n : proc' = [proc EXCEPT ![p] = n] /\ FlushOk(n, Q, r)
<1> DEFINE n == [proc[p] EXCEPT !.pc = "drop"]
<1>1. n \in Flush /\ n.known = proc[p].known /\ n.batch = proc[p].batch /\ n.pc = "drop"
  BY DEF Flush, FlushOk
<1>2. FlushOk(n, Q, r) /\ proc' = [proc EXCEPT ![p] = n]
  BY <1>1 DEF FlushOk
<1> QED BY <1>2

LEMMA FlushStepOk ==
  ASSUME BucketAssumption, BucketInv, [BucketNext]_bucketVars, NEW p \in Procs,
         FlushStep(p) \/ RequestFails(p) \/ ProcessDies(p) \/ (\E i \in Ids : AppendRecord(p, i))
  PROVE  \E n : proc' = [proc EXCEPT ![p] = n] /\ FlushOk(n, Pending(p)', repo')
<1> DEFINE b == proc[p]
           Goal == \E n : proc' = [proc EXCEPT ![p] = n] /\ FlushOk(n, Pending(p)', repo')
<1>1. /\ FlushOk(b, Pending(p), repo) /\ FlushOk(b, Pending(p)', repo') /\ b \in Flush
      /\ repo \in Repo /\ QueueOf[p] \in Queues /\ IsFiniteSet(Pending(p)) /\ Pending(p) \subseteq Record
      /\ proc \in [Procs -> Flush]
  BY FlushKept DEF BucketInv, BucketTypeOK, FlushesOk, BucketAssumption, Pending
<1>2. CASE UNCHANGED proc
  <2>1. proc' = [proc EXCEPT ![p] = b]
    BY <1>1, <1>2
  <2> QED BY <1>1, <2>1
<1>3. ASSUME NEW i \in Ids, AppendRecord(p, i) PROVE Goal
  <2>1. CASE Fresh(p, i)
    <3> DEFINE n == [b EXCEPT !.state = IF @ = "unreachable" THEN @ ELSE "queued"]
    <3>1. n \in Flush /\ FlushOk(n, Pending(p)', repo')
      BY <1>1 DEF Flush, FlushOk
    <3>2. proc' = [proc EXCEPT ![p] = n]
      BY <1>3, <2>1 DEF AppendRecord
    <3> QED BY <3>1, <3>2
  <2>2. CASE ~Fresh(p, i)
    BY <1>2, <1>3, <2>2 DEF AppendRecord
  <2> QED BY <2>1, <2>2
<1>4. CASE ListPending(p)
  <2> DEFINE n == [b EXCEPT !.pc = "load", !.names = IdsOf(Pending(p))]
  <2>1. IdsOf(Pending(p)) \subseteq Ids
    BY <1>1 DEF IdsOf, Record
  <2>2. n \in Flush /\ FlushOk(n, Pending(p)', repo')
    BY <1>1, <2>1 DEF Flush, FlushOk
  <2>3. proc' = [proc EXCEPT ![p] = n]
    BY <1>4 DEF ListPending
  <2> QED BY <2>2, <2>3
<1>5. CASE NothingPending(p)
  <2> DEFINE n == [b EXCEPT !.state = "idle"]
  <2>1. n \in Flush /\ FlushOk(n, Pending(p)', repo')
    BY <1>1 DEF Flush, FlushOk
  <2>2. proc' = [proc EXCEPT ![p] = n]
    BY <1>5 DEF NothingPending
  <2> QED BY <2>1, <2>2
<1>6. CASE LoadPending(p)
  <2> DEFINE B == {r \in Pending(p) : r.id \in b.names}
             c == Succeeded(b, Pending(p))
             n == [b EXCEPT !.pc = "snapshot", !.batch = B]
  <2>1. CASE B = {}
    <3>1. c \in Flush /\ c.known \subseteq InRepo(repo')
      BY <1>1 DEF Succeeded, Flush, FlushOk
    <3>2. proc' = Finish(p, c)
      BY <1>6, <2>1 DEF LoadPending
    <3> QED BY <3>1, <3>2, FinishOk
  <2>2. CASE B # {}
    <3>1. IsFiniteSet(B) /\ B \subseteq Record /\ Pending(p)' = Pending(p)
      BY <1>1, <1>6, FS_Subset DEF LoadPending, Pending
    <3>2. IdsOf(B) \subseteq IdsOf(Pending(p)')
      BY <3>1, IdsOfSub
    <3>3. n \in Flush /\ n.batch = B /\ n.known = b.known /\ n.pc = "snapshot"
      BY <1>1, <3>1 DEF Flush
    <3>4. FlushOk(n, Pending(p)', repo')
      BY <1>1, <3>1, <3>2, <3>3 DEF FlushOk
    <3>5. proc' = [proc EXCEPT ![p] = n]
      BY <1>6, <2>2 DEF LoadPending
    <3> QED BY <3>4, <3>5
  <2> QED BY <2>1, <2>2
<1>7. CASE Snapshot(p)
  <2> DEFINE n == [b EXCEPT !.pc = "commit", !.base = repo]
  <2>1. b.pc = "snapshot" /\ repo' = repo
    BY <1>7 DEF Snapshot, FlushAt
  <2>2. n \in Flush /\ n.batch = b.batch /\ n.known = b.known /\ n.pc = "commit" /\ n.base = repo
    BY <1>1 DEF Flush
  <2>3. repo.rev \in Nat
    BY <1>1 DEF Repo
  <2>4. FlushOk(n, Pending(p)', repo')
    BY <1>1, <2>1, <2>2, <2>3 DEF FlushOk
  <2>5. proc' = [proc EXCEPT ![p] = n]
    BY <1>7 DEF Snapshot
  <2> QED BY <2>4, <2>5
<1>8. CASE CommitBatch(p)
  <2>1. IdsOf(b.batch) \subseteq InRepo(repo')
    BY <1>8, WriteGrows DEF CommitBatch, Stored
  <2>2. proc' = [proc EXCEPT ![p].pc = "drop"]
    BY <1>8 DEF CommitBatch
  <2> QED BY <1>1, <2>1, <2>2, MayDrop
<1>9. CASE AlreadyStored(p)
  <2>1. b.pc = "commit" /\ Changed(b) = {} /\ repo' = repo /\ proc' = [proc EXCEPT ![p].pc = "drop"]
    BY <1>9 DEF AlreadyStored, FlushAt
  <2>2. ASSUME NEW r \in b.batch PROVE r.id \in InRepo(b.base)
    <3>1. r = [id |-> r.id, day |-> r.day] /\ r.id \in Ids /\ r.day \in Days
      BY <1>1 DEF Flush, Record
    <3>2. r.id \notin Additions(b, r.day)
      BY <2>1, <3>1 DEF Changed
    <3>3. r.id \in Shard(b.base, r.day)
      BY <3>1, <3>2 DEF Additions
    <3> QED BY <3>1, <3>3 DEF InRepo
  <2>3. IdsOf(b.batch) \subseteq InRepo(repo')
    BY <1>1, <2>1, <2>2 DEF FlushOk, IdsOf
  <2> QED BY <1>1, <2>1, <2>3, MayDrop
<1>10. CASE CommitConflicts(p) \/ RequestFails(p)
  <2>1. Retry(p) /\ b.pc \in {"snapshot", "commit"}
    BY <1>10 DEF CommitConflicts, RequestFails, FlushAt
  <2> QED BY <1>1, <2>1, RetryOk
<1>11. CASE Drop(p)
  <2> DEFINE rest == {r \in Pending(p) : r.id \notin IdsOf(b.batch)}
             c == Succeeded([b EXCEPT !.known = @ \cup IdsOf(b.batch)], rest)
  <2>1. b.pc = "drop" /\ proc' = Finish(p, c) /\ repo' = repo
    BY <1>11 DEF Drop, FlushAt
  <2>2. IdsOf(b.batch) \subseteq Ids
    BY <1>1 DEF Flush, Record, IdsOf
  <2>3. c \in Flush /\ c.known = b.known \cup IdsOf(b.batch)
    BY <1>1, <2>2 DEF Succeeded, Flush
  <2>4. c.known \subseteq InRepo(repo')
    BY <1>1, <2>1, <2>3 DEF FlushOk
  <2> HIDE DEF c
  <2> QED BY <2>1, <2>3, <2>4, FinishOk
<1>12. CASE ProcessDies(p)
  <2> DEFINE n == Bucket(Pending(p))
  <2>1. n \in Flush /\ n.batch = {} /\ n.known = {} /\ n.pc = "idle"
    BY EmptyRepoTyped DEF Bucket, Flush
  <2>2. FlushOk(n, Pending(p)', repo')
    BY <2>1, FS_EmptySet DEF FlushOk
  <2>3. proc' = [proc EXCEPT ![p] = n]
    BY <1>12 DEF ProcessDies
  <2> QED BY <2>2, <2>3
<1> QED BY <1>3, <1>4, <1>5, <1>6, <1>7, <1>8, <1>9, <1>10, <1>11, <1>12 DEF FlushStep

LEMMA FlushesStep ==
  ASSUME BucketAssumption, BucketInv, [BucketNext]_bucketVars
  PROVE  FlushesOk' /\ proc' \in [Procs -> Flush]
<1>1. ASSUME NEW p \in Procs,
             FlushStep(p) \/ RequestFails(p) \/ ProcessDies(p) \/ (\E i \in Ids : AppendRecord(p, i))
      PROVE  FlushesOk' /\ proc' \in [Procs -> Flush]
  BY <1>1, FlushStepOk, OneFlushMoves
<1>2. CASE UNCHANGED proc
  BY <1>2, FlushKept DEF FlushesOk, BucketInv, BucketTypeOK
<1>3. ASSUME NEW p \in Procs, ReadShards(p) \/ ReadQueue(p) PROVE UNCHANGED proc
  BY <1>3 DEF ReadShards, ReadQueue
<1>4. ReadEnds \/ NewDay \/ UNCHANGED bucketVars => UNCHANGED proc
  BY DEF ReadEnds, NewDay, bucketVars
<1> QED BY <1>1, <1>2, <1>3, <1>4 DEF BucketNext
-----------------------------------------------------------------------------
(* The reader *)

Reading == [pc : Procs \cup {"idle", "done"}, before : SUBSET Ids, got : SUBSET Ids, whole : BOOLEAN]

LEMMA ReaderStep ==
  ASSUME BucketAssumption, BucketInv, [BucketNext]_bucketVars
  PROVE  MissedIsStored' /\ ReaderMisses' /\ reader' \in Reading
<1>1. /\ reader \in Reading /\ MissedIsStored /\ ReaderMisses /\ QueuesMove /\ Stored \subseteq Stored'
      /\ Procs \cap {"idle", "done"} = {} /\ QueueOf \in [Procs -> Queues]
      /\ \A q \in Queues : accepted[q] \subseteq IdsOf(queue[q]) \cup Stored /\ accepted[q] \subseteq Ids
      /\ \A q \in Queues : queue[q] \subseteq Record
      /\ Stored \subseteq Ids /\ \A d \in Days : Shard(repo, d) \subseteq Ids
  <2>1. \A d \in Days : Shard(repo, d) \subseteq Ids
    <3>1. repo.shards \in [Days -> Seq(Ids)]
      BY DEF BucketInv, BucketTypeOK, Repo
    <3> QED BY <3>1 DEF Shard, Range
  <2> QED BY <2>1, QueueStep, RepoStep
          DEF BucketInv, BucketTypeOK, BucketAssumption, Reading, NothingLost, Stored, InRepo
<1>2. CASE UNCHANGED reader
  BY <1>1, <1>2 DEF MissedIsStored, ReaderMisses, QueuesMove, Pending
<1>3. ASSUME NEW p \in Procs, ReadShards(p) PROVE MissedIsStored' /\ ReaderMisses' /\ reader' \in Reading
  <2>1. UNCHANGED <<queue, accepted, repo>> /\ QueueOf[p] \in Queues
    BY <1>1, <1>3 DEF ReadShards
  <2>2. CASE reader' = [pc |-> p, before |-> Stored \cup accepted[QueueOf[p]], got |-> Stored, whole |-> TRUE]
    BY <1>1, <2>1, <2>2 DEF MissedIsStored, ReaderMisses, Reading, Pending, Stored
  <2>3. ASSUME NEW D \in SUBSET Days,
               reader' = [pc |-> p, before |-> {}, got |-> UNION {Shard(repo, d) : d \in D}, whole |-> FALSE]
        PROVE  MissedIsStored' /\ ReaderMisses' /\ reader' \in Reading
    BY <1>1, <2>3 DEF MissedIsStored, ReaderMisses, Reading
  <2> QED BY <1>3, <2>2, <2>3 DEF ReadShards
<1>4. ASSUME NEW p \in Procs, ReadQueue(p) PROVE MissedIsStored' /\ ReaderMisses' /\ reader' \in Reading
  <2>1. /\ reader.pc = p /\ reader' = [reader EXCEPT !.pc = "done", !.got = @ \cup IdsOf(Pending(p))]
        /\ UNCHANGED <<queue, repo>>
    BY <1>4 DEF ReadQueue
  <2>2. IdsOf(Pending(p)) \subseteq Ids
    BY <1>1 DEF IdsOf, Record, Pending
  <2>3. reader' \in Reading /\ reader'.pc = "done" /\ reader'.whole = reader.whole /\ reader'.before = reader.before
        /\ reader'.got = reader.got \cup IdsOf(Pending(p))
    BY <1>1, <2>1, <2>2 DEF Reading
  <2> QED BY <1>1, <2>1, <2>3 DEF MissedIsStored, ReaderMisses, Stored
<1>5. CASE ReadEnds
  <2>1. reader' = NoRead
    BY <1>5 DEF ReadEnds
  <2> QED BY <1>1, <2>1 DEF NoRead, MissedIsStored, ReaderMisses, Reading
<1>6. UNCHANGED reader \/ ReadEnds \/ \E p \in Procs : ReadShards(p) \/ ReadQueue(p)
  <2>1. ASSUME NEW p \in Procs, FlushStep(p) \/ RequestFails(p) \/ ProcessDies(p) PROVE UNCHANGED reader
    BY <2>1 DEF FlushStep, ListPending, NothingPending, LoadPending, Snapshot, CommitBatch,
                AlreadyStored, CommitConflicts, Drop, RequestFails, ProcessDies
  <2>2. ASSUME NEW p \in Procs, NEW i \in Ids, AppendRecord(p, i) PROVE UNCHANGED reader
    BY <2>2 DEF AppendRecord
  <2>3. NewDay \/ UNCHANGED bucketVars => UNCHANGED reader
    BY DEF NewDay, bucketVars
  <2> QED BY <2>1, <2>2, <2>3 DEF BucketNext
<1> QED BY <1>2, <1>3, <1>4, <1>5, <1>6
-----------------------------------------------------------------------------
(* The invariant *)

LEMMA CountersStep ==
  ASSUME BucketAssumption, BucketInv, [BucketNext]_bucketVars
  PROVE  accepted' \in [Queues -> SUBSET Ids] /\ today' \in Days /\ {appends', readAlls', failures'} \subseteq Nat
<1> DEFINE Counts == /\ accepted' \in [Queues -> SUBSET Ids] /\ today' \in Days
                     /\ {appends', readAlls', failures'} \subseteq Nat
<1>1. accepted \in [Queues -> SUBSET Ids] /\ today \in Days /\ {appends, readAlls, failures} \subseteq Nat
  BY DEF BucketInv, BucketTypeOK
<1>2. ASSUME NEW p \in Procs, FlushStep(p) \/ RequestFails(p) \/ ProcessDies(p) PROVE Counts
  BY <1>1, <1>2 DEF FlushStep, ListPending, NothingPending, LoadPending, Snapshot, CommitBatch,
                    AlreadyStored, CommitConflicts, Drop, RequestFails, ProcessDies, HubFails
<1>3. ASSUME NEW p \in Procs, ReadShards(p) \/ ReadQueue(p) PROVE Counts
  BY <1>1, <1>3 DEF ReadShards, ReadQueue, HubFails
<1>4. ASSUME NEW p \in Procs, NEW i \in Ids, AppendRecord(p, i) PROVE Counts
  BY <1>1, <1>4 DEF AppendRecord
<1>5. ReadEnds \/ NewDay \/ UNCHANGED bucketVars => Counts
  BY <1>1 DEF ReadEnds, NewDay, bucketVars, Days, BucketAssumption
<1> QED BY <1>2, <1>3, <1>4, <1>5 DEF BucketNext

LEMMA BucketInitHolds == ASSUME BucketAssumption, BucketInit PROVE BucketInv
<1>1. Stored = {} /\ EntriesOnce /\ HeadMatches
  <2>1. repo.shards = [d \in Days |-> <<>>] /\ repo.head = [count |-> 0, last |-> {}]
    BY DEF BucketInit, EmptyRepo
  <2>2. \A d \in Days : repo.shards[d] = <<>> /\ Shard(repo, d) = {}
    BY <2>1 DEF Shard, Range
  <2>3. {d \in Days : repo.shards[d] # <<>>} = {}
    BY <2>2
  <2>4. HeadOf(repo.shards) = [count |-> Cardinality({}), last |-> {}]
    BY <2>3 DEF HeadOf
  <2>5. \A d \in Days : DOMAIN repo.shards[d] = {}
    BY <2>2
  <2>6. Stored = {} /\ EntriesOnce
    BY <2>2, <2>5 DEF Stored, InRepo, EntriesOnce, IsInjective
  <2>7. HeadMatches
    BY <2>1, <2>4, FS_EmptySet DEF HeadMatches
  <2> QED BY <2>6, <2>7
<1>2. /\ Bucket({}) \in Flush /\ Bucket({}).pc = "idle" /\ Bucket({}).batch = {} /\ Bucket({}).known = {}
  BY EmptyRepoTyped DEF Bucket, Flush
<1>3. BucketTypeOK
  BY <1>2, EmptyRepoTyped DEF BucketInit, BucketTypeOK, NoRead, Days, BucketAssumption
<1>4. FlushesOk
  BY <1>2, FS_EmptySet DEF BucketInit, FlushesOk, FlushOk
<1>5. NothingLost /\ MissedIsStored /\ ReaderMisses /\ \A q \in Queues : IsFiniteSet(queue[q])
  BY FS_EmptySet DEF BucketInit, NothingLost, MissedIsStored, ReaderMisses, NoRead
<1> QED BY <1>1, <1>3, <1>4, <1>5 DEF BucketInv

LEMMA BucketStep == ASSUME BucketAssumption, BucketInv, [BucketNext]_bucketVars PROVE BucketInv'
<1>1. BucketTypeOK'
  BY RepoStep, QueueStep, FlushesStep, ReaderStep, CountersStep DEF BucketTypeOK, QueueTypes, Reading
<1>2. \A q \in Queues : IsFiniteSet(queue'[q])
  BY QueueStep DEF QueueTypes
<1> QED BY <1>1, <1>2, RepoStep, QueueStep, FlushesStep, ReaderStep DEF BucketInv

\* The bucket's invariant: a flush in progress holds what is still to be
\* stored, on a snapshot that is the repository of its revision.
THEOREM BucketInvariant == BucketSpec => []BucketInv
<1>1. BucketAssumption
  BY BucketAssumption
<1> QED BY <1>1, BucketInitHolds, BucketStep, PTL DEF BucketSpec

\* szl_hf_bucket.py:12-46: for any number of processes, directories, records
\* and days, with rival commits, lost answers, failing requests and crashes, no
\* accepted record is lost, none is taken for stored that is not, no shard
\* holds one twice, head.json agrees with the shards, and a reader misses only
\* what has gone into the repository.
THEOREM BucketIsSound == BucketSpec => []BucketSound
<1>1. BucketInv => BucketSound
  BY DEF BucketInv, BucketSound, KnownIsStored, FlushesOk, FlushOk, FlushAt, Stored
<1> QED BY <1>1, BucketInvariant, PTL
-----------------------------------------------------------------------------
(* The refinement *)

waitingIds == (UNION {IdsOf(queue[q]) : q \in Queues}) \ Stored

LEMMA ArchiveInit == ASSUME BucketAssumption, BucketInit PROVE Archive!Init
<1>1. Stored = {}
  <2>1. \A d \in Days : Shard(repo, d) = {}
    BY DEF BucketInit, EmptyRepo, Shard, Range
  <2> QED BY <2>1 DEF Stored, InRepo
<1>2. \A q \in Queues : IdsOf(queue[q]) = {}
  BY DEF BucketInit, IdsOf
<1> QED BY <1>1, <1>2 DEF Archive!Init

ArchiveNext == (\E i \in Ids : Archive!Accept(i)) \/ (\E S \in SUBSET Ids : Archive!ArchiveSome(S))

LEMMA ArchiveStep ==
  ASSUME BucketAssumption, BucketInv, [BucketNext]_bucketVars
  PROVE  ArchiveNext \/ (waitingIds' = waitingIds /\ Stored' = Stored)
<1> DEFINE Same == waitingIds' = waitingIds /\ Stored' = Stored
<1>0. /\ \A i : i \in waitingIds <=> i \notin Stored /\ \E q \in Queues : i \in IdsOf(queue[q])
      /\ \A i : i \in waitingIds' <=> i \notin Stored' /\ \E q \in Queues : i \in IdsOf(queue'[q])
  BY DEF waitingIds, IdsOf
<1>1. /\ Stored \subseteq Stored' /\ QueuesMove /\ queue \in [Queues -> SUBSET Record]
      /\ QueueOf \in [Procs -> Queues]
  BY RepoStep, QueueStep DEF BucketInv, BucketTypeOK, BucketAssumption
<1>2. ASSUME UNCHANGED <<repo, queue>> PROVE Same
  BY <1>2 DEF waitingIds, Stored
\* The ids of the batch that the repository did not have.
<1>3. ASSUME NEW p \in Procs, FlushAt(p, "commit"), ParentIsHead(proc[p]), repo' = Written(proc[p]), UNCHANGED queue
      PROVE  ArchiveNext
  <2> DEFINE S == Stored' \ Stored
  <2>1. FlushOk(proc[p], Pending(p), repo) /\ QueueOf[p] \in Queues
    BY <1>1 DEF BucketInv, FlushesOk
  <2>2. Stored' \subseteq Stored \cup IdsOf(proc[p].batch) /\ IdsOf(proc[p].batch) \subseteq IdsOf(Pending(p)) \cup Stored
    BY <1>3, <2>1, WriteGrows DEF FlushOk, FlushAt, Stored
  <2>3. S \subseteq waitingIds
    BY <1>0, <2>1, <2>2 DEF Pending
  <2>4. waitingIds \subseteq Ids
    BY <1>0, <1>1 DEF IdsOf, Record
  <2>5. Stored' = Stored \cup S /\ waitingIds' = waitingIds \ S
    BY <1>0, <1>1, <1>3
  <2>6. Archive!ArchiveSome(S)
    BY <2>3, <2>5 DEF Archive!ArchiveSome, waitingIds
  <2> QED BY <2>3, <2>4, <2>6 DEF ArchiveNext
<1>4. ASSUME NEW p \in Procs, Drop(p) PROVE Same
  <2>1. UNCHANGED repo /\ \A q \in Queues : queue'[q] \subseteq queue[q]
    BY <1>4, DropLeaves DEF Drop
  <2>2. \A q \in Queues : IdsOf(queue'[q]) \subseteq IdsOf(queue[q]) /\ IdsOf(queue[q]) \subseteq IdsOf(queue'[q]) \cup Stored
    BY <1>1, <2>1, IdsOfSub DEF QueuesMove, Stored
  <2>3. Stored' = Stored
    BY <2>1 DEF Stored
  <2>4. \A i : i \in waitingIds' <=> i \in waitingIds
    BY <1>0, <2>2, <2>3
  <2> QED BY <2>3, <2>4
<1>5. ASSUME NEW p \in Procs, NEW i \in Ids, AppendRecord(p, i) PROVE ArchiveNext \/ Same
  <2>1. UNCHANGED repo /\ UNCHANGED Stored /\ QueueOf[p] \in Queues
    BY <1>1, <1>5 DEF AppendRecord, Stored
  <2>2. CASE ~Fresh(p, i)
    BY <1>2, <1>5, <2>1, <2>2 DEF AppendRecord
  <2>3. CASE Fresh(p, i)
    <3> DEFINE new == [id |-> i, day |-> today]
    <3>1. queue' = [queue EXCEPT ![QueueOf[p]] = @ \cup {new}] /\ new.id = i
      BY <1>5, <2>3 DEF AppendRecord
    <3>2. \A q \in Queues : IdsOf(queue'[q]) = IF q = QueueOf[p] THEN IdsOf(queue[q]) \cup {i} ELSE IdsOf(queue[q])
      BY <1>1, <2>1, <3>1 DEF IdsOf
    <3>3. \A j : j \in waitingIds' <=> j \notin Stored /\ (j = i \/ j \in waitingIds)
      BY <1>0, <2>1, <3>2
    <3>4. CASE i \in Stored
      <4>1. \A j : j \in waitingIds' <=> j \in waitingIds
        BY <1>0, <3>3, <3>4
      <4> QED BY <2>1, <4>1
    <3>5. CASE i \notin Stored
      <4>1. \A j : j \in waitingIds' <=> j \in waitingIds \cup {i}
        BY <1>0, <3>3, <3>5
      <4>2. Archive!Accept(i)
        BY <2>1, <3>5, <4>1 DEF Archive!Accept, waitingIds
      <4> QED BY <4>2 DEF ArchiveNext
    <3> QED BY <3>4, <3>5
  <2> QED BY <2>2, <2>3
<1>6. ASSUME NEW p \in Procs, FlushStep(p) \/ RequestFails(p) PROVE ArchiveNext \/ Same
  <2>1. \/ Drop(p) \/ UNCHANGED <<repo, queue>>
        \/ FlushAt(p, "commit") /\ ParentIsHead(proc[p]) /\ repo' = Written(proc[p]) /\ UNCHANGED queue
    BY <1>6 DEF FlushStep, ListPending, NothingPending, LoadPending, Snapshot, CommitBatch,
                AlreadyStored, CommitConflicts, RequestFails
  <2> QED BY <1>2, <1>3, <1>4, <2>1
<1>7. ASSUME NEW p \in Procs, ProcessDies(p) \/ ReadShards(p) \/ ReadQueue(p) PROVE Same
  BY <1>2, <1>7 DEF ProcessDies, ReadShards, ReadQueue
<1>8. ReadEnds \/ NewDay \/ UNCHANGED bucketVars => Same
  BY <1>2 DEF ReadEnds, NewDay, bucketVars
<1> QED BY <1>5, <1>6, <1>7, <1>8 DEF BucketNext

\* Queue and repository are an archive: what append accepts waits until one
\* commit archives it, and what is archived stays (a drop, a retry, a crash and
\* a second commit of the same records are stutters).
THEOREM ImplementsArchive == BucketSpec => ArchiveSpec
<1>1. BucketAssumption
  BY BucketAssumption
<1>2. BucketInv /\ [BucketNext]_bucketVars => [ArchiveNext]_<<waitingIds, Stored>>
  BY <1>1, ArchiveStep
<1>3. BucketInit => Archive!Init
  BY <1>1, ArchiveInit
<1>4. BucketSpec => Archive!Init /\ [][ArchiveNext]_<<waitingIds, Stored>>
  BY <1>2, <1>3, BucketInvariant, PTL DEF BucketSpec
<1> QED BY <1>4, PTL DEF ArchiveSpec, Archive!Spec, ArchiveNext, waitingIds

-----------------------------------------------------------------------------
(* The receipt ledger *)

\* The process has built a node that is not rejected yet.
Underway(p) ==
  \/ pc[p] \in {"admit", "store", "confirm"}
  \/ pc[p] \in {"replay", "verify"} /\ then[p] = "admit"

\* A pending node is new to the part of the chain it was built on.
NodeIsNew == \A p \in Servers : Underway(p) =>
  /\ node[p] \in Node
  /\ node[p].index <= Len(chain)
  /\ node[p].key # NoKey => \A i \in 1..node[p].index : chain[i].key # node[p].key

SnapIsStored == \A p \in Servers : Begins(snap[p], chain)

LedgerInv ==
  /\ LedgerTypeOK
  /\ ChainIntegrity /\ OneReceiptPerMutation
  /\ ProjectionIsStored /\ SnapIsStored /\ ReturnedIsStored
  /\ NodeIsNew

\* The stored chain stays as it is, or grows by the node of one process.
ChainStep ==
  \/ UNCHANGED chain
  \/ \E p \in Servers : /\ pc[p] = "store" /\ Extends(node[p], chain)
                        /\ chain' = Append(chain, node[p])

\* Every step of the specification is a ChainStep.
LEMMA StepsExtendChain == ASSUME [LedgerNext]_ledgerVars PROVE ChainStep
<1>1. CASE UNCHANGED ledgerVars
  BY <1>1 DEF ledgerVars, ChainStep
<1>2. ASSUME NEW p \in Servers, Step(p) PROVE ChainStep
  BY <1>2 DEF Step, Replay, VerifyReplay, ReturnExisting, RefuseMaterial, BuildNode, RecoverInAppend,
     RejectCandidate, Admit, Store, StoreRefuses, Confirm, ChainStep
<1>3. ASSUME NEW p \in Servers, Failure(p) PROVE ChainStep
  BY <1>3 DEF Failure, StartupFails, AppendFails, ProbeFails, CrashAndRestart, ChainStep
<1>4. ASSUME NEW p \in Servers, Recover(p) \/ IntervalPasses(p) \/ \E j \in Job : Emit(p, j) PROVE ChainStep
  BY <1>4 DEF Recover, IntervalPasses, Emit, ChainStep
<1> QED BY <1>1, <1>2, <1>3, <1>4 DEF LedgerNext

\* A prefix of the chain stays one while the chain grows.
LEMMA PrefixStays ==
  ASSUME NEW s \in Seq(Node), NEW c \in Seq(Node), NEW n \in Node, Begins(s, c)
  PROVE  Begins(s, Append(c, n))
BY DEF Begins

\* The digest a node has to extend is a digest or 0.
LEMMA HeadIsNat == ASSUME NEW s \in Seq(Node) PROVE HeadId(s) \in Nat
<1>1. CASE s = <<>>
  BY <1>1 DEF HeadId
<1>2. CASE s # <<>>
  <2>1. Len(s) \in DOMAIN s
    BY <1>2
  <2>2. s[Len(s)] \in Node
    BY <2>1
  <2> QED BY <1>2, <2>2 DEF HeadId, Node
<1> QED BY <1>1, <1>2

LEMMA LedgerInitHolds == LedgerInit => LedgerInv
<1> SUFFICES ASSUME LedgerInit PROVE LedgerInv
  OBVIOUS
<1>1. (CHOOSE m \in Materials : TRUE) \in Materials
  BY LedgerAssumption
<1>2. LedgerTypeOK
  BY <1>1 DEF LedgerInit, LedgerTypeOK, Job, AllKeys
<1>3. ChainIntegrity /\ OneReceiptPerMutation /\ ReturnedIsStored
  BY DEF LedgerInit, ChainIntegrity, LocalIntegrity, OneReceiptPerMutation, ReturnedIsStored
<1>4. ProjectionIsStored /\ SnapIsStored
  BY DEF LedgerInit, ProjectionIsStored, SnapIsStored, Begins
<1>5. NodeIsNew
  BY DEF LedgerInit, NodeIsNew, Underway
<1> QED BY <1>2, <1>3, <1>4, <1>5 DEF LedgerInv

LEMMA LedgerTypeStep == ASSUME LedgerTypeOK, NodeIsNew, [LedgerNext]_ledgerVars PROVE LedgerTypeOK'
<1>1. CASE UNCHANGED ledgerVars
  BY <1>1 DEF ledgerVars, LedgerTypeOK
<1>2. ASSUME NEW p \in Servers, NEW j \in Job, Emit(p, j) PROVE LedgerTypeOK'
  BY <1>2 DEF LedgerTypeOK, Emit, Startup, Goto, local
<1>3. ASSUME NEW p \in Servers, Replay(p) PROVE LedgerTypeOK'
  BY <1>3 DEF LedgerTypeOK, Replay, Goto, local
<1>8. ASSUME NEW p \in Servers, VerifyReplay(p) PROVE LedgerTypeOK'
  <2>1. dag' \in [Servers -> Seq(Node)]
    <3>1. snap[p] \in Seq(Node)
      BY DEF LedgerTypeOK
    <3> QED BY <1>8, <3>1 DEF LedgerTypeOK, VerifyReplay
  <2>3. snap' \in [Servers -> Seq(Node)]
    <3>1. <<>> \in Seq(Node)
      OBVIOUS
    <3> QED BY <1>8, <3>1 DEF LedgerTypeOK, VerifyReplay
  <2>4. ready' \in [Servers -> BOOLEAN] /\ due' \in [Servers -> BOOLEAN]
    BY <1>8 DEF LedgerTypeOK, VerifyReplay, Fail
  <2>2. pc' \in [Servers -> {"idle", "replay", "verify", "scan", "admit", "store", "confirm"}]
    BY <1>8 DEF LedgerTypeOK, VerifyReplay, Goto
  <2> QED BY <1>8, <2>1, <2>2, <2>3, <2>4 DEF LedgerTypeOK, VerifyReplay, local
<1>9. ASSUME NEW p \in Servers, StartupFails(p) PROVE LedgerTypeOK'
  <2>1. dag' \in [Servers -> Seq(Node)]
    <3>1. snap[p] \in Seq(Node)
      BY DEF LedgerTypeOK
    <3> QED BY <1>9, <3>1 DEF LedgerTypeOK, StartupFails
  <2>3. snap' \in [Servers -> Seq(Node)]
    <3>1. <<>> \in Seq(Node)
      OBVIOUS
    <3> QED BY <1>9, <3>1 DEF LedgerTypeOK, StartupFails
  <2>4. ready' \in [Servers -> BOOLEAN] /\ due' \in [Servers -> BOOLEAN]
    BY <1>9 DEF LedgerTypeOK, StartupFails, Fail
  <2>2. pc' \in [Servers -> {"idle", "replay", "verify", "scan", "admit", "store", "confirm"}]
    BY <1>9 DEF LedgerTypeOK, StartupFails, Goto
  <2> QED BY <1>9, <2>1, <2>2, <2>3, <2>4 DEF LedgerTypeOK, StartupFails, LedgerFault, local
<1>4. ASSUME NEW p \in Servers, ReturnExisting(p) PROVE LedgerTypeOK'
  <2>1. \E i \in DOMAIN dag[p] : returned' = returned \cup {dag[p][i]}
    BY <1>4 DEF ReturnExisting, Matches
  <2>2. returned' \subseteq Node
    BY <2>1 DEF LedgerTypeOK
  <2> QED BY <1>4, <2>2 DEF LedgerTypeOK, ReturnExisting, Goto, local
<1>5. ASSUME NEW p \in Servers, RefuseMaterial(p) PROVE LedgerTypeOK'
  BY <1>5 DEF LedgerTypeOK, RefuseMaterial, Goto, local
<1>6. ASSUME NEW p \in Servers, BuildNode(p) PROVE LedgerTypeOK'
  <2>1. HeadId(dag[p]) \in Nat
    BY HeadIsNat DEF LedgerTypeOK
  <2>2. node' \in [Servers -> Node \cup {<<>>}]
    BY <1>6, <2>1 DEF LedgerTypeOK, BuildNode, Node, Job
  <2> QED BY <1>6, <2>2 DEF LedgerTypeOK, BuildNode, Goto
<1>7. ASSUME NEW p \in Servers, RecoverInAppend(p) \/ RejectCandidate(p) \/ Admit(p) \/ StoreRefuses(p) PROVE LedgerTypeOK'
  BY <1>7 DEF LedgerTypeOK, RecoverInAppend, RejectCandidate, Admit, StoreRefuses, Startup, Fail, Goto, local
<1>10. ASSUME NEW p \in Servers, Store(p) PROVE LedgerTypeOK'
  <2>1. chain' \in Seq(Node)
    BY <1>10 DEF Store, NodeIsNew, Underway, LedgerTypeOK
  <2> QED BY <1>10, <2>1 DEF LedgerTypeOK, Store, Goto, local
<1>11. ASSUME NEW p \in Servers, Confirm(p) PROVE LedgerTypeOK'
  <2>1. node[p] \in Node
    BY <1>11 DEF Confirm, NodeIsNew, Underway
  <2>2. dag' \in [Servers -> Seq(Node)]
    <3>1. Append(dag[p], node[p]) \in Seq(Node)
      BY <2>1 DEF LedgerTypeOK
    <3> QED BY <1>11, <3>1 DEF LedgerTypeOK, Confirm
  <2>5. returned' \subseteq Node
    BY <1>11, <2>1 DEF LedgerTypeOK, Confirm
  <2>3. ready' \in [Servers -> BOOLEAN] /\ due' \in [Servers -> BOOLEAN]
    BY <1>11 DEF LedgerTypeOK, Confirm, Fail
  <2>4. node' \in [Servers -> Node \cup {<<>>}]
    BY <1>11 DEF LedgerTypeOK, Confirm
  <2> QED BY <1>11, <2>2, <2>3, <2>4, <2>5 DEF LedgerTypeOK, Confirm, Goto
<1>12. ASSUME NEW p \in Servers, AppendFails(p) PROVE LedgerTypeOK'
  <2>1. chain' \in Seq(Node)
    <3>1. node[p] \in Node
      BY <1>12 DEF AppendFails, NodeIsNew, Underway
    <3>2. Append(chain, node[p]) \in Seq(Node)
      BY <3>1 DEF LedgerTypeOK
    <3> QED BY <1>12, <3>2 DEF AppendFails, LedgerTypeOK
  <2>2. ready' \in [Servers -> BOOLEAN] /\ due' \in [Servers -> BOOLEAN]
    BY <1>12 DEF LedgerTypeOK, AppendFails, Fail
  <2>3. node' \in [Servers -> Node \cup {<<>>}]
    BY <1>12 DEF LedgerTypeOK, AppendFails
  <2> QED BY <1>12, <2>1, <2>2, <2>3 DEF LedgerTypeOK, AppendFails, LedgerFault, Goto
<1>13. ASSUME NEW p \in Servers, Recover(p) \/ IntervalPasses(p) PROVE LedgerTypeOK'
  BY <1>13 DEF LedgerTypeOK, Recover, IntervalPasses, Startup, Goto, local
<1>17. ASSUME NEW p \in Servers, ProbeFails(p) PROVE LedgerTypeOK'
  BY <1>17 DEF LedgerTypeOK, ProbeFails, Fail, LedgerFault, local
<1>14. ASSUME NEW p \in Servers, CrashAndRestart(p) PROVE LedgerTypeOK'
  BY <1>14 DEF LedgerTypeOK, CrashAndRestart, Startup, LedgerFault, Goto
<1>15. ASSUME NEW p \in Servers, Step(p) PROVE LedgerTypeOK'
  BY <1>15, <1>3, <1>4, <1>5, <1>6, <1>7, <1>8, <1>10, <1>11 DEF Step
<1>16. ASSUME NEW p \in Servers, Failure(p) PROVE LedgerTypeOK'
  BY <1>16, <1>9, <1>12, <1>14, <1>17 DEF Failure
<1> QED BY <1>1, <1>2, <1>13, <1>15, <1>16 DEF LedgerNext

\* The node a process stores is the one it built, and it is new to the whole chain.
LEMMA ChainGrows ==
  ASSUME LedgerInv, ChainStep
  PROVE  /\ chain' \in Seq(Node)
         /\ Len(chain) <= Len(chain') /\ \A i \in 1..Len(chain) : chain'[i] = chain[i]
         /\ ChainIntegrity' /\ OneReceiptPerMutation'
<1>1. CASE UNCHANGED chain
  BY <1>1 DEF LedgerInv, LedgerTypeOK, ChainIntegrity, OneReceiptPerMutation
<1>2. ASSUME NEW p \in Servers, pc[p] = "store", Extends(node[p], chain), chain' = Append(chain, node[p])
      PROVE  /\ chain' \in Seq(Node)
             /\ Len(chain) <= Len(chain') /\ \A i \in 1..Len(chain) : chain'[i] = chain[i]
             /\ ChainIntegrity' /\ OneReceiptPerMutation'
  <2>1. /\ node[p] \in Node /\ node[p].index = Len(chain) /\ node[p].parent = HeadId(chain)
        /\ node[p].key # NoKey => \A i \in 1..Len(chain) : chain[i].key # node[p].key
    BY <1>2 DEF LedgerInv, NodeIsNew, Underway, Extends
  <2>2. /\ chain \in Seq(Node) /\ chain' \in Seq(Node)
        /\ Len(chain') = Len(chain) + 1 /\ \A i \in 1..Len(chain) : chain'[i] = chain[i]
        /\ chain'[Len(chain) + 1] = node[p]
    BY <1>2, <2>1 DEF LedgerInv, LedgerTypeOK
  <2>3. ChainIntegrity'
    BY <2>1, <2>2 DEF LedgerInv, ChainIntegrity, LocalIntegrity, HeadId
  <2>4. OneReceiptPerMutation'
    BY <2>1, <2>2 DEF LedgerInv, OneReceiptPerMutation
  <2> QED BY <2>2, <2>3, <2>4
<1> QED BY <1>1, <1>2 DEF ChainStep

\* Where a process may take its projection and its replay from.
Derived(q) ==
  /\ \/ dag'[q] = dag[q] \/ dag'[q] = <<>>
     \/ dag'[q] = chain /\ UNCHANGED chain
  /\ snap'[q] \in {snap[q], <<>>, chain}

\* In every step each process derives them from the chain as it is.
LEMMA ProjectionStep == ASSUME LedgerTypeOK, [LedgerNext]_ledgerVars, NEW q \in Servers PROVE Derived(q)
<1>1. CASE UNCHANGED ledgerVars
  BY <1>1 DEF ledgerVars, Derived
<1>2. ASSUME dag' = dag, snap' = snap PROVE Derived(q)
  BY <1>2 DEF Derived
<1>3. ASSUME NEW p \in Servers, Replay(p) PROVE Derived(q)
  BY <1>3 DEF Replay, Derived, LedgerTypeOK
<1>4. ASSUME NEW p \in Servers, VerifyReplay(p) PROVE Derived(q)
  BY <1>4 DEF VerifyReplay, Derived, LedgerTypeOK
<1>5. ASSUME NEW p \in Servers, StartupFails(p) PROVE Derived(q)
  BY <1>5 DEF StartupFails, Derived, LedgerTypeOK
<1>6. ASSUME NEW p \in Servers, Confirm(p) PROVE Derived(q)
  <2>1. snap' = snap /\ chain' = chain
    BY <1>6 DEF Confirm
  <2>2. dag' = dag \/ (dag' = [dag EXCEPT ![p] = Append(@, node[p])] /\ chain = Append(dag[p], node[p]))
    BY <1>6 DEF Confirm
  <2>3. dag'[q] = dag[q] \/ dag'[q] = chain
    BY <2>2 DEF LedgerTypeOK
  <2> QED BY <2>1, <2>3 DEF Derived
<1>7. ASSUME NEW p \in Servers, CrashAndRestart(p) PROVE Derived(q)
  BY <1>7 DEF CrashAndRestart, Derived, LedgerTypeOK
<1>8. ASSUME NEW p \in Servers, Step(p)
      PROVE Replay(p) \/ VerifyReplay(p) \/ Confirm(p) \/ (dag' = dag /\ snap' = snap)
  BY <1>8 DEF Step, ReturnExisting, RefuseMaterial, BuildNode, RecoverInAppend,
     RejectCandidate, Admit, Store, StoreRefuses
<1>9. ASSUME NEW p \in Servers, Failure(p)
      PROVE StartupFails(p) \/ CrashAndRestart(p) \/ (dag' = dag /\ snap' = snap)
  BY <1>9 DEF Failure, AppendFails, ProbeFails
<1>10. ASSUME NEW p \in Servers, Recover(p) \/ IntervalPasses(p) \/ \E j \in Job : Emit(p, j)
       PROVE dag' = dag /\ snap' = snap
  BY <1>10 DEF Recover, IntervalPasses, Emit
<1> QED BY <1>1, <1>2, <1>3, <1>4, <1>5, <1>6, <1>7, <1>8, <1>9, <1>10 DEF LedgerNext

LEMMA AnswerStep ==
  ASSUME LedgerInv, [LedgerNext]_ledgerVars
  PROVE  \A n \in returned' \ returned : \E i \in DOMAIN chain : chain[i] = n
<1>1. ASSUME NEW p \in Servers, ReturnExisting(p)
      PROVE  \A n \in returned' \ returned : \E i \in DOMAIN chain : chain[i] = n
  <2>1. Begins(dag[p], chain) /\ dag[p] \in Seq(Node) /\ chain \in Seq(Node)
    BY DEF LedgerInv, ProjectionIsStored, LedgerTypeOK
  <2>2. PICK i \in DOMAIN dag[p] : returned' = returned \cup {dag[p][i]}
    BY <1>1 DEF ReturnExisting, Matches
  <2>3. i \in DOMAIN chain /\ chain[i] = dag[p][i]
    BY <2>1 DEF Begins
  <2> QED BY <2>2, <2>3
<1>2. ASSUME NEW p \in Servers, Confirm(p)
      PROVE  \A n \in returned' \ returned : \E i \in DOMAIN chain : chain[i] = n
  <2>1. CASE chain = Append(dag[p], node[p]) /\ returned' = returned \cup {node[p]}
    <3>1. dag[p] \in Seq(Node) /\ node[p] \in Node
      BY <1>2 DEF LedgerInv, LedgerTypeOK, NodeIsNew, Underway, Confirm
    <3>2. Len(dag[p]) + 1 \in DOMAIN chain /\ chain[Len(dag[p]) + 1] = node[p]
      BY <2>1, <3>1
    <3> QED BY <2>1, <3>2
  <2>2. CASE returned' = returned
    BY <2>2
  <2> QED BY <1>2, <2>1, <2>2 DEF Confirm
<1>3. CASE returned' = returned
  BY <1>3
<1>4. CASE UNCHANGED ledgerVars
  BY <1>3, <1>4 DEF ledgerVars
<1>5. ASSUME NEW p \in Servers, Step(p)
      PROVE  returned' = returned \/ ReturnExisting(p) \/ Confirm(p)
  BY <1>5 DEF Step, Replay, VerifyReplay, RefuseMaterial, BuildNode, RecoverInAppend,
     RejectCandidate, Admit, Store, StoreRefuses
<1>6. ASSUME NEW p \in Servers, Failure(p) PROVE returned' = returned
  BY <1>6 DEF Failure, StartupFails, AppendFails, ProbeFails, CrashAndRestart
<1>7. ASSUME NEW p \in Servers, Recover(p) \/ IntervalPasses(p) \/ \E j \in Job : Emit(p, j)
      PROVE returned' = returned
  BY <1>7 DEF Recover, IntervalPasses, Emit
<1> QED BY <1>1, <1>2, <1>3, <1>4, <1>5, <1>6, <1>7 DEF LedgerNext

\* A process has a pending node only because it had it before or has just built it.
LEMMA PendingStep ==
  ASSUME LedgerTypeOK, [LedgerNext]_ledgerVars, NEW q \in Servers, Underway(q)'
  PROVE  (Underway(q) /\ node'[q] = node[q]) \/ BuildNode(q)
<1>1. CASE UNCHANGED ledgerVars
  BY <1>1 DEF ledgerVars, Underway
<1>2. ASSUME NEW p \in Servers, Replay(p) \/ VerifyReplay(p) \/ StartupFails(p)
      PROVE Underway(q) /\ node'[q] = node[q]
  BY <1>2 DEF Replay, VerifyReplay, StartupFails, Underway, Goto, LedgerTypeOK, local
<1>3. ASSUME NEW p \in Servers, ReturnExisting(p) \/ RefuseMaterial(p)
      PROVE Underway(q) /\ node'[q] = node[q]
  BY <1>3 DEF ReturnExisting, RefuseMaterial, Underway, Goto, LedgerTypeOK, local
<1>4. ASSUME NEW p \in Servers, BuildNode(p)
      PROVE (Underway(q) /\ node'[q] = node[q]) \/ BuildNode(q)
  BY <1>4 DEF BuildNode, Underway, Goto, LedgerTypeOK
<1>5. ASSUME NEW p \in Servers, RecoverInAppend(p) \/ Admit(p) \/ Store(p)
      PROVE Underway(q) /\ node'[q] = node[q]
  BY <1>5 DEF RecoverInAppend, Admit, Store, Startup, Underway, Goto, LedgerTypeOK, local
<1>6. ASSUME NEW p \in Servers, RejectCandidate(p) \/ StoreRefuses(p) \/ Confirm(p) \/ AppendFails(p)
      PROVE Underway(q) /\ node'[q] = node[q]
  BY <1>6 DEF RejectCandidate, StoreRefuses, Confirm, AppendFails, Underway, Goto, LedgerTypeOK
<1>7. ASSUME NEW p \in Servers, Recover(p) \/ ProbeFails(p) \/ IntervalPasses(p)
      PROVE Underway(q) /\ node'[q] = node[q]
  BY <1>7 DEF Recover, ProbeFails, IntervalPasses, Startup, Underway, Goto, LedgerTypeOK, local
<1>8. ASSUME NEW p \in Servers, CrashAndRestart(p) PROVE Underway(q) /\ node'[q] = node[q]
  BY <1>8 DEF CrashAndRestart, Startup, Underway, Goto, LedgerTypeOK
<1>9. ASSUME NEW p \in Servers, NEW j \in Job, Emit(p, j) PROVE Underway(q) /\ node'[q] = node[q]
  BY <1>9 DEF Emit, Startup, Underway, Goto, LedgerTypeOK
<1> QED BY <1>1, <1>2, <1>3, <1>4, <1>5, <1>6, <1>7, <1>8, <1>9 DEF LedgerNext, Step, Failure

LEMMA InductiveStep == ASSUME LedgerInv, [LedgerNext]_ledgerVars PROVE LedgerInv'
<1>1. LedgerTypeOK'
  BY LedgerTypeStep DEF LedgerInv
<1>2. ChainStep
  BY StepsExtendChain
<1>3. /\ chain \in Seq(Node) /\ chain' \in Seq(Node)
      /\ Len(chain) <= Len(chain') /\ \A i \in 1..Len(chain) : chain'[i] = chain[i]
      /\ ChainIntegrity' /\ OneReceiptPerMutation'
  BY <1>2, ChainGrows DEF LedgerInv, LedgerTypeOK
<1>4. ASSUME NEW s \in Seq(Node), Begins(s, chain) PROVE Begins(s, chain')
  BY <1>3, <1>4 DEF Begins
<1>5. Begins(<<>>, chain') /\ Begins(chain, chain')
  BY <1>3 DEF Begins
<1>6. ProjectionIsStored'
  <2> SUFFICES ASSUME NEW q \in Servers PROVE Begins(dag'[q], chain')
    BY DEF ProjectionIsStored, Begins
  <2>1. Derived(q)
    BY ProjectionStep DEF LedgerInv
  <2>2. Begins(dag[q], chain) /\ dag[q] \in Seq(Node)
    BY DEF LedgerInv, ProjectionIsStored, LedgerTypeOK
  <2> QED BY <1>4, <1>5, <2>1, <2>2 DEF Derived
<1>7. SnapIsStored'
  <2> SUFFICES ASSUME NEW q \in Servers PROVE Begins(snap'[q], chain')
    BY DEF SnapIsStored, Begins
  <2>1. Derived(q)
    BY ProjectionStep DEF LedgerInv
  <2>2. Begins(snap[q], chain) /\ snap[q] \in Seq(Node)
    BY DEF LedgerInv, SnapIsStored, LedgerTypeOK
  <2> QED BY <1>4, <1>5, <2>1, <2>2 DEF Derived
<1>8. ReturnedIsStored'
  <2>1. \A n \in returned' : \E i \in DOMAIN chain : chain[i] = n
    BY AnswerStep DEF LedgerInv, ReturnedIsStored
  <2> QED BY <1>3, <2>1 DEF ReturnedIsStored
<1>9. NodeIsNew'
  <2> SUFFICES ASSUME NEW q \in Servers, Underway(q)'
               PROVE  /\ node'[q] \in Node
                      /\ node'[q].index <= Len(chain')
                      /\ node'[q].key # NoKey => \A i \in 1..node'[q].index : chain'[i].key # node'[q].key
    BY DEF NodeIsNew
  <2>1. CASE Underway(q) /\ node'[q] = node[q]
    <3>1. /\ node[q] \in Node /\ node[q].index <= Len(chain)
          /\ node[q].key # NoKey => \A i \in 1..node[q].index : chain[i].key # node[q].key
      BY <2>1 DEF LedgerInv, NodeIsNew
    <3>2. node[q].index \in Nat
      BY <3>1 DEF Node
    <3> QED BY <1>3, <2>1, <3>1, <3>2
  <2>2. CASE BuildNode(q)
    <3>1. Begins(dag[q], chain) /\ dag[q] \in Seq(Node) /\ chain' = chain
      BY <2>2 DEF LedgerInv, ProjectionIsStored, LedgerTypeOK, BuildNode
    <3>2. /\ node'[q].index = Len(dag[q]) /\ node'[q].key = job[q].key
          /\ Matches(q) = {}
      BY <2>2 DEF BuildNode, LedgerInv, LedgerTypeOK
    <3>3. node'[q] \in Node
      <4>1. HeadId(dag[q]) \in Nat
        BY HeadIsNat, <3>1
      <4> QED BY <2>2, <3>1, <4>1 DEF BuildNode, LedgerInv, LedgerTypeOK, Node, Job
    <3>4. job[q].key # NoKey => \A i \in 1..Len(dag[q]) : chain[i].key # job[q].key
      BY <3>1, <3>2 DEF Matches, Begins
    <3> QED BY <3>1, <3>2, <3>3, <3>4 DEF Begins
  <2> QED BY <2>1, <2>2, PendingStep DEF LedgerInv
<1> QED BY <1>1, <1>3, <1>6, <1>7, <1>8, <1>9 DEF LedgerInv

\* The inductive invariant holds for every number of processes, keys and emissions.
THEOREM LedgerInvariant == LedgerSpec => []LedgerInv
<1>1. LedgerInit => LedgerInv
  BY LedgerInitHolds
<1>2. LedgerInv /\ [LedgerNext]_ledgerVars => LedgerInv'
  BY InductiveStep
<1> QED BY <1>1, <1>2, PTL DEF LedgerSpec

\* Type correctness.
THEOREM TypeCorrect == LedgerSpec => []LedgerTypeOK
BY LedgerInvariant, PTL DEF LedgerInv

\* The stored chain verifies in every state, however many stale processes append.
THEOREM ChainVerifies == LedgerSpec => []ChainIntegrity
BY LedgerInvariant, PTL DEF LedgerInv

\* No operator mutation is recorded twice in the store (the deduplication of
\* _emit_receipt together with the head check of the adapter's append).
THEOREM MutationRecordedOnce == LedgerSpec => []OneReceiptPerMutation
BY LedgerInvariant, PTL DEF LedgerInv

\* No process shows a node before the store has it, nor in another place.
THEOREM ProjectionFollowsStore == LedgerSpec => []ProjectionIsStored
BY LedgerInvariant, PTL DEF LedgerInv

\* A node that _emit_receipt has returned is in the store in every later state.
THEOREM AnswersAreStored == LedgerSpec => []ReturnedIsStored
BY LedgerInvariant, PTL DEF LedgerInv

\* Store, projections and answers are sound, whatever the processes do.
THEOREM StoreIsSound == LedgerSpec => []LedgerSound
BY TypeCorrect, ChainVerifies, ProjectionFollowsStore, AnswersAreStored, PTL DEF LedgerSound

\* At most one receipt is handed out in a step, and the chain then stays as it is.
LEMMA OneAnswerPerStep ==
  ASSUME LedgerInv, [LedgerNext]_ledgerVars
  PROVE  \/ returned' = returned
         \/ chain' = chain /\ \E n : returned' = returned \cup {n}
<1>1. CASE UNCHANGED ledgerVars
  BY <1>1 DEF ledgerVars
<1>2. ASSUME NEW p \in Servers, ReturnExisting(p)
      PROVE  chain' = chain /\ \E n : returned' = returned \cup {n}
  BY <1>2 DEF ReturnExisting
<1>3. ASSUME NEW p \in Servers, Confirm(p)
      PROVE  returned' = returned \/ (chain' = chain /\ \E n : returned' = returned \cup {n})
  BY <1>3 DEF Confirm
<1>4. ASSUME NEW p \in Servers, Step(p)
      PROVE  returned' = returned \/ ReturnExisting(p) \/ Confirm(p)
  BY <1>4 DEF Step, Replay, VerifyReplay, RefuseMaterial, BuildNode, RecoverInAppend,
     RejectCandidate, Admit, Store, StoreRefuses
<1>5. ASSUME NEW p \in Servers, Failure(p) PROVE returned' = returned
  BY <1>5 DEF Failure, StartupFails, AppendFails, ProbeFails, CrashAndRestart
<1>6. ASSUME NEW p \in Servers, Recover(p) \/ IntervalPasses(p) \/ \E j \in Job : Emit(p, j)
      PROVE returned' = returned
  BY <1>6 DEF Recover, IntervalPasses, Emit
<1> QED BY <1>1, <1>2, <1>3, <1>4, <1>5, <1>6 DEF LedgerNext

\* Every step of the ledger is a step or a stutter of the canonical ledger.
LEMMA ReceiptsStep ==
  ASSUME LedgerInv, [LedgerNext]_ledgerVars
  PROVE  [Receipts!Append1 \/ Receipts!Hand]_<<chain, returned>>
<1>1. CASE chain' = chain
  <2>1. CASE returned' = returned
    BY <1>1, <2>1
  <2>2. CASE returned' # returned
    <3>1. PICK n : returned' = returned \cup {n}
      BY <2>2, OneAnswerPerStep
    <3>2. n \in returned' \ returned
      BY <2>2, <3>1
    <3>3. PICK i \in DOMAIN chain : chain[i] = n
      BY <3>2, AnswerStep
    <3> QED BY <1>1, <3>1, <3>3 DEF Receipts!Hand
  <2> QED BY <2>1, <2>2
<1>2. ASSUME NEW p \in Servers, pc[p] = "store", Extends(node[p], chain), chain' = Append(chain, node[p])
      PROVE  Receipts!Append1
  <2>1. chain \in Seq(Node) /\ node[p] \in Node
    BY <1>2 DEF LedgerInv, LedgerTypeOK, NodeIsNew, Underway
  <2>2. Len(chain') = Len(chain) + 1 /\ chain'[Len(chain) + 1] = node[p]
    BY <1>2, <2>1
  <2>3. node[p].key # NoKey => \A i \in 1..Len(chain) : chain[i].key # node[p].key
    BY <1>2, <2>1 DEF LedgerInv, NodeIsNew, Underway, Extends
  <2>4. node[p].key \notin Receipts!RecordedKeys
    BY <2>1, <2>3 DEF Receipts!RecordedKeys
  <2>5. chain' # chain
    BY <2>1, <2>2
  <2>6. returned' = returned
    BY <2>5, OneAnswerPerStep
  <2> QED BY <1>2, <2>2, <2>4, <2>6 DEF Receipts!Append1
<1> QED BY <1>1, <1>2, StepsExtendChain DEF ChainStep

\* The processes, their projections and their store implement one append-only
\* list that records a mutation once, for every number of processes.
THEOREM ImplementsCanonicalLedger == LedgerSpec => ReceiptsSpec
<1>1. LedgerInit => Receipts!Init
  BY DEF LedgerInit, Receipts!Init
<1>2. LedgerInv /\ [LedgerNext]_ledgerVars => [Receipts!Append1 \/ Receipts!Hand]_<<chain, returned>>
  BY ReceiptsStep
<1> QED BY <1>1, <1>2, LedgerInvariant, PTL DEF LedgerSpec, ReceiptsSpec, Receipts!Spec
=============================================================================
