------------------------------ MODULE AuditChain ------------------------------
(***************************************************************************)
(* The persistent audit chain of the defend plane (app/defend/             *)
(* chain_store.py) on one SQLite file, with the checkpoints of             *)
(* strict_scopes.py and the restore drill of drills.py.                    *)
(*                                                                         *)
(* Each process has one connection in autocommit mode: an append is one    *)
(* immediate transaction, everything else a sequence of single statements. *)
(* The hash of an event is its identity, which no other event has.         *)
(***************************************************************************)
EXTENDS Naturals, Sequences, FiniteSets, SequencesExt

CONSTANTS
  Conns,      \* processes with a connection
  MaxEvents,  \* bound on the events that are hashed
  MaxReads,   \* bound on the resumes and drills
  MaxFaults   \* bound on crashes and failing transactions

Free == "free"

ASSUME ChainAssumption ==
  /\ MaxEvents \in Nat /\ MaxReads \in Nat /\ MaxFaults \in Nat
  /\ Free \notin Conns

VARIABLES
  events,   \* table audit_events, in the order of seq
  backups,  \* table backup_events: the dumps
  lock,     \* the connection with the write lock
  conn,     \* the call each connection is in
  acked,    \* the events append has returned
  hashed, reads, faults

vars == <<events, backups, lock, conn, acked, hashed, reads, faults>>

Genesis == 0
NoPin == [head |-> Genesis, events |-> 0]
Pin == [head : Nat, events : Nat]
Event == [hash : Nat \ {0}, type : {"event", "backup", "checkpoint"}, prior : Nat, pin : Pin]
Blank == [hash |-> 1, type |-> "event", prior |-> Genesis, pin |-> NoPin]
Idle == [pc |-> "idle", row |-> Blank, pin |-> NoPin, dump |-> <<>>, saved |-> {}, verdict |-> "none"]
Call == [pc : {"idle", "count", "begin", "insert", "commit", "return", "verify", "genesis", "seq", "saved"},
         row : Event, pin : Pin, dump : Seq(Event), saved : SUBSET Nat,
         verdict : {"none", "ok", "broken", "rewritten", "restored"}]

Init ==
  /\ events = <<>> /\ backups = {}
  /\ lock = Free /\ conn = [c \in Conns |-> Idle]
  /\ acked = {} /\ hashed = 0 /\ reads = 0 /\ faults = 0

At(c, l) == conn[c].pc = l
Fault == faults < MaxFaults /\ faults' = faults + 1
Head1(rows) == IF rows = <<>> THEN Genesis ELSE Last(rows).hash

\* The rows link up from the genesis hash (verify).
Verifies(rows) ==
  \A k \in DOMAIN rows : rows[k].prior = Head1(SubSeq(rows, 1, k - 1))
-----------------------------------------------------------------------------
(* append, record_backup, checkpoint *)

StartAppend(c) ==
  /\ At(c, "idle") /\ hashed < MaxEvents
  /\ \E t \in {"event", "backup"} :
       conn' = [conn EXCEPT ![c] = [Idle EXCEPT !.pc = "begin", !.row.type = t]]
  /\ UNCHANGED <<events, backups, lock, acked, hashed, reads, faults>>

\* checkpoint reads the head, then the length, then appends.
StartCheckpoint(c) ==
  /\ At(c, "idle") /\ hashed < MaxEvents
  /\ conn' = [conn EXCEPT ![c] = [Idle EXCEPT !.pc = "count", !.row.type = "checkpoint",
                                              !.pin.head = Head1(events)]]
  /\ UNCHANGED <<events, backups, lock, acked, hashed, reads, faults>>

\* Mutant: the count was read before the head.
CountEventsFirst(c) ==
  /\ At(c, "count")
  /\ conn' = [conn EXCEPT ![c].pc = "begin", ![c].pin = [head |-> Head1(events),
                 events |-> Cardinality({k \in DOMAIN events : events[k].hash <= conn[c].pin.head})]]
  /\ UNCHANGED <<events, backups, lock, acked, hashed, reads, faults>>

CountEvents(c) ==
  /\ At(c, "count")
  /\ conn' = [conn EXCEPT ![c].pc = "begin", ![c].pin.events = Len(events)]
  /\ UNCHANGED <<events, backups, lock, acked, hashed, reads, faults>>

\* Mutant: a deferred transaction takes no lock before it reads the head.
BeginDeferred(c) ==
  /\ At(c, "begin")
  /\ conn' = [conn EXCEPT ![c].pc = "insert"]
  /\ UNCHANGED <<events, backups, lock, acked, hashed, reads, faults>>

Begin(c) ==
  /\ At(c, "begin") /\ lock = Free
  /\ lock' = c
  /\ conn' = [conn EXCEPT ![c].pc = "insert"]
  /\ UNCHANGED <<events, backups, acked, hashed, reads, faults>>

\* The write lock did not come free in time: append raises.
Busy(c) ==
  /\ At(c, "begin") /\ lock # Free
  /\ conn' = [conn EXCEPT ![c] = Idle]
  /\ UNCHANGED <<events, backups, lock, acked, hashed, reads, faults>>

\* Mutant: the backup row is committed by itself.
InsertBackupFirst(c) ==
  /\ At(c, "insert")
  /\ hashed' = hashed + 1
  /\ conn' = [conn EXCEPT ![c].pc = "commit",
                          ![c].row = [hash |-> hashed + 1, type |-> @.type,
                                      prior |-> Head1(events), pin |-> conn[c].pin]]
  /\ backups' = IF conn[c].row.type = "backup" THEN backups \cup {hashed + 1} ELSE backups
  /\ UNCHANGED <<events, lock, acked, reads, faults>>

Insert(c) ==
  /\ At(c, "insert")
  /\ hashed' = hashed + 1
  /\ conn' = [conn EXCEPT ![c].pc = "commit",
                          ![c].row = [hash |-> hashed + 1, type |-> @.type,
                                      prior |-> Head1(events), pin |-> conn[c].pin]]
  /\ UNCHANGED <<events, backups, lock, acked, reads, faults>>

Commit(c) ==
  /\ At(c, "commit")
  /\ events' = Append(events, conn[c].row)
  /\ backups' = IF conn[c].row.type = "backup" THEN backups \cup {conn[c].row.hash} ELSE backups
  /\ lock' = Free
  /\ conn' = [conn EXCEPT ![c].pc = "return"]
  /\ UNCHANGED <<acked, hashed, reads, faults>>

Return(c) ==
  /\ At(c, "return")
  /\ acked' = acked \cup {conn[c].row.hash}
  /\ conn' = [conn EXCEPT ![c] = Idle]
  /\ UNCHANGED <<events, backups, lock, hashed, reads, faults>>

\* Mutant: the failure is swallowed.
RollBackQuietly(c) ==
  /\ conn[c].pc \in {"insert", "commit"} /\ Fault
  /\ lock' = Free
  /\ conn' = [conn EXCEPT ![c].pc = "return"]
  /\ UNCHANGED <<events, backups, acked, hashed, reads>>

\* A statement or the commit fails: the transaction is rolled back, append raises.
RollBack(c) ==
  /\ conn[c].pc \in {"insert", "commit"} /\ Fault
  /\ lock' = Free
  /\ conn' = [conn EXCEPT ![c] = Idle]
  /\ UNCHANGED <<events, backups, acked, hashed, reads>>
-----------------------------------------------------------------------------
(* resume_verified *)

Checkpoints(rows) == {k \in DOMAIN rows : rows[k].type = "checkpoint"}

\* The pin of the last checkpoint, or the genesis hash when there is none.
StartResume(c) ==
  LET ks == Checkpoints(events) IN
  /\ At(c, "idle") /\ reads < MaxReads
  /\ reads' = reads + 1
  /\ \/ ks = {} /\ conn' = [conn EXCEPT ![c] = [Idle EXCEPT !.pc = "genesis"]]
     \/ \E k \in ks : /\ \A j \in ks : j <= k
                     /\ conn' = [conn EXCEPT ![c] = [Idle EXCEPT !.pc = "verify", !.pin = events[k].pin]]
  /\ UNCHANGED <<events, backups, lock, acked, hashed, faults>>

VerifyRows(c) ==
  /\ conn[c].pc \in {"verify", "genesis"}
  /\ conn' = [conn EXCEPT ![c] =
       IF ~Verifies(events) THEN [Idle EXCEPT !.verdict = "broken"]
       ELSE IF @.pc = "genesis" THEN [Idle EXCEPT !.verdict = "ok"]
       ELSE [@ EXCEPT !.pc = "seq"]]
  /\ UNCHANGED <<events, backups, lock, acked, hashed, reads, faults>>

\* The row at the pinned position is compared with the pinned head.
AtPin(p) == p.events \in DOMAIN events /\ events[p.events].hash = p.head

ReadSeq(c) ==
  /\ At(c, "seq")
  /\ conn' = [conn EXCEPT ![c] = [Idle EXCEPT !.pin = conn[c].pin,
                                     !.verdict = IF AtPin(conn[c].pin) THEN "ok" ELSE "rewritten"]]
  /\ UNCHANGED <<events, backups, lock, acked, hashed, reads, faults>>
-----------------------------------------------------------------------------
(* dr_restore_drill: the events are dumped, then the backups. *)

StartDrill(c) ==
  /\ At(c, "idle") /\ reads < MaxReads
  /\ reads' = reads + 1
  /\ conn' = [conn EXCEPT ![c] = [Idle EXCEPT !.pc = "saved", !.dump = events]]
  /\ UNCHANGED <<events, backups, lock, acked, hashed, faults>>

\* Mutant: the backups are dumped before the events.
RestoreLate(c) ==
  /\ At(c, "saved")
  /\ conn' = [conn EXCEPT ![c].pc = "idle", ![c].dump = events, ![c].verdict = "restored",
                          ![c].saved = {e.hash : e \in Range(conn[c].dump)}]
  /\ UNCHANGED <<events, backups, lock, acked, hashed, reads, faults>>

Restore(c) ==
  /\ At(c, "saved")
  /\ conn' = [conn EXCEPT ![c].pc = "idle", ![c].saved = backups, ![c].verdict = "restored"]
  /\ UNCHANGED <<events, backups, lock, acked, hashed, reads, faults>>
-----------------------------------------------------------------------------
\* A process dies; its transaction, if any, is rolled back.
Crash(c) ==
  /\ Fault /\ ~At(c, "idle")
  /\ lock' = IF lock = c THEN Free ELSE lock
  /\ conn' = [conn EXCEPT ![c] = Idle]
  /\ UNCHANGED <<events, backups, acked, hashed, reads>>

Next == \E c \in Conns :
  \/ StartAppend(c) \/ StartCheckpoint(c) \/ CountEvents(c)
  \/ Begin(c) \/ Busy(c) \/ Insert(c) \/ Commit(c) \/ Return(c) \/ RollBack(c)
  \/ StartResume(c) \/ VerifyRows(c) \/ ReadSeq(c)
  \/ StartDrill(c) \/ Restore(c) \/ Crash(c)

Spec == Init /\ [][Next]_vars
-----------------------------------------------------------------------------
\* The type invariant.
TypeOK ==
  /\ events \in Seq(Event) /\ backups \subseteq Nat
  /\ lock \in Conns \cup {Free} /\ conn \in [Conns -> Call]
  /\ acked \subseteq Nat /\ {hashed, reads, faults} \subseteq Nat

\* "A concurrent or stale writer fails loudly instead of forking the chain":
\* the rows always verify.
NoFork == Verifies(events)

\* An audit event append has returned stays in the chain, through failing
\* transactions and crashes of any process.
AckedStored == acked \subseteq {e.hash : e \in Range(events)}

\* "The readyz freshness probe and the receipt anchor can never disagree":
\* backup rows and BACKUP_COMMITTED events are the same.
BackupsAnchored == backups = {e.hash : e \in {e \in Range(events) : e.type = "backup"}}

\* One chain that verifies, with every answered event and every backup in it.
ChainSound == TypeOK /\ NoFork /\ AckedStored /\ BackupsAnchored

\* The count of a checkpoint includes the head it pins and nothing at or after
\* the checkpoint itself, whoever appended in between.
PinOrdered ==
  \A k \in Checkpoints(events) :
    LET p == events[k].pin IN
    /\ p.events < k
    /\ p.head # Genesis => \E j \in 1..p.events : events[j].hash = p.head

\* What a restore drill restores verifies, and no BACKUP_COMMITTED event in it
\* is without its backup.
RestoredIsSound ==
  \A c \in Conns : conn[c].verdict = "restored" =>
    /\ Verifies(conn[c].dump)
    /\ {e.hash : e \in {e \in Range(conn[c].dump) : e.type = "backup"}} \subseteq conn[c].saved

\* What resume and a restore drill conclude from the chain is about its rows.
ReadsSound == PinOrdered /\ RestoredIsSound

\* The table is append-only, and the chain is one list for all processes.
Canonical == INSTANCE CanonicalLedger WITH
  NoKey <- "none",
  chain <- [k \in DOMAIN events |-> [key |-> "none", hash |-> events[k].hash]],
  returned <- {[key |-> "none", hash |-> h] : h \in acked}
CanonicalSpec == Canonical!Spec
=============================================================================
