------------------------- MODULE StaleIndexRecovery -------------------------
(***************************************************************************)
(* run_stale_index_recovery and resume_stale_index_recovery: one recovery  *)
(* operation over the generation store.  It pins the active generation,    *)
(* stages and rejects a regression, isolates a candidate built from the    *)
(* changed source, revokes the candidate's digest, sees its publication    *)
(* refused and rolls it back.  Every step ends at a commit; a call may die *)
(* at each of them and another call, of any actor, resume the operation.   *)
(*                                                                         *)
(* Calls come one after another.  The lease, which only Enter looks at, is *)
(* not renewed by the steps: a call that outlives it may meet another.     *)
(* Time is counted in units of the thirty seconds of a lease.              *)
(***************************************************************************)
EXTENDS GenerationStore, SequencesExt

CONSTANTS Actors,       \* who call run and resume
          Long,         \* bodies longer than a chunk, of {"original", "changed"}
          Timeout,      \* deadline_s, in leases
          MaxAttempts,  \* max_attempts
          MaxClock,     \* bound: time
          MaxDeaths,    \* bound: calls that die
          Stores,       \* databases the operation may start on
          Builders      \* whether other builds publish meanwhile

VARIABLES op,       \* the row of org_recovery_operations
          history,  \* org_recovery_transitions: states in order of insertion
          caller,   \* the call under way
          clock, deaths
recoveryVars == <<db, op, history, caller, clock, deaths>>

Bodies == {"original", "changed", "regression", "other"}

(* _chunk: what a body is stored as; the digests of its chunks, and the     *)
(* digest of the whole body that the operation computes.                    *)
Chunks(body) == IF body \in Long THEN {<<body, 1>>, <<body, 2>>} ELSE {<<body, 1>>}
Whole(body) == IF body \in Long THEN <<body, 0>> ELSE <<body, 1>>

Terminal == {"VERIFIED", "HELD", "CANCELLED", "RECOVERY_FAILED", "ROLLED_BACK"}

(* The states that an operation goes through, and what follows the ones     *)
(* after which nothing is decided.                                          *)
Rank == [OBSERVED |-> 1, TRIAGED |-> 2, PROPOSED |-> 3, ISOLATED |-> 4, EVALUATED |-> 5,
         APPROVAL_PENDING |-> 6, ROLLBACK_REQUIRED |-> 7, ROLLED_BACK |-> 8,
         APPLIED |-> 9, VERIFIED |-> 10]
Forward == DOMAIN Rank
Successor == [TRIAGED |-> "PROPOSED", ISOLATED |-> "EVALUATED", EVALUATED |-> "APPROVAL_PENDING",
              ROLLBACK_REQUIRED |-> "ROLLED_BACK", ROLLED_BACK |-> "APPLIED",
              APPLIED |-> "VERIFIED"]
States == Forward \cup {"REJECTED", "HELD", "CANCELLED"}

NoDigest == <<"none", 0>>
NoOp == [status |-> "NONE", cand |-> NoGen, reg |-> NoGen, attempts |-> 0,
         deadline |-> 0, owner |-> "none", lease |-> 0,
         kill |-> FALSE, repeats |-> 1, valid |-> TRUE]
NoCaller == [pc |-> "idle", actor |-> "none", state |-> "none", now |-> 0, pinned |-> NoGen,
             indexed |-> NoDigest, cand |-> NoGen, reg |-> NoGen, tries |-> 0]

Steps == {"idle", "enter", "pin", "first", "bind", "record", "regress", "attempt",
          "isolate", "candidate", "revoke", "publish", "rollback", "finish"}

ASSUME RecoveryAssumption ==
  /\ Long \subseteq {"original", "changed"}
  /\ (Bodies \X (0..2)) \subseteq Digests
  /\ Timeout \in Nat /\ MaxAttempts \in Nat \ {0} /\ MaxClock \in Nat /\ MaxDeaths \in Nat
  /\ \A s \in Stores :
       /\ s \in [rows: Seq(GenRow), active: Nat, revoked: SUBSET Digests]
       /\ s.active \in 0..Len(s.rows)
       /\ \A g \in 1..Len(s.rows) : s.rows[g].status = "ACTIVE" <=> g = s.active

RecoveryInit ==
  /\ db \in Stores
  /\ op = NoOp
  /\ history = <<>>
  /\ caller = NoCaller
  /\ clock = 0 /\ deaths = 0

At(pc) == caller.pc = pc
GoTo(pc) == caller' = [caller EXCEPT !.pc = pc]
ToRecord(state) == caller' = [caller EXCEPT !.pc = "record", !.state = state]
ToFinish(status) == caller' = [caller EXCEPT !.pc = "finish", !.state = status]
Return == caller' = NoCaller
Arrives(a) == caller' = [NoCaller EXCEPT !.pc = "enter", !.actor = a, !.now = clock]
-----------------------------------------------------------------------------
(* The operation is opened by run, once; the caller chooses its parameters. *)
Run(a) ==
  /\ At("idle")
  /\ op.status = "NONE"
  /\ clock + Timeout < MaxClock       \* bound: the deadline can pass
  /\ \E kill \in BOOLEAN, repeats \in 1..3, valid \in BOOLEAN :
       op' = [NoOp EXCEPT !.status = "OPEN", !.deadline = clock + Timeout,
                !.owner = a, !.lease = clock + 1,
                !.kill = kill, !.repeats = repeats, !.valid = valid]
  /\ Arrives(a)
  /\ UNCHANGED <<db, history, clock, deaths>>

Resume(a) ==
  /\ At("idle")
  /\ op.status \notin Terminal \cup {"NONE"}
  /\ Arrives(a)
  /\ UNCHANGED <<db, op, history, clock, deaths>>

Settled == op.status \in Terminal
Leased == op.lease > caller.now /\ op.owner # caller.actor
ToPin == caller' = [caller EXCEPT !.pc = "pin", !.cand = op.cand, !.reg = op.reg]

\* Mutant: the deadline is not looked at.
EnterAlways ==
  /\ At("enter")
  /\ IF Settled \/ Leased THEN Return ELSE ToPin
  /\ UNCHANGED <<db, op, history, clock, deaths>>

(* _continue_stale_index_recovery reads the row: settled, leased to another *)
(* actor, too late, or to be worked on from what the row says.              *)
Enter ==
  /\ At("enter")
  /\ IF Settled \/ Leased THEN Return
     ELSE IF op.deadline < caller.now THEN ToRecord("CANCELLED")
     ELSE ToPin
  /\ UNCHANGED <<db, op, history, clock, deaths>>

(* Pin the active generation and any chunk of it (_active_chunk), or stage  *)
(* the original body and publish it.                                        *)
Pin ==
  /\ At("pin")
  /\ db.active # NoGen
  /\ \E d \in db.rows[db.active].chunks :
       caller' = [caller EXCEPT !.pc = "bind", !.pinned = db.active, !.indexed = d]
  /\ UNCHANGED <<db, op, history, clock, deaths>>
StageFirst ==
  /\ At("pin")
  /\ db.active = NoGen
  /\ Room(db)
  /\ db' = Stage(db, Chunks("original"), {})
  /\ caller' = [caller EXCEPT !.pc = "first", !.pinned = NextGen(db)]
  /\ UNCHANGED <<op, history, clock, deaths>>
PublishFirst ==
  /\ At("first")
  /\ db' = Published(db, caller.pinned)
  /\ IF db'.active # caller.pinned THEN ToFinish("RECOVERY_FAILED")
     ELSE \E d \in Chunks("original") : caller' = [caller EXCEPT !.pc = "bind", !.indexed = d]
  /\ UNCHANGED <<op, history, clock, deaths>>

(* The pinned generation and a new lease are written to the row. *)
Bind ==
  /\ At("bind")
  /\ op' = [op EXCEPT !.owner = caller.actor, !.lease = caller.now + 1]
  /\ ToRecord("OBSERVED")
  /\ UNCHANGED <<db, history, clock, deaths>>
-----------------------------------------------------------------------------
\* Mutant: a state is recorded whenever it is reached.
RecordedAlways(h, state) == Append(h, state)

(* _recovery_transition: one row per state, except REJECTED and HELD. *)
Recorded(h, state) ==
  IF state \notin {"REJECTED", "HELD"} /\ Contains(h, state) THEN h
  ELSE Append(h, state)

\* Mutant: one attempt more than max_attempts.
SpentLater == op.attempts > MaxAttempts
Spent == op.attempts >= MaxAttempts

(* What follows each recorded state. *)
Follow(s) ==
  CASE s = "OBSERVED" ->
         IF caller.indexed = Whole("changed") THEN ToFinish("HELD")
         ELSE IF op.kill THEN ToRecord("HELD") ELSE ToRecord("TRIAGED")
    [] s = "PROPOSED" ->
         IF caller.cand # NoGen THEN ToRecord("EVALUATED") ELSE GoTo("regress")
    [] s = "REJECTED" ->
         IF Spent THEN ToRecord("HELD")
         ELSE IF caller.tries < op.repeats THEN GoTo("regress")
         ELSE GoTo("isolate")
    [] s = "EVALUATED" /\ ~op.valid -> ToFinish("RECOVERY_FAILED")
    [] s = "APPROVAL_PENDING" -> GoTo("revoke")
    [] s \in {"HELD", "CANCELLED", "VERIFIED"} -> ToFinish(s)
    [] OTHER -> ToRecord(Successor[s])

Record ==
  /\ At("record")
  /\ history' = Recorded(history, caller.state)
  /\ Follow(caller.state)
  /\ UNCHANGED <<db, op, clock, deaths>>
-----------------------------------------------------------------------------
(* The regression is staged once per operation, then counted and rejected   *)
(* as often as asked.                                                       *)
Regress ==
  /\ At("regress")
  /\ IF caller.reg # NoGen THEN UNCHANGED db /\ GoTo("attempt")
     ELSE /\ Room(db)
          /\ db' = Stage(db, Chunks("regression"), {})
          /\ caller' = [caller EXCEPT !.pc = "attempt", !.reg = NextGen(db)]
  /\ UNCHANGED <<op, history, clock, deaths>>
Attempt ==
  /\ At("attempt")
  /\ db' = Mark(db, caller.reg, "BUILDING", "REJECTED")
  /\ op' = [op EXCEPT !.reg = caller.reg, !.attempts = @ + 1]
  /\ caller' = [caller EXCEPT !.pc = "record", !.state = "REJECTED", !.tries = @ + 1]
  /\ UNCHANGED <<history, clock, deaths>>

(* The candidate: its rows, then the operation's reference to it. *)
Isolate ==
  /\ At("isolate")
  /\ Room(db)
  /\ db' = Stage(db, Chunks("changed"), {})
  /\ caller' = [caller EXCEPT !.pc = "candidate", !.cand = NextGen(db)]
  /\ UNCHANGED <<op, history, clock, deaths>>
SetCandidate ==
  /\ At("candidate")
  /\ op' = [op EXCEPT !.cand = caller.cand, !.status = "ISOLATED"]
  /\ ToRecord("ISOLATED")
  /\ UNCHANGED <<db, history, clock, deaths>>

\* Mutant: the digest is to be revoked once the publication was tried.
RevokeLater ==
  /\ At("revoke")
  /\ GoTo("publish")
  /\ UNCHANGED <<db, op, history, clock, deaths>>

(* The revocation's primary key is the operation's: a second insert raises. *)
RevokeCandidate ==
  /\ At("revoke")
  /\ IF Whole("changed") \in db.revoked
     THEN UNCHANGED db /\ Return
     ELSE db' = Suppress(db, Whole("changed")) /\ GoTo("publish")
  /\ UNCHANGED <<op, history, clock, deaths>>

(* The publication that must be refused, and the check that it was. *)
PublishCandidate ==
  LET refused == Publication(db, caller.cand) = "REVOKED" IN
  /\ At("publish")
  /\ db' = Published(db, caller.cand)
  /\ IF refused /\ db.active = caller.pinned THEN GoTo("rollback")
     ELSE ToFinish("RECOVERY_FAILED")
  /\ UNCHANGED <<op, history, clock, deaths>>

\* Mutant: the rollback looks for a candidate that is still BUILDING.
RollbackBuilding ==
  /\ At("rollback")
  /\ db' = Mark(db, caller.cand, "BUILDING", "ROLLED_BACK")
  /\ ToRecord("ROLLBACK_REQUIRED")
  /\ UNCHANGED <<op, history, clock, deaths>>

Rollback ==
  /\ At("rollback")
  /\ db' = Mark(db, caller.cand, "FAILED", "ROLLED_BACK")
  /\ ToRecord("ROLLBACK_REQUIRED")
  /\ UNCHANGED <<op, history, clock, deaths>>

(* _recovery_finish: whatever the row says by now. *)
Finish ==
  /\ At("finish")
  /\ op' = [op EXCEPT !.status = caller.state, !.lease = 0]
  /\ Return
  /\ UNCHANGED <<db, history, clock, deaths>>
-----------------------------------------------------------------------------
(* The process dies, or SQLite refuses a commit, between two of the above. *)
Die ==
  /\ ~At("idle")
  /\ deaths < MaxDeaths
  /\ deaths' = deaths + 1
  /\ Return
  /\ UNCHANGED <<db, op, history, clock>>

Tick ==
  /\ clock < MaxClock
  /\ clock' = clock + 1
  /\ UNCHANGED <<db, op, history, caller, deaths>>

(* A builder publishes a generation of its own (RagGenerations). *)
OtherBuild ==
  /\ Builders
  /\ Room(db)
  /\ \A g \in Gens : db.rows[g].chunks # {<<"other", 1>>}
  /\ db' = Published(Stage(db, {<<"other", 1>>}, {}), NextGen(db))
  /\ UNCHANGED <<op, history, caller, clock, deaths>>

Step ==
  \/ Enter \/ Pin \/ StageFirst \/ PublishFirst \/ Bind \/ Record
  \/ Regress \/ Attempt \/ Isolate \/ SetCandidate
  \/ RevokeCandidate \/ PublishCandidate \/ Rollback \/ Finish
RecoveryNext ==
  \/ \E a \in Actors : Run(a) \/ Resume(a)
  \/ Step \/ Die \/ Tick \/ OtherBuild
RecoverySpec == RecoveryInit /\ [][RecoveryNext]_recoveryVars

(* Calls run to an end, time passes, and somebody resumes an operation that *)
(* is left open: the code itself never does.                                *)
FairRecoverySpec ==
  /\ RecoverySpec
  /\ WF_recoveryVars(Tick) /\ WF_recoveryVars(Step)
  /\ WF_recoveryVars(\E a \in Actors : Resume(a))
-----------------------------------------------------------------------------
RecoveryTypeOK ==
  /\ DbOK
  /\ op \in [status: Terminal \cup {"NONE", "OPEN", "ISOLATED"},
             cand: Gens \cup {NoGen}, reg: Gens \cup {NoGen},
             attempts: Nat, deadline: 0..(MaxClock + Timeout),
             owner: Actors \cup {"none"}, lease: 0..(MaxClock + 1),
             kill: BOOLEAN, repeats: 1..3, valid: BOOLEAN]
  /\ history \in Seq(States)
  /\ caller \in [pc: Steps, actor: Actors \cup {"none"}, state: States \cup Terminal \cup {"none"},
                 now: 0..clock, pinned: Gens \cup {NoGen}, indexed: Digests \cup {NoDigest},
                 cand: Gens \cup {NoGen}, reg: Gens \cup {NoGen}, tries: 0..3]
  /\ clock \in 0..MaxClock /\ deaths \in 0..MaxDeaths

(* The candidate of the operation is never promoted, once it is isolated    *)
(* nor later ("The active generation stays the pinned original").  The      *)
(* publication is refused by the digest of the changed body as a whole, so  *)
(* this is of a body that is one chunk.                                     *)
NotPromoted == "changed" \notin Long =>
  \A g \in {op.cand, caller.cand} \ {NoGen} :
    db.rows[g].status \in {"BUILDING", "FAILED", "ROLLED_BACK"}

(* VERIFIED is written only of a refused, rolled-back candidate whose       *)
(* digest is still revoked, whatever crashes and resumptions came between.  *)
VerifiedIsRefused == op.status = "VERIFIED" =>
  /\ op.cand # NoGen /\ db.rows[op.cand].status = "ROLLED_BACK"
  /\ Whole("changed") \in db.revoked
  /\ Contains(history, "ROLLED_BACK")

(* An operation resumed after a crash goes on where it was: no state is     *)
(* recorded again or before one that precedes it.                           *)
RecordedInOrder == \A i, j \in DOMAIN history :
  i < j /\ {history[i], history[j]} \subseteq Forward => Rank[history[i]] < Rank[history[j]]

(* The failures counted against max_attempts exceed it only by attempts     *)
(* whose call died before it could hold the operation.                      *)
AttemptsBounded == op.attempts <= MaxAttempts + deaths

(* What the operation says of itself is what has happened. *)
RecoverySound ==
  RecoveryTypeOK /\ NotPromoted /\ VerifiedIsRefused /\ RecordedInOrder /\ AttemptsBounded
=============================================================================
