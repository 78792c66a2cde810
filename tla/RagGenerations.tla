--------------------------- MODULE RagGenerations ---------------------------
(***************************************************************************)
(* The org RAG index served by several processes over one database:        *)
(* builders that stage and publish generations, request threads that       *)
(* rehydrate a process and answer queries, the boot that reuses a verified *)
(* generation, the metered loop that adds vectors, crashes and restarts.   *)
(*                                                                         *)
(* A build holds _lock (one build per process); the publication and a      *)
(* query's pairing of graph and pointer hold _SNAPSHOT_LOCK, which is held *)
(* exactly while build[p].pc is "install".  Rehydration takes neither.     *)
(***************************************************************************)
EXTENDS GenerationStore

CONSTANTS Procs,        \* processes that open the database
          Calls,        \* request threads
          ProcOf,       \* [Calls -> Procs]
          MaxCrashes,   \* bound: process crashes
          Faults        \* SUBSET {"build", "read", "revoke"}

ASSUME RagAssumption == ProcOf \in [Calls -> Procs] /\ MaxCrashes \in Nat

VARIABLES mem,       \* per process: _GRAPH, _BUILD_META, _REHYDRATE_ATTEMPTED
          build,     \* per process: the build that holds or awaits _lock
          call,      \* per request thread: where it is
          crashes
vars == <<db, mem, build, call, crashes>>

Unbuilt == [built |-> FALSE, gen |-> NoGen, seal |-> NoSeal]
Built(g, seal) == [built |-> TRUE, gen |-> g, seal |-> seal]
Fresh == [graph |-> NoGen, meta |-> Unbuilt, attempted |-> FALSE]
NoBuild == [pc |-> "idle", gen |-> NoGen, mode |-> "none", seal |-> NoSeal]
NoCall == [pc |-> "idle", job |-> "none", gen |-> NoGen, seal |-> NoSeal, chunk |-> {}]

Jobs == {"query", "boot", "embed"}
Metas == [built: BOOLEAN, gen: Gens \cup {NoGen}, seal: Contents]
TypeOK ==
  /\ DbOK
  /\ mem \in [Procs -> [graph: Gens \cup {NoGen}, meta: Metas, attempted: BOOLEAN]]
  /\ build \in [Procs -> [pc: {"idle", "spawned", "building", "staged", "install"},
                          gen: Gens \cup {NoGen}, seal: Contents,
                          mode: {"none", "seed", "full", "boot"}]]
  /\ call \in [Calls -> [pc: {"idle", "claim", "graph", "meta", "stamp", "drop",
                              "ready", "locked", "store"},
                         job: Jobs \cup {"none"}, gen: Gens \cup {NoGen},
                         seal: Contents, chunk: SUBSET Digests]]
  /\ crashes \in 0..MaxCrashes

Init ==
  /\ db = EmptyStore
  /\ mem = [p \in Procs |-> Fresh]
  /\ build = [p \in Procs |-> NoBuild]
  /\ call = [c \in Calls |-> NoCall]
  /\ crashes = 0

-----------------------------------------------------------------------------
(* Builds: "spawned" is a daemon thread that does not hold _lock yet. *)

(* build_full_corpus called by a CLI or cron ("full"), or start_background_ *)
(* build ("seed"): a seed now, then the full corpus on a daemon thread.     *)
StartBuild(p, mode) ==
  /\ build[p].pc = "idle"
  /\ Room(db)
  /\ build' = [build EXCEPT ![p] = [NoBuild EXCEPT !.pc = "building", !.mode = mode]]
  /\ UNCHANGED <<db, mem, call, crashes>>

(* The builder begins a generation and ingests what its sources give. *)
Ingest(p) ==
  /\ build[p].pc \in {"spawned", "building"}
  /\ Room(db)
  /\ \E chunks \in SUBSET Digests, embedder \in BOOLEAN :
       db' = Stage(db, chunks, IF embedder THEN chunks ELSE {})
  /\ build' = [build EXCEPT ![p].pc = "staged", ![p].gen = NextGen(db)]
  /\ UNCHANGED <<mem, call, crashes>>

AfterBuild(p) ==
  IF build[p].mode = "seed" THEN [NoBuild EXCEPT !.pc = "spawned", !.mode = "full"]
  ELSE NoBuild

(* _persist_runtime_state: the commit ... *)
Publish(p) ==
  LET g == build[p].gen IN
  /\ build[p].pc = "staged"
  /\ db' = Published(db, g)
  /\ build' = [build EXCEPT ![p] =
                 IF Publication(db, g) = "PUBLISHED"
                 THEN [@ EXCEPT !.pc = "install", !.seal = Content(db.rows[g])]
                 ELSE AfterBuild(p)]
  /\ UNCHANGED <<mem, call, crashes>>

(* ... and the process memory, still under _SNAPSHOT_LOCK. *)
Install(p) ==
  /\ build[p].pc = "install"
  /\ mem' = [mem EXCEPT ![p].graph = build[p].gen,
                        ![p].meta = Built(build[p].gen, build[p].seal)]
  /\ build' = [build EXCEPT ![p] = AfterBuild(p)]
  /\ UNCHANGED <<db, call, crashes>>

(* A source, the ledger or the database fails the build: the generation it  *)
(* staged stays BUILDING.  Also where the bound leaves no generation.       *)
Abandon(p) ==
  /\ \/ build[p].pc = "staged" /\ "build" \in Faults
     \/ build[p].pc \in {"spawned", "building"} /\ ~Room(db)
  /\ build' = [build EXCEPT ![p] = NoBuild]
  /\ UNCHANGED <<db, mem, call, crashes>>

-----------------------------------------------------------------------------
(* Rehydration: every query, and the boot's status(), go through it first. *)

Goto(c, pc) == call' = [call EXCEPT ![c].pc = pc]
Rehydrated(c) == call' = [call EXCEPT ![c] = [NoCall EXCEPT !.pc = "ready", !.job = call[c].job]]

(* Built, or already attempted: straight on.  The two tests and the mark    *)
(* of the attempt are not one step.                                         *)
Begin(c, job) ==
  LET m == mem[ProcOf[c]] IN
  /\ call[c].pc = "idle"
  /\ call' = [call EXCEPT ![c] = [NoCall EXCEPT !.job = job,
                !.pc = IF m.meta.built \/ m.attempted THEN "ready" ELSE "claim"]]
  /\ UNCHANGED <<db, mem, build, crashes>>

(* One read transaction: the pointer, its row, every retrieval row. *)
Verified == db.active # NoGen /\ Content(db.rows[db.active]) = db.rows[db.active].seal
Rehydrate(c, readable) ==
  /\ call[c].pc = "claim"
  /\ mem' = [mem EXCEPT ![ProcOf[c]].attempted = TRUE]
  /\ call' = [call EXCEPT ![c] =
                IF readable /\ Verified
                THEN [@ EXCEPT !.pc = "graph", !.gen = db.active,
                               !.seal = db.rows[db.active].seal]
                ELSE [@ EXCEPT !.pc = "drop"]]
  /\ UNCHANGED <<db, build, crashes>>

SetGraph(c) ==
  /\ call[c].pc = "graph"
  /\ mem' = [mem EXCEPT ![ProcOf[c]].graph = call[c].gen]
  /\ Goto(c, "meta")
  /\ UNCHANGED <<db, build, crashes>>

SetMeta(c) ==
  /\ call[c].pc = "meta"
  /\ mem' = [mem EXCEPT ![ProcOf[c]].meta = Built(call[c].gen, call[c].seal)]
  /\ Goto(c, "stamp")
  /\ UNCHANGED <<db, build, crashes>>

\* Mutant: only the identity is written again.
StampIdentity(c) ==
  /\ call[c].pc = "stamp"
  /\ mem' = [mem EXCEPT ![ProcOf[c]].meta.gen = call[c].gen]
  /\ Rehydrated(c)
  /\ UNCHANGED <<db, build, crashes>>

(* The identity and the digest are written again, into whatever dictionary  *)
(* _BUILD_META is by then.                                                  *)
Stamp(c) ==
  /\ call[c].pc = "stamp"
  /\ mem' = [mem EXCEPT ![ProcOf[c]].meta.gen = call[c].gen,
                        ![ProcOf[c]].meta.seal = call[c].seal]
  /\ Rehydrated(c)
  /\ UNCHANGED <<db, build, crashes>>

(* Nothing to restore, or nothing that can be trusted. *)
Drop(c) ==
  /\ call[c].pc = "drop"
  /\ mem' = [mem EXCEPT ![ProcOf[c]].meta = Unbuilt]
  /\ Rehydrated(c)
  /\ UNCHANGED <<db, build, crashes>>

-----------------------------------------------------------------------------
(* Request threads once rehydrated *)

SnapshotFree(p) == build[p].pc # "install"
Ready(c, jobs) == call[c].pc = "ready" /\ call[c].job \in jobs

\* Mutant: a lexical reference compares the generations only.
AnswersByIdentity(p, lexical) ==
  /\ SnapshotFree(p)
  /\ mem[p].meta.built
  /\ mem[p].meta.gen = db.active

(* Memory and pointer, or for a lexical reference the digests too, agree. *)
Answers(p, lexical) ==
  /\ SnapshotFree(p)
  /\ mem[p].meta.built
  /\ mem[p].meta.gen = db.active
  /\ lexical => db.rows[db.active].seal = mem[p].meta.seal

(* An answer is read in the transaction that pairs graph and pointer, or is *)
(* refused: either way nothing but the request ends.                        *)
Query(c) ==
  /\ Ready(c, {"query"})
  /\ SnapshotFree(ProcOf[c])
  /\ call' = [call EXCEPT ![c] = NoCall]
  /\ UNCHANGED <<db, mem, build, crashes>>

(* start_seed_bootstrap: status() outside the lock ... *)
Boot(c) ==
  /\ Ready(c, {"boot"})
  /\ call' = [call EXCEPT ![c] = IF mem[ProcOf[c]].meta.built THEN NoCall
                                 ELSE [@ EXCEPT !.pc = "locked"]]
  /\ UNCHANGED <<db, mem, build, crashes>>

\* Mutant: the boot waits until an index is built.
BootLockedWaits(c) ==
  LET p == ProcOf[c] IN
  /\ call[c].pc = "locked"
  /\ build[p].pc \in {"idle", "spawned"}
  /\ build' = IF mem[p].meta.built \/ build[p].pc = "spawned" THEN build
              ELSE [build EXCEPT ![p] = [NoBuild EXCEPT !.pc = "spawned", !.mode = "boot"]]
  /\ call' = IF mem[p].meta.built THEN [call EXCEPT ![c] = NoCall] ELSE call
  /\ UNCHANGED <<db, mem, crashes>>

(* ... and again under it; a build thread that is alive is left to run. *)
BootLocked(c) ==
  LET p == ProcOf[c] IN
  /\ call[c].pc = "locked"
  /\ build[p].pc \in {"idle", "spawned"}
  /\ build' = IF mem[p].meta.built \/ build[p].pc = "spawned" THEN build
              ELSE [build EXCEPT ![p] = [NoBuild EXCEPT !.pc = "spawned", !.mode = "boot"]]
  /\ call' = [call EXCEPT ![c] = NoCall]
  /\ UNCHANGED <<db, mem, crashes>>

(* next_unembedded_chunks in a built process, then the pointer and the      *)
(* chunk's existence read again by embed_and_store_chunk.                   *)
PickChunk(c) ==
  /\ call[c].pc = "idle"
  /\ mem[ProcOf[c]].meta.built
  /\ \E d \in db.rows[db.active].chunks \ db.rows[db.active].vecs :
       call' = [call EXCEPT ![c] = [NoCall EXCEPT !.pc = "store", !.job = "embed",
                                                  !.gen = db.active, !.chunk = {d}]]
  /\ UNCHANGED <<db, mem, build, crashes>>

StoreVector(c) ==
  LET p == ProcOf[c]
      g == call[c].gen
      after == Embedded(db, g, CHOOSE d \in call[c].chunk : TRUE) IN
  /\ call[c].pc = "store"
  /\ SnapshotFree(p)
  /\ db' = after
  /\ mem' = IF StillActive(db, g)
            THEN [mem EXCEPT ![p].meta = Built(g, Content(after.rows[g]))] ELSE mem
  /\ call' = [call EXCEPT ![c] = NoCall]
  /\ UNCHANGED <<build, crashes>>

-----------------------------------------------------------------------------
(* A recovery operation revokes a digest (StaleIndexRecovery). *)
Revoke ==
  /\ "revoke" \in Faults
  /\ \E d \in Digests \ db.revoked : db' = Suppress(db, d)
  /\ UNCHANGED <<mem, build, call, crashes>>

(* The process dies; what is committed stays, its memory does not. *)
Crash(p) ==
  /\ crashes < MaxCrashes
  /\ crashes' = crashes + 1
  /\ mem' = [mem EXCEPT ![p] = Fresh]
  /\ build' = [build EXCEPT ![p] = NoBuild]
  /\ call' = [c \in Calls |-> IF ProcOf[c] = p THEN NoCall ELSE call[c]]
  /\ UNCHANGED db

BuildStep(p) == Ingest(p) \/ Publish(p) \/ Install(p) \/ Abandon(p)
CallStep(c) ==
  \/ Rehydrate(c, TRUE)
  \/ SetGraph(c) \/ SetMeta(c) \/ Stamp(c) \/ Drop(c)
  \/ Query(c) \/ Boot(c) \/ BootLocked(c) \/ StoreVector(c)
ReadFails(c) == "read" \in Faults /\ Rehydrate(c, FALSE)

Next ==
  \/ \E p \in Procs : BuildStep(p) \/ Crash(p)
                      \/ \E mode \in {"seed", "full"} : StartBuild(p, mode)
  \/ \E c \in Calls : CallStep(c) \/ ReadFails(c) \/ PickChunk(c)
                      \/ \E job \in {"query", "boot"} : Begin(c, job)
  \/ Revoke

Spec == Init /\ [][Next]_vars

(* Every started build and request runs: threads, each step bounded by a    *)
(* time limit of the network or of SQLite's busy handler.                   *)
FairSpec ==
  /\ Spec
  /\ \A p \in Procs : WF_vars(BuildStep(p))
  /\ \A c \in Calls : WF_vars(CallStep(c))

-----------------------------------------------------------------------------
(* What a process says of its index is true of the generation it names:     *)
(* the same chunks and no vector it lacks, whichever of publication,        *)
(* rehydration and vector write assigned _BUILD_META last.                  *)
MetaDescribes == \A p \in Procs : mem[p].meta.built =>
  LET row == db.rows[mem[p].meta.gen] IN
  /\ mem[p].meta.seal.chunks = row.chunks
  /\ mem[p].meta.seal.vecs \subseteq row.vecs

(* The digest a lexical reference binds is the digest of exactly the rows   *)
(* it is answered from, in whichever process.                               *)
LexicalBound == \A p \in Procs : Answers(p, TRUE) =>
  mem[p].meta.seal = Content(db.rows[db.active])

(* The database and what the processes conclude from it agree. *)
GenerationsSound == TypeOK /\ OneActive /\ SealsMatch /\ MetaDescribes /\ LexicalBound
=============================================================================
