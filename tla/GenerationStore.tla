--------------------------- MODULE GenerationStore ---------------------------
(***************************************************************************)
(* The SQLite side of the org RAG index (a11oy_org_rag.py): generations    *)
(* that are staged, sealed and published, the singleton pointer that names *)
(* the active one, the vectors added to it and the revoked digests.  Each  *)
(* operator is one committed transaction: it takes the database as it is   *)
(* and is the database that follows.                                       *)
(*                                                                         *)
(* A generation is a number in staging order; a chunk is its content       *)
(* digest; the seal of a generation is the content it was computed from.   *)
(***************************************************************************)
EXTENDS Naturals, Sequences

CONSTANTS MaxGens,   \* bound: generations staged in a behaviour
          Digests    \* content digests of chunks

VARIABLE db          \* the database: rows of the generations, pointer, revocations

NoGen == 0
NoSeal == [chunks |-> {}, vecs |-> {}]
Statuses == {"BUILDING", "ACTIVE", "SUPERSEDED", "FAILED", "REJECTED", "ROLLED_BACK"}
Contents == [chunks: SUBSET Digests, vecs: SUBSET Digests]
GenRow == [status: Statuses, chunks: SUBSET Digests, vecs: SUBSET Digests, seal: Contents]

EmptyStore == [rows |-> <<>>, active |-> NoGen, revoked |-> {}]

Gens == 1..Len(db.rows)
DbOK == /\ db \in [rows: Seq(GenRow), active: Nat, revoked: SUBSET Digests]
        /\ db.active \in Gens \cup {NoGen}

(* _generation_digest: over every persisted row, in a stable order. *)
Content(row) == [chunks |-> row.chunks, vecs |-> row.vecs]

Room(s) == Len(s.rows) < MaxGens
NextGen(s) == Len(s.rows) + 1

(* _begin_generation and the ingest of its rows: nobody reads a generation  *)
(* while it is BUILDING.                                                    *)
Stage(s, chunks, vecs) ==
  [s EXCEPT !.rows = Append(@, [status |-> "BUILDING", chunks |-> chunks,
                                vecs |-> vecs, seal |-> NoSeal])]

Mark(s, g, from, to) ==
  IF s.rows[g].status = from THEN [s EXCEPT !.rows[g].status = to] ELSE s

\* Mutant: the chunks of a generation are not compared with the revocations.
RevokedNone(s, g) == FALSE
Revoked(s, g) == s.rows[g].chunks \cap s.revoked # {}

\* Mutant: a revocation is not looked up before the swap.
PublicationUnchecked(s, g) ==
  IF s.rows[g].chunks = {} THEN "EMPTY"
  ELSE IF s.rows[g].status # "BUILDING" THEN "RAISED"
  ELSE "PUBLISHED"

(* What _persist_runtime_state does with a staged generation. *)
Publication(s, g) ==
  IF s.rows[g].chunks = {} THEN "EMPTY"
  ELSE IF Revoked(s, g) THEN "REVOKED"
  ELSE IF s.rows[g].status # "BUILDING" THEN "RAISED"
  ELSE "PUBLISHED"

\* Mutant: the swap leaves the previous generation ACTIVE.
SupersededNever(rows, prev, g) == rows
Superseded(rows, prev, g) ==
  IF prev = NoGen \/ prev = g THEN rows
  ELSE [rows EXCEPT ![prev].status = "SUPERSEDED"]

Swapped(s, g) ==
  [s EXCEPT
     !.rows = [Superseded(s.rows, s.active, g) EXCEPT
                 ![g].status = "ACTIVE", ![g].seal = Content(s.rows[g])],
     !.active = g]

Published(s, g) ==
  CASE Publication(s, g) \in {"EMPTY", "REVOKED"} -> Mark(s, g, "BUILDING", "FAILED")
    [] Publication(s, g) = "RAISED" -> s
    [] Publication(s, g) = "PUBLISHED" -> Swapped(s, g)

(* embed_and_store_chunk under BEGIN IMMEDIATE: vector, seal and metadata   *)
(* change together, or the write is rolled back when g is no longer ACTIVE. *)
StillActive(s, g) == s.rows[g].status = "ACTIVE"
\* Mutant: only the UPDATE of the seal looks at the status, as its WHERE does.
EmbeddedAnyway(s, g, c) ==
  [s EXCEPT !.rows[g].vecs = @ \cup {c},
            !.rows[g].seal = IF StillActive(s, g)
               THEN Content([s.rows[g] EXCEPT !.vecs = @ \cup {c}]) ELSE @]
Embedded(s, g, c) ==
  IF ~StillActive(s, g) THEN s
  ELSE [s EXCEPT !.rows[g].vecs = @ \cup {c},
                 !.rows[g].seal = Content([s.rows[g] EXCEPT !.vecs = @ \cup {c}])]

Suppress(s, d) == [s EXCEPT !.revoked = @ \cup {d}]
-----------------------------------------------------------------------------
(* The pointer names the one ACTIVE generation: publications of several     *)
(* processes, vectors and crashes never leave two, or a pointer to none.    *)
OneActive == \A g \in Gens : db.rows[g].status = "ACTIVE" <=> g = db.active

(* Every generation ever published still has the content its digest was     *)
(* taken from, so a restart can verify it: a vector computed for a          *)
(* generation that was superseded meanwhile is not left in it.              *)
SealsMatch == \A g \in Gens : db.rows[g].status \in {"ACTIVE", "SUPERSEDED"}
                 => db.rows[g].seal = Content(db.rows[g])

(* A digest revoked while a generation that contains it is being built is   *)
(* never published with it.                                                 *)
RevokedNotPublished ==
  \A g \in Gens' : 
    db'.rows[g].status = "ACTIVE" /\ (g \in Gens => db.rows[g].status # "ACTIVE")
      => db'.rows[g].chunks \cap db.revoked = {}
RevokedStaysOut == [][RevokedNotPublished]_db
=============================================================================
