------------------------------ MODULE RagProofs ------------------------------
(***************************************************************************)
(* The generation store and the recovery operation over it are sound for   *)
(* any number of generations, processes, requests, chunks and attempts.    *)
(*                                                                         *)
(* The store: whatever a transaction does, the store that comes Follows    *)
(* the store before: it is Pointed, what was sealed stays sealed, chunks   *)
(* and revocations only grow, and what becomes ACTIVE has no revoked       *)
(* digest.  The processes hold generations the store knows, and chunks and *)
(* revocations do not go back, so what they hold stays valid.              *)
(*                                                                         *)
(* The recovery: the candidate is BUILDING until the call that revokes its *)
(* digest, and from then on the store refuses to promote it.  The recorded *)
(* states and the states of the caller are tied by the place in its call,  *)
(* which is what keeps them in order when another actor resumes.           *)
(***************************************************************************)
EXTENDS RagGenerations, StaleIndexRecovery, TLAPS

-----------------------------------------------------------------------------
(* The transactions of the store *)

Store == [rows: Seq(GenRow), active: Nat, revoked: SUBSET Digests]
Of(s) == 1..Len(s.rows)

\* The pointer of a database names its one ACTIVE generation.
Pointed(s) ==
  /\ s \in Store /\ s.active \in Of(s) \cup {NoGen}
  /\ \A g \in Of(s) : s.rows[g].status = "ACTIVE" <=> g = s.active

\* Every generation ever published has the content it was sealed with.
Sealed(s) ==
  \A g \in Of(s) : s.rows[g].status \in {"ACTIVE", "SUPERSEDED"} => s.rows[g].seal = Content(s.rows[g])

\* What no transaction undoes: the chunks of a generation and the revocations
\* stay, and vectors only come.
Grows(s, t) ==
  /\ Len(s.rows) <= Len(t.rows) /\ s.revoked \subseteq t.revoked
  /\ \A g \in Of(s) : /\ t.rows[g].chunks = s.rows[g].chunks
                      /\ s.rows[g].vecs \subseteq t.rows[g].vecs
  /\ s.active # NoGen => t.active # NoGen

\* What becomes ACTIVE has no digest that was revoked.
Promotes(s, t) ==
  \A g \in Of(t) : t.rows[g].status = "ACTIVE" /\ (g \in Of(s) => s.rows[g].status # "ACTIVE")
    => t.rows[g].chunks \cap s.revoked = {}

Follows(s, t) == Pointed(t) /\ (Sealed(s) => Sealed(t)) /\ Grows(s, t) /\ Promotes(s, t)

LEMMA Reflexive == ASSUME NEW s, Pointed(s) PROVE Follows(s, s)
BY DEF Follows, Pointed, Grows, Promotes, Store

LEMMA FollowsOn ==
  ASSUME NEW s, NEW t, NEW u, Pointed(s), Follows(s, t), Follows(t, u), t.revoked = s.revoked
  PROVE  Follows(s, u)
<1>1. Len(s.rows) \in Nat /\ Len(t.rows) \in Nat /\ Len(u.rows) \in Nat
  BY DEF Follows, Pointed, Store
<1>2. Of(s) \subseteq Of(t) /\ Of(t) \subseteq Of(u) /\ Len(s.rows) <= Len(u.rows)
  BY <1>1 DEF Follows, Grows, Of
<1>3. Grows(s, u)
  BY <1>2 DEF Follows, Grows
<1>4. Promotes(s, u)
  <2> SUFFICES ASSUME NEW g \in Of(u), u.rows[g].status = "ACTIVE",
                      g \in Of(s) => s.rows[g].status # "ACTIVE"
               PROVE  u.rows[g].chunks \cap s.revoked = {}
    BY DEF Promotes
  <2>1. CASE g \in Of(t) /\ t.rows[g].status = "ACTIVE"
    BY <2>1 DEF Follows, Promotes, Grows
  <2>2. CASE ~(g \in Of(t) /\ t.rows[g].status = "ACTIVE")
    BY <2>2 DEF Follows, Promotes
  <2> QED BY <2>1, <2>2
<1> QED BY <1>3, <1>4 DEF Follows

LEMMA RowsOfLength ==
  ASSUME NEW n \in Nat, NEW rows \in [1..n -> GenRow]
  PROVE  rows \in Seq(GenRow) /\ Len(rows) = n
OBVIOUS

LEMMA StageIs ==
  ASSUME NEW s, Pointed(s), NEW C \in SUBSET Digests, NEW V \in SUBSET Digests
  PROVE  LET t == Stage(s, C, V) IN
         /\ Len(t.rows) = Len(s.rows) + 1 /\ t.active = s.active /\ t.revoked = s.revoked
         /\ \A g \in Of(s) : t.rows[g] = s.rows[g]
         /\ NextGen(s) \in Of(t) /\ NextGen(s) \notin Of(s) /\ NextGen(s) # NoGen
         /\ t.rows[NextGen(s)] = [status |-> "BUILDING", chunks |-> C, vecs |-> V, seal |-> NoSeal]
         /\ Follows(s, t)
<1> DEFINE r == [status |-> "BUILDING", chunks |-> C, vecs |-> V, seal |-> NoSeal]
           t == Stage(s, C, V)
<1>1. s \in Store /\ s.rows \in Seq(GenRow) /\ r \in GenRow /\ s.active \in Of(s) \cup {NoGen}
  BY DEF Pointed, Store, GenRow, Contents, NoSeal, Statuses
<1>2. t.rows = Append(s.rows, r) /\ t.active = s.active /\ t.revoked = s.revoked /\ t \in Store
  BY <1>1 DEF Stage, Store
<1>3. /\ Len(Append(s.rows, r)) = Len(s.rows) + 1 /\ Len(s.rows) \in Nat
      /\ Append(s.rows, r)[Len(s.rows) + 1] = r
      /\ \A g \in 1..Len(s.rows) : Append(s.rows, r)[g] = s.rows[g]
  BY <1>1
<1> HIDE DEF t, r
<1>4. \A g \in Of(t) : g \in Of(s) \/ g = NextGen(s)
  BY <1>2, <1>3 DEF Of, NextGen
<1>5. /\ Len(t.rows) = Len(s.rows) + 1 /\ Of(s) \subseteq Of(t)
      /\ \A g \in Of(s) : t.rows[g] = s.rows[g]
      /\ NextGen(s) \in Of(t) /\ NextGen(s) \notin Of(s) /\ t.rows[NextGen(s)] = r /\ NextGen(s) # NoGen
  BY <1>2, <1>3 DEF Of, NextGen, NoGen
<1>6. r.status = "BUILDING"
  BY DEF r
<1>7. \A g \in Of(t) : t.rows[g].status = "ACTIVE" <=> g = t.active
  <2>1. \A g \in Of(s) : t.rows[g].status = "ACTIVE" <=> g = t.active
    BY <1>2, <1>5 DEF Pointed
  <2>2. NextGen(s) # t.active
    BY <1>1, <1>2, <1>5
  <2>3. t.rows[NextGen(s)].status # "ACTIVE"
    BY <1>5, <1>6
  <2> QED BY <1>4, <2>1, <2>2, <2>3
<1>8. Pointed(t)
  BY <1>1, <1>2, <1>5, <1>7 DEF Pointed
<1>9. Sealed(s) => Sealed(t)
  BY <1>4, <1>5, <1>6 DEF Sealed
<1>10. Grows(s, t)
  <2>1. Len(s.rows) <= Len(t.rows)
    BY <1>3, <1>5
  <2>2. \A g \in Of(s) : t.rows[g].chunks = s.rows[g].chunks /\ s.rows[g].vecs \subseteq t.rows[g].vecs
    BY <1>5
  <2> QED BY <1>2, <2>1, <2>2 DEF Grows
<1>11. Promotes(s, t)
  BY <1>4, <1>5, <1>6 DEF Promotes
<1> QED BY <1>2, <1>5, <1>8, <1>9, <1>10, <1>11 DEF Follows, t, r

\* A change of status by anything but a publication.
LEMMA MarkIs ==
  ASSUME NEW s, Pointed(s), NEW g \in Of(s), NEW from, NEW to \in Statuses \ {"ACTIVE", "SUPERSEDED"},
         from # "ACTIVE"
  PROVE  LET t == Mark(s, g, from, to) IN
         /\ Of(t) = Of(s) /\ t.active = s.active /\ t.revoked = s.revoked
         /\ \A h \in Of(s) : h # g => t.rows[h] = s.rows[h]
         /\ t.rows[g].chunks = s.rows[g].chunks
         /\ t.rows[g].status = IF s.rows[g].status = from THEN to ELSE s.rows[g].status
         /\ Follows(s, t)
<1> DEFINE t == Mark(s, g, from, to)
<1>1. s \in Store /\ s.rows \in Seq(GenRow) /\ s.rows \in [Of(s) -> GenRow] /\ s.active \in Of(s) \cup {NoGen}
      /\ Len(s.rows) \in Nat
  BY DEF Pointed, Store, Of
<1>2. CASE s.rows[g].status # from
  BY <1>2, Reflexive DEF Mark
<1>3. CASE s.rows[g].status = from
  <2> DEFINE r == [s.rows[g] EXCEPT !.status = to]
  <2>1. /\ r \in GenRow /\ r.status = to /\ r.chunks = s.rows[g].chunks /\ r.vecs = s.rows[g].vecs
        /\ r.seal = s.rows[g].seal
    BY <1>1 DEF GenRow
  <2>2. t.rows = [s.rows EXCEPT ![g] = r] /\ t.active = s.active /\ t.revoked = s.revoked
        /\ t = [s EXCEPT !.rows = [s.rows EXCEPT ![g] = r]]
    BY <1>1, <1>3 DEF Mark, Store
  <2> HIDE DEF r, t
  <2>3. [s.rows EXCEPT ![g] = r] \in Seq(GenRow) /\ Len([s.rows EXCEPT ![g] = r]) = Len(s.rows)
    BY <1>1, <2>1 DEF Of
  <2>4. t \in Store /\ Of(t) = Of(s) /\ \A h \in Of(s) : t.rows[h] = IF h = g THEN r ELSE s.rows[h]
    BY <1>1, <2>2, <2>3 DEF Store, Of
  <2>5. Pointed(t)
    <3>1. \A h \in Of(t) : t.rows[h].status = "ACTIVE" <=> h = t.active
      BY <1>3, <2>1, <2>2, <2>4 DEF Pointed
    <3> QED BY <1>1, <2>2, <2>4, <3>1 DEF Pointed
  <2>6. Sealed(s) => Sealed(t)
    BY <2>1, <2>4 DEF Sealed
  <2>7. Grows(s, t) /\ Promotes(s, t)
    BY <1>1, <2>1, <2>2, <2>3, <2>4 DEF Grows, Promotes
  <2> QED BY <1>3, <2>1, <2>2, <2>4, <2>5, <2>6, <2>7 DEF Follows, t
<1> QED BY <1>2, <1>3

\* A publication that succeeds.
LEMMA SwapIs ==
  ASSUME NEW s, Pointed(s), NEW g \in Of(s), Publication(s, g) = "PUBLISHED"
  PROVE  LET t == Swapped(s, g) IN
         /\ Of(t) = Of(s) /\ t.active = g /\ t.revoked = s.revoked
         /\ \A h \in Of(s) : /\ h # g /\ h # s.active => t.rows[h] = s.rows[h]
                             /\ t.rows[h].chunks = s.rows[h].chunks
         /\ s.rows[g].chunks \cap s.revoked = {} /\ s.rows[g].status = "BUILDING"
         /\ t.rows[g].seal = Content(t.rows[g])
         /\ Follows(s, t)
<1> DEFINE t == Swapped(s, g)
           mid == Superseded(s.rows, s.active, g)
           r == [mid[g] EXCEPT !.status = "ACTIVE", !.seal = Content(s.rows[g])]
<1>1. s \in Store /\ s.rows \in Seq(GenRow) /\ s.rows \in [Of(s) -> GenRow] /\ s.active \in Of(s) \cup {NoGen}
      /\ Len(s.rows) \in Nat
  BY DEF Pointed, Store, Of
<1>2. s.rows[g].chunks \cap s.revoked = {} /\ s.rows[g].status = "BUILDING" /\ g # s.active
  BY DEF Publication, Revoked, Pointed
<1>3. /\ mid \in [Of(s) -> GenRow] /\ mid[g] = s.rows[g]
      /\ \A h \in Of(s) : /\ h # s.active => mid[h] = s.rows[h]
                          /\ h = s.active => mid[h].status = "SUPERSEDED"
                          /\ mid[h].chunks = s.rows[h].chunks /\ mid[h].vecs = s.rows[h].vecs
                          /\ mid[h].seal = s.rows[h].seal
  <2>1. CASE s.active = NoGen
    BY <1>1, <2>1 DEF Superseded, Of, NoGen
  <2>2. CASE s.active # NoGen
    <3> DEFINE q == [s.rows[s.active] EXCEPT !.status = "SUPERSEDED"]
    <3>1. s.active \in Of(s)
      BY <1>1, <2>2
    <3>2. /\ q \in GenRow /\ q.status = "SUPERSEDED" /\ q.chunks = s.rows[s.active].chunks
          /\ q.vecs = s.rows[s.active].vecs /\ q.seal = s.rows[s.active].seal
      BY <1>1, <3>1 DEF GenRow, Statuses
    <3>3. mid = [s.rows EXCEPT ![s.active] = q]
      BY <1>2, <2>2 DEF Superseded
    <3> HIDE DEF q, mid
    <3> QED BY <1>1, <1>2, <3>1, <3>2, <3>3
  <2> QED BY <2>1, <2>2
<1>4. s.rows[g].chunks \in SUBSET Digests /\ s.rows[g].vecs \in SUBSET Digests
  BY <1>1 DEF GenRow
<1>5. Content(s.rows[g]) \in Contents
  BY <1>4 DEF Content, Contents
<1>6. /\ r \in GenRow /\ r.status = "ACTIVE" /\ r.chunks = s.rows[g].chunks /\ r.vecs = s.rows[g].vecs
      /\ r.seal = Content(s.rows[g])
  <2> HIDE DEF mid
  <2> QED BY <1>3, <1>5 DEF GenRow, Statuses
<1>7. r.seal = Content(r)
  BY <1>6 DEF Content
<1>8. t.rows = [mid EXCEPT ![g] = r] /\ t.active = g /\ t.revoked = s.revoked
      /\ t = [[s EXCEPT !.rows = [mid EXCEPT ![g] = r]] EXCEPT !.active = g]
  BY <1>1 DEF Swapped, Store
<1> HIDE DEF r, t, mid
<1>9. [mid EXCEPT ![g] = r] \in Seq(GenRow) /\ Len([mid EXCEPT ![g] = r]) = Len(s.rows)
  <2>1. [mid EXCEPT ![g] = r] \in [1..Len(s.rows) -> GenRow]
    BY <1>3, <1>6 DEF Of
  <2> QED BY <1>1, <2>1, RowsOfLength
<1>10. t \in Store /\ Of(t) = Of(s) /\ \A h \in Of(s) : t.rows[h] = IF h = g THEN r ELSE mid[h]
  <2>1. \A h \in Of(s) : [mid EXCEPT ![g] = r][h] = IF h = g THEN r ELSE mid[h]
    BY <1>3
  <2>2. Of(t) = Of(s)
    BY <1>8, <1>9 DEF Of
  <2>3. t \in Store
    <3>1. t.rows \in Seq(GenRow)
      BY <1>8, <1>9
    <3>2. t = [rows |-> t.rows, active |-> g, revoked |-> s.revoked]
      BY <1>1, <1>8 DEF Store
    <3>3. g \in Nat /\ s.revoked \in SUBSET Digests
      BY <1>1 DEF Of, Store
    <3> QED BY <3>1, <3>2, <3>3 DEF Store
  <2> QED BY <1>8, <2>1, <2>2, <2>3
<1>11. Pointed(t)
  <2>1. \A h \in Of(t) : t.rows[h].status = "ACTIVE" <=> h = t.active
    BY <1>1, <1>3, <1>6, <1>8, <1>10 DEF Pointed
  <2> QED BY <1>8, <1>10, <2>1 DEF Pointed
<1>12. Sealed(s) => Sealed(t)
  <2>1. ASSUME Sealed(s), NEW h \in Of(t), h # g, t.rows[h].status \in {"ACTIVE", "SUPERSEDED"}
        PROVE  t.rows[h].seal = Content(t.rows[h])
    <3>1. t.rows[h] = mid[h] /\ h \in Of(s)
      BY <1>10, <2>1
    <3>2. s.rows[h].status \in {"ACTIVE", "SUPERSEDED"}
      BY <1>1, <1>3, <2>1, <3>1 DEF Pointed
    <3> QED BY <1>3, <2>1, <3>1, <3>2 DEF Sealed, Content
  <2> QED BY <1>7, <1>10, <2>1 DEF Sealed
<1>13. Grows(s, t) /\ Promotes(s, t)
  <2>1. g # NoGen
    BY <1>1 DEF Of, NoGen
  <2> QED BY <1>1, <1>2, <1>3, <1>6, <1>8, <1>9, <1>10, <2>1 DEF Grows, Promotes, Pointed
<1> QED BY <1>2, <1>3, <1>6, <1>7, <1>8, <1>10, <1>11, <1>12, <1>13 DEF Follows, t

\* What _persist_runtime_state may leave behind.
LEMMA PublishedIs ==
  ASSUME NEW s, Pointed(s), NEW g \in Of(s)
  PROVE  LET t == Published(s, g) IN
         /\ Of(t) = Of(s) /\ t.revoked = s.revoked /\ Follows(s, t)
         /\ \A h \in Of(s) : /\ t.rows[h].chunks = s.rows[h].chunks
                             /\ h # g /\ h # s.active => t.rows[h] = s.rows[h]
         /\ Publication(s, g) \in {"EMPTY", "REVOKED", "RAISED", "PUBLISHED"}
         /\ Publication(s, g) \in {"EMPTY", "REVOKED"} =>
              /\ t.active = s.active
              /\ t.rows[g].status = IF s.rows[g].status = "BUILDING" THEN "FAILED" ELSE s.rows[g].status
         /\ Publication(s, g) = "RAISED" => t = s
         /\ Publication(s, g) = "PUBLISHED" =>
              t.active = g /\ s.rows[g].status = "BUILDING" /\ s.rows[g].chunks \cap s.revoked = {}
<1>1. Publication(s, g) \in {"EMPTY", "REVOKED", "RAISED", "PUBLISHED"}
  BY DEF Publication
<1>2. CASE Publication(s, g) \in {"EMPTY", "REVOKED"}
  <2>1. Published(s, g) = Mark(s, g, "BUILDING", "FAILED")
    BY <1>2 DEF Published
  <2>2. "FAILED" \in Statuses \ {"ACTIVE", "SUPERSEDED"}
    BY DEF Statuses
  <2> QED BY <1>1, <1>2, <2>1, <2>2, MarkIs
<1>3. CASE Publication(s, g) = "RAISED"
  <2>1. Published(s, g) = s
    BY <1>3 DEF Published
  <2> QED BY <1>1, <1>3, <2>1, Reflexive
<1>4. CASE Publication(s, g) = "PUBLISHED"
  <2>1. Published(s, g) = Swapped(s, g)
    BY <1>4 DEF Published
  <2> QED BY <1>1, <1>4, <2>1, SwapIs
<1> QED BY <1>1, <1>2, <1>3, <1>4

LEMMA EmbeddedIs ==
  ASSUME NEW s, Pointed(s), NEW g \in Of(s), NEW d \in Digests
  PROVE  LET t == Embedded(s, g, d) IN
         /\ Of(t) = Of(s) /\ Follows(s, t)
         /\ t.active = s.active
<1> DEFINE t == Embedded(s, g, d)
<1>1. s \in Store /\ s.rows \in Seq(GenRow) /\ s.rows \in [Of(s) -> GenRow] /\ s.active \in Of(s) \cup {NoGen}
      /\ Len(s.rows) \in Nat
  BY DEF Pointed, Store, Of
<1>2. CASE ~StillActive(s, g)
  BY <1>2, Reflexive DEF Embedded
<1>3. CASE StillActive(s, g)
  <2> DEFINE r == [s.rows[g] EXCEPT !.vecs = @ \cup {d},
                                    !.seal = Content([s.rows[g] EXCEPT !.vecs = @ \cup {d}])]
  <2>1. s.rows[g] \in GenRow /\ s.rows[g].vecs \subseteq Digests
    BY <1>1 DEF GenRow
  <2>2. Content([s.rows[g] EXCEPT !.vecs = @ \cup {d}])
          = [chunks |-> s.rows[g].chunks, vecs |-> s.rows[g].vecs \cup {d}]
    BY <2>1 DEF Content, GenRow
  <2>3. /\ r \in GenRow /\ r.status = s.rows[g].status /\ r.chunks = s.rows[g].chunks
        /\ r.vecs = s.rows[g].vecs \cup {d} /\ r.seal = [chunks |-> r.chunks, vecs |-> r.vecs]
    <3>1. [chunks |-> s.rows[g].chunks, vecs |-> s.rows[g].vecs \cup {d}] \in Contents
      BY <2>1 DEF GenRow, Contents
    <3>2. [s.rows[g] EXCEPT !.vecs = @ \cup {d}] \in GenRow
      BY <2>1 DEF GenRow
    <3> HIDE DEF Content
    <3> QED BY <2>1, <2>2, <3>1, <3>2 DEF GenRow
  <2>4. r.seal = Content(r)
    BY <2>3 DEF Content
  <2>5. t.rows = [s.rows EXCEPT ![g] = r] /\ t.active = s.active /\ t.revoked = s.revoked
        /\ t = [s EXCEPT !.rows = [s.rows EXCEPT ![g] = r]]
    BY <1>1, <1>3 DEF Embedded, Store
  <2> HIDE DEF r, t
  <2>6. [s.rows EXCEPT ![g] = r] \in Seq(GenRow) /\ Len([s.rows EXCEPT ![g] = r]) = Len(s.rows)
    BY <1>1, <2>3 DEF Of
  <2>7. t \in Store /\ Of(t) = Of(s) /\ \A h \in Of(s) : t.rows[h] = IF h = g THEN r ELSE s.rows[h]
    BY <1>1, <2>5, <2>6 DEF Store, Of
  <2>8. Pointed(t)
    <3>1. \A h \in Of(t) : t.rows[h].status = "ACTIVE" <=> h = t.active
      BY <2>3, <2>5, <2>7 DEF Pointed
    <3> QED BY <1>1, <2>5, <2>7, <3>1 DEF Pointed
  <2>9. Sealed(s) => Sealed(t)
    BY <2>4, <2>7 DEF Sealed
  <2>10. Grows(s, t) /\ Promotes(s, t)
    BY <1>1, <2>3, <2>5, <2>6, <2>7 DEF Grows, Promotes
  <2> QED BY <2>5, <2>7, <2>8, <2>9, <2>10 DEF Follows, t
<1> QED BY <1>2, <1>3

LEMMA SuppressIs ==
  ASSUME NEW s, Pointed(s), NEW d \in Digests
  PROVE  LET t == Suppress(s, d) IN
         t.rows = s.rows /\ t.active = s.active /\ t.revoked = s.revoked \cup {d} /\ Follows(s, t)
<1> DEFINE t == Suppress(s, d)
<1>1. s \in Store
  BY DEF Pointed
<1>2. t.rows = s.rows /\ t.active = s.active /\ t.revoked = s.revoked \cup {d} /\ t \in Store
  BY <1>1 DEF Suppress, Store
<1> HIDE DEF t
<1>3. Len(s.rows) \in Nat
  BY <1>1 DEF Store
<1>4. Pointed(t) /\ (Sealed(s) => Sealed(t))
  BY <1>2 DEF Pointed, Sealed, Of
<1>5. Grows(s, t) /\ Promotes(s, t)
  BY <1>2, <1>3 DEF Grows, Promotes, Of
<1> QED BY <1>2, <1>4, <1>5 DEF Follows, t

-----------------------------------------------------------------------------
(* The processes over the store *)

\* A generation and a seal that a process may speak of: the chunks of the
\* generation, and no vector it lacks.
Known(s, g, seal) ==
  /\ g \in Of(s) /\ s.active # NoGen
  /\ seal.chunks = s.rows[g].chunks /\ seal.vecs \subseteq s.rows[g].vecs

\* What each holder of a generation relies on, from the step that read it to
\* the step that uses it.
GenOf(s) == Of(s) \cup {NoGen}
Memories(s) ==
  {m \in [graph: GenOf(s), meta: [built: BOOLEAN, gen: GenOf(s), seal: Contents], attempted: BOOLEAN] :
     m.meta.built => Known(s, m.meta.gen, m.meta.seal)}
Builds(s) ==
  {b \in [pc: {"idle", "spawned", "building", "staged", "install"}, gen: GenOf(s),
          seal: Contents, mode: {"none", "seed", "full", "boot"}] :
     /\ b.pc = "staged" => b.gen \in Of(s)
     /\ b.pc = "install" => Known(s, b.gen, b.seal)}
Requests(s) ==
  {r \in [pc: {"idle", "claim", "graph", "meta", "stamp", "drop", "ready", "locked", "store"},
          job: Jobs \cup {"none"}, gen: GenOf(s), seal: Contents, chunk: SUBSET Digests] :
     /\ r.pc \in {"graph", "meta", "stamp"} => Known(s, r.gen, r.seal)
     /\ r.pc = "store" => r.gen \in Of(s) /\ r.chunk # {}}

GenInv ==
  /\ Pointed(db) /\ Sealed(db)
  /\ mem \in [Procs -> Memories(db)]
  /\ build \in [Procs -> Builds(db)]
  /\ call \in [Calls -> Requests(db)]
  /\ crashes \in 0..MaxCrashes

\* What was true of a generation stays true of it.
LEMMA Carries ==
  ASSUME NEW s, NEW t, Pointed(s), Follows(s, t)
  PROVE  /\ Of(s) \subseteq Of(t) /\ GenOf(s) \subseteq GenOf(t)
         /\ \A g, seal : Known(s, g, seal) => Known(t, g, seal)
         /\ Memories(s) \subseteq Memories(t)
         /\ Builds(s) \subseteq Builds(t) /\ Requests(s) \subseteq Requests(t)
<1>1. Len(s.rows) \in Nat /\ Len(t.rows) \in Nat /\ Len(s.rows) <= Len(t.rows)
  BY DEF Pointed, Follows, Grows, Store
<1>2. Of(s) \subseteq Of(t) /\ GenOf(s) \subseteq GenOf(t)
  BY <1>1 DEF Of, GenOf
<1>3. ASSUME NEW g, NEW seal, Known(s, g, seal)
      PROVE  Known(t, g, seal)
  <2>1. g \in Of(s) /\ g \in Of(t) /\ t.active # NoGen
    BY <1>2, <1>3 DEF Known, Follows, Grows
  <2>2. t.rows[g].chunks = s.rows[g].chunks /\ s.rows[g].vecs \subseteq t.rows[g].vecs
    BY <2>1 DEF Follows, Grows
  <2> QED BY <1>3, <2>1, <2>2 DEF Known
<1>4. Memories(s) \subseteq Memories(t)
  BY <1>2, <1>3 DEF Memories
<1>5. Builds(s) \subseteq Builds(t)
  BY <1>2, <1>3 DEF Builds
<1>6. Requests(s) \subseteq Requests(t)
  BY <1>2, <1>3 DEF Requests
<1> QED BY <1>2, <1>3, <1>4, <1>5, <1>6

LEMMA NothingHeld ==
  ASSUME NEW s, NEW job \in Jobs \cup {"none"}
  PROVE  /\ Fresh \in Memories(s) /\ NoBuild \in Builds(s)
         /\ \A pc \in {"idle", "claim", "ready"} : [NoCall EXCEPT !.pc = pc, !.job = job] \in Requests(s)
         /\ NoCall \in Requests(s)
         /\ \A pc \in {"spawned", "building"}, mode \in {"seed", "full", "boot"} :
              [NoBuild EXCEPT !.pc = pc, !.mode = mode] \in Builds(s)
<1>1. NoSeal \in Contents
  BY DEF NoSeal, Contents
<1>2. Fresh \in Memories(s)
  BY <1>1 DEF Fresh, Unbuilt, Memories, GenOf
<1>3. NoBuild \in Builds(s)
  BY <1>1 DEF NoBuild, Builds, GenOf
<1>4. \A pc \in {"spawned", "building"}, mode \in {"seed", "full", "boot"} :
        [NoBuild EXCEPT !.pc = pc, !.mode = mode] \in Builds(s)
  BY <1>1 DEF NoBuild, Builds, GenOf
<1>5. NoCall \in Requests(s)
  BY <1>1 DEF NoCall, Requests, GenOf
<1>6. \A pc \in {"idle", "claim", "ready"} : [NoCall EXCEPT !.pc = pc, !.job = job] \in Requests(s)
  BY <1>1 DEF NoCall, Requests, GenOf
<1> QED BY <1>2, <1>3, <1>4, <1>5, <1>6

LEMMA Steady ==
  ASSUME GenInv, UNCHANGED db,
         mem' \in [Procs -> Memories(db)], build' \in [Procs -> Builds(db)],
         call' \in [Calls -> Requests(db)], crashes' \in 0..MaxCrashes
  PROVE  GenInv'
BY DEF GenInv

LEMMA Moves ==
  ASSUME GenInv, Follows(db, db'),
         mem' \in [Procs -> Memories(db')], build' \in [Procs -> Builds(db')],
         call' \in [Calls -> Requests(db')], UNCHANGED crashes
  PROVE  GenInv'
BY DEF GenInv, Follows

LEMMA GenInit == Init => GenInv
<1> SUFFICES ASSUME Init PROVE GenInv
  OBVIOUS
<1>1. EmptyStore \in Store /\ Of(EmptyStore) = {}
  BY DEF EmptyStore, Store, Of, NoGen
<1>2. Pointed(EmptyStore) /\ Sealed(EmptyStore)
  BY <1>1 DEF Pointed, Sealed, EmptyStore
<1>3. Fresh \in Memories(db) /\ NoBuild \in Builds(db) /\ NoCall \in Requests(db)
  BY NothingHeld
<1> QED BY <1>2, <1>3, RagAssumption DEF Init, GenInv

LEMMA GenBuildStep ==
  ASSUME GenInv, NEW p \in Procs, BuildStep(p) \/ \E mode \in {"seed", "full"} : StartBuild(p, mode)
  PROVE  GenInv' /\ Follows(db, db')
<1>1. /\ Pointed(db) /\ mem \in [Procs -> Memories(db)] /\ build \in [Procs -> Builds(db)]
      /\ call \in [Calls -> Requests(db)] /\ crashes \in 0..MaxCrashes
  BY DEF GenInv
<1>2. AfterBuild(p) \in Builds(db) /\ NoBuild \in Builds(db)
  BY NothingHeld DEF AfterBuild
<1>3. ASSUME UNCHANGED db PROVE Follows(db, db')
  BY <1>1, <1>3, Reflexive
<1>4. ASSUME NEW mode \in {"seed", "full"}, StartBuild(p, mode)
      PROVE  GenInv' /\ Follows(db, db')
  <2>1. [NoBuild EXCEPT !.pc = "building", !.mode = mode] \in Builds(db)
    BY NothingHeld
  <2> QED BY <1>1, <1>3, <1>4, <2>1, Steady DEF StartBuild
<1>5. ASSUME Ingest(p)
      PROVE  GenInv' /\ Follows(db, db')
  <2>1. PICK chunks \in SUBSET Digests, embedder \in BOOLEAN :
          db' = Stage(db, chunks, IF embedder THEN chunks ELSE {})
    BY <1>5 DEF Ingest
  <2>2. Follows(db, db') /\ NextGen(db) \in Of(db')
    BY <1>1, <2>1, StageIs
  <2> DEFINE b == [build[p] EXCEPT !.pc = "staged", !.gen = NextGen(db)]
  <2>3. b \in Builds(db')
    <3>1. build[p] \in Builds(db')
      BY <1>1, <2>2, Carries
    <3> QED BY <2>2, <3>1 DEF Builds, GenOf
  <2>4. build' = [build EXCEPT ![p] = b] /\ UNCHANGED <<mem, call, crashes>>
    BY <1>1, <1>5 DEF Ingest
  <2> HIDE DEF b
  <2>5. /\ mem' \in [Procs -> Memories(db')] /\ call' \in [Calls -> Requests(db')]
        /\ build' \in [Procs -> Builds(db')]
    BY <1>1, <2>2, <2>3, <2>4, Carries
  <2> QED BY <2>2, <2>4, <2>5, Moves
<1>6. ASSUME Publish(p)
      PROVE  GenInv' /\ Follows(db, db')
  <2> DEFINE g == build[p].gen
  <2>1. build[p] \in Builds(db) /\ g \in Of(db)
    BY <1>1, <1>6 DEF Publish, Builds
  <2>2. db' = Published(db, g) /\ UNCHANGED <<mem, call, crashes>>
    BY <1>6 DEF Publish
  <2>3. Follows(db, db') /\ Of(db') = Of(db)
    BY <1>1, <2>1, <2>2, PublishedIs
  <2>4. AfterBuild(p) \in Builds(db')
    BY <1>1, <1>2, <2>3, Carries
  <2> DEFINE b == [build[p] EXCEPT !.pc = "install", !.seal = Content(db.rows[g])]
  <2>5. ASSUME Publication(db, g) = "PUBLISHED" PROVE b \in Builds(db')
    <3>1. db.rows[g] \in GenRow
      BY <1>1, <2>1 DEF Pointed, Store, Of
    <3>2. /\ Content(db.rows[g]) \in Contents /\ Content(db.rows[g]).chunks = db.rows[g].chunks
          /\ Content(db.rows[g]).vecs = db.rows[g].vecs
      BY <3>1 DEF Content, Contents, GenRow
    <3>3. db'.active = g /\ g # NoGen
      BY <1>1, <2>1, <2>2, <2>5, PublishedIs DEF Of, NoGen
    <3>4. Known(db', g, Content(db.rows[g]))
      BY <2>1, <2>3, <3>2, <3>3 DEF Known, Follows, Grows
    <3>5. build[p] \in Builds(db')
      BY <1>1, <2>1, <2>3, Carries
    <3> QED BY <2>1, <3>2, <3>4, <3>5 DEF Builds
  <2>6. \E q \in Builds(db') : build' = [build EXCEPT ![p] = q]
    <3>1. CASE Publication(db, g) = "PUBLISHED"
      <4>1. build' = [build EXCEPT ![p] = b]
        BY <1>1, <1>6, <3>1 DEF Publish
      <4> QED BY <2>5, <3>1, <4>1
    <3>2. CASE Publication(db, g) # "PUBLISHED"
      <4>1. build' = [build EXCEPT ![p] = AfterBuild(p)]
        BY <1>1, <1>6, <3>2 DEF Publish
      <4> QED BY <2>4, <4>1
    <3> QED BY <3>1, <3>2
  <2>7. /\ mem' \in [Procs -> Memories(db')] /\ call' \in [Calls -> Requests(db')]
        /\ build' \in [Procs -> Builds(db')]
    BY <1>1, <2>2, <2>3, <2>6, Carries
  <2> QED BY <2>2, <2>3, <2>7, Moves
<1>7. ASSUME Install(p)
      PROVE  GenInv' /\ Follows(db, db')
  <2> DEFINE m == [mem[p] EXCEPT !.graph = build[p].gen, !.meta = Built(build[p].gen, build[p].seal)]
  <2>1. build[p] \in Builds(db) /\ Known(db, build[p].gen, build[p].seal)
    BY <1>1, <1>7 DEF Install, Builds
  <2>2. m \in Memories(db)
    <3>1. mem[p] \in Memories(db)
      BY <1>1
    <3>2. build[p].gen \in GenOf(db) /\ build[p].seal \in Contents
      BY <2>1 DEF Builds
    <3> QED BY <2>1, <3>1, <3>2 DEF Memories, Built
  <2>3. mem' = [mem EXCEPT ![p] = m]
    BY <1>1, <1>7 DEF Install
  <2> HIDE DEF m
  <2> QED BY <1>1, <1>2, <1>3, <1>7, <2>2, <2>3, Steady DEF Install
<1>8. ASSUME Abandon(p)
      PROVE  GenInv' /\ Follows(db, db')
  BY <1>1, <1>2, <1>3, <1>8, Steady DEF Abandon
<1> QED BY <1>4, <1>5, <1>6, <1>7, <1>8 DEF BuildStep

\* A request that only moves on, and the memory of its process if it writes it.
LEMMA Requested ==
  ASSUME GenInv, NEW c \in Calls, UNCHANGED <<db, build, crashes>>,
         NEW r \in Requests(db), call' = [call EXCEPT ![c] = r],
         NEW m \in Memories(db), mem' = [mem EXCEPT ![ProcOf[c]] = m]
  PROVE  GenInv' /\ Follows(db, db')
<1>1. ProcOf[c] \in Procs
  BY RagAssumption
<1>2. Pointed(db) /\ Follows(db, db')
  BY Reflexive DEF GenInv
<1> QED BY <1>1, <1>2, Steady DEF GenInv

\* What a rehydration writes: Stamp alone writes two fields of a dictionary
\* that may have become another since.
LEMMA GenRehydrationStep ==
  ASSUME GenInv, NEW c \in Calls,
         \/ \E readable \in BOOLEAN : Rehydrate(c, readable)
         \/ SetGraph(c) \/ SetMeta(c) \/ Stamp(c) \/ Drop(c)
  PROVE  GenInv' /\ Follows(db, db')
<1> DEFINE p == ProcOf[c]
           r == call[c]
<1>1. /\ Pointed(db) /\ mem \in [Procs -> Memories(db)] /\ call \in [Calls -> Requests(db)]
      /\ p \in Procs /\ mem[p] \in Memories(db) /\ r \in Requests(db)
  BY RagAssumption DEF GenInv
<1>2. [NoCall EXCEPT !.pc = "ready", !.job = r.job] \in Requests(db)
  <2>1. r.job \in Jobs \cup {"none"}
    BY <1>1 DEF Requests
  <2> HIDE DEF r
  <2> QED BY <2>1, NothingHeld
<1>3. r.pc \in {"graph", "meta", "stamp"} => Known(db, r.gen, r.seal) /\ r.gen \in GenOf(db) /\ r.seal \in Contents
  BY <1>1 DEF Requests
<1>4. \A pc \in {"meta", "stamp"} : r.pc \in {"graph", "meta"} => [r EXCEPT !.pc = pc] \in Requests(db)
  BY <1>1 DEF Requests
<1>5. ASSUME NEW readable \in BOOLEAN, Rehydrate(c, readable)
      PROVE  GenInv' /\ Follows(db, db')
  <2> DEFINE m == [mem[p] EXCEPT !.attempted = TRUE]
             g == db.active
             found == [r EXCEPT !.pc = "graph", !.gen = g, !.seal = db.rows[g].seal]
             lost == [r EXCEPT !.pc = "drop"]
  <2>1. m \in Memories(db) /\ mem' = [mem EXCEPT ![p] = m]
    BY <1>1, <1>5 DEF Rehydrate, Memories
  <2>2. lost \in Requests(db)
    BY <1>1 DEF Requests
  <2>3. ASSUME Verified PROVE found \in Requests(db)
    <3>1. g \in Of(db) /\ g # NoGen /\ db.rows[g].seal = Content(db.rows[g])
      BY <1>1, <2>3 DEF Verified, Pointed
    <3>2. db.rows[g] \in GenRow
      BY <1>1, <3>1 DEF Pointed, Store, Of
    <3>3. db.rows[g].seal \in Contents /\ Known(db, g, db.rows[g].seal)
      BY <3>1, <3>2 DEF GenRow, Known, Content
    <3> QED BY <1>1, <3>1, <3>3 DEF Requests, GenOf
  <2>4. \E q \in Requests(db) : call' = [call EXCEPT ![c] = q]
    <3>1. CASE readable /\ Verified
      <4>1. call' = [call EXCEPT ![c] = found]
        BY <1>1, <1>5, <3>1 DEF Rehydrate
      <4> QED BY <2>3, <3>1, <4>1
    <3>2. CASE ~(readable /\ Verified)
      <4>1. call' = [call EXCEPT ![c] = lost]
        BY <1>1, <1>5, <3>2 DEF Rehydrate
      <4> QED BY <2>2, <4>1
    <3> QED BY <3>1, <3>2
  <2> HIDE DEF m
  <2>5. UNCHANGED <<db, build, crashes>>
    BY <1>5 DEF Rehydrate
  <2> QED BY <2>1, <2>4, <2>5, Requested
<1>6. ASSUME SetGraph(c)
      PROVE  GenInv' /\ Follows(db, db')
  <2> DEFINE m == [mem[p] EXCEPT !.graph = r.gen]
             q == [r EXCEPT !.pc = "meta"]
  <2>1. m \in Memories(db) /\ q \in Requests(db)
    BY <1>1, <1>3, <1>4, <1>6 DEF SetGraph, Memories
  <2>2. mem' = [mem EXCEPT ![p] = m] /\ call' = [call EXCEPT ![c] = q] /\ UNCHANGED <<db, build, crashes>>
    BY <1>1, <1>6 DEF SetGraph, Goto
  <2> HIDE DEF m, q
  <2> QED BY <2>1, <2>2, Requested
<1>7. ASSUME SetMeta(c)
      PROVE  GenInv' /\ Follows(db, db')
  <2> DEFINE m == [mem[p] EXCEPT !.meta = Built(r.gen, r.seal)]
             q == [r EXCEPT !.pc = "stamp"]
  <2>1. m \in Memories(db) /\ q \in Requests(db)
    BY <1>1, <1>3, <1>4, <1>7 DEF SetMeta, Memories, Built
  <2>2. mem' = [mem EXCEPT ![p] = m] /\ call' = [call EXCEPT ![c] = q] /\ UNCHANGED <<db, build, crashes>>
    BY <1>1, <1>7 DEF SetMeta, Goto
  <2> HIDE DEF m, q
  <2> QED BY <2>1, <2>2, Requested
<1>8. ASSUME Stamp(c)
      PROVE  GenInv' /\ Follows(db, db')
  <2> DEFINE m == [mem[p] EXCEPT !.meta = [@ EXCEPT !.gen = r.gen, !.seal = r.seal]]
             q == [NoCall EXCEPT !.pc = "ready", !.job = r.job]
  <2>1. m \in Memories(db) /\ q \in Requests(db)
    BY <1>1, <1>2, <1>3, <1>8 DEF Stamp, Memories
  <2>2. mem' = [mem EXCEPT ![p] = m] /\ call' = [call EXCEPT ![c] = q] /\ UNCHANGED <<db, build, crashes>>
    BY <1>1, <1>8 DEF Stamp, Rehydrated, Memories
  <2> HIDE DEF m, q
  <2> QED BY <2>1, <2>2, Requested
<1>9. ASSUME Drop(c)
      PROVE  GenInv' /\ Follows(db, db')
  <2> DEFINE m == [mem[p] EXCEPT !.meta = Unbuilt]
             q == [NoCall EXCEPT !.pc = "ready", !.job = r.job]
  <2>1. m \in Memories(db) /\ q \in Requests(db)
    BY <1>1, <1>2 DEF Memories, Unbuilt, NoSeal, Contents, GenOf
  <2>2. mem' = [mem EXCEPT ![p] = m] /\ call' = [call EXCEPT ![c] = q] /\ UNCHANGED <<db, build, crashes>>
    BY <1>1, <1>9 DEF Drop, Rehydrated
  <2> HIDE DEF m, q
  <2> QED BY <2>1, <2>2, Requested
<1> QED BY <1>5, <1>6, <1>7, <1>8, <1>9

LEMMA GenRequestStep ==
  ASSUME GenInv, NEW c \in Calls,
         \/ Query(c) \/ Boot(c) \/ BootLocked(c) \/ PickChunk(c) \/ StoreVector(c)
         \/ \E job \in {"query", "boot"} : Begin(c, job)
  PROVE  GenInv' /\ Follows(db, db')
<1> DEFINE p == ProcOf[c]
           r == call[c]
<1>1. /\ Pointed(db) /\ mem \in [Procs -> Memories(db)] /\ call \in [Calls -> Requests(db)]
      /\ build \in [Procs -> Builds(db)]
      /\ p \in Procs /\ mem[p] \in Memories(db) /\ r \in Requests(db) /\ crashes \in 0..MaxCrashes
  BY RagAssumption DEF GenInv
<1>2. NoCall \in Requests(db) /\ \A s : NoCall \in Requests(s)
  BY NothingHeld
<1>3. UNCHANGED db => Follows(db, db')
  BY <1>1, Reflexive
<1>4. ASSUME Query(c)
      PROVE  GenInv' /\ Follows(db, db')
  BY <1>1, <1>2, <1>3, <1>4, Steady DEF Query
<1>5. ASSUME Boot(c)
      PROVE  GenInv' /\ Follows(db, db')
  <2>1. [r EXCEPT !.pc = "locked"] \in Requests(db)
    BY <1>1 DEF Requests
  <2>2. call' \in [Calls -> Requests(db)]
    BY <1>1, <1>2, <1>5, <2>1 DEF Boot
  <2> QED BY <1>1, <1>3, <1>5, <2>2, Steady DEF Boot
<1>6. ASSUME BootLocked(c)
      PROVE  GenInv' /\ Follows(db, db')
  <2>1. [NoBuild EXCEPT !.pc = "spawned", !.mode = "boot"] \in Builds(db)
    BY NothingHeld
  <2>2. build' \in [Procs -> Builds(db)]
    BY <1>1, <1>6, <2>1 DEF BootLocked
  <2> QED BY <1>1, <1>2, <1>3, <1>6, <2>2, Steady DEF BootLocked
<1>7. ASSUME NEW job \in {"query", "boot"}, Begin(c, job)
      PROVE  GenInv' /\ Follows(db, db')
  <2>1. \A pc \in {"claim", "ready"} : [NoCall EXCEPT !.pc = pc, !.job = job] \in Requests(db)
    BY NothingHeld DEF Jobs
  <2>2. \E pc \in {"claim", "ready"} : call' = [call EXCEPT ![c] = [NoCall EXCEPT !.pc = pc, !.job = job]]
    BY <1>7 DEF Begin, NoCall
  <2>3. call' \in [Calls -> Requests(db)]
    BY <1>1, <2>1, <2>2
  <2> QED BY <1>1, <1>3, <1>7, <2>3, Steady DEF Begin
<1>8. ASSUME PickChunk(c)
      PROVE  GenInv' /\ Follows(db, db')
  <2>1. db.active \in Of(db)
    BY <1>1, <1>8 DEF PickChunk, Memories, Known, Pointed
  <2>2. db.rows[db.active] \in GenRow
    BY <1>1, <2>1 DEF Pointed, Store, Of
  <2>3. PICK d \in db.rows[db.active].chunks \ db.rows[db.active].vecs :
          call' = [call EXCEPT ![c] = [NoCall EXCEPT !.pc = "store", !.job = "embed",
                                                     !.gen = db.active, !.chunk = {d}]]
    BY <1>8 DEF PickChunk
  <2>4. d \in Digests
    BY <2>2 DEF GenRow
  <2>5. NoSeal \in Contents
    BY DEF NoSeal, Contents
  <2>6. [NoCall EXCEPT !.pc = "store", !.job = "embed", !.gen = db.active, !.chunk = {d}] \in Requests(db)
    BY <2>1, <2>4, <2>5 DEF NoCall, Requests, Jobs, GenOf
  <2>7. call' \in [Calls -> Requests(db)]
    BY <1>1, <2>3, <2>6
  <2> QED BY <1>1, <1>3, <1>8, <2>7, Steady DEF PickChunk
<1>9. ASSUME StoreVector(c)
      PROVE  GenInv' /\ Follows(db, db')
  <2> DEFINE g == r.gen
             d == CHOOSE d \in r.chunk : TRUE
             m == [mem[p] EXCEPT !.meta = Built(g, Content(db'.rows[g]))]
  <2>1. g \in Of(db) /\ r.chunk \subseteq Digests /\ r.chunk # {}
    BY <1>1, <1>9 DEF StoreVector, Requests
  <2>2. d \in Digests
    BY <2>1
  <2>3. db' = Embedded(db, g, d) /\ UNCHANGED <<build, crashes>> /\ call' = [call EXCEPT ![c] = NoCall]
    BY <1>9 DEF StoreVector
  <2> HIDE DEF d
  <2>4. Follows(db, db') /\ Of(db') = Of(db) /\ db'.active = db.active
    BY <1>1, <2>1, <2>2, <2>3, EmbeddedIs
  <2>5. db'.rows[g] \in GenRow /\ g \in Of(db')
    BY <2>1, <2>4 DEF Follows, Pointed, Store, Of
  <2>6. ASSUME StillActive(db, g) PROVE m \in Memories(db')
    <3>1. g = db.active /\ g # NoGen
      BY <1>1, <2>1, <2>6 DEF StillActive, Pointed, Of, NoGen
    <3>2. Content(db'.rows[g]) \in Contents /\ Known(db', g, Content(db'.rows[g]))
      BY <2>4, <2>5, <3>1 DEF Content, Contents, GenRow, Known
    <3>3. mem[p] \in Memories(db') /\ g \in GenOf(db')
      BY <1>1, <2>4, <2>5, Carries DEF GenOf
    <3> QED BY <3>2, <3>3 DEF Memories, Built
  <2>7. mem' = IF StillActive(db, g) THEN [mem EXCEPT ![p] = m] ELSE mem
    BY <1>1, <1>9, <2>3 DEF StoreVector, d
  <2> HIDE DEF m
  <2>8. mem \in [Procs -> Memories(db')] /\ mem' \in [Procs -> Memories(db')]
    BY <1>1, <2>4, <2>6, <2>7, Carries
  <2>9. build' \in [Procs -> Builds(db')] /\ call' \in [Calls -> Requests(db')]
    BY <1>1, <1>2, <2>3, <2>4, Carries
  <2> QED BY <2>3, <2>4, <2>8, <2>9, Moves
<1> QED BY <1>4, <1>5, <1>6, <1>7, <1>8, <1>9

LEMMA GenOutsideStep ==
  ASSUME GenInv, Revoke \/ \E p \in Procs : Crash(p)
  PROVE  GenInv' /\ Follows(db, db')
<1>1. /\ Pointed(db) /\ mem \in [Procs -> Memories(db)] /\ call \in [Calls -> Requests(db)]
      /\ build \in [Procs -> Builds(db)] /\ crashes \in 0..MaxCrashes
  BY DEF GenInv
<1>2. ASSUME Revoke
      PROVE  GenInv' /\ Follows(db, db')
  <2>1. PICK d \in Digests : db' = Suppress(db, d)
    BY <1>2 DEF Revoke
  <2>2. Follows(db, db')
    BY <1>1, <2>1, SuppressIs
  <2>3. /\ mem' \in [Procs -> Memories(db')] /\ call' \in [Calls -> Requests(db')]
        /\ build' \in [Procs -> Builds(db')] /\ UNCHANGED crashes
    BY <1>1, <1>2, <2>2, Carries DEF Revoke
  <2> QED BY <2>2, <2>3, Moves
<1>3. ASSUME NEW p \in Procs, Crash(p)
      PROVE  GenInv' /\ Follows(db, db')
  <2>1. Fresh \in Memories(db) /\ NoBuild \in Builds(db) /\ NoCall \in Requests(db)
    BY NothingHeld
  <2>2. UNCHANGED db /\ crashes' \in 0..MaxCrashes
    BY <1>1, <1>3, RagAssumption DEF Crash
  <2>3. /\ mem' \in [Procs -> Memories(db)] /\ build' \in [Procs -> Builds(db)]
        /\ call' \in [Calls -> Requests(db)]
    BY <1>1, <1>3, <2>1 DEF Crash
  <2> QED BY <1>1, <2>2, <2>3, Steady, Reflexive
<1> QED BY <1>2, <1>3

\* The processes keep the invariant, and every step of theirs is one of the
\* transactions of the store.
LEMMA GenStep ==
  ASSUME GenInv, [Next]_vars
  PROVE  GenInv' /\ Follows(db, db')
<1>1. CASE Next
  <2>1. ASSUME NEW p \in Procs,
               BuildStep(p) \/ Crash(p) \/ \E mode \in {"seed", "full"} : StartBuild(p, mode)
        PROVE  GenInv' /\ Follows(db, db')
    BY <2>1, GenBuildStep, GenOutsideStep
  <2>2. ASSUME NEW c \in Calls,
               CallStep(c) \/ ReadFails(c) \/ PickChunk(c) \/ \E job \in {"query", "boot"} : Begin(c, job)
        PROVE  GenInv' /\ Follows(db, db')
    BY <2>2, GenRehydrationStep, GenRequestStep DEF CallStep, ReadFails
  <2>3. ASSUME Revoke
        PROVE  GenInv' /\ Follows(db, db')
    BY <2>3, GenOutsideStep
  <2> QED BY <1>1, <2>1, <2>2, <2>3 DEF Next
<1>2. CASE UNCHANGED vars
  <2>1. Pointed(db) /\ Follows(db, db')
    BY <1>2, Reflexive DEF GenInv, vars
  <2> QED BY <1>2, <2>1, Steady DEF vars, GenInv
<1> QED BY <1>1, <1>2

\* The invariant of the processes and their database: the pointer names the
\* one ACTIVE generation, what was published is as it was sealed, and every
\* build, rehydration and vector write that holds a generation holds one
\* whose rows its seal describes (a11oy_org_rag.py: _persist_runtime_state,
\* _rehydrate, embed_and_store_chunk).
THEOREM GenerationsInvariant == Spec => []GenInv
<1>1. Init => GenInv
  BY GenInit
<1>2. GenInv /\ [Next]_vars => GenInv'
  BY GenStep
<1> QED BY <1>1, <1>2, PTL DEF Spec

\* One ACTIVE generation, seals that match, and processes that describe what
\* the database holds and bind a lexical reference to exactly those rows,
\* whichever of publication, rehydration and vector write came last.
THEOREM GenerationsAreSound == Spec => []GenerationsSound
<1>1. GenInv => GenerationsSound
  <2> SUFFICES ASSUME GenInv PROVE GenerationsSound
    OBVIOUS
  <2>1. Pointed(db) /\ Sealed(db) /\ Of(db) = Gens /\ GenOf(db) = Gens \cup {NoGen}
    BY DEF GenInv, Of, Gens, GenOf
  <2>2. TypeOK
    <3>1. DbOK
      BY <2>1 DEF DbOK, Pointed, Store
    <3>2. mem \in [Procs -> [graph: Gens \cup {NoGen}, meta: Metas, attempted: BOOLEAN]]
      BY <2>1 DEF GenInv, Memories, Metas
    <3>3. build \in [Procs -> [pc: {"idle", "spawned", "building", "staged", "install"},
                               gen: Gens \cup {NoGen}, seal: Contents,
                               mode: {"none", "seed", "full", "boot"}]]
      BY <2>1 DEF GenInv, Builds
    <3>4. call \in [Calls -> [pc: {"idle", "claim", "graph", "meta", "stamp", "drop",
                                   "ready", "locked", "store"},
                              job: Jobs \cup {"none"}, gen: Gens \cup {NoGen},
                              seal: Contents, chunk: SUBSET Digests]]
      BY <2>1 DEF GenInv, Requests
    <3> QED BY <3>1, <3>2, <3>3, <3>4 DEF GenInv, TypeOK
  <2>3. OneActive /\ SealsMatch
    BY <2>1 DEF Pointed, Sealed, OneActive, SealsMatch
  <2>4. ASSUME NEW p \in Procs, mem[p].meta.built
        PROVE  Known(db, mem[p].meta.gen, mem[p].meta.seal)
    BY <2>4 DEF GenInv, Memories
  <2>5. MetaDescribes
    BY <2>4 DEF MetaDescribes, Known
  <2>6. LexicalBound
    <3>1. ASSUME NEW p \in Procs, Answers(p, TRUE)
          PROVE  mem[p].meta.seal = Content(db.rows[db.active])
      <4>1. db.active \in Gens /\ db.rows[db.active].seal = mem[p].meta.seal
        BY <2>1, <2>4, <3>1 DEF Answers, Known
      <4> QED BY <2>3, <4>1 DEF OneActive, SealsMatch
    <3> QED BY <3>1 DEF LexicalBound
  <2> QED BY <2>2, <2>3, <2>5, <2>6 DEF GenerationsSound
<1> QED BY <1>1, GenerationsInvariant, PTL

\* A step of the store is one that publishes no revoked digest.
LEMMA FollowsPublishes ==
  ASSUME Follows(db, db')
  PROVE  [RevokedNotPublished]_db
BY DEF Follows, Promotes, RevokedNotPublished, Gens, Of

\* No publication makes a digest active that was revoked before it, even when
\* the generation had been staged before the revocation.
THEOREM RevokedNeverPublished == Spec => RevokedStaysOut
<1>1. GenInv /\ [Next]_vars => [RevokedNotPublished]_db
  BY GenStep, FollowsPublishes
<1> QED BY <1>1, GenerationsInvariant, PTL DEF Spec, RevokedStaysOut

-----------------------------------------------------------------------------
(* The recovery operation *)

LEMMA RankIs ==
  /\ Forward = {"OBSERVED", "TRIAGED", "PROPOSED", "ISOLATED", "EVALUATED", "APPROVAL_PENDING",
                "ROLLBACK_REQUIRED", "ROLLED_BACK", "APPLIED", "VERIFIED"}
  /\ Rank["OBSERVED"] = 1 /\ Rank["TRIAGED"] = 2 /\ Rank["PROPOSED"] = 3 /\ Rank["ISOLATED"] = 4
  /\ Rank["EVALUATED"] = 5 /\ Rank["APPROVAL_PENDING"] = 6 /\ Rank["ROLLBACK_REQUIRED"] = 7
  /\ Rank["ROLLED_BACK"] = 8 /\ Rank["APPLIED"] = 9 /\ Rank["VERIFIED"] = 10
BY DEF Forward, Rank

LEMMA RankOrders ==
  /\ \A s \in Forward : Rank[s] \in Nat
  /\ \A s, t \in Forward : Rank[s] = Rank[t] => s = t
  /\ Forward \subseteq States /\ "REJECTED" \notin Forward /\ "HELD" \notin Forward /\ "CANCELLED" \notin Forward
BY RankIs DEF States

LEMMA SuccessorIs ==
  /\ Successor["TRIAGED"] = "PROPOSED" /\ Successor["ISOLATED"] = "EVALUATED"
  /\ Successor["EVALUATED"] = "APPROVAL_PENDING" /\ Successor["ROLLBACK_REQUIRED"] = "ROLLED_BACK"
  /\ Successor["ROLLED_BACK"] = "APPLIED" /\ Successor["APPLIED"] = "VERIFIED"
BY DEF Successor

\* The bodies of the operation are told apart by their chunks.
LEMMA ChunksApart ==
  /\ \A b \in Bodies : Chunks(b) \in SUBSET Digests /\ Chunks(b) # {}
  /\ Chunks("original") # Chunks("changed") /\ Chunks("regression") # Chunks("changed")
  /\ Whole("changed") \in Digests /\ <<"other", 1>> \in Digests
  /\ "changed" \notin Long => Whole("changed") \in Chunks("changed")
<1>1. \A b \in Bodies : \A n \in 0..2 : <<b, n>> \in Digests
  BY RecoveryAssumption
<1>2. \A b \in Bodies : <<b, 0>> \in Digests /\ <<b, 1>> \in Digests /\ <<b, 2>> \in Digests
  <2>1. 0 \in 0..2 /\ 1 \in 0..2 /\ 2 \in 0..2
    OBVIOUS
  <2> QED BY <1>1, <2>1
<1>3. \A b \in Bodies : Chunks(b) \in SUBSET Digests /\ <<b, 1>> \in Chunks(b)
  BY <1>2 DEF Chunks
<1>4. /\ "changed" \in Bodies /\ "other" \in Bodies /\ "original" \in Bodies
  BY DEF Bodies
<1>5. <<"changed", 1>> \notin Chunks("original") /\ <<"changed", 1>> \notin Chunks("regression")
  BY DEF Chunks
<1>6. <<"changed", 1>> \in Chunks("changed") /\ Whole("changed") \in Digests /\ <<"other", 1>> \in Digests
  BY <1>2, <1>3, <1>4 DEF Whole
<1>7. "changed" \notin Long => Whole("changed") \in Chunks("changed")
  BY DEF Whole, Chunks
<1> QED BY <1>3, <1>5, <1>6, <1>7

\* The order of a history, and the states that are recorded below one.
InOrder(h) == \A i, j \in DOMAIN h :
  i < j /\ {h[i], h[j]} \subseteq Forward => Rank[h[i]] < Rank[h[j]]
Below(h, n) == \A s \in Forward \ {"ISOLATED"} : Rank[s] < n => Contains(h, s)
Closed(h) == \A s \in Forward : Contains(h, s) => Below(h, Rank[s])

\* A state is recorded in order when those below it are, ISOLATED excepted,
\* which is only recorded while none above it is.
LEMMA RecordedIs ==
  ASSUME NEW h \in Seq(States), NEW state \in States, InOrder(h), Closed(h),
         state \in Forward => Below(h, Rank[state]),
         state = "ISOLATED" => \A s \in Forward : Contains(h, s) => Rank[s] < Rank["ISOLATED"]
  PROVE  LET t == Recorded(h, state) IN
         /\ t \in Seq(States) /\ InOrder(t) /\ Closed(t)
         /\ \A s : Contains(t, s) <=> Contains(h, s) \/ s = state
<1> DEFINE t == Append(h, state)
           n == Len(h) + 1
<1>1. /\ t \in Seq(States) /\ Len(t) = n /\ Len(h) \in Nat /\ DOMAIN t = 1..n /\ DOMAIN h = 1..Len(h)
      /\ t[n] = state /\ \A i \in 1..Len(h) : t[i] = h[i]
  OBVIOUS
<1> HIDE DEF t
<1>2. \A s : Contains(t, s) <=> Contains(h, s) \/ s = state
  BY <1>1 DEF Contains
<1>3. CASE Recorded(h, state) = h
  <2>1. Contains(h, state)
    <3>1. CASE state \notin {"REJECTED", "HELD"} /\ Contains(h, state)
      BY <3>1
    <3>2. CASE ~(state \notin {"REJECTED", "HELD"} /\ Contains(h, state))
      <4>1. t = h
        BY <1>3, <3>2 DEF Recorded, t
      <4> QED BY <1>1, <4>1
    <3> QED BY <3>1, <3>2
  <2> QED BY <1>3, <2>1
<1>4. CASE Recorded(h, state) # h
  <2>1. Recorded(h, state) = t /\ (state \in Forward => ~Contains(h, state))
    BY <1>4, RankOrders DEF Recorded, t
  <2>2. ASSUME NEW i \in 1..Len(h), h[i] \in Forward, state \in Forward
        PROVE  Rank[h[i]] < Rank[state]
    <3>1. Contains(h, h[i])
      BY <1>1 DEF Contains
    <3>2. ~(Rank[h[i]] < Rank[state]) => Rank[state] < Rank[h[i]]
      BY <2>1, <2>2, <3>1, RankOrders
    <3>3. Rank[state] < Rank[h[i]] => state = "ISOLATED"
      BY <2>1, <2>2, <3>1 DEF Closed, Below
    <3> QED BY <2>2, <3>1, <3>2, <3>3, RankOrders
  <2>3. InOrder(t)
    <3> SUFFICES ASSUME NEW i \in 1..n, NEW j \in 1..n, i < j, t[i] \in Forward, t[j] \in Forward
                 PROVE  Rank[t[i]] < Rank[t[j]]
      BY <1>1 DEF InOrder
    <3>1. i \in 1..Len(h) /\ t[i] = h[i]
      <4>1. Len(h) \in Nat
        BY <1>1
      <4>2. i \in 1..Len(h)
        BY <4>1
      <4> QED BY <1>1, <4>2
    <3>2. CASE j = n
      BY <1>1, <2>2, <3>1, <3>2
    <3>3. CASE j # n
      <4>1. j \in 1..Len(h) /\ t[j] = h[j]
        BY <1>1, <3>3
      <4> QED BY <1>1, <3>1, <4>1 DEF InOrder
    <3> QED BY <3>2, <3>3
  <2>4. Closed(t)
    BY <1>2 DEF Closed, Below
  <2> QED BY <1>1, <1>2, <2>1, <2>3, <2>4
<1> QED BY <1>3, <1>4

OpRecs(s) ==
  [status: Terminal \cup {"NONE", "OPEN", "ISOLATED"}, cand: GenOf(s), reg: GenOf(s),
   attempts: Nat, deadline: 0..(MaxClock + Timeout), owner: Actors \cup {"none"},
   lease: 0..(MaxClock + 1), kill: BOOLEAN, repeats: 1..3, valid: BOOLEAN]
CallerRecs(s, now) ==
  [pc: Steps, actor: Actors \cup {"none"}, state: States \cup Terminal \cup {"none"},
   now: 0..now, pinned: GenOf(s), indexed: Digests \cup {NoDigest},
   cand: GenOf(s), reg: GenOf(s), tries: 0..3]
Kinds ==
  /\ Pointed(db) /\ op \in OpRecs(db) /\ caller \in CallerRecs(db, clock)
  /\ history \in Seq(States) /\ clock \in 0..MaxClock /\ deaths \in 0..MaxDeaths

\* The generations of the operation and of its call are told apart by their
\* chunks.
RefsOK ==
  /\ At("first") => caller.pinned \in Of(db) /\ db.rows[caller.pinned].chunks = Chunks("original")
  /\ At("attempt") => caller.reg \in Of(db)
  /\ \A g \in {caller.reg, op.reg} \ {NoGen} : db.rows[g].chunks = Chunks("regression")
  /\ \A g \in {caller.cand, op.cand} \ {NoGen} : db.rows[g].chunks = Chunks("changed")

\* Which candidate a call works on.
Records(states) == At("record") /\ caller.state \in states
Choosing == {"regress", "attempt", "isolate"}
Refusing == {"revoke", "publish", "rollback"}
Beyond == {"ISOLATED", "EVALUATED", "APPROVAL_PENDING", "ROLLBACK_REQUIRED", "ROLLED_BACK",
           "APPLIED", "VERIFIED"}
CandOK ==
  /\ caller.pc \in {"pin", "first", "bind"} \cup Choosing \cup Refusing \/ Records(States \ {"CANCELLED"})
       => caller.cand = op.cand
  /\ caller.pc \in {"idle", "enter"} => caller.cand = NoGen
  /\ At("candidate") => op.cand = NoGen /\ caller.cand # NoGen
  /\ At("finish") \/ At("record") => caller.cand \in {op.cand, NoGen}
  /\ caller.pc \in Choosing \/ Records({"REJECTED"}) => caller.cand = NoGen
  /\ caller.pc \in Refusing \/ Records(Beyond) => caller.cand # NoGen

\* A call beyond its first look works on an operation that is not settled.
LiveOK ==
  /\ caller.pc \notin {"idle", "enter"} => op.status \in {"OPEN", "ISOLATED"}
  /\ op.status = "NONE" => op.cand = NoGen /\ op.attempts = 0 /\ At("idle")
  /\ At("record") => caller.state \in States
  /\ At("finish") => caller.state \in Terminal

\* How far the candidate is: BUILDING until its digest is revoked, and from
\* then on what the one call that revoked it has made of it.
Late == {"ROLLBACK_REQUIRED", "ROLLED_BACK", "APPLIED", "VERIFIED"}
RolledBack ==
  op.cand # NoGen /\ db.rows[op.cand].status = "ROLLED_BACK" /\ Whole("changed") \in db.revoked
StageOK ==
  /\ NotPromoted /\ VerifiedIsRefused
  /\ Whole("changed") \notin db.revoked =>
       \A g \in {op.cand, caller.cand} \ {NoGen} : db.rows[g].status = "BUILDING"
  /\ At("publish") => Whole("changed") \in db.revoked /\ db.rows[op.cand].status = "BUILDING"
  /\ At("rollback") => Whole("changed") \in db.revoked /\ db.rows[op.cand].status = "FAILED"
  /\ Records(Late) => RolledBack
  /\ At("finish") /\ caller.state = "VERIFIED" => RolledBack /\ Contains(history, "ROLLED_BACK")

\* The states below the one a call is about to record are recorded; ISOLATED
\* is not where the call that set the candidate died before it recorded so.
HistoryOK ==
  /\ InOrder(history) /\ Closed(history)
  /\ \A s \in Beyond : Contains(history, s) => op.cand # NoGen
  /\ Records(Forward) => Below(history, Rank[caller.state])
  /\ Records({"ISOLATED"}) => \A s \in Beyond : ~Contains(history, s)
  /\ caller.pc \in Choosing \cup {"candidate"} \/ Records({"REJECTED"}) => Below(history, 4)
  /\ caller.pc \in Refusing => Below(history, 7)

\* An attempt is only begun while there is one to spare.
SparesOne ==
  \/ op.status \in Terminal \/ At("finish") \/ Records({"REJECTED", "HELD"})
  \/ op.attempts < MaxAttempts + deaths
AttemptsOK ==
  /\ AttemptsBounded /\ SparesOne
  /\ caller.pc \in {"idle", "enter", "pin", "first", "bind"} \/ Records({"OBSERVED", "TRIAGED", "PROPOSED"})
       => caller.tries = 0
  /\ caller.pc \in {"regress", "attempt"} => caller.tries < op.repeats

RecInv == Kinds /\ RefsOK /\ CandOK /\ LiveOK /\ StageOK /\ HistoryOK /\ AttemptsOK

LEMMA RecCarries ==
  ASSUME NEW s, NEW t, Pointed(s), Follows(s, t)
  PROVE  /\ OpRecs(s) \subseteq OpRecs(t) /\ \A n : CallerRecs(s, n) \subseteq CallerRecs(t, n)
         /\ Of(s) \subseteq Of(t) /\ GenOf(s) \subseteq GenOf(t)
         /\ \A g \in Of(s) : t.rows[g].chunks = s.rows[g].chunks
<1>1. Of(s) \subseteq Of(t) /\ GenOf(s) \subseteq GenOf(t)
  BY Carries
<1> QED BY <1>1 DEF OpRecs, CallerRecs, Follows, Grows

LEMMA RecFacts ==
  ASSUME RecInv
  PROVE  /\ Pointed(db) /\ op \in OpRecs(db) /\ caller \in CallerRecs(db, clock)
         /\ {op.cand, op.reg, caller.cand, caller.reg, caller.pinned} \subseteq GenOf(db)
         /\ op.attempts \in Nat /\ op.repeats \in 1..3 /\ caller.tries \in 0..3 /\ caller.pc \in Steps
         /\ op.status \in Terminal \cup {"NONE", "OPEN", "ISOLATED"}
         /\ caller.state \in States \cup Terminal \cup {"none"}
         /\ deaths \in Nat /\ clock \in Nat /\ MaxAttempts \in Nat \ {0} /\ history \in Seq(States)
BY RecoveryAssumption DEF RecInv, Kinds, OpRecs, CallerRecs

\* What a change of the caller's place leaves alone.
Goes(q, z) ==
  /\ caller'.pc = q /\ caller'.state = z
  /\ caller'.cand = caller.cand /\ caller'.reg = caller.reg /\ caller'.tries = caller.tries
  /\ caller' \in CallerRecs(db, clock)

LEMMA Gone ==
  ASSUME caller \in CallerRecs(db, clock)
  PROVE  /\ \A q \in Steps : GoTo(q) => Goes(q, caller.state)
         /\ \A z \in States \cup Terminal : ToRecord(z) => Goes("record", z)
         /\ \A z \in States \cup Terminal : ToFinish(z) => Goes("finish", z)
<1>1. "record" \in Steps /\ "finish" \in Steps
  BY DEF Steps
<1> QED BY <1>1 DEF GoTo, ToRecord, ToFinish, Goes, CallerRecs

LEMMA CallerIs ==
  ASSUME NEW s, NEW n \in Nat
  PROVE  /\ NoCaller \in CallerRecs(s, n) /\ NoCaller.pc = "idle" /\ NoCaller.cand = NoGen
         /\ NoCaller.reg = NoGen /\ NoCaller.tries = 0 /\ NoCaller.state = "none"
BY DEF NoCaller, CallerRecs, GenOf, Steps

\* The transactions that leave the candidate alone: no row changes that is
\* not ACTIVE, except those of X.
LEMMA StageKept ==
  ASSUME RecInv, Follows(db, db'), db'.revoked = db.revoked, NEW X,
         \A h \in Of(db) \ X : db.rows[h].status # "ACTIVE" => db'.rows[h].status = db.rows[h].status,
         caller.cand \notin X, op.cand \notin X,
         caller'.cand \in {op.cand, caller.cand, NoGen}, op'.cand \in {op.cand, caller.cand, NoGen},
         op'.status # "VERIFIED" \/ (op'.status = op.status /\ op'.cand = op.cand),
         \A s : Contains(history, s) => Contains(history', s),
         \/ /\ caller'.pc \notin {"publish", "rollback"}
            /\ ~(caller'.pc = "record" /\ caller'.state \in Late)
            /\ ~(caller'.pc = "finish" /\ caller'.state = "VERIFIED")
         \/ caller' = caller /\ op'.cand = op.cand
  PROVE  StageOK'
<1>1. StageOK /\ op.cand \in GenOf(db) /\ caller.cand \in GenOf(db)
  BY RecFacts DEF RecInv
<1>2. ASSUME NEW g \in {op.cand, caller.cand} \ {NoGen}, db.rows[g].status # "ACTIVE"
      PROVE  db'.rows[g].status = db.rows[g].status
  BY <1>1, <1>2 DEF GenOf
<1>3. NotPromoted'
  BY <1>1, <1>2 DEF NotPromoted, StageOK
<1>4. VerifiedIsRefused'
  BY <1>1, <1>2 DEF VerifiedIsRefused, StageOK
<1>5. (Whole("changed") \notin db.revoked =>
         \A g \in {op.cand, caller.cand} \ {NoGen} : db.rows[g].status = "BUILDING")'
  BY <1>1, <1>2 DEF StageOK, Whole
<1>6. CASE caller' = caller /\ op'.cand = op.cand
  <2>1. CandOK
    BY DEF RecInv
  <2>2. At("publish") \/ At("rollback") => op.cand # NoGen
    BY <2>1 DEF CandOK, Refusing, At
  <2> QED BY <1>1, <1>2, <1>3, <1>4, <1>5, <1>6, <2>2 DEF StageOK, At, Records, RolledBack, Whole
<1>7. CASE ~(caller' = caller /\ op'.cand = op.cand)
  BY <1>3, <1>4, <1>5, <1>7 DEF StageOK, At, Records
<1> QED BY <1>6, <1>7

LEMMA StageUntouched ==
  ASSUME RecInv, Follows(db, db'), db'.revoked = db.revoked,
         \A h \in Of(db) : db.rows[h].status # "ACTIVE" => db'.rows[h].status = db.rows[h].status,
         caller'.cand \in {op.cand, caller.cand, NoGen}, op'.cand \in {op.cand, caller.cand, NoGen},
         op'.status # "VERIFIED" \/ (op'.status = op.status /\ op'.cand = op.cand),
         history' = history,
         \/ /\ caller'.pc \notin {"publish", "rollback"}
            /\ ~(caller'.pc = "record" /\ caller'.state \in Late)
            /\ ~(caller'.pc = "finish" /\ caller'.state = "VERIFIED")
         \/ caller' = caller /\ op'.cand = op.cand
  PROVE  StageOK'
<1> DEFINE X == {}
<1>1. /\ \A h \in Of(db) \ X : db.rows[h].status # "ACTIVE" => db'.rows[h].status = db.rows[h].status
      /\ caller.cand \notin X /\ op.cand \notin X
  OBVIOUS
<1>2. \A s : Contains(history, s) => Contains(history', s)
  OBVIOUS
<1> HIDE DEF X
<1> QED BY <1>1, <1>2, StageKept

LEMMA RefsKept ==
  ASSUME RecInv, Follows(db, db'),
         {caller'.reg, op'.reg} \subseteq {caller.reg, op.reg, NoGen},
         {caller'.cand, op'.cand} \subseteq {caller.cand, op.cand, NoGen},
         caller'.pc \notin {"first", "attempt"} \/ caller' = caller
  PROVE  RefsOK'
<1>1. /\ RefsOK /\ Pointed(db)
      /\ {op.cand, op.reg, caller.cand, caller.reg, caller.pinned} \subseteq GenOf(db)
  BY RecFacts DEF RecInv
<1>2. Of(db) \subseteq Of(db') /\ \A g \in Of(db) : db'.rows[g].chunks = db.rows[g].chunks
  BY <1>1, RecCarries
<1>3. \A g \in {caller'.reg, op'.reg} \ {NoGen} : db'.rows[g].chunks = Chunks("regression")
  BY <1>1, <1>2 DEF RefsOK, GenOf
<1>4. \A g \in {caller'.cand, op'.cand} \ {NoGen} : db'.rows[g].chunks = Chunks("changed")
  BY <1>1, <1>2 DEF RefsOK, GenOf
<1>5. (At("first") => caller.pinned \in Of(db) /\ db.rows[caller.pinned].chunks = Chunks("original"))'
  BY <1>1, <1>2 DEF RefsOK, At, Chunks
<1>6. (At("attempt") => caller.reg \in Of(db))'
  BY <1>1, <1>2 DEF RefsOK, At
<1> QED BY <1>3, <1>4, <1>5, <1>6 DEF RefsOK, Chunks

LEMMA RecInit == RecoveryInit => RecInv
<1> SUFFICES ASSUME RecoveryInit PROVE RecInv
  OBVIOUS
<1>1. Pointed(db)
  BY RecoveryAssumption DEF RecoveryInit, Pointed, Store, Of, NoGen
<1>2. NoOp \in OpRecs(db) /\ NoOp.cand = NoGen /\ NoOp.reg = NoGen /\ NoOp.status = "NONE" /\ NoOp.attempts = 0
  BY RecoveryAssumption DEF NoOp, OpRecs, GenOf
<1>3. /\ op = NoOp /\ caller = NoCaller /\ history = <<>> /\ clock = 0 /\ deaths = 0
      /\ NoCaller \in CallerRecs(db, 0) /\ caller.pc = "idle" /\ caller.cand = NoGen /\ caller.reg = NoGen
      /\ caller.tries = 0
  BY CallerIs DEF RecoveryInit
<1>4. \A s : ~Contains(history, s)
  BY <1>3 DEF Contains
<1>5. Kinds
  BY <1>1, <1>2, <1>3, RecoveryAssumption DEF Kinds
<1>6. RefsOK /\ CandOK /\ LiveOK
  BY <1>2, <1>3 DEF RefsOK, CandOK, LiveOK, At, Records, Choosing, Refusing
<1>7. StageOK
  BY <1>2, <1>3 DEF StageOK, NotPromoted, VerifiedIsRefused, At, Records
<1>8. HistoryOK
  <2>1. InOrder(history)
    BY <1>3 DEF InOrder
  <2> QED BY <1>3, <1>4, <2>1 DEF HistoryOK, Closed, At, Records, Choosing, Refusing
<1>9. AttemptsOK
  BY <1>2, <1>3, RecoveryAssumption DEF AttemptsOK, AttemptsBounded, SparesOne, At, Records
<1> QED BY <1>5, <1>6, <1>7, <1>8, <1>9 DEF RecInv

\* A call arrives, returns or dies.
LEMMA RecCallStep ==
  ASSUME RecInv, Die \/ \E a \in Actors : Run(a) \/ Resume(a)
  PROVE  RecInv' /\ Follows(db, db')
<1>1. /\ Pointed(db) /\ op \in OpRecs(db) /\ clock \in 0..MaxClock /\ deaths \in 0..MaxDeaths
      /\ history \in Seq(States) /\ deaths \in Nat /\ MaxAttempts \in Nat \ {0} /\ op.attempts \in Nat
      /\ Timeout \in Nat /\ MaxDeaths \in Nat /\ MaxClock \in Nat
  BY RecFacts, RecoveryAssumption DEF RecInv, Kinds
<1>2. /\ UNCHANGED <<db, history, clock>> /\ db'.revoked = db.revoked /\ Follows(db, db')
      /\ \A h \in Of(db) : db.rows[h].status # "ACTIVE" => db'.rows[h].status = db.rows[h].status
  <2>1. UNCHANGED <<db, history, clock>>
    BY DEF Die, Run, Resume
  <2> QED BY <1>1, <2>1, Reflexive
<1>3. ASSUME NEW a \in Actors, Run(a) \/ Resume(a)
      PROVE  /\ caller' \in CallerRecs(db, clock) /\ caller'.pc = "enter" /\ caller'.cand = NoGen
             /\ caller'.reg = NoGen /\ caller'.tries = 0 /\ UNCHANGED deaths
  <2>1. caller' = [NoCaller EXCEPT !.pc = "enter", !.actor = a, !.now = clock] /\ UNCHANGED deaths
    BY <1>3 DEF Run, Resume, Arrives
  <2>2. clock \in 0..clock
    BY <1>1
  <2>3. NoCaller \in CallerRecs(db, clock)
    BY <1>1, CallerIs
  <2>4. caller' \in CallerRecs(db, clock)
    BY <2>1, <2>2, <2>3 DEF CallerRecs, Steps
  <2> QED BY <2>1, <2>4 DEF NoCaller
<1>4. ASSUME NEW a \in Actors, Run(a)
      PROVE  RecInv' /\ Follows(db, db')
  <2>1. PICK kill \in BOOLEAN, repeats \in 1..3, valid \in BOOLEAN :
          op' = [NoOp EXCEPT !.status = "OPEN", !.deadline = clock + Timeout, !.owner = a,
                   !.lease = clock + 1, !.kill = kill, !.repeats = repeats, !.valid = valid]
    BY <1>4 DEF Run
  <2>2. clock + Timeout \in 0..(MaxClock + Timeout) /\ clock + 1 \in 0..(MaxClock + 1)
    BY <1>1
  <2>3. op' \in OpRecs(db)
    BY <2>1, <2>2 DEF NoOp, OpRecs, GenOf, Terminal
  <2>4. op'.status = "OPEN" /\ op'.cand = NoGen /\ op'.reg = NoGen /\ op'.attempts = 0
    BY <2>1 DEF NoOp
  <2>5. op.status = "NONE" /\ op.cand = NoGen
    BY <1>4 DEF Run, RecInv, LiveOK
  <2>6. Kinds'
    BY <1>1, <1>2, <1>3, <1>4, <2>3 DEF Kinds
  <2>7. RefsOK'
    BY <1>2, <1>3, <1>4, <2>4, RefsKept
  <2>8. CandOK' /\ LiveOK'
    BY <1>3, <1>4, <2>4 DEF CandOK, LiveOK, At, Records, Choosing, Refusing, Terminal
  <2>9. StageOK'
    BY <1>2, <1>3, <1>4, <2>4, StageUntouched
  <2>10. HistoryOK'
    BY <1>2, <1>3, <1>4, <2>5 DEF RecInv, HistoryOK, At, Records, Choosing, Refusing
  <2>11. AttemptsOK'
    BY <1>1, <1>3, <1>4, <2>4 DEF AttemptsOK, AttemptsBounded, SparesOne, At, Records
  <2> QED BY <1>2, <2>6, <2>7, <2>8, <2>9, <2>10, <2>11 DEF RecInv
<1>5. ASSUME caller' \in CallerRecs(db, clock), caller'.pc \in {"idle", "enter"}, caller'.cand = NoGen,
             caller'.reg = NoGen, caller'.tries = 0, UNCHANGED op, deaths' \in 0..MaxDeaths,
             op.status # "NONE",
             op.status \in Terminal \/ op.attempts < MaxAttempts + deaths', deaths <= deaths'
      PROVE  RecInv' /\ Follows(db, db')
  <2>1. Kinds'
    BY <1>1, <1>2, <1>5 DEF Kinds
  <2>2. RefsOK'
    BY <1>2, <1>5, RefsKept
  <2>3. CandOK' /\ LiveOK'
    BY <1>5 DEF CandOK, LiveOK, At, Records, Choosing, Refusing
  <2>4. StageOK'
    BY <1>2, <1>5, StageUntouched
  <2>5. HistoryOK'
    BY <1>2, <1>5 DEF RecInv, HistoryOK, At, Records, Choosing, Refusing
  <2>6. AttemptsOK'
    <3>1. op.attempts <= MaxAttempts + deaths
      BY DEF RecInv, AttemptsOK, AttemptsBounded
    <3>2. op.attempts <= MaxAttempts + deaths'
      BY <1>1, <1>5, <3>1
    <3> QED BY <1>5, <3>2 DEF AttemptsOK, AttemptsBounded, SparesOne, At, Records
  <2> QED BY <1>2, <2>1, <2>2, <2>3, <2>4, <2>5, <2>6 DEF RecInv
<1>6. ASSUME NEW a \in Actors, Resume(a)
      PROVE  RecInv' /\ Follows(db, db')
  <2>1. op.status # "NONE" /\ op.status \notin Terminal /\ caller.pc = "idle" /\ UNCHANGED <<op, deaths>>
    BY <1>6 DEF Resume, At
  <2>2. op.attempts < MaxAttempts + deaths
    BY <2>1 DEF RecInv, AttemptsOK, SparesOne, At, Records
  <2> QED BY <1>1, <1>3, <1>5, <1>6, <2>1, <2>2
<1>7. ASSUME Die
      PROVE  RecInv' /\ Follows(db, db')
  <2>1. deaths' = deaths + 1 /\ deaths' \in 0..MaxDeaths /\ caller' = NoCaller /\ UNCHANGED op
    BY <1>1, <1>7 DEF Die, Return
  <2>2. op.status # "NONE"
    BY <1>7 DEF Die, RecInv, LiveOK
  <2>3. op.attempts <= MaxAttempts + deaths
    BY DEF RecInv, AttemptsOK, AttemptsBounded
  <2>4. op.attempts < MaxAttempts + deaths'
    BY <1>1, <2>1, <2>3
  <2>5. clock \in Nat
    BY <1>1
  <2> QED BY <1>1, <1>5, <2>1, <2>2, <2>4, <2>5, CallerIs
<1> QED BY <1>4, <1>6, <1>7

\* Time, and the publications of others.
LEMMA RecOutsideStep ==
  ASSUME RecInv, Tick \/ OtherBuild
  PROVE  RecInv' /\ Follows(db, db')
<1>1. /\ Pointed(db) /\ op \in OpRecs(db) /\ caller \in CallerRecs(db, clock) /\ clock \in 0..MaxClock
      /\ MaxClock \in Nat
  BY RecFacts, RecoveryAssumption DEF RecInv, Kinds
<1>2. UNCHANGED <<op, history, caller, deaths>> /\ clock' \in 0..MaxClock /\ clock <= clock'
  BY <1>1 DEF Tick, OtherBuild
<1>3. /\ db'.revoked = db.revoked /\ Follows(db, db')
      /\ \A h \in Of(db) : db.rows[h].status # "ACTIVE" => db'.rows[h].status = db.rows[h].status
  <2>1. CASE Tick
    BY <1>1, <2>1, Reflexive DEF Tick
  <2>2. CASE OtherBuild
    <3> DEFINE t == Stage(db, {<<"other", 1>>}, {})
    <3>1. {<<"other", 1>>} \in SUBSET Digests /\ {} \in SUBSET Digests
      BY ChunksApart
    <3>2. /\ Follows(db, t) /\ t.active = db.active /\ t.revoked = db.revoked
          /\ NextGen(db) \in Of(t) /\ NextGen(db) \notin Of(db)
          /\ \A g \in Of(db) : t.rows[g] = db.rows[g]
      BY <1>1, <3>1, StageIs
    <3>3. db' = Published(t, NextGen(db))
      BY <2>2 DEF OtherBuild
    <3> HIDE DEF t
    <3>4. /\ Follows(t, db') /\ db'.revoked = t.revoked
          /\ \A h \in Of(t) : h # NextGen(db) /\ h # t.active => db'.rows[h] = t.rows[h]
      BY <3>2, <3>3, PublishedIs DEF Follows
    <3>5. Follows(db, db')
      BY <1>1, <3>2, <3>4, FollowsOn
    <3>6. ASSUME NEW h \in Of(db), db.rows[h].status # "ACTIVE"
          PROVE  db'.rows[h] = db.rows[h]
      <4>1. h # db.active /\ h # NextGen(db) /\ h \in Of(t)
        BY <1>1, <3>2, <3>6, Carries DEF Pointed
      <4> QED BY <3>2, <3>4, <4>1
    <3> QED BY <3>2, <3>4, <3>5, <3>6
  <2> QED BY <2>1, <2>2
<1>4. Kinds'
  <2>1. op \in OpRecs(db') /\ caller \in CallerRecs(db', clock)
    BY <1>1, <1>3, RecCarries
  <2>2. caller \in CallerRecs(db', clock')
    <3>1. 0..clock \subseteq 0..clock'
      BY <1>1, <1>2
    <3> QED BY <2>1, <3>1 DEF CallerRecs
  <2> QED BY <1>2, <1>3, <2>1, <2>2 DEF RecInv, Kinds, Follows
<1>5. RefsOK'
  BY <1>2, <1>3, RefsKept
<1>6. CandOK' /\ LiveOK'
  BY <1>2 DEF RecInv, CandOK, LiveOK, At, Records
<1>7. StageOK'
  BY <1>2, <1>3, StageUntouched
<1>8. HistoryOK' /\ AttemptsOK'
  BY <1>2 DEF RecInv, HistoryOK, AttemptsOK, AttemptsBounded, SparesOne, At, Records
<1> QED BY <1>3, <1>4, <1>5, <1>6, <1>7, <1>8 DEF RecInv

\* A step of the call that leaves the database, the operation and the history.
LEMMA RecQuiet ==
  ASSUME RecInv, UNCHANGED <<db, op, history, clock, deaths>>, caller' \in CallerRecs(db, clock),
         caller'.pc \notin {"first", "attempt", "publish", "rollback", "candidate"},
         caller'.reg \in {op.reg, caller.reg, NoGen}, caller'.cand \in {op.cand, NoGen},
         ~(caller'.pc = "record" /\ caller'.state \in Late),
         ~(caller'.pc = "finish" /\ caller'.state = "VERIFIED"),
         CandOK', LiveOK', HistoryOK', AttemptsOK'
  PROVE  RecInv' /\ Follows(db, db')
<1>1. /\ Pointed(db) /\ Follows(db, db') /\ db'.revoked = db.revoked
      /\ \A h \in Of(db) : db.rows[h].status # "ACTIVE" => db'.rows[h].status = db.rows[h].status
  BY RecFacts, Reflexive
<1>2. Kinds'
  BY DEF RecInv, Kinds
<1>3. RefsOK'
  BY <1>1, RefsKept
<1>4. StageOK'
  BY <1>1, StageUntouched
<1> QED BY <1>1, <1>2, <1>3, <1>4 DEF RecInv

LEMMA RecEnter ==
  ASSUME RecInv, Enter
  PROVE  RecInv' /\ Follows(db, db')
<1>1. /\ caller \in CallerRecs(db, clock) /\ op \in OpRecs(db) /\ clock \in Nat /\ caller.pc = "enter"
      /\ UNCHANGED <<db, op, history, clock, deaths>>
  BY RecFacts DEF Enter, At
<1>2. /\ op.status # "NONE" /\ caller.cand = NoGen /\ caller.tries = 0
      /\ op.attempts <= MaxAttempts + deaths
      /\ (op.status \in Terminal \/ op.attempts < MaxAttempts + deaths)
      /\ op.status \in Terminal \cup {"OPEN", "ISOLATED"}
      /\ (\A s \in Beyond : Contains(history, s) => op.cand # NoGen) /\ InOrder(history) /\ Closed(history)
  BY <1>1, RecFacts
     DEF RecInv, LiveOK, CandOK, AttemptsOK, AttemptsBounded, SparesOne, HistoryOK, At, Records
<1>3. CASE Settled \/ Leased
  <2>1. caller' = NoCaller
    BY <1>3 DEF Enter, Return
  <2>2. caller' \in CallerRecs(db, clock) /\ caller'.pc = "idle" /\ caller'.cand = NoGen
        /\ caller'.reg = NoGen /\ caller'.tries = 0
    BY <1>1, <2>1, CallerIs
  <2>3. CandOK' /\ LiveOK' /\ HistoryOK' /\ AttemptsOK'
    BY <1>1, <1>2, <2>2
       DEF LiveOK, CandOK, AttemptsOK, AttemptsBounded, SparesOne, HistoryOK, At, Records, Choosing, Refusing
  <2> QED BY <1>1, <2>2, <2>3, RecQuiet
<1>4. CASE ~(Settled \/ Leased) /\ op.deadline < caller.now
  <2>1. ToRecord("CANCELLED") /\ "CANCELLED" \in States
    BY <1>4 DEF Enter, States
  <2>2. Goes("record", "CANCELLED")
    BY <1>1, <2>1, Gone
  <2>3. CandOK' /\ LiveOK' /\ HistoryOK' /\ AttemptsOK'
    BY <1>1, <1>2, <1>4, <2>1, <2>2, RankIs
       DEF Goes, Settled, LiveOK, CandOK, AttemptsOK, AttemptsBounded, SparesOne, HistoryOK, At, Records,
           Choosing, Refusing, Beyond
  <2> QED BY <1>1, <1>2, <2>2, <2>3, RecQuiet DEF Goes, Late
<1>5. CASE ~(Settled \/ Leased) /\ ~(op.deadline < caller.now)
  <2>1. caller' = [caller EXCEPT !.pc = "pin", !.cand = op.cand, !.reg = op.reg]
    BY <1>5 DEF Enter, ToPin
  <2>2. caller' \in CallerRecs(db, clock) /\ caller'.pc = "pin" /\ caller'.cand = op.cand
        /\ caller'.reg = op.reg /\ caller'.tries = 0
    BY <1>1, <1>2, <2>1 DEF CallerRecs, OpRecs, Steps
  <2>3. CandOK' /\ LiveOK' /\ HistoryOK' /\ AttemptsOK'
    BY <1>1, <1>2, <1>5, <2>2
       DEF Settled, LiveOK, CandOK, AttemptsOK, AttemptsBounded, SparesOne, HistoryOK, At, Records,
           Choosing, Refusing
  <2> QED BY <1>1, <2>2, <2>3, RecQuiet
<1> QED BY <1>3, <1>4, <1>5

LEMMA RecPin ==
  ASSUME RecInv, Pin
  PROVE  RecInv' /\ Follows(db, db')
<1>1. /\ caller \in CallerRecs(db, clock) /\ caller.pc = "pin" /\ Pointed(db)
      /\ UNCHANGED <<db, op, history, clock, deaths>>
  BY RecFacts DEF Pin, At
<1>2. db.active \in Of(db) /\ db.rows[db.active].chunks \subseteq Digests
  <2>1. db.active \in Of(db)
    BY <1>1 DEF Pin, Pointed
  <2>2. db.rows[db.active] \in GenRow
    BY <1>1, <2>1 DEF Pointed, Store, Of
  <2> QED BY <2>1, <2>2 DEF GenRow
<1>3. PICK d \in Digests : caller' = [caller EXCEPT !.pc = "bind", !.pinned = db.active, !.indexed = d]
  BY <1>2 DEF Pin
<1>4. caller' \in CallerRecs(db, clock) /\ caller'.pc = "bind" /\ caller'.cand = caller.cand
      /\ caller'.reg = caller.reg /\ caller'.tries = caller.tries
  BY <1>1, <1>2, <1>3 DEF CallerRecs, Steps, GenOf
<1>5. CandOK' /\ LiveOK' /\ HistoryOK' /\ AttemptsOK'
  BY <1>1, <1>4
     DEF RecInv, LiveOK, CandOK, AttemptsOK, AttemptsBounded, SparesOne, HistoryOK, At, Records,
         Choosing, Refusing
<1>6. caller.cand = op.cand
  BY <1>1 DEF RecInv, CandOK
<1> QED BY <1>1, <1>4, <1>5, <1>6, RecQuiet

\* A body is staged as a new generation of its chunks.
LEMMA StagesBody ==
  ASSUME Pointed(db), NEW b \in Bodies, db' = Stage(db, Chunks(b), {})
  PROVE  /\ Follows(db, db') /\ db'.revoked = db.revoked
         /\ NextGen(db) \in Of(db') /\ NextGen(db) # NoGen
         /\ db'.rows[NextGen(db)].chunks = Chunks(b) /\ db'.rows[NextGen(db)].status = "BUILDING"
         /\ \A h \in Of(db) : db'.rows[h] = db.rows[h]
<1> DEFINE C == Chunks(b)
           V == {}
<1>1. C \in SUBSET Digests /\ V \in SUBSET Digests /\ db' = Stage(db, C, V)
  BY ChunksApart
<1> HIDE DEF C, V
<1>2. /\ Follows(db, db') /\ db'.revoked = db.revoked
      /\ NextGen(db) \in Of(db') /\ NextGen(db) # NoGen
      /\ db'.rows[NextGen(db)] = [status |-> "BUILDING", chunks |-> C, vecs |-> V, seal |-> NoSeal]
      /\ \A h \in Of(db) : db'.rows[h] = db.rows[h]
  BY <1>1, StageIs
<1> QED BY <1>2 DEF C

LEMMA RecStageFirst ==
  ASSUME RecInv, StageFirst
  PROVE  RecInv' /\ Follows(db, db')
<1>1. /\ caller \in CallerRecs(db, clock) /\ op \in OpRecs(db) /\ caller.pc = "pin" /\ Pointed(db)
      /\ UNCHANGED <<op, history, clock, deaths>> /\ caller.cand = op.cand
      /\ db' = Stage(db, Chunks("original"), {})
      /\ caller' = [caller EXCEPT !.pc = "first", !.pinned = NextGen(db)]
  BY RecFacts DEF StageFirst, At, RecInv, CandOK
<1>2. "original" \in Bodies
  BY DEF Bodies
<1>3. /\ Follows(db, db') /\ db'.revoked = db.revoked /\ NextGen(db) \in Of(db')
      /\ db'.rows[NextGen(db)].chunks = Chunks("original")
      /\ \A h \in Of(db) : db'.rows[h] = db.rows[h]
  BY <1>1, <1>2, StagesBody
<1>4. caller \in CallerRecs(db', clock) /\ op \in OpRecs(db') /\ Pointed(db')
  BY <1>1, <1>3, RecCarries DEF Follows
<1>5. caller' \in CallerRecs(db', clock') /\ caller'.pc = "first" /\ caller'.cand = caller.cand
      /\ caller'.reg = caller.reg /\ caller'.tries = caller.tries /\ caller'.pinned = NextGen(db)
  BY <1>1, <1>3, <1>4 DEF CallerRecs, Steps, GenOf
<1>6. Kinds'
  BY <1>1, <1>4, <1>5 DEF RecInv, Kinds
<1>7. RefsOK'
  <2>1. \A g \in GenOf(db) \ {NoGen} : db'.rows[g] = db.rows[g]
    BY <1>3 DEF GenOf
  <2>2. {caller.cand, caller.reg, op.cand, op.reg} \subseteq GenOf(db) /\ RefsOK
    BY RecFacts DEF RecInv
  <2> QED BY <1>1, <1>3, <1>5, <2>1, <2>2 DEF RefsOK, At, Chunks
<1>8. CandOK' /\ LiveOK' /\ HistoryOK' /\ AttemptsOK'
  BY <1>1, <1>5
     DEF RecInv, LiveOK, CandOK, AttemptsOK, AttemptsBounded, SparesOne, HistoryOK, At, Records,
         Choosing, Refusing
<1>9. StageOK'
  BY <1>1, <1>3, <1>5, StageUntouched
<1> QED BY <1>3, <1>6, <1>7, <1>8, <1>9 DEF RecInv

LEMMA RecPublishFirst ==
  ASSUME RecInv, PublishFirst
  PROVE  RecInv' /\ Follows(db, db')
<1> DEFINE g == caller.pinned
<1>1. /\ caller \in CallerRecs(db, clock) /\ op \in OpRecs(db) /\ caller.pc = "first" /\ Pointed(db)
      /\ UNCHANGED <<op, history, clock, deaths>> /\ caller.cand = op.cand
      /\ db' = Published(db, g) /\ g \in Of(db) /\ db.rows[g].chunks = Chunks("original")
  BY RecFacts DEF PublishFirst, At, RecInv, CandOK, RefsOK
<1>2. /\ Follows(db, db') /\ db'.revoked = db.revoked
      /\ \A h \in Of(db) : h # g /\ h # db.active => db'.rows[h] = db.rows[h]
  BY <1>1, PublishedIs
<1>3. g # op.cand
  <2>1. op.cand # NoGen => db.rows[op.cand].chunks = Chunks("changed")
    BY DEF RecInv, RefsOK
  <2>2. g # NoGen
    BY <1>1 DEF Of, NoGen, Pointed, Store
  <2> QED BY <1>1, <2>1, <2>2, ChunksApart
<1>4. caller \in CallerRecs(db', clock) /\ op \in OpRecs(db') /\ Pointed(db')
  BY <1>1, <1>2, RecCarries DEF Follows
<1>5. \/ Goes("finish", "RECOVERY_FAILED") /\ caller' \in CallerRecs(db', clock)
      \/ /\ caller' \in CallerRecs(db', clock) /\ caller'.pc = "bind" /\ caller'.cand = caller.cand
         /\ caller'.reg = caller.reg /\ caller'.tries = caller.tries
  <2>1. CASE db'.active # g
    <3>1. ToFinish("RECOVERY_FAILED") /\ "RECOVERY_FAILED" \in Terminal
      BY <2>1 DEF PublishFirst, Terminal
    <3> QED BY <1>1, <1>2, <3>1, Gone, RecCarries DEF Goes
  <2>2. CASE db'.active = g
    <3>1. PICK d \in Chunks("original") : caller' = [caller EXCEPT !.pc = "bind", !.indexed = d]
      BY <2>2 DEF PublishFirst
    <3>2. d \in Digests
      BY ChunksApart DEF Bodies
    <3> QED BY <1>4, <3>1, <3>2 DEF CallerRecs, Steps
  <2> QED BY <2>1, <2>2
<1>6. /\ caller' \in CallerRecs(db', clock) /\ caller'.cand = caller.cand
      /\ caller'.reg = caller.reg /\ caller'.tries = caller.tries
      /\ caller'.pc = "bind" \/ (caller'.pc = "finish" /\ caller'.state = "RECOVERY_FAILED")
  BY <1>5 DEF Goes
<1>7. Kinds'
  BY <1>1, <1>4, <1>6 DEF RecInv, Kinds
<1>8. RefsOK'
  BY <1>1, <1>2, <1>6, RefsKept
<1>9. CandOK' /\ LiveOK' /\ HistoryOK' /\ AttemptsOK'
  BY <1>1, <1>6
     DEF RecInv, LiveOK, CandOK, AttemptsOK, AttemptsBounded, SparesOne, HistoryOK, At, Records,
         Choosing, Refusing, Terminal
<1>10. StageOK'
  <2>1. \A h \in Of(db) \ {g} : db.rows[h].status # "ACTIVE" => db'.rows[h].status = db.rows[h].status
    BY <1>1, <1>2 DEF Pointed
  <2>2. op.cand \notin {g} /\ caller.cand \notin {g} /\ \A s : Contains(history, s) => Contains(history', s)
    BY <1>1, <1>3
  <2> DEFINE X == {g}
  <2> HIDE DEF X, g
  <2>3. /\ \A h \in Of(db) \ X : db.rows[h].status # "ACTIVE" => db'.rows[h].status = db.rows[h].status
        /\ op.cand \notin X /\ caller.cand \notin X
    BY <2>1, <2>2 DEF X
  <2> QED BY <1>1, <1>2, <1>6, <2>2, <2>3, StageKept DEF Late
<1> QED BY <1>2, <1>7, <1>8, <1>9, <1>10 DEF RecInv

LEMMA RecBind ==
  ASSUME RecInv, Bind
  PROVE  RecInv' /\ Follows(db, db')
<1>1. /\ caller \in CallerRecs(db, clock) /\ op \in OpRecs(db) /\ caller.pc = "bind" /\ Pointed(db)
      /\ UNCHANGED <<db, history, clock, deaths>> /\ caller.cand = op.cand
      /\ op' = [op EXCEPT !.owner = caller.actor, !.lease = caller.now + 1]
      /\ ToRecord("OBSERVED") /\ "OBSERVED" \in States /\ clock \in 0..MaxClock /\ MaxClock \in Nat
  BY RecFacts, RankIs, RankOrders, RecoveryAssumption DEF Bind, At, RecInv, Kinds, CandOK
<1>2. Goes("record", "OBSERVED")
  BY <1>1, Gone
<1>3. caller.now + 1 \in 0..(MaxClock + 1) /\ caller.actor \in Actors \cup {"none"}
  BY <1>1 DEF CallerRecs
<1>4. op' \in OpRecs(db) /\ op'.cand = op.cand /\ op'.reg = op.reg /\ op'.status = op.status
      /\ op'.attempts = op.attempts /\ op'.repeats = op.repeats
  BY <1>1, <1>3 DEF OpRecs
<1>5. /\ Follows(db, db') /\ db'.revoked = db.revoked
      /\ \A h \in Of(db) : db.rows[h].status # "ACTIVE" => db'.rows[h].status = db.rows[h].status
  BY <1>1, Reflexive
<1>6. Kinds'
  BY <1>1, <1>2, <1>4 DEF RecInv, Kinds, Goes
<1>7. RefsOK'
  BY <1>2, <1>4, <1>5, RefsKept DEF Goes
<1>8. CandOK' /\ LiveOK'
  BY <1>1, <1>2, <1>4 DEF RecInv, LiveOK, CandOK, Goes, At, Records, Choosing, Refusing, Beyond
<1>9. StageOK'
  BY <1>1, <1>2, <1>4, <1>5, StageUntouched DEF Goes, Late
<1>10. HistoryOK'
  <2>1. Below(history, Rank["OBSERVED"])
    BY RankIs DEF Below
  <2>2. HistoryOK
    BY DEF RecInv
  <2> QED BY <1>1, <1>2, <1>4, <2>1, <2>2 DEF HistoryOK, Goes, At, Records, Choosing, Refusing
<1>11. AttemptsOK'
  BY <1>1, <1>2, <1>4 DEF RecInv, Goes, AttemptsOK, AttemptsBounded, SparesOne, At, Records
<1> QED BY <1>5, <1>6, <1>7, <1>8, <1>9, <1>10, <1>11 DEF RecInv

\* What follows each recorded state, case by case.
LEMMA FollowIs ==
  ASSUME RecInv, Record
  PROVE  LET s == caller.state IN
         \/ /\ s = "OBSERVED"
            /\ Goes("finish", "HELD") \/ Goes("record", "HELD") \/ Goes("record", "TRIAGED")
         \/ s = "PROPOSED" /\ caller.cand # NoGen /\ Goes("record", "EVALUATED")
         \/ s = "PROPOSED" /\ caller.cand = NoGen /\ Goes("regress", s)
         \/ s = "REJECTED" /\ op.attempts >= MaxAttempts /\ Goes("record", "HELD")
         \/ /\ s = "REJECTED" /\ ~(op.attempts >= MaxAttempts)
            /\ (Goes("regress", s) /\ caller.tries < op.repeats) \/ Goes("isolate", s)
         \/ s = "EVALUATED" /\ (Goes("finish", "RECOVERY_FAILED") \/ Goes("record", "APPROVAL_PENDING"))
         \/ s = "APPROVAL_PENDING" /\ Goes("revoke", s)
         \/ s \in {"HELD", "CANCELLED", "VERIFIED"} /\ Goes("finish", s)
         \/ s = "TRIAGED" /\ Goes("record", "PROPOSED")
         \/ s = "ISOLATED" /\ Goes("record", "EVALUATED")
         \/ s = "ROLLBACK_REQUIRED" /\ Goes("record", "ROLLED_BACK")
         \/ s = "ROLLED_BACK" /\ Goes("record", "APPLIED")
         \/ s = "APPLIED" /\ Goes("record", "VERIFIED")
<1> DEFINE s == caller.state
<1>1. s \in States /\ Follow(s) /\ caller \in CallerRecs(db, clock)
  BY RecFacts DEF Record, RecInv, LiveOK, At
<1>2. /\ \A q \in {"regress", "isolate", "revoke"} : GoTo(q) => Goes(q, s)
      /\ \A z \in States \cup Terminal : ToRecord(z) => Goes("record", z)
      /\ \A z \in States \cup Terminal : ToFinish(z) => Goes("finish", z)
  <2>1. {"regress", "isolate", "revoke"} \subseteq Steps
    BY DEF Steps
  <2> QED BY <1>1, <2>1, Gone
<1>3. /\ s \in {"OBSERVED", "TRIAGED", "PROPOSED", "ISOLATED", "EVALUATED", "APPROVAL_PENDING",
                "ROLLBACK_REQUIRED", "ROLLED_BACK", "APPLIED", "VERIFIED", "REJECTED", "HELD", "CANCELLED"}
      /\ {"HELD", "CANCELLED", "VERIFIED", "TRIAGED", "PROPOSED", "EVALUATED", "APPROVAL_PENDING",
          "ROLLED_BACK", "APPLIED"} \subseteq States
      /\ {"HELD", "CANCELLED", "VERIFIED", "RECOVERY_FAILED"} \subseteq Terminal
  BY <1>1, RankIs DEF States, Terminal
<1> HIDE DEF s
<1>4. CASE s = "OBSERVED"
  <2>1. ToFinish("HELD") \/ ToRecord("HELD") \/ ToRecord("TRIAGED")
    BY <1>1, <1>4 DEF Follow
  <2> QED BY <1>2, <1>3, <1>4, <2>1 DEF s
<1>5. CASE s = "PROPOSED"
  <2>1. \/ caller.cand # NoGen /\ ToRecord("EVALUATED")
        \/ caller.cand = NoGen /\ GoTo("regress")
    BY <1>1, <1>5 DEF Follow
  <2> QED BY <1>2, <1>3, <1>5, <2>1 DEF s
<1>6. CASE s = "REJECTED"
  <2>1. \/ op.attempts >= MaxAttempts /\ ToRecord("HELD")
        \/ /\ ~(op.attempts >= MaxAttempts)
           /\ (caller.tries < op.repeats /\ GoTo("regress")) \/ GoTo("isolate")
    BY <1>1, <1>6 DEF Follow, Spent
  <2> QED BY <1>2, <1>3, <1>6, <2>1 DEF s
<1>7. CASE s = "EVALUATED"
  <2>1. ToFinish("RECOVERY_FAILED") \/ ToRecord("APPROVAL_PENDING")
    BY <1>1, <1>7, SuccessorIs DEF Follow
  <2> QED BY <1>2, <1>3, <1>7, <2>1 DEF s
<1>8. CASE s = "APPROVAL_PENDING"
  <2>1. GoTo("revoke")
    BY <1>1, <1>8 DEF Follow
  <2> QED BY <1>2, <1>8, <2>1 DEF s
<1>9. CASE s \in {"HELD", "CANCELLED", "VERIFIED"}
  <2>1. ToFinish(s)
    BY <1>1, <1>9 DEF Follow
  <2> QED BY <1>2, <1>3, <1>9, <2>1 DEF s
<1>10. CASE s \in {"TRIAGED", "ISOLATED", "ROLLBACK_REQUIRED", "ROLLED_BACK", "APPLIED"}
  <2>1. ToRecord(Successor[s])
    BY <1>1, <1>10 DEF Follow
  <2> QED BY <1>2, <1>3, <1>10, <2>1, SuccessorIs DEF s
<1> QED BY <1>3, <1>4, <1>5, <1>6, <1>7, <1>8, <1>9, <1>10 DEF s

LEMMA BelowNext ==
  ASSUME NEW h, NEW t, NEW state \in Forward, Below(h, Rank[state]),
         \A s : Contains(t, s) <=> Contains(h, s) \/ s = state
  PROVE  /\ Below(t, Rank[state] + 1)
         /\ state = "PROPOSED" => Below(t, 4) /\ Below(t, 5)
<1>1. \A s \in Forward : Rank[s] < Rank[state] + 1 => Rank[s] < Rank[state] \/ s = state
  BY RankOrders
<1>2. Below(t, Rank[state] + 1)
  BY <1>1 DEF Below
<1>3. \A s \in Forward \ {"ISOLATED"} : Rank[s] < 5 => Rank[s] < 4
  BY RankIs
<1>4. Rank["PROPOSED"] + 1 = 4
  BY RankIs
<1> QED BY <1>2, <1>3, <1>4 DEF Below

LEMMA RecRecord ==
  ASSUME RecInv, Record
  PROVE  RecInv' /\ Follows(db, db')
<1> DEFINE s == caller.state
<1>1. /\ caller \in CallerRecs(db, clock) /\ Pointed(db) /\ caller.pc = "record" /\ s \in States
      /\ UNCHANGED <<db, op, clock, deaths>> /\ history' = Recorded(history, s) /\ history \in Seq(States)
  BY RecFacts DEF Record, RecInv, LiveOK, At
<1>2. /\ InOrder(history) /\ Closed(history) /\ (s \in Forward => Below(history, Rank[s]))
      /\ (s = "ISOLATED" => \A x \in Beyond : ~Contains(history, x))
      /\ (s = "REJECTED" => Below(history, 4))
      /\ (\A x \in Beyond : Contains(history, x) => op.cand # NoGen)
  BY <1>1 DEF RecInv, HistoryOK, Records, At
<1>3. /\ (s # "CANCELLED" => caller.cand = op.cand) /\ caller.cand \in {op.cand, NoGen}
      /\ (s = "REJECTED" => caller.cand = NoGen) /\ (s \in Beyond => caller.cand # NoGen)
      /\ op.status \in {"OPEN", "ISOLATED"}
  BY <1>1 DEF RecInv, CandOK, LiveOK, Records, At
<1>4. /\ history' \in Seq(States) /\ InOrder(history') /\ Closed(history')
      /\ \A x : Contains(history', x) <=> Contains(history, x) \/ x = s
  <2>1. \A x \in Forward : x \in Beyond \/ Rank[x] < Rank["ISOLATED"]
    BY RankIs DEF Beyond
  <2>2. s = "ISOLATED" => \A x \in Forward : Contains(history, x) => Rank[x] < Rank["ISOLATED"]
    BY <1>2, <2>1
  <2> QED BY <1>1, <1>2, <2>2, RecordedIs
<1>5. /\ s \in Forward => Below(history', Rank[s] + 1)
      /\ s = "PROPOSED" => Below(history', 4) /\ Below(history', 5)
      /\ s = "REJECTED" => Below(history', 4)
  <2>1. "PROPOSED" \in Forward
    BY RankIs
  <2>2. \A n : Below(history, n) => Below(history', n)
    BY <1>4 DEF Below
  <2> QED BY <1>2, <1>4, <2>1, <2>2, BelowNext
<1>6. /\ caller' \in CallerRecs(db, clock) /\ caller'.cand = caller.cand /\ caller'.reg = caller.reg
      /\ caller'.tries = caller.tries /\ caller'.pc \in {"record", "finish", "regress", "isolate", "revoke"}
  BY FollowIs DEF Goes
<1> DEFINE z == caller'.state
<1>7. ASSUME caller'.pc = "record"
      PROVE  CandOK' /\ LiveOK' /\ HistoryOK' /\ AttemptsOK' /\ (z \in Late => s \in Late)
  <2>1. \/ s = "OBSERVED" /\ z \in {"HELD", "TRIAGED"}
        \/ s = "PROPOSED" /\ caller.cand # NoGen /\ z = "EVALUATED"
        \/ s = "REJECTED" /\ z = "HELD"
        \/ s = "EVALUATED" /\ z = "APPROVAL_PENDING"
        \/ s = "TRIAGED" /\ z = "PROPOSED"
        \/ s = "ISOLATED" /\ z = "EVALUATED"
        \/ s = "ROLLBACK_REQUIRED" /\ z = "ROLLED_BACK"
        \/ s = "ROLLED_BACK" /\ z = "APPLIED"
        \/ s = "APPLIED" /\ z = "VERIFIED"
    BY <1>7, FollowIs DEF Goes
  <2>2. z \in {"HELD", "TRIAGED", "EVALUATED", "APPROVAL_PENDING", "PROPOSED", "ROLLED_BACK", "APPLIED",
               "VERIFIED"}
    BY <2>1
  <2>3. CandOK' /\ LiveOK'
    BY <1>1, <1>3, <1>6, <1>7, <2>1, RankIs
       DEF CandOK, LiveOK, At, Records, Choosing, Refusing, Beyond, States
  <2>4. z \in Forward => Below(history', Rank[z])
    BY <1>5, <2>1, RankIs
  <2>5. HistoryOK'
    BY <1>1, <1>2, <1>3, <1>4, <1>6, <1>7, <2>2, <2>4, RankIs
       DEF HistoryOK, At, Records, Choosing, Refusing, Beyond
  <2>6. AttemptsOK'
    BY <1>1, <1>6, <1>7, <2>1
       DEF RecInv, AttemptsOK, AttemptsBounded, SparesOne, At, Records
  <2>7. z \in Late => s \in Late
    BY <2>1 DEF Late
  <2> QED BY <2>3, <2>5, <2>6, <2>7
<1>8. ASSUME caller'.pc = "finish"
      PROVE  CandOK' /\ LiveOK' /\ HistoryOK' /\ AttemptsOK' /\ (z = "VERIFIED" => s = "VERIFIED")
  <2>1. \/ s = "OBSERVED" /\ z = "HELD"
        \/ s = "EVALUATED" /\ z = "RECOVERY_FAILED"
        \/ s \in {"HELD", "CANCELLED", "VERIFIED"} /\ z = s
    BY <1>8, FollowIs DEF Goes
  <2>2. CandOK' /\ LiveOK'
    BY <1>1, <1>3, <1>6, <1>8, <2>1
       DEF CandOK, LiveOK, At, Records, Choosing, Refusing, Terminal
  <2>3. HistoryOK'
    <3>1. \A x \in Beyond : Contains(history', x) => op.cand # NoGen
      BY <1>2, <1>3, <1>4, <2>1 DEF Beyond
    <3> QED BY <1>1, <1>4, <1>8, <3>1 DEF HistoryOK, At, Records, Choosing, Refusing
  <2>4. AttemptsOK'
    BY <1>1, <1>6, <1>8 DEF RecInv, AttemptsOK, AttemptsBounded, SparesOne, At, Records
  <2> QED BY <2>1, <2>2, <2>3, <2>4
<1>9. ASSUME caller'.pc \in {"regress", "isolate", "revoke"}
      PROVE  CandOK' /\ LiveOK' /\ HistoryOK' /\ AttemptsOK'
  <2>1. \/ s = "PROPOSED" /\ caller.cand = NoGen /\ caller'.pc = "regress"
        \/ s = "REJECTED" /\ caller'.pc = "regress" /\ caller.tries < op.repeats /\ op.attempts < MaxAttempts
        \/ s = "REJECTED" /\ caller'.pc = "isolate" /\ op.attempts < MaxAttempts
        \/ s = "APPROVAL_PENDING" /\ caller'.pc = "revoke"
    <3>1. op.attempts \in Nat /\ MaxAttempts \in Nat
      BY RecFacts
    <3>2. ~(op.attempts >= MaxAttempts) => op.attempts < MaxAttempts
      BY <3>1
    <3> QED BY <1>9, <3>2, FollowIs DEF Goes
  <2>2. CandOK' /\ LiveOK'
    BY <1>1, <1>3, <1>6, <1>9, <2>1 DEF CandOK, LiveOK, At, Records, Choosing, Refusing, Beyond
  <2>3. HistoryOK'
    <3>1. \A x \in Beyond : Contains(history', x) => op.cand # NoGen
      BY <1>2, <1>3, <1>4, <2>1 DEF Beyond
    <3>2. caller'.pc \in Choosing => Below(history', 4)
      BY <1>5, <2>1 DEF Choosing
    <3>3. caller'.pc \in Refusing => Below(history', 7)
      BY <1>5, <2>1, RankIs DEF Refusing
    <3> QED BY <1>1, <1>4, <1>9, <3>1, <3>2, <3>3 DEF HistoryOK, At, Records
  <2>4. AttemptsOK'
    <3>1. /\ op.attempts <= MaxAttempts + deaths
          /\ s \notin {"REJECTED", "HELD"} => op.attempts < MaxAttempts + deaths
          /\ s = "PROPOSED" => caller.tries = 0
      BY <1>1, <1>3 DEF RecInv, AttemptsOK, AttemptsBounded, SparesOne, At, Records, Terminal
    <3>2. op.attempts < MaxAttempts => op.attempts < MaxAttempts + deaths
      BY RecFacts
    <3>3. op.repeats \in 1..3
      BY RecFacts
    <3>4. caller'.pc = "regress" => caller'.tries < op.repeats
      BY <1>6, <2>1, <3>1, <3>3
    <3> QED BY <1>1, <1>9, <2>1, <3>1, <3>2, <3>4 DEF AttemptsOK, AttemptsBounded, SparesOne, At, Records
  <2> QED BY <2>2, <2>3, <2>4
<1>10. /\ CandOK' /\ LiveOK' /\ HistoryOK' /\ AttemptsOK'
       /\ caller'.pc = "record" /\ z \in Late => s \in Late
       /\ caller'.pc = "finish" /\ z = "VERIFIED" => s = "VERIFIED"
  BY <1>6, <1>7, <1>8, <1>9
<1>11. StageOK'
  <2>1. s \in Late => RolledBack
    BY <1>1 DEF RecInv, StageOK, Records, At
  <2>2. s = "VERIFIED" => Contains(history, "ROLLED_BACK")
    BY <1>2, RankIs DEF Below
  <2>3. "VERIFIED" \in Late /\ op.status # "VERIFIED"
    BY <1>3 DEF Late
  <2>4. RolledBack => RolledBack'
    BY <1>1 DEF RolledBack, Whole
  <2>5. NotPromoted'
    BY <1>1, <1>6 DEF RecInv, StageOK, NotPromoted
  <2>6. VerifiedIsRefused'
    BY <1>1, <2>3 DEF VerifiedIsRefused
  <2> QED BY <1>1, <1>4, <1>6, <1>10, <2>1, <2>2, <2>3, <2>4, <2>5, <2>6
          DEF RecInv, StageOK, At, Records, Whole
<1>12. Follows(db, db')
  BY <1>1, Reflexive
<1>13. RefsOK'
  BY <1>1, <1>6, <1>12, RefsKept
<1>14. Kinds'
  BY <1>1, <1>4, <1>6 DEF RecInv, Kinds
<1> QED BY <1>10, <1>11, <1>12, <1>13, <1>14 DEF RecInv

LEMMA RecRegress ==
  ASSUME RecInv, Regress
  PROVE  RecInv' /\ Follows(db, db')
<1>1. /\ caller \in CallerRecs(db, clock) /\ op \in OpRecs(db) /\ caller.pc = "regress" /\ Pointed(db)
      /\ UNCHANGED <<op, history, clock, deaths>> /\ caller.cand = NoGen /\ op.cand = NoGen
      /\ caller.reg \in GenOf(db)
  BY RecFacts DEF Regress, At, RecInv, CandOK, Choosing
<1>2. /\ Follows(db, db') /\ db'.revoked = db.revoked /\ \A h \in Of(db) : db'.rows[h] = db.rows[h]
      /\ caller' \in CallerRecs(db', clock) /\ caller'.pc = "attempt" /\ caller'.cand = caller.cand
      /\ caller'.tries = caller.tries /\ caller'.reg \in Of(db')
      /\ db'.rows[caller'.reg].chunks = Chunks("regression")
  <2>1. CASE caller.reg # NoGen
    <3>1. db' = db /\ GoTo("attempt") /\ "attempt" \in Steps
      BY <2>1 DEF Regress, Steps
    <3>2. Goes("attempt", caller.state)
      BY <1>1, <3>1, Gone
    <3>3. caller.reg \in Of(db) /\ db.rows[caller.reg].chunks = Chunks("regression")
      BY <1>1, <2>1 DEF RecInv, RefsOK, GenOf
    <3> QED BY <1>1, <3>1, <3>2, <3>3, Reflexive DEF Goes
  <2>2. CASE caller.reg = NoGen
    <3>1. /\ db' = Stage(db, Chunks("regression"), {})
          /\ caller' = [caller EXCEPT !.pc = "attempt", !.reg = NextGen(db)] /\ "regression" \in Bodies
      BY <2>2 DEF Regress, Bodies
    <3>2. /\ Follows(db, db') /\ db'.revoked = db.revoked /\ NextGen(db) \in Of(db')
          /\ db'.rows[NextGen(db)].chunks = Chunks("regression")
          /\ \A h \in Of(db) : db'.rows[h] = db.rows[h]
      BY <1>1, <3>1, StagesBody
    <3>3. caller \in CallerRecs(db', clock)
      BY <1>1, <3>2, RecCarries
    <3>4. caller' \in CallerRecs(db', clock) /\ caller'.pc = "attempt" /\ caller'.cand = caller.cand
          /\ caller'.tries = caller.tries /\ caller'.reg = NextGen(db)
      BY <3>1, <3>2, <3>3 DEF CallerRecs, Steps, GenOf
    <3> QED BY <3>2, <3>4
  <2> QED BY <2>1, <2>2
<1>3. Kinds'
  BY <1>1, <1>2, RecCarries DEF RecInv, Kinds, Follows
<1>4. RefsOK'
  <2>1. op.reg \in GenOf(db) /\ (op.reg # NoGen => db.rows[op.reg].chunks = Chunks("regression"))
    BY RecFacts DEF RecInv, RefsOK
  <2> QED BY <1>1, <1>2, <2>1 DEF RefsOK, At, GenOf, Chunks
<1>5. CandOK' /\ LiveOK' /\ HistoryOK' /\ AttemptsOK'
  BY <1>1, <1>2
     DEF RecInv, LiveOK, CandOK, AttemptsOK, AttemptsBounded, SparesOne, HistoryOK, At, Records,
         Choosing, Refusing
<1>6. StageOK'
  BY <1>1, <1>2, StageUntouched
<1> QED BY <1>2, <1>3, <1>4, <1>5, <1>6 DEF RecInv

LEMMA RecAttempt ==
  ASSUME RecInv, Attempt
  PROVE  RecInv' /\ Follows(db, db')
<1> DEFINE g == caller.reg
<1>1. /\ caller \in CallerRecs(db, clock) /\ op \in OpRecs(db) /\ caller.pc = "attempt" /\ Pointed(db)
      /\ UNCHANGED <<history, clock, deaths>> /\ caller.cand = NoGen /\ op.cand = NoGen
      /\ g \in Of(db) /\ db' = Mark(db, g, "BUILDING", "REJECTED")
      /\ op' = [op EXCEPT !.reg = g, !.attempts = @ + 1] /\ deaths \in Nat /\ op.attempts \in Nat
      /\ caller' = [caller EXCEPT !.pc = "record", !.state = "REJECTED", !.tries = @ + 1]
  BY RecFacts DEF Attempt, At, RecInv, CandOK, RefsOK, Choosing
<1>2. caller.tries \in 0..3 /\ caller.tries < op.repeats /\ op.repeats \in 1..3
  BY <1>1, RecFacts DEF RecInv, AttemptsOK
<1>3. caller.tries + 1 \in 0..3
  BY <1>2
<1>4. /\ Follows(db, db') /\ db'.revoked = db.revoked
      /\ \A h \in Of(db) : h # g => db'.rows[h] = db.rows[h]
  BY <1>1, MarkIs DEF Statuses
<1>5. caller \in CallerRecs(db', clock) /\ op \in OpRecs(db') /\ Pointed(db') /\ g \in GenOf(db')
  BY <1>1, <1>4, RecCarries DEF Follows, GenOf
<1>6. caller' \in CallerRecs(db', clock') /\ caller'.pc = "record" /\ caller'.state = "REJECTED"
      /\ caller'.cand = caller.cand /\ caller'.reg = caller.reg
  BY <1>1, <1>3, <1>5 DEF CallerRecs, Steps, States
<1>7. op' \in OpRecs(db') /\ op'.cand = op.cand /\ op'.reg = g /\ op'.status = op.status
      /\ op'.attempts = op.attempts + 1
  <2>1. op.attempts + 1 \in Nat
    BY <1>1
  <2> QED BY <1>1, <1>5, <2>1 DEF OpRecs
<1>8. Kinds'
  BY <1>1, <1>5, <1>6, <1>7 DEF RecInv, Kinds
<1>9. RefsOK'
  BY <1>1, <1>4, <1>6, <1>7, RefsKept
<1>10. CandOK' /\ LiveOK' /\ HistoryOK'
  BY <1>1, <1>6, <1>7, RankOrders
     DEF RecInv, LiveOK, CandOK, HistoryOK, At, Records, Choosing, Refusing, Beyond, States
<1>11. AttemptsOK'
  <2>1. op.attempts < MaxAttempts + deaths
    BY <1>1 DEF RecInv, LiveOK, AttemptsOK, SparesOne, At, Records, Terminal
  <2>2. op.attempts + 1 <= MaxAttempts + deaths
    BY <1>1, <2>1, RecFacts
  <2> QED BY <1>1, <1>6, <1>7, <2>2 DEF AttemptsOK, AttemptsBounded, SparesOne, At, Records
<1>12. StageOK'
  <2>1. NoGen \notin {g}
    BY <1>1 DEF Of, NoGen, Pointed, Store
  <2> DEFINE X == {g}
  <2>2. /\ \A h \in Of(db) \ X : db.rows[h].status # "ACTIVE" => db'.rows[h].status = db.rows[h].status
        /\ op.cand \notin X /\ caller.cand \notin X
    BY <1>1, <1>4, <2>1
  <2>3. op.status # "VERIFIED" /\ \A s : Contains(history, s) => Contains(history', s)
    BY <1>1 DEF RecInv, LiveOK
  <2> HIDE DEF X, g
  <2> QED BY <1>1, <1>4, <1>6, <1>7, <2>2, <2>3, StageKept DEF Late
<1> QED BY <1>4, <1>8, <1>9, <1>10, <1>11, <1>12 DEF RecInv

LEMMA RecIsolate ==
  ASSUME RecInv, Isolate
  PROVE  RecInv' /\ Follows(db, db')
<1> DEFINE g == NextGen(db)
<1>1. /\ caller \in CallerRecs(db, clock) /\ op \in OpRecs(db) /\ caller.pc = "isolate" /\ Pointed(db)
      /\ UNCHANGED <<op, history, clock, deaths>> /\ caller.cand = NoGen /\ op.cand = NoGen
      /\ db' = Stage(db, Chunks("changed"), {}) /\ "changed" \in Bodies
      /\ caller' = [caller EXCEPT !.pc = "candidate", !.cand = g]
      /\ op.status \in {"OPEN", "ISOLATED"}
  BY RecFacts DEF Isolate, At, RecInv, CandOK, LiveOK, Choosing, Bodies
<1>2. /\ Follows(db, db') /\ db'.revoked = db.revoked /\ g \in Of(db') /\ g # NoGen
      /\ db'.rows[g].chunks = Chunks("changed") /\ db'.rows[g].status = "BUILDING"
      /\ \A h \in Of(db) : db'.rows[h] = db.rows[h]
  BY <1>1, StagesBody
<1> HIDE DEF g
<1>3. caller \in CallerRecs(db', clock) /\ op \in OpRecs(db') /\ Pointed(db') /\ g \in GenOf(db')
  BY <1>1, <1>2, RecCarries DEF Follows, GenOf
<1>4. caller' \in CallerRecs(db', clock') /\ caller'.pc = "candidate" /\ caller'.cand = g
      /\ caller'.reg = caller.reg
  BY <1>1, <1>3 DEF CallerRecs, Steps
<1>5. Kinds'
  BY <1>1, <1>3, <1>4 DEF RecInv, Kinds
<1>6. RefsOK'
  <2>1. \A h \in GenOf(db) \ {NoGen} : db'.rows[h] = db.rows[h]
    BY <1>2 DEF GenOf
  <2>2. {caller.reg, op.reg} \subseteq GenOf(db) /\ RefsOK
    BY RecFacts DEF RecInv
  <2> QED BY <1>1, <1>2, <1>4, <2>1, <2>2 DEF RefsOK, At, Chunks
<1>7. CandOK' /\ LiveOK' /\ HistoryOK' /\ AttemptsOK'
  BY <1>1, <1>2, <1>4
     DEF RecInv, LiveOK, CandOK, AttemptsOK, AttemptsBounded, SparesOne, HistoryOK, At, Records,
         Choosing, Refusing
<1>8. StageOK'
  BY <1>1, <1>2, <1>4 DEF StageOK, NotPromoted, VerifiedIsRefused, At, Records
<1> QED BY <1>2, <1>5, <1>6, <1>7, <1>8 DEF RecInv

LEMMA RecSetCandidate ==
  ASSUME RecInv, SetCandidate
  PROVE  RecInv' /\ Follows(db, db')
<1>1. /\ caller \in CallerRecs(db, clock) /\ op \in OpRecs(db) /\ caller.pc = "candidate" /\ Pointed(db)
      /\ UNCHANGED <<db, history, clock, deaths>> /\ caller.cand # NoGen /\ op.cand = NoGen
      /\ op' = [op EXCEPT !.cand = caller.cand, !.status = "ISOLATED"] /\ ToRecord("ISOLATED")
      /\ op.status \in {"OPEN", "ISOLATED"} /\ "ISOLATED" \in States
  BY RecFacts, RankIs, RankOrders DEF SetCandidate, At, RecInv, CandOK, LiveOK
<1>2. Goes("record", "ISOLATED")
  BY <1>1, Gone
<1>3. op' \in OpRecs(db) /\ op'.cand = caller.cand /\ op'.reg = op.reg /\ op'.status = "ISOLATED"
      /\ op'.attempts = op.attempts
  BY <1>1 DEF OpRecs, CallerRecs
<1>4. /\ Follows(db, db') /\ db'.revoked = db.revoked
      /\ \A h \in Of(db) : db.rows[h].status # "ACTIVE" => db'.rows[h].status = db.rows[h].status
  BY <1>1, Reflexive
<1>5. Kinds'
  BY <1>1, <1>2, <1>3 DEF RecInv, Kinds, Goes
<1>6. RefsOK'
  BY <1>2, <1>3, <1>4, RefsKept DEF Goes
<1>7. CandOK' /\ LiveOK'
  BY <1>1, <1>2, <1>3 DEF LiveOK, CandOK, Goes, At, Records, Choosing, Refusing, States
<1>8. StageOK'
  BY <1>1, <1>2, <1>3, <1>4, StageUntouched DEF Goes, Late
<1>9. HistoryOK'
  BY <1>1, <1>2, <1>3, RankIs DEF RecInv, HistoryOK, Goes, At, Records, Choosing, Refusing
<1>10. AttemptsOK'
  BY <1>1, <1>2, <1>3 DEF RecInv, Goes, AttemptsOK, AttemptsBounded, SparesOne, At, Records, Terminal
<1> QED BY <1>4, <1>5, <1>6, <1>7, <1>8, <1>9, <1>10 DEF RecInv

LEMMA RecRevokeCandidate ==
  ASSUME RecInv, RevokeCandidate
  PROVE  RecInv' /\ Follows(db, db')
<1>1. /\ caller \in CallerRecs(db, clock) /\ op \in OpRecs(db) /\ caller.pc = "revoke" /\ Pointed(db)
      /\ UNCHANGED <<op, history, clock, deaths>> /\ caller.cand # NoGen /\ op.cand = caller.cand
      /\ op.status \in {"OPEN", "ISOLATED"} /\ clock \in Nat
      /\ op.attempts <= MaxAttempts + deaths /\ op.attempts < MaxAttempts + deaths
  BY RecFacts
     DEF RevokeCandidate, At, RecInv, CandOK, LiveOK, Refusing, AttemptsOK, AttemptsBounded, SparesOne,
         Records, Terminal
<1>2. CASE Whole("changed") \in db.revoked
  <2>1. UNCHANGED db /\ caller' = NoCaller
    BY <1>2 DEF RevokeCandidate, Return
  <2>2. caller' \in CallerRecs(db, clock) /\ caller'.pc = "idle" /\ caller'.cand = NoGen
        /\ caller'.reg = NoGen /\ caller'.tries = 0
    BY <1>1, <2>1, CallerIs
  <2>3. CandOK' /\ LiveOK' /\ HistoryOK' /\ AttemptsOK'
    BY <1>1, <2>2
       DEF RecInv, LiveOK, CandOK, AttemptsOK, AttemptsBounded, SparesOne, HistoryOK, At, Records,
           Choosing, Refusing
  <2> QED BY <1>1, <2>1, <2>2, <2>3, RecQuiet
<1>3. CASE Whole("changed") \notin db.revoked
  <2>1. db' = Suppress(db, Whole("changed")) /\ GoTo("publish") /\ "publish" \in Steps
    BY <1>3 DEF RevokeCandidate, Steps
  <2>2. Goes("publish", caller.state)
    BY <1>1, <2>1, Gone
  <2>3. Follows(db, db') /\ db'.rows = db.rows /\ db'.revoked = db.revoked \cup {Whole("changed")}
    BY <1>1, <2>1, ChunksApart, SuppressIs
  <2>4. Kinds'
    BY <1>1, <2>2, <2>3, RecCarries DEF RecInv, Kinds, Follows, Goes
  <2>5. RefsOK'
    BY <1>1, <2>2, <2>3, RefsKept DEF Goes
  <2>6. CandOK' /\ LiveOK' /\ HistoryOK' /\ AttemptsOK'
    BY <1>1, <2>2
       DEF RecInv, Goes, LiveOK, CandOK, AttemptsOK, AttemptsBounded, SparesOne, HistoryOK, At, Records,
           Choosing, Refusing
  <2>7. StageOK'
    BY <1>1, <1>3, <2>2, <2>3
       DEF RecInv, Goes, StageOK, NotPromoted, VerifiedIsRefused, At, Records, Whole
  <2> QED BY <2>3, <2>4, <2>5, <2>6, <2>7 DEF RecInv
<1> QED BY <1>2, <1>3

LEMMA RecPublishCandidate ==
  ASSUME RecInv, PublishCandidate
  PROVE  RecInv' /\ Follows(db, db')
<1> DEFINE g == caller.cand
<1>1. /\ caller \in CallerRecs(db, clock) /\ op \in OpRecs(db) /\ caller.pc = "publish" /\ Pointed(db)
      /\ UNCHANGED <<op, history, clock, deaths>> /\ g # NoGen /\ op.cand = g /\ g \in Of(db)
      /\ op.status \in {"OPEN", "ISOLATED"} /\ db' = Published(db, g)
      /\ db.rows[g].status = "BUILDING" /\ db.rows[g].chunks = Chunks("changed")
      /\ Whole("changed") \in db.revoked
  BY RecFacts
     DEF PublishCandidate, At, RecInv, CandOK, LiveOK, RefsOK, StageOK, Refusing, GenOf
<1>2. /\ Follows(db, db') /\ db'.revoked = db.revoked
      /\ Publication(db, g) = "REVOKED" => db'.rows[g].status = "FAILED"
  BY <1>1, PublishedIs
<1>3. "changed" \notin Long => Publication(db, g) = "REVOKED"
  BY <1>1, ChunksApart DEF Publication, Revoked, Bodies
<1>4. \/ Goes("rollback", caller.state) /\ Publication(db, g) = "REVOKED"
      \/ Goes("finish", "RECOVERY_FAILED")
  <2>1. "rollback" \in Steps /\ "RECOVERY_FAILED" \in Terminal
    BY DEF Steps, Terminal
  <2>2. \/ GoTo("rollback") /\ Publication(db, g) = "REVOKED"
        \/ ToFinish("RECOVERY_FAILED")
    BY DEF PublishCandidate
  <2> QED BY <1>1, <2>1, <2>2, Gone
<1>5. /\ caller' \in CallerRecs(db, clock) /\ caller'.cand = g /\ caller'.reg = caller.reg
      /\ \/ caller'.pc = "rollback" /\ Publication(db, g) = "REVOKED"
         \/ caller'.pc = "finish" /\ caller'.state = "RECOVERY_FAILED"
  BY <1>4 DEF Goes
<1> HIDE DEF g
<1>6. Kinds'
  BY <1>1, <1>2, <1>5, RecCarries DEF RecInv, Kinds, Follows
<1>7. RefsOK'
  BY <1>1, <1>2, <1>5, RefsKept DEF g
<1>8. CandOK' /\ LiveOK' /\ HistoryOK' /\ AttemptsOK'
  BY <1>1, <1>5
     DEF g, RecInv, LiveOK, CandOK, AttemptsOK, AttemptsBounded, SparesOne, HistoryOK, At, Records,
         Choosing, Refusing, Terminal
<1>9. StageOK'
  <2>1. NotPromoted'
    BY <1>1, <1>2, <1>3, <1>5 DEF NotPromoted
  <2>2. VerifiedIsRefused'
    BY <1>1 DEF VerifiedIsRefused
  <2> QED BY <1>1, <1>2, <1>5, <2>1, <2>2 DEF StageOK, At, Records, Whole
<1> QED BY <1>2, <1>6, <1>7, <1>8, <1>9 DEF RecInv

LEMMA RecRollback ==
  ASSUME RecInv, Rollback
  PROVE  RecInv' /\ Follows(db, db')
<1> DEFINE g == caller.cand
<1>1. /\ caller \in CallerRecs(db, clock) /\ op \in OpRecs(db) /\ caller.pc = "rollback" /\ Pointed(db)
      /\ UNCHANGED <<op, history, clock, deaths>> /\ g # NoGen /\ op.cand = g /\ g \in Of(db)
      /\ op.status \in {"OPEN", "ISOLATED"} /\ db' = Mark(db, g, "FAILED", "ROLLED_BACK")
      /\ db.rows[g].status = "FAILED" /\ Whole("changed") \in db.revoked
      /\ ToRecord("ROLLBACK_REQUIRED") /\ "ROLLBACK_REQUIRED" \in States
  BY RecFacts, RankIs, RankOrders
     DEF Rollback, At, RecInv, CandOK, LiveOK, StageOK, Refusing, GenOf
<1>2. Goes("record", "ROLLBACK_REQUIRED")
  BY <1>1, Gone
<1>3. Follows(db, db') /\ db'.revoked = db.revoked /\ db'.rows[g].status = "ROLLED_BACK"
  BY <1>1, MarkIs DEF Statuses
<1>4. Kinds'
  BY <1>1, <1>2, <1>3, RecCarries DEF RecInv, Kinds, Follows, Goes
<1>5. RefsOK'
  BY <1>1, <1>2, <1>3, RefsKept DEF Goes
<1>6. CandOK' /\ LiveOK'
  BY <1>1, <1>2 DEF LiveOK, CandOK, Goes, At, Records, Choosing, Refusing
<1>7. HistoryOK'
  BY <1>1, <1>2, RankIs DEF RecInv, HistoryOK, Goes, At, Records, Choosing, Refusing
<1>8. AttemptsOK'
  BY <1>1, <1>2 DEF RecInv, Goes, AttemptsOK, AttemptsBounded, SparesOne, At, Records
<1>9. StageOK'
  BY <1>1, <1>2, <1>3
     DEF Goes, StageOK, NotPromoted, VerifiedIsRefused, RolledBack, At, Records, Whole
<1> QED BY <1>3, <1>4, <1>5, <1>6, <1>7, <1>8, <1>9 DEF RecInv

LEMMA RecFinish ==
  ASSUME RecInv, Finish
  PROVE  RecInv' /\ Follows(db, db')
<1>1. /\ caller \in CallerRecs(db, clock) /\ op \in OpRecs(db) /\ caller.pc = "finish" /\ Pointed(db)
      /\ UNCHANGED <<db, history, clock, deaths>> /\ caller.state \in Terminal /\ clock \in Nat
      /\ op' = [op EXCEPT !.status = caller.state, !.lease = 0] /\ caller' = NoCaller /\ MaxClock \in Nat
  BY RecFacts, RecoveryAssumption DEF Finish, Return, At, RecInv, LiveOK
<1>2. 0 \in 0..(MaxClock + 1)
  BY <1>1
<1>3. op' \in OpRecs(db) /\ op'.cand = op.cand /\ op'.reg = op.reg /\ op'.status = caller.state
      /\ op'.attempts = op.attempts
  BY <1>1, <1>2 DEF OpRecs
<1>4. caller' \in CallerRecs(db, clock) /\ caller'.pc = "idle" /\ caller'.cand = NoGen
      /\ caller'.reg = NoGen /\ caller'.tries = 0
  BY <1>1, CallerIs
<1>5. Follows(db, db')
  BY <1>1, Reflexive
<1>6. Kinds'
  BY <1>1, <1>3, <1>4 DEF RecInv, Kinds
<1>7. RefsOK'
  BY <1>3, <1>4, <1>5, RefsKept
<1>8. CandOK' /\ LiveOK' /\ HistoryOK' /\ AttemptsOK'
  BY <1>1, <1>3, <1>4
     DEF RecInv, LiveOK, CandOK, AttemptsOK, AttemptsBounded, SparesOne, HistoryOK, At, Records,
         Choosing, Refusing, Terminal
<1>9. StageOK'
  <2>1. NotPromoted'
    BY <1>1, <1>3, <1>4 DEF RecInv, StageOK, NotPromoted
  <2>2. VerifiedIsRefused'
    BY <1>1, <1>3 DEF RecInv, StageOK, VerifiedIsRefused, RolledBack, At, Whole
  <2> QED BY <1>1, <1>3, <1>4, <2>1, <2>2 DEF RecInv, StageOK, At, Records, Whole
<1> QED BY <1>5, <1>6, <1>7, <1>8, <1>9 DEF RecInv

\* The operation keeps its invariant, and every step of it is one of the
\* transactions of the store.
LEMMA RecStep ==
  ASSUME RecInv, [RecoveryNext]_recoveryVars
  PROVE  RecInv' /\ Follows(db, db')
<1>1. CASE RecoveryNext
  BY <1>1, RecCallStep, RecOutsideStep, RecEnter, RecPin, RecStageFirst, RecPublishFirst, RecBind,
     RecRecord, RecRegress, RecAttempt, RecIsolate, RecSetCandidate, RecRevokeCandidate,
     RecPublishCandidate, RecRollback, RecFinish DEF RecoveryNext, Step
<1>2. CASE UNCHANGED recoveryVars
  <2>1. UNCHANGED <<db, op, history, caller, clock, deaths>> /\ Follows(db, db')
    BY <1>2, RecFacts, Reflexive DEF recoveryVars
  <2> QED BY <2>1
          DEF RecInv, Kinds, RefsOK, CandOK, LiveOK, StageOK, NotPromoted, VerifiedIsRefused, RolledBack,
              HistoryOK, AttemptsOK, AttemptsBounded, SparesOne, At, Records
<1> QED BY <1>1, <1>2

\* The invariant of a recovery operation and the call that works on it: the
\* candidate is BUILDING until the one call that revokes its digest, what is
\* recorded has all that precedes it, and an attempt is begun only while one
\* is left (run_stale_index_recovery, _continue_stale_index_recovery).
THEOREM RecoveryInvariant == RecoverySpec => []RecInv
<1>1. RecoveryInit => RecInv
  BY RecInit
<1>2. RecInv /\ [RecoveryNext]_recoveryVars => RecInv'
  BY RecStep
<1> QED BY <1>1, <1>2, PTL DEF RecoverySpec

\* What the operation says of itself is what has happened, through any deaths
\* of its calls and any publications beside it: a candidate of one chunk is
\* never promoted, VERIFIED is written only of one that was refused and rolled
\* back, states are recorded once and in order, and the attempts are bounded.
THEOREM RecoveryIsSound == RecoverySpec => []RecoverySound
<1>1. RecInv => RecoverySound
  <2> SUFFICES ASSUME RecInv PROVE RecoverySound
    OBVIOUS
  <2>1. Of(db) = Gens /\ GenOf(db) = Gens \cup {NoGen} /\ Pointed(db)
    BY DEF RecInv, Kinds, Of, Gens, GenOf
  <2>2. DbOK
    BY <2>1 DEF DbOK, Pointed, Store
  <2>3. RecoveryTypeOK
    BY <2>1, <2>2 DEF RecInv, Kinds, RecoveryTypeOK, OpRecs, CallerRecs
  <2>4. RecordedInOrder
    BY DEF RecInv, HistoryOK, InOrder, RecordedInOrder
  <2> QED BY <2>3, <2>4 DEF RecInv, StageOK, AttemptsOK, RecoverySound
<1> QED BY <1>1, RecoveryInvariant, PTL

\* Nor does a recovery, or a publication beside it, make a revoked digest
\* active.
THEOREM RecoveryKeepsRevokedOut == RecoverySpec => RevokedStaysOut
<1>1. RecInv /\ [RecoveryNext]_recoveryVars => [RevokedNotPublished]_db
  BY RecStep, FollowsPublishes
<1> QED BY <1>1, RecoveryInvariant, PTL DEF RecoverySpec, RevokedStaysOut
=============================================================================
