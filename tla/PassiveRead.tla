----------------------------- MODULE PassiveRead -----------------------------
(***************************************************************************)
(* The passive reads of the Defend plane (DefendStore.read_connection and  *)
(* observe): the main file of an SQLite database in WAL mode is read as an *)
(* immutable file, without a lock, between two looks at the sidecar files  *)
(* and at the file's fingerprint.  Writers are SQLite's: a connection      *)
(* creates the sidecars, commits go to the WAL, pages are checkpointed     *)
(* into the main file, and the last connection removes the sidecars.       *)
(*                                                                         *)
(* A commit is a number; a page holds the commit it was last written for.  *)
(* Every write to the main file changes its fingerprint.                   *)
(***************************************************************************)
EXTENDS Naturals

CONSTANTS Pages,      \* pages of the database, each written by every commit
          Writers,    \* processes that write
          Readers,    \* reads
          MaxCommits  \* bound

ASSUME ReadAssumption == MaxCommits \in Nat

VARIABLES main,      \* the main file
          stamp,     \* its fingerprint
          sidecar,   \* a -wal or -shm file exists
          commit,    \* the last commit
          open,      \* writers with a connection
          read       \* the reads
passiveVars == <<main, stamp, sidecar, commit, open, read>>

Commits == 0..MaxCommits
Steps == {"sidecar", "stamp", "pages", "sidecar2", "stamp2", "served", "refused"}

ReadTypeOK ==
  /\ main \in [Pages -> Commits]
  /\ stamp \in Nat
  /\ sidecar \in BOOLEAN
  /\ commit \in Commits
  /\ open \subseteq Writers
  /\ read \in [Readers -> [pc : Steps, stamp : Nat, got : [Pages -> Commits],
                           left : SUBSET Pages, last : Commits]]

Start == [pc |-> "sidecar", stamp |-> 0, got |-> [p \in Pages |-> 0],
          left |-> Pages, last |-> 0]

PassiveInit ==
  /\ main = [p \in Pages |-> 0]
  /\ stamp = 0
  /\ sidecar = FALSE
  /\ commit = 0
  /\ open = {}
  /\ read = [r \in Readers |-> Start]

-----------------------------------------------------------------------------
(* SQLite in WAL mode.                                                     *)

\* Opening recovers the WAL that a crash left.
Connect(w) ==
  /\ w \notin open
  /\ open' = open \cup {w}
  /\ sidecar' = TRUE
  /\ UNCHANGED <<main, stamp, commit, read>>

Commit(w) ==
  /\ w \in open /\ commit < MaxCommits
  /\ commit' = commit + 1
  /\ UNCHANGED <<main, stamp, sidecar, open, read>>

Checkpoint(w, p) ==
  /\ w \in open /\ main[p] < commit
  /\ main' = [main EXCEPT ![p] = commit]
  /\ stamp' = stamp + 1
  /\ UNCHANGED <<sidecar, commit, open, read>>

Synced == \A p \in Pages : main[p] = commit

\* The last connection checkpoints before it removes the sidecars.
Close(w) ==
  /\ w \in open
  /\ open = {w} => Synced
  /\ open' = open \ {w}
  /\ sidecar' = (open # {w})
  /\ UNCHANGED <<main, stamp, commit, read>>

Crash(w) ==
  /\ w \in open
  /\ open' = open \ {w}
  /\ UNCHANGED <<main, stamp, sidecar, commit, read>>

-----------------------------------------------------------------------------
(* read_connection.                                                        *)

ReadGoes(r, pc) == read' = [read EXCEPT ![r].pc = pc]

LooksBefore(r) ==
  /\ read[r].pc = "sidecar"
  /\ ReadGoes(r, IF sidecar THEN "refused" ELSE "stamp")
  /\ UNCHANGED <<main, stamp, sidecar, commit, open>>

StampsBefore(r) ==
  /\ read[r].pc = "stamp"
  /\ read' = [read EXCEPT ![r].pc = "pages", ![r].stamp = stamp]
  /\ UNCHANGED <<main, stamp, sidecar, commit, open>>

ReadsPage(r, p) ==
  /\ read[r].pc = "pages" /\ p \in read[r].left
  /\ read' = [read EXCEPT ![r].got[p] = main[p], ![r].left = @ \ {p}]
  /\ UNCHANGED <<main, stamp, sidecar, commit, open>>

ReadsDone(r) ==
  /\ read[r].pc = "pages" /\ read[r].left = {}
  /\ ReadGoes(r, "sidecar2")
  /\ UNCHANGED <<main, stamp, sidecar, commit, open>>

\* Mutant: the sidecars are looked at only before the read.
LooksNotAfter(r) ==
  /\ read[r].pc = "sidecar2"
  /\ read' = [read EXCEPT ![r].pc = "stamp2", ![r].last = commit]
  /\ UNCHANGED <<main, stamp, sidecar, commit, open>>

LooksAfter(r) ==
  /\ read[r].pc = "sidecar2"
  /\ read' = [read EXCEPT ![r].pc = IF sidecar THEN "refused" ELSE "stamp2",
                          ![r].last = commit]
  /\ UNCHANGED <<main, stamp, sidecar, commit, open>>

\* Mutant: the fingerprint is not compared.
ComparesNot(r) ==
  /\ read[r].pc = "stamp2"
  /\ ReadGoes(r, "served")
  /\ UNCHANGED <<main, stamp, sidecar, commit, open>>

Compares(r) ==
  /\ read[r].pc = "stamp2"
  /\ ReadGoes(r, IF stamp = read[r].stamp THEN "served" ELSE "refused")
  /\ UNCHANGED <<main, stamp, sidecar, commit, open>>

Retries(r) ==
  /\ read[r].pc \in {"served", "refused"}
  /\ read' = [read EXCEPT ![r] = Start]
  /\ UNCHANGED <<main, stamp, sidecar, commit, open>>

-----------------------------------------------------------------------------
PassiveNext ==
  \/ \E w \in Writers : Connect(w) \/ Commit(w) \/ Close(w) \/ Crash(w)
                        \/ \E p \in Pages : Checkpoint(w, p)
  \/ \E r \in Readers : LooksBefore(r) \/ StampsBefore(r) \/ ReadsDone(r) \/ LooksAfter(r)
                        \/ Compares(r) \/ Retries(r)
                        \/ \E p \in Pages : ReadsPage(r, p)

PassiveSpec == PassiveInit /\ [][PassiveNext]_passiveVars

-----------------------------------------------------------------------------
(* What a served read holds; read[r].last is kept for the second property. *)

\* A read that is served holds one commit, whole: no page of another, over
\* commits, checkpoints page by page, and crashes in between.
ServesOneCommit ==
  \A r \in Readers : read[r].pc = "served" => \A p, q \in Pages : read[r].got[p] = read[r].got[q]

\* It is the commit that was the last one when the read looked the second time
\* for sidecars: a commit that is only in the WAL is never overlooked.
ServesLastCommit ==
  \A r \in Readers : read[r].pc = "served" => \A p \in Pages : read[r].got[p] = read[r].last

\* What a served read holds is the last commit, whole.
ReadSound == ReadTypeOK /\ ServesOneCommit /\ ServesLastCommit
=============================================================================
