---------------------------- MODULE RecordArchive ----------------------------
(***************************************************************************)
(* What a durable, append-only archive promises its writers: a record that *)
(* was accepted waits until it is archived, and what is archived stays.    *)
(***************************************************************************)
CONSTANT Ids

VARIABLES
  waiting,   \* the records accepted and not archived
  archived   \* the records in the archive

Init == waiting = {} /\ archived = {}

Accept(i) ==
  /\ i \notin archived
  /\ waiting' = waiting \cup {i}
  /\ UNCHANGED archived

ArchiveSome(S) ==
  /\ S \subseteq waiting
  /\ archived' = archived \cup S
  /\ waiting' = waiting \ S

Spec ==
  /\ Init
  /\ [][(\E i \in Ids : Accept(i)) \/ (\E S \in SUBSET Ids : ArchiveSome(S))]_<<waiting, archived>>
=============================================================================
