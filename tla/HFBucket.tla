------------------------------- MODULE HFBucket -------------------------------
(***************************************************************************)
(* The append-only bucket on a hub repository (szl_hf_bucket.py): records  *)
(* are put into a queue of files on disk and flushed in batches, each one  *)
(* commit guarded by the parent it was computed from.                      *)
(*                                                                         *)
(* Processes on one host share a queue directory.  A process can crash; a  *)
(* request to the hub can fail, and the answer to a commit can be lost.    *)
(* The lock of a bucket is held through append_many and flush_queue, so a  *)
(* process is one thread of control.  When a flush begins (debounce,       *)
(* backoff, wake-up, force) is left open.                                  *)
(***************************************************************************)
EXTENDS Naturals, Sequences, FiniteSets, SequencesExt

CONSTANTS
  Procs,       \* processes with a bucket
  Queues,      \* queue directories
  QueueOf,     \* the directory of each process
  Ids,         \* content-addressed record ids
  LastDay,     \* bound on the days, one shard each
  MaxRetries,  \* attempts of a flush
  MaxAppends,  \* bound on the appended records
  MaxReadAlls, \* bound on the reads
  MaxFailures  \* bound on crashes and failing requests

ASSUME BucketAssumption ==
  /\ QueueOf \in [Procs -> Queues] /\ Procs \cap {"idle", "done"} = {}
  /\ LastDay \in Nat \ {0} /\ MaxRetries \in Nat \ {0}
  /\ MaxAppends \in Nat /\ MaxReadAlls \in Nat /\ MaxFailures \in Nat

VARIABLES
  repo,      \* the repository: revision, shards, head.json
  queue,     \* the records in each directory
  accepted,  \* the ids append has answered for, by directory
  proc,      \* each bucket object and the flush it is in
  reader,    \* a read_all in progress
  today, appends, readAlls, failures

bucketVars == <<repo, queue, accepted, proc, reader, today, appends, readAlls, failures>>

Days == 1..LastDay
Record == [id : Ids, day : Days]
HeadFile == [count : Nat, last : SUBSET Ids]
Repo == [rev : Nat, shards : [Days -> Seq(Ids)], head : HeadFile]
Flush == [pc : {"idle", "load", "snapshot", "commit", "drop"},
          names : SUBSET Ids, batch : SUBSET Record, base : Repo, tries : Nat,
          known : SUBSET Ids, state : {"idle", "queued", "unreachable"}]

IdsOf(S) == {r.id : r \in S}
Shard(r, d) == Range(r.shards[d])
InRepo(r) == UNION {Shard(r, d) : d \in Days}
Stored == InRepo(repo)

EmptyRepo == [rev |-> 0, shards |-> [d \in Days |-> <<>>], head |-> [count |-> 0, last |-> {}]]
Bucket(S) == [pc |-> "idle", names |-> {}, batch |-> {}, base |-> EmptyRepo, tries |-> 0,
              known |-> {}, state |-> IF S = {} THEN "idle" ELSE "queued"]
NoRead == [pc |-> "idle", before |-> {}, got |-> {}, whole |-> FALSE]

BucketInit ==
  /\ repo = EmptyRepo
  /\ queue = [q \in Queues |-> {}]
  /\ accepted = [q \in Queues |-> {}]
  /\ proc = [p \in Procs |-> Bucket({})]
  /\ reader = NoRead
  /\ today = 1 /\ appends = 0 /\ readAlls = 0 /\ failures = 0

HubFails == failures < MaxFailures /\ failures' = failures + 1
FlushAt(p, l) == proc[p].pc = l
Pending(p) == queue[QueueOf[p]]
-----------------------------------------------------------------------------
(* append_many *)

Fresh(p, i) == i \notin proc[p].known \cup IdsOf(Pending(p))

\* A record is queued unless its id is queued or known to be committed.  The
\* answer says that it is taken care of in either case.
AppendRecord(p, i) ==
  /\ FlushAt(p, "idle") /\ appends < MaxAppends
  /\ IF Fresh(p, i)
     THEN /\ queue' = [queue EXCEPT ![QueueOf[p]] = @ \cup {[id |-> i, day |-> today]}]
          /\ proc' = [proc EXCEPT ![p].state = IF @ = "unreachable" THEN @ ELSE "queued"]
     ELSE UNCHANGED <<queue, proc>>
  /\ accepted' = [accepted EXCEPT ![QueueOf[p]] = @ \cup {i}]
  /\ appends' = appends + 1
  /\ UNCHANGED <<repo, reader, today, readAlls, failures>>
-----------------------------------------------------------------------------
(* flush_queue *)

Finish(p, b) == [proc EXCEPT ![p] = [b EXCEPT !.pc = "idle", !.names = {}, !.batch = {},
                                              !.base = EmptyRepo, !.tries = 0]]
Succeeded(b, S) == [b EXCEPT !.state = IF S = {} THEN "idle" ELSE "queued"]

\* Mutant: a failed bucket does not try again.
ListPendingQueued(p) ==
  /\ FlushAt(p, "idle") /\ Pending(p) # {} /\ proc[p].state = "queued"
  /\ proc' = [proc EXCEPT ![p].pc = "load", ![p].names = IdsOf(Pending(p))]
  /\ UNCHANGED <<repo, queue, accepted, reader, today, appends, readAlls, failures>>

ListPending(p) ==
  /\ FlushAt(p, "idle") /\ Pending(p) # {}
  /\ proc' = [proc EXCEPT ![p].pc = "load", ![p].names = IdsOf(Pending(p))]
  /\ UNCHANGED <<repo, queue, accepted, reader, today, appends, readAlls, failures>>

NothingPending(p) ==
  /\ FlushAt(p, "idle") /\ Pending(p) = {} /\ proc[p].state = "queued"
  /\ proc' = [proc EXCEPT ![p].state = "idle"]
  /\ UNCHANGED <<repo, queue, accepted, reader, today, appends, readAlls, failures>>

\* Mutant: the files go when they are loaded.
LoadPendingRemoves(p) ==
  LET b == {r \in Pending(p) : r.id \in proc[p].names} IN
  /\ FlushAt(p, "load")
  /\ proc' = IF b = {} THEN Finish(p, Succeeded(proc[p], Pending(p)))
             ELSE [proc EXCEPT ![p].pc = "snapshot", ![p].batch = b]
  /\ queue' = [queue EXCEPT ![QueueOf[p]] = @ \ b]
  /\ UNCHANGED <<repo, accepted, reader, today, appends, readAlls, failures>>

\* Files that another process has dropped since they were listed are skipped.
LoadPending(p) ==
  LET b == {r \in Pending(p) : r.id \in proc[p].names} IN
  /\ FlushAt(p, "load")
  /\ proc' = IF b = {} THEN Finish(p, Succeeded(proc[p], Pending(p)))
             ELSE [proc EXCEPT ![p].pc = "snapshot", ![p].batch = b]
  /\ UNCHANGED <<repo, queue, accepted, reader, today, appends, readAlls, failures>>

\* The snapshot, and all shards read at that revision.
Snapshot(p) ==
  /\ FlushAt(p, "snapshot")
  /\ proc' = [proc EXCEPT ![p].pc = "commit", ![p].base = repo]
  /\ UNCHANGED <<repo, queue, accepted, reader, today, appends, readAlls, failures>>

\* Mutant: no look at what the shard holds.
AdditionsAll(b, d) == {i \in Ids : [id |-> i, day |-> d] \in b.batch}

\* Mutant: only the process's own memory of commits is looked up.
AdditionsUnknown(b, d) == {i \in Ids : [id |-> i, day |-> d] \in b.batch /\ i \notin b.known}

Additions(b, d) == {i \in Ids : [id |-> i, day |-> d] \in b.batch /\ i \notin Shard(b.base, d)}
Changed(b) == {d \in Days : Additions(b, d) # {}}
Extended(b, d) == b.base.shards[d] \o SetToSeq(Additions(b, d))

\* head.json describes all shards: their records, and the last one, if any.
HeadOf(shards) ==
  LET full == {d \in Days : shards[d] # <<>>} IN
  [count |-> Cardinality(UNION {{d} \X DOMAIN shards[d] : d \in full}),
   last |-> {shards[d][Len(shards[d])] : d \in {e \in full : \A f \in full : f <= e}}]

\* Mutant: head.json describes the shards written only.
WrittenPartly(b) ==
  [rev |-> repo.rev + 1,
   shards |-> [d \in Days |-> IF d \in Changed(b) THEN Extended(b, d) ELSE repo.shards[d]],
   head |-> HeadOf([d \in Days |-> IF d \in Changed(b) THEN Extended(b, d) ELSE <<>>])]

\* The commit writes the shards with additions and head.json.
Written(b) ==
  [rev |-> repo.rev + 1,
   shards |-> [d \in Days |-> IF d \in Changed(b) THEN Extended(b, d) ELSE repo.shards[d]],
   head |-> HeadOf([d \in Days |-> Extended(b, d)])]

\* Mutant: after the last attempt the batch counts as done.
RetryGivesUp(p) ==
  proc' = IF proc[p].tries + 1 < MaxRetries
          THEN [proc EXCEPT ![p].pc = "snapshot", ![p].base = EmptyRepo, ![p].tries = @ + 1]
          ELSE [proc EXCEPT ![p].pc = "drop"]

\* Another attempt from the snapshot on, or, after the last one, a failed flush.
Retry(p) ==
  proc' = IF proc[p].tries + 1 < MaxRetries
          THEN [proc EXCEPT ![p].pc = "snapshot", ![p].base = EmptyRepo, ![p].tries = @ + 1]
          ELSE Finish(p, [proc[p] EXCEPT !.state = "unreachable"])

\* Mutant: the commit has no parent guard.
ParentIsHeadAny(b) == TRUE

\* The parent is still the head of the branch.
ParentIsHead(b) == repo.rev = b.base.rev

CommitBatch(p) ==
  /\ FlushAt(p, "commit")
  /\ Changed(proc[p]) # {} /\ ParentIsHead(proc[p])
  /\ repo' = Written(proc[p])
  /\ proc' = [proc EXCEPT ![p].pc = "drop"]
  /\ UNCHANGED <<queue, accepted, reader, today, appends, readAlls, failures>>

\* Mutant: one stored record answers for the batch.
AlreadyStoredPartly(p) ==
  /\ FlushAt(p, "commit") /\ \E r \in proc[p].batch : r.id \in Shard(proc[p].base, r.day)
  /\ proc' = [proc EXCEPT ![p].pc = "drop"]
  /\ UNCHANGED <<repo, queue, accepted, reader, today, appends, readAlls, failures>>

\* Everything is stored already, perhaps by a commit whose answer was lost.
AlreadyStored(p) ==
  /\ FlushAt(p, "commit") /\ Changed(proc[p]) = {}
  /\ proc' = [proc EXCEPT ![p].pc = "drop"]
  /\ UNCHANGED <<repo, queue, accepted, reader, today, appends, readAlls, failures>>

\* Mutant: a conflict means that the records are there.
CommitConflictsDone(p) ==
  /\ FlushAt(p, "commit")
  /\ Changed(proc[p]) # {} /\ ~ParentIsHead(proc[p])
  /\ proc' = [proc EXCEPT ![p].pc = "drop"]
  /\ UNCHANGED <<repo, queue, accepted, reader, today, appends, readAlls, failures>>

CommitConflicts(p) ==
  /\ FlushAt(p, "commit")
  /\ Changed(proc[p]) # {} /\ ~ParentIsHead(proc[p])
  /\ Retry(p)
  /\ UNCHANGED <<repo, queue, accepted, reader, today, appends, readAlls, failures>>

\* A request fails, or the answer to a commit that took effect is lost.
RequestFails(p) ==
  /\ proc[p].pc \in {"snapshot", "commit"} /\ HubFails
  /\ \/ UNCHANGED repo
     \/ /\ FlushAt(p, "commit") /\ Changed(proc[p]) # {} /\ ParentIsHead(proc[p])
        /\ repo' = Written(proc[p])
  /\ Retry(p)
  /\ UNCHANGED <<queue, accepted, reader, today, appends, readAlls>>

\* Mutant: the directory is emptied.
DropAll(p) ==
  /\ FlushAt(p, "drop")
  /\ queue' = [queue EXCEPT ![QueueOf[p]] = {}]
  /\ proc' = Finish(p, Succeeded([proc[p] EXCEPT !.known = @ \cup IdsOf(proc[p].batch)], {}))
  /\ UNCHANGED <<repo, accepted, reader, today, appends, readAlls, failures>>

\* The files of the batch go, and its ids become known.
Drop(p) ==
  LET done == IdsOf(proc[p].batch)
      rest == {r \in Pending(p) : r.id \notin done}
  IN
  /\ FlushAt(p, "drop")
  /\ queue' = [queue EXCEPT ![QueueOf[p]] = rest]
  /\ proc' = Finish(p, Succeeded([proc[p] EXCEPT !.known = @ \cup done], rest))
  /\ UNCHANGED <<repo, accepted, reader, today, appends, readAlls, failures>>

\* The process restarts on the files it left.
ProcessDies(p) ==
  /\ HubFails
  /\ proc' = [proc EXCEPT ![p] = Bucket(Pending(p))]
  /\ UNCHANGED <<repo, queue, accepted, reader, today, appends, readAlls>>
-----------------------------------------------------------------------------
(* read_all, in one of the processes *)

\* The shards are read, without the lock; those that can not be read are left out.
ReadShards(p) ==
  /\ reader.pc = "idle" /\ readAlls < MaxReadAlls
  /\ readAlls' = readAlls + 1
  /\ \/ /\ reader' = [pc |-> p, before |-> Stored \cup accepted[QueueOf[p]], got |-> Stored, whole |-> TRUE]
        /\ UNCHANGED failures
     \/ /\ HubFails
        /\ \E D \in SUBSET Days : reader' =
             [pc |-> p, before |-> {}, got |-> UNION {Shard(repo, d) : d \in D}, whole |-> FALSE]
  /\ UNCHANGED <<repo, queue, accepted, proc, today, appends>>

ReadQueue(p) ==
  /\ reader.pc = p
  /\ reader' = [reader EXCEPT !.pc = "done", !.got = @ \cup IdsOf(Pending(p))]
  /\ UNCHANGED <<repo, queue, accepted, proc, today, appends, readAlls, failures>>

ReadEnds ==
  /\ reader.pc = "done"
  /\ reader' = NoRead
  /\ UNCHANGED <<repo, queue, accepted, proc, today, appends, readAlls, failures>>
-----------------------------------------------------------------------------
NewDay ==
  /\ today < LastDay
  /\ today' = today + 1
  /\ UNCHANGED <<repo, queue, accepted, proc, reader, appends, readAlls, failures>>

FlushStep(p) ==
  \/ ListPending(p) \/ NothingPending(p) \/ LoadPending(p) \/ Snapshot(p)
  \/ CommitBatch(p) \/ AlreadyStored(p) \/ CommitConflicts(p) \/ Drop(p)

BucketNext ==
  \/ \E p \in Procs : FlushStep(p) \/ RequestFails(p) \/ ProcessDies(p) \/ ReadShards(p) \/ ReadQueue(p)
  \/ \E p \in Procs, i \in Ids : AppendRecord(p, i)
  \/ ReadEnds \/ NewDay

BucketSpec == BucketInit /\ [][BucketNext]_bucketVars

\* Each process runs its flusher.
FairBucketSpec == BucketSpec /\ \A p \in Procs : WF_bucketVars(FlushStep(p))
-----------------------------------------------------------------------------
\* The type invariant; a directory has one file per id.
BucketTypeOK ==
  /\ repo \in Repo
  /\ queue \in [Queues -> SUBSET Record]
  /\ \A q \in Queues : \A r, s \in queue[q] : r.id = s.id => r = s
  /\ accepted \in [Queues -> SUBSET Ids]
  /\ proc \in [Procs -> Flush]
  /\ reader \in [pc : Procs \cup {"idle", "done"}, before : SUBSET Ids, got : SUBSET Ids, whole : BOOLEAN]
  /\ today \in Days /\ {appends, readAlls, failures} \subseteq Nat

\* A record append has answered for is in the queue or in the repository,
\* whatever failed since ("conflict exhaustion retains queue").
NothingLost == \A q \in Queues : accepted[q] \subseteq IdsOf(queue[q]) \cup Stored

\* "NEVER fabricates a successful commit": a bucket that takes an id for
\* committed, or is about to drop its file, finds it in the repository.
KnownIsStored ==
  \A p \in Procs :
    /\ proc[p].known \subseteq Stored
    /\ FlushAt(p, "drop") => IdsOf(proc[p].batch) \subseteq Stored

\* No shard holds an id twice, in spite of lost answers and rival processes.
EntriesOnce == \A d \in Days : IsInjective(repo.shards[d])

\* head.json agrees with the shards of its revision.
HeadMatches == repo.head = HeadOf(repo.shards)

\* What a whole read_all misses has gone into the repository meanwhile.
MissedIsStored ==
  reader.pc = "done" /\ reader.whole => reader.before \ reader.got \subseteq Stored

\* What the repository holds, what head.json says of it, and what the
\* processes and a reader conclude from it agree.
BucketSound == BucketTypeOK /\ NothingLost /\ KnownIsStored /\ EntriesOnce /\ HeadMatches /\ MissedIsStored

\* Queue and repository implement the archive.
Archive == INSTANCE RecordArchive WITH
  waiting <- (UNION {IdsOf(queue[q]) : q \in Queues}) \ Stored, archived <- Stored
ArchiveSpec == Archive!Spec

\* "A later flush drains the queue": what is accepted is stored at last.
AllStored == \A q \in Queues, i \in Ids : i \in accepted[q] ~> i \in Stored
=============================================================================
