-------------------------- MODULE TrainingDispatch --------------------------
(***************************************************************************)
(* The manual training dispatch (scripts/dispatch_receipt_training.py) and *)
(* the worker it submits (scripts/receipt_training_worker.py).  A dispatch *)
(* reserves its run with a compare-and-swap commit in the output           *)
(* repository, submits one billable job, watches it and verifies the       *)
(* candidate the worker published with a second compare-and-swap; it       *)
(* writes a create-only receipt before and after each remote operation.    *)
(* The repository is external: a linear history, of which a commit is      *)
(* known by its place, that takes a commit only on top of its newest one   *)
(* when the caller names a parent.  So is the job provider.                *)
(***************************************************************************)
EXTENDS Integers, Sequences, FiniteSets

CONSTANTS
  Dispatches,   \* started by operators, possibly for a run tried before
  Runs,
  Faults,       \* the faults of the run
  MaxCommits,
  None

ASSUME DispatchAssumption ==
  /\ None \notin Runs /\ MaxCommits \in Nat \ {0}
  /\ Faults \subseteq {"disk", "reply", "kill", "source", "writer", "provider"}

VARIABLES
  (* remote *)
  repo,      \* the commits of the output repository
  moved,     \* the main branch of the source has left the revision the manifests name
  jobs,      \* the job of each dispatch
  (* a dispatch *)
  pc,
  manifest,  \* its run and the commit it is to start from
  res,       \* its reservation
  receipts,  \* the receipts in its directory
  knows,     \* whether it learned the id of its job
  cancel     \* whether it has tried to cancel it

remote == <<repo, moved, jobs>>
local == <<manifest, res, receipts, knows, cancel>>
vars == <<remote, pc, local>>

Fault(f) == f \in Faults

Other == [kind |-> "other", run |-> None, on |-> 0]
NoJob == [state |-> "none", commit |-> 0, cancelled |-> FALSE]
NoManifest == [run |-> None, parent |-> 0]
HeadCommit == Len(repo)

\* The commits of one kind for a run in the tree of commit c.
Files(kind, r, c) == {n \in 1..c : repo[n].kind = kind /\ repo[n].run = r}

Init ==
  /\ repo = <<Other>> /\ moved = FALSE
  /\ jobs = [d \in Dispatches |-> NoJob]
  /\ pc = [d \in Dispatches |-> "idle"]
  /\ manifest = [d \in Dispatches |-> NoManifest]
  /\ res = [d \in Dispatches |-> 0]
  /\ receipts = [d \in Dispatches |-> {}]
  /\ knows = [d \in Dispatches |-> FALSE] /\ cancel = [d \in Dispatches |-> FALSE]

Goto(d, at, to) == pc[d] = at /\ pc' = [pc EXCEPT ![d] = to]

\* A receipt is on the disk before the dispatch goes on.
Emit(d, at, what, to) ==
  /\ Goto(d, at, to)
  /\ receipts' = [receipts EXCEPT ![d] = @ \cup {what}]
  /\ UNCHANGED <<remote, manifest, res, knows, cancel>>

EmitFails(d, at, to) ==
  /\ Fault("disk")
  /\ Goto(d, at, to)
  /\ UNCHANGED <<remote, local>>
-----------------------------------------------------------------------------
(* before the billable operation *)

\* Mutant: the preflight does not look for the run's reservation.
PreflightHead(m) == HeadCommit = m.parent

Preflight(m) == HeadCommit = m.parent /\ Files("reservation", m.run, m.parent) = {}

Begin(d, m) ==
  /\ ~moved /\ Preflight(m)
  /\ Goto(d, "idle", "preflighted")
  /\ manifest' = [manifest EXCEPT ![d] = m]
  /\ UNCHANGED <<remote, res, receipts, knows, cancel>>

\* Mutant: the commit is added to whatever the newest commit is.
TakesAny(parent) == Len(repo) < MaxCommits

\* The repository takes a commit on a parent that is still its newest.
Takes(parent) == HeadCommit = parent /\ Len(repo) < MaxCommits

Commit(kind, d, on) == repo' = Append(repo, [kind |-> kind, run |-> manifest[d].run, on |-> on])

Reserve(d) ==
  /\ Takes(manifest[d].parent)
  /\ Goto(d, "intended", "reserved")
  /\ Commit("reservation", d, manifest[d].parent)
  /\ res' = [res EXCEPT ![d] = Len(repo')]
  /\ UNCHANGED <<moved, jobs, manifest, receipts, knows, cancel>>

ReserveRefused(d) ==
  /\ ~Takes(manifest[d].parent)
  /\ Goto(d, "intended", "reservation_unknown")
  /\ UNCHANGED <<remote, local>>

\* Mutant: a lost reply to the reservation is taken for a success.
ReserveLostGoesOn(d) ==
  /\ Fault("reply")
  /\ Goto(d, "intended", "reserved")
  /\ res' = [res EXCEPT ![d] = Len(repo) + 1]
  /\ \/ Takes(manifest[d].parent) /\ Commit("reservation", d, manifest[d].parent)
     \/ UNCHANGED repo
  /\ UNCHANGED <<moved, jobs, manifest, receipts, knows, cancel>>

\* The reply, or the readback, is lost: the reservation may stand.
ReserveLost(d) ==
  /\ Fault("reply")
  /\ Goto(d, "intended", "reservation_unknown")
  /\ \/ Takes(manifest[d].parent) /\ Commit("reservation", d, manifest[d].parent)
     \/ UNCHANGED repo
  /\ UNCHANGED <<moved, jobs, local>>

Admitted(d) == ~moved /\ HeadCommit = res[d]

Admit(d) ==
  /\ Admitted(d) /\ Goto(d, "recorded", "admitted")
  /\ UNCHANGED <<remote, local>>

AdmitFails(d) ==
  /\ ~Admitted(d) /\ Goto(d, "recorded", "unadmitted")
  /\ UNCHANGED <<remote, local>>

Submit(d) ==
  /\ Goto(d, "submitting", "submitted")
  /\ jobs' = [jobs EXCEPT ![d].state = "queued"]
  /\ knows' = [knows EXCEPT ![d] = TRUE]
  /\ UNCHANGED <<repo, moved, manifest, res, receipts, cancel>>

\* The job may run without anyone knowing its id.
SubmitLost(d) ==
  /\ Fault("reply")
  /\ Goto(d, "submitting", "submission_unknown")
  /\ \/ jobs' = [jobs EXCEPT ![d].state = "queued"]
     \/ UNCHANGED jobs
  /\ UNCHANGED <<repo, moved, local>>
-----------------------------------------------------------------------------
(* after it *)

Sees(d, state, to) ==
  /\ jobs[d].state = state /\ Goto(d, "monitoring", to)
  /\ UNCHANGED <<remote, local>>

\* Mutant: the watch has no deadline and ends with its job.
MonitorUnbounded(d) ==
  /\ jobs[d].state \notin {"queued", "training", "publishing"}
  /\ Goto(d, "monitoring", "failing")
  /\ UNCHANGED <<remote, local>>

\* Timeout, interrupt, a state that is not known, a result that cannot be read.
MonitorFails(d) ==
  /\ Goto(d, "monitoring", "failing")
  /\ UNCHANGED <<remote, local>>

\* The commit the worker named is newest, and adds to the reservation's tree
\* the candidate of this run and nothing else.
Verifies(d) ==
  LET c == jobs[d].commit IN
  /\ c > res[d] /\ c = HeadCommit
  /\ \A n \in (res[d] + 1)..c : repo[n].kind = "candidate" /\ repo[n].run = manifest[d].run
  /\ Files("candidate", manifest[d].run, res[d]) = {}

Verify(d) ==
  /\ Verifies(d) /\ Goto(d, "completed", "verified")
  /\ UNCHANGED <<remote, local>>

VerifyFails(d) ==
  /\ ~Verifies(d) /\ Goto(d, "completed", "failing")
  /\ UNCHANGED <<remote, local>>

\* The request may be lost; the job may go on for a while.
Cancel(d) ==
  /\ Goto(d, "failing", "cancelled")
  /\ cancel' = [cancel EXCEPT ![d] = TRUE]
  /\ \/ jobs' = [jobs EXCEPT ![d].cancelled = TRUE]
     \/ Fault("reply") /\ UNCHANGED jobs
  /\ UNCHANGED <<repo, moved, manifest, res, receipts, knows>>

Kill(d) ==
  /\ Fault("kill")
  /\ pc[d] \notin {"idle", "killed", "stopped", "success"}
  /\ pc' = [pc EXCEPT ![d] = "killed"]
  /\ UNCHANGED <<remote, local>>

\* Mutant: a SUBMITTED receipt that cannot be written ends the dispatch.
ReportSubmittedFailsOut(d) == EmitFails(d, "submitted", "stopped")

ReportSubmittedFails(d) == EmitFails(d, "submitted", "failing")

\* Mutant: a verified candidate whose receipt cannot be written is a success.
ReportVerifiedFailsOut(d) == EmitFails(d, "verified", "success")

ReportVerifiedFails(d) == EmitFails(d, "verified", "failing")

\* Mutant: the intent is written once the job is submitted.
IntendSubmissionLate(d) ==
  /\ Goto(d, "admitted", "submitting")
  /\ UNCHANGED <<remote, local>>

IntendSubmission(d) == Emit(d, "admitted", "SUBMISSION_INTENT", "submitting")

Receipt(d) ==
  \/ Emit(d, "preflighted", "RESERVATION_INTENT", "intended") \/ EmitFails(d, "preflighted", "stopped")
  \/ Emit(d, "reservation_unknown", "RESERVATION_OUTCOME_UNKNOWN", "stopped")
  \/ EmitFails(d, "reservation_unknown", "stopped")
  \/ Emit(d, "reserved", "RESERVED", "recorded") \/ EmitFails(d, "reserved", "stopped")
  \/ Emit(d, "unadmitted", "PRE_SUBMISSION_ADMISSION_FAILED", "stopped")
  \/ EmitFails(d, "unadmitted", "stopped")
  \/ IntendSubmission(d) \/ EmitFails(d, "admitted", "stopped")
  \/ Emit(d, "submission_unknown", "SUBMISSION_OUTCOME_UNKNOWN", "stopped")
  \/ EmitFails(d, "submission_unknown", "stopped")
  \/ Emit(d, "submitted", "SUBMITTED", "monitoring") \/ ReportSubmittedFails(d)
  \/ Emit(d, "verified", "CANDIDATE_VERIFIED", "success") \/ ReportVerifiedFails(d)
  \/ Emit(d, "cancelled", "FAILED_OR_UNKNOWN", "stopped") \/ EmitFails(d, "cancelled", "stopped")

Dispatch(d) ==
  \/ Receipt(d)
  \/ Reserve(d) \/ ReserveRefused(d) \/ ReserveLost(d)
  \/ Admit(d) \/ AdmitFails(d)
  \/ Submit(d) \/ SubmitLost(d)
  \/ Sees(d, "completed", "completed") \/ Sees(d, "error", "failing") \/ Sees(d, "canceled", "failing")
  \/ MonitorFails(d)
  \/ Verify(d) \/ VerifyFails(d)
  \/ Cancel(d)
-----------------------------------------------------------------------------
(* the worker, and the provider that runs it *)

Turn(d, at, to) ==
  /\ jobs[d].state = at
  /\ jobs' = [jobs EXCEPT ![d].state = to]

\* The reservation is read back, and is still the newest commit.
WorkerAdmits(d) ==
  /\ Turn(d, "queued", "training")
  /\ HeadCommit = res[d]
  /\ UNCHANGED <<repo, moved, pc, local>>

WorkerTrained(d) ==
  /\ Turn(d, "training", "publishing")
  /\ HeadCommit = res[d] /\ Files("candidate", manifest[d].run, res[d]) = {}
  /\ UNCHANGED <<repo, moved, pc, local>>

WorkerRefuses(d) ==
  /\ \/ Turn(d, "queued", "error") /\ HeadCommit # res[d]
     \/ /\ Turn(d, "training", "error")
        /\ HeadCommit # res[d] \/ Files("candidate", manifest[d].run, res[d]) # {}
  /\ UNCHANGED <<repo, moved, pc, local>>

Publish(d) ==
  /\ jobs[d].state = "publishing" /\ Takes(res[d])
  /\ Commit("candidate", d, res[d])
  /\ jobs' = [jobs EXCEPT ![d].state = "completed", ![d].commit = Len(repo')]
  /\ UNCHANGED <<moved, pc, local>>

PublishRefused(d) ==
  /\ Turn(d, "publishing", "error") /\ ~Takes(res[d])
  /\ UNCHANGED <<repo, moved, pc, local>>

\* The candidate stands and the worker does not know.
PublishLost(d) ==
  /\ Fault("reply")
  /\ Turn(d, "publishing", "error") /\ Takes(res[d])
  /\ Commit("candidate", d, res[d])
  /\ UNCHANGED <<moved, pc, local>>

Active(d) == jobs[d].state \in {"queued", "training", "publishing"}

\* Training fails, its loss is too high, the time limit is reached.
JobFails(d) ==
  /\ Fault("provider")
  /\ Active(d) /\ jobs' = [jobs EXCEPT ![d].state = "error"]
  /\ UNCHANGED <<repo, moved, pc, local>>

JobCancelled(d) ==
  /\ Active(d) /\ jobs[d].cancelled
  /\ jobs' = [jobs EXCEPT ![d].state = "canceled"]
  /\ UNCHANGED <<repo, moved, pc, local>>

Job(d) ==
  \/ WorkerAdmits(d) \/ WorkerTrained(d) \/ WorkerRefuses(d)
  \/ Publish(d) \/ PublishRefused(d) \/ PublishLost(d)
  \/ JobFails(d) \/ JobCancelled(d)

SourceMoves ==
  /\ Fault("source") /\ ~moved
  /\ moved' = TRUE
  /\ UNCHANGED <<repo, jobs, pc, local>>

OtherWrites ==
  /\ Fault("writer") /\ Len(repo) < MaxCommits
  /\ repo' = Append(repo, Other)
  /\ UNCHANGED <<moved, jobs, pc, local>>

Next ==
  \/ \E d \in Dispatches :
       \/ \E r \in Runs, p \in 1..MaxCommits : Begin(d, [run |-> r, parent |-> p])
       \/ Dispatch(d) \/ Kill(d) \/ Job(d)
  \/ SourceMoves \/ OtherWrites

Spec == Init /\ [][Next]_vars

\* Every remote call is bounded and so is the watch over the job.
FairSpec == Spec /\ \A d \in Dispatches : WF_vars(Dispatch(d))
-----------------------------------------------------------------------------
Count(kind, r) == Cardinality(Files(kind, r, Len(repo)))
JobsOf(r) == {d \in Dispatches : manifest[d].run = r /\ jobs[d].state # "none"}
VerifiedOf(r) == {d \in Dispatches : manifest[d].run = r /\ "CANDIDATE_VERIFIED" \in receipts[d]}

Lifecycle == INSTANCE RunLifecycle WITH
  reserved <- [r \in Runs |-> Count("reservation", r)],
  billed <- [r \in Runs |-> Cardinality(JobsOf(r))],
  published <- [r \in Runs |-> Count("candidate", r)],
  verified <- [r \in Runs |-> Cardinality(VerifiedOf(r))]

\* However often operators dispatch a run, and whichever replies are lost, the
\* run is reserved, billed, published and verified at most once and in order.
LifecycleSpec == Lifecycle!LifecycleSpec

\* Every variable holds what its declaration says.
TypeOK ==
  /\ Len(repo) \in 1..MaxCommits /\ moved \in BOOLEAN
  /\ \A n \in DOMAIN repo : repo[n].kind \in {"other", "reservation", "candidate"} /\ repo[n].on < n
  /\ \A d \in Dispatches :
       /\ manifest[d].run \in Runs \cup {None} /\ res[d] \in 0..Len(repo)
       /\ jobs[d].commit \in 0..Len(repo)
       /\ knows[d] \in BOOLEAN /\ cancel[d] \in BOOLEAN

\* Reservations and candidates stand on the commit their caller named: nothing
\* was written between the read that admitted them and the commit.
CommitsAreSwapped ==
  \A n \in DOMAIN repo : repo[n].kind # "other" => repo[n].on = n - 1

\* A dispatch that ends with success has the receipt, and the commit its worker
\* published is the run's only candidate, right after its own reservation.
SuccessIsVerified ==
  \A d \in Dispatches : pc[d] = "success" =>
    /\ "CANDIDATE_VERIFIED" \in receipts[d]
    /\ jobs[d].state = "completed"
    /\ jobs[d].commit = res[d] + 1
    /\ Files("candidate", manifest[d].run, Len(repo)) = {res[d] + 1}

\* Every reservation and every job has the durable intent of its dispatch,
\* through any kill and full disk.
IntentsPrecede ==
  /\ \A d \in Dispatches : jobs[d].state # "none" => "SUBMISSION_INTENT" \in receipts[d]
  /\ \A n \in DOMAIN repo : repo[n].kind = "reservation" =>
       \E d \in Dispatches : manifest[d].run = repo[n].run /\ "RESERVATION_INTENT" \in receipts[d]

\* A dispatch that learned the id of its job and was not killed has tried to
\* cancel it when it ends without success.
KnownJobsAreCancelled ==
  \A d \in Dispatches : pc[d] = "stopped" /\ knows[d] => cancel[d]

\* What a dispatch has, whatever failed: the intents before what they announce,
\* commits on the base they name, the cancellation of a job it knows.
DispatchSound ==
  TypeOK /\ CommitsAreSwapped /\ IntentsPrecede /\ KnownJobsAreCancelled /\ SuccessIsVerified

\* A dispatch that began comes to an end.
DispatchEnds ==
  \A d \in Dispatches : pc[d] = "preflighted" ~> pc[d] \in {"stopped", "success", "killed"}
=============================================================================
