----------------------- MODULE TrainingDispatchProofs -----------------------
(***************************************************************************)
(* The training dispatch, proved for any number of dispatches, runs and    *)
(* commits and any set of faults: a run is reserved, billed, published and *)
(* verified at most once and in that order, whichever replies are lost and *)
(* whichever dispatches are killed.                                        *)
(*                                                                         *)
(* The argument is one chain of uniqueness.  The compare-and-swap makes    *)
(* the commit of a reservation stand on the head its preflight read, whose *)
(* tree had none (BasesHold), so a run has one reservation and one         *)
(* dispatch that holds it (ReservedOnce, OneHolder); only that dispatch    *)
(* submits, so the run has one job; the worker publishes with a second     *)
(* compare-and-swap on the reservation itself, so a candidate stands right *)
(* after the reservation of its job and there is one (PublishedByJob).     *)
(***************************************************************************)
EXTENDS TrainingDispatch, FiniteSetTheorems, SequenceTheorems, TLAPS

USE DispatchAssumption

\* Where a dispatch can be: without a reservation, with one, with a submission behind it.
Early == {"idle", "preflighted", "intended", "reservation_unknown"}
Holding == {"reserved", "recorded", "unadmitted", "admitted", "submitting"}
Submitted == {"submitted", "submission_unknown", "monitoring", "completed", "verified", "failing",
              "cancelled", "success"}
PCs == Early \cup Holding \cup Submitted \cup {"stopped", "killed"}

\* The receipts a dispatch can have, and the records of the variables.
Names == {"RESERVATION_INTENT", "RESERVATION_OUTCOME_UNKNOWN", "RESERVED",
          "PRE_SUBMISSION_ADMISSION_FAILED", "SUBMISSION_INTENT", "SUBMISSION_OUTCOME_UNKNOWN",
          "SUBMITTED", "CANDIDATE_VERIFIED", "FAILED_OR_UNKNOWN"}
CommitRec == [kind : {"other", "reservation", "candidate"}, run : Runs \cup {None}, on : Nat]
JobRec == [state : {"none", "queued", "training", "publishing", "completed", "error", "canceled"},
           commit : Nat, cancelled : BOOLEAN]
Manifests == [run : Runs \cup {None}, parent : Nat]

\* The types of the variables, closer than TypeOK: what the records are.
Types ==
  /\ repo \in Seq(CommitRec) /\ Len(repo) \in 1..MaxCommits /\ moved \in BOOLEAN
  /\ jobs \in [Dispatches -> JobRec] /\ pc \in [Dispatches -> PCs]
  /\ manifest \in [Dispatches -> Manifests] /\ res \in [Dispatches -> Nat]
  /\ receipts \in [Dispatches -> SUBSET Names]
  /\ knows \in [Dispatches -> BOOLEAN] /\ cancel \in [Dispatches -> BOOLEAN]

\* What a dispatch at p with receipts R, reservation s, a job in state j, knowledge k of
\* its id and cancellation c has behind it.
Stage(p, R, k, c, j, s) ==
  /\ p = "idle" => R = {}
  /\ p \in Early => s = 0
  /\ p \in Early \cup Holding => j = "none" /\ ~k
  /\ p \in Holding \cup Submitted => s # 0
  /\ j # "none" => s # 0 /\ "SUBMISSION_INTENT" \in R
  /\ p = "intended" => "RESERVATION_INTENT" \in R
  /\ p = "submitting" => "SUBMISSION_INTENT" \in R
  /\ p = "submission_unknown" => ~k
  /\ p \in {"completed", "verified", "success"} => j = "completed"
  /\ "CANDIDATE_VERIFIED" \in R <=> p = "success"
  /\ p = "cancelled" => c
  /\ p = "stopped" /\ k => c
\* Each dispatch has behind it what its place says.
StagesAgree ==
  \A d \in Dispatches : Stage(pc[d], receipts[d], knows[d], cancel[d], jobs[d].state, res[d])

\* The commit at n of history R is of this kind and run.
Is(R, n, kind, r) == n \in 1..Len(R) /\ R[n].kind = kind /\ R[n].run = r

\* Reservations and candidates stand on the commit before them, and the base a
\* dispatch goes out from has no reservation of its run.
BasesHold ==
  /\ \A n \in 1..Len(repo) : repo[n].on < n /\ (repo[n].kind # "other" => repo[n].on = n - 1)
  /\ \A d \in Dispatches : pc[d] # "idle" =>
       /\ manifest[d].run \in Runs /\ manifest[d].parent \in 1..Len(repo)
       /\ \A n \in 1..manifest[d].parent : ~Is(repo, n, "reservation", manifest[d].run)

\* A run has one reservation, which was announced; a dispatch that holds one holds
\* the reservation of its run, and no two hold the same.
ReservedOnce ==
  /\ \A r \in Runs, m, n \in 1..Len(repo) :
       Is(repo, m, "reservation", r) /\ Is(repo, n, "reservation", r) => m = n
  /\ \A d \in Dispatches : res[d] # 0 => Is(repo, res[d], "reservation", manifest[d].run)
  /\ \A d, e \in Dispatches : res[d] # 0 /\ res[d] = res[e] => d = e
  /\ \A r \in Runs, n \in 1..Len(repo) : Is(repo, n, "reservation", r) =>
       \E d \in Dispatches : manifest[d].run = r /\ "RESERVATION_INTENT" \in receipts[d]
  /\ \A n \in 1..Len(repo) : repo[n].kind # "other" => repo[n].run \in Runs

\* A candidate stands right after the reservation of the dispatch whose job made
\* it, and a job that completed made the commit it names.
PublishedByJob ==
  /\ \A r \in Runs, n \in 1..Len(repo) : Is(repo, n, "candidate", r) =>
       \E d \in Dispatches :
         manifest[d].run = r /\ res[d] # 0 /\ n = res[d] + 1 /\ jobs[d].state # "none"
  /\ \A d \in Dispatches :
       IF jobs[d].state = "completed"
       THEN jobs[d].commit = res[d] + 1 /\ Is(repo, res[d] + 1, "candidate", manifest[d].run)
       ELSE jobs[d].commit = 0

\* The inductive invariant.
IInv == Types /\ StagesAgree /\ BasesHold /\ ReservedOnce /\ PublishedByJob
-----------------------------------------------------------------------------
\* Of all the dispatches of a run, one holds its reservation.
LEMMA OneHolder ==
  ASSUME IInv, NEW d \in Dispatches, NEW e \in Dispatches,
         res[d] # 0, res[e] # 0, manifest[d].run = manifest[e].run
  PROVE  d = e
<1>1. Is(repo, res[d], "reservation", manifest[d].run) /\ Is(repo, res[e], "reservation", manifest[d].run)
  BY DEF IInv, ReservedOnce
<1>2. manifest[d].run \in Runs /\ res[d] \in 1..Len(repo) /\ res[e] \in 1..Len(repo)
  BY <1>1 DEF IInv, ReservedOnce, Is
<1>3. res[d] = res[e]
  BY <1>1, <1>2 DEF IInv, ReservedOnce
<1> QED BY <1>3 DEF IInv, ReservedOnce

\* Reservations, and the commits that completed jobs name, are in the history.
LEMMA Places ==
  ASSUME IInv
  PROVE  \A e \in Dispatches :
           /\ res[e] \in Nat /\ (res[e] # 0 => res[e] \in 1..Len(repo))
           /\ jobs[e].state = "completed" => res[e] + 1 \in 1..Len(repo)
BY DEF IInv, Types, ReservedOnce, PublishedByJob, Is

\* The history has grown by commit x and is otherwise what it was.
GrownBy(x) ==
  /\ repo' \in Seq(CommitRec) /\ Len(repo') = Len(repo) + 1 /\ Len(repo) \in Nat
  /\ Len(repo') \in 1..MaxCommits
  /\ repo'[Len(repo) + 1] = x
  /\ \A n \in 1..Len(repo) : repo'[n] = repo[n]
  /\ \A n \in 1..Len(repo') : n \in 1..Len(repo) \/ n = Len(repo) + 1
  /\ \A n \in 1..Len(repo) : \A k, r : Is(repo', n, k, r) <=> Is(repo, n, k, r)
  /\ \A k, r : Is(repo', Len(repo) + 1, k, r) <=> (x.kind = k /\ x.run = r)

\* A commit the repository takes grows the history.
LEMMA Grown ==
  ASSUME IInv, NEW x \in CommitRec, Len(repo) < MaxCommits, repo' = Append(repo, x)
  PROVE  GrownBy(x)
<1>1. /\ repo' \in Seq(CommitRec) /\ Len(repo') = Len(repo) + 1 /\ Len(repo) \in Nat
      /\ Len(repo') \in 1..MaxCommits
      /\ repo'[Len(repo) + 1] = x
      /\ \A n \in 1..Len(repo) : repo'[n] = repo[n]
  BY DEF IInv, Types
<1>2. \A n \in 1..Len(repo') : n \in 1..Len(repo) \/ n = Len(repo) + 1
  BY <1>1
<1>3. \A n \in 1..Len(repo) : n \in 1..Len(repo')
  BY <1>1
<1>4. Len(repo) + 1 \in 1..Len(repo')
  BY <1>1
<1>5. \A n \in 1..Len(repo) : \A k, r : Is(repo', n, k, r) <=> Is(repo, n, k, r)
  BY <1>1, <1>3 DEF Is
<1>6. \A k, r : Is(repo', Len(repo) + 1, k, r) <=> (x.kind = k /\ x.run = r)
  BY <1>1, <1>4 DEF Is
<1> QED BY <1>1, <1>2, <1>5, <1>6 DEF GrownBy

\* A step of one dispatch that adds no commit keeps the invariant when the stage it reaches agrees.
LEMMA StepKeeps ==
  ASSUME IInv, Types', NEW d \in Dispatches, pc[d] # "idle",
         UNCHANGED <<repo, res, manifest>>,
         \A e \in Dispatches \ {d} :
           /\ pc'[e] = pc[e] /\ receipts'[e] = receipts[e] /\ knows'[e] = knows[e]
           /\ cancel'[e] = cancel[e] /\ jobs'[e] = jobs[e],
         receipts[d] \subseteq receipts'[d],
         jobs[d].state # "none" => jobs'[d].state # "none",
         jobs[d].state = "completed" <=> jobs'[d].state = "completed",
         jobs'[d].commit = jobs[d].commit,
         Stage(pc'[d], receipts'[d], knows'[d], cancel'[d], jobs'[d].state, res[d])
  PROVE  IInv'
<1>1. StagesAgree'
  BY DEF IInv, StagesAgree
<1>2. BasesHold'
  BY DEF IInv, BasesHold, Is
<1>3. ReservedOnce'
  BY DEF IInv, ReservedOnce, Is
<1>4. PublishedByJob'
  BY DEF IInv, PublishedByJob, Is
<1> QED BY <1>1, <1>2, <1>3, <1>4 DEF IInv

\* So does a step that changes nothing but its place.
LEMMA LocalKeeps ==
  ASSUME IInv, NEW d \in Dispatches, NEW p \in PCs, pc[d] # "idle",
         pc' = [pc EXCEPT ![d] = p], UNCHANGED <<remote, local>>,
         Stage(p, receipts[d], knows[d], cancel[d], jobs[d].state, res[d])
  PROVE  IInv'
<1>1. Types' /\ pc'[d] = p
  BY DEF IInv, Types, remote, local
<1>2. \A e \in Dispatches \ {d} : pc'[e] = pc[e]
  BY DEF IInv, Types
<1> QED BY <1>1, <1>2, StepKeeps DEF remote, local

\* So does a step that writes a receipt.
LEMMA EmitKeeps ==
  ASSUME IInv, NEW d \in Dispatches, NEW at, NEW p \in PCs, NEW what \in Names, at # "idle",
         Emit(d, at, what, p),
         Stage(p, receipts[d] \cup {what}, knows[d], cancel[d], jobs[d].state, res[d])
  PROVE  IInv'
<1>1. /\ Types' /\ pc'[d] = p /\ pc[d] # "idle" /\ receipts'[d] = receipts[d] \cup {what}
      /\ UNCHANGED <<repo, jobs, res, manifest, knows, cancel>>
  BY DEF IInv, Types, remote, Emit, Goto
<1>2. \A e \in Dispatches \ {d} : pc'[e] = pc[e] /\ receipts'[e] = receipts[e]
  BY DEF IInv, Types, Emit, Goto
<1> QED BY <1>1, <1>2, StepKeeps

\* Every receipt, written or not, keeps the invariant.
LEMMA ReceiptKeeps ==
  ASSUME IInv, NEW d \in Dispatches, Receipt(d)
  PROVE  IInv'
<1>1. Stage(pc[d], receipts[d], knows[d], cancel[d], jobs[d].state, res[d])
  BY DEF IInv, StagesAgree
<1>2. ASSUME NEW at \in {"preflighted", "reserved", "unadmitted", "admitted", "submission_unknown",
                         "reservation_unknown", "cancelled"}, EmitFails(d, at, "stopped")
      PROVE  IInv'
  <2>1. pc[d] = at /\ pc' = [pc EXCEPT ![d] = "stopped"] /\ UNCHANGED <<remote, local>>
    BY <1>2 DEF EmitFails, Goto
  <2>2. Stage("stopped", receipts[d], knows[d], cancel[d], jobs[d].state, res[d])
    BY <1>1, <2>1 DEF Stage, Early, Holding, Submitted
  <2> QED BY <2>1, <2>2, LocalKeeps DEF PCs
<1>3. ASSUME NEW at \in {"submitted", "verified"}, EmitFails(d, at, "failing")
      PROVE  IInv'
  <2>1. pc[d] = at /\ pc' = [pc EXCEPT ![d] = "failing"] /\ UNCHANGED <<remote, local>>
    BY <1>3 DEF EmitFails, Goto
  <2>2. Stage("failing", receipts[d], knows[d], cancel[d], jobs[d].state, res[d])
    BY <1>1, <2>1 DEF Stage, Early, Holding, Submitted
  <2> QED BY <2>1, <2>2, LocalKeeps DEF PCs, Submitted
<1>4. ASSUME NEW e \in {<<"preflighted", "RESERVATION_INTENT", "intended">>,
                        <<"reservation_unknown", "RESERVATION_OUTCOME_UNKNOWN", "stopped">>,
                        <<"reserved", "RESERVED", "recorded">>,
                        <<"unadmitted", "PRE_SUBMISSION_ADMISSION_FAILED", "stopped">>,
                        <<"admitted", "SUBMISSION_INTENT", "submitting">>,
                        <<"submission_unknown", "SUBMISSION_OUTCOME_UNKNOWN", "stopped">>,
                        <<"submitted", "SUBMITTED", "monitoring">>,
                        <<"verified", "CANDIDATE_VERIFIED", "success">>,
                        <<"cancelled", "FAILED_OR_UNKNOWN", "stopped">>}, Emit(d, e[1], e[2], e[3])
      PROVE  IInv'
  <2>1. pc[d] = e[1]
    BY <1>4 DEF Emit, Goto
  <2>2. Stage(e[3], receipts[d] \cup {e[2]}, knows[d], cancel[d], jobs[d].state, res[d])
    BY <1>1, <2>1 DEF Stage, Early, Holding, Submitted
  <2>3. e[3] \in PCs /\ e[1] # "idle" /\ e[2] \in Names
    BY DEF Names, PCs, Early, Holding, Submitted
  <2> QED BY <1>4, <2>2, <2>3, EmitKeeps
<1> QED BY <1>2, <1>3, <1>4 DEF Receipt, IntendSubmission, ReportSubmittedFails, ReportVerifiedFails

\* Every other step of a dispatch does, but the two that add a commit.
LEMMA DispatchKeeps ==
  ASSUME IInv, NEW d \in Dispatches, Dispatch(d), ~Reserve(d), ~ReserveLost(d)
  PROVE  IInv'
<1>1. Stage(pc[d], receipts[d], knows[d], cancel[d], jobs[d].state, res[d])
  BY DEF IInv, StagesAgree
<1>2. ASSUME NEW e \in {<<"intended", "reservation_unknown">>, <<"recorded", "admitted">>,
                        <<"recorded", "unadmitted">>, <<"monitoring", "failing">>,
                        <<"completed", "verified">>, <<"completed", "failing">>},
             Goto(d, e[1], e[2]), UNCHANGED <<remote, local>>
      PROVE  IInv'
  <2>1. pc[d] = e[1] /\ pc' = [pc EXCEPT ![d] = e[2]] /\ e[2] \in PCs /\ pc[d] # "idle"
    BY <1>2 DEF Goto, PCs, Early, Holding, Submitted
  <2>2. Stage(e[2], receipts[d], knows[d], cancel[d], jobs[d].state, res[d])
    BY <1>1, <2>1 DEF Stage, Early, Holding, Submitted
  <2> QED BY <1>2, <2>1, <2>2, LocalKeeps
<1>3. ASSUME Sees(d, "completed", "completed")
      PROVE  IInv'
  <2>1. pc[d] = "monitoring" /\ pc' = [pc EXCEPT ![d] = "completed"] /\ jobs[d].state = "completed"
        /\ UNCHANGED <<remote, local>> /\ "completed" \in PCs
    BY <1>3 DEF Goto, Sees, PCs, Submitted
  <2>2. Stage("completed", receipts[d], knows[d], cancel[d], jobs[d].state, res[d])
    BY <1>1, <2>1 DEF Stage, Early, Holding, Submitted
  <2> QED BY <2>1, <2>2, LocalKeeps
<1>4. CASE Submit(d) \/ SubmitLost(d)
  <2>1. /\ Types' /\ pc[d] = "submitting" /\ UNCHANGED <<repo, res, manifest, receipts, cancel>>
        /\ jobs[d].state = "none" /\ jobs'[d].state \in {"none", "queued"}
        /\ jobs'[d].commit = jobs[d].commit
        /\ pc'[d] = "submitted" \/ (pc'[d] = "submission_unknown" /\ knows'[d] = knows[d])
    <3>1. /\ jobs \in [Dispatches -> JobRec] /\ pc \in [Dispatches -> PCs]
          /\ knows \in [Dispatches -> BOOLEAN]
      BY DEF IInv, Types
    <3>2. /\ jobs' \in [Dispatches -> JobRec] /\ jobs'[d].commit = jobs[d].commit
          /\ jobs'[d].state \in {jobs[d].state, "queued"}
      BY <1>4, <3>1 DEF Submit, SubmitLost, JobRec
    <3>3. /\ knows' \in [Dispatches -> BOOLEAN]
          /\ pc'[d] = "submitted" \/ (pc'[d] = "submission_unknown" /\ knows'[d] = knows[d])
      BY <1>4, <3>1 DEF Submit, SubmitLost, Goto, local
    <3>4. pc' \in [Dispatches -> PCs] /\ pc[d] = "submitting"
      BY <1>4, <3>1 DEF Submit, SubmitLost, Goto, PCs, Submitted
    <3>5. UNCHANGED <<repo, moved, res, manifest, receipts, cancel>>
      BY <1>4 DEF Submit, SubmitLost, local
    <3>6. jobs[d].state = "none"
      BY <1>1, <3>4 DEF Stage, Holding
    <3> QED BY <3>1, <3>2, <3>3, <3>4, <3>5, <3>6 DEF IInv, Types
  <2>2. \A e \in Dispatches \ {d} : pc'[e] = pc[e] /\ knows'[e] = knows[e] /\ jobs'[e] = jobs[e]
    BY <1>4 DEF IInv, Types, Submit, SubmitLost, Goto, local
  <2>3. Stage(pc'[d], receipts[d], knows'[d], cancel[d], jobs'[d].state, res[d])
    BY <1>1, <2>1 DEF Stage, Early, Holding, Submitted
  <2> QED BY <2>1, <2>2, <2>3, StepKeeps
<1>5. CASE Cancel(d)
  <2>1. /\ Types' /\ pc[d] = "failing" /\ pc'[d] = "cancelled" /\ cancel'[d] = TRUE
        /\ UNCHANGED <<repo, res, manifest, receipts, knows>>
        /\ jobs'[d].state = jobs[d].state /\ jobs'[d].commit = jobs[d].commit
    <3>1. /\ jobs \in [Dispatches -> JobRec] /\ pc \in [Dispatches -> PCs]
          /\ cancel \in [Dispatches -> BOOLEAN]
      BY DEF IInv, Types
    <3>2. \A j \in JobRec : [j EXCEPT !.cancelled = TRUE] \in JobRec
            /\ [j EXCEPT !.cancelled = TRUE].state = j.state /\ [j EXCEPT !.cancelled = TRUE].commit = j.commit
      BY DEF JobRec
    <3>3. PICK j \in JobRec : /\ jobs' = [jobs EXCEPT ![d] = j]
                               /\ j.state = jobs[d].state /\ j.commit = jobs[d].commit
      <4>1. jobs[d] \in JobRec
        BY <3>1
      <4>2. \/ jobs' = [jobs EXCEPT ![d] = [jobs[d] EXCEPT !.cancelled = TRUE]]
            \/ jobs' = [jobs EXCEPT ![d] = jobs[d]]
        BY <1>5, <3>1 DEF Cancel
      <4> QED BY <3>2, <4>1, <4>2, Zenon
    <3>4. /\ jobs' \in [Dispatches -> JobRec] /\ jobs'[d].state = jobs[d].state
          /\ jobs'[d].commit = jobs[d].commit
      BY <3>1, <3>3
    <3>5. cancel' \in [Dispatches -> BOOLEAN] /\ cancel'[d] = TRUE
      BY <1>5, <3>1 DEF Cancel
    <3>6. pc' \in [Dispatches -> PCs] /\ pc[d] = "failing" /\ pc'[d] = "cancelled"
      BY <1>5, <3>1 DEF Cancel, Goto, PCs, Submitted
    <3>7. UNCHANGED <<repo, moved, res, manifest, receipts, knows>>
      BY <1>5 DEF Cancel
    <3> QED BY <3>4, <3>5, <3>6, <3>7 DEF IInv, Types
  <2>2. \A e \in Dispatches \ {d} : pc'[e] = pc[e] /\ cancel'[e] = cancel[e] /\ jobs'[e] = jobs[e]
    BY <1>5 DEF IInv, Types, Cancel, Goto
  <2>3. Stage(pc'[d], receipts[d], knows[d], cancel'[d], jobs'[d].state, res[d])
    BY <1>1, <2>1 DEF Stage, Early, Holding, Submitted
  <2> QED BY <2>1, <2>2, <2>3, StepKeeps
<1> QED BY <1>2, <1>3, <1>4, <1>5, ReceiptKeeps
      DEF Dispatch, ReserveRefused, Admit, AdmitFails, Sees, MonitorFails, Verify, VerifyFails

\* A kill keeps it: what is durable stays.
LEMMA KillKeeps ==
  ASSUME IInv, NEW d \in Dispatches, Kill(d)
  PROVE  IInv'
<1>1. Stage(pc[d], receipts[d], knows[d], cancel[d], jobs[d].state, res[d])
  BY DEF IInv, StagesAgree
<1>2. Stage("killed", receipts[d], knows[d], cancel[d], jobs[d].state, res[d])
  BY <1>1 DEF Kill, Stage, Early, Holding, Submitted
<1> QED BY <1>2, LocalKeeps DEF Kill, PCs

\* A turn of a job that publishes nothing keeps it.
LEMMA JobKeeps ==
  ASSUME IInv, NEW d \in Dispatches, Job(d), ~Publish(d), ~PublishLost(d)
  PROVE  IInv'
<1>1. Stage(pc[d], receipts[d], knows[d], cancel[d], jobs[d].state, res[d])
  BY DEF IInv, StagesAgree
<1>2. PICK to \in {"training", "publishing", "error", "canceled"} :
        /\ jobs[d].state \in {"queued", "training", "publishing"}
        /\ jobs' = [jobs EXCEPT ![d].state = to]
        /\ UNCHANGED <<repo, moved, pc, local>>
  BY DEF Job, WorkerAdmits, WorkerTrained, WorkerRefuses, PublishRefused, JobFails, JobCancelled,
         Turn, Active
<1>3. Types' /\ jobs'[d].state = to /\ jobs'[d].commit = jobs[d].commit
  BY <1>2 DEF IInv, Types, JobRec, local
<1>4. \A e \in Dispatches \ {d} : jobs'[e] = jobs[e]
  BY <1>2 DEF IInv, Types
<1>5. pc[d] # "idle" /\ Stage(pc[d], receipts[d], knows[d], cancel[d], to, res[d])
  BY <1>1, <1>2 DEF Stage, Early, Holding, Submitted
<1> QED BY <1>2, <1>3, <1>4, <1>5, StepKeeps DEF local

\* A preflight that passes read a head without a reservation of its run.
LEMMA BeginKeeps ==
  ASSUME IInv, NEW d \in Dispatches, NEW r \in Runs, NEW p \in 1..MaxCommits,
         Begin(d, [run |-> r, parent |-> p])
  PROVE  IInv'
<1> DEFINE m == [run |-> r, parent |-> p]
<1>1. /\ pc[d] = "idle" /\ pc' = [pc EXCEPT ![d] = "preflighted"]
      /\ manifest' = [manifest EXCEPT ![d] = m]
      /\ UNCHANGED <<repo, jobs, moved, res, receipts, knows, cancel>>
      /\ Len(repo) = p /\ Files("reservation", r, p) = {}
  BY DEF Begin, Goto, Preflight, HeadCommit, remote
<1>2. Types' /\ manifest'[d] = m /\ pc'[d] = "preflighted"
  BY <1>1 DEF IInv, Types, PCs, Early, Manifests
<1>3. \A e \in Dispatches \ {d} : pc'[e] = pc[e] /\ manifest'[e] = manifest[e]
  BY <1>1 DEF IInv, Types
<1>4. /\ Stage(pc[d], receipts[d], knows[d], cancel[d], jobs[d].state, res[d])
      /\ receipts[d] = {} /\ res[d] = 0 /\ jobs[d].state = "none"
  BY <1>1 DEF IInv, StagesAgree, Stage, Early
<1>5. StagesAgree'
  <2>1. Stage("preflighted", receipts[d], knows[d], cancel[d], jobs[d].state, res[d])
    BY <1>1, <1>4 DEF Stage, Early, Holding, Submitted
  <2> QED BY <1>1, <1>2, <1>3, <2>1 DEF IInv, StagesAgree
<1>6. BasesHold'
  <2>1. \A n \in 1..p : ~Is(repo, n, "reservation", r)
    BY <1>1 DEF Files, Is
  <2> QED BY <1>1, <1>2, <1>3, <2>1 DEF IInv, BasesHold, Is
<1>7. ReservedOnce'
  BY <1>1, <1>3, <1>4 DEF IInv, ReservedOnce, Is
<1>8. PublishedByJob'
  BY <1>1, <1>3, <1>4 DEF IInv, PublishedByJob, Is
<1> QED BY <1>2, <1>5, <1>6, <1>7, <1>8 DEF IInv

\* What others write is neither a reservation nor a candidate.
LEMMA OthersKeep ==
  ASSUME IInv, SourceMoves \/ OtherWrites
  PROVE  IInv'
<1>1. UNCHANGED <<jobs, pc, manifest, res, receipts, knows, cancel>>
  BY DEF SourceMoves, OtherWrites, local
<1>2. CASE SourceMoves
  <2>1. repo' = repo /\ moved' \in BOOLEAN
    BY <1>2 DEF SourceMoves
  <2>2. Types'
    BY <1>1, <2>1 DEF IInv, Types
  <2>3. StagesAgree' /\ BasesHold'
    BY <1>1, <2>1 DEF IInv, StagesAgree, BasesHold
  <2>4. ReservedOnce'
    BY <1>1, <2>1 DEF IInv, ReservedOnce
  <2>5. PublishedByJob'
    BY <1>1, <2>1 DEF IInv, PublishedByJob
  <2> QED BY <2>2, <2>3, <2>4, <2>5 DEF IInv
<1>3. CASE OtherWrites
  <2>1. Other \in CommitRec /\ Other.kind = "other" /\ Other.on = 0
    BY DEF Other, CommitRec
  <2>2. repo' = Append(repo, Other) /\ Len(repo) < MaxCommits /\ moved' = moved
    BY <1>3 DEF OtherWrites
  <2> GrownBy(Other)
    BY <2>1, <2>2, Grown
  <2>3. Types' /\ StagesAgree'
    BY <1>1, <2>1, <2>2 DEF IInv, Types, StagesAgree, GrownBy
  <2>4. BasesHold'
    BY <1>1, <2>1, <2>2 DEF IInv, BasesHold, GrownBy
  <2>5. ReservedOnce'
    BY <1>1, <2>1, <2>2, Places DEF IInv, ReservedOnce, GrownBy
  <2>6. PublishedByJob'
    BY <1>1, <2>1, <2>2, Places DEF IInv, PublishedByJob, GrownBy
  <2> QED BY <2>3, <2>4, <2>5, <2>6 DEF IInv
<1> QED BY <1>2, <1>3

\* A reservation the repository takes is the first of its run, with a reply or without one.
LEMMA ReservationKeeps ==
  ASSUME IInv, NEW d \in Dispatches, pc[d] = "intended", Takes(manifest[d].parent),
         Commit("reservation", d, manifest[d].parent),
         UNCHANGED <<moved, jobs, manifest, receipts, knows, cancel>>,
         \/ res' = [res EXCEPT ![d] = Len(repo) + 1] /\ pc' = [pc EXCEPT ![d] = "reserved"]
         \/ res' = res /\ pc' = [pc EXCEPT ![d] = "reservation_unknown"]
  PROVE  IInv'
<1> DEFINE run == manifest[d].run
           x == [kind |-> "reservation", run |-> run, on |-> manifest[d].parent]
<1>1. /\ Stage(pc[d], receipts[d], knows[d], cancel[d], jobs[d].state, res[d])
      /\ res[d] = 0 /\ jobs[d].state = "none" /\ "RESERVATION_INTENT" \in receipts[d]
  BY DEF IInv, StagesAgree, Stage, Early
<1>2. /\ run \in Runs /\ manifest[d].parent \in Nat /\ x \in CommitRec
      /\ x.kind = "reservation" /\ x.run = run /\ x.on = Len(repo)
      /\ repo' = Append(repo, x) /\ Len(repo) < MaxCommits
  BY DEF IInv, Types, Manifests, BasesHold, CommitRec, Takes, Commit, HeadCommit
<1> GrownBy(x)
  BY <1>2, Grown
<1> HIDE DEF x
<1>3. \A n \in 1..Len(repo) : ~Is(repo, n, "reservation", run)
  BY <1>2 DEF IInv, BasesHold, Takes, HeadCommit
<1>4. /\ Types'
      /\ (res'[d] = Len(repo) + 1 /\ pc'[d] = "reserved") \/ (res'[d] = 0 /\ pc'[d] = "reservation_unknown")
  <2>1. /\ res \in [Dispatches -> Nat] /\ pc \in [Dispatches -> PCs]
        /\ "reserved" \in PCs /\ "reservation_unknown" \in PCs /\ Len(repo) \in Nat
    BY DEF IInv, Types, PCs, Early, Holding, GrownBy
  <2>2. /\ res' \in [Dispatches -> Nat] /\ pc' \in [Dispatches -> PCs]
        /\ \/ res'[d] = Len(repo) + 1 /\ pc'[d] = "reserved"
           \/ res'[d] = 0 /\ pc'[d] = "reservation_unknown"
    BY <1>1, <2>1
  <2> QED BY <2>2 DEF IInv, Types, GrownBy
<1>5. \A e \in Dispatches \ {d} : pc'[e] = pc[e] /\ res'[e] = res[e]
  BY DEF IInv, Types
<1>6. StagesAgree'
  <2>1. Stage(pc'[d], receipts[d], knows[d], cancel[d], jobs[d].state, res'[d])
    BY <1>1, <1>2, <1>4 DEF Stage, Early, Holding, Submitted, GrownBy
  <2> QED BY <1>5, <2>1 DEF IInv, StagesAgree
<1>7. BasesHold'
  <2>1. \A n \in 1..Len(repo') : repo'[n].on < n /\ (repo'[n].kind # "other" => repo'[n].on = n - 1)
    BY <1>2 DEF IInv, BasesHold, GrownBy
  <2>2. \A e \in Dispatches : pc'[e] # "idle" => pc[e] # "idle"
    BY <1>5
  <2>3. \A e \in Dispatches : pc[e] # "idle" =>
          /\ manifest[e].run \in Runs /\ manifest[e].parent \in 1..Len(repo)
          /\ \A n \in 1..manifest[e].parent : ~Is(repo, n, "reservation", manifest[e].run)
    BY DEF IInv, BasesHold
  <2>4. \A e \in Dispatches : pc[e] # "idle" =>
          /\ manifest[e].run \in Runs /\ manifest[e].parent \in 1..Len(repo')
          /\ \A n \in 1..manifest[e].parent : ~Is(repo', n, "reservation", manifest[e].run)
    BY <2>3 DEF GrownBy
  <2> QED BY <2>1, <2>2, <2>4 DEF BasesHold
<1>8. \A e \in Dispatches : res[e] \in Nat /\ (res[e] # 0 => res[e] \in 1..Len(repo))
  BY Places
<1>9. ReservedOnce'
  <2>1. \A r \in Runs, m, n \in 1..Len(repo') :
          Is(repo', m, "reservation", r) /\ Is(repo', n, "reservation", r) => m = n
    BY <1>2, <1>3 DEF IInv, ReservedOnce, GrownBy
  <2>2. \A e \in Dispatches : res'[e] # 0 => Is(repo', res'[e], "reservation", manifest'[e].run)
    BY <1>2, <1>4, <1>5, <1>8 DEF IInv, ReservedOnce, GrownBy
  <2>3. \A e, f \in Dispatches : res'[e] # 0 /\ res'[e] = res'[f] => e = f
    BY <1>2, <1>4, <1>5, <1>8 DEF IInv, ReservedOnce, GrownBy
  <2>4. \A r \in Runs, n \in 1..Len(repo') : Is(repo', n, "reservation", r) =>
          \E e \in Dispatches : manifest'[e].run = r /\ "RESERVATION_INTENT" \in receipts'[e]
    BY <1>1, <1>2 DEF IInv, ReservedOnce, GrownBy
  <2>5. \A n \in 1..Len(repo') : repo'[n].kind # "other" => repo'[n].run \in Runs
    BY <1>2 DEF IInv, ReservedOnce, GrownBy
  <2> QED BY <2>1, <2>2, <2>3, <2>4, <2>5 DEF ReservedOnce
<1>10. PublishedByJob'
  <2>1. \A r \in Runs, n \in 1..Len(repo') : Is(repo', n, "candidate", r) =>
          \E e \in Dispatches :
            manifest'[e].run = r /\ res'[e] # 0 /\ n = res'[e] + 1 /\ jobs'[e].state # "none"
    <3> SUFFICES ASSUME NEW r \in Runs, NEW n \in 1..Len(repo'), Is(repo', n, "candidate", r)
                 PROVE  \E e \in Dispatches : /\ manifest'[e].run = r /\ res'[e] # 0
                                              /\ n = res'[e] + 1 /\ jobs'[e].state # "none"
      OBVIOUS
    <3>1. n \in 1..Len(repo) /\ Is(repo, n, "candidate", r)
      BY <1>2 DEF GrownBy
    <3>2. PICK e \in Dispatches :
            manifest[e].run = r /\ res[e] # 0 /\ n = res[e] + 1 /\ jobs[e].state # "none"
      BY <3>1 DEF IInv, PublishedByJob
    <3>3. e # d
      BY <1>1, <3>2
    <3> QED BY <1>5, <3>2, <3>3
  <2>2. \A e \in Dispatches :
          IF jobs'[e].state = "completed"
          THEN jobs'[e].commit = res'[e] + 1 /\ Is(repo', res'[e] + 1, "candidate", manifest'[e].run)
          ELSE jobs'[e].commit = 0
    <3> SUFFICES ASSUME NEW e \in Dispatches
                 PROVE  IF jobs'[e].state = "completed"
                        THEN /\ jobs'[e].commit = res'[e] + 1
                             /\ Is(repo', res'[e] + 1, "candidate", manifest'[e].run)
                        ELSE jobs'[e].commit = 0
      OBVIOUS
    <3>1. CASE e = d
      BY <1>1, <3>1 DEF IInv, PublishedByJob
    <3>2. CASE e # d
      <4>1. res'[e] = res[e] /\ jobs'[e] = jobs[e] /\ manifest'[e] = manifest[e]
        BY <1>5, <3>2
      <4>2. CASE jobs[e].state = "completed"
        <5>1. /\ jobs[e].commit = res[e] + 1 /\ res[e] + 1 \in 1..Len(repo)
              /\ Is(repo, res[e] + 1, "candidate", manifest[e].run)
          BY <4>2 DEF IInv, PublishedByJob, Is
        <5> QED BY <4>1, <4>2, <5>1 DEF GrownBy
      <4>3. CASE jobs[e].state # "completed"
        BY <4>1, <4>3 DEF IInv, PublishedByJob
      <4> QED BY <4>2, <4>3
    <3> QED BY <3>1, <3>2
  <2> QED BY <2>1, <2>2 DEF PublishedByJob
<1> QED BY <1>4, <1>6, <1>7, <1>9, <1>10 DEF IInv

\* A candidate the repository takes stands on the reservation of its job.
LEMMA CandidateKeeps ==
  ASSUME IInv, NEW d \in Dispatches, NEW to \in {"completed", "error"},
         jobs[d].state = "publishing", Takes(res[d]), Commit("candidate", d, res[d]),
         jobs' = [jobs EXCEPT ![d].state = to, ![d].commit = IF to = "completed" THEN Len(repo) + 1 ELSE @],
         UNCHANGED <<moved, pc, local>>
  PROVE  IInv'
<1> DEFINE run == manifest[d].run
           x == [kind |-> "candidate", run |-> run, on |-> res[d]]
<1>1. /\ Stage(pc[d], receipts[d], knows[d], cancel[d], jobs[d].state, res[d])
      /\ res[d] # 0 /\ pc[d] # "idle"
  BY DEF IInv, StagesAgree, Stage, Early
<1>2. /\ run \in Runs /\ x \in CommitRec
      /\ x.kind = "candidate" /\ x.run = run /\ x.on = Len(repo) /\ res[d] = Len(repo)
      /\ repo' = Append(repo, x) /\ Len(repo) < MaxCommits
  BY <1>1 DEF IInv, Types, BasesHold, CommitRec, Takes, Commit, HeadCommit
<1> GrownBy(x)
  BY <1>2, Grown
<1> HIDE DEF x
<1>3. /\ pc' = pc /\ manifest' = manifest /\ res' = res /\ receipts' = receipts /\ knows' = knows
      /\ cancel' = cancel /\ moved' = moved
  BY DEF local
<1>4. /\ jobs' \in [Dispatches -> JobRec] /\ jobs'[d].state = to
      /\ jobs'[d].commit = IF to = "completed" THEN Len(repo) + 1 ELSE jobs[d].commit
  <2> DEFINE c == IF to = "completed" THEN Len(repo) + 1 ELSE jobs[d].commit
             mid == [jobs EXCEPT ![d].state = to]
  <2>1. jobs \in [Dispatches -> JobRec] /\ jobs[d] \in JobRec
    BY DEF IInv, Types
  <2>2. jobs[d].commit \in Nat /\ Len(repo) + 1 \in Nat
    BY <2>1 DEF JobRec, GrownBy
  <2>3. c \in Nat
    BY <2>2
  <2>4. \A j \in JobRec :
          /\ [j EXCEPT !.state = to] \in JobRec /\ [j EXCEPT !.state = to].state = to
          /\ [j EXCEPT !.state = to].commit = j.commit
    BY DEF JobRec
  <2>5. mid \in [Dispatches -> JobRec] /\ mid[d].state = to /\ mid[d].commit = jobs[d].commit
    BY <2>1, <2>4
  <2>6. \A j \in JobRec, n \in Nat :
          /\ [j EXCEPT !.commit = n] \in JobRec /\ [j EXCEPT !.commit = n].commit = n
          /\ [j EXCEPT !.commit = n].state = j.state
    BY DEF JobRec
  <2>7. jobs' = [mid EXCEPT ![d].commit = c]
    BY <2>1, <2>5
  <2> HIDE DEF c, mid
  <2>8. jobs' \in [Dispatches -> JobRec] /\ jobs'[d].state = to /\ jobs'[d].commit = c
    <3>1. mid[d] \in JobRec
      BY <2>5
    <3>2. PICK y \in JobRec : y = [mid[d] EXCEPT !.commit = c] /\ y.commit = c /\ y.state = to
      <4>1. /\ [mid[d] EXCEPT !.commit = c] \in JobRec
            /\ [mid[d] EXCEPT !.commit = c].commit = c
            /\ [mid[d] EXCEPT !.commit = c].state = mid[d].state
        BY <2>3, <2>6, <3>1, Zenon
      <4> QED BY <2>5, <4>1, Zenon
    <3>3. jobs' = [mid EXCEPT ![d] = y]
      BY <2>5, <2>7, <3>2
    <3> QED BY <2>5, <3>2, <3>3
  <2> QED BY <2>8 DEF c
<1>5. \A e \in Dispatches \ {d} : jobs'[e] = jobs[e]
  BY DEF IInv, Types
<1>6. Types'
  BY <1>3, <1>4 DEF IInv, Types, GrownBy
<1>7. StagesAgree'
  <2>1. Stage(pc[d], receipts[d], knows[d], cancel[d], to, res[d])
    BY <1>1 DEF Stage, Early, Holding, Submitted
  <2> QED BY <1>3, <1>4, <1>5, <2>1 DEF IInv, StagesAgree
<1>8. BasesHold'
  <2>1. \A n \in 1..Len(repo') : repo'[n].on < n /\ (repo'[n].kind # "other" => repo'[n].on = n - 1)
    BY <1>2 DEF IInv, BasesHold, GrownBy
  <2>2. \A e \in Dispatches : pc[e] # "idle" =>
          /\ manifest[e].run \in Runs /\ manifest[e].parent \in 1..Len(repo)
          /\ \A n \in 1..manifest[e].parent : ~Is(repo, n, "reservation", manifest[e].run)
    BY DEF IInv, BasesHold
  <2>3. \A e \in Dispatches : pc[e] # "idle" =>
          /\ manifest[e].run \in Runs /\ manifest[e].parent \in 1..Len(repo')
          /\ \A n \in 1..manifest[e].parent : ~Is(repo', n, "reservation", manifest[e].run)
    BY <2>2 DEF GrownBy
  <2> QED BY <1>3, <2>1, <2>3 DEF BasesHold
<1>9. ReservedOnce'
  <2>0. (\A r : ~Is(repo', Len(repo) + 1, "reservation", r)) /\ x.run \in Runs
    BY <1>2 DEF GrownBy
  <2>1. \A r \in Runs, m, n \in 1..Len(repo') :
          Is(repo', m, "reservation", r) /\ Is(repo', n, "reservation", r) => m = n
    BY <2>0 DEF IInv, ReservedOnce, GrownBy
  <2>2. \A e \in Dispatches : res[e] # 0 => Is(repo', res[e], "reservation", manifest[e].run)
    BY Places DEF IInv, ReservedOnce, GrownBy
  <2>3. \A r \in Runs, n \in 1..Len(repo') : Is(repo', n, "reservation", r) =>
          \E e \in Dispatches : manifest[e].run = r /\ "RESERVATION_INTENT" \in receipts[e]
    BY <2>0 DEF IInv, ReservedOnce, GrownBy
  <2>4. \A n \in 1..Len(repo') : repo'[n].kind # "other" => repo'[n].run \in Runs
    BY <1>2 DEF IInv, ReservedOnce, GrownBy
  <2> QED BY <1>3, <2>1, <2>2, <2>3, <2>4 DEF IInv, ReservedOnce
<1>10. PublishedByJob'
  <2>1. \A r \in Runs, n \in 1..Len(repo') : Is(repo', n, "candidate", r) =>
          \E e \in Dispatches :
            manifest'[e].run = r /\ res'[e] # 0 /\ n = res'[e] + 1 /\ jobs'[e].state # "none"
    <3> TAKE r \in Runs, n \in 1..Len(repo')
    <3> HAVE Is(repo', n, "candidate", r)
    <3>1. CASE n = Len(repo) + 1
      BY <1>1, <1>2, <1>3, <1>4, <3>1 DEF GrownBy
    <3>2. CASE n \in 1..Len(repo)
      <4>1. PICK e \in Dispatches :
              manifest[e].run = r /\ res[e] # 0 /\ n = res[e] + 1 /\ jobs[e].state # "none"
        BY <3>2 DEF IInv, PublishedByJob, GrownBy
      <4>2. jobs'[e].state # "none"
        BY <1>4, <1>5, <4>1
      <4> QED BY <1>3, <4>1, <4>2
    <3> QED BY <3>1, <3>2 DEF GrownBy
  <2>2. \A e \in Dispatches :
          IF jobs'[e].state = "completed"
          THEN jobs'[e].commit = res'[e] + 1 /\ Is(repo', res'[e] + 1, "candidate", manifest'[e].run)
          ELSE jobs'[e].commit = 0
    <3> SUFFICES ASSUME NEW e \in Dispatches
        PROVE  IF jobs'[e].state = "completed"
               THEN /\ jobs'[e].commit = res'[e] + 1
                    /\ Is(repo', res'[e] + 1, "candidate", manifest'[e].run)
               ELSE jobs'[e].commit = 0
      OBVIOUS
    <3>1. IF jobs[e].state = "completed"
          THEN jobs[e].commit = res[e] + 1 /\ Is(repo, res[e] + 1, "candidate", manifest[e].run)
          ELSE jobs[e].commit = 0
      BY DEF IInv, PublishedByJob
    <3>2. CASE e = d
      BY <1>2, <1>3, <1>4, <3>1, <3>2 DEF GrownBy
    <3>3. CASE e # d
      <4>1. jobs'[e] = jobs[e]
        BY <1>5, <3>3
      <4> QED BY <1>3, <3>1, <4>1, Places DEF GrownBy
    <3> QED BY <3>2, <3>3
  <2> QED BY <2>1, <2>2 DEF PublishedByJob
<1> QED BY <1>6, <1>7, <1>8, <1>9, <1>10 DEF IInv

\* The reserving step keeps the invariant.
LEMMA ReserveKeeps ==
  ASSUME IInv, NEW d \in Dispatches, Reserve(d) \/ ReserveLost(d)
  PROVE  IInv'
<1>1. CASE Reserve(d)
  <2>1. Len(repo') = Len(repo) + 1
    BY <1>1 DEF Reserve, Commit, IInv, Types
  <2> QED BY <1>1, <2>1, ReservationKeeps DEF Reserve, Goto
<1>2. CASE ReserveLost(d) /\ repo' # repo
  BY <1>2, ReservationKeeps DEF ReserveLost, Goto, local
<1>3. CASE ReserveLost(d) /\ repo' = repo
  <2>1. Stage(pc[d], receipts[d], knows[d], cancel[d], jobs[d].state, res[d])
    BY DEF IInv, StagesAgree
  <2>2. Stage("reservation_unknown", receipts[d], knows[d], cancel[d], jobs[d].state, res[d])
    BY <1>3, <2>1 DEF ReserveLost, Goto, Stage, Early, Holding, Submitted
  <2> QED BY <1>3, <2>2, LocalKeeps DEF ReserveLost, Goto, remote, PCs, Early
<1> QED BY <1>1, <1>2, <1>3

\* The publishing step keeps the invariant.
LEMMA PublishKeeps ==
  ASSUME IInv, NEW d \in Dispatches, Publish(d) \/ PublishLost(d)
  PROVE  IInv'
<1>1. CASE Publish(d)
  <2>1. Len(repo') = Len(repo) + 1
    BY <1>1 DEF Publish, Commit, IInv, Types
  <2>2. jobs' = [jobs EXCEPT ![d].state = "completed", ![d].commit = Len(repo) + 1]
    BY <1>1, <2>1 DEF Publish
  <2> QED BY <1>1, <2>2, CandidateKeeps DEF Publish
<1>2. CASE PublishLost(d)
  <2>1. jobs' = [jobs EXCEPT ![d].state = "error", ![d].commit = @]
    BY <1>2 DEF PublishLost, Turn, IInv, Types, JobRec
  <2> QED BY <1>2, <2>1, CandidateKeeps DEF PublishLost, Turn
<1> QED BY <1>1, <1>2

\* The invariant holds of a repository with one commit and dispatches that have not begun.
LEMMA InitHolds == Init => IInv
<1> SUFFICES ASSUME Init PROVE IInv
  OBVIOUS
<1>1. Other \in CommitRec /\ Other.kind = "other" /\ Other.on = 0
  BY DEF Other, CommitRec
<1>2. repo \in Seq(CommitRec) /\ Len(repo) = 1 /\ repo[1] = Other
  BY <1>1 DEF Init
<1>3. Types
  <2>1. NoJob \in JobRec /\ NoManifest \in Manifests /\ "idle" \in PCs
    BY DEF JobRec, NoJob, Manifests, NoManifest, PCs, Early
  <2>2. repo \in Seq(CommitRec) /\ Len(repo) \in 1..MaxCommits /\ moved \in BOOLEAN
    <3>1. Len(repo) \in 1..MaxCommits
      BY <1>2
    <3>2. moved = FALSE
      BY DEF Init
    <3>3. moved \in BOOLEAN
      BY <3>2, Zenon
    <3> QED BY <1>2, <3>1, <3>3, Zenon
  <2>3. /\ jobs \in [Dispatches -> JobRec] /\ pc \in [Dispatches -> PCs]
        /\ manifest \in [Dispatches -> Manifests] /\ res \in [Dispatches -> Nat]
    BY <2>1 DEF Init
  <2>4. /\ receipts \in [Dispatches -> SUBSET Names]
        /\ knows \in [Dispatches -> BOOLEAN] /\ cancel \in [Dispatches -> BOOLEAN]
    <3>1. {} \in SUBSET Names /\ FALSE \in BOOLEAN
      OBVIOUS
    <3>2. /\ receipts = [e \in Dispatches |-> {}]
          /\ knows = [e \in Dispatches |-> FALSE] /\ cancel = [e \in Dispatches |-> FALSE]
      BY DEF Init
    <3> QED BY <3>1, <3>2, Zenon
  <2> QED BY <2>2, <2>3, <2>4 DEF Types
<1>4. StagesAgree
  BY DEF Init, StagesAgree, Stage, Early, Holding, Submitted, NoJob
<1>5. BasesHold /\ ReservedOnce /\ PublishedByJob
  BY <1>1, <1>2 DEF Init, BasesHold, ReservedOnce, PublishedByJob, Is, NoJob
<1> QED BY <1>3, <1>4, <1>5 DEF IInv

\* Every step keeps the invariant.
LEMMA NextKeeps == IInv /\ [Next]_vars => IInv'
<1> SUFFICES ASSUME IInv, [Next]_vars PROVE IInv'
  OBVIOUS
<1>1. ASSUME NEW d \in Dispatches, NEW r \in Runs, NEW p \in 1..MaxCommits,
             Begin(d, [run |-> r, parent |-> p])
      PROVE  IInv'
  BY <1>1, BeginKeeps
<1>2. ASSUME NEW d \in Dispatches, Dispatch(d) PROVE IInv'
  BY <1>2, DispatchKeeps, ReserveKeeps
<1>3. ASSUME NEW d \in Dispatches, Kill(d) PROVE IInv'
  BY <1>3, KillKeeps
<1>4. ASSUME NEW d \in Dispatches, Job(d) PROVE IInv'
  BY <1>4, JobKeeps, PublishKeeps
<1>5. CASE SourceMoves \/ OtherWrites
  BY <1>5, OthersKeep
<1>6. CASE UNCHANGED vars
  BY <1>6 DEF vars, remote, local, IInv, Types, StagesAgree, BasesHold, ReservedOnce, PublishedByJob
<1> QED BY <1>1, <1>2, <1>3, <1>4, <1>5, <1>6 DEF Next

\* The inductive invariant holds in every state: one reservation, one holder and
\* one candidate per run, each on the base its dispatch named.
THEOREM DispatchInvariant == Spec => []IInv
<1>1. Init => IInv
  BY InitHolds
<1>2. IInv /\ [Next]_vars => IInv'
  BY NextKeeps
<1> QED BY <1>1, <1>2, PTL DEF Spec

\* The invariant has all of DispatchSound in it.
LEMMA InvariantIsSound == IInv => DispatchSound
<1> SUFFICES ASSUME IInv PROVE DispatchSound
  OBVIOUS
<1>1. \A d \in Dispatches : Stage(pc[d], receipts[d], knows[d], cancel[d], jobs[d].state, res[d])
  BY DEF IInv, StagesAgree
<1>2. DOMAIN repo = 1..Len(repo) /\ Len(repo) \in Nat
  BY DEF IInv, Types
<1>3. TypeOK
  <2>1. \A n \in DOMAIN repo : repo[n].kind \in {"other", "reservation", "candidate"} /\ repo[n].on < n
    <3>1. ASSUME NEW n \in DOMAIN repo PROVE repo[n].kind \in {"other", "reservation", "candidate"}
      <4>1. repo[n] \in CommitRec
        BY <1>2 DEF IInv, Types
      <4> QED BY <4>1 DEF CommitRec
    <3> QED BY <1>2, <3>1 DEF IInv, BasesHold
  <2>2. ASSUME NEW d \in Dispatches
        PROVE  /\ manifest[d].run \in Runs \cup {None} /\ res[d] \in 0..Len(repo)
               /\ jobs[d].commit \in 0..Len(repo)
    <3>1. manifest[d].run \in Runs \cup {None}
      BY DEF IInv, Types, Manifests
    <3>2. res[d] \in 0..Len(repo)
      BY <1>2, Places
    <3>3. jobs[d].commit \in 0..Len(repo)
      BY <1>2, Places DEF IInv, PublishedByJob
    <3> QED BY <3>1, <3>2, <3>3
  <2>3. \A d \in Dispatches : knows[d] \in BOOLEAN /\ cancel[d] \in BOOLEAN
    BY Zenon DEF IInv, Types
  <2>4. Len(repo) \in 1..MaxCommits /\ moved \in BOOLEAN
    BY Zenon DEF IInv, Types
  <2> QED BY <2>1, <2>2, <2>3, <2>4, Zenon DEF TypeOK
<1>4. CommitsAreSwapped
  BY <1>2 DEF IInv, BasesHold, CommitsAreSwapped
<1>5. IntentsPrecede
  <2>1. ASSUME NEW n \in DOMAIN repo, repo[n].kind = "reservation"
        PROVE  \E d \in Dispatches : manifest[d].run = repo[n].run /\ "RESERVATION_INTENT" \in receipts[d]
    <3>1. n \in 1..Len(repo) /\ repo[n].run \in Runs /\ Is(repo, n, "reservation", repo[n].run)
      BY <1>2, <2>1 DEF IInv, ReservedOnce, Is
    <3> QED BY <3>1 DEF IInv, ReservedOnce
  <2> QED BY <1>1, <2>1 DEF IntentsPrecede, Stage
<1>6. KnownJobsAreCancelled
  BY <1>1 DEF KnownJobsAreCancelled, Stage
<1>7. SuccessIsVerified
  <2>1. SUFFICES ASSUME NEW d \in Dispatches, pc[d] = "success"
                 PROVE  /\ "CANDIDATE_VERIFIED" \in receipts[d]
                        /\ jobs[d].state = "completed" /\ jobs[d].commit = res[d] + 1
                        /\ Files("candidate", manifest[d].run, Len(repo)) = {res[d] + 1}
    BY DEF SuccessIsVerified
  <2>2. "CANDIDATE_VERIFIED" \in receipts[d] /\ jobs[d].state = "completed" /\ res[d] # 0
    BY <1>1, <2>1 DEF Stage, Submitted
  <2>3. jobs[d].commit = res[d] + 1 /\ Is(repo, res[d] + 1, "candidate", manifest[d].run)
    BY <2>2 DEF IInv, PublishedByJob
  <2>4. manifest[d].run \in Runs
    BY <2>1 DEF IInv, BasesHold
  <2>5. ASSUME NEW n \in Files("candidate", manifest[d].run, Len(repo))
        PROVE  n = res[d] + 1
    <3>1. n \in 1..Len(repo) /\ Is(repo, n, "candidate", manifest[d].run)
      BY DEF Files, Is
    <3>2. PICK e \in Dispatches : manifest[e].run = manifest[d].run /\ res[e] # 0 /\ n = res[e] + 1
      BY <2>4, <3>1 DEF IInv, PublishedByJob
    <3>3. e = d
      BY <2>2, <3>2, OneHolder
    <3> QED BY <3>2, <3>3
  <2>6. res[d] + 1 \in Files("candidate", manifest[d].run, Len(repo))
    BY <2>3 DEF Files, Is
  <2> QED BY <2>2, <2>3, <2>5, <2>6
<1> QED BY <1>3, <1>4, <1>5, <1>6, <1>7 DEF DispatchSound

\* The intents stand before what they announce, commits on the base they name, a
\* job that is known is cancelled, and success means the run's only candidate.
THEOREM DispatchIsSound == Spec => []DispatchSound
<1> QED BY DispatchInvariant, InvariantIsSound, PTL
-----------------------------------------------------------------------------
\* Whether a run has a commit of one kind, a job, a verified candidate.
HasCommit(kind, r) == \E n \in 1..Len(repo) : Is(repo, n, kind, r)
HasJob(r) == \E d \in Dispatches : manifest[d].run = r /\ jobs[d].state # "none"
HasVerdict(r) == \E d \in Dispatches : manifest[d].run = r /\ "CANDIDATE_VERIFIED" \in receipts[d]

\* The same as counts, none or one.
Marks(kind) == [r \in Runs |-> IF HasCommit(kind, r) THEN 1 ELSE 0]
JobMarks == [r \in Runs |-> IF HasJob(r) THEN 1 ELSE 0]
VerdictMarks == [r \in Runs |-> IF HasVerdict(r) THEN 1 ELSE 0]
Marked == <<Marks("reservation"), JobMarks, Marks("candidate"), VerdictMarks>>

\* A set without two different elements has none or one.
LEMMA CountOne ==
  ASSUME NEW S, \A x, y \in S : x = y
  PROVE  Cardinality(S) = IF \E x \in S : TRUE THEN 1 ELSE 0
<1>1. CASE S = {}
  BY <1>1, FS_EmptySet
<1>2. CASE S # {}
  <2>1. PICK x \in S : TRUE
    BY <1>2
  <2>2. S = {x}
    BY <2>1
  <2> QED BY <2>1, <2>2, FS_Singleton
<1> QED BY <1>1, <1>2

\* What the lifecycle counts is none or one.
LEMMA Counted ==
  IInv => <<[r \in Runs |-> Count("reservation", r)], [r \in Runs |-> Cardinality(JobsOf(r))],
            [r \in Runs |-> Count("candidate", r)], [r \in Runs |-> Cardinality(VerifiedOf(r))]>> = Marked
<1> SUFFICES ASSUME IInv, NEW r \in Runs
             PROVE  /\ Count("reservation", r) = IF HasCommit("reservation", r) THEN 1 ELSE 0
                    /\ Cardinality(JobsOf(r)) = IF HasJob(r) THEN 1 ELSE 0
                    /\ Count("candidate", r) = IF HasCommit("candidate", r) THEN 1 ELSE 0
                    /\ Cardinality(VerifiedOf(r)) = IF HasVerdict(r) THEN 1 ELSE 0
  BY DEF Marked, Marks, JobMarks, VerdictMarks
<1>1. Len(repo) \in Nat /\ \A kind, n : n \in Files(kind, r, Len(repo)) <=> Is(repo, n, kind, r)
  BY DEF IInv, Types, Files, Is
<1>2. \A kind : HasCommit(kind, r) <=> \E n \in Files(kind, r, Len(repo)) : TRUE
  BY <1>1 DEF HasCommit, Is
<1>3. \A d \in JobsOf(r) \cup VerifiedOf(r) : d \in Dispatches /\ manifest[d].run = r /\ res[d] # 0
  BY DEF IInv, StagesAgree, Stage, Submitted, JobsOf, VerifiedOf
<1>4. \A d, e \in JobsOf(r) \cup VerifiedOf(r) : d = e
  BY <1>3, OneHolder
<1>5. \A m, n \in Files("reservation", r, Len(repo)) : m = n
  BY <1>1 DEF IInv, ReservedOnce, Is
<1>6. \A m, n \in Files("candidate", r, Len(repo)) : m = n
  <2> SUFFICES ASSUME NEW m \in Files("candidate", r, Len(repo)), NEW n \in Files("candidate", r, Len(repo))
               PROVE  m = n
    OBVIOUS
  <2>1. m \in 1..Len(repo) /\ n \in 1..Len(repo) /\ Is(repo, m, "candidate", r) /\ Is(repo, n, "candidate", r)
    BY <1>1 DEF Is
  <2>2. PICK d \in Dispatches : manifest[d].run = r /\ res[d] # 0 /\ m = res[d] + 1
    BY <2>1 DEF IInv, PublishedByJob
  <2>3. PICK e \in Dispatches : manifest[e].run = r /\ res[e] # 0 /\ n = res[e] + 1
    BY <2>1 DEF IInv, PublishedByJob
  <2> QED BY <2>2, <2>3, OneHolder
<1>7. Count("reservation", r) = IF HasCommit("reservation", r) THEN 1 ELSE 0
  BY <1>2, <1>5, CountOne DEF Count
<1>8. Count("candidate", r) = IF HasCommit("candidate", r) THEN 1 ELSE 0
  BY <1>2, <1>6, CountOne DEF Count
<1>9. Cardinality(JobsOf(r)) = IF HasJob(r) THEN 1 ELSE 0
  BY <1>4, CountOne DEF JobsOf, HasJob
<1>10. Cardinality(VerifiedOf(r)) = IF HasVerdict(r) THEN 1 ELSE 0
  BY <1>4, CountOne DEF VerifiedOf, HasVerdict
<1> QED BY <1>7, <1>8, <1>9, <1>10
-----------------------------------------------------------------------------
\* A count that becomes one.
Once(count, r) == [count EXCEPT ![r] = 1]

\* The steps of the lifecycle over the marks: one run makes one advance, or none does.
Moves ==
  \/ UNCHANGED Marked
  \/ \E r \in Runs :
       \/ /\ Marks("reservation")[r] = 0 /\ Marks("reservation")' = Once(Marks("reservation"), r)
          /\ UNCHANGED <<JobMarks, Marks("candidate"), VerdictMarks>>
       \/ /\ Marks("reservation")[r] = 1 /\ JobMarks[r] = 0 /\ JobMarks' = Once(JobMarks, r)
          /\ UNCHANGED <<Marks("reservation"), Marks("candidate"), VerdictMarks>>
       \/ /\ JobMarks[r] = 1 /\ Marks("candidate")[r] = 0
          /\ Marks("candidate")' = Once(Marks("candidate"), r)
          /\ UNCHANGED <<Marks("reservation"), JobMarks, VerdictMarks>>
       \/ /\ Marks("candidate")[r] = 1 /\ VerdictMarks[r] = 0 /\ VerdictMarks' = Once(VerdictMarks, r)
          /\ UNCHANGED <<Marks("reservation"), JobMarks, Marks("candidate")>>

\* A step that leaves the four facts of every run alone is no advance.
LEMMA Quiet ==
  ASSUME \A r \in Runs : /\ HasCommit("reservation", r)' <=> HasCommit("reservation", r)
                         /\ HasJob(r)' <=> HasJob(r)
                         /\ HasCommit("candidate", r)' <=> HasCommit("candidate", r)
                         /\ HasVerdict(r)' <=> HasVerdict(r)
  PROVE  Moves
BY DEF Moves, Marked, Marks, JobMarks, VerdictMarks

\* So is a step that adds no commit, no job and no verdict.
LEMMA Still ==
  ASSUME IInv, UNCHANGED <<repo, manifest>>,
         \A d \in Dispatches :
           /\ jobs'[d].state # "none" <=> jobs[d].state # "none"
           /\ "CANDIDATE_VERIFIED" \in receipts'[d] <=> "CANDIDATE_VERIFIED" \in receipts[d]
  PROVE  Moves
BY Quiet DEF HasCommit, HasJob, HasVerdict

\* The reservation that is taken is the advance from none.
LEMMA ReserveMoves ==
  ASSUME IInv, NEW d \in Dispatches, Reserve(d) \/ ReserveLost(d)
  PROVE  Moves
<1> DEFINE run == manifest[d].run
           x == [kind |-> "reservation", run |-> run, on |-> manifest[d].parent]
<1>1. UNCHANGED <<jobs, manifest, receipts>> /\ pc[d] = "intended"
  BY DEF Reserve, ReserveLost, Goto, local
<1>2. CASE repo' = repo
  BY <1>1, <1>2, Still
<1>3. CASE repo' # repo
  <2>1. /\ run \in Runs /\ manifest[d].parent \in Nat /\ x \in CommitRec
        /\ x.kind = "reservation" /\ x.run = run
        /\ repo' = Append(repo, x) /\ Len(repo) < MaxCommits /\ Len(repo) = manifest[d].parent
    BY <1>1, <1>3 DEF IInv, Types, Manifests, BasesHold, CommitRec, Takes, Commit, HeadCommit, Reserve, ReserveLost
  <2> GrownBy(x)
    BY <2>1, Grown
  <2> HIDE DEF x
  <2>2. ~HasCommit("reservation", run)
    BY <1>1, <2>1 DEF IInv, BasesHold, HasCommit
  <2>3. \A r \in Runs : /\ HasCommit("reservation", r)' <=> (HasCommit("reservation", r) \/ r = run)
                        /\ HasCommit("candidate", r)' <=> HasCommit("candidate", r)
    BY <2>1 DEF HasCommit, GrownBy
  <2>4. UNCHANGED <<JobMarks, VerdictMarks>>
    BY <1>1 DEF JobMarks, VerdictMarks, HasJob, HasVerdict
  <2>5. UNCHANGED Marks("candidate")
    BY <2>3 DEF Marks
  <2>6. Marks("reservation")[run] = 0 /\ Marks("reservation")' = Once(Marks("reservation"), run)
    BY <2>1, <2>2, <2>3 DEF Marks, Once
  <2> QED BY <2>1, <2>4, <2>5, <2>6 DEF Moves
<1> QED BY <1>2, <1>3

\* A job starts under the reservation its dispatch holds, and is the first.
LEMMA SubmitMoves ==
  ASSUME IInv, NEW d \in Dispatches, Submit(d) \/ SubmitLost(d)
  PROVE  Moves
<1> DEFINE run == manifest[d].run
<1>1. /\ UNCHANGED <<repo, manifest, receipts>> /\ pc[d] = "submitting"
      /\ jobs' = [jobs EXCEPT ![d].state = "queued"] \/ jobs' = jobs
  BY DEF Submit, SubmitLost, Goto, local
<1>2. CASE jobs' = jobs
  BY <1>1, <1>2, Still
<1>3. CASE jobs' # jobs
  <2>1. run \in Runs /\ res[d] # 0 /\ jobs[d].state = "none"
    BY <1>1 DEF IInv, BasesHold, StagesAgree, Stage, Holding
  <2>2. jobs'[d].state = "queued" /\ \A e \in Dispatches \ {d} : jobs'[e] = jobs[e]
    BY <1>1, <1>3 DEF IInv, Types, JobRec
  <2>3. ~HasJob(run)
    BY <2>1, OneHolder DEF HasJob, IInv, StagesAgree, Stage
  <2>4. HasCommit("reservation", run)
    BY <2>1, Places DEF HasCommit, IInv, ReservedOnce
  <2>5. \A r \in Runs : HasJob(r)' <=> (HasJob(r) \/ r = run)
    BY <1>1, <2>1, <2>2 DEF HasJob
  <2>6. UNCHANGED <<Marks("reservation"), Marks("candidate"), VerdictMarks>>
    BY <1>1 DEF Marks, VerdictMarks, HasCommit, HasVerdict
  <2>7. Marks("reservation")[run] = 1 /\ JobMarks[run] = 0 /\ JobMarks' = Once(JobMarks, run)
    BY <2>1, <2>3, <2>4, <2>5 DEF Marks, JobMarks, Once
  <2> QED BY <2>1, <2>6, <2>7 DEF Moves
<1> QED BY <1>2, <1>3

\* A candidate is published by the one job of its run, and is the first.
LEMMA PublishMoves ==
  ASSUME IInv, NEW d \in Dispatches, Publish(d) \/ PublishLost(d)
  PROVE  Moves
<1> DEFINE run == manifest[d].run
           x == [kind |-> "candidate", run |-> run, on |-> res[d]]
<1>1. /\ UNCHANGED <<manifest, receipts>> /\ jobs[d].state = "publishing"
      /\ jobs'[d].state # "none" /\ \A e \in Dispatches \ {d} : jobs'[e] = jobs[e]
  BY DEF IInv, Types, JobRec, Publish, PublishLost, Turn, local
<1>2. res[d] # 0 /\ pc[d] # "idle" /\ run \in Runs
  BY <1>1 DEF IInv, BasesHold, StagesAgree, Stage, Early
<1>3. /\ x \in CommitRec /\ x.kind = "candidate" /\ x.run = run
      /\ repo' = Append(repo, x) /\ Len(repo) < MaxCommits /\ Len(repo) = res[d]
  BY <1>2 DEF IInv, Types, CommitRec, Takes, Commit, HeadCommit, Publish, PublishLost
<1> GrownBy(x)
  BY <1>3, Grown
<1> HIDE DEF x
<1>4. ~HasCommit("candidate", run)
  <2> SUFFICES ASSUME NEW n \in 1..Len(repo), Is(repo, n, "candidate", run) PROVE FALSE
    BY DEF HasCommit
  <2>1. PICK e \in Dispatches : manifest[e].run = run /\ res[e] # 0 /\ n = res[e] + 1
    BY <1>2 DEF IInv, PublishedByJob
  <2>2. e = d
    BY <1>2, <2>1, OneHolder
  <2> QED BY <1>3, <2>1, <2>2 DEF GrownBy
<1>5. HasJob(run)
  BY <1>1 DEF HasJob
<1>6. \A r \in Runs : /\ HasCommit("candidate", r)' <=> (HasCommit("candidate", r) \/ r = run)
                      /\ HasCommit("reservation", r)' <=> HasCommit("reservation", r)
  BY <1>3 DEF HasCommit, GrownBy
<1>7. \A r \in Runs : HasJob(r)' <=> HasJob(r)
  BY <1>1 DEF HasJob
<1>8. UNCHANGED <<Marks("reservation"), JobMarks, VerdictMarks>>
  BY <1>1, <1>6, <1>7 DEF Marks, JobMarks, VerdictMarks, HasVerdict
<1>9. JobMarks[run] = 1 /\ Marks("candidate")[run] = 0 /\ Marks("candidate")' = Once(Marks("candidate"), run)
  BY <1>2, <1>4, <1>5, <1>6 DEF Marks, JobMarks, Once
<1> QED BY <1>2, <1>8, <1>9 DEF Moves

\* A candidate is verified by the one dispatch that holds the run.
LEMMA VerdictMoves ==
  ASSUME IInv, NEW d \in Dispatches, Emit(d, "verified", "CANDIDATE_VERIFIED", "success")
  PROVE  Moves
<1> DEFINE run == manifest[d].run
<1>1. /\ UNCHANGED <<repo, jobs, manifest>> /\ pc[d] = "verified"
      /\ receipts'[d] = receipts[d] \cup {"CANDIDATE_VERIFIED"}
      /\ \A e \in Dispatches \ {d} : receipts'[e] = receipts[e]
  BY DEF IInv, Types, Emit, Goto, remote
<1>2. run \in Runs /\ res[d] # 0 /\ jobs[d].state = "completed" /\ "CANDIDATE_VERIFIED" \notin receipts[d]
  BY <1>1 DEF IInv, BasesHold, StagesAgree, Stage, Submitted
<1>3. HasCommit("candidate", run)
  BY <1>2, Places DEF HasCommit, IInv, PublishedByJob
<1>4. ~HasVerdict(run)
  <2> SUFFICES ASSUME NEW e \in Dispatches, manifest[e].run = run, "CANDIDATE_VERIFIED" \in receipts[e]
               PROVE  FALSE
    BY DEF HasVerdict
  <2>1. res[e] # 0
    BY DEF IInv, StagesAgree, Stage, Submitted
  <2> QED BY <1>2, <2>1, OneHolder
<1>5. \A r \in Runs : HasVerdict(r)' <=> (HasVerdict(r) \/ r = run)
  BY <1>1, <1>2 DEF HasVerdict
<1>6. UNCHANGED <<Marks("reservation"), JobMarks, Marks("candidate")>>
  BY <1>1 DEF Marks, JobMarks, HasCommit, HasJob
<1>7. /\ Marks("candidate")[run] = 1 /\ VerdictMarks[run] = 0
      /\ VerdictMarks' = Once(VerdictMarks, run)
  BY <1>2, <1>3, <1>4, <1>5 DEF Marks, VerdictMarks, Once
<1> QED BY <1>2, <1>6, <1>7 DEF Moves

\* Receipts advance nothing, but the verdict.
LEMMA ReceiptMoves ==
  ASSUME IInv, NEW d \in Dispatches, Receipt(d)
  PROVE  Moves
<1>1. ASSUME NEW at, NEW to, EmitFails(d, at, to) PROVE Moves
  BY <1>1, Still DEF EmitFails, remote, local
<1>2. ASSUME NEW at, NEW to, NEW what \in Names \ {"CANDIDATE_VERIFIED"}, Emit(d, at, what, to) PROVE Moves
  <2>1. UNCHANGED <<repo, jobs, manifest>> /\ receipts' = [receipts EXCEPT ![d] = @ \cup {what}]
    BY <1>2 DEF Emit, remote
  <2>2. \A e \in Dispatches : "CANDIDATE_VERIFIED" \in receipts'[e] <=> "CANDIDATE_VERIFIED" \in receipts[e]
    BY <2>1 DEF IInv, Types
  <2> QED BY <2>1, <2>2, Still
<1>3. /\ {"RESERVATION_INTENT", "RESERVATION_OUTCOME_UNKNOWN", "RESERVED"} \subseteq Names \ {"CANDIDATE_VERIFIED"}
      /\ {"PRE_SUBMISSION_ADMISSION_FAILED", "SUBMISSION_INTENT", "SUBMISSION_OUTCOME_UNKNOWN"}
           \subseteq Names \ {"CANDIDATE_VERIFIED"}
      /\ {"SUBMITTED", "FAILED_OR_UNKNOWN"} \subseteq Names \ {"CANDIDATE_VERIFIED"}
  BY DEF Names
<1> QED BY <1>1, <1>2, <1>3, VerdictMoves DEF Receipt, IntendSubmission, ReportSubmittedFails, ReportVerifiedFails

\* A dispatch that begins has neither a job nor a verdict to bring to its run.
LEMMA BeginMoves ==
  ASSUME IInv, NEW d \in Dispatches, NEW m, Begin(d, m)
  PROVE  Moves
<1>1. UNCHANGED <<repo, jobs, receipts>> /\ pc[d] = "idle" /\ \A e \in Dispatches \ {d} : manifest'[e] = manifest[e]
  BY DEF IInv, Types, Begin, Goto, remote
<1>2. jobs[d].state = "none" /\ "CANDIDATE_VERIFIED" \notin receipts[d]
  BY <1>1 DEF IInv, StagesAgree, Stage, Early
<1>3. \A r \in Runs : /\ HasCommit("reservation", r)' <=> HasCommit("reservation", r)
                      /\ HasCommit("candidate", r)' <=> HasCommit("candidate", r)
                      /\ HasJob(r)' <=> HasJob(r)
                      /\ HasVerdict(r)' <=> HasVerdict(r)
  BY <1>1, <1>2 DEF HasCommit, HasJob, HasVerdict
<1> QED BY <1>3, Quiet

\* A job advances its run when it publishes.
LEMMA JobMoves ==
  ASSUME IInv, NEW d \in Dispatches, Job(d)
  PROVE  Moves
<1>1. CASE ~Publish(d) /\ ~PublishLost(d)
  <2>1. PICK to \in {"training", "publishing", "error", "canceled"} :
          /\ jobs[d].state \in {"queued", "training", "publishing"}
          /\ jobs' = [jobs EXCEPT ![d].state = to] /\ UNCHANGED <<repo, local>>
    BY <1>1 DEF Job, WorkerAdmits, WorkerTrained, WorkerRefuses, PublishRefused, JobFails, JobCancelled,
           Turn, Active
  <2>2. \A e \in Dispatches : jobs'[e].state # "none" <=> jobs[e].state # "none"
    BY <2>1 DEF IInv, Types, JobRec
  <2> QED BY <2>1, <2>2, Still DEF local
<1> QED BY <1>1, PublishMoves

\* A dispatch advances its run when it reserves, submits and verifies.
LEMMA DispatchMoves ==
  ASSUME IInv, NEW d \in Dispatches, Dispatch(d)
  PROVE  Moves
<1>1. CASE UNCHANGED <<remote, local>>
  BY <1>1, Still DEF remote, local
<1>2. CASE Cancel(d)
  <2>1. UNCHANGED <<repo, manifest, receipts>>
    BY <1>2 DEF Cancel
  <2>2. \A e \in Dispatches : jobs'[e].state = jobs[e].state
    <3>1. jobs' = [jobs EXCEPT ![d].cancelled = TRUE] \/ jobs' = jobs
      BY <1>2 DEF Cancel
    <3>2. \A j \in JobRec : [j EXCEPT !.cancelled = TRUE].state = j.state
      BY DEF JobRec
    <3>3. jobs \in [Dispatches -> JobRec]
      BY DEF IInv, Types
    <3> QED BY <3>1, <3>2, <3>3
  <2> QED BY <2>1, <2>2, Still
<1> QED BY <1>1, <1>2, ReceiptMoves, ReserveMoves, SubmitMoves
    DEF Dispatch, ReserveRefused, Admit, AdmitFails, Sees, MonitorFails, Verify, VerifyFails

\* What others write advances no run.
LEMMA OtherMoves ==
  ASSUME IInv, SourceMoves \/ OtherWrites
  PROVE  Moves
<1>1. CASE SourceMoves
  BY <1>1, Still DEF SourceMoves, local
<1>2. CASE OtherWrites
  <2>1. Other \in CommitRec /\ Other.kind = "other"
    BY DEF Other, CommitRec
  <2>2. UNCHANGED <<jobs, manifest, receipts>> /\ repo' = Append(repo, Other) /\ Len(repo) < MaxCommits
    BY <1>2 DEF OtherWrites, local
  <2>3. GrownBy(Other)
    BY <2>1, <2>2, Grown
  <2>4. \A r \in Runs : /\ HasCommit("reservation", r)' <=> HasCommit("reservation", r)
                        /\ HasCommit("candidate", r)' <=> HasCommit("candidate", r)
    BY <2>1, <2>3 DEF HasCommit, GrownBy
  <2>5. \A r \in Runs : (HasJob(r)' <=> HasJob(r)) /\ (HasVerdict(r)' <=> HasVerdict(r))
    BY <2>2 DEF HasJob, HasVerdict
  <2> QED BY <2>4, <2>5, Quiet
<1> QED BY <1>1, <1>2

\* Every step advances one run by one, or none.
LEMMA NextMoves == IInv /\ [Next]_vars => Moves
<1> SUFFICES ASSUME IInv, [Next]_vars PROVE Moves
  OBVIOUS
<1>1. CASE UNCHANGED vars
  BY <1>1, Still DEF vars, remote, local
<1>2. ASSUME NEW d \in Dispatches, Kill(d) PROVE Moves
  BY <1>2, Still DEF Kill, remote, local
<1> QED BY <1>1, <1>2, BeginMoves, DispatchMoves, JobMoves, OtherMoves DEF Next

\* The refinement mapping is the marks.
LEMMA CountedMarks == IInv => Lifecycle!lifecycle = Marked
BY Counted DEF Lifecycle!lifecycle

\* The dispatch implements the lifecycle of a run: reserved, billed, published and
\* verified at most once each, in that order, however often it is dispatched.
THEOREM ImplementsLifecycle == Spec => LifecycleSpec
<1>1. Init /\ IInv => Lifecycle!LifecycleInit
  <2> SUFFICES ASSUME Init, IInv PROVE Lifecycle!LifecycleInit
    OBVIOUS
  <2>1. Len(repo) = 1 /\ repo[1].kind = "other"
    BY DEF Init, Other
  <2>2. \A kind \in {"reservation", "candidate"}, r \in Runs : ~HasCommit(kind, r)
    BY <2>1 DEF HasCommit, Is
  <2>3. \A r \in Runs : ~HasJob(r) /\ ~HasVerdict(r)
    BY DEF Init, HasJob, HasVerdict, NoJob
  <2> QED BY <2>2, <2>3, Counted DEF Lifecycle!LifecycleInit, Lifecycle!Never, Marked, Marks, JobMarks, VerdictMarks
<1>2. IInv' => (Lifecycle!lifecycle = Marked)'
  BY CountedMarks, PTL
<1>3. IInv /\ IInv' /\ [Next]_vars => [Lifecycle!LifecycleNext]_(Lifecycle!lifecycle)
  <2> SUFFICES ASSUME IInv, IInv', [Next]_vars
               PROVE  [Lifecycle!LifecycleNext]_(Lifecycle!lifecycle)
    OBVIOUS
  <2>1. Lifecycle!lifecycle = Marked /\ Lifecycle!lifecycle' = Marked' /\ Moves
    BY <1>2, CountedMarks, NextMoves
  <2> QED BY <2>1 DEF Moves, Marked, Once, Lifecycle!lifecycle, Lifecycle!LifecycleNext, Lifecycle!Reserved,
      Lifecycle!Billed, Lifecycle!Published, Lifecycle!Verified, Lifecycle!Once
<1> QED BY <1>1, <1>3, DispatchInvariant, PTL DEF Spec, LifecycleSpec, Lifecycle!LifecycleSpec
=============================================================================
