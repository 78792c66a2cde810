------------------------------ MODULE MCHFBucket ------------------------------
(* Three settings of the bucket for TLC: two processes with a queue each,    *)
(* two processes over one queue, and the same while one of them is read.     *)
EXTENDS HFBucket, TLC

CONSTANTS p1, p2, q1, q2, i1, i2
VARIABLE setting
mcVars == <<bucketVars, setting>>

OwnQueues == p1 :> q1 @@ p2 :> q2
SharedQueue == p1 :> q1 @@ p2 :> q1
Shared == INSTANCE HFBucket WITH QueueOf <- SharedQueue, MaxFailures <- 1
Read == INSTANCE HFBucket WITH QueueOf <- SharedQueue, MaxFailures <- 1,
                               MaxAppends <- 1, MaxReadAlls <- 1

MCInit == BucketInit /\ setting \in {"own", "shared", "read"}
OwnNext == setting = "own" /\ BucketNext /\ UNCHANGED setting
SharedNext == setting = "shared" /\ Shared!BucketNext /\ UNCHANGED setting
ReadNext == setting = "read" /\ Read!BucketNext /\ UNCHANGED setting
MCNext == OwnNext \/ SharedNext \/ ReadNext

MCSpec ==
  /\ MCInit /\ [][MCNext]_mcVars
  /\ \A p \in Procs :
       /\ WF_mcVars(setting = "own" /\ FlushStep(p) /\ UNCHANGED setting)
       /\ WF_mcVars(setting = "shared" /\ Shared!FlushStep(p) /\ UNCHANGED setting)
       /\ WF_mcVars(setting = "read" /\ Read!FlushStep(p) /\ UNCHANGED setting)
=============================================================================
