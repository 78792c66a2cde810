---------------------------- MODULE RunLifecycle ----------------------------
(***************************************************************************)
(* What docs and code promise of a training run: it is reserved once,      *)
(* billed at most once and only under its reservation, published at most   *)
(* once and only when billed, and verified only when published.            *)
(***************************************************************************)
EXTENDS Naturals

CONSTANTS Runs

VARIABLES reserved, billed, published, verified

lifecycle == <<reserved, billed, published, verified>>

Never == [r \in Runs |-> 0]
Once(count, r) == [count EXCEPT ![r] = 1]

LifecycleInit == reserved = Never /\ billed = Never /\ published = Never /\ verified = Never

Reserved(r) ==
  /\ reserved[r] = 0
  /\ reserved' = Once(reserved, r)
  /\ UNCHANGED <<billed, published, verified>>

Billed(r) ==
  /\ reserved[r] = 1 /\ billed[r] = 0
  /\ billed' = Once(billed, r)
  /\ UNCHANGED <<reserved, published, verified>>

Published(r) ==
  /\ billed[r] = 1 /\ published[r] = 0
  /\ published' = Once(published, r)
  /\ UNCHANGED <<reserved, billed, verified>>

Verified(r) ==
  /\ published[r] = 1 /\ verified[r] = 0
  /\ verified' = Once(verified, r)
  /\ UNCHANGED <<reserved, billed, published>>

LifecycleNext == \E r \in Runs : Reserved(r) \/ Billed(r) \/ Published(r) \/ Verified(r)

LifecycleSpec == LifecycleInit /\ [][LifecycleNext]_lifecycle
=============================================================================
