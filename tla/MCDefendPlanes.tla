---------------------------- MODULE MCDefendPlanes ----------------------------
(***************************************************************************)
(* The two composition roots of the defend plane.  An application          *)
(* assembles one of them on the guard they share, so in a behaviour the    *)
(* other does not move.  The first state chooses the setting: the first    *)
(* root ("approvals"); the second with two agents ("truce"), with two      *)
(* bodies under one key ("keys") and with crashes and a failing chain      *)
(* ("faults").                                                             *)
(***************************************************************************)
EXTENDS DefendPlane, DefendPlaneV2, TLC

CONSTANTS a1, a2, s1, s2, k1, k2, b1, b2, r1, h1, h2, h3

VARIABLE setting

Approvals == INSTANCE DefendPlane WITH
  Bodies <- {b1}, MaxCalls <- 1, MaxEvents <- 4, Faults <- {"effector", "store"}, MaxFaults <- 1

TwoAgents == INSTANCE DefendPlaneV2 WITH
  Bodies <- {b1}, MaxCalls <- 3, MaxEvents <- 1, Faults <- {}, MaxFaults <- 0

OneAgent == INSTANCE DefendPlaneV2 WITH
  MaxCalls <- 3, MaxEvents <- 2, Faults <- {"effector", "store"}, MaxFaults <- 1

Crashing == INSTANCE DefendPlaneV2 WITH
  Bodies <- {b1}, MaxTime <- 1, MaxCalls <- 2, MaxEvents <- 1, MaxFaults <- 2

\* In a setting, agents As act on scopes Ss under keys Ks.
Only(As, Ss, Ks) ==
  /\ scopes' \subseteq Ss
  /\ \A a \in Agents \ As : hits'[a] = {}
  /\ \A k \in Keys \ Ks : keys'[k] = NoKey
  /\ call' # NoCall => call'.key \in Ks
  /\ \A n \in Len(chain) + 1 .. Len(chain') :
       chain'[n].agent \in As \cup {"operator"} /\ chain'[n].scope \in Ss \cup {Global}

first == <<requests, grounds>>
second == <<agents, bound, recent, frozen>>
planeVars == <<setting, guardVars, first, second>>

PlaneInit == setting \in {"approvals", "truce", "keys", "faults"} /\ ApprovalInit /\ Init

PlaneNext ==
  \/ setting = "approvals" /\ Approvals!ApprovalNext /\ Only({a1}, {s1, s2}, {k1}) /\ UNCHANGED <<setting, second>>
  \/ setting = "truce" /\ TwoAgents!Next /\ Only({a1, a2}, {s1}, {k1, k2}) /\ UNCHANGED <<setting, first>>
  \/ setting = "keys" /\ OneAgent!Next /\ Only({a1}, {s1}, {k1}) /\ UNCHANGED <<setting, first>>
  \/ setting = "faults" /\ Crashing!Next /\ Only({a1}, {s1}, {k1}) /\ UNCHANGED <<setting, first>>

PlaneSpec == PlaneInit /\ [][PlaneNext]_planeVars

Symmetry == Permutations({h1, h2, h3})
=============================================================================
