------------------------- MODULE MCOperatorMutation -------------------------
(* Small deployments of the operator-mutation protocol for TLC. *)
EXTENDS OperatorMutation, TLC

CONSTANTS p1, p2, t1, t2, t3, k1, k2, b1, b2, s1, s2, chain

\* Two processes over one chain, two threads in the first.
TwoProcs == (t1 :> p1) @@ (t2 :> p1) @@ (t3 :> p2)
OneProc == (t1 :> p1) @@ (t2 :> p1)
SharedChain == (p1 :> chain) @@ (p2 :> chain)
=============================================================================
