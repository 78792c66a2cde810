----------------------------- MODULE MCAuditChain -----------------------------
(* Small instances of the audit chain for TLC. *)
EXTENDS AuditChain, TLC

CONSTANTS c1, c2, c3

Symmetry == Permutations(Conns)
=============================================================================
