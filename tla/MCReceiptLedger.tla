--------------------------- MODULE MCReceiptLedger ---------------------------
(* Two processes over one store, for TLC. *)
EXTENDS ReceiptLedger, TLC

CONSTANTS p1, p2
=============================================================================
