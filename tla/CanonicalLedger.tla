---------------------------- MODULE CanonicalLedger ----------------------------
(***************************************************************************)
(* The receipt ledger as its users see it: one append-only list for all    *)
(* processes in which an operator mutation is recorded at most once.       *)
(***************************************************************************)
EXTENDS Naturals, Sequences

CONSTANTS NoKey       \* the key of a receipt that is no operator mutation

VARIABLES chain,      \* the recorded receipts, each with a key
          returned    \* the receipts handed to callers

Init == chain = <<>> /\ returned = {}

RecordedKeys == {chain[i].key : i \in DOMAIN chain} \ {NoKey}

Append1 ==
  /\ Len(chain') = Len(chain) + 1
  /\ chain' = Append(chain, chain'[Len(chain) + 1])
  /\ chain'[Len(chain) + 1].key \notin RecordedKeys
  /\ UNCHANGED returned

Hand ==
  /\ \E i \in DOMAIN chain : returned' = returned \cup {chain[i]}
  /\ UNCHANGED chain

Spec == Init /\ [][Append1 \/ Hand]_<<chain, returned>>
=============================================================================
