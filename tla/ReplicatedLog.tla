---------------------------- MODULE ReplicatedLog ----------------------------
(***************************************************************************)
(* What durable replication promises: the receiver secures a copy that     *)
(* only grows and is always a prefix of the sender's log; a sender that    *)
(* loses its disk may lose receipts, but none that was secured.            *)
(***************************************************************************)
EXTENDS Naturals, Sequences

VARIABLES
  log,      \* the receipts of the sender
  secured   \* the receipts the receiver can not lose any more

PrefixOf(s, t) == Len(s) <= Len(t) /\ \A i \in DOMAIN s : s[i] = t[i]

Init == log = <<>> /\ secured = <<>>

Grow == PrefixOf(log, log') /\ UNCHANGED secured
Forget == PrefixOf(log', log) /\ PrefixOf(secured, log') /\ UNCHANGED secured
Secure == PrefixOf(secured, secured') /\ PrefixOf(secured', log) /\ UNCHANGED log

Spec == Init /\ [][Grow \/ Forget \/ Secure]_<<log, secured>>
=============================================================================
