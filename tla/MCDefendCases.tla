---------------------------- MODULE MCDefendCases ----------------------------
(* Instances of DefendCases and of the passive reads of its store for TLC,   *)
(* in three settings: an event and an inspection served by one process, two  *)
(* processes that race for the inspection, and readers beside writers.       *)
EXTENDS DefendCases, PassiveRead

CONSTANTS e1, i1, b1, b2, ana, cruz, dee, p1, p2
VARIABLE setting

mcVars == <<setting, vars, passiveVars>>

\* Ana asks with the first body; Dee, who may also approve, with the second.
MCRequester == [b \in {b1, b2} |-> IF b = b1 THEN ana ELSE dee]
TwoScopes == [k \in {e1, i1} |-> IF k = e1 THEN "s1" ELSE "s2"]

MCInit == Init /\ PassiveInit /\ setting \in {"one process", "race", "reads"}
OneProcess == setting = "one process" /\ Next /\ proc'[p2] = Idle
Race == setting = "race" /\ Next /\ item'[e1] = None /\ Len(receipts') < MaxReceipts
Cases == (OneProcess \/ Race) /\ UNCHANGED <<setting, passiveVars>>
Reads == setting = "reads" /\ PassiveNext /\ UNCHANGED <<setting, vars>>
MCNext == Cases \/ Reads
MCSpec == MCInit /\ [][MCNext]_mcVars
=============================================================================
