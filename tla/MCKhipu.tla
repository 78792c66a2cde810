------------------------------- MODULE MCKhipu -------------------------------
(***************************************************************************)
(* The two ways a Khipu receipt reaches another organ: delivery in batches *)
(* (also next to receipts posted one by one, one of them unfit) and the    *)
(* replication loop.  They share no state: the first state says which of   *)
(* them a behaviour is about, and the others do not move.                  *)
(***************************************************************************)
EXTENDS KhipuDelivery, Replicator

CONSTANTS a, b, u, t1, t2, c1

VARIABLE way

Batches == INSTANCE KhipuDelivery WITH Bodies <- {a, b}, Unfit <- {}, DirectPosts <- FALSE
Posts == INSTANCE KhipuDelivery WITH Bodies <- {a, u}, MaxFaults <- 2

TwoPeers == <<"peer_1", "peer_2">>

khipuVars == <<way, vars, loopVars>>

KhipuInit == way \in {"batches", "posts", "loop"} /\ Init /\ LoopInit

KhipuNext ==
  \/ way = "batches" /\ Batches!Next /\ UNCHANGED <<way, loopVars>>
  \/ way = "posts" /\ Posts!Next /\ UNCHANGED <<way, loopVars>>
  \/ way = "loop" /\ LoopNext /\ UNCHANGED <<way, vars>>

\* The operator dispatches again and again and both sites run on; the loop
\* wakes again and again, a request has a time limit, and the peers do not
\* refuse the sender's token for ever.
KhipuFairness ==
  /\ WF_khipuVars(way = "batches" /\ Batches!Dispatch /\ UNCHANGED <<way, loopVars>>)
  /\ WF_khipuVars(way = "batches" /\ Batches!Receive /\ UNCHANGED <<way, loopVars>>)
  /\ WF_khipuVars(way = "loop" /\ Pushing /\ UNCHANGED <<way, vars>>)
  /\ SF_khipuVars(way = "loop" /\ Acknowledged /\ UNCHANGED <<way, vars>>)
  /\ \A t \in {t1, t2} : WF_khipuVars(way = "loop" /\ Begin(t) /\ UNCHANGED <<way, vars>>)

KhipuSpec == KhipuInit /\ [][KhipuNext]_khipuVars /\ KhipuFairness
-----------------------------------------------------------------------------
\* Both ways bring every receipt over once faults are over and nothing pauses
\* them: without single posts the receiver accepts whatever batch is next.
ReceiptsArrive ==
  /\ way = "batches" => AllDelivered /\ []Batches!CanContinue
  /\ ReceiptsReachPeers
=============================================================================
