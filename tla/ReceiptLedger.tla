----------------------------- MODULE ReceiptLedger -----------------------------
(***************************************************************************)
(* The durable receipt ledger: LedgerRuntime (killinchu_ledger.py) over    *)
(* SQLiteLedgerAdapter (killinchu_ledger_sqlite.py), driven by             *)
(* _emit_receipt (serve.py).  Each process keeps a projection of the       *)
(* stored chain; the ledger lock serialises the emissions of one process,  *)
(* so a process is a single thread of control here, but the adapter calls  *)
(* of different processes interleave: between replaying the store and      *)
(* verifying the replay, and between appending and verifying the append.   *)
(*                                                                         *)
(* A node is its index, the id of its parent (its digest), the mutation    *)
(* key and the material of its receipt.  Digests of different nodes differ *)
(* because a receipt carries its time.                                     *)
(***************************************************************************)
EXTENDS Naturals, Sequences

CONSTANTS
  Servers,       \* server processes over one store
  Keys, NoKey,   \* mutation keys; NoKey for every other kind of receipt
  Materials,     \* receipt payloads
  MaxEmissions,  \* bound on the calls of _emit_receipt
  MaxBreakdowns  \* bound on crashes and failing adapter calls

ASSUME LedgerAssumption ==
  NoKey \notin Keys /\ Materials # {} /\ MaxEmissions \in Nat /\ MaxBreakdowns \in Nat

VARIABLES
  chain,      \* the nodes in the SQLite file
  dag,        \* _KHIPU_DAG, the projection of each process
  ready, due, \* LedgerRuntime._ready; the recovery interval has passed
  pc, then,   \* program counter; where to go after a startup()
  job,        \* the key and material _emit_receipt was called with
  snap,       \* the nodes startup() has replayed and not yet verified
  node,       \* the node _emit_receipt has built
  returned,   \* the nodes handed to callers
  minted, emissions, breakdowns

ledgerVars ==
  <<chain, dag, ready, due, pc, then, job, snap, node, returned, minted, emissions, breakdowns>>
local == <<job, node>>

AllKeys == Keys \cup {NoKey}
Job == [key : AllKeys, material : Materials]
Node == [index : Nat, parent : Nat, id : Nat, key : AllKeys, material : Materials]

HeadId(s) == IF s = <<>> THEN 0 ELSE s[Len(s)].id  \* the digest to extend
Extends(n, s) == n.index = Len(s) /\ n.parent = HeadId(s)

\* _local_integrity: indices are positions, and each node names its predecessor.
LocalIntegrity(s) ==
  \A i \in DOMAIN s : s[i].index = i - 1 /\ s[i].parent = (IF i = 1 THEN 0 ELSE s[i - 1].id)

LedgerInit ==
  /\ chain = <<>>
  /\ dag = [p \in Servers |-> <<>>]
  /\ ready = [p \in Servers |-> FALSE] /\ due = [p \in Servers |-> TRUE]
  /\ pc = [p \in Servers |-> "replay"] /\ then = [p \in Servers |-> "idle"]
  /\ job = [p \in Servers |-> [key |-> NoKey, material |-> CHOOSE m \in Materials : TRUE]]
  /\ snap = [p \in Servers |-> <<>>]
  /\ node = [p \in Servers |-> <<>>]
  /\ returned = {}
  /\ minted = 0 /\ emissions = 0 /\ breakdowns = 0
-----------------------------------------------------------------------------
LedgerFault == breakdowns < MaxBreakdowns /\ breakdowns' = breakdowns + 1
Goto(p, label) == pc' = [pc EXCEPT ![p] = label]

\* _fail: not ready, and no recovery before the interval has passed.
Fail(p) == ready' = [ready EXCEPT ![p] = FALSE] /\ due' = [due EXCEPT ![p] = FALSE]
Startup(p, after) == Goto(p, "replay") /\ then' = [then EXCEPT ![p] = after]

\* _emit_receipt begins with a startup() of the runtime.
Emit(p, j) ==
  /\ pc[p] = "idle" /\ emissions < MaxEmissions
  /\ emissions' = emissions + 1
  /\ job' = [job EXCEPT ![p] = j]
  /\ Startup(p, "scan")
  /\ UNCHANGED <<chain, dag, ready, due, snap, node, returned, minted, breakdowns>>

\* startup(): replay the store ...
Replay(p) ==
  /\ pc[p] = "replay"
  /\ snap' = [snap EXCEPT ![p] = chain]
  /\ due' = [due EXCEPT ![p] = FALSE]
  /\ Goto(p, "verify")
  /\ UNCHANGED <<chain, dag, ready, then, local, returned, minted, emissions, breakdowns>>

\* ... and verify the replay against the store, which may have grown since.
VerifyReplay(p) ==
  /\ pc[p] = "verify"
  /\ \/ /\ LocalIntegrity(snap[p]) /\ snap[p] = chain
        /\ dag' = [dag EXCEPT ![p] = snap[p]]
        /\ ready' = [ready EXCEPT ![p] = TRUE] /\ due' = [due EXCEPT ![p] = TRUE]
     \/ /\ ~(LocalIntegrity(snap[p]) /\ snap[p] = chain)
        /\ Fail(p) /\ UNCHANGED dag
  /\ snap' = [snap EXCEPT ![p] = <<>>]
  /\ Goto(p, then[p])
  /\ UNCHANGED <<chain, then, local, returned, minted, emissions, breakdowns>>

\* An adapter call raises; the last one, the probe that ends startup(), comes
\* after the projection was replaced.
StartupFails(p) ==
  /\ pc[p] \in {"replay", "verify"} /\ LedgerFault
  /\ \/ UNCHANGED dag
     \/ pc[p] = "verify" /\ snap[p] = chain /\ dag' = [dag EXCEPT ![p] = snap[p]]
  /\ Fail(p)
  /\ snap' = [snap EXCEPT ![p] = <<>>]
  /\ Goto(p, then[p])
  /\ UNCHANGED <<chain, then, local, returned, minted, emissions>>

\* The projection, replayed or stale, already holds the mutation: hand out the
\* same node, or refuse the key when the material differs.
Matches(p) == {i \in DOMAIN dag[p] : job[p].key # NoKey /\ dag[p][i].key = job[p].key}

ReturnExisting(p) ==
  /\ pc[p] = "scan"
  /\ \E i \in Matches(p) :
       /\ dag[p][i].material = job[p].material
       /\ returned' = returned \cup {dag[p][i]}
  /\ Goto(p, "idle")
  /\ UNCHANGED <<chain, dag, ready, due, then, local, snap, minted, emissions, breakdowns>>

RefuseMaterial(p) ==
  /\ pc[p] = "scan"
  /\ \E i \in Matches(p) : dag[p][i].material # job[p].material
  /\ Goto(p, "idle")
  /\ UNCHANGED <<chain, dag, ready, due, then, local, snap, returned, minted, emissions, breakdowns>>

\* Mutant: a node is built although the mutation is recorded.
BuildNodeAgain(p) ==
  /\ pc[p] = "scan"
  /\ minted' = minted + 1
  /\ node' = [node EXCEPT ![p] =
       [index |-> Len(dag[p]), parent |-> HeadId(dag[p]), id |-> minted + 1,
        key |-> job[p].key, material |-> job[p].material]]
  /\ Goto(p, "admit")
  /\ UNCHANGED <<chain, dag, ready, due, then, job, snap, returned, emissions, breakdowns>>

BuildNode(p) ==
  /\ pc[p] = "scan" /\ Matches(p) = {}
  /\ minted' = minted + 1
  /\ node' = [node EXCEPT ![p] =
       [index |-> Len(dag[p]), parent |-> HeadId(dag[p]), id |-> minted + 1,
        key |-> job[p].key, material |-> job[p].material]]
  /\ Goto(p, "admit")
  /\ UNCHANGED <<chain, dag, ready, due, then, job, snap, returned, emissions, breakdowns>>

\* append(): readiness() may first recover, which replaces the projection the
\* node was built on.
RecoverInAppend(p) ==
  /\ pc[p] = "admit" /\ ~ready[p] /\ due[p]
  /\ Startup(p, "admit")
  /\ UNCHANGED <<chain, dag, ready, due, local, snap, returned, minted, emissions, breakdowns>>

\* Not ready, or the candidate does not extend the projection.
RejectCandidate(p) ==
  /\ pc[p] = "admit"
  /\ \/ ~ready[p] /\ ~due[p] /\ UNCHANGED <<ready, due>>
     \/ ready[p] /\ ~Extends(node[p], dag[p]) /\ Fail(p)
  /\ Goto(p, "idle")
  /\ node' = [node EXCEPT ![p] = <<>>]
  /\ UNCHANGED <<chain, dag, then, job, snap, returned, minted, emissions, breakdowns>>

\* Mutant: the projection shows the node before the store has it.
AdmitExposes(p) ==
  /\ pc[p] = "admit" /\ ready[p] /\ Extends(node[p], dag[p])
  /\ dag' = [dag EXCEPT ![p] = Append(@, node[p])]
  /\ Goto(p, "store")
  /\ UNCHANGED <<chain, ready, due, then, local, snap, returned, minted, emissions, breakdowns>>

Admit(p) ==
  /\ pc[p] = "admit" /\ ready[p] /\ Extends(node[p], dag[p])
  /\ Goto(p, "store")
  /\ UNCHANGED <<chain, dag, ready, due, then, local, snap, returned, minted, emissions, breakdowns>>

\* Mutants: an append without the head check; one that moves the node to the head.
StoreUnchecked(p) ==
  /\ pc[p] = "store"
  /\ chain' = Append(chain, node[p])
  /\ Goto(p, "confirm")
  /\ UNCHANGED <<dag, ready, due, then, local, snap, returned, minted, emissions, breakdowns>>
StoreRebased(p) ==
  /\ pc[p] = "store"
  /\ chain' = Append(chain, [node[p] EXCEPT !.index = Len(chain), !.parent = HeadId(chain)])
  /\ Goto(p, "confirm")
  /\ UNCHANGED <<dag, ready, due, then, local, snap, returned, minted, emissions, breakdowns>>

\* SQLiteLedgerAdapter.append: one transaction, refused unless the node extends
\* the stored head.
Store(p) ==
  /\ pc[p] = "store" /\ Extends(node[p], chain)
  /\ chain' = Append(chain, node[p])
  /\ Goto(p, "confirm")
  /\ UNCHANGED <<dag, ready, due, then, local, snap, returned, minted, emissions, breakdowns>>

\* Mutant: a refused node is returned to the caller.
StoreRefusesQuietly(p) ==
  /\ pc[p] = "store" /\ ~Extends(node[p], chain)
  /\ Fail(p) /\ Goto(p, "idle")
  /\ returned' = returned \cup {node[p]}
  /\ node' = [node EXCEPT ![p] = <<>>]
  /\ UNCHANGED <<chain, dag, then, job, snap, minted, emissions, breakdowns>>

StoreRefuses(p) ==
  /\ pc[p] = "store" /\ ~Extends(node[p], chain)
  /\ Fail(p) /\ Goto(p, "idle")
  /\ node' = [node EXCEPT ![p] = <<>>]
  /\ UNCHANGED <<chain, dag, then, job, snap, returned, minted, emissions, breakdowns>>

\* verify_integrity(candidate) after the append: the store must hold exactly the
\* projection and the new node; only then does the projection show the node.
Confirm(p) ==
  /\ pc[p] = "confirm"
  /\ \/ /\ chain = Append(dag[p], node[p])
        /\ dag' = [dag EXCEPT ![p] = Append(@, node[p])]
        /\ returned' = returned \cup {node[p]}
        /\ UNCHANGED <<ready, due>>
     \/ /\ chain # Append(dag[p], node[p])
        /\ Fail(p) /\ UNCHANGED <<dag, returned>>
  /\ Goto(p, "idle")
  /\ node' = [node EXCEPT ![p] = <<>>]
  /\ UNCHANGED <<chain, then, job, snap, minted, emissions, breakdowns>>

\* The readiness probe, the append (before or after its commit) or the
\* verification raises.
AppendFails(p) ==
  /\ pc[p] \in {"admit", "store", "confirm"} /\ LedgerFault
  /\ \/ UNCHANGED chain
     \/ pc[p] = "store" /\ Extends(node[p], chain) /\ chain' = Append(chain, node[p])
  /\ Fail(p) /\ Goto(p, "idle")
  /\ node' = [node EXCEPT ![p] = <<>>]
  /\ UNCHANGED <<dag, then, job, snap, returned, minted, emissions>>

\* Mutant: only a process that never had a projection recovers.
RecoverEmpty(p) ==
  /\ pc[p] = "idle" /\ ~ready[p] /\ due[p] /\ dag[p] = <<>>
  /\ Startup(p, "idle")
  /\ UNCHANGED <<chain, dag, ready, due, local, snap, returned, minted, emissions, breakdowns>>

\* readiness() outside an emission: recover when the interval has passed; a
\* failing probe of a ready ledger requires a new replay.
Recover(p) ==
  /\ pc[p] = "idle" /\ ~ready[p] /\ due[p]
  /\ Startup(p, "idle")
  /\ UNCHANGED <<chain, dag, ready, due, local, snap, returned, minted, emissions, breakdowns>>

ProbeFails(p) ==
  /\ pc[p] = "idle" /\ ready[p] /\ LedgerFault
  /\ Fail(p)
  /\ UNCHANGED <<chain, dag, pc, then, local, snap, returned, minted, emissions>>

\* recovery_interval_s passes (never between the two readiness tests of one append).
IntervalPasses(p) ==
  /\ pc[p] \in {"idle", "scan"} /\ ~due[p]
  /\ due' = [due EXCEPT ![p] = TRUE]
  /\ UNCHANGED <<chain, dag, ready, pc, then, local, snap, returned, minted, emissions, breakdowns>>

\* The process dies and starts again, with an empty projection and a startup().
CrashAndRestart(p) ==
  /\ LedgerFault
  /\ dag' = [dag EXCEPT ![p] = <<>>]
  /\ ready' = [ready EXCEPT ![p] = FALSE] /\ due' = [due EXCEPT ![p] = TRUE]
  /\ snap' = [snap EXCEPT ![p] = <<>>]
  /\ node' = [node EXCEPT ![p] = <<>>]
  /\ Startup(p, "idle")
  /\ UNCHANGED <<chain, job, returned, minted, emissions>>

Step(p) ==
  \/ Replay(p) \/ VerifyReplay(p)
  \/ ReturnExisting(p) \/ RefuseMaterial(p) \/ BuildNode(p)
  \/ RecoverInAppend(p) \/ RejectCandidate(p) \/ Admit(p)
  \/ Store(p) \/ StoreRefuses(p) \/ Confirm(p)
Failure(p) == StartupFails(p) \/ AppendFails(p) \/ ProbeFails(p) \/ CrashAndRestart(p)

LedgerNext == \E p \in Servers :
  Step(p) \/ Failure(p) \/ Recover(p) \/ IntervalPasses(p) \/ \E j \in Job : Emit(p, j)

LedgerSpec == LedgerInit /\ [][LedgerNext]_ledgerVars

\* The code of a process runs on, time passes, and a health probe comes again.
FairLedgerSpec == LedgerSpec /\ \A p \in Servers :
  WF_ledgerVars(Step(p)) /\ WF_ledgerVars(Recover(p)) /\ WF_ledgerVars(IntervalPasses(p))
-----------------------------------------------------------------------------
LedgerTypeOK ==
  /\ chain \in Seq(Node)
  /\ dag \in [Servers -> Seq(Node)] /\ snap \in [Servers -> Seq(Node)]
  /\ ready \in [Servers -> BOOLEAN] /\ due \in [Servers -> BOOLEAN]
  /\ pc \in [Servers -> {"idle", "replay", "verify", "scan", "admit", "store", "confirm"}]
  /\ then \in [Servers -> {"idle", "scan", "admit"}]
  /\ job \in [Servers -> Job]
  /\ node \in [Servers -> Node \cup {<<>>}]
  /\ returned \subseteq Node
  /\ minted \in Nat /\ emissions \in Nat /\ breakdowns \in Nat

\* The stored chain always verifies, although several processes append to it
\* from projections that may be stale.
ChainIntegrity == LocalIntegrity(chain)

\* An operator mutation is recorded at most once in the store, with stale
\* projections, lost answers, restarts and concurrent emitters: a process
\* that has not seen the recorded node cannot extend the stored head.
OneReceiptPerMutation ==
  \A i, j \in DOMAIN chain : chain[i].key # NoKey /\ chain[i].key = chain[j].key => i = j

\* "Append through the selected store before exposing the in-memory projection":
\* a process never shows a node the store does not have, in the same place.
Begins(s, t) == Len(s) <= Len(t) /\ \A i \in DOMAIN s : s[i] = t[i]
ProjectionIsStored == \A p \in Servers : Begins(dag[p], chain)

\* What an emission returned is in the store, for ever.
ReturnedIsStored == \A n \in returned : \E i \in DOMAIN chain : chain[i] = n

\* The store verifies, no projection runs ahead of it or away from it, and
\* what was returned stays in it.
LedgerSound == LedgerTypeOK /\ ChainIntegrity /\ ProjectionIsStored /\ ReturnedIsStored

\* The store and the answers of all processes behave as one append-only list
\* that records a mutation once.
Receipts == INSTANCE CanonicalLedger
ReceiptsSpec == Receipts!Spec

\* When the breakdowns and the emissions are over, every process becomes ready
\* again with the whole chain: recovery does not get stuck in its interval.
Recovers == \A p \in Servers : ~ready[p] ~> ready[p]
=============================================================================
