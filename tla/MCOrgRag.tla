------------------------------- MODULE MCOrgRag -------------------------------
(***************************************************************************)
(* The org RAG index in three settings; the first state says which: a      *)
(* server and a cron builder over one database ("generations"), two        *)
(* processes that add vectors to one generation ("vectors"), and a         *)
(* recovery operation that is resumed after crashes beside a builder       *)
(* ("recovery").  What is not of a setting stands still in it.             *)
(***************************************************************************)
EXTENDS RagGenerations, StaleIndexRecovery, TLC

CONSTANTS server, cron, r1, r2, d1, d2
VARIABLE setting

MCServed == r1 :> server @@ r2 :> cron
MCDigests == (Bodies \X (0..2)) \cup {d1, d2}

\* No index; another corpus; an index of the changed source already.
Holding(body) == Published(Stage(EmptyStore, {<<body, 1>>}, {}), 1)
MCStores == {EmptyStore, Holding("other"), Holding("changed")}

Generations == INSTANCE RagGenerations WITH
  MaxGens <- 2, Digests <- {d1}, Faults <- {"revoke", "build", "read"}
Vectors == INSTANCE RagGenerations WITH
  MaxGens <- 1, Digests <- {d1, d2}

processes == <<mem, build, call, crashes>>
operation == <<op, history, caller, clock, deaths>>
mcVars == <<setting, db, processes, operation>>

NoProcesses ==
  /\ mem = [p \in Procs |-> Fresh] /\ build = [p \in Procs |-> NoBuild]
  /\ call = [c \in Calls |-> NoCall] /\ crashes = 0
NoOperation == op = NoOp /\ history = <<>> /\ caller = NoCaller /\ clock = 0 /\ deaths = 0
MCInit ==
  \/ setting = "generations" /\ Generations!Init /\ NoOperation
  \/ setting = "vectors" /\ Vectors!Init /\ NoOperation
  \/ setting = "recovery" /\ RecoveryInit /\ NoProcesses

\* One request thread beside the builders.
GenerationsNext == Generations!Next /\ call'[r2] = NoCall
MCNext ==
  \/ setting = "generations" /\ GenerationsNext /\ UNCHANGED <<setting, operation>>
  \/ setting = "vectors" /\ Vectors!Next /\ UNCHANGED <<setting, operation>>
  \/ setting = "recovery" /\ RecoveryNext /\ UNCHANGED <<setting, processes>>

\* The fairness of the components; nothing is asked of the setting with vectors.
MCSpec ==
  /\ MCInit /\ [][MCNext]_mcVars
  /\ \A p \in Procs :
       WF_mcVars(setting = "generations" /\ Generations!BuildStep(p) /\ UNCHANGED <<setting, operation>>)
  /\ WF_mcVars(setting = "generations" /\ Generations!CallStep(r1) /\ UNCHANGED <<setting, operation>>)
  /\ WF_mcVars(setting = "recovery" /\ Tick /\ UNCHANGED <<setting, processes>>)
  /\ WF_mcVars(setting = "recovery" /\ Step /\ UNCHANGED <<setting, processes>>)
  /\ WF_mcVars(setting = "recovery" /\ (\E a \in Actors : Resume(a)) /\ UNCHANGED <<setting, processes>>)
-----------------------------------------------------------------------------
\* Every request ends and every recovery operation that is resumed settles.
WorkEnds ==
  /\ (setting = "generations" /\ call[r1].pc # "idle") ~>
       (setting # "generations" \/ call[r1].pc = "idle")
  /\ (setting = "recovery" /\ op.status \in {"OPEN", "ISOLATED"}) ~>
       (setting # "recovery" \/ op.status \in Terminal)
=============================================================================
