---------------------------- MODULE DefendPlaneV2 ----------------------------
(***************************************************************************)
(* The second composition root of the defend plane (app/defend/            *)
(* wiring_v2.py): agents, schemas and conflict detection in front of the   *)
(* effector guard.  The audit chain is durable, all else is in memory.     *)
(* The approval is an argument of the request.                             *)
(***************************************************************************)
EXTENDS EffectorGuard

CONSTANTS
  ValidBodies,    \* the bodies a bound schema accepts
  ConflictWindow

VARIABLES
  agents,  \* registered agents
  bound,   \* scopes with a schema
  recent,  \* the last action on each scope
  frozen   \* scopes under a truce

vars == <<guardVars, agents, bound, recent, frozen>>

\* "nobody" does nothing.
ASSUME PlaneAssumption == GuardAssumption /\ "nobody" \notin Agents /\ ConflictWindow \in Nat

NoAction == [agent |-> "nobody", at |-> 0]

Init ==
  /\ GuardInit
  /\ agents = {} /\ bound = {} /\ frozen = {}
  /\ recent = [s \in Scopes |-> NoAction]

Register(a) ==
  /\ call = NoCall /\ a \notin agents
  /\ agents' = agents \cup {a}
  /\ Log(<<E("registered", a, Global)>>)
  /\ UNCHANGED <<now, scopes, killed, hits, keys, call, effects, calls, acts, bound, recent, frozen>>

Bind(s) ==
  /\ Operator1
  /\ bound' = bound \cup {s}
  /\ Log(<<E("registered", "operator", s)>>)
  /\ UNCHANGED <<now, scopes, killed, hits, keys, call, effects, calls, agents, recent, frozen>>

\* With an authorization, as for the kill switch.
ResolveTruce(s) ==
  /\ Operator1
  /\ frozen' = frozen \ {s}
  /\ recent' = [recent EXCEPT ![s] = NoAction]
  /\ Log(<<E("resolved", "operator", s)>>)
  /\ UNCHANGED <<now, scopes, killed, hits, keys, call, effects, calls, agents, bound>>
-----------------------------------------------------------------------------
(* handle_effector_request *)

Steady == UNCHANGED <<now, scopes, killed, effects, acts, agents, bound>>

HandleUnregistered(a, s) ==
  /\ Called /\ a \notin agents
  /\ Log(<<E("denied", a, s)>>)
  /\ Steady /\ UNCHANGED <<hits, keys, call, recent, frozen>>

Accepts(s, b) == s \in bound => b \in ValidBodies

HandleRejected(a, s, b) ==
  /\ Called /\ a \in agents /\ ~Accepts(s, b)
  /\ Log(<<E("rejected", "operator", s), E("denied", a, s)>>)
  /\ Steady /\ UNCHANGED <<hits, keys, call, recent, frozen>>

HandleFrozen(a, s, b) ==
  /\ Called /\ a \in agents /\ Accepts(s, b) /\ s \in frozen
  /\ Log(<<E("denied", a, s)>>)
  /\ Steady /\ UNCHANGED <<hits, keys, call, recent, frozen>>

\* Mutant: the last moment of the window is outside it.
ConflictsInside(a, s) ==
  recent[s] # NoAction /\ recent[s].agent # a /\ now - recent[s].at < ConflictWindow

\* Another agent has acted on the scope inside the window.
Conflicts(a, s) ==
  recent[s] # NoAction /\ recent[s].agent # a /\ now - recent[s].at <= ConflictWindow

\* Mutant: the second agent is denied, and no scope is frozen.
HandleConflictOnce(a, s, b) ==
  /\ Called /\ a \in agents /\ Accepts(s, b) /\ s \notin frozen /\ Conflicts(a, s)
  /\ Log(<<E("truce", a, s), E("denied", a, s)>>)
  /\ Steady /\ UNCHANGED <<hits, keys, call, recent, frozen>>

HandleConflict(a, s, b) ==
  /\ Called /\ a \in agents /\ Accepts(s, b) /\ s \notin frozen /\ Conflicts(a, s)
  /\ frozen' = frozen \cup {s}
  /\ Log(<<E("truce", a, s), E("denied", a, s)>>)
  /\ Steady /\ UNCHANGED <<hits, keys, call, recent>>

Stands(a, s, b) == a \in agents /\ Accepts(s, b) /\ s \notin frozen /\ ~Conflicts(a, s)
Acts(a, s) == recent' = [recent EXCEPT ![s] = [agent |-> a, at |-> now]]

\* The action is recorded although the kill switch denies it.
HandleHalted(a, s, b) ==
  /\ Called /\ Stands(a, s, b) /\ Acts(a, s) /\ Halted(s)
  /\ Log(<<E("denied", a, s)>>)
  /\ Steady /\ UNCHANGED <<hits, keys, call, frozen>>

HandleGuarded(a, s, k, b, at) ==
  /\ Called /\ Stands(a, s, b) /\ Acts(a, s) /\ ~Halted(s)
  /\ Execute(a, s, k, b, at)
  /\ Steady /\ UNCHANGED frozen

\* The process dies and is assembled anew on its chain.
Restart ==
  /\ Fault("crash")
  /\ scopes' = {} /\ killed' = {} /\ hits' = [a \in Agents |-> {}]
  /\ keys' = [k \in Keys |-> NoKey] /\ call' = NoCall
  /\ agents' = {} /\ bound' = {} /\ frozen' = {} /\ recent' = [s \in Scopes |-> NoAction]
  /\ UNCHANGED <<now, chain, effects, calls, acts>>

Next ==
  \/ GuardStep /\ UNCHANGED <<agents, bound, recent, frozen>>
  \/ \E a \in Agents : Register(a)
  \/ \E s \in Scopes : Bind(s) \/ ResolveTruce(s)
  \/ \E a \in Agents, s \in Scopes :
       \/ HandleUnregistered(a, s)
       \/ \E b \in Bodies :
            \/ HandleRejected(a, s, b) \/ HandleFrozen(a, s, b) \/ HandleConflict(a, s, b)
            \/ HandleHalted(a, s, b)
            \/ \E k \in Keys, at \in 0..now \cup {Never} : HandleGuarded(a, s, k, b, at)
  \/ Restart

Spec == Init /\ [][Next]_vars
-----------------------------------------------------------------------------
\* The type invariant.
TypeOK ==
  /\ agents \subseteq Agents /\ bound \subseteq Scopes /\ frozen \subseteq Scopes
  /\ recent \in [Scopes -> [agent : Agents \cup {"nobody"}, at : Nat]]

\* Effects of two agents on one scope are further apart than the conflict
\* window, or a human resolved a truce between them.
TruceSeparates == \A j \in DOMAIN effects, i \in DOMAIN effects :
  i < j /\ effects[i].scope = effects[j].scope /\ effects[i].agent # effects[j].agent
    => \/ effects[j].at - effects[i].at > ConflictWindow
       \/ \E n \in effects[i].pos + 1 .. effects[j].pos :
            chain[n].type = "resolved" /\ chain[n].scope = effects[i].scope

\* "The scope is frozen for agents until a human resolves it": nothing takes
\* effect on a scope between its TRUCE and its TRUCE_RESOLVED event.
TruceHolds == \A i \in DOMAIN effects : \A n \in 1..effects[i].pos :
  chain[n].type = "truce" /\ chain[n].scope = effects[i].scope
    => \E m \in n..effects[i].pos : chain[m].type = "resolved" /\ chain[m].scope = effects[i].scope

\* Kill switch and truces stop effects until a crash, which forgets both, or a
\* failing chain, which leaves them without the event that tells so.
StopsHold == TypeOK /\ KillHolds /\ (Intact => TruceSeparates /\ TruceHolds)
=============================================================================
