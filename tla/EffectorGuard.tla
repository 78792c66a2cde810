---------------------------- MODULE EffectorGuard ----------------------------
(***************************************************************************)
(* What both composition roots of the defend plane share (app/defend):     *)
(* scope registry, kill switch, effector guard, idempotency store and      *)
(* audit chain.  A root's handler runs in one thread, from its checks      *)
(* through the effector to the audit event.                                *)
(*                                                                         *)
(* Every state change precedes the event that records it.  The chain is    *)
(* the event list AuditChain provides; Faults names what may fail.         *)
(***************************************************************************)
EXTENDS Naturals, Sequences, FiniteSets, Functions

CONSTANTS
  Agents, Scopes, Keys, Bodies,
  ApprovalTTL, KeyTTL, Minute, RateLimit,
  MaxTime,    \* bound on the clock
  MaxCalls,   \* bound on the requests
  MaxEvents,  \* bound on the operator's actions
  Faults,     \* the kinds of fault that may happen
  MaxFaults

VARIABLES
  now,
  chain,    \* the audit events
  scopes,   \* the registered scopes
  killed,   \* the engaged kill switches: scopes and Global
  hits,     \* the recent requests of each principal: their times and numbers
  keys,     \* table idempotency_keys
  call,     \* the request that has passed the checks
  effects,  \* what effectors have done, with the length of the chain then
  calls, acts,
  faults    \* the kinds of fault that have happened, in order

\* The principals, bodies and scopes are none of the names the code reserves.
GuardAssumption ==
  /\ "operator" \notin Agents /\ "none" \notin Bodies /\ "global" \notin Scopes
  /\ {ApprovalTTL, KeyTTL, RateLimit, MaxTime, MaxCalls, MaxEvents, MaxFaults} \subseteq Nat
  /\ Minute \in Nat \ {0}

guardVars == <<now, chain, scopes, killed, hits, keys, call, effects, calls, acts, faults>>

Global == "global"
NoCall == [pc |-> "idle"]
NoKey == [body |-> "none", at |-> 0]
Never == MaxTime + 1  \* the time of an approval that is not given

Event == [type : {"allowed", "denied", "engaged", "disengaged", "truce", "resolved",
                  "rejected", "registered"},
          agent : Agents \cup {"operator"}, scope : Scopes \cup {Global}]
E(t, a, s) == [type |-> t, agent |-> a, scope |-> s]

GuardInit ==
  /\ now = 0 /\ chain = <<>> /\ scopes = {} /\ killed = {}
  /\ hits = [a \in Agents |-> {}] /\ keys = [k \in Keys |-> NoKey]
  /\ call = NoCall /\ effects = <<>>
  /\ calls = 0 /\ acts = 0 /\ faults = <<>>

Fault(kind) == kind \in Faults /\ Len(faults) < MaxFaults /\ faults' = Append(faults, kind)
Failed == Range(faults)
Operator1 == call = NoCall /\ acts < MaxEvents /\ acts' = acts + 1
Called == call = NoCall /\ calls < MaxCalls /\ calls' = calls + 1

\* The events are appended one by one; a failing append raises.
Log(es) ==
  \/ chain' = chain \o es /\ UNCHANGED faults
  \/ /\ Fault("chain")
     /\ \E n \in 0 .. Len(es) - 1 : chain' = chain \o SubSeq(es, 1, n)
-----------------------------------------------------------------------------
(* scope registry and kill switch *)

RegisterScope(s) ==
  /\ call = NoCall /\ s \notin scopes
  /\ scopes' = scopes \cup {s}
  /\ UNCHANGED <<now, chain, killed, hits, keys, call, effects, calls, acts, faults>>

Engage(x) ==
  /\ Operator1
  /\ killed' = killed \cup {x}
  /\ Log(<<E("engaged", "operator", x)>>)
  /\ UNCHANGED <<now, scopes, hits, keys, call, effects, calls>>

\* With an authorization; without one disengaging raises and changes nothing.
Disengage(x) ==
  /\ Operator1
  /\ killed' = killed \ {x}
  /\ Log(<<E("disengaged", "operator", x)>>)
  /\ UNCHANGED <<now, scopes, hits, keys, call, effects, calls>>

\* Mutant: only the global switch halts.
HaltedGlobal(s) == Global \in killed

Halted(s) == {Global, s} \cap killed # {}
-----------------------------------------------------------------------------
(* EffectorGuard.execute, for an approval given at time at *)

Fresh(at) == at <= now /\ now - at <= ApprovalTTL

\* Mutant: the window starts anew with every request.
WindowOfNow(a) == {h \in hits[a] : h[1] = now}

Window(a) == {h \in hits[a] : now - h[1] < Minute}

Refused(s, at) == Global \in killed \/ ~Fresh(at) \/ s \notin scopes

Refuse(a, s, at) ==
  /\ Refused(s, at)
  /\ Log(<<E("denied", a, s)>>)
  /\ UNCHANGED <<hits, keys, call>>

LimitRate(a, s, at) ==
  /\ ~Refused(s, at) /\ Cardinality(Window(a)) >= RateLimit
  /\ hits' = [hits EXCEPT ![a] = Window(a)]
  /\ Log(<<E("denied", a, s)>>)
  /\ UNCHANGED <<keys, call>>

Admitted(a, s, at) ==
  /\ ~Refused(s, at) /\ Cardinality(Window(a)) < RateLimit
  /\ hits' = [hits EXCEPT ![a] = Window(a) \cup {<<now, calls>>}]

\* Mutant: a key expires at the end of its time.
ExpiredEarly(k) == now - keys[k].at >= KeyTTL

Expired(k) == now - keys[k].at > KeyTTL

Replay(a, s, k, b, at) ==
  /\ Admitted(a, s, at) /\ keys[k].body = b /\ ~Expired(k)
  /\ Log(<<E("denied", a, s)>>)
  /\ UNCHANGED <<keys, call>>

\* A key with another body raises, whatever its age.
MismatchedKey(a, s, k, b, at) ==
  /\ Admitted(a, s, at) /\ keys[k] # NoKey /\ keys[k].body # b
  /\ UNCHANGED <<keys, call, chain, faults>>

Proceed(a, s, k, b, at) ==
  /\ Admitted(a, s, at) /\ (keys[k] = NoKey \/ (keys[k].body = b /\ Expired(k)))
  /\ keys' = [keys EXCEPT ![k] = NoKey]
  /\ call' = [pc |-> "effector", agent |-> a, scope |-> s, key |-> k, body |-> b]
  /\ UNCHANGED <<chain, faults>>

Execute(a, s, k, b, at) ==
  \/ Refuse(a, s, at) \/ LimitRate(a, s, at)
  \/ Replay(a, s, k, b, at) \/ MismatchedKey(a, s, k, b, at) \/ Proceed(a, s, k, b, at)
-----------------------------------------------------------------------------
(* The effector and what follows it *)

Effect(stored) == [agent |-> call.agent, scope |-> call.scope, key |-> call.key,
                   at |-> now, pos |-> Len(chain), stored |-> stored]

EffectorReturns ==
  /\ call.pc = "effector"
  /\ effects' = Append(effects, Effect(FALSE))
  /\ call' = [call EXCEPT !.pc = "store"]
  /\ UNCHANGED <<now, chain, scopes, killed, hits, keys, calls, acts, faults>>

\* Mutant: what the effector raises is swallowed.
EffectorRaisesQuietly ==
  /\ call.pc = "effector" /\ Fault("effector")
  /\ call' = [call EXCEPT !.pc = "audit"]
  /\ UNCHANGED <<now, chain, scopes, killed, hits, keys, effects, calls, acts>>

\* The effector raises, before or after it had its effect; so does the request.
EffectorRaises ==
  /\ call.pc = "effector" /\ Fault("effector")
  /\ effects' \in {effects, Append(effects, Effect(FALSE))}
  /\ call' = NoCall
  /\ UNCHANGED <<now, chain, scopes, killed, hits, keys, calls, acts>>

StoreResponse ==
  /\ call.pc = "store"
  /\ keys' = [keys EXCEPT ![call.key] = [body |-> call.body, at |-> now]]
  /\ effects' = [effects EXCEPT ![Len(effects)].stored = TRUE]
  /\ call' = [call EXCEPT !.pc = "audit"]
  /\ UNCHANGED <<now, chain, scopes, killed, hits, calls, acts, faults>>

StoreFails ==
  /\ call.pc = "store" /\ Fault("store")
  /\ call' = NoCall
  /\ UNCHANGED <<now, chain, scopes, killed, hits, keys, effects, calls, acts>>

\* Mutant: the event names the operator.
AuditAnonymous ==
  /\ call.pc = "audit"
  /\ Log(<<E("allowed", "operator", call.scope)>>)
  /\ call' = NoCall
  /\ UNCHANGED <<now, scopes, killed, hits, keys, effects, calls, acts>>

Audit ==
  /\ call.pc = "audit"
  /\ Log(<<E("allowed", call.agent, call.scope)>>)
  /\ call' = NoCall
  /\ UNCHANGED <<now, scopes, killed, hits, keys, effects, calls, acts>>

Tick ==
  /\ call = NoCall /\ now < MaxTime
  /\ now' = now + 1
  /\ UNCHANGED <<chain, scopes, killed, hits, keys, call, effects, calls, acts, faults>>

\* What the guard does apart from the roots' own requests.
GuardStep ==
  \/ \E s \in Scopes : RegisterScope(s)
  \/ \E x \in Scopes \cup {Global} : Engage(x) \/ Disengage(x)
  \/ EffectorReturns \/ EffectorRaises \/ StoreResponse \/ StoreFails \/ Audit
  \/ Tick
-----------------------------------------------------------------------------
GuardTypeOK ==
  /\ {now, calls, acts} \subseteq Nat /\ faults \in Seq(Faults)
  /\ chain \in Seq(Event) /\ scopes \subseteq Scopes /\ killed \subseteq Scopes \cup {Global}
  /\ hits \in [Agents -> SUBSET (Nat \X Nat)]
  /\ keys \in [Keys -> [body : Bodies \cup {"none"}, at : Nat]]
  /\ call = NoCall \/ call \in [pc : {"effector", "store", "audit"}, agent : Agents,
                                scope : Scopes, key : Keys, body : Bodies]
  /\ effects \in Seq([agent : Agents, scope : Scopes, key : Keys, at : Nat, pos : Nat, stored : BOOLEAN])

\* The kill switch of x as the first n events tell it.
EngagedAt(x, n) ==
  \E k \in 1..n : /\ chain[k].type = "engaged" /\ chain[k].scope = x
                  /\ \A j \in k+1..n : ~(chain[j].type = "disengaged" /\ chain[j].scope = x)

\* No crash has made the guard forget, and the chain has taken every event.
Intact == {"chain", "crash"} \cap Failed = {}

\* Nothing takes effect on a scope between the events that engage and disengage
\* its kill switch, or the global one: "engaging halts".
KillHolds == Intact => \A i \in DOMAIN effects :
  \A x \in {Global, effects[i].scope} : ~EngagedAt(x, effects[i].pos)

\* An effect whose response is stored is not repeated under its key for the
\* lifetime of the key, whatever other keys, bodies, principals and faults.
OncePerKey == \A j \in DOMAIN effects, i \in DOMAIN effects :
  i < j /\ effects[i].key = effects[j].key /\ effects[i].stored
    => effects[j].at - effects[i].at > KeyTTL

\* No principal has more effects than the limit in any minute (RATE_LIMIT_PER_MINUTE).
RateHolds == \A j \in DOMAIN effects :
  Cardinality({i \in 1..j : /\ effects[i].agent = effects[j].agent
                            /\ effects[j].at - effects[i].at < Minute}) <= RateLimit

\* The record of an agent in the chain (reputation) never claims more than it
\* has done, and all of it when nothing has failed.
Allowed(a) == Cardinality({n \in DOMAIN chain : chain[n].type = "allowed" /\ chain[n].agent = a})
Done(a) == Cardinality({i \in DOMAIN effects : effects[i].agent = a})
RecordIsTrue == \A a \in Agents :
  /\ Allowed(a) <= Done(a)
  /\ Failed = {} /\ call = NoCall => Allowed(a) = Done(a)

\* The types, the record and the limits of the guard; keys and hits do not outlive a crash.
GuardHolds ==
  /\ GuardTypeOK /\ RecordIsTrue
  /\ "crash" \notin Failed => OncePerKey /\ RateHolds
=============================================================================
