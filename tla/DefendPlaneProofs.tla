-------------------------- MODULE DefendPlaneProofs --------------------------
(***************************************************************************)
(* The defend plane's effector guard under both composition roots, proved  *)
(* for any agents, scopes, keys, requests, times, limits and faults.       *)
(*                                                                         *)
(* Both roots act on the guard only by GuardMove, the second also by a     *)
(* restart, so the guard's claims are proved once:                         *)
(*   - a call passes its checks and takes effect before the next operation,*)
(*     so what held at the check holds at the effect (Stopped, Truced);    *)
(*   - an effect is owed to the record until it is audited (Recorded);     *)
(*   - a stored effect is found under its key for the key's lifetime       *)
(*     (KeysAgree);                                                        *)
(*   - every effect is paid for by a hit of the window (RateAgrees).       *)
(* The second root adds that the last action on a scope covers each effect *)
(* on it until a truce is resolved (Truced), the first that a ground is a  *)
(* request whose approvers can only grow (SoundGround).                    *)
(***************************************************************************)
EXTENDS DefendPlane, DefendPlaneV2, FiniteSetTheorems, SequenceTheorems, TLAPS

\* The records of the guard: effects, the call in progress, stored keys.
EffectRec == [agent : Agents, scope : Scopes, key : Keys, at : Nat, pos : Nat, stored : BOOLEAN]
CallRec == [pc : {"effector", "store", "audit"}, agent : Agents, scope : Scopes, key : Keys, body : Bodies]
KeyRec == [body : Bodies \cup {"none"}, at : Nat]

\* The type invariant, with its records named.
GuardTypes ==
  /\ now \in Nat /\ calls \in Nat /\ acts \in Nat /\ faults \in Seq(Faults)
  /\ chain \in Seq(Event) /\ scopes \subseteq Scopes /\ killed \subseteq Scopes \cup {Global}
  /\ hits \in [Agents -> SUBSET (Nat \X Nat)] /\ keys \in [Keys -> KeyRec]
  /\ call = NoCall \/ call \in CallRec
  /\ effects \in Seq(EffectRec)

\* The times and numbers the guard keeps are not ahead of it, and the last effect
\* is the one of the call whose response is being stored.
CallsAgree ==
  /\ now <= MaxTime
  /\ \A a \in Agents : IsFiniteSet(hits[a]) /\ \A h \in hits[a] : h[1] <= now /\ h[2] < calls
  /\ \A i \in 1..Len(effects) : effects[i].at <= now /\ effects[i].pos <= Len(chain)
  /\ call.pc = "store" =>
       /\ Len(effects) # 0
       /\ LET e == effects[Len(effects)] IN
            e.agent = call.agent /\ e.scope = call.scope /\ e.key = call.key /\ e.at = now /\ e.stored = FALSE

\* The steps both roots have, as the guard sees them.
Guarded(a, s, k, b, at) ==
  /\ Called /\ ~Halted(s)
  /\ Execute(a, s, k, b, at)
  /\ UNCHANGED <<now, scopes, killed, effects, acts>>

\* The events that claim neither an effect nor a switch, and the denials among them.
Plain == {e \in Event : e.type \notin {"allowed", "engaged", "disengaged"}}
Denials == {e \in Event : e.type = "denied"}
\* An operation of a root that only logs plain events; one that only takes a turn.
Noted ==
  /\ call = NoCall
  /\ \E es \in Seq(Plain) : Log(es)
  /\ calls' \in Nat /\ calls <= calls' /\ acts' \in Nat
  /\ UNCHANGED <<now, scopes, killed, hits, keys, call, effects>>
Aside ==
  /\ acts' \in Nat
  /\ UNCHANGED <<now, chain, scopes, killed, hits, keys, call, effects, calls, faults>>
\* What either root does to the guard, but for a restart.
GuardMove ==
  \/ GuardStep \/ Noted \/ Aside
  \/ \E a \in Agents, s \in Scopes, k \in Keys, b \in Bodies, at \in Nat : Guarded(a, s, k, b, at)
-----------------------------------------------------------------------------
\* The fields of the records the guard builds.
LEMMA Records ==
  ASSUME GuardAssumption
  PROVE  /\ NoKey \in KeyRec /\ NoCall.pc = "idle"
         /\ \A c \in CallRec : c # NoCall /\ c.pc # "idle" /\ c.agent \in Agents /\ c.scope \in Scopes
                               /\ c.key \in Keys /\ c.body \in Bodies
         /\ \A c \in CallRec, p \in {"effector", "store", "audit"} :
              /\ [c EXCEPT !.pc = p] \in CallRec /\ [c EXCEPT !.pc = p].pc = p
              /\ [c EXCEPT !.pc = p].agent = c.agent /\ [c EXCEPT !.pc = p].scope = c.scope
              /\ [c EXCEPT !.pc = p].key = c.key /\ [c EXCEPT !.pc = p].body = c.body
         /\ \A t \in {"allowed", "denied", "engaged", "disengaged", "truce", "resolved", "rejected", "registered"},
               a \in Agents \cup {"operator"}, s \in Scopes \cup {Global} :
              E(t, a, s) \in Event /\ E(t, a, s).type = t /\ E(t, a, s).agent = a /\ E(t, a, s).scope = s
<1>1. NoKey \in KeyRec /\ NoCall.pc = "idle"
  BY DEF NoKey, KeyRec, NoCall
<1>2. \A c \in CallRec : c # NoCall /\ c.pc # "idle" /\ c.agent \in Agents /\ c.scope \in Scopes
                         /\ c.key \in Keys /\ c.body \in Bodies
  BY <1>1 DEF CallRec
<1>3. \A c \in CallRec, p \in {"effector", "store", "audit"} :
        /\ [c EXCEPT !.pc = p] \in CallRec /\ [c EXCEPT !.pc = p].pc = p
        /\ [c EXCEPT !.pc = p].agent = c.agent /\ [c EXCEPT !.pc = p].scope = c.scope
        /\ [c EXCEPT !.pc = p].key = c.key /\ [c EXCEPT !.pc = p].body = c.body
  BY DEF CallRec
<1>4. \A t \in {"allowed", "denied", "engaged", "disengaged", "truce", "resolved", "rejected", "registered"},
         a \in Agents \cup {"operator"}, s \in Scopes \cup {Global} :
        E(t, a, s) \in Event /\ E(t, a, s).type = t /\ E(t, a, s).agent = a /\ E(t, a, s).scope = s
  BY DEF Event, E
<1> QED BY <1>1, <1>2, <1>3, <1>4

\* A call in progress names an agent, a scope, a key and a body.
LEMMA Calling ==
  ASSUME GuardTypes, call.pc \in {"effector", "store", "audit"}
  PROVE  /\ call \in CallRec /\ call # NoCall
         /\ call.agent \in Agents /\ call.scope \in Scopes /\ call.key \in Keys /\ call.body \in Bodies
<1>1. NoCall.pc = "idle"
  BY DEF NoCall
<1>2. call \in CallRec /\ call # NoCall
  BY <1>1 DEF GuardTypes
<1> QED BY <1>2 DEF CallRec

\* The first k of the events are appended, all of them unless the chain has failed.
GrownBy(es, k) ==
  /\ k \in 0..Len(es) /\ Len(es) \in Nat /\ Len(chain) \in Nat
  /\ chain' \in Seq(Event) /\ Len(chain') = Len(chain) + k
  /\ \A n \in 1..Len(chain) : chain'[n] = chain[n]
  /\ \A n \in 1..k : chain'[Len(chain) + n] = es[n]
  /\ faults' \in Seq(Faults) /\ Failed \subseteq Failed'
  /\ k = Len(es) \/ "chain" \in Failed'

\* A fault is remembered.
LEMMA Faulted ==
  ASSUME faults \in Seq(Faults), NEW kind, Fault(kind)
  PROVE  faults' \in Seq(Faults) /\ kind \in Failed' /\ Failed \subseteq Failed'
<1>1. faults' = Append(faults, kind) /\ kind \in Faults
  BY DEF Fault
<1>2. /\ faults' \in Seq(Faults) /\ Len(faults) \in Nat /\ Len(faults') = Len(faults) + 1
      /\ faults'[Len(faults) + 1] = kind /\ \A i \in 1..Len(faults) : faults'[i] = faults[i]
  BY <1>1, AppendProperties
<1>3. /\ DOMAIN faults = 1..Len(faults) /\ DOMAIN faults' = 1..Len(faults')
      /\ DOMAIN faults \subseteq DOMAIN faults' /\ Len(faults) + 1 \in DOMAIN faults'
  BY <1>2
<1> QED BY <1>2, <1>3 DEF Failed, Range

\* Log appends a prefix of its events.
LEMMA Logged ==
  ASSUME GuardTypes, NEW es \in Seq(Event), Log(es)
  PROVE  \E k \in 0..Len(es) : GrownBy(es, k)
<1>1. chain \in Seq(Event) /\ faults \in Seq(Faults) /\ Len(chain) \in Nat /\ Len(es) \in Nat
  BY DEF GuardTypes
<1>2. CASE chain' = chain \o es /\ UNCHANGED faults
  <2>1. Failed' = Failed
    BY <1>2 DEF Failed
  <2>1a. GrownBy(es, Len(es))
    BY <1>1, <1>2, <2>1 DEF GrownBy
  <2> QED BY <1>1, <2>1a
<1>3. CASE Fault("chain") /\ \E n \in 0 .. Len(es) - 1 : chain' = chain \o SubSeq(es, 1, n)
  <2>1. PICK n \in 0 .. Len(es) - 1 : chain' = chain \o SubSeq(es, 1, n)
    BY <1>3
  <2>2. SubSeq(es, 1, n) \in Seq(Event) /\ Len(SubSeq(es, 1, n)) = n /\ \A m \in 1..n : SubSeq(es, 1, n)[m] = es[m]
    BY <1>1, <2>1, SubSeqProperties
  <2> DEFINE xs == SubSeq(es, 1, n)
  <2> HIDE DEF xs
  <2>3. /\ chain' = chain \o xs /\ xs \in Seq(Event) /\ Len(xs) = n /\ \A m \in 1..n : xs[m] = es[m]
        /\ n \in 0..Len(es) /\ n \in Nat
    BY <1>1, <2>1, <2>2 DEF xs
  <2>4. /\ chain' \in Seq(Event) /\ Len(chain') = Len(chain) + n
        /\ \A m \in 1..Len(chain) : chain'[m] = chain[m]
        /\ \A m \in 1..n : chain'[Len(chain) + m] = es[m]
    <3>1. chain' \in Seq(Event) /\ Len(chain') = Len(chain) + n
      BY <1>1, <2>3, ConcatProperties
    <3>2. \A m \in 1..Len(chain) : (chain \o xs)[m] = chain[m]
      BY <1>1, <2>3
    <3>3. \A m \in 1..n : (chain \o xs)[Len(chain) + m] = xs[m]
      BY <1>1, <2>3
    <3> QED BY <2>3, <3>1, <3>2, <3>3
  <2>5. faults' \in Seq(Faults) /\ "chain" \in Failed' /\ Failed \subseteq Failed'
    BY <1>1, <1>3, Faulted
  <2>6. GrownBy(es, n)
    BY <1>1, <2>3, <2>4, <2>5 DEF GrownBy
  <2> QED BY <2>3, <2>6
<1> QED BY <1>2, <1>3 DEF Log

\* The plain operations keep the types.
LEMMA NoteTypes ==
  ASSUME GuardAssumption, GuardTypes, CallsAgree, Noted \/ Aside
  PROVE  GuardTypes' /\ CallsAgree'
<1>1. CASE Noted
  <2>1. PICK es \in Seq(Plain) : Log(es)
    BY <1>1 DEF Noted
  <2>2. es \in Seq(Event)
    BY <2>1 DEF Plain
  <2>3. PICK k \in 0..Len(es) : GrownBy(es, k)
    BY <2>1, <2>2, Logged
  <2>4. chain' \in Seq(Event) /\ faults' \in Seq(Faults) /\ Len(chain) <= Len(chain') /\ Len(chain') \in Nat /\ Len(chain) \in Nat
    BY <2>3 DEF GrownBy
  <2>5. /\ UNCHANGED <<now, scopes, killed, hits, keys, call, effects>>
        /\ calls' \in Nat /\ acts' \in Nat /\ calls <= calls' /\ call.pc # "store"
    BY <1>1, Records DEF Noted
  <2>6. GuardTypes'
    BY <2>4, <2>5 DEF GuardTypes
  <2>7. \A i \in 1..Len(effects) : effects[i].pos \in Nat
    <3>1. \A i \in 1..Len(effects) : effects[i] \in EffectRec
      BY DEF GuardTypes
    <3> QED BY <3>1 DEF EffectRec
  <2>8. \A a \in Agents : \A h \in hits[a] : h[2] \in Nat
    BY DEF GuardTypes
  <2>9. calls \in Nat
    BY DEF GuardTypes
  <2> QED BY <2>4, <2>5, <2>6, <2>7, <2>8, <2>9 DEF CallsAgree
<1>2. CASE Aside
  <2>1. GuardTypes'
    BY <1>2 DEF Aside, GuardTypes
  <2>2. CallsAgree'
    BY <1>2 DEF Aside, CallsAgree
  <2> QED BY <2>1, <2>2
<1> QED BY <1>1, <1>2

\* A request is a new member of its principal's window: its number is new.
LEMMA WindowTypes ==
  ASSUME GuardTypes, CallsAgree, NEW a \in Agents
  PROVE  /\ Window(a) \subseteq hits[a] /\ IsFiniteSet(Window(a)) /\ Cardinality(Window(a)) \in Nat
         /\ <<now, calls>> \notin Window(a) /\ <<now, calls>> \in Nat \X Nat
<1>1. Window(a) \in SUBSET hits[a] /\ IsFiniteSet(hits[a])
  BY DEF Window, CallsAgree
<1>2. IsFiniteSet(Window(a)) /\ Cardinality(Window(a)) \in Nat
  BY <1>1, FS_Subset, FS_CardinalityType
<1>3. <<now, calls>> \notin hits[a]
  <2> SUFFICES ASSUME <<now, calls>> \in hits[a] PROVE FALSE
    OBVIOUS
  <2>1. <<now, calls>>[2] < calls
    BY DEF CallsAgree
  <2> QED BY <2>1 DEF GuardTypes
<1> QED BY <1>1, <1>2, <1>3 DEF GuardTypes

\* What a request does to the hits keeps their types.
LEMMA HitTypes ==
  ASSUME GuardTypes, CallsAgree, NEW a \in Agents, calls' = calls + 1,
         hits' \in {hits, [hits EXCEPT ![a] = Window(a)], [hits EXCEPT ![a] = Window(a) \cup {<<now, calls>>}]}
  PROVE  /\ hits' \in [Agents -> SUBSET (Nat \X Nat)]
         /\ \A c \in Agents : IsFiniteSet(hits'[c]) /\ \A h \in hits'[c] : h[1] <= now /\ h[2] < calls'
<1>1. /\ hits \in [Agents -> SUBSET (Nat \X Nat)] /\ now \in Nat /\ calls \in Nat
      /\ \A c \in Agents : IsFiniteSet(hits[c]) /\ \A h \in hits[c] : h \in Nat \X Nat /\ h[1] <= now /\ h[2] < calls
  BY DEF GuardTypes, CallsAgree
<1>2. IsFiniteSet(Window(a) \cup {<<now, calls>>})
  BY WindowTypes, FS_AddElement
<1>3. PICK H \in SUBSET (Nat \X Nat) :
        /\ hits' = [hits EXCEPT ![a] = H] /\ IsFiniteSet(H)
        /\ \A h \in H : h \in hits[a] \/ h = <<now, calls>>
  <2>1. CASE hits' = hits
    <3>1. hits' = [hits EXCEPT ![a] = hits[a]] /\ hits[a] \in SUBSET (Nat \X Nat)
      BY <1>1, <2>1
    <3> QED BY <1>1, <3>1
  <2>2. CASE hits' = [hits EXCEPT ![a] = Window(a)]
    <3>1. Window(a) \in SUBSET (Nat \X Nat)
      BY <1>1, WindowTypes
    <3> QED BY <2>2, <3>1, WindowTypes
  <2>3. CASE hits' = [hits EXCEPT ![a] = Window(a) \cup {<<now, calls>>}]
    <3>1. Window(a) \cup {<<now, calls>>} \in SUBSET (Nat \X Nat)
      BY <1>1, WindowTypes
    <3> QED BY <1>2, <2>3, <3>1, WindowTypes
  <2> QED BY <2>1, <2>2, <2>3
<1>4. hits'[a] = H /\ \A c \in Agents \ {a} : hits'[c] = hits[c]
  BY <1>1, <1>3
<1>5. \A h \in H : h[1] <= now /\ h[2] < calls'
  BY <1>1, <1>3
<1>6. \A c \in Agents \ {a} : \A h \in hits[c] : h[1] <= now /\ h[2] < calls'
  BY <1>1
<1> QED BY <1>1, <1>3, <1>4, <1>5, <1>6

\* A request counts against its principal, or only prunes the old ones.
Hit(a) == hits' = [hits EXCEPT ![a] = Window(a) \cup {<<now, calls>>}] /\ Cardinality(Window(a)) < RateLimit
Kept(a) == hits' \in {hits, [hits EXCEPT ![a] = Window(a)]}
\* A request that is denied, and one that goes on to the effector.
TurnedDown(a) ==
  /\ Hit(a) \/ Kept(a)
  /\ call' = NoCall /\ keys' = keys
  /\ \E es \in Seq(Denials) : Log(es)
LetThrough(a, s, k, b, at) ==
  /\ Hit(a)
  /\ call' = [pc |-> "effector", agent |-> a, scope |-> s, key |-> k, body |-> b]
  /\ keys' = [keys EXCEPT ![k] = NoKey]
  /\ keys[k] = NoKey \/ Expired(k)
  /\ {Global, s} \cap killed = {} /\ Fresh(at)
  /\ UNCHANGED <<chain, faults>>

\* execute turns a request down or lets it through.
LEMMA Decided ==
  ASSUME GuardAssumption, GuardTypes, NEW a \in Agents, NEW s \in Scopes, NEW k, NEW b, NEW at,
         Guarded(a, s, k, b, at)
  PROVE  /\ call = NoCall /\ calls' = calls + 1 /\ UNCHANGED <<now, scopes, killed, effects, acts>>
         /\ TurnedDown(a) \/ LetThrough(a, s, k, b, at)
<1>1. call = NoCall /\ calls' = calls + 1 /\ UNCHANGED <<now, scopes, killed, effects, acts>> /\ ~Halted(s)
  BY DEF Guarded, Called
<1>2. <<E("denied", a, s)>> \in Seq(Denials) /\ <<>> \in Seq(Denials)
  <2>1. E("denied", a, s) \in Denials
    BY Records DEF Denials
  <2> QED BY <2>1
<1>3. CASE Refuse(a, s, at) \/ LimitRate(a, s, at) \/ Replay(a, s, k, b, at)
  BY <1>1, <1>2, <1>3 DEF Refuse, LimitRate, Replay, Admitted, TurnedDown, Hit, Kept
<1>4. CASE MismatchedKey(a, s, k, b, at)
  <2>1. chain' = chain \o <<>> /\ UNCHANGED faults
    BY <1>4 DEF MismatchedKey, GuardTypes
  <2>2. Log(<<>>)
    BY <2>1 DEF Log
  <2> QED BY <1>1, <1>2, <1>4, <2>2 DEF MismatchedKey, Admitted, TurnedDown, Hit
<1>5. CASE Proceed(a, s, k, b, at)
  BY <1>1, <1>5 DEF Proceed, Admitted, Refused, Halted, LetThrough, Hit
<1> QED BY <1>1, <1>3, <1>4, <1>5 DEF Guarded, Execute

\* execute keeps the types.
LEMMA GuardedTypes ==
  ASSUME GuardAssumption, GuardTypes, CallsAgree,
         NEW a \in Agents, NEW s \in Scopes, NEW k \in Keys, NEW b \in Bodies, NEW at, Guarded(a, s, k, b, at)
  PROVE  GuardTypes' /\ CallsAgree'
<1>1. /\ call = NoCall /\ calls' = calls + 1 /\ UNCHANGED <<now, scopes, killed, effects, acts>>
      /\ TurnedDown(a) \/ LetThrough(a, s, k, b, at)
  BY Decided
<1>2. /\ hits' \in [Agents -> SUBSET (Nat \X Nat)]
      /\ \A c \in Agents : IsFiniteSet(hits'[c]) /\ \A h \in hits'[c] : h[1] <= now /\ h[2] < calls'
  BY <1>1, HitTypes DEF TurnedDown, LetThrough, Hit, Kept
<1>3. /\ chain' \in Seq(Event) /\ faults' \in Seq(Faults) /\ Len(chain) <= Len(chain')
      /\ Len(chain) \in Nat /\ Len(chain') \in Nat
  <2>1. CASE TurnedDown(a)
    <3>1. PICK es \in Seq(Denials) : Log(es)
      BY <2>1 DEF TurnedDown
    <3>2. es \in Seq(Event)
      BY <3>1 DEF Denials
    <3>3. PICK j \in 0..Len(es) : GrownBy(es, j)
      BY <3>1, <3>2, Logged
    <3> QED BY <3>3 DEF GrownBy
  <2>2. CASE LetThrough(a, s, k, b, at)
    BY <2>2 DEF LetThrough, GuardTypes
  <2> QED BY <1>1, <2>1, <2>2
<1>4. /\ keys' \in [Keys -> KeyRec] /\ (call' = NoCall \/ call' \in CallRec)
      /\ call'.pc # "store"
  <2>1. CASE TurnedDown(a)
    BY <2>1, Records DEF TurnedDown, GuardTypes
  <2>2. CASE LetThrough(a, s, k, b, at)
    <3>1. keys' \in [Keys -> KeyRec]
      BY <2>2, Records DEF LetThrough, GuardTypes
    <3>2. call' \in CallRec /\ call'.pc = "effector"
      BY <2>2 DEF LetThrough, CallRec
    <3> QED BY <3>1, <3>2
  <2> QED BY <1>1, <2>1, <2>2
<1>5. GuardTypes'
  BY <1>1, <1>2, <1>3, <1>4 DEF GuardTypes
<1>6. \A i \in 1..Len(effects) : effects[i].pos \in Nat
  <2>1. \A i \in 1..Len(effects) : effects[i] \in EffectRec
    BY DEF GuardTypes
  <2> QED BY <2>1 DEF EffectRec
<1> QED BY <1>1, <1>2, <1>3, <1>4, <1>5, <1>6 DEF CallsAgree

\* The guard's own steps keep the types.
LEMMA StepTypes ==
  ASSUME GuardAssumption, GuardTypes, CallsAgree, GuardStep
  PROVE  GuardTypes' /\ CallsAgree'
<1> USE DEF GuardTypes
<1>1. CASE \E s \in Scopes : RegisterScope(s)
  <2>1. GuardTypes'
    BY <1>1 DEF RegisterScope
  <2>2. CallsAgree'
    BY <1>1 DEF RegisterScope, CallsAgree
  <2> QED BY <2>1, <2>2
<1>2. \A i \in 1..Len(effects) : effects[i].pos \in Nat /\ effects[i].at \in Nat
  <2>1. \A i \in 1..Len(effects) : effects[i] \in EffectRec
    OBVIOUS
  <2> QED BY <2>1 DEF EffectRec
<1>3. ASSUME NEW x \in Scopes \cup {Global}, Engage(x) \/ Disengage(x)
      PROVE  GuardTypes' /\ CallsAgree'
  <2>1. PICK t \in {"engaged", "disengaged"} : Log(<<E(t, "operator", x)>>)
    BY <1>3 DEF Engage, Disengage
  <2>2. <<E(t, "operator", x)>> \in Seq(Event)
    <3>1. E(t, "operator", x) \in Event
      BY Records
    <3> QED BY <3>1
  <2>3. PICK j \in 0..Len(<<E(t, "operator", x)>>) : GrownBy(<<E(t, "operator", x)>>, j)
    BY <2>1, <2>2, Logged
  <2>4. chain' \in Seq(Event) /\ faults' \in Seq(Faults) /\ Len(chain) <= Len(chain') /\ Len(chain') \in Nat /\ Len(chain) \in Nat
    BY <2>3 DEF GrownBy
  <2>5. /\ killed' \subseteq Scopes \cup {Global} /\ acts' \in Nat /\ call = NoCall
        /\ UNCHANGED <<now, scopes, hits, keys, call, effects, calls>>
    BY <1>3 DEF Engage, Disengage, Operator1
  <2>6. GuardTypes'
    BY <2>4, <2>5
  <2>7. CallsAgree'
    BY <1>2, <2>4, <2>5, Records DEF CallsAgree
  <2> QED BY <2>6, <2>7
<1>4. CASE Tick
  <2>1. GuardTypes'
    BY <1>4 DEF Tick
  <2>2. \A a \in Agents : \A h \in hits[a] : h[1] \in Nat
    OBVIOUS
  <2>3. /\ UNCHANGED <<chain, hits, call, effects, calls>> /\ call.pc # "store"
        /\ now' <= MaxTime /\ now <= now' /\ now' \in Nat
    <3>1. MaxTime \in Nat /\ call.pc = "idle" /\ now < MaxTime /\ now' = now + 1
      BY <1>4 DEF GuardAssumption, Tick, NoCall
    <3> QED BY <1>4, <3>1 DEF Tick
  <2>4. \A a \in Agents : IsFiniteSet(hits[a]) /\ \A h \in hits[a] : h[1] <= now' /\ h[2] < calls
    BY <2>2, <2>3 DEF CallsAgree
  <2>5. \A i \in 1..Len(effects) : effects[i].at <= now' /\ effects[i].pos <= Len(chain)
    BY <1>2, <2>3 DEF CallsAgree
  <2>6. CallsAgree'
    BY <2>3, <2>4, <2>5 DEF CallsAgree
  <2> QED BY <2>1, <2>6
<1>5. CASE StoreFails
  <2>1. GuardTypes'
    <3>1. faults' \in Seq(Faults)
      BY <1>5, Faulted DEF StoreFails
    <3> QED BY <1>5, <3>1 DEF StoreFails
  <2>2. CallsAgree'
    BY <1>5, Records DEF StoreFails, CallsAgree
  <2> QED BY <2>1, <2>2
<1>6. CASE Audit
  <2>1. call \in CallRec /\ call.agent \in Agents /\ call.scope \in Scopes
    BY <1>6, Records DEF Audit
  <2>2. <<E("allowed", call.agent, call.scope)>> \in Seq(Event)
    BY <2>1, Records
  <2>3. PICK j \in 0..Len(<<E("allowed", call.agent, call.scope)>>) : GrownBy(<<E("allowed", call.agent, call.scope)>>, j)
    BY <1>6, <2>2, Logged DEF Audit
  <2>4. chain' \in Seq(Event) /\ faults' \in Seq(Faults) /\ Len(chain) <= Len(chain') /\ Len(chain') \in Nat /\ Len(chain) \in Nat
    BY <2>3 DEF GrownBy
  <2>5. UNCHANGED <<now, scopes, killed, hits, keys, effects, calls, acts>> /\ call' = NoCall
    BY <1>6 DEF Audit
  <2>6. GuardTypes'
    BY <2>4, <2>5
  <2>7. CallsAgree'
    BY <1>2, <2>4, <2>5, Records DEF CallsAgree
  <2> QED BY <2>6, <2>7
<1>7. CASE EffectorReturns \/ EffectorRaises
  <2>1. call.pc = "effector" /\ Len(chain) \in Nat
    <3>1. call.pc = "effector"
      BY <1>7 DEF EffectorReturns, EffectorRaises
    <3> QED BY <3>1
  <2>1a. call \in CallRec /\ call.agent \in Agents /\ call.scope \in Scopes /\ call.key \in Keys
    BY <2>1, Calling
  <2>2. /\ Effect(FALSE) \in EffectRec /\ Effect(FALSE).at = now /\ Effect(FALSE).pos = Len(chain)
        /\ Effect(FALSE).agent = call.agent /\ Effect(FALSE).scope = call.scope /\ Effect(FALSE).key = call.key
        /\ Effect(FALSE).stored = FALSE
    BY <2>1, <2>1a DEF Effect, EffectRec
  <2> DEFINE new == Effect(FALSE)
  <2> HIDE DEF new
  <2>2a. /\ new \in EffectRec /\ new.at = now /\ new.pos = Len(chain) /\ new.stored = FALSE
         /\ new.agent = call.agent /\ new.scope = call.scope /\ new.key = call.key
    BY <2>2 DEF new
  <2>3. /\ UNCHANGED <<now, chain, scopes, killed, hits, keys, calls, acts>> /\ faults' \in Seq(Faults)
        /\ effects' = effects \/ effects' = Append(effects, new)
        /\ \/ effects' = Append(effects, new) /\ call' = [call EXCEPT !.pc = "store"]
           \/ call' = NoCall
    <3>1. CASE EffectorReturns
      BY <3>1 DEF EffectorReturns, new
    <3>2. CASE EffectorRaises
      <4>1. /\ UNCHANGED <<now, chain, scopes, killed, hits, keys, calls, acts>> /\ call' = NoCall
            /\ faults' \in Seq(Faults) /\ effects' \in {effects, Append(effects, new)}
        BY <3>2, Faulted DEF EffectorRaises, new
      <4> QED BY <4>1
    <3> QED BY <1>7, <3>1, <3>2
  <2>3a. /\ call' = NoCall \/ (call' \in CallRec /\ call'.agent = call.agent /\ call'.scope = call.scope
                               /\ call'.key = call.key)
         /\ call'.pc = "store" => effects' = Append(effects, new)
    <3>1. LET c == [call EXCEPT !.pc = "store"] IN
            c \in CallRec /\ c.agent = call.agent /\ c.scope = call.scope /\ c.key = call.key
      BY <2>1a DEF CallRec
    <3>2. NoCall.pc = "idle"
      BY DEF NoCall
    <3>3. CASE call' = NoCall
      BY <3>2, <3>3
    <3>4. CASE effects' = Append(effects, new) /\ call' = [call EXCEPT !.pc = "store"]
      BY <3>1, <3>4, Zenon
    <3> QED BY <2>3, <3>3, <3>4
  <2>4. effects' \in Seq(EffectRec)
    <3>1. effects \in Seq(EffectRec)
      OBVIOUS
    <3>2. Append(effects, new) \in Seq(EffectRec)
      BY <2>2a, <3>1, AppendProperties
    <3> QED BY <2>3, <3>1, <3>2
  <2>5. GuardTypes'
    BY <2>3, <2>3a, <2>4
  <2>6. \A i \in 1..Len(effects') : effects'[i].at <= now /\ effects'[i].pos <= Len(chain)
    <3>1. CASE effects' = effects
      BY <3>1 DEF CallsAgree
    <3>2. CASE effects' = Append(effects, new)
      <4>1. \A i \in 1..Len(effects') : i \in 1..Len(effects) \/ i = Len(effects) + 1
        BY <2>2a, <3>2
      <4>2. effects'[Len(effects) + 1] = new /\ \A i \in 1..Len(effects) : effects'[i] = effects[i]
        BY <2>2a, <3>2
      <4> QED BY <2>1, <2>2a, <4>1, <4>2 DEF CallsAgree
    <3> QED BY <2>3, <3>1, <3>2
  <2>7. call'.pc = "store" =>
          /\ Len(effects') = Len(effects) + 1 /\ effects'[Len(effects')] = new
          /\ call'.agent = call.agent /\ call'.scope = call.scope /\ call'.key = call.key
    BY <2>2a, <2>3a, Records
  <2>8. Len(effects) \in Nat
    OBVIOUS
  <2> HIDE DEF GuardTypes
  <2>9. CallsAgree'
    BY <2>2a, <2>3, <2>6, <2>7, <2>8 DEF CallsAgree
  <2> QED BY <2>5, <2>9
<1>8. CASE StoreResponse
  <2>1. call \in CallRec /\ call.pc = "store" /\ Len(effects) \in 1..Len(effects)
    BY <1>8, Records DEF StoreResponse, CallsAgree
  <2>2. \A e \in EffectRec : /\ [e EXCEPT !.stored = TRUE] \in EffectRec
                             /\ [e EXCEPT !.stored = TRUE].at = e.at /\ [e EXCEPT !.stored = TRUE].pos = e.pos
    BY DEF EffectRec
  <2>3. PICK e \in EffectRec : /\ effects' = [effects EXCEPT ![Len(effects)] = e]
                               /\ e.at = effects[Len(effects)].at /\ e.pos = effects[Len(effects)].pos
    <3> DEFINE last == effects[Len(effects)]
    <3>1. last \in EffectRec
      BY <2>1
    <3>2. effects' = [effects EXCEPT ![Len(effects)] = [last EXCEPT !.stored = TRUE]]
      BY <1>8 DEF StoreResponse
    <3> HIDE DEF last
    <3>3. [last EXCEPT !.stored = TRUE] \in EffectRec /\ [last EXCEPT !.stored = TRUE].at = last.at
          /\ [last EXCEPT !.stored = TRUE].pos = last.pos
      BY <2>2, <3>1
    <3> QED BY <3>2, <3>3 DEF last
  <2>4. effects' \in Seq(EffectRec) /\ Len(effects') = Len(effects)
    BY <2>1, <2>3
  <2>5. \A i \in 1..Len(effects') : effects'[i].at = effects[i].at /\ effects'[i].pos = effects[i].pos
    BY <2>1, <2>3
  <2>6. keys' \in [Keys -> KeyRec]
    <3>1. [body |-> call.body, at |-> now] \in KeyRec /\ call.key \in Keys
      BY <2>1, Records DEF KeyRec
    <3> QED BY <1>8, <3>1 DEF StoreResponse
  <2>7. /\ UNCHANGED <<now, chain, scopes, killed, hits, calls, acts, faults>>
        /\ call' \in CallRec /\ call'.pc = "audit"
    BY <1>8, <2>1, Records DEF StoreResponse
  <2>8. GuardTypes'
    BY <2>4, <2>6, <2>7
  <2>9. CallsAgree'
    BY <2>4, <2>5, <2>7 DEF CallsAgree
  <2> QED BY <2>8, <2>9
<1> QED BY <1>1, <1>3, <1>4, <1>5, <1>6, <1>7, <1>8 DEF GuardStep

\* Every move of the guard keeps the types.
LEMMA MoveTypes ==
  ASSUME GuardAssumption, GuardTypes, CallsAgree, GuardMove
  PROVE  GuardTypes' /\ CallsAgree'
BY NoteTypes, StepTypes, GuardedTypes DEF GuardMove
-----------------------------------------------------------------------------
\* A new effect is the call's, now, after all the events there are.
NewEffect(e) ==
  /\ call.pc = "effector" /\ call'.pc \in {"idle", "store"}
  /\ e.agent = call.agent /\ e.scope = call.scope /\ e.key = call.key
  /\ e.at = now /\ e.pos = Len(chain) /\ e.stored = FALSE
  /\ UNCHANGED <<now, chain, killed, hits, keys>>

\* Effects are appended one by one; of the old ones only the last changes, when its
\* response is stored.
EffectsMoved ==
  /\ Len(effects) \in Nat /\ Len(effects') \in {Len(effects), Len(effects) + 1}
  /\ \A i \in 1..Len(effects) :
       /\ effects'[i].agent = effects[i].agent /\ effects'[i].scope = effects[i].scope
       /\ effects'[i].key = effects[i].key
       /\ effects'[i].at = effects[i].at /\ effects'[i].pos = effects[i].pos
       /\ effects'[i].stored = effects[i].stored \/ (i = Len(effects) /\ StoreResponse)
  /\ Len(effects') = Len(effects) + 1 => NewEffect(effects'[Len(effects) + 1])

\* Every move of the guard treats its effects so.
LEMMA MoveEffects ==
  ASSUME GuardAssumption, GuardTypes, CallsAgree, GuardMove
  PROVE  EffectsMoved
<1>1. Len(effects) \in Nat /\ effects \in Seq(EffectRec)
  BY DEF GuardTypes
<1>2. CASE effects' = effects
  <2>1. Len(effects) # Len(effects) + 1
    BY <1>1
  <2> QED BY <1>1, <1>2, <2>1 DEF EffectsMoved
<1>3. CASE EffectorReturns \/ (EffectorRaises /\ effects' # effects)
  <2> DEFINE new == Effect(FALSE)
  <2>1. call.pc = "effector" /\ UNCHANGED <<now, chain, killed, hits, keys>>
    BY <1>3 DEF EffectorReturns, EffectorRaises
  <2>2. call'.pc \in {"idle", "store"}
    <3>1. CASE EffectorRaises
      BY <3>1 DEF EffectorRaises, NoCall
    <3>2. CASE EffectorReturns
      <4>1. call \in CallRec
        BY <2>1, Calling
      <4> QED BY <3>2, <4>1 DEF EffectorReturns, CallRec
    <3> QED BY <1>3, <3>1, <3>2
  <2>3. effects' = Append(effects, new)
    BY <1>3 DEF EffectorReturns, EffectorRaises
  <2>4. NewEffect(new)
    BY <2>1, <2>2 DEF NewEffect, Effect
  <2>5. new \in EffectRec
    <3>1. call.agent \in Agents /\ call.scope \in Scopes /\ call.key \in Keys
      BY <2>1, Calling
    <3> QED BY <3>1 DEF Effect, EffectRec, GuardTypes
  <2> HIDE DEF new
  <2>6. /\ Len(effects') = Len(effects) + 1 /\ effects'[Len(effects) + 1] = new
        /\ \A i \in 1..Len(effects) : effects'[i] = effects[i]
    BY <1>1, <2>3, <2>5, AppendProperties
  <2> QED BY <1>1, <2>4, <2>6 DEF EffectsMoved
<1>4. CASE StoreResponse
  <2> DEFINE last == effects[Len(effects)]
  <2>1. Len(effects) \in 1..Len(effects) /\ last \in EffectRec
    BY <1>1, <1>4 DEF StoreResponse, CallsAgree
  <2>2. effects' = [effects EXCEPT ![Len(effects)] = [last EXCEPT !.stored = TRUE]]
    BY <1>4 DEF StoreResponse
  <2>3. \A e \in EffectRec :
          LET f == [e EXCEPT !.stored = TRUE] IN
          f.agent = e.agent /\ f.scope = e.scope /\ f.key = e.key /\ f.at = e.at /\ f.pos = e.pos
    BY DEF EffectRec
  <2> HIDE DEF last
  <2>4. PICK f : /\ f = [last EXCEPT !.stored = TRUE] /\ f.agent = last.agent /\ f.scope = last.scope
                 /\ f.key = last.key /\ f.at = last.at /\ f.pos = last.pos
    BY <2>1, <2>3
  <2>5. /\ Len(effects') = Len(effects) /\ effects'[Len(effects)] = f
        /\ \A i \in 1..Len(effects) : i # Len(effects) => effects'[i] = effects[i]
    BY <1>1, <2>1, <2>2, <2>4
  <2>6. \A i \in 1..Len(effects) :
          /\ effects'[i].agent = effects[i].agent /\ effects'[i].scope = effects[i].scope
          /\ effects'[i].key = effects[i].key
          /\ effects'[i].at = effects[i].at /\ effects'[i].pos = effects[i].pos
    BY <2>4, <2>5 DEF last
  <2>7. \A i \in 1..Len(effects) : i # Len(effects) => effects'[i].stored = effects[i].stored
    BY <2>5
  <2>8. Len(effects') # Len(effects) + 1
    BY <1>1, <2>5
  <2> QED BY <1>1, <1>4, <2>5, <2>6, <2>7, <2>8 DEF EffectsMoved
<1> QED BY <1>2, <1>3, <1>4 DEF GuardMove, GuardStep, Noted, Aside, Guarded, RegisterScope, Engage, Disengage,
          EffectorReturns, EffectorRaises, StoreFails, Audit, Tick

\* The chain is only appended to.
ChainMoved ==
  /\ Len(chain) \in Nat /\ Len(chain') \in Nat /\ Len(chain) <= Len(chain')
  /\ \A n \in 1..Len(chain) : chain'[n] = chain[n]
  /\ faults \in Seq(Faults) /\ faults' \in Seq(Faults) /\ Failed \subseteq Failed'

\* All new events are plain.
Quietly == \A n \in Len(chain) + 1 .. Len(chain') : chain'[n] \in Plain

\* Logging plain events is quiet.
LEMMA PlainlyLogged ==
  ASSUME GuardTypes, NEW es \in Seq(Plain), Log(es)
  PROVE  ChainMoved /\ Quietly
<1>1. es \in Seq(Event)
  BY DEF Plain
<1>2. PICK k \in 0..Len(es) : GrownBy(es, k)
  BY <1>1, Logged
<1>3. ChainMoved
  BY <1>2 DEF GrownBy, ChainMoved, GuardTypes
<1>4. ASSUME NEW n \in Len(chain) + 1 .. Len(chain') PROVE chain'[n] \in Plain
  <2>1. n - Len(chain) \in 1..k /\ n - Len(chain) \in 1..Len(es) /\ Len(chain) + (n - Len(chain)) = n
    BY <1>2, <1>4 DEF GrownBy
  <2>2. chain'[n] = es[n - Len(chain)]
    BY <1>2, <2>1 DEF GrownBy
  <2> QED BY <2>1, <2>2
<1> QED BY <1>3, <1>4 DEF Quietly

\* One event is appended, or the chain fails and stays as it was.
LEMMA OneLogged ==
  ASSUME GuardTypes, NEW e \in Event, Log(<<e>>)
  PROVE  /\ ChainMoved
         /\ \/ chain' = chain /\ "chain" \in Failed'
            \/ Len(chain') = Len(chain) + 1 /\ chain'[Len(chain) + 1] = e /\ faults' = faults
<1>1. <<e>> \in Seq(Event) /\ Len(<<e>>) = 1
  OBVIOUS
<1>2. CASE chain' = chain \o <<e>> /\ faults' = faults
  BY <1>1, <1>2, ConcatProperties DEF ChainMoved, GuardTypes, Failed
<1>3. CASE Fault("chain") /\ \E n \in 0 .. Len(<<e>>) - 1 : chain' = chain \o SubSeq(<<e>>, 1, n)
  <2>1. chain' = chain
    <3>1. chain' = chain \o SubSeq(<<e>>, 1, 0)
      BY <1>1, <1>3
    <3>2. SubSeq(<<e>>, 1, 0) = <<>>
      BY <1>1
    <3> QED BY <3>1, <3>2 DEF GuardTypes
  <2>2. faults \in Seq(Faults) /\ faults' \in Seq(Faults) /\ "chain" \in Failed' /\ Failed \subseteq Failed'
    BY <1>3, Faulted DEF GuardTypes
  <2> QED BY <2>1, <2>2 DEF ChainMoved, GuardTypes
<1> QED BY <1>2, <1>3 DEF Log

\* Events that claim a switch or an effect come from the actions they name.
LEMMA MoveChain ==
  ASSUME GuardAssumption, GuardTypes, CallsAgree, GuardMove
  PROVE  /\ ChainMoved
         /\ \/ Quietly /\ killed' = killed /\ ~Audit
            \/ \E x \in Scopes \cup {Global} : Engage(x) \/ Disengage(x)
            \/ Audit
<1>1. CASE Noted \/ \E a \in Agents, s \in Scopes, k \in Keys, b \in Bodies, at \in Nat : Guarded(a, s, k, b, at)
  <2>1. call = NoCall /\ killed' = killed /\ ~Audit
    BY <1>1, Records DEF Noted, Guarded, Called, Audit
  <2>2. (\E es \in Seq(Plain) : Log(es)) \/ UNCHANGED <<chain, faults>>
    <3>1. CASE Noted
      BY <3>1 DEF Noted
    <3>2. CASE \E a \in Agents, s \in Scopes, k \in Keys, b \in Bodies, at \in Nat : Guarded(a, s, k, b, at)
      <4>1. (\E es \in Seq(Denials) : Log(es)) \/ UNCHANGED <<chain, faults>>
        BY <3>2, Decided DEF TurnedDown, LetThrough
      <4>2. ASSUME NEW es \in Seq(Denials), Log(es) PROVE \E xs \in Seq(Plain) : Log(xs)
        <5>1. es \in Seq(Plain)
          BY DEF Denials, Plain
        <5> QED BY <4>2, <5>1
      <4> QED BY <4>1, <4>2
    <3> QED BY <1>1, <3>1, <3>2
  <2>3. ChainMoved /\ Quietly
    <3>1. CASE UNCHANGED <<chain, faults>>
      <4>1. Len(chain) \in Nat /\ ChainMoved
        BY <3>1 DEF ChainMoved, GuardTypes, Failed
      <4> QED BY <3>1, <4>1 DEF Quietly
    <3> QED BY <2>2, <3>1, PlainlyLogged
  <2> QED BY <2>1, <2>3
<1>2. ASSUME NEW x \in Scopes \cup {Global}, Engage(x) \/ Disengage(x)
      PROVE  ChainMoved
  <2>1. E("engaged", "operator", x) \in Event /\ E("disengaged", "operator", x) \in Event
    BY Records
  <2> QED BY <1>2, <2>1, OneLogged DEF Engage, Disengage
<1>3. CASE Audit
  <2>1. E("allowed", call.agent, call.scope) \in Event
    BY <1>3, Calling, Records DEF Audit
  <2> QED BY <1>3, <2>1, OneLogged DEF Audit
<1>4. CASE \/ Aside \/ Tick \/ StoreResponse \/ StoreFails \/ EffectorReturns \/ EffectorRaises
           \/ \E s \in Scopes : RegisterScope(s)
  <2>1. UNCHANGED <<chain, killed>> /\ (faults' = faults \/ Fault("store") \/ Fault("effector"))
    BY <1>4 DEF Aside, Tick, StoreResponse, StoreFails, EffectorReturns, EffectorRaises, RegisterScope
  <2>1a. faults \in Seq(Faults) /\ faults' \in Seq(Faults) /\ Failed \subseteq Failed'
    <3>1. CASE faults' = faults
      BY <3>1 DEF GuardTypes, Failed
    <3> QED BY <2>1, <3>1, Faulted DEF GuardTypes
  <2>2. Len(chain) \in Nat /\ ChainMoved
    BY <2>1, <2>1a DEF ChainMoved, GuardTypes
  <2>3. Audit => FALSE
    <3>1. CASE Aside \/ Tick \/ \E s \in Scopes : RegisterScope(s)
      <4> SUFFICES ASSUME Audit PROVE FALSE
        OBVIOUS
      <4>1. call \in CallRec /\ call' = NoCall /\ call # NoCall
        BY Calling DEF Audit
      <4> QED BY <3>1, <4>1 DEF Aside, Tick, RegisterScope
    <3> QED BY <1>4, <3>1 DEF Audit, StoreResponse, StoreFails, EffectorReturns, EffectorRaises
  <2> QED BY <2>1, <2>2, <2>3 DEF Quietly
<1> QED BY <1>1, <1>2, <1>3, <1>4 DEF GuardMove, GuardStep
-----------------------------------------------------------------------------
\* No effect was halted when it happened.
Unhalted == \A i \in DOMAIN effects :
  \A x \in {Global, effects[i].scope} : ~EngagedAt(x, effects[i].pos)

\* The switches the events tell are engaged, a call in progress is halted by none,
\* and no effect was.
Stopped ==
  /\ \A x \in Scopes \cup {Global} : EngagedAt(x, Len(chain)) => x \in killed
  /\ call.pc = "effector" => {Global, call.scope} \cap killed = {}
  /\ Unhalted

\* What the first events tell does not change.
LEMMA EngagedEarlier ==
  ASSUME ChainMoved, NEW x, NEW n \in 0..Len(chain), EngagedAt(x, n)'
  PROVE  EngagedAt(x, n)
<1>1. PICK k \in 1..n : /\ chain'[k].type = "engaged" /\ chain'[k].scope = x
                        /\ \A j \in k+1..n : ~(chain'[j].type = "disengaged" /\ chain'[j].scope = x)
  BY DEF EngagedAt
<1>2. \A j \in 1..n : chain'[j] = chain[j]
  BY DEF ChainMoved
<1>3. k+1..n \subseteq 1..n
  OBVIOUS
<1> QED BY <1>1, <1>2, <1>3 DEF EngagedAt

\* Only Proceed begins a call.
LEMMA CallStays ==
  ASSUME GuardTypes, GuardStep \/ Noted \/ Aside, call'.pc = "effector"
  PROVE  call' = call /\ UNCHANGED <<now, killed, chain, effects>>
<1>1. NoCall.pc = "idle"
  BY DEF NoCall
<1>2. call' # NoCall
  BY <1>1
<1>3. CASE StoreResponse \/ EffectorReturns
  <2>1. call \in CallRec
    BY <1>3, Calling DEF StoreResponse, EffectorReturns
  <2>2. call'.pc # "effector"
    BY <1>3, <2>1 DEF CallRec, StoreResponse, EffectorReturns
  <2> QED BY <2>2
<1>4. CASE \E x \in Scopes \cup {Global} : Engage(x) \/ Disengage(x)
  BY <1>2, <1>4 DEF Engage, Disengage, Operator1
<1> QED BY <1>1, <1>2, <1>3, <1>4
        DEF GuardStep, RegisterScope, EffectorRaises, StoreFails, Audit, Tick, Noted, Aside

\* The kill switch halts: a call passes its check and takes effect in one turn, and
\* every engaging is in the chain when the chain does not fail.
LEMMA StoppedKept ==
  ASSUME GuardAssumption, GuardTypes, CallsAgree, "chain" \notin Failed', Stopped, GuardMove
  PROVE  Stopped'
<1>1. ChainMoved /\ EffectsMoved
  BY MoveChain, MoveEffects
<1>2. ASSUME NEW x \in Scopes \cup {Global}, EngagedAt(x, Len(chain))', x \notin killed'
      PROVE  FALSE
  <2>1. PICK k \in 1..Len(chain') :
          /\ chain'[k].type = "engaged" /\ chain'[k].scope = x
          /\ \A j \in k+1..Len(chain') : ~(chain'[j].type = "disengaged" /\ chain'[j].scope = x)
    BY <1>2 DEF EngagedAt
  <2>2. k \in 1..Len(chain) => x \in killed
    <3> SUFFICES ASSUME k \in 1..Len(chain) PROVE x \in killed
      OBVIOUS
    <3>1. chain[k] = chain'[k] /\ \A j \in k+1..Len(chain) : chain[j] = chain'[j] /\ j \in k+1..Len(chain')
      BY <1>1 DEF ChainMoved
    <3>2. EngagedAt(x, Len(chain))
      BY <2>1, <3>1 DEF EngagedAt
    <3> QED BY <3>2 DEF Stopped
  <2>3. k \in 1..Len(chain) \/ k \in Len(chain) + 1 .. Len(chain')
    BY <1>1, <2>1 DEF ChainMoved
  <2>4. CASE Quietly /\ killed' = killed
    BY <1>2, <2>1, <2>2, <2>3, <2>4 DEF Quietly, Plain
  <2>5. ASSUME NEW y \in Scopes \cup {Global}, Engage(y)
        PROVE  FALSE
    <3>1. /\ killed' = killed \cup {y} /\ Len(chain') = Len(chain) + 1
          /\ chain'[Len(chain) + 1] = E("engaged", "operator", y)
      <4>1. E("engaged", "operator", y) \in Event
        BY Records
      <4> QED BY <2>5, <4>1, OneLogged DEF Engage
    <3>2. chain'[Len(chain) + 1].scope = y
      BY <3>1 DEF E
    <3>3. k = Len(chain) + 1
      BY <1>1, <1>2, <2>2, <2>3, <3>1 DEF ChainMoved
    <3> QED BY <1>2, <2>1, <3>1, <3>2, <3>3
  <2>6. ASSUME NEW y \in Scopes \cup {Global}, Disengage(y)
        PROVE  FALSE
    <3>1. /\ killed' = killed \ {y} /\ Len(chain') = Len(chain) + 1
          /\ chain'[Len(chain) + 1] = E("disengaged", "operator", y)
      <4>1. E("disengaged", "operator", y) \in Event
        BY Records
      <4> QED BY <2>6, <4>1, OneLogged DEF Disengage
    <3>2. chain'[Len(chain) + 1].scope = y /\ chain'[Len(chain) + 1].type = "disengaged"
      BY <3>1 DEF E
    <3>3. k \in 1..Len(chain)
      BY <1>1, <2>1, <2>3, <3>1, <3>2 DEF ChainMoved
    <3>4. Len(chain) + 1 \in k+1..Len(chain')
      BY <1>1, <3>1, <3>3 DEF ChainMoved
    <3> QED BY <1>2, <2>1, <2>2, <3>1, <3>2, <3>3, <3>4
  <2>7. CASE Audit
    <3>1. /\ killed' = killed /\ Len(chain') = Len(chain) + 1
          /\ chain'[Len(chain) + 1].type = "allowed"
      <4>1. E("allowed", call.agent, call.scope) \in Event /\ E("allowed", call.agent, call.scope).type = "allowed"
        BY <2>7, Calling, Records DEF Audit
      <4> QED BY <2>7, <4>1, OneLogged DEF Audit
    <3>2. k \in 1..Len(chain)
      BY <1>1, <2>1, <2>3, <3>1 DEF ChainMoved
    <3> QED BY <1>2, <2>2, <3>1, <3>2
  <2> QED BY <2>4, <2>5, <2>6, <2>7, MoveChain
<1>3. ASSUME call'.pc = "effector" PROVE {Global, call'.scope} \cap killed' = {}
  <2>1. ASSUME NEW a \in Agents, NEW s \in Scopes, NEW k \in Keys, NEW b \in Bodies, NEW at \in Nat,
               Guarded(a, s, k, b, at)
        PROVE  {Global, call'.scope} \cap killed' = {}
    BY <1>3, <2>1, Decided DEF TurnedDown, LetThrough, NoCall
  <2>2. CASE GuardStep \/ Noted \/ Aside
    <3>1. call' = call /\ killed' = killed
      BY <1>3, <2>2, CallStays
    <3> QED BY <1>3, <3>1 DEF Stopped
  <2> QED BY <2>1, <2>2 DEF GuardMove
<1>4. ASSUME NEW i \in DOMAIN effects', NEW x \in {Global, effects'[i].scope}, EngagedAt(x, effects[i].pos)'
      PROVE  FALSE
  <2>1. i \in 1..Len(effects) \/ (i = Len(effects) + 1 /\ Len(effects') = Len(effects) + 1)
    <3>1. i \in 1..Len(effects')
      BY <1>4, MoveTypes DEF GuardTypes
    <3> QED BY <1>1, <3>1 DEF EffectsMoved
  <2>2. CASE i \in 1..Len(effects)
    <3>1. effects'[i].pos = effects[i].pos /\ effects'[i].scope = effects[i].scope
      BY <1>1, <2>2 DEF EffectsMoved
    <3>2. effects[i].pos \in 0..Len(chain)
      <4>1. effects[i] \in EffectRec
        BY <2>2 DEF GuardTypes
      <4> QED BY <2>2, <4>1 DEF EffectRec, CallsAgree, GuardTypes
    <3>3. PICK p \in 0..Len(chain) : p = effects[i].pos
      BY <3>2
    <3>4. EngagedAt(x, p)'
      BY <1>4, <3>1, <3>3 DEF EngagedAt
    <3>5. EngagedAt(x, p)
      BY <1>1, <3>4, EngagedEarlier
    <3> QED BY <1>4, <2>2, <3>1, <3>3, <3>5 DEF Stopped, Unhalted, GuardTypes
  <2>3. CASE i = Len(effects) + 1 /\ Len(effects') = Len(effects) + 1
    <3>1. NewEffect(effects'[i])
      BY <1>1, <2>3 DEF EffectsMoved
    <3>2. effects'[i].pos = Len(chain) /\ x \in {Global, call.scope} /\ call.pc = "effector" /\ chain' = chain
      BY <1>4, <3>1 DEF NewEffect
    <3>3. EngagedAt(x, Len(chain))
      BY <1>4, <3>2 DEF EngagedAt
    <3>4. x \in Scopes \cup {Global}
      BY <3>2, Calling
    <3> QED BY <3>2, <3>3, <3>4 DEF Stopped
  <2> QED BY <2>1, <2>2, <2>3
<1> QED BY <1>2, <1>3, <1>4 DEF Stopped, Unhalted
-----------------------------------------------------------------------------
\* An effect of the agent that is not yet in the chain; the record counts it.
Debt(a) == IF call.pc \in {"store", "audit"} /\ call.agent = a THEN 1 ELSE 0
Recorded == \A a \in Agents :
  Allowed(a) + Debt(a) <= Done(a) /\ (Failed = {} => Allowed(a) + Debt(a) = Done(a))

\* Sets of indices are finite, and the next index is new.
LEMMA Indices ==
  ASSUME NEW n \in Nat, NEW S \in SUBSET (1..n)
  PROVE  /\ IsFiniteSet(S) /\ Cardinality(S) \in Nat
         /\ n + 1 \notin S /\ Cardinality(S \cup {n + 1}) = Cardinality(S) + 1
<1>1. IsFiniteSet(S) /\ Cardinality(S) \in Nat
  <2>1. IsFiniteSet(1..n)
    BY FS_Interval
  <2> QED BY <2>1, FS_Subset, FS_CardinalityType
<1>2. n + 1 \notin S
  OBVIOUS
<1> QED BY <1>1, <1>2, FS_AddElement

\* Only the audit of an agent's call adds to its record.
LEMMA AllowedMoved ==
  ASSUME GuardAssumption, GuardTypes, CallsAgree, GuardMove, NEW a \in Agents
  PROVE  /\ Allowed(a) \in Nat
         /\ \/ Allowed(a)' = Allowed(a) /\ (~Audit \/ call.agent # a \/ Failed' # {})
            \/ Allowed(a)' = Allowed(a) + 1 /\ Audit /\ call.agent = a
<1>1. ChainMoved
  BY MoveChain
<1> DEFINE A == {n \in 1..Len(chain) : chain[n].type = "allowed" /\ chain[n].agent = a}
           B == {n \in 1..Len(chain') : chain'[n].type = "allowed" /\ chain'[n].agent = a}
<1>2. Allowed(a) = Cardinality(A) /\ Allowed(a)' = Cardinality(B)
  <2>1. DOMAIN chain = 1..Len(chain) /\ DOMAIN chain' = 1..Len(chain')
    BY MoveTypes DEF GuardTypes
  <2> QED BY <2>1 DEF Allowed
<1>3. Allowed(a) \in Nat
  BY <1>1, <1>2, Indices DEF ChainMoved
<1>4. ASSUME \A n \in Len(chain) + 1 .. Len(chain') : ~(chain'[n].type = "allowed" /\ chain'[n].agent = a)
      PROVE  A = B
  <2>1. \A n \in B : n \in 1..Len(chain)
    BY <1>1, <1>4 DEF ChainMoved
  <2> QED BY <1>1, <2>1 DEF ChainMoved
<1>5. CASE Quietly /\ ~Audit
  <2>1. A = B
    BY <1>4, <1>5 DEF Quietly, Plain
  <2> QED BY <1>2, <1>3, <1>5, <2>1
<1>6. ASSUME NEW x \in Scopes \cup {Global}, Engage(x) \/ Disengage(x)
      PROVE  Allowed(a)' = Allowed(a) /\ ~Audit
  <2>1. PICK t \in {"engaged", "disengaged"} : Log(<<E(t, "operator", x)>>) /\ call = NoCall
    BY <1>6 DEF Engage, Disengage, Operator1
  <2>2. E(t, "operator", x) \in Event /\ E(t, "operator", x).type = t
    BY Records
  <2>3. \/ chain' = chain
        \/ Len(chain') = Len(chain) + 1 /\ chain'[Len(chain) + 1].type = t
    BY <2>1, <2>2, OneLogged
  <2>4. A = B
    BY <1>1, <1>4, <2>1, <2>3 DEF ChainMoved
  <2>5. ~Audit
    BY <2>1, Records DEF Audit
  <2> QED BY <1>2, <2>4, <2>5
<1>7. CASE Audit
  <2>1. E("allowed", call.agent, call.scope) \in Event /\ E("allowed", call.agent, call.scope).type = "allowed"
        /\ E("allowed", call.agent, call.scope).agent = call.agent
    BY <1>7, Calling, Records DEF Audit
  <2>2. \/ chain' = chain /\ Failed' # {}
        \/ Len(chain') = Len(chain) + 1 /\ chain'[Len(chain) + 1] = E("allowed", call.agent, call.scope)
    BY <1>7, <2>1, OneLogged DEF Audit
  <2>3. CASE chain' = chain /\ Failed' # {}
    BY <1>2, <1>3, <2>3
  <2>4. CASE Len(chain') = Len(chain) + 1 /\ chain'[Len(chain) + 1] = E("allowed", call.agent, call.scope)
    <3>1. CASE call.agent # a
      <4>1. A = B
        BY <1>1, <1>4, <2>1, <2>4, <3>1 DEF ChainMoved
      <4> QED BY <1>2, <1>3, <3>1, <4>1
    <3>2. CASE call.agent = a
      <4>1. B = A \cup {Len(chain) + 1}
        BY <1>1, <2>1, <2>4, <3>2 DEF ChainMoved
      <4>2. Cardinality(A \cup {Len(chain) + 1}) = Cardinality(A) + 1
        BY <1>1, Indices DEF ChainMoved
      <4> QED BY <1>2, <1>3, <1>7, <3>2, <4>1, <4>2
    <3> QED BY <3>1, <3>2
  <2> QED BY <2>2, <2>3, <2>4
<1> QED BY <1>3, <1>5, <1>6, <1>7, MoveChain

\* Only an effect of an agent's call adds to what it has done.
LEMMA DoneMoved ==
  ASSUME GuardTypes, EffectsMoved, effects' \in Seq(EffectRec), NEW a \in Agents
  PROVE  /\ Done(a) \in Nat
         /\ Len(effects') = Len(effects) + 1 /\ call.agent = a => Done(a)' = Done(a) + 1
         /\ Len(effects') = Len(effects) \/ call.agent # a => Done(a)' = Done(a)
<1> DEFINE A == {n \in 1..Len(effects) : effects[n].agent = a}
           B == {n \in 1..Len(effects') : effects'[n].agent = a}
<1>1. Done(a) = Cardinality(A) /\ Done(a)' = Cardinality(B)
  <2>1. DOMAIN effects = 1..Len(effects) /\ DOMAIN effects' = 1..Len(effects')
    BY DEF GuardTypes
  <2> QED BY <2>1 DEF Done
<1>2. Cardinality(A) \in Nat /\ Cardinality(A \cup {Len(effects) + 1}) = Cardinality(A) + 1
  BY Indices DEF EffectsMoved
<1>3. Len(effects) \in Nat /\ \A n \in 1..Len(effects) : effects'[n].agent = effects[n].agent
  BY DEF EffectsMoved
<1>4. CASE Len(effects') = Len(effects)
  <2>1. A = B
    BY <1>3, <1>4
  <2> HIDE DEF A, B
  <2> QED BY <1>1, <1>2, <1>3, <1>4, <2>1
<1>5. CASE Len(effects') = Len(effects) + 1
  <2>1. effects'[Len(effects) + 1].agent = call.agent
    BY <1>5 DEF EffectsMoved, NewEffect
  <2>2. call.agent = a => B = A \cup {Len(effects) + 1}
    BY <1>3, <1>5, <2>1
  <2>3. call.agent # a => B = A
    BY <1>3, <1>5, <2>1
  <2>4. CASE call.agent = a
    <3>1. Cardinality(B) = Cardinality(A) + 1
      BY <1>2, <2>2, <2>4
    <3> HIDE DEF A, B
    <3> QED BY <1>1, <1>2, <1>3, <1>5, <2>4, <3>1
  <2>5. CASE call.agent # a
    <3> HIDE DEF A, B
    <3> QED BY <1>1, <1>2, <1>3, <1>5, <2>3, <2>5
  <2> QED BY <2>4, <2>5
<1> QED BY <1>4, <1>5 DEF EffectsMoved

\* The steps of the request that has passed the checks; the others leave it alone.
CallMoved ==
  \/ call' = call /\ Len(effects') = Len(effects) /\ ~Audit
  \/ /\ call = NoCall /\ Len(effects') = Len(effects) /\ ~Audit
     /\ \E a \in Agents, s \in Scopes, k \in Keys, b \in Bodies, at \in Nat : LetThrough(a, s, k, b, at)
  \/ EffectorReturns /\ Len(effects') = Len(effects) + 1 /\ call'.pc = "store" /\ call'.agent = call.agent
     /\ call'.key = call.key /\ faults' = faults
  \/ EffectorRaises /\ Failed' # {}
  \/ StoreResponse /\ Len(effects') = Len(effects) /\ call'.pc = "audit" /\ call'.agent = call.agent
     /\ faults' = faults
  \/ StoreFails /\ Len(effects') = Len(effects) /\ Failed' # {}
  \/ Audit /\ Len(effects') = Len(effects) /\ call' = NoCall /\ call # NoCall

\* Every move of the guard treats the call so.
LEMMA MoveCall ==
  ASSUME GuardAssumption, GuardTypes, CallsAgree, GuardMove
  PROVE  CallMoved
<1>1. EffectsMoved /\ effects' \in Seq(EffectRec) /\ NoCall.pc = "idle" /\ faults \in Seq(Faults)
  BY MoveEffects, MoveTypes, Records DEF GuardTypes
<1>2. ASSUME NEW a \in Agents, NEW s \in Scopes, NEW k \in Keys, NEW b \in Bodies, NEW at \in Nat,
             Guarded(a, s, k, b, at)
      PROVE  CallMoved
  <2>1. call = NoCall /\ effects' = effects /\ (TurnedDown(a) \/ LetThrough(a, s, k, b, at))
    BY <1>2, Decided
  <2>2. ~Audit
    BY <1>1, <2>1 DEF Audit
  <2> QED BY <2>1, <2>2 DEF CallMoved, TurnedDown
<1>3. CASE Noted \/ Aside \/ Tick \/ (\E s \in Scopes : RegisterScope(s))
           \/ \E x \in Scopes \cup {Global} : Engage(x) \/ Disengage(x)
  <2>1. call' = call /\ effects' = effects
    BY <1>3 DEF Noted, Aside, Tick, RegisterScope, Engage, Disengage
  <2>2. ~Audit
    <3> SUFFICES ASSUME Audit PROVE FALSE
      OBVIOUS
    <3>1. call' = NoCall /\ call # NoCall
      BY Calling DEF Audit
    <3> QED BY <2>1, <3>1
  <2> QED BY <2>1, <2>2 DEF CallMoved
<1>4. CASE EffectorReturns
  <2>1. call \in CallRec /\ call.pc = "effector"
    BY <1>4, Calling DEF EffectorReturns
  <2>2. call' = [call EXCEPT !.pc = "store"] /\ faults' = faults
    BY <1>4 DEF EffectorReturns
  <2>3. call'.pc = "store" /\ call'.agent = call.agent /\ call'.key = call.key
    BY <2>1, <2>2, Records
  <2>4. Len(effects') = Len(effects) + 1
    <3>1. effects' = Append(effects, Effect(FALSE)) /\ effects \in Seq(EffectRec)
      BY <1>4 DEF EffectorReturns, GuardTypes
    <3>2. call.agent \in Agents /\ call.scope \in Scopes /\ call.key \in Keys
      BY <2>1, Calling
    <3>3. Effect(FALSE) \in EffectRec
      BY <3>2 DEF Effect, EffectRec, GuardTypes
    <3> QED BY <3>1, <3>3, AppendProperties
  <2> QED BY <1>4, <2>2, <2>3, <2>4 DEF CallMoved
<1>5. CASE EffectorRaises
  <2>1. Failed' # {}
    BY <1>1, <1>5, Faulted DEF EffectorRaises
  <2> QED BY <1>5, <2>1 DEF CallMoved
<1>6. CASE StoreResponse
  <2>1. call \in CallRec /\ call' = [call EXCEPT !.pc = "audit"] /\ faults' = faults
    BY <1>6, Calling DEF StoreResponse
  <2>2. call'.pc = "audit" /\ call'.agent = call.agent
    BY <2>1, Records
  <2>3. call.pc = "store"
    BY <1>6 DEF StoreResponse
  <2>4. Len(effects') = Len(effects)
    BY <1>1, <2>3 DEF EffectsMoved, NewEffect
  <2> QED BY <1>6, <2>1, <2>2, <2>4 DEF CallMoved
<1>7. CASE StoreFails
  <2>1. Failed' # {} /\ effects' = effects
    BY <1>1, <1>7, Faulted DEF StoreFails
  <2> QED BY <1>7, <2>1 DEF CallMoved
<1>8. CASE Audit
  BY <1>8, Calling DEF CallMoved, Audit
<1> QED BY <1>2, <1>3, <1>4, <1>5, <1>6, <1>7, <1>8 DEF GuardMove, GuardStep

\* The record stays true: an effect, its response and its event follow each other.
LEMMA RecordedKept ==
  ASSUME GuardAssumption, GuardTypes, CallsAgree, Recorded, GuardMove
  PROVE  Recorded'
<1> SUFFICES ASSUME NEW a \in Agents
             PROVE  /\ Allowed(a)' + Debt(a)' <= Done(a)'
                    /\ Failed' = {} => Allowed(a)' + Debt(a)' = Done(a)'
  BY DEF Recorded
<1>1. /\ EffectsMoved /\ effects' \in Seq(EffectRec) /\ NoCall.pc = "idle" /\ faults \in Seq(Faults)
      /\ faults' \in Seq(Faults) /\ Failed \subseteq Failed'
  BY MoveEffects, MoveTypes, MoveChain, Records DEF GuardTypes, ChainMoved
<1>2. /\ Allowed(a) \in Nat /\ Done(a) \in Nat /\ Debt(a) \in {0, 1} /\ Debt(a)' \in {0, 1}
      /\ Allowed(a) + Debt(a) <= Done(a) /\ (Failed = {} => Allowed(a) + Debt(a) = Done(a))
  BY <1>1, AllowedMoved, DoneMoved DEF Recorded, Debt
<1>3. /\ \/ Allowed(a)' = Allowed(a) /\ (~Audit \/ call.agent # a \/ Failed' # {})
         \/ Allowed(a)' = Allowed(a) + 1 /\ Audit /\ call.agent = a
      /\ Len(effects') = Len(effects) + 1 /\ call.agent = a => Done(a)' = Done(a) + 1
      /\ Len(effects') = Len(effects) \/ call.agent # a => Done(a)' = Done(a)
  BY <1>1, AllowedMoved, DoneMoved
<1>4. Failed' = {} => Failed = {}
  BY <1>1
<1>5. CASE call' = call /\ Len(effects') = Len(effects) /\ ~Audit
  <2>1. Debt(a)' = Debt(a)
    BY <1>5 DEF Debt
  <2> QED BY <1>2, <1>3, <1>4, <1>5, <2>1
<1>6. CASE /\ call = NoCall /\ Len(effects') = Len(effects) /\ ~Audit
           /\ \E c \in Agents, s \in Scopes, k \in Keys, b \in Bodies, at \in Nat : LetThrough(c, s, k, b, at)
  <2>1. Debt(a) = 0 /\ Debt(a)' = 0
    BY <1>1, <1>6 DEF Debt, LetThrough
  <2> QED BY <1>2, <1>3, <1>4, <1>6, <2>1
<1>7. CASE EffectorReturns /\ Len(effects') = Len(effects) + 1 /\ call'.pc = "store" /\ call'.agent = call.agent
           /\ faults' = faults
  <2>1. call.pc = "effector" /\ ~Audit
    BY <1>7 DEF EffectorReturns, Audit
  <2>2. Debt(a) = 0 /\ Debt(a)' = IF call.agent = a THEN 1 ELSE 0
    BY <1>7, <2>1 DEF Debt
  <2> QED BY <1>2, <1>3, <1>4, <1>7, <2>1, <2>2
<1>8. CASE EffectorRaises /\ Failed' # {}
  <2>1. call.pc = "effector" /\ ~Audit /\ call'.pc = "idle"
    BY <1>1, <1>8 DEF EffectorRaises, Audit
  <2>2. Debt(a) = 0 /\ Debt(a)' = 0
    BY <2>1 DEF Debt
  <2> QED BY <1>1, <1>2, <1>3, <1>8, <2>1, <2>2 DEF EffectsMoved
<1>9. CASE StoreResponse /\ Len(effects') = Len(effects) /\ call'.pc = "audit" /\ call'.agent = call.agent
           /\ faults' = faults
  <2>1. call.pc = "store" /\ ~Audit
    BY <1>9 DEF StoreResponse, Audit
  <2>2. Debt(a)' = Debt(a)
    BY <1>9, <2>1 DEF Debt
  <2> QED BY <1>2, <1>3, <1>4, <1>9, <2>1, <2>2
<1>10. CASE StoreFails /\ Len(effects') = Len(effects) /\ Failed' # {}
  <2>1. ~Audit /\ call'.pc = "idle"
    BY <1>1, <1>10 DEF StoreFails, Audit
  <2>2. Debt(a)' = 0
    BY <2>1 DEF Debt
  <2> QED BY <1>2, <1>3, <1>10, <2>1, <2>2
<1>11. CASE Audit /\ Len(effects') = Len(effects) /\ call' = NoCall
  <2>1. Debt(a)' = 0 /\ Debt(a) = IF call.agent = a THEN 1 ELSE 0
    BY <1>1, <1>11 DEF Debt, Audit
  <2> QED BY <1>2, <1>3, <1>4, <1>11, <2>1
<1> QED BY <1>5, <1>6, <1>7, <1>8, <1>9, <1>10, <1>11, MoveCall DEF CallMoved
-----------------------------------------------------------------------------
\* A stored effect is past the lifetime of its key, or its key is still in the table;
\* the key of a call in progress is not.
KeysAgree ==
  /\ \A k \in Keys : keys[k].at <= now
  /\ \A i \in 1..Len(effects) : effects[i].stored =>
       \/ now - effects[i].at > KeyTTL
       \/ LET k == effects[i].key IN keys[k] # NoKey /\ keys[k].at >= effects[i].at
  /\ call.pc \in {"effector", "store"} => keys[call.key] = NoKey
  /\ OncePerKey

\* The fields of an effect.
LEMMA EffectFields ==
  ASSUME GuardTypes, NEW i \in 1..Len(effects)
  PROVE  /\ effects[i].agent \in Agents /\ effects[i].scope \in Scopes /\ effects[i].key \in Keys
         /\ effects[i].at \in Nat /\ effects[i].pos \in Nat /\ effects[i].stored \in BOOLEAN
<1>1. effects[i] \in EffectRec
  BY DEF GuardTypes
<1> QED BY <1>1 DEF EffectRec

\* The time of a key.
LEMMA KeyFields ==
  ASSUME GuardTypes, NEW k \in Keys
  PROVE  keys[k].at \in Nat
<1>1. keys[k] \in KeyRec
  BY DEF GuardTypes
<1> QED BY <1>1 DEF KeyRec

\* What the steps do to the keys.
LEMMA MoveKeys ==
  ASSUME GuardAssumption, GuardTypes, CallsAgree, GuardMove
  PROVE  /\ now \in Nat /\ now' \in Nat /\ now <= now' /\ KeyTTL \in Nat
         /\ \/ keys' = keys
            \/ \E a \in Agents, s \in Scopes, k \in Keys, b \in Bodies, at \in Nat : 
                 LetThrough(a, s, k, b, at) /\ call = NoCall /\ now' = now
            \/ StoreResponse /\ call.pc = "store" /\ now' = now /\ call.key \in Keys
               /\ keys'[call.key] # NoKey /\ keys'[call.key].at = now
               /\ \A k \in Keys : k # call.key => keys'[k] = keys[k]
<1>1. KeyTTL \in Nat /\ now \in Nat /\ now' \in Nat
  BY MoveTypes DEF GuardAssumption, GuardTypes
<1>2. now <= now'
  <2>1. now' = now \/ now' = now + 1
    BY DEF GuardMove, GuardStep, Noted, Aside, Guarded, RegisterScope, Engage, Disengage,
           EffectorReturns, EffectorRaises, StoreResponse, StoreFails, Audit, Tick
  <2> QED BY <1>1, <2>1
<1>3. ASSUME NEW a \in Agents, NEW s \in Scopes, NEW k \in Keys, NEW b \in Bodies, NEW at \in Nat,
             Guarded(a, s, k, b, at)
      PROVE  call = NoCall /\ now' = now /\ (keys' = keys \/ LetThrough(a, s, k, b, at))
  BY <1>3, Decided DEF TurnedDown
<1>4. CASE StoreResponse
  <2>1. call.pc = "store" /\ call.key \in Keys /\ call.body \in Bodies /\ now' = now
    BY <1>4, Calling DEF StoreResponse
  <2>2. keys' = [keys EXCEPT ![call.key] = [body |-> call.body, at |-> now]] /\ keys \in [Keys -> KeyRec]
    BY <1>4 DEF StoreResponse, GuardTypes
  <2>3. [body |-> call.body, at |-> now].at = now /\ [body |-> call.body, at |-> now] # NoKey
    BY <2>1 DEF NoKey, GuardAssumption
  <2>4. /\ keys'[call.key] # NoKey /\ keys'[call.key].at = now
        /\ \A k \in Keys : k # call.key => keys'[k] = keys[k]
    BY <2>1, <2>2, <2>3
  <2> QED BY <1>1, <1>2, <1>4, <2>1, <2>4
<1>5. CASE GuardStep \/ Noted \/ Aside
  <2>1. keys' = keys \/ StoreResponse
    BY <1>5 DEF GuardStep, Noted, Aside, RegisterScope, Engage, Disengage,
           EffectorReturns, EffectorRaises, StoreFails, Audit, Tick
  <2> QED BY <1>1, <1>2, <1>4, <2>1
<1> QED BY <1>1, <1>2, <1>3, <1>5 DEF GuardMove

\* No key is repeated within its lifetime.
LEMMA KeysKept ==
  ASSUME GuardAssumption, GuardTypes, CallsAgree, KeysAgree, GuardMove
  PROVE  KeysAgree'
<1>1. EffectsMoved /\ GuardTypes' /\ CallsAgree' /\ CallMoved /\ NoCall.pc = "idle"
  BY MoveEffects, MoveTypes, MoveCall, Records
<1>2. now \in Nat /\ now' \in Nat /\ now <= now' /\ KeyTTL \in Nat
  BY MoveKeys
<1>3. ASSUME NEW k \in Keys PROVE keys'[k].at <= now'
  <2>1. keys[k].at \in Nat /\ keys[k].at <= now
    BY KeyFields DEF KeysAgree
  <2>2. CASE keys' = keys
    BY <1>2, <2>1, <2>2
  <2>3. ASSUME NEW a \in Agents, NEW s \in Scopes, NEW j \in Keys, NEW b \in Bodies, NEW at \in Nat,
               LetThrough(a, s, j, b, at)
        PROVE  keys'[k].at <= now'
    <3>1. keys' = [keys EXCEPT ![j] = NoKey] /\ keys \in [Keys -> KeyRec]
      BY <2>3 DEF LetThrough, GuardTypes
    <3>2. keys'[k] = keys[k] \/ keys'[k] = NoKey
      BY <3>1
    <3> QED BY <1>2, <2>1, <3>2 DEF NoKey
  <2>4. CASE /\ StoreResponse /\ now' = now /\ keys'[call.key].at = now
             /\ \A j \in Keys : j # call.key => keys'[j] = keys[j]
    BY <1>2, <2>1, <2>4
  <2> QED BY <2>2, <2>3, <2>4, MoveKeys
\* A key with an effect of its lifetime stays, and is never the one let through.
<1>4. ASSUME NEW i \in 1..Len(effects), effects[i].stored \/ (i = Len(effects) /\ StoreResponse)
      PROVE  \/ now' - effects[i].at > KeyTTL
             \/ LET k == effects[i].key IN keys'[k] # NoKey /\ keys'[k].at >= effects[i].at
  <2> DEFINE k == effects[i].key
  <2>1. k \in Keys /\ effects[i].at \in Nat /\ keys[k].at \in Nat /\ effects[i].at <= now
    BY EffectFields, KeyFields DEF CallsAgree
  <2>2. ~(i = Len(effects) /\ StoreResponse) => \/ now - effects[i].at > KeyTTL
                                                \/ keys[k] # NoKey /\ keys[k].at >= effects[i].at
    BY <1>4 DEF KeysAgree
  <2> HIDE DEF k
  <2>3. CASE keys' = keys /\ ~StoreResponse
    BY <1>2, <2>1, <2>2, <2>3 DEF k
  <2>4. CASE \E a \in Agents, s \in Scopes, j \in Keys, b \in Bodies, at \in Nat : 
               LetThrough(a, s, j, b, at) /\ call = NoCall /\ now' = now
    <3>1. PICK j \in Keys : /\ keys' = [keys EXCEPT ![j] = NoKey] /\ (keys[j] = NoKey \/ Expired(j))
                            /\ call = NoCall /\ now' = now
      BY <2>4 DEF LetThrough
    <3>2. ~StoreResponse
      BY <1>1, <3>1 DEF StoreResponse
    <3>3. CASE k # j
      <4>1. keys'[k] = keys[k]
        BY <2>1, <3>1, <3>3 DEF GuardTypes
      <4> QED BY <2>2, <3>1, <3>2, <4>1 DEF k
    <3>4. CASE k = j
      BY <1>2, <2>1, <2>2, <3>1, <3>2, <3>4 DEF Expired
    <3> QED BY <3>3, <3>4
  <2>5. CASE /\ StoreResponse /\ call.pc = "store" /\ now' = now /\ call.key \in Keys
             /\ keys'[call.key] # NoKey /\ keys'[call.key].at = now
             /\ \A j \in Keys : j # call.key => keys'[j] = keys[j]
    <3>1. CASE k = call.key
      BY <2>1, <2>5, <3>1 DEF k
    <3>2. CASE k # call.key
      <4>1. i # Len(effects)
        BY <2>5, <3>2 DEF CallsAgree, k
      <4>2. keys'[k] = keys[k]
        BY <2>1, <2>5, <3>2
      <4> QED BY <2>2, <2>5, <4>1, <4>2 DEF k
    <3> QED BY <3>1, <3>2
  <2>6. keys' = keys => ~StoreResponse \/ now' - effects[i].at > KeyTTL
                        \/ (keys'[k] # NoKey /\ keys'[k].at >= effects[i].at)
    <3> SUFFICES ASSUME keys' = keys, StoreResponse PROVE FALSE
      BY DEF k
    <3>1. call.pc = "store" /\ keys[call.key] = NoKey /\ call.key \in Keys /\ call.body \in Bodies
      BY Calling DEF StoreResponse, KeysAgree
    <3>2. keys'[call.key] = [body |-> call.body, at |-> now]
      BY <3>1 DEF StoreResponse, GuardTypes
    <3> QED BY <3>1, <3>2 DEF NoKey, GuardAssumption
  <2>7. CASE keys' = keys
    BY <2>3, <2>6, <2>7 DEF k
  <2> QED BY <2>4, <2>5, <2>7, MoveKeys
<1>5. ASSUME NEW i \in 1..Len(effects'), effects'[i].stored
      PROVE  \/ now' - effects'[i].at > KeyTTL
             \/ LET k == effects'[i].key IN keys'[k] # NoKey /\ keys'[k].at >= effects'[i].at
  <2>1. i \in 1..Len(effects)
    <3>1. ~(i = Len(effects) + 1 /\ Len(effects') = Len(effects) + 1)
      BY <1>1, <1>5 DEF EffectsMoved, NewEffect
    <3> QED BY <1>1, <3>1 DEF EffectsMoved
  <2>2. /\ effects'[i].at = effects[i].at /\ effects'[i].key = effects[i].key
        /\ effects[i].stored \/ (i = Len(effects) /\ StoreResponse)
    BY <1>1, <1>5, <2>1 DEF EffectsMoved
  <2> QED BY <1>4, <2>1, <2>2
<1>6. call'.pc \in {"effector", "store"} => keys'[call'.key] = NoKey
  <2>1. CASE call' = call /\ ~Audit
    <3>1. keys' = keys \/ call' # call \/ call.pc = "idle"
      <4>1. StoreResponse => call' # call
        <5> SUFFICES ASSUME StoreResponse PROVE call' # call
          OBVIOUS
        <5>1. call \in CallRec /\ call.pc = "store" /\ call' = [call EXCEPT !.pc = "audit"]
          BY Calling DEF StoreResponse
        <5>2. call'.pc = "audit"
          BY <5>1, Records
        <5> QED BY <5>1, <5>2
      <4> QED BY <1>1, <4>1, MoveKeys
    <3> QED BY <2>1, <3>1 DEF KeysAgree
  <2>2. CASE \E a \in Agents, s \in Scopes, k \in Keys, b \in Bodies, at \in Nat : LetThrough(a, s, k, b, at)
    BY <2>2 DEF LetThrough, GuardTypes
  <2>3. CASE EffectorReturns /\ call'.key = call.key
    BY <2>3 DEF EffectorReturns, KeysAgree
  <2>4. CASE StoreResponse /\ call'.pc = "audit"
    BY <2>4
  <2>5. CASE EffectorRaises \/ StoreFails \/ Audit
    BY <1>1, <2>5 DEF EffectorRaises, StoreFails, Audit
  <2> QED BY <1>1, <2>1, <2>2, <2>3, <2>4, <2>5 DEF CallMoved
<1>7. ASSUME NEW j \in DOMAIN effects', NEW i \in DOMAIN effects',
             i < j, effects'[i].key = effects'[j].key, effects'[i].stored
      PROVE  effects'[j].at - effects'[i].at > KeyTTL
  <2>1. j \in 1..Len(effects') /\ i \in 1..Len(effects') /\ Len(effects) \in Nat
    BY <1>1, <1>7 DEF GuardTypes
  <2>2. (i \in 1..Len(effects) /\ i # Len(effects)) \/ j = Len(effects) + 1
    BY <1>1, <1>7, <2>1 DEF EffectsMoved
  <2>3. i \in 1..Len(effects) /\ effects'[i].at = effects[i].at /\ effects'[i].key = effects[i].key
    BY <1>1, <1>7, <2>1 DEF EffectsMoved
  <2>4. CASE j \in 1..Len(effects)
    <3>1. effects[i].key = effects[j].key /\ effects'[j].at = effects[j].at
      BY <1>1, <1>7, <2>3, <2>4 DEF EffectsMoved
    <3>1a. effects[i].stored
      <4>1. i # Len(effects)
        BY <1>7, <2>1, <2>3, <2>4
      <4> QED BY <1>1, <1>7, <2>3, <4>1 DEF EffectsMoved
    <3>2. i \in DOMAIN effects /\ j \in DOMAIN effects
      BY <2>3, <2>4 DEF GuardTypes
    <3> QED BY <1>7, <2>3, <3>1, <3>1a, <3>2 DEF KeysAgree, OncePerKey
  <2>5. CASE j = Len(effects) + 1 /\ Len(effects') = Len(effects) + 1
    <3>1. NewEffect(effects'[j])
      BY <1>1, <2>5 DEF EffectsMoved
    <3>2. effects'[j].at = now /\ effects'[j].key = call.key /\ keys[call.key] = NoKey /\ call.pc = "effector"
      BY <3>1 DEF NewEffect, KeysAgree
    <3>3. effects[i].stored
      BY <1>1, <1>7, <2>3, <3>2 DEF EffectsMoved, StoreResponse
    <3> QED BY <1>7, <2>3, <3>2, <3>3 DEF KeysAgree
  <2> QED BY <1>1, <2>1, <2>4, <2>5 DEF EffectsMoved
<1> QED BY <1>3, <1>5, <1>6, <1>7 DEF KeysAgree, OncePerKey
-----------------------------------------------------------------------------
\* What a principal did, and was admitted to, from time t on.
EffectsSince(a, t) == {i \in 1..Len(effects) : effects[i].agent = a /\ effects[i].at >= t}
HitsSince(a, t) == {h \in hits[a] : h[1] >= t}
\* The effect its call in progress may still have.
Pending(a) == IF call.pc = "effector" /\ call.agent = a THEN 1 ELSE 0

\* From each moment of the last minute on, a principal has no more effects than hits,
\* and no more hits than the limit.
RateAgrees ==
  /\ \A a \in Agents : Cardinality(Window(a)) <= RateLimit
  /\ \A a \in Agents, t \in Nat : t <= now /\ now - t < Minute =>
       Cardinality(EffectsSince(a, t)) + Pending(a) <= Cardinality(HitsSince(a, t))
  /\ RateHolds

\* The fields of a hit.
LEMMA HitTimes ==
  ASSUME GuardTypes, CallsAgree, NEW a \in Agents
  PROVE  /\ IsFiniteSet(hits[a])
         /\ \A h \in hits[a] : h[1] \in Nat /\ h[2] \in Nat /\ h[1] <= now /\ h[2] < calls
         /\ now \in Nat /\ calls \in Nat
<1>1. hits[a] \in SUBSET (Nat \X Nat)
  BY DEF GuardTypes
<1> QED BY <1>1 DEF CallsAgree, GuardTypes

\* What the steps do to the hits of a principal.
LEMMA MoveHits ==
  ASSUME GuardAssumption, GuardTypes, CallsAgree, GuardMove, NEW a \in Agents
  PROVE  \/ hits'[a] = hits[a]
         \/ now' = now /\ hits'[a] = Window(a)
         \/ /\ now' = now /\ hits'[a] = Window(a) \cup {<<now, calls>>}
            /\ Cardinality(Window(a)) < RateLimit
<1>1. CASE GuardStep \/ Noted \/ Aside
  <2>1. hits' = hits
    BY <1>1 DEF GuardStep, Noted, Aside, RegisterScope, Engage, Disengage,
           EffectorReturns, EffectorRaises, StoreResponse, StoreFails, Audit, Tick
  <2> QED BY <2>1
<1>2. ASSUME NEW c \in Agents, NEW s \in Scopes, NEW k \in Keys, NEW b \in Bodies, NEW at \in Nat,
             Guarded(c, s, k, b, at)
      PROVE  \/ hits'[a] = hits[a]
             \/ now' = now /\ hits'[a] = Window(a)
             \/ /\ now' = now /\ hits'[a] = Window(a) \cup {<<now, calls>>}
                /\ Cardinality(Window(a)) < RateLimit
  <2>1. now' = now /\ (Hit(c) \/ Kept(c)) /\ hits \in [Agents -> SUBSET (Nat \X Nat)]
    BY <1>2, Decided DEF TurnedDown, LetThrough, GuardTypes
  <2>2. CASE hits' = hits
    BY <2>2
  <2>3. CASE hits' = [hits EXCEPT ![c] = Window(c)]
    BY <2>1, <2>3
  <2>4. CASE Hit(c)
    <3>1. hits' = [hits EXCEPT ![c] = Window(c) \cup {<<now, calls>>}] /\ Cardinality(Window(c)) < RateLimit
      BY <2>4 DEF Hit
    <3> QED BY <2>1, <3>1
  <2> QED BY <2>1, <2>2, <2>3, <2>4 DEF Kept
<1> QED BY <1>1, <1>2 DEF GuardMove

\* Inside the minute no hit is dropped, and an admission adds one.
LEMMA HitsCount ==
  ASSUME GuardAssumption, GuardTypes, CallsAgree, GuardMove, NEW a \in Agents, NEW t \in Nat, now - t < Minute
  PROVE  /\ Cardinality(HitsSince(a, t)) \in Nat /\ Cardinality(HitsSince(a, t)') \in Nat
         /\ Cardinality(HitsSince(a, t)) <= Cardinality(HitsSince(a, t)')
         /\ t <= now /\ hits'[a] = Window(a) \cup {<<now, calls>>} =>
              Cardinality(HitsSince(a, t)') = Cardinality(HitsSince(a, t)) + 1
<1> DEFINE A == HitsSince(a, t)
           B == HitsSince(a, t)'
           new == <<now, calls>>
<1>1. /\ IsFiniteSet(hits[a]) /\ now \in Nat /\ Minute \in Nat
      /\ \A h \in hits[a] : h[1] \in Nat /\ h[2] \in Nat /\ h[1] <= now /\ h[2] < calls
  BY HitTimes DEF GuardAssumption
<1>2. IsFiniteSet(A) /\ Cardinality(A) \in Nat
  <2>1. A \in SUBSET hits[a]
    BY DEF HitsSince
  <2> QED BY <1>1, <2>1, FS_Subset, FS_CardinalityType
<1>3. \A h \in A : h \in Window(a)
  BY <1>1 DEF HitsSince, Window
<1>4. new \notin A
  BY WindowTypes, <1>3
<1>5. IsFiniteSet(A \cup {new}) /\ Cardinality(A \cup {new}) = Cardinality(A) + 1
  BY <1>2, <1>4, FS_AddElement
<1>6. CASE hits'[a] = hits[a] \/ hits'[a] = Window(a)
  <2>1. A = B
    BY <1>3, <1>6 DEF HitsSince, Window
  <2>2. hits'[a] # Window(a) \cup {new}
    BY <1>1, <1>6, WindowTypes
  <2> QED BY <1>2, <2>1, <2>2
<1>7. CASE hits'[a] = Window(a) \cup {new}
  <2>1. new[1] = now /\ \A h \in Window(a) : h \in hits[a]
    BY DEF Window
  <2>2. CASE t <= now
    <3>1. B = A \cup {new}
      BY <1>3, <1>7, <2>1, <2>2 DEF HitsSince
    <3>2. Cardinality(B) = Cardinality(A) + 1
      BY <1>5, <3>1
    <3> HIDE DEF A, B
    <3>3. Cardinality(A) <= Cardinality(B) /\ Cardinality(B) \in Nat
      BY <1>2, <3>2
    <3> QED BY <1>2, <3>2, <3>3 DEF A, B
  <2>3. CASE ~(t <= now)
    <3>1. A = B
      BY <1>1, <1>3, <1>7, <2>1, <2>3 DEF HitsSince
    <3> QED BY <1>2, <2>3, <3>1
  <2> QED BY <2>2, <2>3
<1> QED BY <1>6, <1>7, MoveHits

\* A call adds at most one effect, of its own agent.
LEMMA EffectsCount ==
  ASSUME GuardTypes, EffectsMoved, effects' \in Seq(EffectRec), NEW a \in Agents, NEW t \in Nat
  PROVE  /\ Cardinality(EffectsSince(a, t)) \in Nat /\ Cardinality(EffectsSince(a, t)') \in Nat
         /\ Len(effects') = Len(effects) \/ call.agent # a =>
              Cardinality(EffectsSince(a, t)') = Cardinality(EffectsSince(a, t))
         /\ Cardinality(EffectsSince(a, t)') <= Cardinality(EffectsSince(a, t)) + 1
<1> DEFINE A == EffectsSince(a, t)
           B == EffectsSince(a, t)'
<1>1. /\ A \in SUBSET (1..Len(effects)) /\ B \in SUBSET (1..Len(effects')) /\ Len(effects) \in Nat
      /\ Len(effects') \in Nat
  BY DEF EffectsSince, EffectsMoved
<1>2. /\ Cardinality(A) \in Nat /\ Cardinality(B) \in Nat /\ IsFiniteSet(A)
      /\ Cardinality(A \cup {Len(effects) + 1}) = Cardinality(A) + 1
      /\ IsFiniteSet(A \cup {Len(effects) + 1})
  <2>1. /\ Cardinality(A) \in Nat /\ IsFiniteSet(A)
        /\ Cardinality(A \cup {Len(effects) + 1}) = Cardinality(A) + 1
    BY <1>1, Indices
  <2>2. Cardinality(B) \in Nat
    BY <1>1, Indices
  <2>3. IsFiniteSet(A \cup {Len(effects) + 1})
    BY <2>1, FS_AddElement
  <2> QED BY <2>1, <2>2, <2>3
<1>3. \A n \in 1..Len(effects) : effects'[n].agent = effects[n].agent /\ effects'[n].at = effects[n].at
  BY DEF EffectsMoved
<1>4. CASE Len(effects') = Len(effects)
  <2>1. A = B
    BY <1>3, <1>4 DEF EffectsSince
  <2>2. Cardinality(A) = Cardinality(B)
    BY <2>1
  <2> HIDE DEF A, B
  <2>3. Cardinality(B) <= Cardinality(A) + 1
    BY <1>2, <2>2
  <2> QED BY <1>2, <2>2, <2>3 DEF A, B
<1>5. CASE Len(effects') = Len(effects) + 1
  <2>1. effects'[Len(effects) + 1].agent = call.agent
    BY <1>5 DEF EffectsMoved, NewEffect
  <2>2. CASE call.agent # a
    <3>1. A = B
      BY <1>1, <1>3, <1>5, <2>1, <2>2 DEF EffectsSince
    <3>2. Cardinality(A) = Cardinality(B)
      BY <3>1
    <3> HIDE DEF A, B
    <3>3. Cardinality(B) <= Cardinality(A) + 1
      BY <1>2, <3>2
    <3> QED BY <1>2, <3>2, <3>3 DEF A, B
  <2>3. CASE call.agent = a
    <3>1. B \in SUBSET (A \cup {Len(effects) + 1})
      BY <1>1, <1>3, <1>5 DEF EffectsSince
    <3>2. Cardinality(B) <= Cardinality(A \cup {Len(effects) + 1})
      BY <1>2, <3>1, FS_Subset
    <3>3. Len(effects') # Len(effects)
      BY <1>1, <1>5
    <3> HIDE DEF A, B
    <3>4. Cardinality(B) <= Cardinality(A) + 1
      BY <1>2, <3>2
    <3> QED BY <1>2, <2>3, <3>3, <3>4 DEF A, B
  <2> QED BY <2>2, <2>3
<1> QED BY <1>4, <1>5 DEF EffectsMoved

\* The window holds no more hits than the limit.
LEMMA WindowKept ==
  ASSUME GuardAssumption, GuardTypes, CallsAgree, GuardMove, NEW a \in Agents,
         Cardinality(Window(a)) <= RateLimit
  PROVE  Cardinality(Window(a)') <= RateLimit
<1>1. /\ IsFiniteSet(Window(a)) /\ Cardinality(Window(a)) \in Nat /\ <<now, calls>> \notin Window(a)
      /\ RateLimit \in Nat /\ now \in Nat /\ now' \in Nat /\ now <= now' /\ Minute \in Nat
      /\ \A h \in hits[a] : h[1] \in Nat
  BY WindowTypes, HitTimes, MoveKeys DEF GuardAssumption
<1>2. CASE hits'[a] = hits[a] \/ hits'[a] = Window(a)
  <2>1. Window(a)' \in SUBSET Window(a)
    <3>1. ASSUME NEW h \in Window(a)' PROVE h \in Window(a)
      <4>1. h \in hits[a] /\ now' - h[1] < Minute
        BY <1>2 DEF Window
      <4> QED BY <1>1, <4>1 DEF Window
    <3> QED BY <3>1
  <2> HIDE DEF Window
  <2>2. Cardinality(Window(a)') <= Cardinality(Window(a)) /\ Cardinality(Window(a)') \in Nat
    BY <1>1, <2>1, FS_Subset, FS_CardinalityType
  <2> QED BY <1>1, <2>2
<1>3. CASE now' = now /\ hits'[a] = Window(a) \cup {<<now, calls>>} /\ Cardinality(Window(a)) < RateLimit
  <2>1. Window(a)' \in SUBSET (Window(a) \cup {<<now, calls>>})
    BY <1>3 DEF Window
  <2>2. /\ IsFiniteSet(Window(a) \cup {<<now, calls>>})
        /\ Cardinality(Window(a) \cup {<<now, calls>>}) = Cardinality(Window(a)) + 1
    BY <1>1, FS_AddElement
  <2>3. /\ Cardinality(Window(a)') <= Cardinality(Window(a) \cup {<<now, calls>>})
        /\ Cardinality(Window(a)') \in Nat
    BY <2>1, <2>2, FS_Subset, FS_CardinalityType
  <2> QED BY <1>1, <1>3, <2>2, <2>3
<1> QED BY <1>2, <1>3, MoveHits

\* Every effect is paid for by a hit.
LEMMA PendingKept ==
  ASSUME GuardAssumption, GuardTypes, CallsAgree, RateAgrees, GuardMove, NEW a \in Agents,
         NEW t \in Nat, t <= now', now' - t < Minute
  PROVE  Cardinality(EffectsSince(a, t)') + Pending(a)' <= Cardinality(HitsSince(a, t)')
<1>1. /\ EffectsMoved /\ effects' \in Seq(EffectRec) /\ GuardTypes' /\ CallsAgree' /\ CallMoved
      /\ NoCall.pc = "idle"
  BY MoveEffects, MoveTypes, MoveCall, Records DEF GuardTypes
<1>2. now \in Nat /\ now' \in Nat /\ now <= now' /\ Minute \in Nat
  BY MoveKeys DEF GuardAssumption
<1>2a. now - t < Minute
  <2>1. ASSUME NEW m \in Nat, NEW n \in Nat, NEW w \in Nat, n <= m, m - t < w PROVE n - t < w
    BY <2>1
  <2> QED BY <1>2, <2>1
<1>2b. Pending(a) \in {0, 1} /\ Pending(a)' \in {0, 1}
  BY DEF Pending
<1> DEFINE A == Cardinality(EffectsSince(a, t))
           B == Cardinality(EffectsSince(a, t)')
           H == Cardinality(HitsSince(a, t))
           J == Cardinality(HitsSince(a, t)')
<1>3. /\ A \in Nat /\ B \in Nat /\ B <= A + 1
      /\ Len(effects') = Len(effects) \/ call.agent # a => B = A
  BY <1>1, EffectsCount
<1>4. /\ H \in Nat /\ J \in Nat /\ H <= J
      /\ t <= now /\ hits'[a] = Window(a) \cup {<<now, calls>>} => J = H + 1
  BY <1>2a, HitsCount
<1>5. CASE t <= now
  <2>1. A + Pending(a) <= H
    BY <1>2a, <1>5 DEF RateAgrees
  <2> HIDE DEF A, B, H, J
  <2>2. CASE call' = call /\ Len(effects') = Len(effects)
    <3>1. Pending(a)' = Pending(a)
      BY <2>2 DEF Pending
    <3> QED BY <1>2b, <1>3, <1>4, <2>1, <2>2, <3>1 DEF B, J
  <2>3. ASSUME NEW c \in Agents, NEW s \in Scopes, NEW k \in Keys, NEW b \in Bodies, NEW at \in Nat,
               LetThrough(c, s, k, b, at), call = NoCall, Len(effects') = Len(effects)
        PROVE  B + Pending(a)' <= J
    <3>1. call'.agent = c /\ Pending(a) = 0 /\ B = A
      BY <1>1, <1>3, <2>3 DEF LetThrough, Pending
    <3>2. CASE c = a
      <4>1. hits'[a] = Window(a) \cup {<<now, calls>>}
        BY <2>3, <3>2 DEF LetThrough, Hit, GuardTypes
      <4>2. J = H + 1
        BY <1>4, <1>5, <4>1
      <4> QED BY <1>2b, <1>3, <1>4, <2>1, <3>1, <4>2
    <3>3. CASE c # a
      <4>1. Pending(a)' = 0
        BY <3>1, <3>3 DEF Pending
      <4> QED BY <1>3, <1>4, <2>1, <3>1, <4>1
    <3> QED BY <3>2, <3>3
  <2>4. CASE EffectorReturns \/ EffectorRaises
    <3>1. call.pc = "effector" /\ call'.pc # "effector"
      <4>1. call.pc = "effector" /\ call \in CallRec
        BY <2>4, Calling DEF EffectorReturns, EffectorRaises
      <4>2. CASE EffectorReturns
        <5>1. call'.pc = "store"
          BY <4>1, <4>2, Records DEF EffectorReturns
        <5> QED BY <4>1, <5>1
      <4>3. CASE EffectorRaises
        BY <1>1, <4>1, <4>3 DEF EffectorRaises
      <4> QED BY <2>4, <4>2, <4>3
    <3>2. Pending(a)' = 0 /\ Pending(a) = IF call.agent = a THEN 1 ELSE 0
      BY <3>1 DEF Pending
    <3> QED BY <1>3, <1>4, <2>1, <3>2 DEF B, J
  <2>5. CASE (StoreResponse \/ StoreFails \/ Audit) /\ Len(effects') = Len(effects)
    <3>1. call.pc # "effector" /\ call'.pc # "effector"
      BY <1>1, <2>5 DEF EffectorReturns, EffectorRaises, CallMoved, StoreResponse, StoreFails, Audit
    <3>2. Pending(a)' = 0 /\ Pending(a) = 0
      BY <3>1 DEF Pending
    <3> QED BY <1>3, <1>4, <2>1, <2>5, <3>2 DEF B, J
  <2> QED BY <1>1, <2>2, <2>3, <2>4, <2>5 DEF CallMoved, B, J
<1>6. CASE ~(t <= now)
  <2>1. \A i \in 1..Len(effects) : effects[i].at \in Nat /\ effects[i].at <= now
    BY EffectFields DEF CallsAgree
  <2>2. Tick
    <3>1. now' # now
      BY <1>2, <1>6
    <3> QED BY <3>1 DEF GuardMove, GuardStep, Noted, Aside, Guarded, RegisterScope, Engage, Disengage,
                  EffectorReturns, EffectorRaises, StoreResponse, StoreFails, Audit
  <2>3. EffectsSince(a, t)' = {}
    BY <1>2, <1>6, <2>1, <2>2 DEF Tick, EffectsSince
  <2>4. B = 0
    BY <2>3, FS_EmptySet
  <2>5. Pending(a)' = 0
    BY <1>1, <2>2 DEF Tick, Pending
  <2> HIDE DEF A, B, H, J
  <2> QED BY <1>4, <2>4, <2>5 DEF B, J
<1> QED BY <1>5, <1>6

\* The rate limit holds: the effects of a minute have their hits in one window.
LEMMA RateKept ==
  ASSUME GuardAssumption, GuardTypes, CallsAgree, RateAgrees, GuardMove
  PROVE  RateAgrees'
<1>1. EffectsMoved /\ effects' \in Seq(EffectRec) /\ GuardTypes' /\ CallsAgree'
  BY MoveEffects, MoveTypes DEF GuardTypes
<1>2. /\ now \in Nat /\ now' \in Nat /\ now <= now' /\ Minute \in Nat /\ Minute > 0 /\ RateLimit \in Nat
      /\ \A i \in 1..Len(effects) : effects[i].at \in Nat /\ effects[i].at <= now
      /\ Len(effects) \in Nat
  <2>1. now \in Nat /\ now' \in Nat /\ now <= now'
    BY MoveKeys
  <2>2. Minute \in Nat /\ Minute > 0 /\ RateLimit \in Nat
    BY DEF GuardAssumption
  <2>3. \A i \in 1..Len(effects) : effects[i].at \in Nat /\ effects[i].at <= now
    BY EffectFields DEF CallsAgree
  <2> QED BY <1>1, <2>1, <2>2, <2>3 DEF EffectsMoved
<1>3. \A a \in Agents : Cardinality(Window(a)') <= RateLimit
  BY WindowKept DEF RateAgrees
<1>4. \A a \in Agents, t \in Nat : t <= now' /\ now' - t < Minute =>
        Cardinality(EffectsSince(a, t)') + Pending(a)' <= Cardinality(HitsSince(a, t)')
  BY PendingKept
<1>5. ASSUME NEW j \in 1..Len(effects)
      PROVE  Cardinality({i \in 1..j : /\ effects'[i].agent = effects'[j].agent
                                       /\ effects'[j].at - effects'[i].at < Minute}) <= RateLimit
  <2>1. \A i \in 1..j : effects'[i].agent = effects[i].agent /\ effects'[i].at = effects[i].at
    BY <1>1, <1>2 DEF EffectsMoved
  <2>2. j \in 1..j /\ j \in DOMAIN effects
    BY DEF GuardTypes
  <2>3. {i \in 1..j : /\ effects'[i].agent = effects'[j].agent /\ effects'[j].at - effects'[i].at < Minute}
        = {i \in 1..j : /\ effects[i].agent = effects[j].agent /\ effects[j].at - effects[i].at < Minute}
    BY <2>1, <2>2
  <2> QED BY <2>2, <2>3 DEF RateAgrees, RateHolds
<1>6. ASSUME Len(effects') = Len(effects) + 1, NEW j, j = Len(effects) + 1
      PROVE  Cardinality({i \in 1..j : /\ effects'[i].agent = effects'[j].agent
                                       /\ effects'[j].at - effects'[i].at < Minute}) <= RateLimit
  <2>1. effects'[j].at = now /\ effects'[j].agent = call.agent /\ call.agent \in Agents /\ now' = now
    <3>1. NewEffect(effects'[j])
      BY <1>1, <1>6 DEF EffectsMoved
    <3> QED BY <3>1, Calling DEF NewEffect
  <2>2. PICK t \in Nat : t <= now /\ now - t < Minute /\ \A u \in Nat : now - u < Minute => u >= t
    <3>1. CASE now < Minute
      BY <1>2, <3>1
    <3>2. CASE Minute <= now
      <4>1. LET t == now - Minute + 1 IN t \in Nat /\ t <= now /\ now - t < Minute /\ \A u \in Nat : now - u < Minute => u >= t
        BY <1>2, <3>2
      <4> QED BY <4>1
    <3> QED BY <1>2, <3>1, <3>2
  <2>2a. PICK a \in Agents : a = call.agent
    BY <2>1
  <2> DEFINE R == {i \in 1..j : /\ effects'[i].agent = effects'[j].agent /\ effects'[j].at - effects'[i].at < Minute}
  <2>3. R \in SUBSET EffectsSince(a, t)'
    <3>1. \A i \in 1..j : effects'[i].at \in Nat
      BY <1>1, <1>2, <1>6, <2>1 DEF EffectsMoved
    <3> QED BY <1>6, <2>1, <2>2, <2>2a, <3>1 DEF EffectsSince
  <2>4. IsFiniteSet(EffectsSince(a, t)') /\ Cardinality(EffectsSince(a, t)') \in Nat
    <3>1. EffectsSince(a, t)' \in SUBSET (1..Len(effects')) /\ Len(effects') \in Nat
      BY <1>2, <1>6 DEF EffectsSince
    <3> QED BY <3>1, Indices
  <2>5. Cardinality(R) <= Cardinality(EffectsSince(a, t)') /\ Cardinality(R) \in Nat
    BY <2>3, <2>4, FS_Subset, FS_CardinalityType
  <2> HIDE DEF R
  <2>6. Cardinality(EffectsSince(a, t)') + Pending(a)' <= Cardinality(HitsSince(a, t)')
    BY <1>4, <2>1, <2>2
  <2>7. Pending(a)' \in {0, 1}
    BY DEF Pending
  <2>8. /\ Cardinality(HitsSince(a, t)') <= Cardinality(Window(a)') /\ Cardinality(HitsSince(a, t)') \in Nat
        /\ Cardinality(Window(a)') \in Nat
    <3>1. IsFiniteSet(Window(a)') /\ Cardinality(Window(a)') \in Nat /\ \A h \in hits'[a] : h[1] \in Nat
      <4>1. IsFiniteSet(hits'[a]) /\ \A h \in hits'[a] : h[1] \in Nat
        <5>1. hits'[a] \in SUBSET (Nat \X Nat)
          BY <1>1 DEF GuardTypes
        <5> QED BY <1>1, <5>1 DEF CallsAgree
      <4>2. Window(a)' \in SUBSET hits'[a]
        BY DEF Window
      <4> QED BY <4>1, <4>2, FS_Subset, FS_CardinalityType
    <3>2. HitsSince(a, t)' \in SUBSET Window(a)'
      <4>1. ASSUME NEW h \in HitsSince(a, t)' PROVE h \in Window(a)'
        <5>1. h \in hits'[a] /\ h[1] >= t /\ h[1] \in Nat
          BY <3>1, <4>1 DEF HitsSince
        <5>2. now' - h[1] < Minute
          BY <1>2, <2>1, <2>2, <5>1
        <5> QED BY <5>1, <5>2 DEF Window
      <4> QED BY <4>1
    <3> QED BY <3>1, <3>2, FS_Subset, FS_CardinalityType
  <2>9. Cardinality(Window(a)') <= RateLimit
    BY <1>3
  <2>10. Cardinality(R) <= RateLimit
    BY <1>2, <2>4, <2>5, <2>6, <2>7, <2>8, <2>9
  <2> QED BY <2>10 DEF R
<1>7. RateHolds'
  <2>1. DOMAIN effects' = 1..Len(effects')
    BY <1>1
  <2>2. \A j \in 1..Len(effects') : j \in 1..Len(effects) \/ (Len(effects') = Len(effects) + 1 /\ j = Len(effects) + 1)
    BY <1>1, <1>2 DEF EffectsMoved
  <2> QED BY <1>5, <1>6, <2>1, <2>2 DEF RateHolds
<1> QED BY <1>3, <1>4, <1>7 DEF RateAgrees
-----------------------------------------------------------------------------
\* What the guard keeps, whatever fails.
Recording == GuardTypes /\ CallsAgree /\ Recorded
\* What it keeps until a crash.
Limited == KeysAgree /\ RateAgrees

\* The guard starts sound.
LEMMA InitGuard ==
  ASSUME GuardAssumption, GuardInit
  PROVE  Recording /\ Limited /\ Stopped
<1>1. GuardTypes
  BY Records DEF GuardInit, GuardTypes
<1>2. call = NoCall /\ NoCall.pc = "idle" /\ Len(chain) = 0 /\ Len(effects) = 0 /\ now = 0
      /\ DOMAIN chain = 1..0 /\ DOMAIN effects = 1..0 /\ hits = [a \in Agents |-> {}]
      /\ 1..0 = {} /\ IsFiniteSet({}) /\ Cardinality({}) = 0
      /\ keys = [k \in Keys |-> NoKey] /\ killed = {}
  BY Records, FS_EmptySet, <1>1 DEF GuardInit, GuardTypes
<1>3. CallsAgree
  BY <1>2 DEF CallsAgree, GuardAssumption
<1>4. Recorded
  <2>1. ASSUME NEW a \in Agents PROVE Allowed(a) = 0 /\ Done(a) = 0 /\ Debt(a) = 0
    <3>1. {n \in DOMAIN chain : chain[n].type = "allowed" /\ chain[n].agent = a} = {}
          /\ {i \in DOMAIN effects : effects[i].agent = a} = {}
      BY <1>2
    <3> QED BY <1>2, <3>1 DEF Allowed, Done, Debt
  <2> QED BY <2>1 DEF Recorded
<1>5. KeysAgree
  BY <1>2 DEF KeysAgree, OncePerKey, NoKey
<1>6. RateAgrees
  <2>1. ASSUME NEW a \in Agents PROVE Window(a) = {} /\ Pending(a) = 0
    BY <1>2 DEF Window, Pending
  <2>2. ASSUME NEW a \in Agents, NEW t \in Nat PROVE EffectsSince(a, t) = {} /\ HitsSince(a, t) = {}
    BY <1>2 DEF EffectsSince, HitsSince
  <2>3. RateHolds
    BY <1>2 DEF RateHolds
  <2>4. RateLimit \in Nat
    BY DEF GuardAssumption
  <2>5. \A a \in Agents : Cardinality(Window(a)) <= RateLimit
    <3>1. 0 <= RateLimit
      BY <2>4
    <3> QED BY <1>2, <2>1, <3>1
  <2>6. \A a \in Agents, t \in Nat :
          Cardinality(EffectsSince(a, t)) + Pending(a) <= Cardinality(HitsSince(a, t))
    <3>1. ASSUME NEW a \in Agents, NEW t \in Nat
          PROVE  /\ Cardinality(EffectsSince(a, t)) = 0 /\ Cardinality(HitsSince(a, t)) = 0
                 /\ Pending(a) = 0
      BY <1>2, <2>1, <2>2
    <3> QED BY <3>1
  <2> QED BY <2>3, <2>5, <2>6 DEF RateAgrees
<1>7. Stopped
  BY <1>2 DEF Stopped, Unhalted, EngagedAt
<1> QED BY <1>1, <1>3, <1>4, <1>5, <1>6, <1>7 DEF Recording, Limited

\* Every move keeps it so.
LEMMA MoveGuard ==
  ASSUME GuardAssumption, Recording, GuardMove
  PROVE  /\ Recording'
         /\ Failed \subseteq Failed'
         /\ Limited => Limited'
         /\ Stopped /\ "chain" \notin Failed' => Stopped'
BY MoveTypes, MoveChain, RecordedKept, KeysKept, RateKept, StoppedKept DEF Recording, Limited, ChainMoved

\* The guard's own properties follow.
LEMMA GuardSound ==
  ASSUME Recording
  PROVE  /\ GuardTypeOK /\ RecordIsTrue
         /\ Limited => OncePerKey /\ RateHolds
         /\ Stopped => KillHolds
<1>1. GuardTypeOK
  BY DEF Recording, GuardTypes, GuardTypeOK, KeyRec, CallRec, EffectRec
<1>2. RecordIsTrue
  <2> SUFFICES ASSUME NEW a \in Agents
               PROVE  Allowed(a) <= Done(a) /\ (Failed = {} /\ call = NoCall => Allowed(a) = Done(a))
    BY DEF RecordIsTrue
  <2>1. Allowed(a) \in Nat /\ Done(a) \in Nat
    <3>1. /\ Len(chain) \in Nat /\ Len(effects) \in Nat
          /\ DOMAIN chain = 1..Len(chain) /\ DOMAIN effects = 1..Len(effects)
      BY DEF Recording, GuardTypes
    <3>2. /\ {n \in DOMAIN chain : chain[n].type = "allowed" /\ chain[n].agent = a} \in SUBSET (1..Len(chain))
          /\ {i \in DOMAIN effects : effects[i].agent = a} \in SUBSET (1..Len(effects))
      BY <3>1
    <3> QED BY <3>1, <3>2, Indices DEF Allowed, Done
  <2>2. Debt(a) \in {0, 1} /\ (call = NoCall => Debt(a) = 0)
    BY DEF Debt, NoCall
  <2>3. Allowed(a) + Debt(a) <= Done(a) /\ (Failed = {} => Allowed(a) + Debt(a) = Done(a))
    BY DEF Recording, Recorded
  <2> QED BY <2>1, <2>2, <2>3
<1> QED BY <1>1, <1>2 DEF Limited, Stopped, Unhalted, KillHolds, KeysAgree, RateAgrees
-----------------------------------------------------------------------------
(* The second root *)

\* The last action on a scope.
ActionRec == [agent : Agents \cup {"nobody"}, at : Nat]

\* The types of the second root's own state.
PlaneTypes ==
  /\ agents \subseteq Agents /\ bound \subseteq Scopes /\ frozen \subseteq Scopes
  /\ recent \in [Scopes -> ActionRec]

\* An operation that leaves the guard alone but for its plain events.
LEMMA Noting ==
  ASSUME GuardTypes, call = NoCall, NEW es \in Seq(Plain), Log(es),
         calls' \in {calls, calls + 1}, acts' \in {acts, acts + 1},
         UNCHANGED <<now, scopes, killed, hits, keys, call, effects>>
  PROVE  GuardMove
<1>1. calls' \in Nat /\ calls <= calls' /\ acts' \in Nat
  BY DEF GuardTypes
<1>2. \E xs \in Seq(Plain) : Log(xs)
  OBVIOUS
<1>3. Noted
  BY <1>1, <1>2, Zenon DEF Noted
<1> QED BY <1>3 DEF GuardMove

\* Every step of the second root but its restart is one of the guard.
LEMMA MovesOfV2 ==
  ASSUME PlaneAssumption, GuardTypes, [Next]_vars
  PROVE  GuardMove \/ Restart
<1>1. now \in Nat /\ calls \in Nat /\ acts \in Nat /\ GuardAssumption /\ Never \in Nat
  BY DEF GuardTypes, PlaneAssumption, GuardAssumption, Never
<1>2. \A a \in Agents, s \in Scopes :
        /\ <<E("denied", a, s)>> \in Seq(Plain)
        /\ <<E("rejected", "operator", s), E("denied", a, s)>> \in Seq(Plain)
        /\ <<E("truce", a, s), E("denied", a, s)>> \in Seq(Plain)
  <2>1. \A a \in Agents, s \in Scopes :
          /\ E("denied", a, s) \in Plain
          /\ E("rejected", "operator", s) \in Plain /\ E("truce", a, s) \in Plain
    BY <1>1, Records DEF Plain
  <2> QED BY <2>1
<1>3. ASSUME NEW a \in Agents, Register(a) PROVE GuardMove
  <2>1. /\ call = NoCall /\ Log(<<E("registered", a, Global)>>) /\ calls' = calls /\ acts' = acts
        /\ UNCHANGED <<now, scopes, killed, hits, keys, call, effects>>
    BY <1>3 DEF Register
  <2>2. <<E("registered", a, Global)>> \in Seq(Plain)
    <3>1. E("registered", a, Global) \in Plain
      BY <1>1, Records DEF Plain
    <3> QED BY <3>1
  <2> QED BY <2>1, <2>2, Noting
<1>4. ASSUME NEW s \in Scopes, Bind(s) \/ ResolveTruce(s) PROVE GuardMove
  <2>1. PICK t \in {"registered", "resolved"} :
          /\ Log(<<E(t, "operator", s)>>) /\ call = NoCall /\ calls' = calls /\ acts' = acts + 1
          /\ UNCHANGED <<now, scopes, killed, hits, keys, call, effects>>
    BY <1>4 DEF Bind, ResolveTruce, Operator1
  <2>2. <<E(t, "operator", s)>> \in Seq(Plain)
    <3>1. E(t, "operator", s) \in Plain
      BY <1>1, Records DEF Plain
    <3> QED BY <3>1
  <2> QED BY <2>1, <2>2, Noting
<1>5. ASSUME NEW a \in Agents, NEW s \in Scopes, NEW b \in Bodies,
             \/ HandleRejected(a, s, b) \/ HandleFrozen(a, s, b)
             \/ HandleConflict(a, s, b) \/ HandleHalted(a, s, b)
      PROVE  GuardMove
  <2>1. /\ call = NoCall /\ calls' = calls + 1 /\ acts' = acts
        /\ UNCHANGED <<now, scopes, killed, hits, keys, call, effects>>
    BY <1>5 DEF HandleRejected, HandleFrozen, HandleConflict, HandleHalted, Called, Steady
  <2>2. \E es \in Seq(Plain) : Log(es)
    BY <1>2, <1>5 DEF HandleRejected, HandleFrozen, HandleConflict, HandleHalted
  <2> QED BY <2>1, <2>2, Noting
<1>6. ASSUME NEW a \in Agents, NEW s \in Scopes, HandleUnregistered(a, s) PROVE GuardMove
  <2>1. /\ call = NoCall /\ calls' = calls + 1 /\ acts' = acts
        /\ UNCHANGED <<now, scopes, killed, hits, keys, call, effects>>
        /\ Log(<<E("denied", a, s)>>)
    BY <1>6 DEF HandleUnregistered, Called, Steady
  <2>2. <<E("denied", a, s)>> \in Seq(Plain)
    BY <1>2
  <2> QED BY <2>1, <2>2, Noting
<1>7. ASSUME NEW a \in Agents, NEW s \in Scopes, NEW b \in Bodies, NEW k \in Keys, NEW at \in 0..now \cup {Never},
             HandleGuarded(a, s, k, b, at)
      PROVE  GuardMove
  <2>1. Guarded(a, s, k, b, at) /\ at \in Nat
    BY <1>1, <1>7 DEF HandleGuarded, Guarded, Steady
  <2> QED BY <2>1 DEF GuardMove
<1>8. CASE UNCHANGED vars
  <2>1. Aside
    BY <1>1, <1>8 DEF vars, guardVars, Aside
  <2> QED BY <2>1 DEF GuardMove
<1> QED BY <1>3, <1>4, <1>5, <1>6, <1>7, <1>8 DEF Next, GuardMove

\* A crash loses calls and keys, never an event or an effect.
LEMMA RestartKept ==
  ASSUME PlaneAssumption, Recording, Restart
  PROVE  Recording' /\ "crash" \in Failed'
<1>1. GuardAssumption /\ NoCall.pc = "idle" /\ faults \in Seq(Faults)
  BY Records DEF PlaneAssumption, Recording, GuardTypes
<1>2. /\ UNCHANGED <<now, chain, effects, calls, acts>> /\ call' = NoCall /\ faults' \in Seq(Faults) /\ Failed' # {}
      /\ scopes' = {} /\ killed' = {} /\ hits' = [a \in Agents |-> {}] /\ keys' = [k \in Keys |-> NoKey]
      /\ "crash" \in Failed'
  BY <1>1, Faulted DEF Restart
<1>3. GuardTypes'
  BY <1>1, <1>2, Records DEF Recording, GuardTypes
<1>4. CallsAgree'
  BY <1>1, <1>2, FS_EmptySet DEF Recording, CallsAgree
<1>5. Recorded'
  <2> SUFFICES ASSUME NEW a \in Agents PROVE Allowed(a)' + Debt(a)' <= Done(a)'
    BY <1>2 DEF Recorded
  <2>1. Allowed(a)' = Allowed(a) /\ Done(a)' = Done(a) /\ Debt(a)' = 0 /\ Debt(a) \in {0, 1}
    BY <1>1, <1>2 DEF Allowed, Done, Debt
  <2>2. Allowed(a) \in Nat /\ Done(a) \in Nat
    <3>1. /\ Len(chain) \in Nat /\ Len(effects) \in Nat
          /\ DOMAIN chain = 1..Len(chain) /\ DOMAIN effects = 1..Len(effects)
      BY DEF Recording, GuardTypes
    <3>2. /\ {n \in DOMAIN chain : chain[n].type = "allowed" /\ chain[n].agent = a} \in SUBSET (1..Len(chain))
          /\ {i \in DOMAIN effects : effects[i].agent = a} \in SUBSET (1..Len(effects))
      BY <3>1
    <3> QED BY <3>1, <3>2, Indices DEF Allowed, Done
  <2>3. Allowed(a) + Debt(a) <= Done(a)
    BY DEF Recording, Recorded
  <2> QED BY <2>1, <2>2, <2>3
<1> QED BY <1>2, <1>3, <1>4, <1>5 DEF Recording

\* The second root keeps its types.
LEMMA PlaneTypesKept ==
  ASSUME PlaneAssumption, GuardTypes, PlaneTypes, [Next]_vars
  PROVE  PlaneTypes'
<1> USE DEF PlaneTypes
<1>1. NoAction \in ActionRec /\ \A a \in Agents : [agent |-> a, at |-> now] \in ActionRec
  BY DEF NoAction, ActionRec, GuardTypes
<1>2. CASE UNCHANGED <<agents, bound, recent, frozen>>
  BY <1>2
<1>3. ASSUME NEW a \in Agents, Register(a) PROVE PlaneTypes'
  BY <1>3 DEF Register
<1>4. ASSUME NEW s \in Scopes, Bind(s) \/ ResolveTruce(s) PROVE PlaneTypes'
  BY <1>1, <1>4 DEF Bind, ResolveTruce
<1>5. ASSUME NEW a \in Agents, NEW s \in Scopes, HandleUnregistered(a, s) PROVE PlaneTypes'
  BY <1>5 DEF HandleUnregistered, Steady
<1>6. ASSUME NEW a \in Agents, NEW s \in Scopes, NEW b \in Bodies,
             HandleRejected(a, s, b) \/ HandleFrozen(a, s, b) \/ HandleConflict(a, s, b)
      PROVE  PlaneTypes'
  BY <1>6 DEF HandleRejected, HandleFrozen, HandleConflict, Steady
<1>7. ASSUME NEW a \in Agents, NEW s \in Scopes, NEW b \in Bodies, Acts(a, s), Steady, UNCHANGED frozen
      PROVE  PlaneTypes'
  BY <1>1, <1>7 DEF Acts, Steady
<1>8. CASE Restart
  BY <1>1, <1>8 DEF Restart
<1> QED BY <1>2, <1>3, <1>4, <1>5, <1>6, <1>7, <1>8 DEF Next, vars, HandleHalted, HandleGuarded

\* Types and record of the second root, whatever fails; its limits without a crash.
GuardInv ==
  /\ Recording /\ PlaneTypes
  /\ "crash" \notin Failed => Limited

\* Initially so.
LEMMA GuardInvInit == PlaneAssumption /\ Init => GuardInv
<1> SUFFICES ASSUME PlaneAssumption, Init PROVE GuardInv
  OBVIOUS
<1>1. GuardAssumption /\ GuardInit
  BY DEF PlaneAssumption, Init
<1>2. PlaneTypes
  <2>1. NoAction \in ActionRec
    BY DEF NoAction, ActionRec
  <2> QED BY <2>1 DEF Init, PlaneTypes
<1> QED BY <1>1, <1>2, InitGuard DEF GuardInv

\* Every step keeps it.
LEMMA GuardInvNext == PlaneAssumption /\ GuardInv /\ [Next]_vars => GuardInv'
<1> SUFFICES ASSUME PlaneAssumption, GuardInv, [Next]_vars PROVE GuardInv'
  OBVIOUS
<1>1. GuardAssumption /\ GuardTypes /\ Recording /\ PlaneTypes
  BY DEF PlaneAssumption, GuardInv, Recording
<1>2. PlaneTypes'
  BY <1>1, PlaneTypesKept
<1>3. CASE GuardMove
  BY <1>1, <1>2, <1>3, MoveGuard DEF GuardInv
<1>4. CASE Restart
  BY <1>1, <1>2, <1>4, RestartKept DEF GuardInv
<1> QED BY <1>1, <1>3, <1>4, MovesOfV2

\* The second root (wiring_v2.py) keeps the guard's limits: no agent is credited with
\* an effect it did not have, and without a crash no stored effect is repeated under
\* its key and no principal exceeds its rate.
THEOREM GuardIsKept == Spec => []GuardHolds
<1>1. Init => GuardInv
  BY GuardInvInit, PlaneAssumption
<1>2. GuardInv /\ [Next]_vars => GuardInv'
  BY GuardInvNext, PlaneAssumption
<1>3. GuardInv => GuardHolds
  BY GuardSound DEF GuardInv, GuardHolds
<1> QED BY <1>1, <1>2, <1>3, PTL DEF Spec
-----------------------------------------------------------------------------
\* The events from m to n hold a resolution of the scope's truce.
Resolved(s, m, n) == \E j \in m..n : chain[j].type = "resolved" /\ chain[j].scope = s

\* The last action on a scope is the effect's own agent's, or is past its window.
Covered(i) ==
  LET last == recent[effects[i].scope] IN
  \/ last.agent = effects[i].agent /\ last.at >= effects[i].at
  \/ last.at - effects[i].at > ConflictWindow

\* An unresolved truce freezes its scope; a call in progress is the last action on a
\* scope that is not frozen; every effect is covered by the last action or resolved.
Truced ==
  /\ \A s \in Scopes : recent[s].at <= now
  /\ \A n \in 1..Len(chain) : chain[n].type = "truce" =>
       chain[n].scope \in frozen \/ Resolved(chain[n].scope, n, Len(chain))
  /\ call.pc = "effector" =>
       call.scope \notin frozen /\ recent[call.scope] = [agent |-> call.agent, at |-> now]
  /\ \A i \in 1..Len(effects) : Covered(i) \/ Resolved(effects[i].scope, effects[i].pos + 1, Len(chain))
  /\ TruceHolds /\ TruceSeparates

\* No truce is among the new events.
NoTruce == \A n \in Len(chain) + 1 .. Len(chain') : chain'[n].type # "truce"

\* A chain that does not fail takes every event.
LEMMA AllLogged ==
  ASSUME GuardTypes, "chain" \notin Failed', NEW es \in Seq(Event), Log(es)
  PROVE  /\ ChainMoved /\ Len(es) \in Nat /\ Len(chain') = Len(chain) + Len(es)
         /\ \A n \in 1..Len(es) : chain'[Len(chain) + n] = es[n]
         /\ (\A n \in 1..Len(es) : es[n].type # "truce") => NoTruce
<1>1. PICK k \in 0..Len(es) : GrownBy(es, k)
  BY Logged
<1>2. k = Len(es) /\ Len(es) \in Nat /\ Len(chain) \in Nat
  BY <1>1 DEF GrownBy
<1>3. ChainMoved /\ Len(chain') = Len(chain) + Len(es) /\ \A n \in 1..Len(es) : chain'[Len(chain) + n] = es[n]
  <2>1. /\ Len(chain') = Len(chain) + Len(es) /\ \A n \in 1..Len(es) : chain'[Len(chain) + n] = es[n]
        /\ \A n \in 1..Len(chain) : chain'[n] = chain[n]
    BY <1>1, <1>2 DEF GrownBy
  <2>2. faults \in Seq(Faults) /\ faults' \in Seq(Faults) /\ Failed \subseteq Failed'
    BY <1>1 DEF GrownBy, GuardTypes
  <2>3. Len(chain') \in Nat /\ Len(chain) <= Len(chain')
    BY <1>2, <2>1
  <2> QED BY <1>2, <2>1, <2>2, <2>3 DEF ChainMoved
<1>4. ASSUME \A n \in 1..Len(es) : es[n].type # "truce" PROVE NoTruce
  <2> SUFFICES ASSUME NEW n \in Len(chain) + 1 .. Len(chain') PROVE chain'[n].type # "truce"
    BY DEF NoTruce
  <2>1. n - Len(chain) \in 1..Len(es) /\ Len(chain) + (n - Len(chain)) = n
    BY <1>2, <1>3
  <2>2. chain'[n] = es[n - Len(chain)]
    BY <1>3, <2>1
  <2> QED BY <1>4, <2>1, <2>2
<1> QED BY <1>2, <1>3, <1>4

\* The guard itself calls no truce.
LEMMA GuardIsCalm ==
  ASSUME GuardAssumption, GuardTypes, CallsAgree, "chain" \notin Failed',
         \/ GuardStep
         \/ \E a \in Agents, s \in Scopes, k \in Keys, b \in Bodies, at \in Nat : Guarded(a, s, k, b, at)
  PROVE  NoTruce
<1>1. Len(chain) \in Nat
  BY DEF GuardTypes
<1>2. CASE UNCHANGED chain
  BY <1>1, <1>2 DEF NoTruce
<1>3. ASSUME NEW e \in Event, e.type # "truce", Log(<<e>>) PROVE NoTruce
  <2>1. <<e>> \in Seq(Event) /\ Len(<<e>>) = 1 /\ \A n \in 1..Len(<<e>>) : <<e>>[n].type # "truce"
    BY <1>3
  <2> QED BY <1>3, <2>1, AllLogged
<1>4. CASE \E x \in Scopes \cup {Global} : Engage(x) \/ Disengage(x)
  BY <1>3, <1>4, Records DEF Engage, Disengage
<1>5. CASE Audit
  <2>1. call.agent \in Agents /\ call.scope \in Scopes
    BY <1>5, Calling DEF Audit
  <2> QED BY <1>3, <1>5, <2>1, Records DEF Audit
<1>6. CASE \E a \in Agents, s \in Scopes, k \in Keys, b \in Bodies, at \in Nat : Guarded(a, s, k, b, at)
  <2>1. (\E es \in Seq(Denials) : Log(es)) \/ UNCHANGED chain
    BY <1>6, Decided DEF TurnedDown, LetThrough
  <2>2. ASSUME NEW es \in Seq(Denials), Log(es) PROVE NoTruce
    <3>1. es \in Seq(Event) /\ \A n \in 1..Len(es) : es[n].type # "truce"
      BY <2>2 DEF Denials
    <3> QED BY <2>2, <3>1, AllLogged
  <2> QED BY <1>2, <2>1, <2>2
<1> QED BY <1>2, <1>4, <1>5, <1>6
        DEF GuardStep, RegisterScope, EffectorReturns, EffectorRaises, StoreResponse, StoreFails, Tick

\* How a step of the second root treats truces: not at all, or it resolves one, calls
\* one, or records an action that conflicts with none.
Ignored == UNCHANGED <<recent, frozen>> /\ NoTruce /\ (call'.pc = "effector" => UNCHANGED <<call, now>>)
Unfrozen(s) ==
  /\ frozen' = frozen \ {s} /\ recent' = [recent EXCEPT ![s] = NoAction]
  /\ UNCHANGED <<now, effects, call>> /\ call = NoCall
  /\ Len(chain') = Len(chain) + 1
  /\ chain'[Len(chain) + 1].type = "resolved" /\ chain'[Len(chain) + 1].scope = s
Frozen(a, s) ==
  /\ frozen' = frozen \cup {s} /\ recent' = recent
  /\ UNCHANGED <<now, effects, call>> /\ call = NoCall
  /\ \A n \in Len(chain) + 1 .. Len(chain') : chain'[n].type = "truce" => chain'[n].scope = s
Acted(a, s) ==
  /\ Acts(a, s) /\ s \notin frozen /\ ~Conflicts(a, s)
  /\ UNCHANGED <<now, effects, frozen>> /\ NoTruce
  /\ call' = NoCall \/ (call'.agent = a /\ call'.scope = s)

\* Each step of the second root does one of these.
LEMMA TruceMoves ==
  ASSUME PlaneAssumption, GuardTypes, CallsAgree, "chain" \notin Failed', [Next]_vars, ~Restart
  PROVE  \/ Ignored
         \/ \E s \in Scopes : Unfrozen(s)
         \/ \E a \in Agents, s \in Scopes : Frozen(a, s) \/ Acted(a, s)
<1>1. GuardAssumption /\ NoCall.pc = "idle" /\ Len(chain) \in Nat
  BY Records DEF PlaneAssumption, GuardTypes
<1>2. ASSUME NEW e \in Event, e.type # "truce", Log(<<e>>) PROVE NoTruce
  <2>1. <<e>> \in Seq(Event) /\ Len(<<e>>) = 1 /\ \A n \in 1..Len(<<e>>) : <<e>>[n].type # "truce"
    BY <1>2
  <2> QED BY <1>2, <2>1, AllLogged
<1>3. \A a \in Agents, s \in Scopes \cup {Global} :
        /\ E("registered", a, s) \in Event /\ E("registered", a, s).type # "truce"
        /\ E("registered", "operator", s) \in Event /\ E("registered", "operator", s).type # "truce"
        /\ E("denied", a, s) \in Event /\ E("denied", a, s).type = "denied"
        /\ E("rejected", "operator", s) \in Event /\ E("rejected", "operator", s).type = "rejected"
        /\ E("truce", a, s) \in Event /\ E("truce", a, s).scope = s
        /\ E("resolved", "operator", s) \in Event
  BY <1>1, Records
<1>4. CASE GuardStep /\ UNCHANGED <<agents, bound, recent, frozen>>
  BY <1>1, <1>4, GuardIsCalm, CallStays DEF Ignored
<1>5. ASSUME NEW a \in Agents, Register(a) PROVE Ignored
  BY <1>1, <1>2, <1>3, <1>5 DEF Register, Ignored
<1>6. ASSUME NEW s \in Scopes, Bind(s) PROVE Ignored
  <2>1. NoTruce
    <3>1. PICK e \in Event : e = E("registered", "operator", s) /\ e.type # "truce"
      BY <1>1, Records
    <3> QED BY <1>2, <1>6, <3>1 DEF Bind
  <2> QED BY <1>1, <1>6, <2>1 DEF Bind, Ignored, Operator1
<1>7. ASSUME NEW s \in Scopes, ResolveTruce(s) PROVE Unfrozen(s)
  <2>1. /\ E("resolved", "operator", s) \in Event /\ E("resolved", "operator", s).type = "resolved"
        /\ E("resolved", "operator", s).scope = s
    BY <1>1, Records
  <2>2. Len(chain') = Len(chain) + 1 /\ chain'[Len(chain) + 1] = E("resolved", "operator", s)
    BY <1>7, <2>1, OneLogged DEF ResolveTruce
  <2> QED BY <1>7, <2>1, <2>2 DEF ResolveTruce, Unfrozen, Operator1
<1>8. ASSUME NEW a \in Agents, NEW s \in Scopes, HandleUnregistered(a, s) PROVE Ignored
  BY <1>1, <1>2, <1>3, <1>8 DEF HandleUnregistered, Steady, Called, Ignored
<1>9. ASSUME NEW a \in Agents, NEW s \in Scopes, NEW b \in Bodies, HandleRejected(a, s, b) PROVE Ignored
  <2> DEFINE es == <<E("rejected", "operator", s), E("denied", a, s)>>
  <2>1. E("rejected", "operator", s) \in Event /\ E("rejected", "operator", s).type = "rejected"
    BY <1>3
  <2>2. es \in Seq(Event) /\ \A n \in 1..Len(es) : es[n].type # "truce"
    BY <1>3, <2>1
  <2>3. NoTruce
    <3>1. Log(es)
      BY <1>9 DEF HandleRejected
    <3> HIDE DEF es
    <3> QED BY <2>2, <3>1, AllLogged
  <2> QED BY <1>1, <1>9, <2>3 DEF HandleRejected, Steady, Called, Ignored
<1>10. ASSUME NEW a \in Agents, NEW s \in Scopes, NEW b \in Bodies, HandleFrozen(a, s, b) PROVE Ignored
  BY <1>1, <1>2, <1>3, <1>10 DEF HandleFrozen, Steady, Called, Ignored
<1>11. ASSUME NEW a \in Agents, NEW s \in Scopes, NEW b \in Bodies, HandleConflict(a, s, b) PROVE Frozen(a, s)
  <2> DEFINE es == <<E("truce", a, s), E("denied", a, s)>>
  <2>1. es \in Seq(Event) /\ \A n \in 1..Len(es) : es[n].type = "truce" => es[n].scope = s
    BY <1>3
  <2>2. Log(es)
    BY <1>11 DEF HandleConflict
  <2> HIDE DEF es
  <2>3. /\ Len(es) \in Nat /\ Len(chain') = Len(chain) + Len(es)
        /\ \A n \in 1..Len(es) : chain'[Len(chain) + n] = es[n]
    BY <2>1, <2>2, AllLogged
  <2>4. ASSUME NEW n \in Len(chain) + 1 .. Len(chain') PROVE chain'[n].type = "truce" => chain'[n].scope = s
    <3>1. n - Len(chain) \in 1..Len(es) /\ Len(chain) + (n - Len(chain)) = n
      BY <1>1, <2>3
    <3>2. chain'[n] = es[n - Len(chain)]
      BY <2>3, <3>1
    <3> QED BY <2>1, <3>1, <3>2
  <2> QED BY <1>11, <2>4 DEF HandleConflict, Steady, Called, Frozen
<1>12. ASSUME NEW a \in Agents, NEW s \in Scopes, NEW b \in Bodies, HandleHalted(a, s, b) PROVE Acted(a, s)
  <2>1. NoTruce
    BY <1>2, <1>3, <1>12 DEF HandleHalted
  <2> QED BY <1>12, <2>1 DEF HandleHalted, Stands, Steady, Called, Acted
<1>13. ASSUME NEW a \in Agents, NEW s \in Scopes, NEW b \in Bodies, NEW k \in Keys, NEW at \in 0..now \cup {Never},
              HandleGuarded(a, s, k, b, at)
       PROVE  Acted(a, s)
  <2>1. Guarded(a, s, k, b, at) /\ at \in Nat
    BY <1>1, <1>13 DEF HandleGuarded, Guarded, Steady, GuardTypes, Never, GuardAssumption
  <2>2. NoTruce
    BY <1>1, <2>1, GuardIsCalm
  <2>3. call' = NoCall \/ (call'.agent = a /\ call'.scope = s)
    BY <1>1, <2>1, Decided DEF TurnedDown, LetThrough
  <2> QED BY <1>13, <2>2, <2>3 DEF HandleGuarded, Stands, Steady, Acted
<1>14. CASE UNCHANGED vars
  <2>1. NoTruce
    BY <1>1, <1>14 DEF vars, guardVars, NoTruce
  <2> QED BY <1>14, <2>1 DEF vars, guardVars, Ignored
<1> QED BY <1>4, <1>5, <1>6, <1>7, <1>8, <1>9, <1>10, <1>11, <1>12, <1>13, <1>14 DEF Next

\* A resolution stays in the chain.
LEMMA ResolvedStays ==
  ASSUME ChainMoved, NEW s, NEW m \in Nat, Resolved(s, m, Len(chain)), m >= 1
  PROVE  Resolved(s, m, Len(chain))'
<1>1. PICK j \in m..Len(chain) : chain[j].type = "resolved" /\ chain[j].scope = s
  BY DEF Resolved
<1>2. j \in 1..Len(chain) /\ j \in m..Len(chain') /\ chain'[j] = chain[j]
  BY <1>1 DEF ChainMoved
<1> QED BY <1>1, <1>2 DEF Resolved

\* Each conjunct of Truced is kept by each kind of step.
LEMMA FreezeKept ==
  ASSUME PlaneAssumption, GuardTypes, PlaneTypes, Truced, ChainMoved,
         \/ Ignored
         \/ \E s \in Scopes : Unfrozen(s)
         \/ \E a \in Agents, s \in Scopes : Frozen(a, s) \/ Acted(a, s)
  PROVE  \A n \in 1..Len(chain') : chain'[n].type = "truce" =>
           chain'[n].scope \in frozen' \/ Resolved(chain[n].scope, n, Len(chain))'
<1> SUFFICES ASSUME NEW n \in 1..Len(chain'), chain'[n].type = "truce", chain'[n].scope \notin frozen'
             PROVE  Resolved(chain[n].scope, n, Len(chain))'
  OBVIOUS
<1>1. GuardAssumption /\ Len(chain) \in Nat /\ Len(chain') \in Nat /\ Len(chain) <= Len(chain')
  BY DEF PlaneAssumption, ChainMoved
<1>2. n \in 1..Len(chain) \/ n \in Len(chain) + 1 .. Len(chain')
  BY <1>1
<1>3. CASE n \in 1..Len(chain)
  <2>1. chain'[n] = chain[n]
    BY <1>3 DEF ChainMoved
  <2>2. chain[n].scope \in frozen \/ Resolved(chain[n].scope, n, Len(chain))
    BY <1>3, <2>1 DEF Truced
  <2>3. CASE Resolved(chain[n].scope, n, Len(chain))
    <3>1. PICK s : s = chain[n].scope
      OBVIOUS
    <3>2. Resolved(s, n, Len(chain))'
      BY <1>3, <2>3, <3>1, ResolvedStays
    <3> QED BY <2>1, <3>1, <3>2 DEF Resolved
  <2>4. CASE chain[n].scope \in frozen
    <3>1. PICK s \in Scopes : Unfrozen(s) /\ chain[n].scope = s
      BY <2>1, <2>4 DEF Ignored, Unfrozen, Frozen, Acted
    <3>2. /\ Len(chain) + 1 \in n..Len(chain') /\ chain'[Len(chain) + 1].type = "resolved"
          /\ chain'[Len(chain) + 1].scope = s
      BY <1>1, <1>3, <3>1 DEF Unfrozen
    <3> QED BY <2>1, <3>1, <3>2 DEF Resolved
  <2> QED BY <2>2, <2>3, <2>4
<1>4. CASE n \in Len(chain) + 1 .. Len(chain')
  <2>1. CASE Ignored \/ \E a \in Agents, s \in Scopes : Acted(a, s)
    BY <1>4, <2>1 DEF Ignored, Acted, NoTruce
  <2>2. CASE \E a \in Agents, s \in Scopes : Frozen(a, s)
    BY <1>4, <2>2 DEF Frozen
  <2>3. ASSUME NEW s \in Scopes, Unfrozen(s) PROVE FALSE
    <3>1. n = Len(chain) + 1 /\ chain'[n].type = "resolved"
      BY <1>1, <1>4, <2>3 DEF Unfrozen
    <3> QED BY <3>1
  <2> QED BY <2>1, <2>2, <2>3
<1> QED BY <1>2, <1>3, <1>4

\* An effect stays covered: another agent acts only past its window or after a
\* resolution.
LEMMA CoverKept ==
  ASSUME PlaneAssumption, GuardTypes, CallsAgree, PlaneTypes, Truced, ChainMoved, EffectsMoved, now <= now',
         GuardTypes',
         \/ Ignored
         \/ \E s \in Scopes : Unfrozen(s)
         \/ \E a \in Agents, s \in Scopes : Frozen(a, s) \/ Acted(a, s)
  PROVE  \A i \in 1..Len(effects') : Covered(i)' \/ Resolved(effects[i].scope, effects[i].pos + 1, Len(chain))'
<1>1. GuardAssumption /\ ConflictWindow \in Nat /\ Len(chain) \in Nat /\ Len(chain') \in Nat
  BY DEF PlaneAssumption, ChainMoved
<1>2. ASSUME NEW i \in 1..Len(effects)
      PROVE  Covered(i)' \/ Resolved(effects[i].scope, effects[i].pos + 1, Len(chain))'
  <2>1. PICK s \in Scopes, c \in Agents, t \in Nat, p \in Nat :
          /\ s = effects[i].scope /\ c = effects[i].agent /\ t = effects[i].at /\ p = effects[i].pos
          /\ s = effects'[i].scope /\ c = effects'[i].agent /\ t = effects'[i].at /\ p = effects'[i].pos
          /\ t <= now /\ p <= Len(chain)
    BY <1>2, EffectFields DEF EffectsMoved, CallsAgree
  <2>2. CASE Resolved(s, p + 1, Len(chain))
    <3>1. Resolved(s, p + 1, Len(chain))'
      BY <2>2, ResolvedStays
    <3> QED BY <2>1, <3>1 DEF Resolved
  <2>3. CASE (recent[s].agent = c /\ recent[s].at >= t) \/ recent[s].at - t > ConflictWindow
    <3>1. CASE recent'[s] = recent[s]
      <4>1. (recent'[s].agent = c /\ recent'[s].at >= t) \/ recent'[s].at - t > ConflictWindow
        BY <2>3, <3>1
      <4> QED BY <2>1, <4>1 DEF Covered
    <3>2. CASE Unfrozen(s)
      <4>1. /\ Len(chain) + 1 \in p+1..Len(chain') /\ chain'[Len(chain) + 1].type = "resolved"
            /\ chain'[Len(chain) + 1].scope = s
        BY <1>1, <2>1, <3>2 DEF Unfrozen
      <4> QED BY <2>1, <4>1 DEF Resolved
    <3>3. ASSUME NEW a \in Agents, Acted(a, s) PROVE Covered(i)'
      <4>1. recent'[s] = [agent |-> a, at |-> now] /\ ~Conflicts(a, s)
        BY <3>3 DEF Acted, Acts, PlaneTypes
      <4>2. recent'[s].agent = a /\ recent'[s].at = now /\ now \in Nat
        BY <4>1 DEF GuardTypes
      <4>3. recent[s] \in ActionRec /\ recent[s].at <= now
        BY DEF PlaneTypes, Truced
      <4>4. recent[s].at \in Nat
        BY <4>3 DEF ActionRec
      <4>5. recent[s] # NoAction
        <5>1. NoAction.agent \notin Agents /\ NoAction.at = 0
          BY DEF NoAction, PlaneAssumption
        <5> QED BY <1>1, <2>3, <5>1
      <4>6. recent[s].agent = a \/ now - recent[s].at > ConflictWindow
        BY <1>1, <4>1, <4>2, <4>4, <4>5 DEF Conflicts
      <4>7. (recent'[s].agent = c /\ recent'[s].at >= t) \/ recent'[s].at - t > ConflictWindow
        <5>1. CASE recent[s].agent = a /\ recent[s].agent = c
          BY <2>1, <4>2, <5>1
        <5>2. CASE recent[s].at - t > ConflictWindow
          BY <1>1, <4>2, <4>3, <4>4, <5>2
        <5>3. CASE recent[s].at >= t /\ now - recent[s].at > ConflictWindow
          BY <1>1, <4>2, <4>3, <4>4, <5>3
        <5> QED BY <2>3, <4>6, <5>1, <5>2, <5>3
      <4> QED BY <2>1, <4>7 DEF Covered
    <3>4. recent'[s] = recent[s] \/ Unfrozen(s) \/ \E a \in Agents : Acted(a, s)
      BY DEF Ignored, Unfrozen, Frozen, Acted, Acts, PlaneTypes
    <3> QED BY <3>1, <3>2, <3>3, <3>4
  <2> QED BY <2>1, <2>2, <2>3 DEF Truced, Covered
<1>3. ASSUME Len(effects') = Len(effects) + 1, NEW i, i = Len(effects) + 1
      PROVE  Covered(i)'
  <2>1. NewEffect(effects'[i])
    BY <1>3 DEF EffectsMoved
  <2>2. /\ call.pc = "effector" /\ call.scope \in Scopes /\ call.agent \in Agents
        /\ effects'[i].scope = call.scope /\ effects'[i].agent = call.agent /\ effects'[i].at = now
    BY <2>1, Calling DEF NewEffect
  <2>3. recent[call.scope] = [agent |-> call.agent, at |-> now]
    BY <2>2 DEF Truced
  <2>4. recent' = recent
    <3>1. effects' # effects
      <4>1. Len(effects) # Len(effects) + 1
        BY DEF EffectsMoved
      <4> QED BY <1>3, <4>1
    <3> QED BY <3>1 DEF Ignored, Unfrozen, Frozen, Acted
  <2> QED BY <2>2, <2>3, <2>4 DEF Covered, GuardTypes
<1>4. \A i \in 1..Len(effects') : i \in 1..Len(effects) \/ (Len(effects') = Len(effects) + 1 /\ i = Len(effects) + 1)
  BY DEF EffectsMoved
<1> QED BY <1>2, <1>3, <1>4

\* An effect begins on a scope no truce holds, after the effects of its window.
LEMMA TrucedKept ==
  ASSUME PlaneAssumption, GuardTypes, CallsAgree, PlaneTypes, Truced, "chain" \notin Failed',
         [Next]_vars, GuardMove, ~Restart
  PROVE  Truced'
<1>1. /\ GuardAssumption /\ ChainMoved /\ EffectsMoved /\ GuardTypes' /\ CallsAgree' /\ NoCall.pc = "idle"
      /\ now \in Nat /\ now' \in Nat /\ now <= now' /\ Len(chain) \in Nat /\ ConflictWindow \in Nat
  BY MoveChain, MoveEffects, MoveTypes, MoveKeys, Records DEF PlaneAssumption, ChainMoved
<1>2. \/ Ignored
      \/ \E s \in Scopes : Unfrozen(s)
      \/ \E a \in Agents, s \in Scopes : Frozen(a, s) \/ Acted(a, s)
  BY TruceMoves
<1>3. ASSUME NEW s \in Scopes PROVE recent'[s].at <= now'
  <2>1. recent[s] \in ActionRec /\ recent[s].at <= now
    BY DEF PlaneTypes, Truced
  <2>2. recent[s].at \in Nat
    BY <2>1 DEF ActionRec
  <2>3. recent'[s] = recent[s] \/ recent'[s] = NoAction \/ (recent'[s].at = now /\ now' = now)
    BY <1>2 DEF Ignored, Unfrozen, Frozen, Acted, Acts, PlaneTypes
  <2> QED BY <1>1, <2>1, <2>2, <2>3 DEF NoAction
<1>4. \A n \in 1..Len(chain') : chain'[n].type = "truce" =>
        chain'[n].scope \in frozen' \/ Resolved(chain[n].scope, n, Len(chain))'
  BY <1>1, <1>2, FreezeKept
<1>5. call'.pc = "effector" =>
        call'.scope \notin frozen' /\ recent'[call'.scope] = [agent |-> call'.agent, at |-> now']
  <2> SUFFICES ASSUME call'.pc = "effector"
               PROVE  call'.scope \notin frozen' /\ recent'[call'.scope] = [agent |-> call'.agent, at |-> now']
    OBVIOUS
  <2>1. CASE Ignored
    BY <2>1 DEF Ignored, Truced
  <2>2. CASE (\E s \in Scopes : Unfrozen(s)) \/ \E a \in Agents, s \in Scopes : Frozen(a, s)
    BY <1>1, <2>2 DEF Unfrozen, Frozen
  <2>3. ASSUME NEW a \in Agents, NEW s \in Scopes, Acted(a, s)
        PROVE  call'.scope \notin frozen' /\ recent'[call'.scope] = [agent |-> call'.agent, at |-> now']
    BY <1>1, <2>3 DEF Acted, Acts, PlaneTypes
  <2> QED BY <1>2, <2>1, <2>2, <2>3
<1>6. \A i \in 1..Len(effects') : Covered(i)' \/ Resolved(effects[i].scope, effects[i].pos + 1, Len(chain))'
  BY <1>1, <1>2, CoverKept
<1>7. \A i \in 1..Len(effects') : i \in 1..Len(effects) \/ (Len(effects') = Len(effects) + 1 /\ i = Len(effects) + 1)
  BY <1>1 DEF EffectsMoved
<1>8. DOMAIN effects' = 1..Len(effects') /\ DOMAIN effects = 1..Len(effects)
  BY <1>1 DEF GuardTypes
<1>9. ASSUME NEW i \in 1..Len(effects)
      PROVE  /\ effects[i].pos \in Nat /\ effects[i].pos <= Len(chain) /\ effects'[i].pos = effects[i].pos
             /\ effects'[i].scope = effects[i].scope /\ effects'[i].agent = effects[i].agent
             /\ effects'[i].at = effects[i].at
             /\ \A n \in 1..effects[i].pos : chain'[n] = chain[n]
  <2>1. effects[i].pos \in Nat /\ effects[i].pos <= Len(chain)
    BY EffectFields DEF CallsAgree
  <2>2. /\ effects'[i].pos = effects[i].pos /\ effects'[i].scope = effects[i].scope
        /\ effects'[i].agent = effects[i].agent /\ effects'[i].at = effects[i].at
    BY <1>1 DEF EffectsMoved
  <2>3. \A n \in 1..effects[i].pos : n \in 1..Len(chain)
    BY <1>1, <2>1
  <2> QED BY <1>1, <2>1, <2>2, <2>3 DEF ChainMoved
<1>10. ASSUME Len(effects') = Len(effects) + 1, NEW i, i = Len(effects) + 1
       PROVE  /\ effects'[i].pos = Len(chain) /\ effects'[i].scope = call.scope /\ effects'[i].agent = call.agent
              /\ effects'[i].at = now /\ chain' = chain /\ call.pc = "effector"
              /\ call.scope \notin frozen /\ recent[call.scope] = [agent |-> call.agent, at |-> now]
  BY <1>1, <1>10 DEF EffectsMoved, NewEffect, Truced
<1>11. ASSUME NEW i \in 1..Len(effects'), NEW n \in 1..effects'[i].pos,
              chain'[n].type = "truce", chain'[n].scope = effects'[i].scope
       PROVE  \E m \in n..effects'[i].pos : chain'[m].type = "resolved" /\ chain'[m].scope = effects'[i].scope
  <2>1. CASE i \in 1..Len(effects)
    <3>1. n \in 1..effects[i].pos /\ chain[n].type = "truce" /\ chain[n].scope = effects[i].scope
      BY <1>9, <1>11, <2>1
    <3>2. PICK m \in n..effects[i].pos : chain[m].type = "resolved" /\ chain[m].scope = effects[i].scope
      BY <1>8, <2>1, <3>1 DEF Truced, TruceHolds
    <3>3. m \in 1..effects[i].pos
      BY <3>1
    <3> QED BY <1>9, <2>1, <3>2, <3>3
  <2>2. CASE Len(effects') = Len(effects) + 1 /\ i = Len(effects) + 1
    <3>1. n \in 1..Len(chain) /\ chain[n].type = "truce" /\ chain[n].scope = call.scope /\ call.scope \notin frozen
      BY <1>10, <1>11, <2>2
    <3>2. Resolved(call.scope, n, Len(chain))
      BY <3>1 DEF Truced
    <3> QED BY <1>10, <2>2, <3>2 DEF Resolved
  <2> QED BY <1>7, <2>1, <2>2
<1>12. ASSUME NEW j \in 1..Len(effects'), NEW i \in 1..Len(effects'),
              i < j, effects'[i].scope = effects'[j].scope, effects'[i].agent # effects'[j].agent
       PROVE  \/ effects'[j].at - effects'[i].at > ConflictWindow
              \/ \E n \in effects'[i].pos + 1 .. effects'[j].pos :
                   chain'[n].type = "resolved" /\ chain'[n].scope = effects'[i].scope
  <2>1. i \in 1..Len(effects)
    BY <1>1, <1>7, <1>12
  <2>2. CASE j \in 1..Len(effects)
    <3>1. effects[i].scope = effects[j].scope /\ effects[i].agent # effects[j].agent
      BY <1>9, <1>12, <2>1, <2>2
    <3>2. \/ effects[j].at - effects[i].at > ConflictWindow
          \/ \E n \in effects[i].pos + 1 .. effects[j].pos :
               chain[n].type = "resolved" /\ chain[n].scope = effects[i].scope
      BY <1>8, <1>12, <2>1, <2>2, <3>1 DEF Truced, TruceSeparates
    <3>3. effects[i].pos \in Nat /\ effects[j].pos \in Nat /\ \A n \in 1..effects[j].pos : chain'[n] = chain[n]
      BY <1>9, <2>1, <2>2
    <3>4. effects[i].pos + 1 .. effects[j].pos \subseteq 1..effects[j].pos
      BY <3>3
    <3>5. /\ effects'[i].at = effects[i].at /\ effects'[j].at = effects[j].at /\ effects'[i].pos = effects[i].pos
          /\ effects'[j].pos = effects[j].pos /\ effects'[i].scope = effects[i].scope
      BY <1>9, <2>1, <2>2
    <3> QED BY <3>2, <3>3, <3>4, <3>5
  <2>3. CASE Len(effects') = Len(effects) + 1 /\ j = Len(effects) + 1
    <3>1. /\ effects'[j].pos = Len(chain) /\ effects'[j].agent = call.agent /\ effects'[j].scope = call.scope
          /\ effects'[j].at = now /\ chain' = chain
          /\ recent[call.scope] = [agent |-> call.agent, at |-> now]
      BY <1>10, <2>3
    <3>2. effects[i].scope = call.scope /\ effects[i].agent # call.agent
      BY <1>9, <1>12, <2>1, <3>1
    <3>3. Covered(i) \/ Resolved(effects[i].scope, effects[i].pos + 1, Len(chain))
      BY <2>1 DEF Truced
    <3>4. CASE Covered(i)
      BY <1>9, <2>1, <3>1, <3>2, <3>4 DEF Covered
    <3>5. CASE Resolved(effects[i].scope, effects[i].pos + 1, Len(chain))
      BY <1>9, <2>1, <3>1, <3>5 DEF Resolved
    <3> QED BY <3>3, <3>4, <3>5
  <2> QED BY <1>7, <2>2, <2>3
<1>13. TruceHolds'
  BY <1>8, <1>11 DEF TruceHolds
<1>14. TruceSeparates'
  BY <1>8, <1>12 DEF TruceSeparates
<1> QED BY <1>3, <1>4, <1>5, <1>6, <1>13, <1>14 DEF Truced

\* What stops an effect, without a crash and with every event recorded.
StopsInv ==
  /\ Recording /\ PlaneTypes
  /\ Intact => Stopped /\ Truced

\* Initially so.
LEMMA StopsInvInit == PlaneAssumption /\ Init => StopsInv
<1> SUFFICES ASSUME PlaneAssumption, Init PROVE StopsInv
  OBVIOUS
<1>1. GuardAssumption /\ GuardInit /\ GuardInv
  BY GuardInvInit DEF PlaneAssumption, Init
<1>2. Recording /\ Stopped /\ PlaneTypes
  BY <1>1, InitGuard DEF GuardInv
<1>3. /\ Len(chain) = 0 /\ Len(effects) = 0 /\ now = 0 /\ call.pc = "idle" /\ 1..0 = {}
      /\ DOMAIN effects = 1..0
  BY <1>1, <1>2 DEF GuardInit, NoCall, Recording, GuardTypes
<1>4. \A s \in Scopes : recent[s].at <= now
  BY <1>3 DEF Init, NoAction
<1>5. Truced
  BY <1>3, <1>4 DEF Truced, TruceHolds, TruceSeparates
<1> QED BY <1>2, <1>5 DEF StopsInv

\* Every step keeps it.
LEMMA StopsInvNext == PlaneAssumption /\ StopsInv /\ [Next]_vars => StopsInv'
<1> SUFFICES ASSUME PlaneAssumption, StopsInv, [Next]_vars PROVE StopsInv'
  OBVIOUS
<1>1. GuardAssumption /\ GuardTypes /\ CallsAgree /\ Recording /\ PlaneTypes
  BY DEF PlaneAssumption, StopsInv, Recording
<1>2. PlaneTypes'
  BY <1>1, PlaneTypesKept
<1>3. CASE GuardMove /\ ~Restart
  <2>1. Recording' /\ (Stopped /\ "chain" \notin Failed' => Stopped') /\ Failed \subseteq Failed'
    BY <1>1, <1>3, MoveGuard
  <2>2. Intact' => Intact /\ "chain" \notin Failed'
    BY <2>1 DEF Intact
  <2>3. Truced /\ "chain" \notin Failed' => Truced'
    BY <1>1, <1>3, TrucedKept
  <2> QED BY <1>2, <2>1, <2>2, <2>3 DEF StopsInv
<1>4. CASE Restart
  BY <1>1, <1>2, <1>4, RestartKept DEF StopsInv, Intact
<1> QED BY <1>1, <1>3, <1>4, MovesOfV2

\* In the second root (wiring_v2.py), as long as nothing crashes and the chain takes
\* its events, nothing takes effect against an engaged kill switch or an unresolved
\* truce, and the effects of two agents on a scope are apart or resolved.
THEOREM StopsAreKept == Spec => []StopsHold
<1>1. Init => StopsInv
  BY StopsInvInit, PlaneAssumption
<1>2. StopsInv /\ [Next]_vars => StopsInv'
  BY StopsInvNext, PlaneAssumption
<1>3. StopsInv => StopsHold
  BY GuardSound DEF StopsInv, Truced, StopsHold, TypeOK, PlaneTypes, ActionRec, KillHolds
<1> QED BY <1>1, <1>2, <1>3, PTL DEF Spec
-----------------------------------------------------------------------------
(* The first root, on the same guard *)

\* A request as it is kept: its approvers differ from each other and, in team
\* mode, from its requester, and an approved one has as many as it needs.
SoundRequest(q) ==
  /\ q = NoRequest \/ q.state # "none"
  /\ IsFiniteSet(Range(q.approvers)) /\ Cardinality(Range(q.approvers)) = Len(q.approvers)
  /\ q.state = "approved" => Len(q.approvers) >= Required(q)
  /\ ~Solo => q.requester \notin Range(q.approvers)

\* What may become of a request in one step.
Same(q, p) == p.requester = q.requester /\ p.scope = q.scope /\ p.at = q.at
Evolves(q, p) ==
  \/ p = q
  \/ q = NoRequest /\ p.state = "pending" /\ p.approvers = <<>>
  \/ /\ Same(q, p) /\ p.approvers = q.approvers
     /\ q.state \in {"pending", "approved"} /\ p.state \in {"denied", "expired"}
  \/ /\ Same(q, p) /\ q.state = "pending"
     /\ \E h \in Humans :
          /\ p.approvers = Append(q.approvers, h) /\ h \notin Range(q.approvers)
          /\ h # q.requester \/ Solo
     /\ \/ p.state = "approved" /\ Len(q.approvers) + 1 >= Required(q)
        \/ p.state = "pending"

\* The type invariant of the first root's own state.
FirstTypes == requests \in [Requests -> Request] /\ grounds \subseteq Nat \X Requests \X Nat

\* The fields of an approval request.
LEMMA RequestFields ==
  ASSUME NEW q \in Request
  PROVE  /\ q.state \in {"none", "pending", "approved", "denied", "expired"}
         /\ q.requester \in Humans \cup {"nobody"} /\ q.scope \in Scopes \cup {Global} /\ q.at \in Nat
         /\ q.approvers \in Seq(Humans)
BY DEF Request

\* A request whose state changes, and one with another approver.
LEMMA NewStates ==
  /\ NoRequest \in Request /\ NoRequest.state = "none" /\ NoRequest.approvers = <<>>
  /\ \A q \in Request, st \in {"denied", "expired"} :
       LET p == [q EXCEPT !.state = st] IN
       p \in Request /\ p.state = st /\ Same(q, p) /\ p.approvers = q.approvers
  /\ \A q \in Request, h \in Humans :
       LET p == Approved(q, h) IN
       /\ p \in Request /\ Same(q, p) /\ p.approvers = Append(q.approvers, h)
       /\ p.state = IF Len(q.approvers) + 1 >= Required(q) THEN "approved" ELSE q.state
<1>1. /\ NoRequest \in Request /\ NoRequest.state = "none"
      /\ NoRequest.approvers = <<>>
  BY DEF NoRequest, Request
<1>2. ASSUME NEW q \in Request, NEW st \in {"denied", "expired"}
      PROVE  LET p == [q EXCEPT !.state = st] IN
             p \in Request /\ p.state = st /\ Same(q, p) /\ p.approvers = q.approvers
  BY DEF Request, Same
<1>3. ASSUME NEW q \in Request, NEW h \in Humans
      PROVE  LET p == Approved(q, h) IN
             /\ p \in Request /\ Same(q, p) /\ p.approvers = Append(q.approvers, h)
             /\ p.state = IF Len(q.approvers) + 1 >= Required(q) THEN "approved" ELSE q.state
  <2> DEFINE st == IF Len(q.approvers) + 1 >= Required(q) THEN "approved" ELSE q.state
             aps == Append(q.approvers, h)
  <2>1. st \in {"none", "pending", "approved", "denied", "expired"} /\ aps \in Seq(Humans)
    BY RequestFields, AppendProperties
  <2>2. Approved(q, h) = [q EXCEPT !.approvers = aps, !.state = st]
    BY DEF Approved
  <2> HIDE DEF st, aps
  <2>3. LET p == [q EXCEPT !.approvers = aps, !.state = st] IN
        p \in Request /\ Same(q, p) /\ p.approvers = aps /\ p.state = st
    BY <2>1 DEF Request, Same
  <2> QED BY <2>2, <2>3 DEF st, aps
<1> QED BY <1>1, <1>2, <1>3

\* A request is used as it is kept, unless it expires.
LEMMA SeenRequest ==
  ASSUME FirstTypes, NEW r \in Requests
  PROVE  /\ Seen(r) \in Request /\ Same(requests[r], Seen(r))
         /\ Seen(r).approvers = requests[r].approvers
         /\ Seen(r) = requests[r]
            \/ (requests[r].state \in {"pending", "approved"} /\ Seen(r).state = "expired")
<1>1. requests[r] \in Request
  BY DEF FirstTypes
<1>2. PICK p : /\ p = [requests[r] EXCEPT !.state = "expired"] /\ p \in Request /\ p.state = "expired"
               /\ Same(requests[r], p) /\ p.approvers = requests[r].approvers
  BY <1>1, NewStates
<1>3. Same(requests[r], requests[r])
  BY DEF Same
<1> QED BY <1>1, <1>2, <1>3 DEF Seen

\* What the first root does to its requests and grounds, beside a move of the guard.
Grounded(r) ==
  /\ grounds' = grounds \cup {<<Len(effects) + 1, r, now>>} /\ requests' = requests
  /\ requests[r].state = "approved" /\ now - requests[r].at <= ApprovalTTL

\* Every step of the first root is a move of the guard beside one of a request, and
\* only a request approved in time becomes a ground.
LEMMA MovesOfFirst ==
  ASSUME ApprovalAssumption, GuardTypes, FirstTypes, CallsAgree, [ApprovalNext]_approvalVars
  PROVE  /\ GuardMove
         /\ requests' \in [Requests -> Request]
         /\ \A r \in Requests : Evolves(requests[r], requests'[r])
         /\ grounds' = grounds \/ \E r \in Requests : Grounded(r)
<1>1. /\ GuardAssumption /\ now \in Nat /\ calls \in Nat /\ acts \in Nat /\ Never \in Nat /\ Never > now
      /\ ApprovalTTL \in Nat
  BY DEF ApprovalAssumption, GuardTypes, CallsAgree, GuardAssumption, Never
<1>2. /\ requests \in [Requests -> Request] /\ \A r \in Requests : Evolves(requests[r], requests[r])
  BY DEF FirstTypes, Evolves
\* One request changes.
<1>3. ASSUME NEW r \in Requests, NEW p \in Request, Evolves(requests[r], p),
             requests' = [requests EXCEPT ![r] = p]
      PROVE  requests' \in [Requests -> Request] /\ \A q \in Requests : Evolves(requests[q], requests'[q])
  BY <1>2, <1>3
<1>4. ASSUME Operator1, Quiet PROVE GuardMove /\ grounds' = grounds
  <2>1. Aside
    BY <1>1, <1>4 DEF Operator1, Quiet, Aside
  <2> QED BY <1>4, <2>1 DEF Quiet, GuardMove
<1>5. ASSUME NEW r \in Requests PROVE Evolves(requests[r], Seen(r))
  BY SeenRequest DEF Evolves
<1>6. ASSUME NEW r \in Requests, NEW h \in Humans, NEW s \in Scopes, Ask(r, h, s)
      PROVE  GuardMove /\ grounds' = grounds /\ requests' \in [Requests -> Request]
             /\ \A q \in Requests : Evolves(requests[q], requests'[q])
  <2> DEFINE p == [state |-> "pending", requester |-> h, scope |-> s, at |-> now, approvers |-> <<>>]
  <2>1. requests[r] = NoRequest /\ requests' = [requests EXCEPT ![r] = p]
    BY <1>6 DEF Ask
  <2>2. p \in Request /\ p.state = "pending" /\ p.approvers = <<>>
    BY <1>1 DEF Request
  <2> HIDE DEF p
  <2>3. Evolves(requests[r], p)
    BY <2>1, <2>2 DEF Evolves
  <2> QED BY <1>3, <1>4, <1>6, <2>1, <2>2, <2>3 DEF Ask
<1>7. ASSUME NEW r \in Requests, NEW h \in Humans, Approve(r, h)
      PROVE  GuardMove /\ grounds' = grounds /\ requests' \in [Requests -> Request]
             /\ \A q \in Requests : Evolves(requests[q], requests'[q])
  <2> DEFINE p == IF MayApprove(Seen(r), h) THEN Approved(Seen(r), h) ELSE Seen(r)
  <2>1. requests' = [requests EXCEPT ![r] = p]
    BY <1>7 DEF Approve
  <2>2. p \in Request /\ Evolves(requests[r], p)
    <3>1. CASE MayApprove(Seen(r), h)
      <4>1. /\ Seen(r).state = "pending" /\ (h # Seen(r).requester \/ Solo)
            /\ h \notin Range(Seen(r).approvers)
        BY <3>1 DEF MayApprove
      <4>2. Seen(r) = requests[r] /\ requests[r] \in Request /\ Seen(r).state = "pending"
        BY <3>1, SeenRequest DEF MayApprove
      <4>3. p = Approved(requests[r], h)
        BY <3>1, <4>2
      <4> HIDE DEF p
      <4>4. /\ p \in Request /\ Same(requests[r], p) /\ p.approvers = Append(requests[r].approvers, h)
            /\ p.state = IF Len(requests[r].approvers) + 1 >= Required(requests[r])
                         THEN "approved" ELSE requests[r].state
        BY <4>2, <4>3, NewStates
      <4>5. h # requests[r].requester \/ Solo
        BY <3>1, <4>2 DEF MayApprove
      <4>6. h \notin Range(requests[r].approvers)
        BY <3>1, <4>2 DEF MayApprove
      <4> QED BY <4>2, <4>4, <4>5, <4>6 DEF Evolves
    <3>2. CASE ~MayApprove(Seen(r), h)
      BY <1>5, <3>2, SeenRequest
    <3> QED BY <3>1, <3>2
  <2> HIDE DEF p
  <2> QED BY <1>3, <1>4, <1>7, <2>1, <2>2 DEF Approve
<1>8. ASSUME NEW r \in Requests, Deny(r)
      PROVE  GuardMove /\ grounds' = grounds /\ requests' \in [Requests -> Request]
             /\ \A q \in Requests : Evolves(requests[q], requests'[q])
  <2> DEFINE p == IF Seen(r).state \in {"pending", "approved"}
                  THEN [Seen(r) EXCEPT !.state = "denied"] ELSE Seen(r)
  <2>1. requests' = [requests EXCEPT ![r] = p]
    BY <1>8 DEF Deny
  <2>2. p \in Request /\ Evolves(requests[r], p)
    <3>1. CASE Seen(r).state \in {"pending", "approved"}
      <4>1. Seen(r) = requests[r] /\ requests[r] \in Request /\ requests[r].state \in {"pending", "approved"}
        BY <3>1, SeenRequest
      <4>2. p = [requests[r] EXCEPT !.state = "denied"]
        BY <3>1, <4>1
      <4> HIDE DEF p
      <4>3. /\ p \in Request /\ Same(requests[r], p) /\ p.approvers = requests[r].approvers
            /\ p.state = "denied"
        BY <4>1, <4>2, NewStates
      <4> QED BY <4>1, <4>3 DEF Evolves
    <3>2. CASE Seen(r).state \notin {"pending", "approved"}
      BY <1>5, <3>2, SeenRequest
    <3> QED BY <3>1, <3>2
  <2> HIDE DEF p
  <2> QED BY <1>3, <1>4, <1>8, <2>1, <2>2 DEF Deny
<1>9. ASSUME NEW a \in Agents, NEW s \in Scopes, HandleKilled(a, s)
      PROVE  GuardMove /\ UNCHANGED <<requests, grounds>>
  <2>1. /\ call = NoCall /\ calls' = calls + 1 /\ acts' = acts /\ Log(<<E("denied", a, s)>>)
        /\ UNCHANGED <<now, scopes, killed, hits, keys, call, effects>> /\ UNCHANGED <<requests, grounds>>
    BY <1>9 DEF HandleKilled, Called
  <2>2. <<E("denied", a, s)>> \in Seq(Plain)
    <3>1. E("denied", a, s) \in Plain
      BY <1>1, Records DEF Plain
    <3> QED BY <3>1
  <2> QED BY <2>1, <2>2, Noting
<1>10. ASSUME NEW a \in Agents, NEW s \in Scopes, NEW k \in Keys, NEW b \in Bodies,
              HandleUnapproved(a, s, k, b)
       PROVE  GuardMove /\ UNCHANGED <<requests, grounds>>
  <2>1. Guarded(a, s, k, b, Never) /\ UNCHANGED <<requests, grounds>>
    BY <1>10 DEF HandleUnapproved, Guarded
  <2> QED BY <1>1, <2>1 DEF GuardMove
<1>11. ASSUME NEW a \in Agents, NEW s \in Scopes, NEW k \in Keys, NEW b \in Bodies, NEW r \in Requests,
              HandleApproved(a, s, k, b, r)
       PROVE  /\ GuardMove /\ requests' \in [Requests -> Request]
              /\ \A q \in Requests : Evolves(requests[q], requests'[q])
              /\ grounds' = grounds \/ Grounded(r)
  <2>1. requests' = [requests EXCEPT ![r] = Seen(r)] /\ Seen(r) \in Request
    BY <1>11, SeenRequest DEF HandleApproved
  <2>2. PICK at \in Nat : /\ at = Authorization(Seen(r))
                          /\ at = Never \/ (Seen(r).state = "approved" /\ at = Seen(r).at)
    BY <1>1, <2>1, RequestFields DEF Authorization
  <2>3. Guarded(a, s, k, b, at)
    BY <1>11, <2>2 DEF HandleApproved, Guarded
  <2>4. grounds' = grounds \/ Grounded(r)
    <3> SUFFICES ASSUME grounds' # grounds PROVE Grounded(r)
      OBVIOUS
    <3>1. call' # NoCall /\ grounds' = grounds \cup {<<Len(effects) + 1, r, now>>}
      BY <1>11 DEF HandleApproved
    <3>2. at <= now /\ now - at <= ApprovalTTL
      BY <1>1, <2>3, <3>1, Decided DEF TurnedDown, LetThrough, Fresh
    <3>3. Seen(r).state = "approved" /\ at = Seen(r).at
      BY <1>1, <2>2, <3>2
    <3>4. Seen(r) = requests[r]
      BY <3>3, SeenRequest
    <3>5. requests' = requests
      BY <1>2, <2>1, <3>4
    <3> QED BY <3>1, <3>2, <3>3, <3>4, <3>5 DEF Grounded
  <2> QED BY <1>3, <1>5, <2>1, <2>3, <2>4 DEF GuardMove
<1>12. CASE GuardStep /\ UNCHANGED <<requests, grounds>>
  BY <1>2, <1>12 DEF GuardMove
<1>13. CASE UNCHANGED approvalVars
  <2>1. Aside /\ UNCHANGED <<requests, grounds>>
    BY <1>1, <1>13 DEF approvalVars, guardVars, Aside
  <2> QED BY <1>2, <2>1 DEF GuardMove
<1> QED BY <1>2, <1>6, <1>7, <1>8, <1>9, <1>10, <1>11, <1>12, <1>13 DEF ApprovalNext

\* A request stays sound, keeps its time and its approvers, and a denied or expired
\* one stays as it is.
LEMMA Evolving ==
  ASSUME NEW q \in Request, NEW p \in Request, SoundRequest(q), Evolves(q, p)
  PROVE  /\ SoundRequest(p)
         /\ q # NoRequest =>
              /\ p # NoRequest /\ Same(q, p)
              /\ Cardinality(Range(p.approvers)) >= Cardinality(Range(q.approvers))
         /\ q.state \in {"denied", "expired"} => p = q
<1>1. /\ NoRequest.state = "none" /\ NoRequest.approvers = <<>>
      /\ q.approvers \in Seq(Humans) /\ Len(q.approvers) \in Nat /\ p.approvers \in Seq(Humans)
      /\ Cardinality(Range(q.approvers)) = Len(q.approvers)
  BY NewStates, RequestFields DEF SoundRequest
<1>2. CASE p = q
  BY <1>1, <1>2 DEF Same
<1>3. CASE q = NoRequest /\ p.state = "pending" /\ p.approvers = <<>>
  <2>1. Range(p.approvers) = {} /\ Len(p.approvers) = 0
    BY <1>3 DEF Range
  <2>2. IsFiniteSet(Range(p.approvers)) /\ Cardinality(Range(p.approvers)) = 0
    BY <2>1, FS_EmptySet
  <2> QED BY <1>1, <1>3, <2>1, <2>2 DEF SoundRequest
<1>4. CASE /\ Same(q, p) /\ p.approvers = q.approvers
           /\ q.state \in {"pending", "approved"} /\ p.state \in {"denied", "expired"}
  <2>1. p # NoRequest
    BY <1>1, <1>4
  <2> QED BY <1>1, <1>4, <2>1 DEF SoundRequest, Same
<1>5. ASSUME NEW h \in Humans, Same(q, p), q.state = "pending",
             p.approvers = Append(q.approvers, h), h \notin Range(q.approvers), h # q.requester \/ Solo,
             \/ p.state = "approved" /\ Len(q.approvers) + 1 >= Required(q)
             \/ p.state = "pending"
      PROVE  /\ SoundRequest(p) /\ p # NoRequest
             /\ Cardinality(Range(p.approvers)) >= Cardinality(Range(q.approvers))
  <2>1. Range(p.approvers) = Range(q.approvers) \cup {h} /\ Len(p.approvers) = Len(q.approvers) + 1
    BY <1>1, <1>5, AppendProperties DEF Range
  <2>2. /\ IsFiniteSet(Range(p.approvers))
        /\ Cardinality(Range(p.approvers)) = Cardinality(Range(q.approvers)) + 1
    BY <1>5, <2>1, FS_AddElement DEF SoundRequest
  <2>3. Required(p) = Required(q)
    BY <1>5 DEF Required, Same
  <2>4. p # NoRequest
    BY <1>1, <1>5
  <2>5. ~Solo => p.requester \notin Range(p.approvers)
    BY <1>5, <2>1 DEF SoundRequest, Same
  <2>6. p.state # "none" /\ (p.state = "approved" => Len(p.approvers) >= Required(p))
    BY <1>5, <2>1, <2>3
  <2>7. Cardinality(Range(p.approvers)) = Len(p.approvers)
    BY <1>1, <2>1, <2>2
  <2> QED BY <1>1, <2>1, <2>2, <2>4, <2>5, <2>6, <2>7 DEF SoundRequest
<1> QED BY <1>1, <1>2, <1>3, <1>4, <1>5 DEF Evolves

\* A ground is a request that was approved in time, by as many as it needs.
SoundGround(g) ==
  LET q == requests[g[2]] IN
  /\ q # NoRequest /\ g[3] - q.at <= ApprovalTTL
  /\ Cardinality(Range(q.approvers)) >= Required(q)

\* The inductive invariant of the first root.
FirstInv ==
  /\ Recording /\ FirstTypes
  /\ "crash" \notin Failed => Limited
  /\ "chain" \notin Failed => Stopped
  /\ \A r \in Requests : SoundRequest(requests[r])
  /\ \A g \in grounds : SoundGround(g)

\* Initially so.
LEMMA FirstInvInit == ApprovalAssumption /\ ApprovalInit => FirstInv
<1> SUFFICES ASSUME ApprovalAssumption, ApprovalInit PROVE FirstInv
  OBVIOUS
<1>1. Recording /\ Limited /\ Stopped
  BY InitGuard DEF ApprovalAssumption, ApprovalInit
<1>2. FirstTypes
  BY NewStates DEF ApprovalInit, FirstTypes
<1>3. SoundRequest(NoRequest)
  <2>1. Range(NoRequest.approvers) = {} /\ Len(NoRequest.approvers) = 0
    BY NewStates DEF Range
  <2> QED BY <2>1, NewStates, FS_EmptySet DEF SoundRequest
<1> QED BY <1>1, <1>2, <1>3 DEF FirstInv, ApprovalInit

\* Every step keeps it, and what is denied or expired.
LEMMA FirstInvNext ==
  ApprovalAssumption /\ FirstInv /\ [ApprovalNext]_approvalVars => FirstInv' /\ TerminalSteps
<1> SUFFICES ASSUME ApprovalAssumption, FirstInv, [ApprovalNext]_approvalVars
             PROVE  FirstInv' /\ TerminalSteps
  OBVIOUS
<1>1. GuardAssumption /\ GuardTypes /\ CallsAgree /\ Recording /\ FirstTypes /\ now \in Nat /\ ApprovalTTL \in Nat
  BY DEF ApprovalAssumption, FirstInv, Recording, GuardTypes, GuardAssumption
<1>2. /\ GuardMove /\ requests' \in [Requests -> Request]
      /\ \A r \in Requests : Evolves(requests[r], requests'[r])
      /\ grounds' = grounds \/ \E r \in Requests : Grounded(r)
  BY <1>1, MovesOfFirst
<1>3. /\ Recording' /\ Failed \subseteq Failed' /\ (Limited => Limited')
      /\ Stopped /\ "chain" \notin Failed' => Stopped'
  BY <1>1, <1>2, MoveGuard
<1>4. ASSUME NEW r \in Requests
      PROVE  /\ SoundRequest(requests'[r])
             /\ requests[r] # NoRequest =>
                  /\ requests'[r] # NoRequest /\ Same(requests[r], requests'[r])
                  /\ Cardinality(Range(requests'[r].approvers)) >= Cardinality(Range(requests[r].approvers))
             /\ requests[r].state \in {"denied", "expired"} => requests'[r] = requests[r]
  <2>1. requests[r] \in Request /\ requests'[r] \in Request /\ SoundRequest(requests[r])
    BY <1>1, <1>2 DEF FirstTypes, FirstInv
  <2> QED BY <1>2, <2>1, Evolving
<1>5. FirstTypes'
  <2>1. ASSUME NEW r \in Requests, Grounded(r) PROVE grounds' \subseteq Nat \X Requests \X Nat
    <3>1. Len(effects) + 1 \in Nat
      BY <1>1 DEF GuardTypes
    <3>2. <<Len(effects) + 1, r, now>> \in Nat \X Requests \X Nat
      BY <1>1, <3>1
    <3> QED BY <1>1, <2>1, <3>2 DEF Grounded, FirstTypes
  <2> QED BY <1>1, <1>2, <2>1 DEF FirstTypes
\* A ground stays sound, for its request keeps its time and loses no approver.
<1>6. ASSUME NEW g \in grounds PROVE SoundGround(g)'
  <2>1. g[2] \in Requests /\ SoundGround(g)
    BY <1>1 DEF FirstTypes, FirstInv
  <2>2. PICK r \in Requests : r = g[2]
    BY <2>1
  <2>3. /\ requests'[r] # NoRequest /\ Same(requests[r], requests'[r])
        /\ Cardinality(Range(requests'[r].approvers)) >= Cardinality(Range(requests[r].approvers))
    BY <1>4, <2>1, <2>2 DEF SoundGround
  <2>4. Required(requests'[r]) = Required(requests[r]) /\ Required(requests[r]) \in Nat
    BY <2>3 DEF Required, Same
  <2>5. Cardinality(Range(requests'[r].approvers)) \in Nat /\ Cardinality(Range(requests[r].approvers)) \in Nat
    BY <1>4, FS_CardinalityType DEF SoundRequest, FirstInv
  <2>6. Cardinality(Range(requests'[r].approvers)) >= Required(requests'[r])
    BY <2>1, <2>2, <2>3, <2>4, <2>5 DEF SoundGround
  <2>7. g[3] - requests'[r].at <= ApprovalTTL
    BY <2>1, <2>2, <2>3 DEF SoundGround, Same
  <2> QED BY <2>2, <2>3, <2>6, <2>7 DEF SoundGround
<1>7. ASSUME NEW r \in Requests, Grounded(r), NEW g, g = <<Len(effects) + 1, r, now>>
      PROVE  SoundGround(g)' /\ g[2] = r
  <2>1. g[2] = r /\ g[3] = now
    BY <1>7
  <2>2. SoundRequest(requests[r]) /\ requests[r].state = "approved" /\ requests' = requests
        /\ now - requests[r].at <= ApprovalTTL
    BY <1>7 DEF Grounded, FirstInv
  <2>3. requests[r] # NoRequest
    BY <2>2, NewStates
  <2>4. Cardinality(Range(requests[r].approvers)) >= Required(requests[r])
    BY <2>2 DEF SoundRequest
  <2> QED BY <2>1, <2>2, <2>3, <2>4 DEF SoundGround
<1>8. \A g \in grounds' : SoundGround(g)'
  BY <1>2, <1>6, <1>7 DEF Grounded
<1>9. TerminalSteps
  <2> SUFFICES ASSUME NEW r \in Requests, requests[r].state \in {"denied", "expired"}
               PROVE  requests'[r] = requests[r] /\ \A g \in grounds' \ grounds : g[2] # r
    BY DEF TerminalSteps
  <2>1. requests'[r] = requests[r]
    BY <1>4
  <2>2. ASSUME NEW g \in grounds' \ grounds PROVE g[2] # r
    <3>1. PICK q \in Requests : Grounded(q)
      BY <1>2, <2>2
    <3>2. g = <<Len(effects) + 1, q, now>> /\ requests[q].state = "approved"
      BY <2>2, <3>1 DEF Grounded
    <3>3. g[2] = q
      BY <3>2
    <3> QED BY <3>2, <3>3
  <2> QED BY <2>1, <2>2
<1> QED BY <1>3, <1>4, <1>5, <1>8, <1>9 DEF FirstInv

\* It implies what the runs check.
LEMMA FirstClaims ==
  ASSUME FirstInv
  PROVE  ApprovalsHold /\ KillHolds /\ GuardHolds
<1>1. GuardTypeOK /\ RecordIsTrue /\ (Limited => OncePerKey /\ RateHolds)
  BY GuardSound DEF FirstInv
<1>2. ApprovalTypeOK
  BY DEF ApprovalTypeOK, FirstInv, FirstTypes
<1>3. EffectsAreApproved
  <2> SUFFICES ASSUME NEW g \in grounds
               PROVE  LET q == requests[g[2]] IN
                      /\ g[3] - q.at <= ApprovalTTL
                      /\ Cardinality(Range(q.approvers)) >= Required(q)
                      /\ ~Solo => q.requester \notin Range(q.approvers)
    BY DEF EffectsAreApproved
  <2>1. g[2] \in Requests /\ SoundGround(g)
    BY DEF FirstInv, FirstTypes
  <2>2. SoundRequest(requests[g[2]])
    BY <2>1 DEF FirstInv
  <2> QED BY <2>1, <2>2 DEF SoundGround, SoundRequest
<1>4. KillHolds
  BY GuardSound DEF FirstInv, KillHolds, Intact
<1> QED BY <1>1, <1>2, <1>3, <1>4 DEF ApprovalsHold, GuardHolds, FirstInv

\* It always holds.
LEMMA FirstAlways == ApprovalSpec => []FirstInv
<1>1. ApprovalInit => FirstInv
  BY FirstInvInit, ApprovalAssumption
<1>2. FirstInv /\ [ApprovalNext]_approvalVars => FirstInv'
  BY FirstInvNext, ApprovalAssumption
<1> QED BY <1>1, <1>2, PTL DEF ApprovalSpec

\* In the first root (wiring.py) whatever takes effect does so on a request at most
\* ApprovalTTL old, with as many different approvers as its scope requires and, in
\* team mode, none of them the requester.
THEOREM ApprovalsAreKept == ApprovalSpec => []ApprovalsHold
<1>1. FirstInv => ApprovalsHold
  BY FirstClaims
<1> QED BY <1>1, FirstAlways, PTL

\* In the first root nothing takes effect against an engaged kill switch, as long as
\* the chain takes its events.
THEOREM FirstStopsAreKept == ApprovalSpec => []KillHolds
<1>1. FirstInv => KillHolds
  BY FirstClaims
<1> QED BY <1>1, FirstAlways, PTL

\* The first root keeps the guard's limits and its record.
THEOREM FirstGuardIsKept == ApprovalSpec => []GuardHolds
<1>1. FirstInv => GuardHolds
  BY FirstClaims
<1> QED BY <1>1, FirstAlways, PTL

\* "Denials and expirations terminal": a denied or expired request of the first root
\* stays so, and nothing is allowed on its ground.
THEOREM TerminalStays == ApprovalSpec => TerminalIsFinal
<1>1. ApprovalInit => FirstInv
  BY FirstInvInit, ApprovalAssumption
<1>2. FirstInv /\ [ApprovalNext]_approvalVars => FirstInv' /\ TerminalSteps
  BY FirstInvNext, ApprovalAssumption
<1> QED BY <1>1, <1>2, PTL DEF ApprovalSpec, TerminalIsFinal
=============================================================================
