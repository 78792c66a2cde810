------------------------------ MODULE FeedCache ------------------------------
(***************************************************************************)
(* One key of the live-feed cache of killinchu_feeds_realdata.py: a value  *)
(* with a time to live, served stale while a background thread refreshes   *)
(* it, and a single flight that lets one caller fetch while the others     *)
(* wait for its result.                                                    *)
(*                                                                         *)
(* A fetched value is the pair of the times at which its fetch began and   *)
(* ended.  Time passes only while every thread waits for the upstream or   *)
(* for a timer: what a thread computes takes no time.                      *)
(***************************************************************************)
EXTENDS Naturals, FiniteSets

CONSTANTS Requests,     \* the requests for this key
          None,         \* no entry, no flight, no value
          Ttl,          \* ttl of _fetch_cached_meta
          ColdWait,     \* cold_wait of _fetch_cached_meta
          WaitTimeout,  \* wait_timeout of _single_flight
          MaxFetch,     \* the longest an upstream takes, all fallbacks included
          MaxTime       \* bound on the clock

Own(r)  == <<r, "own">>      \* the thread of the request
Back(r) == <<r, "back">>     \* the thread it may start
Tasks   == Requests \X {"own", "back"}

Values  == [read : 0..MaxTime, as_of : 0..MaxTime]
Entries == [val : Values, ts : 0..MaxTime]

ASSUME FeedAssumption ==
  /\ {Ttl, ColdWait, WaitTimeout, MaxFetch, MaxTime} \subseteq Nat
  /\ Ttl > 0
  /\ None \notin Tasks /\ None \notin Values /\ None \notin Entries

VARIABLES now,     \* time.time()
          entry,   \* _CACHE[ck]
          flight,  \* the leader whose _Flight is registered in _INFLIGHT
          task,    \* the threads that call _single_flight
          ask      \* the requests and their answers
vars == <<now, entry, flight, task, ask>>

Local  == {"join", "check", "store", "pop", "wake"}

TypeOK ==
  /\ now \in 0..MaxTime
  /\ entry \in {None} \cup Entries
  /\ flight \in {None} \cup Tasks
  /\ task \in [Tasks -> [pc : Local \cup {"off", "fetch", "follow", "ended"},
                         role : {"none", "leader", "follower", "alone"},
                         on : {None} \cup Tasks, since : 0..MaxTime,
                         kind : {"ok", "err"}, val : {None} \cup Values]]
  /\ ask \in [Requests -> [pc : {"idle", "wait", "cold", "answered", "failed"},
                           asked : 0..MaxTime, hit : BOOLEAN,
                           val : {None} \cup Values]]

Init ==
  /\ now = 0
  /\ entry = None
  /\ flight = None
  /\ task = [t \in Tasks |-> [pc |-> "off", role |-> "none", on |-> None,
                              since |-> 0, kind |-> "ok", val |-> None]]
  /\ ask = [r \in Requests |-> [pc |-> "idle", asked |-> 0, hit |-> FALSE,
                                val |-> None]]

Fresh == entry # None /\ now - entry.ts < Ttl

-----------------------------------------------------------------------------
(* _fetch_cached_meta: the thread of the request.                          *)

Starts(t) == task' = [task EXCEPT ![t].pc = "join"]

Answers(r, pc, val, hit) ==
  ask' = [ask EXCEPT ![r] = [pc |-> pc, asked |-> now, hit |-> hit, val |-> val]]

Hit(r) ==
  /\ Fresh
  /\ Answers(r, "answered", entry.val, TRUE)
  /\ UNCHANGED task

\* A stale value is returned at once; the thread that refreshes it may not start.
Stale(r) ==
  /\ entry # None /\ ~Fresh
  /\ Answers(r, "answered", entry.val, TRUE)
  /\ Starts(Back(r)) \/ UNCHANGED task

\* With cold_empty the fetch runs in a thread and the request waits a while;
\* without it, or when the thread does not start, the request fetches itself.
Cold(r) ==
  /\ entry = None
  /\ \/ Answers(r, "cold", None, FALSE) /\ Starts(Back(r))
     \/ Answers(r, "wait", None, FALSE) /\ Starts(Own(r))

Ask(r) ==
  /\ ask[r].pc = "idle"
  /\ Hit(r) \/ Stale(r) \/ Cold(r)
  /\ UNCHANGED <<now, entry, flight>>

Ended(t) == task[t].pc = "ended"

Return(r) ==
  /\ ask[r].pc = "wait" /\ Ended(Own(r))
  /\ ask' = [ask EXCEPT ![r].pc = IF task[Own(r)].kind = "ok" THEN "answered" ELSE "failed",
                        ![r].val = task[Own(r)].val]
  /\ UNCHANGED <<now, entry, flight, task>>

\* The background fetch ended in time; its failure is answered with cold_empty.
ColdLands(r) ==
  /\ ask[r].pc = "cold" /\ Ended(Back(r))
  /\ ask' = [ask EXCEPT ![r].pc = "answered", ![r].val = task[Back(r)].val]
  /\ UNCHANGED <<now, entry, flight, task>>

ColdExpires(r) ==
  /\ ask[r].pc = "cold" /\ ~Ended(Back(r))
  /\ now >= ask[r].asked + ColdWait
  /\ ask' = [ask EXCEPT ![r].pc = "answered"]
  /\ UNCHANGED <<now, entry, flight, task>>

-----------------------------------------------------------------------------
(* _single_flight and the _produce it is given.                            *)

\* Mutant: the registry is read and written without its lock: both callers lead.
JoinUnlocked(t) ==
  /\ task[t].pc = "join"
  /\ flight' = t
  /\ task' = [task EXCEPT ![t].pc = "check", ![t].role = "leader"]
  /\ UNCHANGED <<now, entry, ask>>

Join(t) ==
  /\ task[t].pc = "join"
  /\ IF flight = None
     THEN /\ flight' = t
          /\ task' = [task EXCEPT ![t].pc = "check", ![t].role = "leader"]
     ELSE /\ task' = [task EXCEPT ![t].pc = "follow", ![t].role = "follower",
                                  ![t].on = flight, ![t].since = now]
          /\ UNCHANGED flight
  /\ UNCHANGED <<now, entry, ask>>

\* Only a leader has a flight to take off the registry.
Leave(t) == IF task[t].role = "leader" THEN "pop" ELSE "ended"

Check(t) ==
  /\ task[t].pc = "check"
  /\ task' = IF Fresh
             THEN [task EXCEPT ![t].pc = Leave(t), ![t].val = entry.val]
             ELSE [task EXCEPT ![t].pc = "fetch", ![t].since = now]
  /\ UNCHANGED <<now, entry, flight, ask>>

\* Mutant: a value is stamped with the time its fetch began.
FetchEndsStamped(t) ==
  /\ task[t].pc = "fetch"
  /\ \/ task' = [task EXCEPT ![t].pc = "store",
                             ![t].val = [read |-> task[t].since, as_of |-> task[t].since]]
     \/ task' = [task EXCEPT ![t].pc = Leave(t), ![t].kind = "err"]
  /\ UNCHANGED <<now, entry, flight, ask>>

FetchEnds(t) ==
  /\ task[t].pc = "fetch"
  /\ \/ task' = [task EXCEPT ![t].pc = "store",
                             ![t].val = [read |-> task[t].since, as_of |-> now]]
     \/ task' = [task EXCEPT ![t].pc = Leave(t), ![t].kind = "err"]
  /\ UNCHANGED <<now, entry, flight, ask>>

\* Mutant: the entry keeps its deadline where its readers expect its time.
StoreDeadline(t) ==
  /\ task[t].pc = "store"
  /\ entry' = [val |-> task[t].val, ts |-> now + Ttl]
  /\ task' = [task EXCEPT ![t].pc = Leave(t)]
  /\ UNCHANGED <<now, flight, ask>>

Store(t) ==
  /\ task[t].pc = "store"
  /\ entry' = [val |-> task[t].val, ts |-> now]
  /\ task' = [task EXCEPT ![t].pc = Leave(t)]
  /\ UNCHANGED <<now, flight, ask>>

\* Mutant: the finished flight stays in the registry.
PopNever(t) ==
  /\ task[t].pc = "pop"
  /\ task' = [task EXCEPT ![t].pc = "wake"]
  /\ UNCHANGED <<now, entry, flight, ask>>

Pop(t) ==
  /\ task[t].pc = "pop"
  /\ flight' = IF flight = t THEN None ELSE flight
  /\ task' = [task EXCEPT ![t].pc = "wake"]
  /\ UNCHANGED <<now, entry, ask>>

\* Mutant: the leader leaves without setting the event.
WakeNever(t) ==
  /\ task[t].pc = "wake"
  /\ task' = [task EXCEPT ![t].pc = "off"]
  /\ UNCHANGED <<now, entry, flight, ask>>

Wake(t) ==
  /\ task[t].pc = "wake"
  /\ task' = [task EXCEPT ![t].pc = "ended"]
  /\ UNCHANGED <<now, entry, flight, ask>>

\* A follower takes the result off the flight it holds, an error included.
Share(t) ==
  /\ task[t].pc = "follow" /\ Ended(task[t].on)
  /\ LET f == task[task[t].on]
     IN  task' = [task EXCEPT ![t].pc = "ended", ![t].kind = f.kind, ![t].val = f.val]
  /\ UNCHANGED <<now, entry, flight, ask>>

TimedOut(t) ==
  /\ task[t].pc = "follow" /\ ~Ended(task[t].on)
  /\ now >= task[t].since + WaitTimeout

\* A follower that waited too long runs the producer itself.
GiveUp(t) ==
  /\ TimedOut(t)
  /\ task' = [task EXCEPT ![t].pc = "check", ![t].role = "alone"]
  /\ UNCHANGED <<now, entry, flight, ask>>

-----------------------------------------------------------------------------
Respond(r) == Return(r) \/ ColdLands(r) \/ ColdExpires(r)
Work(t) ==
  Join(t) \/ Check(t) \/ Store(t) \/ Pop(t) \/ Wake(t) \/ Share(t) \/ GiveUp(t)

\* Nothing is due: every thread waits for an upstream, a flight or a timer.
Waiting ==
  /\ \A t \in Tasks :
       /\ task[t].pc \notin Local
       /\ task[t].pc = "follow" => ~Ended(task[t].on) /\ ~TimedOut(t)
       /\ task[t].pc = "fetch" => now < task[t].since + MaxFetch
  /\ \A r \in Requests :
       /\ ask[r].pc = "wait" => ~Ended(Own(r))
       /\ ask[r].pc = "cold" => ~Ended(Back(r)) /\ now < ask[r].asked + ColdWait

Tick ==
  /\ now < MaxTime /\ Waiting
  /\ now' = now + 1
  /\ UNCHANGED <<entry, flight, task, ask>>

Next ==
  \/ \E r \in Requests : Ask(r) \/ Respond(r)
  \/ \E t \in Tasks : Work(t) \/ FetchEnds(t)
  \/ Tick

Spec == Init /\ [][Next]_vars

\* Threads run, and every upstream call has a time limit.
Fairness ==
  /\ \A r \in Requests : WF_vars(Respond(r))
  /\ \A t \in Tasks : WF_vars(Work(t)) /\ WF_vars(FetchEnds(t))

FairSpec == Spec /\ Fairness

-----------------------------------------------------------------------------
Fetching(t) == task[t].pc = "fetch"

\* Two flights never fetch at once: what fetches beside a flight is a follower
\* that gave up on it (_single_flight).
OneFlight == Cardinality({t \in Tasks : Fetching(t) /\ task[t].role = "leader"}) <= 1

\* A background refresh that succeeds leaves an entry fetched after the stale
\* answer that asked for it: no refresh ends on a result older than its cause.
RefreshRenews ==
  \A r \in Requests :
    (Ended(Back(r)) /\ task[Back(r)].kind = "ok")
      => (entry # None /\ entry.val.as_of >= ask[r].asked)

\* An answer that is not a cache hit comes from a fetch that ended after the
\* request, also when another request made that fetch.
MissIsNew ==
  \A r \in Requests :
    (ask[r].pc = "answered" /\ ~ask[r].hit /\ ask[r].val # None)
      => ask[r].val.as_of >= ask[r].asked

\* No fetch in progress is forgotten and no finished flight stays registered:
\* a request that joins a flight joins one whose leader still runs.
FlightRuns ==
  /\ flight # None => task[flight].pc \in {"check", "fetch", "store", "pop"}
  /\ \A t \in Tasks : (Fetching(t) /\ task[t].role = "leader") => flight = t

\* Flights and answers: one leader fetches, its flight is the registered one,
\* and no refresh or cold answer is older than what asked for it.
FeedSound == TypeOK /\ OneFlight /\ FlightRuns /\ RefreshRenews /\ MissIsNew

\* The entry never goes back to an older reading of the upstream, unless a
\* follower gave up and fetched beside its leader.
NeverOlder ==
  [][(entry # None /\ \A t \in Tasks : task[t].role # "alone")
       => entry'.val.read >= entry.val.read]_vars

\* Every request is answered: no one waits for a flight that ended without it.
Answered == \A r \in Requests : ask[r].pc \in {"wait", "cold"} ~> ask[r].pc \in {"answered", "failed"}
=============================================================================
