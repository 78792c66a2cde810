------------------------------ MODULE FeedProofs ------------------------------
(***************************************************************************)
(* The live-feed cache and the crawls of the public feed, proved for any   *)
(* number of requests, watchlists and triggers, any time limits and every  *)
(* fault.                                                                  *)
(*                                                                         *)
(* The cache: one leader fetches at a time, an answer that is not a hit    *)
(* and a refresh that succeeds are at least as new as what asked for them, *)
(* and the entry does not go back in time while no follower gave up on its *)
(* leader.  A follower takes over what its leader found, so the heart of   *)
(* the invariant relates two threads (SharedNew): a result that a thread   *)
(* is about to give is as new as every request waiting for it, also when   *)
(* the leader did not fetch but met an entry another thread had just       *)
(* stored.  What makes that true is Outdated: an entry a request was sent  *)
(* past is still past its time to live, or was stored since.               *)
(*                                                                         *)
(* The crawls: pages tell of committed observations only, in their order,  *)
(* and alternate; the pager ends in agreement with the store.  Crawls run  *)
(* at once and their intents are claimed in any order, so the heart is     *)
(* that the pager has the last observation of a trigger or an intent that  *)
(* does is on its way (Settles), with one intent per transaction and       *)
(* trigger (OnePerEvent): a claim that comes late is of another one.       *)
(***************************************************************************)
EXTENDS FeedCache, CrawlAlerts, FiniteSetTheorems, TLAPS

\* The time at which the request of thread t was made.
Asked(t) == ask[t[1]].asked

\* Thread t is the leader of a flight that other threads may join.
Leads(t) == task[t].role = "leader" /\ task[t].pc \in {"check", "fetch", "store", "pop"}

\* A thread has a role, a leader to follow and a result only from the step on that gives it one.
StagesAgree ==
  \A t \in Tasks :
    /\ task[t].pc \in {"off", "join"} => task[t].role = "none"
    /\ task[t].pc = "follow" => 
         task[t].role = "follower" /\ task[t].on \in Tasks /\ task[task[t].on].role = "leader"
    /\ task[t].pc \in {"check", "fetch", "store"} => task[t].role \in {"leader", "alone"}
    /\ task[t].pc \in {"pop", "wake"} => task[t].role = "leader"
    /\ task[t].pc \in {"off", "join", "follow", "check", "fetch"}
         => task[t].kind = "ok" /\ task[t].val = None
    /\ task[t].kind = "err" => task[t].val = None

\* The registered flight is the one whose leader is at work, and there is no other.
FlightLeads ==
  /\ flight # None => Leads(flight)
  /\ \A t \in Tasks : Leads(t) => flight = t

\* A request's threads start with it, and only an answer brings it a value.
RequestsAgree ==
  \A r \in Requests :
    /\ ask[r].asked <= now
    /\ ask[r].pc = "idle" => task[Own(r)].pc = "off" /\ task[Back(r)].pc = "off"
    /\ ask[r].pc \in {"wait", "cold"} => ask[r].val = None

\* An entry is stamped with the time its fetch ended, which has passed.
EntryDated ==
  entry # None => entry.val.read <= entry.ts /\ entry.val.as_of = entry.ts /\ entry.ts <= now

\* A request starts a thread past an outdated entry only: what the thread finds
\* is past its time to live, counted from the request, or newer than the request.
Outdated ==
  \A t \in Tasks :
    (task[t].pc # "off" /\ entry # None)
      => entry.ts + Ttl <= Asked(t) \/ entry.ts >= Asked(t)

\* A value about to be stored was fetched now; a result is as new as its own
\* request and not newer than the entry, and a leader leaves the registry at once.
ResultsNew ==
  \A t \in Tasks :
    /\ task[t].pc = "fetch" => task[t].since <= now
    /\ task[t].pc = "store" =>
         task[t].val # None /\ task[t].val.read <= now /\ task[t].val.as_of = now
    /\ (task[t].pc \in {"pop", "wake", "ended"} /\ task[t].kind = "ok") =>
         /\ task[t].val # None /\ task[t].val.as_of >= Asked(t)
         /\ entry # None /\ entry.ts >= task[t].val.as_of
    /\ (task[t].pc = "pop" /\ task[t].kind = "ok") => task[t].val.as_of + Ttl > now

\* What a leader found is as new as the requests of those that follow it, and
\* of those that may still join it.
SharedNew ==
  \A t, f \in Tasks :
    /\ (task[f].pc = "join" /\ task[t].pc = "pop" /\ task[t].kind = "ok")
         => task[t].val.as_of >= Asked(f)
    /\ (task[f].pc = "follow" /\ task[f].on = t
         /\ task[t].pc \in {"pop", "wake", "ended"} /\ task[t].kind = "ok")
         => task[t].val.as_of >= Asked(f)

\* While no follower gave up, a fetch began after the fetch of the entry it will replace.
ReadsOrdered ==
  (entry # None /\ \A t \in Tasks : task[t].role # "alone") =>
    \A t \in Tasks :
      /\ task[t].pc = "fetch" => entry.val.read <= task[t].since
      /\ task[t].pc = "store" => entry.val.read <= task[t].val.read

\* The inductive invariant.
IInv ==
  /\ TypeOK /\ StagesAgree /\ FlightLeads /\ RequestsAgree /\ EntryDated
  /\ Outdated /\ ResultsNew /\ SharedNew /\ ReadsOrdered /\ MissIsNew

USE FeedAssumption

TaskRec == [pc : Local \cup {"off", "fetch", "follow", "ended"},
            role : {"none", "leader", "follower", "alone"},
            on : {None} \cup Tasks, since : 0..MaxTime,
            kind : {"ok", "err"}, val : {None} \cup Values]

AskRec == [pc : {"idle", "wait", "cold", "answered", "failed"},
           asked : 0..MaxTime, hit : BOOLEAN, val : {None} \cup Values]

-----------------------------------------------------------------------------
\* The two threads of a request are its own and no other's.
LEMMA Threads ==
  ASSUME NEW r \in Requests
  PROVE  /\ Own(r) \in Tasks /\ Own(r)[1] = r
         /\ Back(r) \in Tasks /\ Back(r)[1] = r
         /\ Own(r) # Back(r)
         /\ \A t \in Tasks : t[1] \in Requests /\ (t[1] = r => t \in {Own(r), Back(r)})
BY DEF Own, Back, Tasks

\* The times in the state are numbers, and no request was made in the future.
LEMMA Numbers ==
  ASSUME IInv
  PROVE  /\ task \in [Tasks -> TaskRec] /\ ask \in [Requests -> AskRec]
         /\ now \in Nat /\ Ttl \in Nat /\ Ttl > 0
         /\ \A t \in Tasks : task[t].since \in Nat /\ Asked(t) \in Nat /\ Asked(t) <= now
         /\ \A t \in Tasks : task[t].val # None =>
              task[t].val \in Values /\ task[t].val.read \in Nat /\ task[t].val.as_of \in Nat
         /\ entry # None =>
              /\ entry.val \in Values /\ entry.val # None /\ entry.ts \in Nat
              /\ entry.val.read \in Nat /\ entry.val.as_of \in Nat
<1>1. task \in [Tasks -> TaskRec] /\ ask \in [Requests -> AskRec] /\ now \in Nat /\ Ttl \in Nat
  BY DEF IInv, TypeOK, TaskRec, AskRec
<1>2. \A t \in Tasks : task[t].since \in Nat /\ (task[t].val # None => task[t].val \in Values)
  BY <1>1 DEF TaskRec
<1>3. \A v \in Values : v.read \in Nat /\ v.as_of \in Nat
  BY DEF Values
<1>4. \A r \in Requests : ask[r].asked \in Nat /\ ask[r].asked <= now
  BY <1>1 DEF AskRec, IInv, RequestsAgree
<1>5. \A t \in Tasks : t[1] \in Requests
  BY DEF Tasks
<1>6. \A t \in Tasks : Asked(t) \in Nat /\ Asked(t) <= now
  BY <1>4, <1>5 DEF Asked
<1>7. entry # None => entry.val \in Values /\ entry.ts \in Nat
  BY DEF IInv, TypeOK, Entries
<1> QED BY <1>1, <1>2, <1>3, <1>6, <1>7

-----------------------------------------------------------------------------
\* A thread that finds no flight leads, and one that finds a flight follows its leader.
LEMMA JoinKeeps ==
  ASSUME IInv, NEW t \in Tasks, Join(t)
  PROVE  IInv'
<1>1. /\ task \in [Tasks -> TaskRec] /\ task[t] \in TaskRec /\ now \in 0..MaxTime
      /\ entry \in {None} \cup Entries /\ flight \in {None} \cup Tasks /\ MaxTime \in Nat
  BY DEF IInv, TypeOK, TaskRec
<1>2. /\ \A u \in Tasks : u # t => task'[u] = task[u]
      /\ task'[t].val = task[t].val /\ task'[t].kind = task[t].kind
      /\ task[t].pc = "join" /\ task'[t].pc \in {"check", "follow"}
      /\ task'[t].pc = "check" => flight = None /\ flight' = t /\ task'[t].role = "leader"
      /\ task'[t].pc = "follow" =>
           flight # None /\ flight' = flight /\ task'[t].role = "follower" /\ task'[t].on = flight
      /\ entry' = entry /\ now' = now /\ ask' = ask
  BY <1>1 DEF Join, TaskRec
<1>3. task' \in [Tasks -> TaskRec] /\ task'[t] \in TaskRec
  BY <1>1, Numbers DEF Join, TaskRec, Local
<1>4. TypeOK' /\ \A u \in Tasks : Asked(u)' = Asked(u)
  BY <1>1, <1>2, <1>3 DEF IInv, TypeOK, TaskRec, Asked
<1>5. StagesAgree'
  BY <1>1, <1>2, Numbers DEF IInv, StagesAgree, FlightLeads, Leads
<1>6. FlightLeads'
  BY <1>1, <1>2 DEF IInv, StagesAgree, FlightLeads, Leads
<1>7. RequestsAgree'
  BY <1>1, <1>2, Threads DEF IInv, RequestsAgree
<1>8. EntryDated' /\ MissIsNew'
  BY <1>1, <1>2, Numbers DEF IInv, EntryDated, MissIsNew
<1>9. Outdated'
  BY <1>1, <1>2, <1>4, Numbers DEF IInv, Outdated
<1>10. ResultsNew'
  BY <1>1, <1>2, <1>4, Numbers DEF IInv, ResultsNew
<1>11. SharedNew'
  BY <1>1, <1>2, <1>4, Numbers DEF IInv, SharedNew, ResultsNew, FlightLeads, Leads
<1>12. ReadsOrdered'
  BY <1>1, <1>2, Numbers DEF IInv, ReadsOrdered, StagesAgree
<1> QED BY <1>4, <1>5, <1>6, <1>7, <1>8, <1>9, <1>10, <1>11, <1>12 DEF IInv

\* A producer looks at the entry again before it fetches.
LEMMA CheckKeeps ==
  ASSUME IInv, NEW t \in Tasks, Check(t)
  PROVE  IInv'
<1>1. /\ task \in [Tasks -> TaskRec] /\ task[t] \in TaskRec /\ now \in 0..MaxTime
      /\ entry \in {None} \cup Entries /\ flight \in {None} \cup Tasks /\ MaxTime \in Nat
  BY DEF IInv, TypeOK, TaskRec
<1>2. /\ \A u \in Tasks : u # t => task'[u] = task[u]
      /\ task'[t].role = task[t].role /\ task'[t].kind = task[t].kind
      /\ task[t].pc = "check" /\ flight' = flight
      /\ Fresh => task'[t].pc = Leave(t) /\ task'[t].val = entry.val
      /\ ~Fresh => task'[t].pc = "fetch" /\ task'[t].val = task[t].val /\ task'[t].since = now
      /\ entry' = entry /\ now' = now /\ ask' = ask
  BY <1>1 DEF Check, TaskRec
<1>3. task' \in [Tasks -> TaskRec] /\ task'[t] \in TaskRec
  BY <1>1, Numbers DEF Check, TaskRec, Local, Leave, Fresh, Entries
<1>4. TypeOK' /\ \A u \in Tasks : Asked(u)' = Asked(u)
  BY <1>1, <1>2, <1>3 DEF IInv, TypeOK, TaskRec, Asked
<1>5. StagesAgree'
  BY <1>1, <1>2, Numbers DEF IInv, StagesAgree, Leave, Fresh
<1>6. FlightLeads'
  BY <1>1, <1>2 DEF IInv, StagesAgree, FlightLeads, Leads, Leave
<1>7. RequestsAgree'
  BY <1>1, <1>2, Threads DEF IInv, RequestsAgree
<1>8. EntryDated' /\ MissIsNew'
  BY <1>1, <1>2, Numbers DEF IInv, EntryDated, MissIsNew
<1>9. Outdated'
  BY <1>1, <1>2, <1>4, Numbers DEF IInv, Outdated
<1>10. ResultsNew'
  BY <1>1, <1>2, <1>4, Numbers DEF IInv, ResultsNew, Fresh, Leave, Outdated, EntryDated, StagesAgree
<1>11. SharedNew'
  BY <1>1, <1>2, <1>4, Numbers DEF IInv, SharedNew, Fresh, Leave, Outdated, EntryDated, StagesAgree
<1>12. ReadsOrdered'
  BY <1>1, <1>2, Numbers DEF IInv, ReadsOrdered, StagesAgree, Fresh, Leave, EntryDated
<1> QED BY <1>4, <1>5, <1>6, <1>7, <1>8, <1>9, <1>10, <1>11, <1>12 DEF IInv

\* The upstream answers, or fails.
LEMMA FetchEndsKeeps ==
  ASSUME IInv, NEW t \in Tasks, FetchEnds(t)
  PROVE  IInv'
<1>1. /\ task \in [Tasks -> TaskRec] /\ task[t] \in TaskRec /\ now \in 0..MaxTime
      /\ entry \in {None} \cup Entries /\ flight \in {None} \cup Tasks /\ MaxTime \in Nat
  BY DEF IInv, TypeOK, TaskRec
<1>2. /\ \A u \in Tasks : u # t => task'[u] = task[u]
      /\ task'[t].role = task[t].role /\ task[t].pc = "fetch" /\ flight' = flight
      /\ [read |-> task[t].since, as_of |-> now] # None
      /\ \/ /\ task'[t].pc = "store" /\ task'[t].kind = task[t].kind
            /\ task'[t].val = [read |-> task[t].since, as_of |-> now]
         \/ task'[t].pc = Leave(t) /\ task'[t].val = task[t].val /\ task'[t].kind = "err"
      /\ entry' = entry /\ now' = now /\ ask' = ask
  BY <1>1 DEF FetchEnds, TaskRec, Values
<1>3. task' \in [Tasks -> TaskRec] /\ task'[t] \in TaskRec
  BY <1>1, Numbers DEF FetchEnds, TaskRec, Local, Leave, Values
<1>4. TypeOK' /\ \A u \in Tasks : Asked(u)' = Asked(u)
  BY <1>1, <1>2, <1>3 DEF IInv, TypeOK, TaskRec, Asked
<1>5. StagesAgree'
  BY <1>1, <1>2, Numbers DEF IInv, StagesAgree, Leave
<1>6. FlightLeads'
  BY <1>1, <1>2 DEF IInv, StagesAgree, FlightLeads, Leads, Leave
<1>7. RequestsAgree'
  BY <1>1, <1>2, Threads DEF IInv, RequestsAgree
<1>8. EntryDated' /\ MissIsNew'
  BY <1>1, <1>2, Numbers DEF IInv, EntryDated, MissIsNew
<1>9. Outdated'
  BY <1>1, <1>2, <1>4, Numbers DEF IInv, Outdated
<1>10. ResultsNew'
  BY <1>1, <1>2, <1>4, Numbers DEF IInv, ResultsNew, Leave, StagesAgree
<1>11. SharedNew'
  BY <1>1, <1>2, <1>4, Numbers DEF IInv, SharedNew, Leave, StagesAgree
<1>12. ReadsOrdered'
  BY <1>1, <1>2, Numbers DEF IInv, ReadsOrdered, StagesAgree, Leave
<1> QED BY <1>4, <1>5, <1>6, <1>7, <1>8, <1>9, <1>10, <1>11, <1>12 DEF IInv

\* A fetched value becomes the entry, with the time of the store.
LEMMA StoreKeeps ==
  ASSUME IInv, NEW t \in Tasks, Store(t)
  PROVE  IInv'
<1>1. /\ task \in [Tasks -> TaskRec] /\ task[t] \in TaskRec /\ now \in 0..MaxTime
      /\ entry \in {None} \cup Entries /\ flight \in {None} \cup Tasks /\ MaxTime \in Nat
  BY DEF IInv, TypeOK, TaskRec
<1>2. /\ \A u \in Tasks : u # t => task'[u] = task[u]
      /\ task'[t].role = task[t].role /\ task'[t].kind = task[t].kind
      /\ task'[t].val = task[t].val /\ task'[t].since = task[t].since
      /\ task[t].pc = "store" /\ task'[t].pc = Leave(t) /\ flight' = flight
      /\ entry' = [val |-> task[t].val, ts |-> now] /\ now' = now /\ ask' = ask
  BY <1>1 DEF Store, TaskRec
<1>3. task' \in [Tasks -> TaskRec] /\ task'[t] \in TaskRec
  BY <1>1, Numbers DEF Store, TaskRec, Local, Leave
<1>4. TypeOK' /\ entry' # None /\ \A u \in Tasks : Asked(u)' = Asked(u)
  BY <1>1, <1>2, <1>3 DEF IInv, TypeOK, TaskRec, Asked, Entries, ResultsNew
<1>5. StagesAgree'
  BY <1>1, <1>2, Numbers DEF IInv, StagesAgree, Leave
<1>6. FlightLeads'
  BY <1>1, <1>2 DEF IInv, StagesAgree, FlightLeads, Leads, Leave
<1>7. RequestsAgree'
  BY <1>1, <1>2, Threads DEF IInv, RequestsAgree
<1>8. EntryDated' /\ MissIsNew'
  BY <1>1, <1>2, Numbers DEF IInv, EntryDated, MissIsNew, ResultsNew
<1>9. Outdated'
  BY <1>1, <1>2, <1>4, Numbers DEF IInv, Outdated
<1>10. ResultsNew'
  BY <1>1, <1>2, <1>4, Numbers DEF IInv, ResultsNew, Leave, StagesAgree, EntryDated
<1>11. SharedNew'
  BY <1>1, <1>2, <1>4, Numbers DEF IInv, SharedNew, Leave, ResultsNew
<1>12. ReadsOrdered'
  BY <1>1, <1>2, Numbers DEF IInv, ReadsOrdered, StagesAgree, Leave, ResultsNew, FlightLeads, Leads
<1> QED BY <1>4, <1>5, <1>6, <1>7, <1>8, <1>9, <1>10, <1>11, <1>12 DEF IInv

\* The leader takes its flight off the registry.
LEMMA PopKeeps ==
  ASSUME IInv, NEW t \in Tasks, Pop(t)
  PROVE  IInv'
<1>1. /\ task \in [Tasks -> TaskRec] /\ task[t] \in TaskRec /\ now \in 0..MaxTime
      /\ entry \in {None} \cup Entries /\ flight \in {None} \cup Tasks /\ MaxTime \in Nat
  BY DEF IInv, TypeOK, TaskRec
<1>2. /\ \A u \in Tasks : u # t => task'[u] = task[u]
      /\ task'[t].val = task[t].val /\ task'[t].kind = task[t].kind
      /\ task[t].pc = "pop" /\ task'[t].pc = "wake" /\ task'[t].role = task[t].role
      /\ flight' = IF flight = t THEN None ELSE flight
      /\ entry' = entry /\ now' = now /\ ask' = ask
  BY <1>1 DEF Pop, TaskRec
<1>3. task' \in [Tasks -> TaskRec] /\ task'[t] \in TaskRec
  BY <1>1, Numbers DEF Pop, TaskRec, Local
<1>4. TypeOK' /\ \A u \in Tasks : Asked(u)' = Asked(u)
  BY <1>1, <1>2, <1>3 DEF IInv, TypeOK, TaskRec, Asked
<1>5. StagesAgree'
  BY <1>1, <1>2, Numbers DEF IInv, StagesAgree
<1>6. FlightLeads'
  BY <1>1, <1>2 DEF IInv, StagesAgree, FlightLeads, Leads
<1>7. RequestsAgree'
  BY <1>1, <1>2, Threads DEF IInv, RequestsAgree
<1>8. EntryDated' /\ MissIsNew'
  BY <1>1, <1>2, Numbers DEF IInv, EntryDated, MissIsNew
<1>9. Outdated'
  BY <1>1, <1>2, <1>4, Numbers DEF IInv, Outdated
<1>10. ResultsNew'
  BY <1>1, <1>2, <1>4, Numbers DEF IInv, ResultsNew
<1>11. SharedNew'
  BY <1>1, <1>2, <1>4, Numbers DEF IInv, SharedNew
<1>12. ReadsOrdered'
  BY <1>1, <1>2, Numbers DEF IInv, ReadsOrdered, StagesAgree
<1> QED BY <1>4, <1>5, <1>6, <1>7, <1>8, <1>9, <1>10, <1>11, <1>12 DEF IInv

\* The leader wakes its followers.
LEMMA WakeKeeps ==
  ASSUME IInv, NEW t \in Tasks, Wake(t)
  PROVE  IInv'
<1>1. /\ task \in [Tasks -> TaskRec] /\ task[t] \in TaskRec /\ now \in 0..MaxTime
      /\ entry \in {None} \cup Entries /\ flight \in {None} \cup Tasks /\ MaxTime \in Nat
  BY DEF IInv, TypeOK, TaskRec
<1>2. /\ \A u \in Tasks : u # t => task'[u] = task[u]
      /\ task'[t].val = task[t].val /\ task'[t].kind = task[t].kind
      /\ task[t].pc = "wake" /\ task'[t].pc = "ended" /\ task'[t].role = task[t].role
      /\ flight' = flight
      /\ entry' = entry /\ now' = now /\ ask' = ask
  BY <1>1 DEF Wake, TaskRec
<1>3. task' \in [Tasks -> TaskRec] /\ task'[t] \in TaskRec
  BY <1>1, Numbers DEF Wake, TaskRec
<1>4. TypeOK' /\ \A u \in Tasks : Asked(u)' = Asked(u)
  BY <1>1, <1>2, <1>3 DEF IInv, TypeOK, TaskRec, Asked
<1>5. StagesAgree'
  BY <1>1, <1>2, Numbers DEF IInv, StagesAgree
<1>6. FlightLeads'
  BY <1>1, <1>2 DEF IInv, StagesAgree, FlightLeads, Leads
<1>7. RequestsAgree'
  BY <1>1, <1>2, Threads DEF IInv, RequestsAgree
<1>8. EntryDated' /\ MissIsNew'
  BY <1>1, <1>2, Numbers DEF IInv, EntryDated, MissIsNew
<1>9. Outdated'
  BY <1>1, <1>2, <1>4, Numbers DEF IInv, Outdated
<1>10. ResultsNew'
  BY <1>1, <1>2, <1>4, Numbers DEF IInv, ResultsNew
<1>11. SharedNew'
  BY <1>1, <1>2, <1>4, Numbers DEF IInv, SharedNew
<1>12. ReadsOrdered'
  BY <1>1, <1>2, Numbers DEF IInv, ReadsOrdered, StagesAgree
<1> QED BY <1>4, <1>5, <1>6, <1>7, <1>8, <1>9, <1>10, <1>11, <1>12 DEF IInv

\* A follower takes its leader's result: SharedNew.
LEMMA ShareKeeps ==
  ASSUME IInv, NEW t \in Tasks, Share(t)
  PROVE  IInv'
<1>1. /\ task \in [Tasks -> TaskRec] /\ task[t] \in TaskRec /\ now \in 0..MaxTime
      /\ entry \in {None} \cup Entries /\ flight \in {None} \cup Tasks /\ MaxTime \in Nat
  BY DEF IInv, TypeOK, TaskRec
<1>2. /\ \A u \in Tasks : u # t => task'[u] = task[u]
      /\ task'[t].role = task[t].role /\ task[t].pc = "follow" /\ flight' = flight
      /\ task[task[t].on].pc = "ended" /\ task'[t].pc = "ended"
      /\ task'[t].kind = task[task[t].on].kind /\ task'[t].val = task[task[t].on].val
      /\ entry' = entry /\ now' = now /\ ask' = ask
  BY <1>1 DEF Share, TaskRec, Ended
<1>3. task' \in [Tasks -> TaskRec] /\ task'[t] \in TaskRec
  BY <1>1, Numbers DEF Share, TaskRec, StagesAgree, IInv
<1>4. TypeOK' /\ \A u \in Tasks : Asked(u)' = Asked(u)
  BY <1>1, <1>2, <1>3 DEF IInv, TypeOK, TaskRec, Asked
<1>5. StagesAgree'
  BY <1>1, <1>2, Numbers DEF IInv, StagesAgree
<1>6. FlightLeads'
  BY <1>1, <1>2 DEF IInv, StagesAgree, FlightLeads, Leads
<1>7. RequestsAgree'
  BY <1>1, <1>2, Threads DEF IInv, RequestsAgree
<1>8. EntryDated' /\ MissIsNew'
  BY <1>1, <1>2, Numbers DEF IInv, EntryDated, MissIsNew
<1>9. Outdated'
  BY <1>1, <1>2, <1>4, Numbers DEF IInv, Outdated
<1>10. ResultsNew'
  BY <1>1, <1>2, <1>4, Numbers DEF IInv, ResultsNew, StagesAgree, SharedNew
<1>11. SharedNew'
  BY <1>1, <1>2, <1>4, Numbers DEF IInv, SharedNew, StagesAgree
<1>12. ReadsOrdered'
  BY <1>1, <1>2, Numbers DEF IInv, ReadsOrdered, StagesAgree
<1> QED BY <1>4, <1>5, <1>6, <1>7, <1>8, <1>9, <1>10, <1>11, <1>12 DEF IInv

\* A follower goes its own way.
LEMMA GiveUpKeeps ==
  ASSUME IInv, NEW t \in Tasks, GiveUp(t)
  PROVE  IInv'
<1>1. /\ task \in [Tasks -> TaskRec] /\ task[t] \in TaskRec /\ now \in 0..MaxTime
      /\ entry \in {None} \cup Entries /\ flight \in {None} \cup Tasks /\ MaxTime \in Nat
  BY DEF IInv, TypeOK, TaskRec
<1>2. /\ \A u \in Tasks : u # t => task'[u] = task[u]
      /\ task'[t].val = task[t].val /\ task'[t].kind = task[t].kind
      /\ task[t].pc = "follow" /\ task'[t].pc = "check" /\ task'[t].role = "alone"
      /\ flight' = flight
      /\ entry' = entry /\ now' = now /\ ask' = ask
  BY <1>1 DEF GiveUp, TaskRec, TimedOut
<1>3. task' \in [Tasks -> TaskRec] /\ task'[t] \in TaskRec
  BY <1>1, Numbers DEF GiveUp, TaskRec, Local
<1>4. TypeOK' /\ \A u \in Tasks : Asked(u)' = Asked(u)
  BY <1>1, <1>2, <1>3 DEF IInv, TypeOK, TaskRec, Asked
<1>5. StagesAgree'
  BY <1>1, <1>2, Numbers DEF IInv, StagesAgree
<1>6. FlightLeads'
  BY <1>1, <1>2 DEF IInv, StagesAgree, FlightLeads, Leads
<1>7. RequestsAgree'
  BY <1>1, <1>2, Threads DEF IInv, RequestsAgree
<1>8. EntryDated' /\ MissIsNew'
  BY <1>1, <1>2, Numbers DEF IInv, EntryDated, MissIsNew
<1>9. Outdated'
  BY <1>1, <1>2, <1>4, Numbers DEF IInv, Outdated
<1>10. ResultsNew'
  BY <1>1, <1>2, <1>4, Numbers DEF IInv, ResultsNew
<1>11. SharedNew'
  BY <1>1, <1>2, <1>4, Numbers DEF IInv, SharedNew
<1>12. ReadsOrdered'
  BY <1>1, <1>2, Numbers DEF IInv, ReadsOrdered, StagesAgree
<1> QED BY <1>4, <1>5, <1>6, <1>7, <1>8, <1>9, <1>10, <1>11, <1>12 DEF IInv

-----------------------------------------------------------------------------
\* A request is answered from the entry or sends a thread past it.
LEMMA AskKeeps ==
  ASSUME IInv, NEW r \in Requests, Ask(r)
  PROVE  IInv'
<1>1. /\ task \in [Tasks -> TaskRec] /\ ask \in [Requests -> AskRec] /\ ask[r] \in AskRec
      /\ now \in 0..MaxTime /\ entry \in {None} \cup Entries
      /\ flight \in {None} \cup Tasks /\ MaxTime \in Nat
  BY DEF IInv, TypeOK, TaskRec, AskRec
<1>2. /\ \A q \in Requests : q # r => ask'[q] = ask[q]
      /\ ask[r].pc = "idle" /\ ask'[r].asked = now
      /\ ask'[r].pc \in {"answered", "wait", "cold"}
      /\ ask'[r].pc = "answered" => ask'[r].hit /\ entry # None
      /\ ask'[r].pc # "answered" => ask'[r].val = None /\ entry = None
      /\ ask' \in [Requests -> AskRec] /\ ask'[r] \in AskRec
      /\ entry' = entry /\ now' = now /\ flight' = flight
  <2>1. ask[r].pc = "idle" /\ UNCHANGED <<now, entry, flight>>
    BY DEF Ask
  <2>2. \/ entry # None /\ Answers(r, "answered", entry.val, TRUE)
        \/ entry = None /\ Answers(r, "cold", None, FALSE)
        \/ entry = None /\ Answers(r, "wait", None, FALSE)
    BY DEF Ask, Hit, Stale, Cold, Fresh
  <2>3. PICK pc \in {"answered", "cold", "wait"}, val \in {None} \cup Values, hit \in BOOLEAN :
           /\ ask' = [ask EXCEPT ![r] = [pc |-> pc, asked |-> now, hit |-> hit, val |-> val]]
           /\ pc = "answered" => hit /\ entry # None
           /\ pc # "answered" => val = None /\ entry = None
    BY <2>2, Numbers DEF Answers
  <2>4. [pc |-> pc, asked |-> now, hit |-> hit, val |-> val] \in AskRec
    BY <1>1, <2>3 DEF AskRec
  <2> QED BY <1>1, <2>1, <2>3, <2>4
<1>3. \/ task' = task
      \/ /\ entry # None => ~Fresh
         /\ \E t \in {Own(r), Back(r)} : task' = [task EXCEPT ![t].pc = "join"]
  BY DEF Ask, Hit, Stale, Cold, Starts
<1>4. task[Own(r)].pc = "off" /\ task[Back(r)].pc = "off"
  BY <1>2 DEF IInv, RequestsAgree
<1>5. \A u \in Tasks : u[1] # r => Asked(u)' = Asked(u)
  BY <1>2, Threads DEF Asked
<1>6. \A u \in Tasks : u[1] = r => task[u].pc = "off" /\ Asked(u)' = now
  BY <1>2, <1>4, Threads DEF Asked
<1>7. EntryDated' /\ MissIsNew'
  BY <1>1, <1>2 DEF IInv, EntryDated, MissIsNew
<1>8. CASE task' = task
  <2>1. TypeOK' /\ StagesAgree' /\ FlightLeads' /\ ReadsOrdered'
    BY <1>1, <1>2, <1>8 DEF IInv, TypeOK, StagesAgree, FlightLeads, Leads, ReadsOrdered, TaskRec, AskRec
  <2>2. RequestsAgree'
    BY <1>1, <1>2, <1>8, Numbers DEF IInv, RequestsAgree
  <2>3. Outdated' /\ ResultsNew' /\ SharedNew'
    BY <1>1, <1>2, <1>5, <1>6, <1>8, Numbers DEF IInv, Outdated, ResultsNew, SharedNew
  <2> QED BY <1>7, <2>1, <2>2, <2>3 DEF IInv
<1>9. ASSUME NEW t \in {Own(r), Back(r)}, task' = [task EXCEPT ![t].pc = "join"],
             entry # None => ~Fresh
      PROVE  IInv'
  <2>1. t \in Tasks /\ t[1] = r /\ task[t] \in TaskRec /\ task[t].pc = "off"
    BY <1>1, <1>4, <1>9, Threads
  <2>2. /\ \A u \in Tasks : u # t => task'[u] = task[u]
        /\ task'[t].pc = "join" /\ task'[t].role = task[t].role /\ task'[t].on = task[t].on
        /\ task'[t].kind = task[t].kind /\ task'[t].val = task[t].val
        /\ task' \in [Tasks -> TaskRec]
    BY <1>1, <1>9, <2>1 DEF TaskRec, Local
  <2>3. TypeOK'
    BY <1>1, <1>2, <2>2 DEF IInv, TypeOK, TaskRec, AskRec
  <2>4. StagesAgree' /\ FlightLeads' /\ ReadsOrdered'
    BY <1>1, <1>2, <2>1, <2>2 DEF IInv, StagesAgree, FlightLeads, Leads, ReadsOrdered
  <2>5. RequestsAgree'
    BY <1>1, <1>2, <2>1, <2>2, Threads, Numbers DEF IInv, RequestsAgree
  <2>6. Outdated'
    BY <1>1, <1>2, <1>5, <1>6, <1>9, <2>1, <2>2, Numbers DEF IInv, Outdated, EntryDated, Fresh
  <2>7. ResultsNew'
    BY <1>1, <1>2, <1>5, <1>6, <1>9, <2>1, <2>2, Numbers DEF IInv, ResultsNew
  <2>8. SharedNew'
    BY <1>1, <1>2, <1>5, <1>6, <1>9, <2>1, <2>2, Numbers
       DEF IInv, SharedNew, ResultsNew, EntryDated, Fresh
  <2> QED BY <1>7, <2>3, <2>4, <2>5, <2>6, <2>7, <2>8 DEF IInv
<1> QED BY <1>3, <1>8, <1>9

\* A request that waited takes its thread's result, or goes without.
LEMMA RespondKeeps ==
  ASSUME IInv, NEW r \in Requests, Respond(r)
  PROVE  IInv'
<1>1. /\ task \in [Tasks -> TaskRec] /\ ask \in [Requests -> AskRec] /\ ask[r] \in AskRec
      /\ \A q \in Requests : ask[q].asked \in Nat
  BY DEF IInv, TypeOK, TaskRec, AskRec
<1>2. /\ \A q \in Requests : q # r => ask'[q] = ask[q]
      /\ ask'[r].asked = ask[r].asked /\ ask'[r].pc \in {"answered", "failed"}
      /\ ask[r].pc \in {"wait", "cold"}
      /\ UNCHANGED <<now, entry, flight, task>>
  BY <1>1 DEF Respond, Return, ColdLands, ColdExpires, AskRec
<1>3. \/ ask'[r].val = None
      \/ \E t \in {Own(r), Back(r)} :
           /\ task[t].pc = "ended" /\ ask'[r].val = task[t].val
           /\ ask'[r].pc = "answered" => task[t].kind = "ok" \/ task[t].val = None
  <2>1. ask[r].val = None
    BY <1>2 DEF IInv, RequestsAgree
  <2>2. CASE Return(r)
    BY <1>1, <2>2 DEF Return, AskRec, Ended
  <2>3. CASE ColdLands(r)
    BY <1>1, <2>3, Threads DEF ColdLands, AskRec, Ended, IInv, StagesAgree, TaskRec
  <2>4. CASE ColdExpires(r)
    BY <1>1, <2>1, <2>4 DEF ColdExpires, AskRec
  <2> QED BY <2>2, <2>3, <2>4 DEF Respond
<1>4. ask' \in [Requests -> AskRec]
  BY <1>1, Threads DEF Respond, Return, ColdLands, ColdExpires, AskRec, TaskRec
<1>5. \A u \in Tasks : Asked(u)' = Asked(u)
  BY <1>1, <1>2, Threads DEF Asked
<1>6. TypeOK' /\ StagesAgree' /\ FlightLeads' /\ EntryDated' /\ ReadsOrdered'
  BY <1>2, <1>4 DEF IInv, TypeOK, TaskRec, AskRec, StagesAgree, FlightLeads, Leads, EntryDated, ReadsOrdered
<1>7. RequestsAgree'
  BY <1>1, <1>2 DEF IInv, RequestsAgree
<1>8. Outdated' /\ ResultsNew' /\ SharedNew'
  BY <1>2, <1>5 DEF IInv, Outdated, ResultsNew, SharedNew
<1>9. MissIsNew'
  <2>1. \A t \in {Own(r), Back(r)} : Asked(t) = ask[r].asked /\ t \in Tasks
    BY Threads DEF Asked
  <2> QED BY <1>1, <1>2, <1>3, <2>1 DEF IInv, MissIsNew, ResultsNew
<1> QED BY <1>6, <1>7, <1>8, <1>9 DEF IInv

\* Time passes only while no thread is at a local step.
LEMMA TickKeeps ==
  ASSUME IInv, Tick
  PROVE  IInv'
<1>1. now \in 0..MaxTime /\ MaxTime \in Nat /\ now' = now + 1 /\ now' \in 0..MaxTime
  BY DEF IInv, TypeOK, Tick
<1>2. UNCHANGED <<entry, flight, task, ask>> /\ \A t \in Tasks : task[t].pc \notin Local
  BY DEF Tick, Waiting
<1>3. TypeOK' /\ StagesAgree' /\ FlightLeads' /\ MissIsNew' /\ ReadsOrdered'
  BY <1>1, <1>2 DEF IInv, TypeOK, StagesAgree, FlightLeads, Leads, MissIsNew, ReadsOrdered
<1>4. RequestsAgree' /\ EntryDated'
  BY <1>1, <1>2, Numbers DEF IInv, RequestsAgree, EntryDated, TypeOK, AskRec
<1>5. Outdated' /\ SharedNew'
  BY <1>2 DEF IInv, Outdated, SharedNew, Asked
<1>6. ResultsNew'
  BY <1>1, <1>2, Numbers DEF IInv, ResultsNew, Local, Asked
<1> QED BY <1>3, <1>4, <1>5, <1>6 DEF IInv

-----------------------------------------------------------------------------
\* The process starts with an empty cache.
LEMMA InitHolds == Init => IInv
<1> SUFFICES ASSUME Init PROVE IInv
  OBVIOUS
<1>1. TypeOK
  BY DEF Init, TypeOK, Local
<1>2. \A t \in Tasks : task[t].pc = "off" /\ task[t].role = "none" /\ task[t].kind = "ok" /\ task[t].val = None
  BY DEF Init
<1>3. RequestsAgree /\ MissIsNew
  BY <1>2, Threads DEF Init, RequestsAgree, MissIsNew
<1>4. EntryDated /\ ReadsOrdered /\ Outdated
  BY DEF Init, EntryDated, ReadsOrdered, Outdated
<1>5. StagesAgree /\ FlightLeads /\ ResultsNew /\ SharedNew
  BY <1>2 DEF Init, StagesAgree, FlightLeads, Leads, ResultsNew, SharedNew
<1> QED BY <1>1, <1>3, <1>4, <1>5 DEF IInv

\* Every step preserves the invariant: one step per action.
LEMMA StepKeeps == IInv /\ [Next]_vars => IInv'
<1> SUFFICES ASSUME IInv, [Next]_vars PROVE IInv'
  OBVIOUS
<1>1. ASSUME NEW r \in Requests, Ask(r) PROVE IInv'
  BY <1>1, AskKeeps
<1>2. ASSUME NEW r \in Requests, Respond(r) PROVE IInv'
  BY <1>2, RespondKeeps
<1>3. ASSUME NEW t \in Tasks, Work(t) PROVE IInv'
  BY <1>3, JoinKeeps, CheckKeeps, StoreKeeps, PopKeeps, WakeKeeps, ShareKeeps, GiveUpKeeps DEF Work
<1>4. ASSUME NEW t \in Tasks, FetchEnds(t) PROVE IInv'
  BY <1>4, FetchEndsKeeps
<1>5. CASE Tick
  BY <1>5, TickKeeps
<1>6. CASE UNCHANGED vars
  BY <1>6 DEF vars, IInv, TypeOK, StagesAgree, FlightLeads, Leads, RequestsAgree, EntryDated,
              Outdated, Asked, ResultsNew, SharedNew, ReadsOrdered, MissIsNew
<1> QED BY <1>1, <1>2, <1>3, <1>4, <1>5, <1>6 DEF Next

\* The inductive invariant of the feed cache (_fetch_cached_meta, _single_flight).
THEOREM FeedInvariant == Spec => []IInv
<1>1. Init => IInv
  BY InitHolds
<1>2. IInv /\ [Next]_vars => IInv'
  BY StepKeeps
<1> QED BY <1>1, <1>2, PTL DEF Spec

\* Two leading fetches would be the registered flight twice.
LEMMA InvariantIsSound == IInv => FeedSound
<1> SUFFICES ASSUME IInv PROVE FeedSound
  OBVIOUS
<1>1. OneFlight
  <2> DEFINE S == {t \in Tasks : Fetching(t) /\ task[t].role = "leader"}
  <2>1. \A t \in S : t = flight
    BY DEF IInv, FlightLeads, Leads, Fetching
  <2>2. S = {} \/ S = {flight}
    BY <2>1
  <2>3. Cardinality(S) \in {0, 1}
    BY <2>2, FS_EmptySet, FS_Singleton
  <2> QED BY <2>3 DEF OneFlight
<1>2. FlightRuns
  BY DEF IInv, FlightLeads, Leads, FlightRuns, Fetching
<1>3. RefreshRenews
  <2> SUFFICES ASSUME NEW r \in Requests, task[Back(r)].pc = "ended", task[Back(r)].kind = "ok"
               PROVE  entry # None /\ entry.val.as_of >= ask[r].asked
    BY DEF RefreshRenews, Ended
  <2>1. Back(r) \in Tasks /\ Asked(Back(r)) = ask[r].asked
    BY Threads DEF Asked
  <2> QED BY <2>1, Numbers DEF IInv, ResultsNew, EntryDated
<1> QED BY <1>1, <1>2, <1>3 DEF IInv, FeedSound

\* One leader fetches and its flight is the registered one; a refresh that ends
\* well and a cold answer are at least as new as the request that asked for them.
THEOREM FeedIsSound == Spec => []FeedSound
BY FeedInvariant, InvariantIsSound, PTL

\* No store of a leader takes the entry back to an older reading of the upstream
\* (_produce in _fetch_cached_meta).
THEOREM EntryNeverOlder == Spec => NeverOlder
<1>1. ASSUME IInv, [Next]_vars
      PROVE  [(entry # None /\ \A t \in Tasks : task[t].role # "alone")
                => entry'.val.read >= entry.val.read]_vars
  <2> SUFFICES ASSUME entry # None, \A t \in Tasks : task[t].role # "alone", Next
               PROVE  entry'.val.read >= entry.val.read
    BY <1>1
  <2>1. entry.val.read \in Nat
    BY <1>1, Numbers
  <2>2. ASSUME NEW t \in Tasks, Store(t)
        PROVE  entry'.val.read >= entry.val.read
    BY <1>1, <2>2, Numbers DEF Store, IInv, ReadsOrdered, ResultsNew
  <2>3. (\E t \in Tasks : Store(t)) \/ entry' = entry
    BY DEF Next, Ask, Respond, Return, ColdLands, ColdExpires, Work, Join, Check, FetchEnds,
           Pop, Wake, Share, GiveUp, Tick
  <2> QED BY <2>1, <2>2, <2>3
<1> QED BY <1>1, FeedInvariant, PTL DEF Spec, NeverOlder
-----------------------------------------------------------------------------
(* Crawls, alerts and pages *)

\* An intent under delivery is of a committed transaction that no claim of its
\* trigger has taken, and has its alert if it says that the trigger fires.
IntentOk(n) ==
  /\ n.at <= latest[n.id].at /\ n.at # pager[n.id].at
  /\ n.firing => [event |-> n.at, id |-> n.id] \in alerts
IntentsOk == \A j \in Jobs :
  /\ jobs[j].pc # "deliver" => jobs[j].intents = {}
  /\ \A n \in jobs[j].intents : IntentOk(n)

\* A trigger has one intent per transaction.
OnePerEvent == \A j, k \in Jobs : \A n \in jobs[j].intents, m \in jobs[k].intents :
  n.id = m.id /\ n.at = m.at => j = k /\ n = m

\* What the pager remembers of a trigger, beside its pages: the place of the
\* last one, and that it says so while the trigger fires.
Remembers(i) ==
  LET s == sent[i]  last == s[Len(s)] IN
  /\ s = <<>> => pager[i].pushed = 0 /\ ~pager[i].firing
  /\ s # <<>> => pager[i].pushed = last.at
  /\ s # <<>> /\ pager[i].firing => last.firing
  /\ s # <<>> /\ config.recovery /\ last.firing => pager[i].firing
  /\ ~config.recovery => \A n \in DOMAIN s : s[n].firing
  /\ pager[i].pushed <= pager[i].at /\ pager[i].at <= latest[i].at
  /\ latest[i].at <= Len(timeline)

\* The pager holds the last observation, or an intent that does is on its way.
OnItsWay(i) == \E j \in Jobs : \E n \in jobs[j].intents :
  n.id = i /\ n.at = latest[i].at /\ n.firing = latest[i].firing
Settles(i) ==
  \/ pager[i].firing = latest[i].firing /\ pager[i].at = latest[i].at
  \/ OnItsWay(i)

PagerOk == \A i \in Ids : Remembers(i) /\ Settles(i)

CrawlInv == /\ CrawlTypeOK /\ IntentsOk /\ OnePerEvent /\ PagerOk
            /\ PagesAlternate /\ PagesHaveAlerts /\ CircuitDrains
-----------------------------------------------------------------------------
(* Types *)

Job == [pc : {"idle", "fetch", "persist", "deliver"}, fetch : 0..MaxFetches,
        reading : Readings \cup {Absent}, intents : SUBSET Observation]
JobsTyped == jobs \in [Jobs -> Job] /\ \A j \in Jobs : jobs[j].fetch <= fetches
WatchTyped ==
  /\ nextId \in 1..(MaxIds + 1)
  /\ watch \in [Watchlists -> [state : {"unused", "on", "off", "deleted"},
                               triggers : UNION {[S -> Kinds] : S \in SUBSET (1..(nextId - 1))}]]
PagerTyped ==
  /\ pager \in [Ids -> [firing : BOOLEAN, pushed : Places, at : Places]]
  /\ inflight \subseteq Observation
  /\ sent \in [Ids -> Seq(Observation)] /\ arrived \in [Ids -> Places]
StoreTyped ==
  /\ timeline \in Seq(0..MaxFetches) /\ Len(timeline) <= MaxEvents
  /\ alerts \subseteq [event : 1..MaxEvents, id : Ids]
  /\ latest \in [Ids -> [firing : BOOLEAN, at : Places]]
ProcessTyped == config \in Configs /\ circuit \in BOOLEAN /\ survivors \subseteq CrawlRequests /\ fetches \in 0..MaxFetches

LEMMA TypeOKSplit ==
  ASSUME CrawlAssumption
  PROVE  CrawlTypeOK <=> JobsTyped /\ WatchTyped /\ PagerTyped /\ StoreTyped /\ ProcessTyped
<1>1. fetches \in 0..MaxFetches =>
        (jobs \in [Jobs -> [pc : {"idle", "fetch", "persist", "deliver"}, fetch : 0..fetches,
                            reading : Readings \cup {Absent}, intents : SUBSET Observation]]
         <=> JobsTyped)
  <2>1. \A f \in 0..MaxFetches : \A x : x \in 0..f <=> x \in 0..MaxFetches /\ x <= f
    BY DEF CrawlAssumption
  <2> QED BY <2>1 DEF JobsTyped, Job
<1> QED BY <1>1 DEF CrawlTypeOK, WatchTyped, PagerTyped, StoreTyped, ProcessTyped

LEMMA TypesJoin ==
  ASSUME CrawlAssumption, (JobsTyped /\ WatchTyped /\ PagerTyped /\ StoreTyped /\ ProcessTyped)'
  PROVE  CrawlTypeOK'
<1>1. jobs' \in [Jobs -> [pc : {"idle", "fetch", "persist", "deliver"}, fetch : 0..fetches',
                          reading : Readings \cup {Absent}, intents : SUBSET Observation]]
  <2>1. fetches' \in 0..MaxFetches /\ jobs' \in [Jobs -> Job] /\ \A j \in Jobs : jobs'[j].fetch <= fetches'
    BY DEF JobsTyped, ProcessTyped
  <2>2. \A x : x \in 0..MaxFetches /\ x <= fetches' => x \in 0..fetches'
    BY <2>1 DEF CrawlAssumption
  <2> QED BY <2>1, <2>2 DEF Job
<1> QED BY <1>1 DEF CrawlTypeOK, WatchTyped, PagerTyped, StoreTyped, ProcessTyped

\* The triggers of a watchlist have ids that have been given.
LEMMA WatchStep ==
  ASSUME CrawlAssumption, WatchTyped, Operator
  PROVE  WatchTyped'
<1> DEFINE Rows0(m) == UNION {[S -> Kinds] : S \in SUBSET (1..(m - 1))}
           States == {"unused", "on", "off", "deleted"}
<1>1. nextId \in 1..(MaxIds + 1) /\ watch \in [Watchlists -> [state : States, triggers : Rows0(nextId)]]
  BY DEF WatchTyped
<1>2. ASSUME NEW w \in Watchlists, NEW on \in BOOLEAN, NEW n \in 0..MaxIds, Write(w, Switch(on), n)
      PROVE  WatchTyped'
  <2>1. PICK rows \in Rows(n) : watch' = [watch EXCEPT ![w] = [state |-> Switch(on), triggers |-> rows]]
    BY <1>2 DEF Write
  <2>2. nextId' = nextId + n /\ nextId' \in 1..(MaxIds + 1) /\ nextId <= nextId'
    BY <1>1, <1>2 DEF Write, CrawlAssumption
  <2>3. nextId..(nextId + n - 1) \in SUBSET (1..(nextId' - 1))
    BY <1>1, <2>2
  <2>4. rows \in Rows0(nextId')
    BY <2>3 DEF Rows
  <2>5. \A S \in SUBSET (1..(nextId - 1)) : S \in SUBSET (1..(nextId' - 1))
    BY <1>1, <2>2
  <2>6. Rows0(nextId) \subseteq Rows0(nextId')
    BY <2>5
  <2>7. Switch(on) \in States
    BY DEF Switch
  <2> HIDE DEF Rows0
  <2>8. watch' \in [Watchlists -> [state : States, triggers : Rows0(nextId')]]
    BY <1>1, <2>1, <2>4, <2>6, <2>7
  <2> QED BY <2>2, <2>8 DEF WatchTyped, Rows0
<1>3. ASSUME NEW w \in Watchlists, NEW on \in BOOLEAN, EnableWatchlist(w, on) PROVE WatchTyped'
  <2>1. Switch(on) \in States
    BY DEF Switch
  <2> HIDE DEF Rows0
  <2>2. watch' \in [Watchlists -> [state : States, triggers : Rows0(nextId)]] /\ nextId' = nextId
    BY <1>1, <1>3, <2>1 DEF EnableWatchlist
  <2> QED BY <1>1, <2>2 DEF WatchTyped, Rows0
<1>4. ASSUME NEW w \in Watchlists, DeleteWatchlist(w) PROVE WatchTyped'
  <2>1. <<>> \in [{} -> Kinds] /\ {} \in SUBSET (1..(nextId - 1))
    OBVIOUS
  <2>2. <<>> \in Rows0(nextId)
    BY <2>1
  <2> HIDE DEF Rows0
  <2>3. watch' \in [Watchlists -> [state : States, triggers : Rows0(nextId)]] /\ nextId' = nextId
    BY <1>1, <1>4, <2>2 DEF DeleteWatchlist
  <2> QED BY <1>1, <2>3 DEF WatchTyped, Rows0
<1> QED BY <1>2, <1>3, <1>4 DEF Operator, CreateWatchlist, ReplaceTriggers

\* What is watched has an id.
LEMMA WatchedIds ==
  ASSUME CrawlAssumption, WatchTyped
  PROVE  Watched \subseteq Ids
<1> SUFFICES ASSUME NEW w \in Watchlists, NEW i \in DOMAIN watch[w].triggers PROVE i \in Ids
  BY DEF Watched, Enabled
<1>1. watch[w].triggers \in UNION {[S -> Kinds] : S \in SUBSET (1..(nextId - 1))}
  BY DEF WatchTyped
<1>2. PICK S \in SUBSET (1..(nextId - 1)) : watch[w].triggers \in [S -> Kinds]
  BY <1>1
<1>3. nextId \in 1..(MaxIds + 1) /\ MaxIds \in Nat
  BY DEF WatchTyped, CrawlAssumption
<1>4. i \in 1..(nextId - 1)
  BY <1>2
<1> QED BY <1>3, <1>4 DEF Ids

LEMMA FiresIsBoolean == ASSUME NEW i, NEW r PROVE Fires(i, r) \in BOOLEAN
BY DEF Fires, Meets

\* The intents of a transaction.
LEMMA IntentsTyped ==
  ASSUME CrawlAssumption, CrawlTypeOK, NEW j \in Jobs, jobs[j].fetch # 0, Len(timeline) < MaxEvents
  PROVE  LET at == Len(timeline) + 1  new == Intents(j, at) IN
         /\ at \in 1..MaxEvents /\ new \subseteq Observation
         /\ \A n \in new : n.id \in Watched /\ n.at = at /\ n.firing = Fires(n.id, jobs[j].reading)
         /\ \A i \in Watched : \E n \in new : n.id = i
         /\ \A n, m \in new : n.id = m.id => n = m
<1> DEFINE at == Len(timeline) + 1
<1>1. at \in 1..MaxEvents
  BY DEF CrawlTypeOK, CrawlAssumption
<1>2. jobs[j].fetch \in 1..MaxFetches
  <2>1. jobs[j].fetch \in 0..MaxFetches
    BY TypeOKSplit DEF JobsTyped, Job
  <2> QED BY <2>1 DEF CrawlAssumption
<1>3. Watched \subseteq Ids
  BY WatchedIds, TypeOKSplit
<1> HIDE DEF at
<1>4. \A i \in Watched : /\ Intent(i, j, at) \in Observation /\ Intent(i, j, at).id = i
                         /\ Intent(i, j, at).at = at /\ Intent(i, j, at).firing = Fires(i, jobs[j].reading)
  BY <1>1, <1>2, <1>3, FiresIsBoolean DEF Intent, Observation
<1>5. Intents(j, at) = {Intent(i, j, at) : i \in Watched}
  BY DEF Intents
<1> QED BY <1>1, <1>4, <1>5 DEF at
-----------------------------------------------------------------------------
(* The kinds of steps *)

\* The store may take an event without a trigger; nothing is claimed.
Quiet ==
  /\ UNCHANGED <<config, alerts, pager, sent, latest>>
  /\ timeline' \in Seq(0..MaxFetches) /\ Len(timeline) <= Len(timeline') /\ Len(timeline') <= MaxEvents
  /\ jobs' \in [Jobs -> Job]
  /\ \A j \in Jobs : /\ jobs'[j].intents = jobs[j].intents
                     /\ jobs'[j].pc # "deliver" => jobs[j].intents = {}

LEMMA QuietJob ==
  ASSUME CrawlAssumption, CrawlTypeOK, IntentsOk, NEW j \in Jobs, NEW c \in Job, c.intents = jobs[j].intents,
         c.pc # "deliver" => jobs[j].intents = {}, jobs' = [jobs EXCEPT ![j] = c]
  PROVE  /\ jobs' \in [Jobs -> Job]
         /\ \A k \in Jobs : /\ jobs'[k].intents = jobs[k].intents
                            /\ jobs'[k].pc # "deliver" => jobs[k].intents = {}
<1>1. jobs \in [Jobs -> Job]
  BY TypeOKSplit DEF JobsTyped
<1>2. \A k \in Jobs : jobs'[k] = IF k = j THEN c ELSE jobs[k]
  BY <1>1
<1> QED BY <1>1, <1>2 DEF IntentsOk

\* A step of one crawl other than the commit of a reading and a claim.
LEMMA QuietCrawl ==
  ASSUME CrawlAssumption, CrawlTypeOK, IntentsOk, NEW j \in Jobs,
         \/ Start(j) \/ FetchFails(j) \/ PersistDegraded(j) \/ PersistFails(j) \/ StorageFails(j) \/ End(j)
         \/ \E r \in Readings : FetchFeed(j, r)
  PROVE  /\ Quiet /\ fetches' \in 0..MaxFetches /\ fetches <= fetches'
         /\ \E c \in Job : c.fetch <= fetches' /\ jobs' = [jobs EXCEPT ![j] = c]
<1> DEFINE b == jobs[j]
           Moved == \E c \in Job : /\ c.intents = b.intents /\ (c.pc # "deliver" => b.intents = {})
                                   /\ c.fetch <= fetches' /\ jobs' = [jobs EXCEPT ![j] = c]
<1>1. b \in Job /\ b.fetch \in Nat /\ b.fetch <= fetches /\ (b.pc # "deliver" => b.intents = {}) /\ jobs \in [Jobs -> Job]
      /\ fetches \in 0..MaxFetches /\ MaxFetches \in Nat
  BY TypeOKSplit DEF JobsTyped, Job, IntentsOk, ProcessTyped, CrawlAssumption
<1>2. ASSUME Start(j) PROVE Moved
  <2> DEFINE c == [b EXCEPT !.pc = "fetch"]
  <2>1. c \in Job /\ c.fetch = b.fetch /\ fetches' = fetches /\ c.intents = b.intents /\ b.intents = {}
        /\ jobs' = [jobs EXCEPT ![j] = c]
    BY <1>1, <1>2 DEF Start, Job
  <2> QED BY <1>1, <2>1
<1>3. ASSUME FetchFails(j) PROVE Moved
  <2> DEFINE c == [b EXCEPT !.pc = "persist"]
  <2>1. c \in Job /\ c.fetch = b.fetch /\ fetches' = fetches /\ c.intents = b.intents /\ b.intents = {}
        /\ jobs' = [jobs EXCEPT ![j] = c]
    BY <1>1, <1>3 DEF FetchFails, Job
  <2> QED BY <1>1, <2>1
<1>4. ASSUME NEW r \in Readings, FetchFeed(j, r) PROVE Moved
  <2> DEFINE c == [b EXCEPT !.pc = "persist", !.fetch = fetches + 1, !.reading = r]
  <2>0. fetches < MaxFetches
    BY <1>4 DEF FetchFeed
  <2>1. fetches + 1 \in 0..MaxFetches
    BY <1>1, <2>0
  <2>2. c \in Job /\ c.fetch = fetches' /\ fetches' = fetches + 1 /\ c.intents = b.intents /\ b.intents = {}
        /\ jobs' = [jobs EXCEPT ![j] = c]
    BY <1>1, <1>4, <2>1 DEF FetchFeed, Job
  <2>3. c.fetch <= fetches' /\ (c.pc # "deliver" => b.intents = {})
    BY <1>1, <2>2
  <2> HIDE DEF c
  <2> QED BY <2>2, <2>3
<1>5. ASSUME PersistDegraded(j) PROVE Moved
  <2> DEFINE c == [b EXCEPT !.pc = "deliver"]
  <2>1. c \in Job /\ c.fetch = b.fetch /\ fetches' = fetches /\ c.intents = b.intents /\ b.intents = {}
        /\ jobs' = [jobs EXCEPT ![j] = c]
    BY <1>1, <1>5 DEF PersistDegraded, Job
  <2> QED BY <1>1, <2>1
<1>6. ASSUME PersistFails(j) \/ StorageFails(j) \/ End(j) PROVE Moved
  <2>1. NoCrawl \in Job /\ NoCrawl.fetch = 0 /\ NoCrawl.intents = {} /\ NoCrawl.pc = "idle"
    BY <1>1 DEF NoCrawl, Job
  <2>2. b.intents = {} /\ fetches' = fetches /\ jobs' = [jobs EXCEPT ![j] = NoCrawl]
    BY <1>1, <1>6 DEF PersistFails, StorageFails, End
  <2>3. NoCrawl.fetch <= fetches'
    BY <1>1, <2>1, <2>2
  <2> QED BY <2>1, <2>2, <2>3
<1> HIDE DEF Moved
<1>7. Moved
  BY <1>2, <1>3, <1>4, <1>5, <1>6 DEF Moved
<1>8. PICK c \in Job : c.fetch <= fetches' /\ c.intents = b.intents /\ (c.pc # "deliver" => b.intents = {}) /\ jobs' = [jobs EXCEPT ![j] = c]
  BY <1>7 DEF Moved
<1>9. /\ jobs' \in [Jobs -> Job]
      /\ \A k \in Jobs : /\ jobs'[k].intents = jobs[k].intents
                         /\ jobs'[k].pc # "deliver" => jobs[k].intents = {}
  BY <1>8, QuietJob
<1>10. timeline \in Seq(0..MaxFetches) /\ Len(timeline) <= MaxEvents
  BY TypeOKSplit DEF StoreTyped
<1>11. /\ UNCHANGED <<config, alerts, pager, sent, latest>>
       /\ timeline' \in Seq(0..MaxFetches) /\ Len(timeline) <= Len(timeline') /\ Len(timeline') <= MaxEvents
  <2>1. CASE PersistDegraded(j)
    BY <1>1, <1>10, <2>1 DEF PersistDegraded, pages
  <2>2. CASE ~PersistDegraded(j)
    BY <1>10, <2>2 DEF Start, FetchFeed, FetchFails, PersistFails, StorageFails, End, store, pages
  <2> QED BY <2>1, <2>2
<1>12. fetches' \in 0..MaxFetches /\ fetches <= fetches'
  <2>1. (\E r \in Readings : FetchFeed(j, r)) => fetches < MaxFetches /\ fetches' = fetches + 1
    BY DEF FetchFeed
  <2>2. ~(\E r \in Readings : FetchFeed(j, r)) => fetches' = fetches
    BY DEF Start, FetchFails, PersistDegraded, PersistFails, StorageFails, End
  <2> QED BY <1>1, <2>1, <2>2
<1> QED BY <1>8, <1>9, <1>11, <1>12 DEF Quiet

LEMMA StepKinds ==
  ASSUME CrawlAssumption, CrawlTypeOK, IntentsOk, [CrawlNext]_crawlVars
  PROVE  Quiet \/ Restart \/ \E j \in Jobs : Persist(j) \/ Claim(j)
<1>1. CASE UNCHANGED <<config, alerts, pager, sent, latest, timeline, jobs>>
  BY <1>1, TypeOKSplit DEF Quiet, StoreTyped, JobsTyped, IntentsOk
<1>2. ASSUME NEW j \in Jobs, Start(j) \/ Crawl(j) PROVE Quiet \/ Persist(j) \/ Claim(j)
  BY <1>2, QuietCrawl DEF Crawl
<1>3. Operator => UNCHANGED <<config, alerts, pager, sent, latest, timeline, jobs>>
  BY DEF Operator, CreateWatchlist, ReplaceTriggers, Write, EnableWatchlist, DeleteWatchlist, pages
<1>4. ASSUME NEW n \in inflight, Arrive(n) \/ Lose(n) PROVE UNCHANGED <<config, alerts, pager, sent, latest, timeline, jobs>>
  BY <1>4 DEF Arrive, Lose, store
<1>5. UNCHANGED crawlVars => UNCHANGED <<config, alerts, pager, sent, latest, timeline, jobs>>
  BY DEF crawlVars, store, pages
<1> QED BY <1>1, <1>2, <1>3, <1>4, <1>5 DEF CrawlNext
-----------------------------------------------------------------------------
(* The commit of a reading, a claim, a restart *)

\* The commit of a reading by j: crawl c has the intents that it queues at a
\* place, one for each trigger that is watched.
Commits(j, new, at, c) ==
  /\ at = Len(timeline) + 1 /\ jobs[j].pc = "persist"
  /\ timeline' \in Seq(0..MaxFetches) /\ Len(timeline') = at
  /\ c.pc = "deliver" /\ c.intents = new /\ c.fetch <= fetches /\ jobs' = [jobs EXCEPT ![j] = c]
  /\ \A n \in new : n.id \in Watched /\ n.at = at /\ n.firing = Fires(n.id, jobs[j].reading)
  /\ \A i \in Watched : \E n \in new : n.id = i
  /\ \A n, m \in new : n.id = m.id => n = m
  /\ Watched \subseteq Ids
  /\ alerts' = alerts \cup {[event |-> at, id |-> n.id] : n \in {m \in new : m.firing}}
  /\ latest' = [i \in Ids |->
       IF i \in Watched THEN [firing |-> Fires(i, jobs[j].reading), at |-> at] ELSE latest[i]]

LEMMA PersistCommits ==
  ASSUME CrawlAssumption, CrawlTypeOK, NEW j \in Jobs, Persist(j)
  PROVE  \E new \in SUBSET Observation, at \in 1..MaxEvents, c \in Job : Commits(j, new, at, c)
<1> DEFINE at == Len(timeline) + 1
           new == Intents(j, at)
           c == [jobs[j] EXCEPT !.pc = "deliver", !.intents = new]
<1>1. jobs[j].fetch # 0 /\ Len(timeline) < MaxEvents /\ jobs[j].pc = "persist"
  BY DEF Persist
<1>2. /\ at \in 1..MaxEvents /\ new \subseteq Observation
      /\ \A n \in new : n.id \in Watched /\ n.at = at /\ n.firing = Fires(n.id, jobs[j].reading)
      /\ \A i \in Watched : \E n \in new : n.id = i
      /\ \A n, m \in new : n.id = m.id => n = m
  BY <1>1, IntentsTyped
<1>3. jobs[j] \in Job /\ jobs[j].fetch <= fetches /\ jobs[j].fetch \in 0..MaxFetches
      /\ timeline \in Seq(0..MaxFetches) /\ Watched \subseteq Ids
  BY TypeOKSplit, WatchedIds DEF JobsTyped, Job, StoreTyped
<1> HIDE DEF new
<1>4. c \in Job /\ c.pc = "deliver" /\ c.intents = new /\ c.fetch <= fetches
  BY <1>2, <1>3 DEF Job
<1>5. timeline' \in Seq(0..MaxFetches) /\ Len(timeline') = at
  BY <1>3 DEF Persist
<1>6. /\ jobs' = [jobs EXCEPT ![j] = c]
      /\ alerts' = alerts \cup {[event |-> at, id |-> n.id] : n \in {m \in new : m.firing}}
      /\ latest' = [i \in Ids |->
           IF i \in Watched THEN [firing |-> Fires(i, jobs[j].reading), at |-> at] ELSE latest[i]]
  BY DEF Persist, new
<1> HIDE DEF at, c
<1>7. at = Len(timeline) + 1 /\ new \in SUBSET Observation /\ at \in 1..MaxEvents /\ c \in Job
  BY <1>2, <1>4 DEF at
<1>8. Commits(j, new, at, c)
  BY <1>1, <1>2, <1>3, <1>4, <1>5, <1>6, <1>7 DEF Commits
<1> QED BY <1>7, <1>8

LEMMA PersistTypes ==
  ASSUME CrawlAssumption, CrawlTypeOK, NEW j \in Jobs, Persist(j)
  PROVE  CrawlTypeOK'
<1>1. JobsTyped /\ WatchTyped /\ PagerTyped /\ StoreTyped /\ ProcessTyped
  BY TypeOKSplit
<1>2. PICK new \in SUBSET Observation, at \in 1..MaxEvents, c \in Job : Commits(j, new, at, c)
  BY PersistCommits
<1>3. UNCHANGED <<config, watch, nextId, circuit, pager, inflight, sent, arrived, fetches, survivors>>
  BY DEF Persist, pages
<1>4. JobsTyped' /\ WatchTyped' /\ PagerTyped' /\ ProcessTyped'
  BY <1>1, <1>2, <1>3 DEF Commits, JobsTyped, WatchTyped, PagerTyped, ProcessTyped
<1>5. alerts' \subseteq [event : 1..MaxEvents, id : Ids]
  BY <1>1, <1>2 DEF Commits, StoreTyped, Observation
<1>6. latest' \in [Ids -> [firing : BOOLEAN, at : Places]]
  <2>1. at \in Places
    BY DEF Places, CrawlAssumption
  <2> QED BY <1>1, <1>2, <2>1, FiresIsBoolean DEF Commits, StoreTyped
<1>7. Len(timeline') <= MaxEvents
  BY <1>2 DEF Commits, CrawlAssumption
<1>8. StoreTyped'
  BY <1>2, <1>5, <1>6, <1>7 DEF Commits, StoreTyped
<1> QED BY <1>4, <1>8, TypesJoin

\* A claim takes one intent; the pager is told of it, or it came too late.
Told(n, send) ==
  /\ pager' = [pager EXCEPT ![n.id] = Advance(n, send)]
  /\ sent' = IF send THEN [sent EXCEPT ![n.id] = Append(@, n)] ELSE sent
  /\ inflight' = IF send THEN inflight \cup {n} ELSE inflight
Claims(j, n, c) ==
  /\ n \in jobs[j].intents /\ jobs[j].pc = "deliver"
  /\ c.pc = "deliver" /\ c.intents = jobs[j].intents \ {n} /\ c.fetch <= fetches /\ jobs' = [jobs EXCEPT ![j] = c]
  /\ \/ Accepts(n) /\ Told(n, ShouldSend(n))
     \/ ~Accepts(n) /\ UNCHANGED <<pager, sent, inflight>>
  /\ UNCHANGED <<store, config, circuit, arrived, fetches, latest, survivors>>

LEMMA ClaimClaims ==
  ASSUME CrawlAssumption, CrawlTypeOK, NEW j \in Jobs, Claim(j)
  PROVE  \E n \in Observation, c \in Job : Claims(j, n, c)
<1>1. jobs[j] \in Job /\ jobs[j].fetch <= fetches /\ jobs[j].intents \subseteq Observation
  BY TypeOKSplit DEF JobsTyped, Job
<1>2. PICK n \in jobs[j].intents :
        /\ jobs' = [jobs EXCEPT ![j].intents = @ \ {n}]
        /\ IF Accepts(n) THEN Told(n, ShouldSend(n)) ELSE UNCHANGED <<pager, sent, inflight>>
  BY DEF Claim, Told
<1> DEFINE c == [jobs[j] EXCEPT !.intents = @ \ {n}]
<1>3. c \in Job /\ c.pc = jobs[j].pc /\ c.intents = jobs[j].intents \ {n} /\ c.fetch <= fetches
  BY <1>1 DEF Job
<1>4. jobs' = [jobs EXCEPT ![j] = c]
  BY <1>2
<1> HIDE DEF c
<1>5. Claims(j, n, c)
  BY <1>2, <1>3, <1>4 DEF Claims, Claim
<1> QED BY <1>1, <1>3, <1>5

LEMMA ClaimTypes ==
  ASSUME CrawlAssumption, CrawlTypeOK, NEW j \in Jobs, Claim(j)
  PROVE  CrawlTypeOK'
<1>1. JobsTyped /\ WatchTyped /\ PagerTyped /\ StoreTyped /\ ProcessTyped
  BY TypeOKSplit
<1>2. PICK n \in Observation, c \in Job : Claims(j, n, c)
  BY ClaimClaims
<1>3. n.id \in Ids /\ n.firing \in BOOLEAN /\ n.at \in Places
  BY DEF Observation, Places, CrawlAssumption
<1>4. JobsTyped' /\ WatchTyped' /\ StoreTyped' /\ ProcessTyped'
  BY <1>1, <1>2 DEF Claims, JobsTyped, WatchTyped, StoreTyped, ProcessTyped, store
<1>5. PagerTyped'
  <2>1. CASE ~Accepts(n)
    BY <1>1, <1>2, <2>1 DEF Claims, PagerTyped
  <2>2. CASE Accepts(n)
    <3>1. Told(n, ShouldSend(n)) /\ arrived' = arrived
      BY <1>2, <2>2 DEF Claims
    <3>2. Advance(n, ShouldSend(n)) \in [firing : BOOLEAN, pushed : Places, at : Places]
      BY <1>1, <1>3 DEF Advance, PagerTyped
    <3>3. pager' \in [Ids -> [firing : BOOLEAN, pushed : Places, at : Places]]
      BY <1>1, <1>3, <3>1, <3>2 DEF Told, PagerTyped
    <3>4. sent' \in [Ids -> Seq(Observation)] /\ inflight' \subseteq Observation
      BY <1>1, <1>3, <3>1 DEF Told, PagerTyped
    <3> QED BY <1>1, <3>1, <3>3, <3>4 DEF PagerTyped
  <2> QED BY <2>1, <2>2
<1> QED BY <1>4, <1>5, TypesJoin

LEMMA RestartTypes ==
  ASSUME CrawlAssumption, CrawlTypeOK, Restart
  PROVE  CrawlTypeOK'
<1>1. JobsTyped /\ WatchTyped /\ PagerTyped /\ StoreTyped /\ ProcessTyped
  BY TypeOKSplit
<1>2. 0 \in Places /\ fetches \in Nat
  BY <1>1 DEF Places, ProcessTyped, CrawlAssumption
<1>3. NoCrawl \in Job /\ NoCrawl.fetch = 0
  BY DEF NoCrawl, Job, CrawlAssumption
<1>4. JobsTyped'
  BY <1>2, <1>3 DEF Restart, JobsTyped
<1>5. PagerTyped' /\ latest' \in [Ids -> [firing : BOOLEAN, at : Places]]
  BY <1>1, <1>2 DEF Restart, PagerTyped, Unpaged, Unseen
<1>6. WatchTyped' /\ StoreTyped' /\ ProcessTyped'
  BY <1>1, <1>5 DEF Restart, WatchTyped, StoreTyped, ProcessTyped, store
<1> QED BY <1>4, <1>5, <1>6, TypesJoin

LEMMA QuietTypes ==
  ASSUME CrawlAssumption, CrawlTypeOK, IntentsOk, NEW j \in Jobs,
         \/ Start(j) \/ FetchFails(j) \/ PersistDegraded(j) \/ PersistFails(j) \/ StorageFails(j) \/ End(j)
         \/ \E r \in Readings : FetchFeed(j, r)
  PROVE  CrawlTypeOK'
<1>1. JobsTyped /\ WatchTyped /\ PagerTyped /\ StoreTyped /\ ProcessTyped
  BY TypeOKSplit
<1>2. /\ Quiet /\ fetches' \in 0..MaxFetches /\ fetches <= fetches'
      /\ \E c \in Job : c.fetch <= fetches' /\ jobs' = [jobs EXCEPT ![j] = c]
  BY QuietCrawl
<1>3. JobsTyped'
  <2>1. \A k \in Jobs : jobs[k].fetch \in 0..MaxFetches /\ jobs[k].fetch <= fetches /\ fetches \in 0..MaxFetches
    BY <1>1 DEF JobsTyped, Job, ProcessTyped
  <2>2. PICK c \in Job : c.fetch <= fetches' /\ jobs' = [jobs EXCEPT ![j] = c]
    BY <1>2
  <2>3. \A k \in Jobs : jobs'[k].fetch <= fetches'
    <3> SUFFICES ASSUME NEW k \in Jobs PROVE jobs'[k].fetch <= fetches'
      OBVIOUS
    <3>1. CASE k = j
      BY <1>1, <2>2, <3>1 DEF JobsTyped
    <3>2. CASE k # j
      BY <1>1, <1>2, <2>1, <2>2, <3>2 DEF JobsTyped
    <3> QED BY <3>1, <3>2
  <2> QED BY <1>2, <2>3 DEF Quiet, JobsTyped
<1>4. UNCHANGED <<watch, nextId, inflight, arrived>>
  BY DEF Start, FetchFails, PersistDegraded, PersistFails, StorageFails, End, FetchFeed, store, pages
<1>5. WatchTyped' /\ PagerTyped' /\ StoreTyped'
  BY <1>1, <1>2, <1>4 DEF Quiet, WatchTyped, PagerTyped, StoreTyped
<1>6. circuit' \in BOOLEAN /\ survivors' \subseteq CrawlRequests
  <2>1. CASE StorageFails(j)
    BY <1>1, <2>1 DEF StorageFails, ProcessTyped, Jobs
  <2>2. CASE ~StorageFails(j)
    BY <1>1, <2>2 DEF Start, FetchFails, PersistDegraded, PersistFails, End, FetchFeed, ProcessTyped
  <2> QED BY <2>1, <2>2
<1>7. ProcessTyped'
  BY <1>1, <1>2, <1>6 DEF Quiet, ProcessTyped
<1> QED BY <1>3, <1>5, <1>7, TypesJoin

LEMMA TypesStep ==
  ASSUME CrawlAssumption, CrawlTypeOK, IntentsOk, [CrawlNext]_crawlVars
  PROVE  CrawlTypeOK'
<1>1. JobsTyped /\ WatchTyped /\ PagerTyped /\ StoreTyped /\ ProcessTyped
  BY TypeOKSplit
<1>2. ASSUME NEW j \in Jobs, Start(j) \/ Crawl(j) PROVE CrawlTypeOK'
  BY <1>2, QuietTypes, PersistTypes, ClaimTypes DEF Crawl
<1>3. CASE Operator
  <2>1. UNCHANGED <<config, timeline, alerts, jobs, circuit, pages, fetches, latest, survivors>>
    BY <1>3 DEF Operator, CreateWatchlist, ReplaceTriggers, Write, EnableWatchlist, DeleteWatchlist
  <2>2. WatchTyped'
    BY <1>1, <1>3, WatchStep
  <2>3. (JobsTyped /\ PagerTyped /\ StoreTyped /\ ProcessTyped)'
    BY <1>1, <2>1 DEF JobsTyped, PagerTyped, StoreTyped, ProcessTyped, pages
  <2> QED BY <2>2, <2>3, TypesJoin
<1>4. ASSUME NEW n \in inflight, Arrive(n) \/ Lose(n) PROVE CrawlTypeOK'
  <2>1. n.id \in Ids /\ n.at \in Places
    BY <1>1 DEF PagerTyped, Observation, Places, CrawlAssumption
  <2>2. inflight' \subseteq Observation /\ arrived' \in [Ids -> Places]
    BY <1>1, <1>4, <2>1 DEF Arrive, Lose, PagerTyped
  <2>3. UNCHANGED <<store, config, jobs, circuit, pager, sent, fetches, latest, survivors>>
    BY <1>4 DEF Arrive, Lose
  <2>4. (JobsTyped /\ WatchTyped /\ PagerTyped /\ StoreTyped /\ ProcessTyped)'
    BY <1>1, <2>2, <2>3 DEF JobsTyped, WatchTyped, PagerTyped, StoreTyped, ProcessTyped, store
  <2> QED BY <2>4, TypesJoin
<1>5. CASE UNCHANGED crawlVars
  <2>1. (JobsTyped /\ WatchTyped /\ PagerTyped /\ StoreTyped /\ ProcessTyped)'
    BY <1>1, <1>5 DEF JobsTyped, WatchTyped, PagerTyped, StoreTyped, ProcessTyped, store, pages, crawlVars
  <2> QED BY <2>1, TypesJoin
<1> QED BY <1>2, <1>3, <1>4, <1>5, RestartTypes DEF CrawlNext
-----------------------------------------------------------------------------
(* What the steps keep *)

LEMMA QuietKeeps ==
  ASSUME CrawlAssumption, CrawlInv, Quiet
  PROVE  (IntentsOk /\ OnePerEvent /\ PagerOk /\ PagesAlternate /\ PagesHaveAlerts)'
<1>1. /\ UNCHANGED <<config, alerts, pager, sent, latest>>
      /\ \A j \in Jobs : /\ jobs'[j].intents = jobs[j].intents
                         /\ jobs'[j].pc # "deliver" => jobs[j].intents = {}
  BY DEF Quiet
<1>2. (IntentsOk /\ OnePerEvent)'
  BY <1>1 DEF CrawlInv, IntentsOk, IntentOk, OnePerEvent
<1>3. PagerOk'
  <2> SUFFICES ASSUME NEW i \in Ids PROVE Remembers(i)' /\ Settles(i)'
    BY DEF PagerOk
  <2>1. Len(timeline) \in Nat /\ Len(timeline') \in Nat /\ Len(timeline) <= Len(timeline') /\ latest[i].at \in Nat
    BY TypeOKSplit DEF Quiet, CrawlInv, StoreTyped, Places, CrawlAssumption
  <2>2. Remembers(i) /\ Settles(i)
    BY DEF CrawlInv, PagerOk
  <2>3. Settles(i)'
    BY <1>1, <2>2 DEF Settles, OnItsWay
  <2>4. latest'[i].at <= Len(timeline')
    BY <1>1, <2>1, <2>2 DEF Remembers
  <2>5. Remembers(i)'
    BY <1>1, <2>2, <2>4 DEF Remembers
  <2> QED BY <2>3, <2>5
<1>4. (PagesAlternate /\ PagesHaveAlerts)'
  BY <1>1 DEF CrawlInv, PagesAlternate, PagesHaveAlerts
<1> QED BY <1>2, <1>3, <1>4

LEMMA RestartKeeps ==
  ASSUME CrawlAssumption, CrawlInv, Restart
  PROVE  (IntentsOk /\ OnePerEvent /\ PagerOk /\ PagesAlternate /\ PagesHaveAlerts /\ CircuitDrains)'
<1>1. /\ \A j \in Jobs : jobs'[j].intents = {} /\ jobs'[j].pc = "idle"
      /\ \A i \in Ids : /\ sent'[i] = <<>> /\ latest'[i].at = 0 /\ ~latest'[i].firing
                        /\ pager'[i].at = 0 /\ pager'[i].pushed = 0 /\ pager'[i].firing = FALSE
                        /\ latest'[i].firing = FALSE
      /\ timeline' = timeline /\ ~circuit'
  BY DEF Restart, NoCrawl, Unpaged, Unseen, store
<1>2. Len(timeline) \in Nat
  BY TypeOKSplit DEF CrawlInv, StoreTyped
<1>3. (IntentsOk /\ OnePerEvent /\ CircuitDrains)'
  BY <1>1 DEF IntentsOk, OnePerEvent, CircuitDrains
<1>4. PagerOk'
  <2> SUFFICES ASSUME NEW i \in Ids PROVE Remembers(i)' /\ Settles(i)'
    BY DEF PagerOk
  <2>1. Settles(i)'
    BY <1>1 DEF Settles
  <2>2. /\ sent'[i] = <<>> /\ latest'[i].at = 0 /\ pager'[i].at = 0 /\ pager'[i].pushed = 0
        /\ ~pager'[i].firing /\ 0 <= Len(timeline') /\ 0 <= 0
    BY <1>1, <1>2
  <2>3. DOMAIN <<>> = {}
    OBVIOUS
  <2>4. Remembers(i)'
    BY <2>2, <2>3 DEF Remembers
  <2> QED BY <2>1, <2>4
<1>5. (PagesAlternate /\ PagesHaveAlerts)'
  BY <1>1 DEF PagesAlternate, PagesHaveAlerts, ToSet
<1> QED BY <1>3, <1>4, <1>5

LEMMA PersistKeeps ==
  ASSUME CrawlAssumption, CrawlInv, NEW j \in Jobs, Persist(j)
  PROVE  (IntentsOk /\ OnePerEvent /\ PagerOk /\ PagesAlternate /\ PagesHaveAlerts)'
<1>1. PICK new \in SUBSET Observation, at \in 1..MaxEvents, c \in Job : Commits(j, new, at, c)
  BY PersistCommits DEF CrawlInv
<1>2. /\ at \in Nat /\ Len(timeline) \in Nat /\ at = Len(timeline) + 1 /\ Len(timeline') = at
      /\ \A i \in Ids : latest[i].at \in Nat /\ pager[i].at \in Nat /\ pager[i].pushed \in Nat
      /\ jobs \in [Jobs -> Job]
  BY <1>1, TypeOKSplit DEF Commits, CrawlInv, StoreTyped, PagerTyped, JobsTyped, Places, CrawlAssumption
<1>3. UNCHANGED <<config, pager, sent>>
  BY DEF Persist, pages
<1>4. \A i \in Ids : latest[i].at <= Len(timeline) /\ pager[i].at <= latest[i].at
  BY DEF CrawlInv, PagerOk, Remembers
<1>5. \A i \in Ids : /\ latest'[i].at = IF i \in Watched THEN at ELSE latest[i].at
                     /\ i \in Watched => latest'[i].firing = Fires(i, jobs[j].reading)
                     /\ i \notin Watched => latest'[i].firing = latest[i].firing
  BY <1>1 DEF Commits
<1>6. \A i \in Ids : latest[i].at < at /\ pager[i].at < at /\ latest[i].at <= latest'[i].at /\ latest'[i].at <= at
                     /\ pager[i].at <= latest'[i].at
  BY <1>2, <1>4, <1>5
<1>7. /\ jobs[j].intents = {}
      /\ \A k \in Jobs : k # j => jobs'[k] = jobs[k]
      /\ jobs'[j].pc = "deliver" /\ jobs'[j].intents = new
  BY <1>1, <1>2 DEF Commits, CrawlInv, IntentsOk
<1>8. \A k \in Jobs : \A n \in jobs[k].intents : n.id \in Ids /\ n.at \in Nat
  BY <1>2 DEF Job, Observation, CrawlAssumption
<1>9. alerts \subseteq alerts'
  BY <1>1 DEF Commits
<1>10. IntentsOk'
  <2>1. ASSUME NEW k \in Jobs, k # j, NEW n \in jobs'[k].intents PROVE IntentOk(n)'
    <3>1. n \in jobs[k].intents /\ n.id \in Ids /\ n.at \in Nat
      BY <1>7, <1>8, <2>1
    <3>2. IntentOk(n)
      BY <3>1 DEF CrawlInv, IntentsOk
    <3>3. n.at <= latest[n.id].at /\ n.at # pager[n.id].at /\ (n.firing => [event |-> n.at, id |-> n.id] \in alerts)
      BY <3>2 DEF IntentOk
    <3>4. n.at <= latest'[n.id].at
      <4>1. latest[n.id].at \in Nat /\ latest'[n.id].at \in Nat /\ latest[n.id].at <= latest'[n.id].at
        BY <1>2, <1>5, <1>6, <3>1
      <4> QED BY <3>1, <3>3, <4>1
    <3> QED BY <1>3, <1>9, <3>3, <3>4 DEF IntentOk
  <2>2. ASSUME NEW n \in new PROVE IntentOk(n)'
    <3>1. n.id \in Watched /\ n.id \in Ids /\ n.at = at
      BY <1>1 DEF Commits
    <3>2. n.firing => [event |-> n.at, id |-> n.id] \in alerts'
      BY <1>1, <3>1 DEF Commits
    <3>3. latest'[n.id].at = at /\ pager'[n.id].at # at
      BY <1>2, <1>3, <1>5, <1>6, <3>1
    <3> QED BY <1>2, <3>1, <3>2, <3>3 DEF IntentOk
  <2>3. ASSUME NEW k \in Jobs, jobs'[k].pc # "deliver" PROVE jobs'[k].intents = {}
    BY <1>7, <2>3 DEF CrawlInv, IntentsOk
  <2> QED BY <1>7, <2>1, <2>2, <2>3 DEF IntentsOk
<1>11. OnePerEvent'
  <2>1. \A k \in Jobs : \A n \in jobs[k].intents : n.at < at
    <3> SUFFICES ASSUME NEW k \in Jobs, NEW n \in jobs[k].intents PROVE n.at < at
      OBVIOUS
    <3>1. n.id \in Ids /\ n.at \in Nat /\ n.at <= latest[n.id].at
      BY <1>8 DEF CrawlInv, IntentsOk, IntentOk
    <3> QED BY <1>2, <1>6, <3>1
  <2>2. \A n \in new : n.at = at
    BY <1>1 DEF Commits
  <2>3. \A n, m \in new : n.id = m.id => n = m
    BY <1>1 DEF Commits
  <2>4. \A k, l \in Jobs : k # j /\ l # j =>
          \A n \in jobs'[k].intents, m \in jobs'[l].intents : n.id = m.id /\ n.at = m.at => k = l /\ n = m
    BY <1>7 DEF CrawlInv, OnePerEvent
  <2>5. \A k \in Jobs : k # j => \A n \in jobs'[k].intents : n.at # at
    BY <1>2, <1>7, <1>8, <2>1
  <2> QED BY <1>7, <2>2, <2>3, <2>4, <2>5 DEF OnePerEvent
<1>12. PagerOk'
  <2> SUFFICES ASSUME NEW i \in Ids PROVE Remembers(i)' /\ Settles(i)'
    BY DEF PagerOk
  <2>1. Remembers(i) /\ Settles(i)
    BY DEF CrawlInv, PagerOk
  <2>2. Remembers(i)'
    BY <1>2, <1>3, <1>6, <2>1 DEF Remembers
  <2>3. CASE i \in Watched
    <3>1. PICK n \in new : n.id = i
      BY <1>1, <2>3 DEF Commits
    <3>2. n.at = latest'[i].at /\ n.firing = latest'[i].firing
      BY <1>1, <1>5, <2>3, <3>1 DEF Commits
    <3> QED BY <1>7, <2>2, <3>1, <3>2 DEF Settles, OnItsWay
  <2>4. CASE i \notin Watched
    <3>1. latest'[i].at = latest[i].at /\ latest'[i].firing = latest[i].firing
      BY <1>5, <2>4
    <3>2. OnItsWay(i) => OnItsWay(i)'
      BY <1>7, <3>1 DEF OnItsWay
    <3> QED BY <1>3, <2>1, <2>2, <3>1, <3>2 DEF Settles
  <2> QED BY <2>3, <2>4
<1>13. (PagesAlternate /\ PagesHaveAlerts)'
  BY <1>3, <1>9 DEF CrawlInv, PagesAlternate, PagesHaveAlerts
<1> QED BY <1>10, <1>11, <1>12, <1>13

LEMMA AppendFacts ==
  ASSUME NEW S, NEW s \in Seq(S), NEW x \in S
  PROVE  /\ Append(s, x) # <<>> /\ Len(Append(s, x)) = Len(s) + 1 /\ Append(s, x)[Len(Append(s, x))] = x
         /\ Append(s, x) \in Seq(S)
         /\ \A k \in DOMAIN Append(s, x) : (k \in DOMAIN s /\ Append(s, x)[k] = s[k]) \/ Append(s, x)[k] = x
<1>1. /\ Append(s, x) \in Seq(S) /\ Len(Append(s, x)) = Len(s) + 1 /\ Len(s) \in Nat /\ DOMAIN s = 1..Len(s)
      /\ DOMAIN Append(s, x) = 1..(Len(s) + 1) /\ Append(s, x)[Len(s) + 1] = x
  OBVIOUS
<1>2. \A k \in 1..Len(s) : Append(s, x)[k] = s[k]
  OBVIOUS
<1>3. Append(s, x) # <<>>
  BY <1>1
<1>4. \A k \in 1..(Len(s) + 1) : k \in 1..Len(s) \/ k = Len(s) + 1
  BY <1>1
<1> QED BY <1>1, <1>2, <1>3, <1>4

\* A claim that the pager takes is of a later observation than any before it.
LEMMA ClaimFacts ==
  ASSUME CrawlAssumption, CrawlInv, NEW j \in Jobs, NEW n \in Observation, NEW c \in Job, Claims(j, n, c)
  PROVE  /\ n.id \in Ids /\ n.at \in Nat /\ n.firing \in BOOLEAN
         /\ n.at <= latest[n.id].at /\ n.at # pager[n.id].at
         /\ n.firing => [event |-> n.at, id |-> n.id] \in alerts
         /\ \A i \in Ids : /\ pager[i].at \in Nat /\ pager[i].pushed \in Nat /\ latest[i].at \in Nat
                           /\ pager[i].firing \in BOOLEAN /\ sent[i] \in Seq(Observation)
         /\ Accepts(n) => pager[n.id].at < n.at /\ pager[n.id].pushed < n.at
         /\ \A k \in Jobs : /\ jobs'[k].intents = IF k = j THEN jobs[k].intents \ {n} ELSE jobs[k].intents
                            /\ jobs'[k].pc = jobs[k].pc
         /\ UNCHANGED <<alerts, latest, timeline, config>>
<1>1. /\ n.id \in Ids /\ n.at \in Nat /\ n.firing \in BOOLEAN
      /\ \A i \in Ids : /\ pager[i].at \in Nat /\ pager[i].pushed \in Nat /\ latest[i].at \in Nat
                        /\ pager[i].firing \in BOOLEAN /\ sent[i] \in Seq(Observation)
      /\ jobs \in [Jobs -> Job]
  <2>1. CrawlTypeOK /\ JobsTyped /\ PagerTyped /\ StoreTyped
    BY TypeOKSplit DEF CrawlInv
  <2>2. n.id \in Ids /\ n.at \in Nat /\ n.firing \in BOOLEAN
    BY DEF Observation, CrawlAssumption
  <2>3. Places \subseteq Nat
    BY DEF Places, CrawlAssumption
  <2>4. \A i \in Ids : /\ pager[i].at \in Places /\ pager[i].pushed \in Places /\ latest[i].at \in Places
                       /\ pager[i].firing \in BOOLEAN /\ sent[i] \in Seq(Observation)
    BY <2>1 DEF PagerTyped, StoreTyped
  <2> QED BY <2>1, <2>2, <2>3, <2>4 DEF JobsTyped
<1>2. n \in jobs[j].intents
  BY DEF Claims
<1>3. IntentOk(n)
  BY <1>2 DEF CrawlInv, IntentsOk
<1>4. pager[n.id].pushed <= pager[n.id].at
  BY <1>1 DEF CrawlInv, PagerOk, Remembers
<1>5. n.at # pager[n.id].at
  BY <1>3 DEF IntentOk
<1>6. Accepts(n) => pager[n.id].at < n.at /\ pager[n.id].pushed < n.at
  BY <1>1, <1>4, <1>5 DEF Accepts
<1>7. \A k \in Jobs : /\ jobs'[k].intents = IF k = j THEN jobs[k].intents \ {n} ELSE jobs[k].intents
                      /\ jobs'[k].pc = jobs[k].pc
  BY <1>1 DEF Claims
<1> QED BY <1>1, <1>3, <1>5, <1>6, <1>7 DEF IntentOk, Claims, store

\* What the pager is told of a trigger.
LEMMA ToldIs ==
  ASSUME NEW n \in Observation, NEW send \in BOOLEAN, n.id \in Ids, PagerTyped, Told(n, send)
  PROVE  /\ \A i \in Ids : i # n.id => pager'[i] = pager[i] /\ sent'[i] = sent[i]
         /\ pager'[n.id].at = n.at /\ pager'[n.id].firing = n.firing
         /\ pager'[n.id].pushed = IF send THEN n.at ELSE pager[n.id].pushed
         /\ sent'[n.id] = IF send THEN Append(sent[n.id], n) ELSE sent[n.id]
BY DEF Told, PagerTyped, Advance

LEMMA ClaimKeepsIntents ==
  ASSUME CrawlAssumption, CrawlInv, NEW j \in Jobs, NEW n \in Observation, NEW c \in Job, Claims(j, n, c)
  PROVE  (IntentsOk /\ OnePerEvent)'
<1>1. /\ n.id \in Ids
      /\ \A k \in Jobs : /\ jobs'[k].intents = IF k = j THEN jobs[k].intents \ {n} ELSE jobs[k].intents
                         /\ jobs'[k].pc = jobs[k].pc
      /\ UNCHANGED <<alerts, latest>>
  BY ClaimFacts
<1>2. OnePerEvent'
  <2>1. \A k \in Jobs : jobs'[k].intents \subseteq jobs[k].intents
    BY <1>1
  <2> QED BY <2>1 DEF CrawlInv, OnePerEvent
<1>3. \A k \in Jobs : jobs'[k].pc # "deliver" => jobs'[k].intents = {}
  BY <1>1 DEF CrawlInv, IntentsOk
<1>4. ASSUME NEW k \in Jobs, NEW m \in jobs'[k].intents PROVE IntentOk(m)'
  <2>1. m \in jobs[k].intents /\ ~(k = j /\ m = n)
    BY <1>1, <1>4
  <2>2. IntentOk(m)
    BY <2>1 DEF CrawlInv, IntentsOk
  <2>3. ~(m.id = n.id /\ m.at = n.at)
    BY <2>1 DEF CrawlInv, OnePerEvent, Claims
  <2>4. m.id \in Ids
    BY <2>1, TypeOKSplit DEF CrawlInv, JobsTyped, Job, Observation
  <2>5. m.at # pager'[m.id].at
    <3>1. CASE Accepts(n)
      <4>1. Told(n, ShouldSend(n)) /\ PagerTyped
        BY <3>1, TypeOKSplit DEF Claims, CrawlInv
      <4>2. m.id # n.id => pager'[m.id] = pager[m.id]
        BY <2>4, <4>1 DEF Told, PagerTyped
      <4>3. pager'[n.id].at = n.at
        BY <1>1, <4>1 DEF Told, PagerTyped, Advance
      <4> QED BY <2>2, <2>3, <4>2, <4>3 DEF IntentOk
    <3>2. CASE ~Accepts(n)
      BY <2>2, <3>2 DEF Claims, IntentOk
    <3> QED BY <3>1, <3>2
  <2> QED BY <1>1, <2>2, <2>5 DEF IntentOk
<1> QED BY <1>2, <1>3, <1>4 DEF IntentsOk

LEMMA ClaimSettles ==
  ASSUME CrawlAssumption, CrawlInv, NEW j \in Jobs, NEW n \in Observation, NEW c \in Job, Claims(j, n, c),
         NEW i \in Ids
  PROVE  Settles(i)'
<1>1. /\ n.id \in Ids /\ n.at \in Nat /\ n.at <= latest[n.id].at
      /\ \A k \in Ids : pager[k].at \in Nat /\ latest[k].at \in Nat
      /\ Accepts(n) => pager[n.id].at < n.at
      /\ \A k \in Jobs : jobs'[k].intents = IF k = j THEN jobs[k].intents \ {n} ELSE jobs[k].intents
      /\ UNCHANGED latest
  <2>1. \A k \in Ids : pager[k].at \in Nat /\ latest[k].at \in Nat
    BY ClaimFacts
  <2>2. \A k \in Jobs : jobs'[k].intents = IF k = j THEN jobs[k].intents \ {n} ELSE jobs[k].intents
    BY TypeOKSplit DEF CrawlInv, JobsTyped, Claims
  <2> QED BY <2>1, <2>2, ClaimFacts
<1>2. Settles(i) /\ pager[i].at <= latest[i].at
  BY DEF CrawlInv, PagerOk, Remembers
<1>3. ASSUME NEW k \in Jobs, NEW m \in jobs[k].intents, m.id = i, m.at = latest[i].at, m.firing = latest[i].firing, m # n
      PROVE  Settles(i)'
  BY <1>1, <1>3 DEF Settles, OnItsWay
<1>4. CASE ~Accepts(n)
  <2>1. UNCHANGED pager
    BY <1>4 DEF Claims
  <2>2. n.id = i => n.at < latest[i].at
    BY <1>1, <1>2, <1>4 DEF Accepts
  <2>3. CASE OnItsWay(i)
    <3>1. PICK k \in Jobs : \E m \in jobs[k].intents : m.id = i /\ m.at = latest[i].at /\ m.firing = latest[i].firing
      BY <2>3 DEF OnItsWay
    <3>2. PICK m \in jobs[k].intents : m.id = i /\ m.at = latest[i].at /\ m.firing = latest[i].firing
      BY <3>1
    <3>3. m # n
      BY <1>1, <2>2, <3>2
    <3> QED BY <1>3, <3>2, <3>3
  <2> QED BY <1>1, <1>2, <2>1, <2>3 DEF Settles
<1>5. CASE Accepts(n) /\ i # n.id
  <2>1. pager'[i] = pager[i]
    BY <1>1, <1>5, ToldIs, TypeOKSplit DEF Claims, CrawlInv, Told, PagerTyped
  <2>2. OnItsWay(i) => Settles(i)'
    BY <1>3, <1>5 DEF OnItsWay
  <2> QED BY <1>1, <1>2, <2>1, <2>2 DEF Settles
<1>6. CASE Accepts(n) /\ i = n.id
  <2>1. pager'[i].at = n.at /\ pager'[i].firing = n.firing
    <3>1. Told(n, ShouldSend(n)) /\ PagerTyped
      BY <1>6, TypeOKSplit DEF Claims, CrawlInv
    <3> QED BY <1>1, <1>6, <3>1 DEF Told, PagerTyped, Advance
  <2>2. pager[i].at # latest[i].at
    BY <1>1, <1>6
  <2>3. PICK k \in Jobs : \E m \in jobs[k].intents : m.id = i /\ m.at = latest[i].at /\ m.firing = latest[i].firing
    BY <1>2, <2>2 DEF Settles, OnItsWay
  <2>4. PICK m \in jobs[k].intents : m.id = i /\ m.at = latest[i].at /\ m.firing = latest[i].firing
    BY <2>3
  <2>5. CASE m = n
    BY <1>1, <2>1, <2>4, <2>5 DEF Settles
  <2> QED BY <1>3, <2>4, <2>5
<1> QED BY <1>4, <1>5, <1>6

\* What the pager remembers after a claim that it takes.
LEMMA ClaimRemembers ==
  ASSUME CrawlAssumption, CrawlInv, NEW j \in Jobs, NEW n \in Observation, NEW c \in Job, Claims(j, n, c),
         NEW i \in Ids
  PROVE  Remembers(i)'
<1>1. /\ n.id \in Ids /\ n.at \in Nat /\ n.firing \in BOOLEAN /\ n.at <= latest[n.id].at
      /\ pager[i].at \in Nat /\ pager[i].pushed \in Nat /\ latest[i].at \in Nat
      /\ pager[i].firing \in BOOLEAN /\ sent[i] \in Seq(Observation)
      /\ Accepts(n) => pager[n.id].at < n.at /\ pager[n.id].pushed < n.at
      /\ UNCHANGED <<latest, timeline, config>>
  BY ClaimFacts
<1>2. Remembers(i)
  BY DEF CrawlInv, PagerOk
<1>3. CASE pager'[i] = pager[i] /\ sent'[i] = sent[i]
  BY <1>1, <1>2, <1>3 DEF Remembers
<1>4. CASE Accepts(n) /\ i = n.id
  <2> DEFINE send == ShouldSend(n)
             s == sent[i]
             last == s[Len(s)]
  <2>1. send \in BOOLEAN /\ Told(n, send) /\ PagerTyped
    BY <1>1, <1>4, TypeOKSplit DEF Claims, CrawlInv, ShouldSend
  <2>2. /\ pager'[i].at = n.at /\ pager'[i].firing = n.firing
        /\ pager'[i].pushed = IF send THEN n.at ELSE pager[i].pushed
        /\ sent'[i] = IF send THEN Append(s, n) ELSE s
    <3> HIDE DEF send
    <3> QED BY <1>1, <1>4, <2>1, ToldIs
  <2>3. pager'[i].pushed <= pager'[i].at /\ pager'[i].at <= latest'[i].at /\ latest'[i].at <= Len(timeline')
    <3>1. latest[i].at <= Len(timeline)
      BY <1>2 DEF Remembers
    <3> HIDE DEF send
    <3> QED BY <1>1, <1>4, <2>2, <3>1
  <2>4. n.firing /\ ~send => pager[i].firing
    BY <1>4 DEF ShouldSend
  <2>5. ~n.firing => (send <=> config.recovery /\ pager[i].firing)
    BY <1>4 DEF ShouldSend
  <2> HIDE DEF send
  <2>6. CASE send
    <3>1. Append(s, n) # <<>> /\ Len(Append(s, n)) = Len(s) + 1 /\ Append(s, n)[Len(Append(s, n))] = n
          /\ \A k \in DOMAIN Append(s, n) : (k \in DOMAIN s /\ Append(s, n)[k] = s[k]) \/ Append(s, n)[k] = n
      BY <1>1, AppendFacts
    <3>2. ~config.recovery => \A k \in DOMAIN s : s[k].firing
      BY <1>2 DEF Remembers
    <3>3. ~config'.recovery => \A k \in DOMAIN sent'[i] : sent'[i][k].firing
      BY <1>1, <2>2, <2>5, <2>6, <3>1, <3>2
    <3> HIDE DEF s, last
    <3> QED BY <1>1, <2>2, <2>3, <2>6, <3>1, <3>3 DEF Remembers
  <2>7. CASE ~send
    <3>1. /\ s = <<>> => pager[i].pushed = 0 /\ ~pager[i].firing
          /\ s # <<>> => pager[i].pushed = last.at
          /\ s # <<>> /\ pager[i].firing => last.firing
          /\ s # <<>> /\ config.recovery /\ last.firing => pager[i].firing
          /\ ~config.recovery => \A k \in DOMAIN s : s[k].firing
      BY <1>2 DEF Remembers
    <3>2. /\ s = <<>> => ~n.firing
          /\ s # <<>> /\ n.firing => last.firing
          /\ s # <<>> /\ config.recovery /\ last.firing => n.firing
      BY <1>1, <2>4, <2>5, <2>7, <3>1
    <3>3. sent'[i] = s /\ pager'[i].pushed = pager[i].pushed /\ pager'[i].firing = n.firing /\ config' = config
      BY <1>1, <2>2, <2>7
    <3> QED BY <2>3, <3>1, <3>2, <3>3 DEF Remembers
  <2> QED BY <2>6, <2>7
<1>5. CASE ~Accepts(n)
  BY <1>3, <1>5 DEF Claims
<1>6. CASE Accepts(n) /\ i # n.id
  <2>1. Told(n, ShouldSend(n)) /\ PagerTyped
    BY <1>6, TypeOKSplit DEF Claims, CrawlInv
  <2>2. pager'[i] = pager[i] /\ sent'[i] = sent[i]
    BY <1>1, <1>6, <2>1 DEF Told, PagerTyped
  <2> QED BY <1>3, <2>2
<1> QED BY <1>4, <1>5, <1>6

LEMMA ClaimKeepsPages ==
  ASSUME CrawlAssumption, CrawlInv, NEW j \in Jobs, NEW n \in Observation, NEW c \in Job, Claims(j, n, c)
  PROVE  (PagesAlternate /\ PagesHaveAlerts)'
<1>1. /\ n.id \in Ids /\ n.at \in Nat /\ n.firing \in BOOLEAN
      /\ n.firing => [event |-> n.at, id |-> n.id] \in alerts
      /\ Accepts(n) => pager[n.id].at < n.at /\ pager[n.id].pushed < n.at
      /\ UNCHANGED <<alerts, config>>
  BY ClaimFacts
<1>2. \A i \in Ids : pager[i].firing \in BOOLEAN /\ sent[i] \in Seq(Observation)
  BY ClaimFacts
<1>3. CASE UNCHANGED sent
  BY <1>1, <1>3 DEF CrawlInv, PagesAlternate, PagesHaveAlerts
<1>4. CASE Accepts(n) /\ ShouldSend(n)
  <2> DEFINE s == sent[n.id]
             last == s[Len(s)]
  <2>1. /\ sent'[n.id] = Append(s, n) /\ \A i \in Ids : i # n.id => sent'[i] = sent[i]
        /\ s \in Seq(Observation)
    BY <1>1, <1>2, <1>4, TypeOKSplit DEF Claims, Told, CrawlInv, PagerTyped
  <2>2. /\ Len(Append(s, n)) = Len(s) + 1 /\ Len(s) \in Nat /\ Append(s, n)[Len(s) + 1] = n
        /\ \A k \in 1..Len(s) : Append(s, n)[k] = s[k]
    BY <2>1
  <2>3. Remembers(n.id)
    BY <1>1 DEF CrawlInv, PagerOk
  <2>5. s # <<>> => /\ last.at < n.at /\ (~last.firing => n.firing)
                    /\ config.recovery /\ last.firing /\ n.firing =>
                         config.cooldown > 0 /\ n.at - last.at >= config.cooldown
    <3> SUFFICES ASSUME s # <<>> 
                 PROVE  /\ last.at < n.at /\ (~last.firing => n.firing)
                        /\ config.recovery /\ last.firing /\ n.firing =>
                             config.cooldown > 0 /\ n.at - last.at >= config.cooldown
      OBVIOUS
    <3>1. pager[n.id].pushed = last.at /\ (pager[n.id].firing => last.firing)
          /\ (config.recovery /\ last.firing => pager[n.id].firing)
      BY <2>3 DEF Remembers
    <3>2. /\ n.firing => \/ ~pager[n.id].firing
                         \/ config.cooldown > 0 /\ n.at - pager[n.id].pushed >= config.cooldown
          /\ ~n.firing => pager[n.id].firing
      BY <1>1, <1>2, <1>4 DEF ShouldSend
    <3> HIDE DEF last, s
    <3> QED BY <1>1, <1>4, <3>1, <3>2
  <2>6. PagesAlternate'
    <3> SUFFICES ASSUME NEW i \in Ids, NEW k \in 1..(Len(sent'[i]) - 1)
                 PROVE  LET p == sent'[i][k]  q == sent'[i][k + 1] IN
                        /\ p.at < q.at /\ (~p.firing => q.firing)
                        /\ config.recovery /\ p.firing /\ q.firing => config.cooldown > 0 /\ q.at - p.at >= config.cooldown
      BY <1>1 DEF PagesAlternate
    <3>1. CASE i # n.id
      BY <2>1, <3>1 DEF CrawlInv, PagesAlternate
    <3>2. CASE i = n.id /\ k < Len(s)
      <4>1. sent'[i][k] = s[k] /\ sent'[i][k + 1] = s[k + 1] /\ k \in 1..(Len(s) - 1)
        <5>1. k \in Nat /\ 1 <= k
          BY <2>1, <2>2, <3>2
        <5>2. k \in 1..Len(s) /\ k + 1 \in 1..Len(s) /\ k \in 1..(Len(s) - 1)
          BY <2>2, <3>2, <5>1
        <5>3. \A l \in 1..Len(s) : Append(s, n)[l] = s[l]
          BY <2>2
        <5> HIDE DEF s
        <5> QED BY <2>1, <3>2, <5>2, <5>3
      <4> QED BY <3>2, <4>1 DEF CrawlInv, PagesAlternate
    <3>3. CASE i = n.id /\ k >= Len(s)
      <4>1. k = Len(s) /\ s # <<>> /\ sent'[i][k] = last /\ sent'[i][k + 1] = n
        <5>1. k \in 1..Len(s)
          BY <2>1, <2>2, <3>3
        <5>2. k = Len(s) /\ Len(s) # 0
          BY <2>2, <3>3, <5>1
        <5>3. Append(s, n)[k] = s[k] /\ Append(s, n)[k + 1] = n
          BY <2>2, <5>1, <5>2
        <5>4. Len(<<>>) = 0
          OBVIOUS
        <5> HIDE DEF s
        <5> QED BY <2>1, <3>3, <5>2, <5>3, <5>4
      <4> HIDE DEF s, last
      <4> QED BY <2>5, <4>1
    <3> QED BY <2>2, <3>1, <3>2, <3>3
  <2>7. PagesHaveAlerts'
    <3> SUFFICES ASSUME NEW i \in Ids, NEW m \in ToSet(sent'[i]), m.firing PROVE [event |-> m.at, id |-> i] \in alerts
      BY <1>1 DEF PagesHaveAlerts
    <3>1. m \in ToSet(sent[i]) \/ (m = n /\ i = n.id)
      <4>1. CASE i = n.id
        <5>1. PICK k \in DOMAIN Append(s, n) : m = Append(s, n)[k]
          BY <2>1, <4>1 DEF ToSet
        <5>2. (k \in DOMAIN s /\ m = s[k]) \/ m = n
          BY <2>1, <5>1, AppendFacts
        <5> QED BY <4>1, <5>2 DEF ToSet
      <4>2. CASE i # n.id
        BY <2>1, <4>2 DEF ToSet
      <4> QED BY <4>1, <4>2
    <3> QED BY <1>1, <3>1 DEF CrawlInv, PagesHaveAlerts
  <2> QED BY <2>6, <2>7
<1> QED BY <1>3, <1>4 DEF Claims, Told

LEMMA DrainStep ==
  ASSUME CrawlAssumption, CrawlInv, [CrawlNext]_crawlVars
  PROVE  CircuitDrains'
<1>1. jobs \in [Jobs -> Job] /\ circuit \in BOOLEAN
  BY TypeOKSplit DEF CrawlInv, JobsTyped, ProcessTyped
<1>2. CASE UNCHANGED <<jobs, circuit, survivors>>
  BY <1>2 DEF CrawlInv, CircuitDrains
<1>3. ASSUME NEW j \in Jobs, Start(j) \/ Crawl(j) PROVE CircuitDrains'
  <2>1. CASE Start(j)
    BY <2>1 DEF Start, CircuitDrains
  <2>2. ASSUME UNCHANGED <<circuit, survivors>>, jobs[j].pc # "idle", \A k \in Jobs : k # j => jobs'[k] = jobs[k]
        PROVE  CircuitDrains'
    BY <2>2 DEF CrawlInv, CircuitDrains
  <2>3. ASSUME NEW r \in Readings, FetchFeed(j, r) PROVE CircuitDrains'
    BY <1>1, <2>2, <2>3 DEF FetchFeed
  <2>4. CASE FetchFails(j) \/ PersistDegraded(j) \/ PersistFails(j) \/ Persist(j) \/ Claim(j)
    BY <1>1, <2>2, <2>4 DEF FetchFails, PersistDegraded, PersistFails, Persist, Claim
  <2>5. jobs' = [jobs EXCEPT ![j] = NoCrawl] => jobs'[j].pc = "idle" /\ \A k \in Jobs : k # j => jobs'[k] = jobs[k]
    BY <1>1 DEF NoCrawl
  <2>6. CASE StorageFails(j)
    BY <2>5, <2>6 DEF StorageFails, CrawlInv, CircuitDrains
  <2>7. CASE End(j)
    BY <2>5, <2>7 DEF End, CrawlInv, CircuitDrains
  <2> QED BY <1>3, <2>1, <2>3, <2>4, <2>6, <2>7 DEF Crawl
<1>4. Operator => UNCHANGED <<jobs, circuit, survivors>>
  BY DEF Operator, CreateWatchlist, ReplaceTriggers, Write, EnableWatchlist, DeleteWatchlist
<1>5. \A n \in inflight : Arrive(n) \/ Lose(n) => UNCHANGED <<jobs, circuit, survivors>>
  BY DEF Arrive, Lose
<1>6. UNCHANGED crawlVars => UNCHANGED <<jobs, circuit, survivors>>
  BY DEF crawlVars
<1> QED BY <1>2, <1>3, <1>4, <1>5, <1>6, RestartKeeps DEF CrawlNext
-----------------------------------------------------------------------------
LEMMA CrawlInvInit == ASSUME CrawlAssumption, CrawlInit PROVE CrawlInv
<1>1. /\ \A j \in Jobs : jobs[j] = NoCrawl
      /\ \A i \in Ids : sent[i] = <<>> /\ latest[i] = Unseen /\ pager[i] = Unpaged
      /\ timeline = <<>> /\ ~circuit
  BY DEF CrawlInit
<1>2. JobsTyped
  BY DEF CrawlInit, JobsTyped, Job, NoCrawl, CrawlAssumption
<1>3. WatchTyped
  <2>1. <<>> \in [{} -> Kinds] /\ {} \in SUBSET (1..(nextId - 1))
    OBVIOUS
  <2>2. <<>> \in UNION {[S -> Kinds] : S \in SUBSET (1..(nextId - 1))}
    BY <2>1
  <2>3. nextId \in 1..(MaxIds + 1)
    BY DEF CrawlInit, CrawlAssumption
  <2> QED BY <2>2, <2>3 DEF CrawlInit, WatchTyped, NoWatch
<1>4. PagerTyped /\ latest \in [Ids -> [firing : BOOLEAN, at : Places]]
  <2>1. 0 \in Places
    BY DEF Places, CrawlAssumption
  <2> QED BY <2>1 DEF CrawlInit, PagerTyped, Unpaged, Unseen
<1>5. StoreTyped /\ ProcessTyped
  <2>1. timeline \in Seq(0..MaxFetches) /\ Len(timeline) = 0 /\ fetches \in 0..MaxFetches
    BY DEF CrawlInit, CrawlAssumption
  <2>2. Len(timeline) <= MaxEvents
    BY <2>1 DEF CrawlAssumption
  <2> QED BY <1>4, <2>1, <2>2 DEF CrawlInit, StoreTyped, ProcessTyped
<1>6. CrawlTypeOK
  BY <1>2, <1>3, <1>4, <1>5, TypeOKSplit
<1>7. IntentsOk /\ OnePerEvent /\ CircuitDrains
  BY <1>1 DEF IntentsOk, OnePerEvent, CircuitDrains, NoCrawl
<1>8. PagerOk
  <2> SUFFICES ASSUME NEW i \in Ids PROVE Remembers(i) /\ Settles(i)
    BY DEF PagerOk
  <2>1. /\ sent[i] = <<>> /\ latest[i].at = 0 /\ pager[i].at = 0 /\ pager[i].pushed = 0
        /\ pager[i].firing = FALSE /\ latest[i].firing = FALSE /\ Len(timeline) = 0 /\ 0 <= 0
    BY <1>1 DEF Unseen, Unpaged
  <2>2. DOMAIN <<>> = {}
    OBVIOUS
  <2> QED BY <2>1, <2>2 DEF Remembers, Settles
<1>9. PagesAlternate /\ PagesHaveAlerts
  BY <1>1 DEF PagesAlternate, PagesHaveAlerts, ToSet
<1> QED BY <1>6, <1>7, <1>8, <1>9 DEF CrawlInv

LEMMA CrawlInvStep == ASSUME CrawlAssumption, CrawlInv, [CrawlNext]_crawlVars PROVE CrawlInv'
<1>1. CrawlTypeOK' /\ CircuitDrains'
  BY TypesStep, DrainStep DEF CrawlInv
<1>2. ASSUME NEW j \in Jobs, Claim(j) PROVE (IntentsOk /\ OnePerEvent /\ PagerOk /\ PagesAlternate /\ PagesHaveAlerts)'
  <2>1. PICK n \in Observation, c \in Job : Claims(j, n, c)
    BY <1>2, ClaimClaims DEF CrawlInv
  <2>2. PagerOk'
    BY <2>1, ClaimRemembers, ClaimSettles DEF PagerOk
  <2> QED BY <2>1, <2>2, ClaimKeepsIntents, ClaimKeepsPages
<1>3. Quiet \/ Restart \/ \E j \in Jobs : Persist(j) \/ Claim(j)
  BY StepKinds DEF CrawlInv
<1>4. (IntentsOk /\ OnePerEvent /\ PagerOk /\ PagesAlternate /\ PagesHaveAlerts)'
  BY <1>2, <1>3, QuietKeeps, RestartKeeps, PersistKeeps
<1> QED BY <1>1, <1>4 DEF CrawlInv

THEOREM CrawlInvariant == CrawlSpec => []CrawlInv
<1>1. CrawlInit => CrawlInv
  BY CrawlInvInit, CrawlAssumption
<1>2. CrawlInv /\ [CrawlNext]_crawlVars => CrawlInv'
  BY CrawlInvStep, CrawlAssumption
<1> QED BY <1>1, <1>2, PTL DEF CrawlSpec

\* Pages tell of observations whose transaction committed, in the order of the
\* timeline, and alternate between firing and recovered, whatever crawls run at
\* once and whichever fails (should_send and deliver_ntfy_intents).
THEOREM PagesAreSound == CrawlSpec => []PagesSound
<1>1. CrawlInv => PagesSound
  BY DEF CrawlInv, PagesSound
<1> QED BY <1>1, CrawlInvariant, PTL

\* When no intent of a trigger is under delivery the pager holds what the last
\* committed crawl saw of it, and an open circuit is outlived only by the crawls
\* that were under way (deliver_ntfy_intents, _open_crawl_circuit).
THEOREM PagerIsSound == CrawlSpec => []PagerSound
<1>1. CrawlInv => PagerSound
  BY DEF CrawlInv, PagerOk, Settles, OnItsWay, Pending, PagerSettles, PagerSound
<1> QED BY <1>1, CrawlInvariant, PTL
=============================================================================
