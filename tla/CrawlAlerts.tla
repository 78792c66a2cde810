----------------------------- MODULE CrawlAlerts -----------------------------
(***************************************************************************)
(* Crawls of the public feed, the alerts they raise and the pages they     *)
(* send (killinchu_backend.py).  The scheduler loop and the requests for a *)
(* manual or live crawl each fetch, persist in one transaction and then    *)
(* deliver the ntfy intents the transaction queued.                        *)
(*                                                                         *)
(* The store's lock orders the transactions, and a transaction reads the   *)
(* clock while it holds it: the place of its event in the timeline stands  *)
(* for that time.  Only the loop calls run_crawl_guarded, so its lock is   *)
(* never found taken, and only the loop opens the circuit, after which it  *)
(* has ended.                                                              *)
(***************************************************************************)
EXTENDS Integers, Sequences, FiniteSets, SequencesExt

CONSTANTS
  Loop,          \* the scheduler loop
  CrawlRequests, \* the manual and live crawls that may be under way
  Watchlists,
  Kinds,         \* the triggers a watchlist may be given: field, op, threshold
  Readings,      \* what a fetch may bring: field -> number, or Absent
  Absent,
  Configs,       \* what the environment of a process may say of pages
  Faults,        \* the faults of the run
  MaxIds, MaxFetches, MaxEvents

\* Whether a page is sent when a trigger clears, and the time before a standing
\* trigger is paged again; 0 is never.
Config == [recovery : BOOLEAN, cooldown : Nat]

ASSUME CrawlAssumption ==
  /\ Configs \subseteq Config
  /\ MaxIds \in Nat /\ MaxFetches \in Nat /\ MaxEvents \in Nat

Jobs == {Loop} \cup CrawlRequests
Ids == 1..MaxIds

VARIABLES
  (* the store *)
  timeline,  \* one event per persisted crawl: the number of its fetch, 0 when the feed was down
  alerts,    \* notifications: the event and the trigger that fired
  watch,     \* watchlists and their triggers
  nextId,    \* the next trigger id
  (* the process *)
  config,    \* its environment
  jobs,      \* the crawls under way
  circuit,   \* a storage failure has ended the loop
  pager,     \* _NTFY_STATE
  inflight,  \* pages handed to their threads
  (* the world, and history *)
  fetches,   \* fetches so far
  sent,      \* the pages decided on, by trigger
  arrived,   \* the newest observation of which a page has reached ntfy, by trigger
  latest,    \* what the last crawl persisted by this process saw of each trigger
  survivors  \* the crawls under way when the circuit opened

store == <<timeline, alerts, watch, nextId>>
pages == <<pager, inflight, sent, arrived>>
crawlVars == <<store, config, jobs, circuit, pages, fetches, latest, survivors>>

Fault(f) == f \in Faults

NoWatch == [state |-> "unused", triggers |-> <<>>]
NoCrawl == [pc |-> "idle", fetch |-> 0, reading |-> Absent, intents |-> {}]
Unseen == [firing |-> FALSE, at |-> 0]
Unpaged == [firing |-> FALSE, pushed |-> 0, at |-> 0]

CrawlInit ==
  /\ timeline = <<>> /\ alerts = {} /\ nextId = 1
  /\ watch = [w \in Watchlists |-> NoWatch]
  /\ config \in Configs
  /\ jobs = [j \in Jobs |-> NoCrawl]
  /\ circuit = FALSE /\ survivors = {}
  /\ pager = [i \in Ids |-> Unpaged] /\ inflight = {}
  /\ fetches = 0
  /\ sent = [i \in Ids |-> <<>>] /\ arrived = [i \in Ids |-> 0]
  /\ latest = [i \in Ids |-> Unseen]
-----------------------------------------------------------------------------
(* watchlists *)

\* The rows of n triggers: ids are never given twice.
Rows(n) == [nextId..(nextId + n - 1) -> Kinds]

Write(w, state, n) ==
  /\ nextId + n <= MaxIds + 1
  /\ \E rows \in Rows(n) : watch' = [watch EXCEPT ![w] = [state |-> state, triggers |-> rows]]
  /\ nextId' = nextId + n
  /\ UNCHANGED <<config, timeline, alerts, jobs, circuit, pages, fetches, latest, survivors>>

Switch(on) == IF on THEN "on" ELSE "off"

CreateWatchlist(w, on, n) ==
  /\ watch[w].state = "unused"
  /\ Write(w, Switch(on), n)

Known(w) == watch[w].state \in {"on", "off"}

ReplaceTriggers(w, on, n) ==
  /\ Known(w)
  /\ Write(w, Switch(on), n)

EnableWatchlist(w, on) ==
  /\ Known(w)
  /\ watch' = [watch EXCEPT ![w].state = Switch(on)]
  /\ UNCHANGED <<config, timeline, alerts, nextId, jobs, circuit, pages, fetches, latest, survivors>>

DeleteWatchlist(w) ==
  /\ Known(w)
  /\ watch' = [watch EXCEPT ![w] = [state |-> "deleted", triggers |-> <<>>]]
  /\ UNCHANGED <<config, timeline, alerts, nextId, jobs, circuit, pages, fetches, latest, survivors>>
-----------------------------------------------------------------------------
(* a crawl *)

\* Mutant: a request does not look at the circuit.
StartAlways(j) ==
  /\ jobs[j].pc = "idle"
  /\ circuit => j # Loop
  /\ jobs' = [jobs EXCEPT ![j].pc = "fetch"]
  /\ UNCHANGED <<store, config, circuit, pages, fetches, latest, survivors>>

\* The circuit is looked at here and not again.
Start(j) ==
  /\ jobs[j].pc = "idle"
  /\ ~circuit
  /\ jobs' = [jobs EXCEPT ![j].pc = "fetch"]
  /\ UNCHANGED <<store, config, circuit, pages, fetches, latest, survivors>>

FetchFeed(j, r) ==
  /\ jobs[j].pc = "fetch" /\ fetches < MaxFetches
  /\ fetches' = fetches + 1
  /\ jobs' = [jobs EXCEPT ![j].pc = "persist", ![j].fetch = fetches + 1, ![j].reading = r]
  /\ UNCHANGED <<store, config, circuit, pages, latest, survivors>>

FetchFails(j) ==
  /\ Fault("feed")
  /\ jobs[j].pc = "fetch"
  /\ jobs' = [jobs EXCEPT ![j].pc = "persist"]
  /\ UNCHANGED <<store, config, circuit, pages, fetches, latest, survivors>>

Compares(op, actual, threshold) ==
  \/ op = "gt" /\ actual > threshold
  \/ op = "gte" /\ actual >= threshold
  \/ op = "lt" /\ actual < threshold
  \/ op = "lte" /\ actual <= threshold
  \/ op = "eq" /\ actual = threshold

\* A field the reading lacks makes no trigger fire.
Meets(k, r) == r[k.field] # Absent /\ Compares(k.op, r[k.field], k.threshold)

Enabled == {w \in Watchlists : watch[w].state = "on"}
Watched == UNION {DOMAIN watch[w].triggers : w \in Enabled}
Kind(i) == watch[CHOOSE w \in Enabled : i \in DOMAIN watch[w].triggers].triggers[i]
Fires(i, r) == Meets(Kind(i), r)

Intent(i, j, at) ==
  [id |-> i, firing |-> Fires(i, jobs[j].reading), at |-> at, fetch |-> jobs[j].fetch]

Intents(j, at) == {Intent(i, j, at) : i \in Watched}

Persist(j) ==
  LET at == Len(timeline) + 1
      new == Intents(j, at)
  IN
  /\ jobs[j].pc = "persist" /\ jobs[j].fetch # 0
  /\ Len(timeline) < MaxEvents
  /\ timeline' = Append(timeline, jobs[j].fetch)
  /\ alerts' = alerts \cup {[event |-> at, id |-> n.id] : n \in {m \in new : m.firing}}
  /\ latest' = [i \in Ids |->
       IF i \in Watched THEN [firing |-> Fires(i, jobs[j].reading), at |-> at] ELSE latest[i]]
  /\ jobs' = [jobs EXCEPT ![j].pc = "deliver", ![j].intents = new]
  /\ UNCHANGED <<config, watch, nextId, circuit, pages, fetches, survivors>>

PersistDegraded(j) ==
  /\ jobs[j].pc = "persist" /\ jobs[j].fetch = 0
  /\ Len(timeline) < MaxEvents
  /\ timeline' = Append(timeline, 0)
  /\ jobs' = [jobs EXCEPT ![j].pc = "deliver"]
  /\ UNCHANGED <<config, alerts, watch, nextId, circuit, pages, fetches, latest, survivors>>

\* Mutant: the intents of a transaction are delivered although it rolled back.
PersistFailsPaging(j) ==
  /\ Fault("database")
  /\ jobs[j].pc = "persist"
  /\ jobs' = [jobs EXCEPT ![j].pc = "deliver",
                          ![j].intents = IF jobs[j].fetch # 0 THEN Intents(j, Len(timeline) + 1) ELSE {}]
  /\ UNCHANGED <<store, config, circuit, pages, fetches, latest, survivors>>

\* The transaction rolls back for a reason that may pass; the loop goes on.
PersistFails(j) ==
  /\ Fault("database")
  /\ jobs[j].pc = "persist"
  /\ jobs' = [jobs EXCEPT ![j] = NoCrawl]
  /\ UNCHANGED <<store, config, circuit, pages, fetches, latest, survivors>>

\* The transaction rolls back because the disk takes no write: the loop ends.
StorageFails(j) ==
  /\ Fault("disk")
  /\ jobs[j].pc = "persist"
  /\ jobs' = [jobs EXCEPT ![j] = NoCrawl]
  /\ circuit' = (circuit \/ j = Loop)
  /\ survivors' = IF j = Loop THEN {k \in Jobs \ {j} : jobs[k].pc # "idle"} ELSE survivors
  /\ UNCHANGED <<store, config, pages, fetches, latest>>
-----------------------------------------------------------------------------
(* delivery *)

\* Mutant: an intent older than the state is accepted.
AcceptsAny(n) == TRUE

Accepts(n) == n.at >= pager[n.id].at

\* Mutant: a standing trigger is paged by every crawl.
ShouldSendAlways(n) == n.firing \/ (config.recovery /\ pager[n.id].firing)

ShouldSend(n) ==
  IF n.firing
  THEN \/ ~pager[n.id].firing
       \/ config.cooldown > 0 /\ n.at - pager[n.id].pushed >= config.cooldown
  ELSE config.recovery /\ pager[n.id].firing

\* Mutant: a page is remembered, and what was seen of a trigger it does not concern is not.
AdvanceOnSend(n, send) ==
  IF send THEN [firing |-> n.firing, pushed |-> n.at, at |-> n.at] ELSE pager[n.id]

Advance(n, send) ==
  [firing |-> n.firing, pushed |-> IF send THEN n.at ELSE pager[n.id].pushed, at |-> n.at]

\* One intent, under the state's lock; a page goes to a thread of its own.  The
\* queries of a crawl order neither watchlists nor triggers.
Claim(j) ==
  /\ jobs[j].pc = "deliver"
  /\ \E n \in jobs[j].intents :
       LET send == ShouldSend(n) IN
       /\ jobs' = [jobs EXCEPT ![j].intents = @ \ {n}]
       /\ IF Accepts(n)
          THEN /\ pager' = [pager EXCEPT ![n.id] = Advance(n, send)]
               /\ sent' = IF send THEN [sent EXCEPT ![n.id] = Append(@, n)] ELSE sent
               /\ inflight' = IF send THEN inflight \cup {n} ELSE inflight
          ELSE UNCHANGED <<pager, sent, inflight>>
  /\ UNCHANGED <<store, config, circuit, arrived, fetches, latest, survivors>>

End(j) ==
  /\ jobs[j].pc = "deliver" /\ jobs[j].intents = {}
  /\ jobs' = [jobs EXCEPT ![j] = NoCrawl]
  /\ survivors' = survivors \ {j}
  /\ UNCHANGED <<store, config, circuit, pages, fetches, latest>>

Arrive(n) ==
  /\ inflight' = inflight \ {n}
  /\ arrived' = [arrived EXCEPT ![n.id] = n.at]
  /\ UNCHANGED <<store, config, jobs, circuit, pager, sent, fetches, latest, survivors>>

\* A push that fails is logged and not repeated.
Lose(n) ==
  /\ Fault("network")
  /\ inflight' = inflight \ {n}
  /\ UNCHANGED <<store, config, jobs, circuit, pager, sent, arrived, fetches, latest, survivors>>

Restart ==
  /\ Fault("crash")
  /\ config' \in Configs
  /\ jobs' = [j \in Jobs |-> NoCrawl]
  /\ circuit' = FALSE /\ survivors' = {}
  /\ pager' = [i \in Ids |-> Unpaged] /\ inflight' = {}
  /\ sent' = [i \in Ids |-> <<>>]
  /\ latest' = [i \in Ids |-> Unseen]
  /\ UNCHANGED <<store, arrived, fetches>>
-----------------------------------------------------------------------------
Operator ==
  \E w \in Watchlists :
    \/ \E on \in BOOLEAN, n \in 0..MaxIds : CreateWatchlist(w, on, n) \/ ReplaceTriggers(w, on, n)
    \/ \E on \in BOOLEAN : EnableWatchlist(w, on)
    \/ DeleteWatchlist(w)

Crawl(j) ==
  \/ \E r \in Readings : FetchFeed(j, r)
  \/ FetchFails(j)
  \/ Persist(j) \/ PersistDegraded(j)
  \/ PersistFails(j) \/ StorageFails(j)
  \/ Claim(j) \/ End(j)

CrawlNext ==
  \/ Operator
  \/ \E j \in Jobs : Start(j) \/ Crawl(j)
  \/ \E n \in inflight : Arrive(n) \/ Lose(n)
  \/ Restart

CrawlSpec == CrawlInit /\ [][CrawlNext]_crawlVars

\* A thread that has begun a crawl goes on with it.
FairCrawlSpec == CrawlSpec /\ \A j \in Jobs : WF_crawlVars(Crawl(j))
-----------------------------------------------------------------------------
Observation == [id : Ids, firing : BOOLEAN, at : 1..MaxEvents, fetch : 1..MaxFetches]
Places == 0..MaxEvents

\* Every variable holds what its declaration says.
CrawlTypeOK ==
  /\ timeline \in Seq(0..MaxFetches) /\ Len(timeline) <= MaxEvents
  /\ alerts \subseteq [event : 1..MaxEvents, id : Ids]
  /\ nextId \in 1..(MaxIds + 1)
  /\ watch \in [Watchlists -> [state : {"unused", "on", "off", "deleted"},
                               triggers : UNION {[S -> Kinds] : S \in SUBSET (1..(nextId - 1))}]]
  /\ config \in Configs
  /\ jobs \in [Jobs -> [pc : {"idle", "fetch", "persist", "deliver"}, fetch : 0..fetches,
                        reading : Readings \cup {Absent}, intents : SUBSET Observation]]
  /\ circuit \in BOOLEAN /\ survivors \subseteq CrawlRequests
  /\ pager \in [Ids -> [firing : BOOLEAN, pushed : Places, at : Places]]
  /\ inflight \subseteq Observation
  /\ fetches \in 0..MaxFetches
  /\ sent \in [Ids -> Seq(Observation)] /\ arrived \in [Ids -> Places]
  /\ latest \in [Ids -> [firing : BOOLEAN, at : Places]]

\* A page that says a trigger fires has its notification in the store: none is
\* sent for a transaction that rolled back, in whatever order crawls end.
PagesHaveAlerts ==
  \A i \in Ids : \A n \in ToSet(sent[i]) :
    n.firing => [event |-> n.at, id |-> i] \in alerts

\* The pages of a trigger alternate between firing and recovered, each of a
\* later observation, and only a standing trigger past the cooldown is paged
\* twice in a row.
PagesAlternate ==
  \A i \in Ids : \A n \in 1..(Len(sent[i]) - 1) :
    LET p == sent[i][n]  q == sent[i][n + 1] IN
    /\ p.at < q.at
    /\ ~p.firing => q.firing
    /\ config.recovery /\ p.firing /\ q.firing => config.cooldown > 0 /\ q.at - p.at >= config.cooldown

Pending(i) == \E j \in Jobs : \E n \in jobs[j].intents : n.id = i

\* Once no delivery is under way the pager holds what the last persisted crawl
\* saw of a trigger, whichever crawl delivered last.
PagerSettles ==
  \A i \in Ids :
    ~Pending(i) => pager[i].firing = latest[i].firing /\ pager[i].at = latest[i].at

\* After the circuit opened only the crawls then under way run to their end.
CircuitDrains ==
  circuit => \A j \in Jobs : jobs[j].pc # "idle" => j \in survivors

\* Pages tell of committed observations only, in order, and alternate.
PagesSound == CrawlTypeOK /\ PagesAlternate /\ PagesHaveAlerts

\* The pager agrees with the store, and an open circuit with the crawls.
PagerSound == PagerSettles /\ CircuitDrains

Observed(i, t) == latest[i].at = t
Taken(i, t) == pager[i].at >= t
=============================================================================
