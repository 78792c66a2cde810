---------------------------- MODULE MCCrawlAlerts ----------------------------
(***************************************************************************)
(* Three settings of the crawls; the first state says which.  Readings     *)
(* have counts on either side of a threshold, and a type that falls out of *)
(* the five a snapshot keeps.                                              *)
(***************************************************************************)
EXTENDS CrawlAlerts

CONSTANTS loop, m1, w1, absent
VARIABLE setting
mcVars == <<setting, crawlVars>>

MCCount == [field |-> "count", op |-> "gt", threshold |-> 1]
MCType == [field |-> "type", op |-> "gte", threshold |-> 1]
MCLow == [field |-> "count", op |-> "lte", threshold |-> 0]
AllKinds == {MCCount, MCType, MCLow}

Reading(c, t) == [count |-> c, type |-> t]
TwoReadings == {Reading(0, absent), Reading(2, 1)}
LowReadings == {Reading(0, absent), Reading(1, 1)}
AllReadings == TwoReadings \cup LowReadings

Says(recovery, cooldown) == [recovery |-> recovery, cooldown |-> cooldown]
AllConfigs == {Says(TRUE, 0), Says(TRUE, 2), Says(FALSE, 0)}

\* One trigger that stands through many crawls.
Standing == INSTANCE CrawlAlerts WITH
  Kinds <- {MCCount}, Readings <- TwoReadings, Configs <- {Says(TRUE, 2)}, Faults <- {"database"}

\* Two triggers of two other kinds, every other fault.
Faulty == INSTANCE CrawlAlerts WITH
  Kinds <- {MCLow, MCType}, Readings <- LowReadings, Configs <- {Says(FALSE, 0)},
  Faults <- {"feed", "disk", "network", "crash"}, MaxFetches <- 2, MaxEvents <- 2

\* Two triggers of two kinds in a process that lives on.
Lasting == INSTANCE CrawlAlerts WITH
  Kinds <- {MCCount, MCType}, Readings <- TwoReadings, Configs <- {Says(TRUE, 0)},
  Faults <- {"feed", "disk"}, MaxFetches <- 2, MaxEvents <- 2

MCInit ==
  \/ setting = "standing" /\ Standing!CrawlInit
  \/ setting = "faulty" /\ Faulty!CrawlInit
  \/ setting = "lasting" /\ Lasting!CrawlInit

MCNext ==
  \/ setting = "standing" /\ Standing!CrawlNext /\ nextId' <= 2 /\ UNCHANGED setting
  \/ setting = "faulty" /\ Faulty!CrawlNext /\ UNCHANGED setting
  \/ setting = "lasting" /\ Lasting!CrawlNext /\ UNCHANGED setting

\* A thread that has begun a crawl goes on with it.
MCSpec ==
  /\ MCInit /\ [][MCNext]_mcVars
  /\ \A j \in Jobs : WF_mcVars(setting = "lasting" /\ Lasting!Crawl(j) /\ UNCHANGED setting)
-----------------------------------------------------------------------------
\* A crawl whose transaction committed has each of its observations taken or
\* overtaken by the pager.
EveryObservationCounts == \A i \in Ids, t \in 1..2 :
  setting = "lasting" /\ Observed(i, t) ~> (setting = "lasting" => Taken(i, t))
=============================================================================
