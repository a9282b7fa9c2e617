------------------------------ MODULE Ingestion ------------------------------
(***************************************************************************)
(* ingestion_supervisor.ml: the feed of Feeds as a fiber of a host, beside *)
(* the fiber that publishes its counters for other Domains and the other   *)
(* fibers of the process.  Until the host runs the feed stands still; its  *)
(* stop promise is the host's.                                             *)
(***************************************************************************)
EXTENDS Feeds, LwtHost

CONSTANTS Host,       \* the host that ingestion is attached to
          Scenarios   \* a trial of the feed with a program that uses it

ASSUME HostAssumption ==
  /\ Host \in Hosts /\ Scenarios \subseteq Trials \X Programs
  /\ \A s \in Scenarios : "connectors" \in s[2].fibers[Host]

VARIABLES
  counted,      \* critical_drops_table: the supervisor's counter, at the end
  live          \* the immutable snapshot published last

ingestVars == <<feedVars, hostVars, counted, live>>

(* snapshot_now: the drop counter, the table's entry and the mirror.       *)
Snapshot(critical) ==
  [drops |-> drops, critical |-> critical,
   link |-> IF domain[Host] = "none" THEN "none" ELSE link.state]

Final == [drops |-> drops, critical |-> criticalDrops, link |-> link.state]

(* stats_publisher: every 250 ms, and once more when it is woken to stop.  *)
PublishStats ==
  /\ Runs(Host, "stats")
  /\ live' = Snapshot(counted)
  /\ IF told[Host] THEN FiberEnds(Host, "stats") ELSE UNCHANGED hostVars
  /\ UNCHANGED <<feedVars, counted>>

(* connectors: when the session loop has returned, its supervisor's count  *)
(* is written down and the last snapshot taken.                            *)
ConnectorsUncounted ==                                      \* a wrong variant
  /\ at = "done" /\ FiberEnds(Host, "connectors")
  /\ counted' = criticalDrops /\ live' = Snapshot(counted)
  /\ UNCHANGED feedVars
ConnectorsEnd ==
  /\ at = "done" /\ FiberEnds(Host, "connectors")
  /\ counted' = criticalDrops /\ live' = Snapshot(criticalDrops)
  /\ UNCHANGED feedVars

(* The others have no state of their own: they end when they are told to;  *)
(* and one may raise, or return, at any time.                              *)
OtherEnds(h, f) ==
  /\ ~(h = Host /\ f \in {"connectors", "stats"})
  /\ FiberEnds(h, f)
  /\ UNCHANGED <<feedVars, counted, live>>

-----------------------------------------------------------------------------
(* telemetry's health of the feed, as bin/algostream.ml reads it from the  *)
(* snapshot.  How long a connected feed has been silent is left out.       *)
Health(s) == IF s.critical > 0 \/ s.link = "Open_circuit" THEN "failed"
             ELSE IF s.link = "Connected" THEN "ok" ELSE "degraded"

IngestInit ==
  /\ FeedInit /\ HostInit /\ <<trial, program>> \in Scenarios
  /\ counted = 0 /\ live = Snapshot(0)

(* The watcher resolves the promise the feed looks at.                     *)
Told(h) ==
  /\ Watch(h)
  /\ IF h = Host THEN AskToStop ELSE UNCHANGED feedVars
  /\ UNCHANGED <<counted, live>>

FeedStep == /\ Runs(Host, "connectors")
            /\ Fiber \/ DataFrame \/ OtherFrame \/ SessionEnds \/ Outage \/ Time
            /\ UNCHANGED <<hostVars, counted, live>>

HostStep == /\ Calls \/ \E h \in Hosts : Scheduler(h)
            /\ UNCHANGED <<feedVars, counted, live>>

IngestNext ==
  \/ FeedStep \/ HostStep \/ PublishStats \/ ConnectorsEnd
  \/ \E h \in Hosts : Told(h) \/ \E f \in Fibers : OtherEnds(h, f)

(* The programs need not stop a host nor start one; the calls they make go *)
(* on, and a Domain that runs serves timers, promises and fibers.          *)
FeedFiber == Runs(Host, "connectors") /\ Fiber /\ UNCHANGED <<hostVars, counted, live>>
FeedTime == Runs(Host, "connectors") /\ Time /\ UNCHANGED <<hostVars, counted, live>>
Called == (Starting \/ Stopping) /\ UNCHANGED <<feedVars, counted, live>>

IngestFairness ==
  /\ WF_ingestVars(FeedFiber) /\ WF_ingestVars(FeedTime)
  /\ WF_ingestVars(PublishStats) /\ WF_ingestVars(ConnectorsEnd)
  /\ WF_ingestVars(Called)
  /\ \A h \in Hosts :
       /\ WF_ingestVars(Told(h))
       /\ WF_ingestVars(Scheduler(h) /\ UNCHANGED <<feedVars, counted, live>>)
       /\ \A f \in Fibers : WF_ingestVars(told[h] /\ OtherEnds(h, f))

IngestSpec == IngestInit /\ [][IngestNext]_ingestVars /\ IngestFairness

-----------------------------------------------------------------------------
(* "Signal every fiber to stop, then join the Domain", "returns the final  *)
(* stats snapshot": when a stop has returned, the Domain is gone and what  *)
(* live_stats answers is what the feed counted, whoever of its fibers came *)
(* last; and no two Domains are ever inside Lwt_main.run.                  *)
StopLeavesNothingBehind ==
  /\ \A h \in Hosts : joined[h] /\ ~(caller.host = h /\ ~At("idle")) =>
       /\ domain[h] # "running"
       /\ h = Host /\ domain[h] = "ended" => live = Final
  /\ \A g, h \in Hosts : domain[g] = "running" /\ domain[h] = "running" => g = h

(* An exchange that can be reached for good is in the end read from, again *)
(* and again, whatever went before: no state of the breaker is final.  And *)
(* every stop returns, whatever the fibers are waiting for.                *)
FeedNeverHangs ==
  /\ <>[](Runs(Host, "connectors") /\ trial.endpoint /\ reachable /\ ~stopping)
       => []<>(at = "frame")
  /\ At("flag") ~> At("idle")

(* docs/guides/telemetry.md: ingestion is failed on "any critical_drops".  *)
(* Here: each time the counters are published.                             *)
AnyCriticalDropFails ==
  [][PublishStats /\ criticalDrops > 0 => Health(live') = "failed"]_ingestVars
=============================================================================
