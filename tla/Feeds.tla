-------------------------------- MODULE Feeds --------------------------------
(***************************************************************************)
(* One exchange feed: the session loop of connector_runtime.ml, an Lwt     *)
(* fiber, with the state machine of connection_supervisor.ml and the       *)
(* quality gate of data_quality.ml.  Between two waits the fiber runs      *)
(* undisturbed, so an action goes from one wait to the next.  Timers count *)
(* down in ticks; a timer that has run out stays at zero.                  *)
(***************************************************************************)
EXTENDS Integers, FiniteSets

CONSTANTS Threshold, OpenFor,       \* circuit breaker
          MaxBackoff, ConnectTimeout, DedupWindow,
          LastId, MaxDrops,         \* bounds: trade ids are 0 .. LastId
          Trials                    \* frames of data and outages allowed

ASSUME FeedAssumption ==
  /\ {Threshold, OpenFor, MaxBackoff, ConnectTimeout, DedupWindow}
       \subseteq Nat \ {0}
  /\ {LastId, MaxDrops} \subseteq Nat
  /\ Trials \subseteq [frames : Nat, outages : Nat, endpoint : BOOLEAN]

(* The capped counter has room for every gap the ids can have.             *)
ASSUME DropsAssumption == LastId <= 2 * MaxDrops + 1

VARIABLES
  trial,      \* constant: the bounds, and whether an endpoint is configured
  reachable, outages,   \* the exchange, as seen from here
  stopping,   \* the host's stop promise is resolved
  at,         \* what the fiber waits for
  timer,      \* ticks left of connect's timeout
  link,       \* the supervisor's state and its next_at or until, in ticks
  failures,   \* consecutive_failures
  alertAge,   \* age of the last alert of each code, up to DedupWindow
  quality,    \* Data_quality.t for one symbol
  drops, criticalDrops, \* the feed's drop counter and the supervisor's
  accepted,   \* events, and gaps among them, the bus accepted (history)
  seen,       \* first trade id, and trades that were newer than all before
  burst       \* failures since the last success or pause, age of the last

linkVars == <<link, failures, alertAge, criticalDrops>>
dataVars == <<quality, drops, seen>>
feedVars == <<trial, reachable, outages, stopping, at, timer, linkVars,
              dataVars, accepted, burst>>

Codes == {"CIRCUIT_OPEN", "RECONNECT"}
NoTrade == -1
Least(a, b) == IF a < b THEN a ELSE b

(* note_critical_drop; the counter of the model stops at MaxDrops. *)
CriticalDropped(n) == Least(criticalDrops + n, MaxDrops)

-----------------------------------------------------------------------------
(* Connection_supervisor *)

Link(state, until) == [state |-> state, until |-> until]

(* backoff_with_jitter: a quarter either way, a tick at least.             *)
Backoff(n) ==
  LET capped == Least(2 ^ n, MaxBackoff)
      quarter == capped \div 4
  IN  {d \in capped - quarter .. capped + quarter : d >= 1}

(* publish_critical_dedup: the age is noted whether or not the bus takes   *)
(* the alert.                                                              *)
Alert(code) ==
  IF alertAge[code] < DedupWindow THEN UNCHANGED <<alertAge, criticalDrops>>
  ELSE /\ alertAge' = [alertAge EXCEPT ![code] = 0]
       /\ \E refused \in 0 .. 1 : criticalDrops' = CriticalDropped(refused)

(* Wrong variant: off by one. *)
BreaksLate(n) == n > Threshold
Breaks(n) == n >= Threshold

(* History: failures in a row without a pause as long as an open circuit.  *)
Burst == IF burst.age >= OpenFor THEN 0 ELSE burst.n

(* note_failure, when there were n failures before: back off or break.     *)
NoteFailure(n) ==
  /\ failures' = n + 1
  /\ IF Breaks(n + 1)
     THEN link' = Link("Open_circuit", OpenFor) /\ Alert("CIRCUIT_OPEN")
     ELSE /\ \E d \in Backoff(n + 1) : link' = Link("Reconnecting", d)
          /\ Alert("RECONNECT")
  /\ burst' = [n |-> Burst + 1, age |-> 0]

(* Back to the top of session_loop, where there is now time to wait.       *)
SessionFailed == /\ NoteFailure(failures)
                 /\ at' = IF stopping THEN "done" ELSE "timer"

-----------------------------------------------------------------------------
(* Data_quality and the gate.  publish_or_drop counts what the bus refuses.*)

(* Wrong variant: an older id is taken for the newest. *)
OlderIsNewest(id) == FALSE

OutOfOrder(id) == quality.last > id

(* check_trade_print: the gap before an id, zero when there is none.       *)
GapBefore(id) ==
  IF quality.last = NoTrade \/ id <= quality.last THEN 0 ELSE id - quality.last - 1

Checked(id) ==
  IF OutOfOrder(id)
  THEN [quality EXCEPT !.observed = @ + 1, !.late = @ + 1]
  ELSE [quality EXCEPT !.observed = @ + 1, !.last = id,
                       !.gaps = IF GapBefore(id) > 0 THEN @ + 1 ELSE @,
                       !.lost = @ + GapBefore(id)]

(* Wrong variant: the supervisor is not told of a lost gap. *)
PublishedSilently(others, gap) ==
  \E ok \in 0 .. others, told \in 0 .. gap :
    /\ accepted' = [all |-> accepted.all + ok + told, gaps |-> accepted.gaps + told]
    /\ drops' = drops + (others - ok) + (gap - told)
    /\ UNCHANGED criticalDrops

(* Publishing some events in the high and normal bands, and maybe a gap.   *)
Published(others, gap) ==
  \E ok \in 0 .. others, told \in 0 .. gap :
    /\ accepted' = [all |-> accepted.all + ok + told, gaps |-> accepted.gaps + told]
    /\ drops' = drops + (others - ok) + (gap - told)
    /\ criticalDrops' = CriticalDropped(gap - told)

(* A trade: its gap is told first, in the critical band; one that is out   *)
(* of order is told of and published all the same.                         *)
Trade(id) ==
  /\ quality' = Checked(id)
  /\ Published(IF OutOfOrder(id) THEN 2 ELSE 1,
               IF ~OutOfOrder(id) /\ GapBefore(id) > 0 THEN 1 ELSE 0)
  /\ seen' = [first |-> IF quality.last = NoTrade THEN id ELSE seen.first,
              newer |-> IF id > quality.last THEN seen.newer + 1 ELSE seen.newer]

(* A quote: published when it is good, told of instead when it is crossed. *)
(* Its age is measured against the monotonic clock and is never too great. *)
Quote(verdict) ==
  /\ quality' = [quality EXCEPT !.observed = @ + 1,
                                !.bad = IF verdict = "ok" THEN @ ELSE @ + 1]
  /\ Published(1, 0)
  /\ UNCHANGED seen

-----------------------------------------------------------------------------
(* The session loop. *)

FeedInit ==
  /\ trial \in Trials
  /\ reachable = TRUE /\ outages = 0 /\ stopping = FALSE
  /\ at = "timer" /\ timer = 0
  /\ link = Link("Connecting", 0) /\ failures = 0
  /\ alertAge = [c \in Codes |-> DedupWindow]
  /\ quality = [last |-> NoTrade, observed |-> 0, gaps |-> 0, lost |-> 0, late |-> 0, bad |-> 0]
  /\ drops = 0 /\ criticalDrops = 0
  /\ accepted = [all |-> 0, gaps |-> 0]
  /\ seen = [first |-> NoTrade, newer |-> 0]
  /\ burst = [n |-> 0, age |-> OpenFor]

world == <<trial, reachable, outages, stopping>>

(* Wrong variant: an open circuit is never closed. *)
ReadyUnlessOpen == link.until = 0 /\ link.state # "Open_circuit"

(* is_ready_to_attempt *)
Ready == link.until = 0

(* poll_ready_to_attempt closes the circuit; then note_attempt, connect.   *)
Attempt ==
  /\ at = "timer" /\ ~stopping /\ Ready /\ trial.endpoint
  /\ failures' = IF link.state = "Open_circuit" THEN 0 ELSE failures
  /\ link' = Link("Connecting", 0)
  /\ at' = "connect" /\ timer' = ConnectTimeout
  /\ burst' = [n |-> Burst, age |-> 0]
  /\ UNCHANGED <<world, alertAge, criticalDrops, dataVars, accepted>>

(* pick_endpoint fails: a failure like any other, once the circuit is      *)
(* polled.                                                                 *)
NoEndpoint ==
  /\ at = "timer" /\ ~stopping /\ Ready /\ ~trial.endpoint
  /\ NoteFailure(IF link.state = "Open_circuit" THEN 0 ELSE failures)
  /\ UNCHANGED <<world, at, timer, dataVars, accepted>>

(* An exchange that cannot be reached refuses, or does not answer until    *)
(* the timeout.                                                            *)
ConnectFails ==
  /\ at = "connect" /\ ~reachable
  /\ SessionFailed
  /\ timer' = 0
  /\ UNCHANGED <<world, dataVars, accepted>>

ConnectSucceeds ==
  /\ at = "connect" /\ reachable
  /\ link' = Link("Connected", 0) /\ failures' = 0
  /\ at' = "subscribe" /\ timer' = 0
  /\ burst' = [burst EXCEPT !.n = 0]
  /\ UNCHANGED <<world, alertAge, criticalDrops, dataVars, accepted>>

(* read_loop looks at stop before it reads. *)
Subscribed ==
  /\ at = "subscribe" /\ reachable
  /\ at' = IF stopping THEN "close" ELSE "frame"
  /\ UNCHANGED <<world, timer, linkVars, dataVars, accepted, burst>>

SubscribeFails ==
  /\ at = "subscribe" /\ ~reachable
  /\ SessionFailed
  /\ UNCHANGED <<world, timer, dataVars, accepted>>

(* handle_frame: data; *)
DataFrame ==
  /\ at = "frame" /\ ~stopping /\ reachable
  /\ quality.observed < trial.frames
  /\ \/ \E id \in 0 .. LastId : Trade(id)
     \/ \E verdict \in {"ok", "crossed"} : Quote(verdict)
  /\ UNCHANGED <<world, at, timer, link, failures, alertAge, burst>>

(* pings and the like; *)
OtherFrame ==
  /\ at = "frame" /\ ~stopping /\ reachable
  /\ UNCHANGED <<world, at, timer, linkVars, dataVars, accepted, burst>>

(* the connection is closed, or reading or parsing raises.                 *)
SessionEnds ==
  /\ at = "frame"
  /\ at' = "close"
  /\ UNCHANGED <<world, timer, linkVars, dataVars, accepted, burst>>

SessionClosed ==
  /\ at = "close"
  /\ IF stopping THEN at' = "done" /\ UNCHANGED <<linkVars, burst>>
     ELSE SessionFailed
  /\ UNCHANGED <<world, timer, dataVars, accepted>>

(* stop wakes the sleep before an attempt and the read of a frame.         *)
StopWakes ==
  /\ stopping /\ at \in {"timer", "frame"}
  /\ at' = IF at = "timer" THEN "done" ELSE "close"
  /\ UNCHANGED <<world, timer, linkVars, dataVars, accepted, burst>>

(* The world: a stop, outages, time.  A reachable exchange answers before  *)
(* the connect timeout.                                                    *)
AskToStop == /\ ~stopping /\ stopping' = TRUE
             /\ UNCHANGED <<trial, reachable, outages, at, timer, linkVars, dataVars,
                            accepted, burst>>

Outage == /\ IF reachable THEN outages < trial.outages /\ outages' = outages + 1
             ELSE UNCHANGED outages
          /\ reachable' = ~reachable
          /\ UNCHANGED <<trial, stopping, at, timer, linkVars, dataVars, accepted, burst>>

Older(age, cap) == Least(age + 1, cap)
Down(t) == IF t > 0 THEN t - 1 ELSE 0

Time ==
  /\ at # "done"
  /\ at = "connect" => timer > 0
  /\ timer' = Down(timer)
  /\ link' = [link EXCEPT !.until = Down(@)]
  /\ alertAge' = [c \in Codes |-> Older(alertAge[c], DedupWindow)]
  /\ burst' = [burst EXCEPT !.age = Older(@, OpenFor)]
  /\ UNCHANGED <<world, at, failures, criticalDrops, dataVars, accepted>>

Fiber == \/ Attempt \/ NoEndpoint \/ ConnectFails \/ ConnectSucceeds
         \/ Subscribed \/ SubscribeFails \/ SessionClosed \/ StopWakes
FeedNext == Fiber \/ DataFrame \/ OtherFrame \/ SessionEnds \/ AskToStop \/ Outage \/ Time

FeedSpec == FeedInit /\ [][FeedNext]_feedVars /\ WF_feedVars(Fiber) /\ WF_feedVars(Time)

-----------------------------------------------------------------------------
(* data_quality.mli: what the detector calls dropped is what is missing    *)
(* from the ids seen, whatever comes late, twice or after a reconnect.     *)
GapsAddUp ==
  quality.last # NoTrade =>
    quality.lost = quality.last - seen.first + 1 - seen.newer

(* Each payload makes one event, an out-of-order trade and a gap one more; *)
(* every event is on the bus or in drop_counter, and a gap that is not on  *)
(* the bus is in the supervisor's critical_drops.                          *)
EveryEventIsCounted ==
  /\ accepted.all + drops = quality.observed + quality.late + quality.gaps
  /\ quality.gaps - accepted.gaps <= criticalDrops

(* What the feed lost and what it delivered add up, gaps and events.       *)
FeedAddsUp == GapsAddUp /\ EveryEventIsCounted

(* The circuit breaker: no more than Threshold failures in a row without a *)
(* pause of circuit_open_ms, be it in connecting or subscribing.           *)
BreakerHolds == burst.n <= Threshold
=============================================================================
