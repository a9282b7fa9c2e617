-------------------------- MODULE Ingestion_proofs --------------------------
(***************************************************************************)
(* The books of a feed and its circuit breaker, for every threshold, pause *)
(* and range of trade ids; then the host's guard and the last snapshot,    *)
(* for every number of hosts and fibers and every program that starts no   *)
(* stopped host; and what holds of the feed while the host runs it.        *)
(*                                                                         *)
(* The feed's two invariants do not meet: what touches the data leaves the *)
(* breaker alone and the other way round, except that an alert the bus     *)
(* refuses is a critical drop as well.                                     *)
(***************************************************************************)
EXTENDS Ingestion, TLAPS

QualityType == [last : Int, observed : Nat, gaps : Nat, lost : Int, late : Nat, bad : Nat]

(* No trade has been seen and nothing is missing, or a gap has cost two    *)
(* ids at least; with that no gap meets a full counter of drops.           *)
DataInv ==
  /\ quality \in QualityType
  /\ NoTrade <= quality.last /\ quality.last <= LastId
  /\ drops \in Int /\ criticalDrops \in 0 .. MaxDrops
  /\ accepted \in [all : Int, gaps : Nat]
  /\ seen \in [first : Int, newer : Int]
  /\ quality.last = NoTrade => quality.gaps = 0 /\ quality.lost = 0 /\ seen.newer = 0
  /\ quality.last # NoTrade => 2 * quality.gaps <= quality.last
  /\ GapsAddUp /\ EveryEventIsCounted

(* The failures counted since the last success or pause never outnumber    *)
(* the supervisor's own count; and a circuit that is about to be tried     *)
(* again has been open so long that the count starts afresh.               *)
BreakerInv ==
  /\ burst \in [n : Nat, age : 0 .. OpenFor] /\ failures \in Nat
  /\ link = [state |-> link.state, until |-> link.until]
  /\ IF link.state = "Open_circuit"
     THEN /\ at \in {"timer", "done"}
          /\ link.until \in Nat /\ link.until + burst.age >= OpenFor
          /\ burst.n <= Threshold
     ELSE failures < Threshold /\ burst.n <= failures

-----------------------------------------------------------------------------
(* Publishing accounts for every event, a lost gap in both counters.       *)
LEMMA PublishedAccounts ==
  ASSUME DataInv, NEW others \in Nat, NEW gap \in 0 .. 1, Published(others, gap)
  PROVE  /\ drops' \in Int /\ criticalDrops' \in 0 .. MaxDrops /\ accepted' \in [all : Int, gaps : Nat]
         /\ accepted'.all + drops' = accepted.all + drops + others + gap
         /\ quality.gaps + gap <= MaxDrops =>
              quality.gaps + gap - accepted'.gaps <= criticalDrops'
<1>1. PICK ok \in 0 .. others, heard \in 0 .. gap :
        /\ accepted' = [all |-> accepted.all + ok + heard, gaps |-> accepted.gaps + heard]
        /\ drops' = drops + (others - ok) + (gap - heard)
        /\ criticalDrops' = CriticalDropped(gap - heard)
  BY DEF Published
<1>2. ok \in Int /\ heard \in {0, 1} /\ heard <= gap
  OBVIOUS
<1>3. accepted.all \in Int /\ accepted.gaps \in Nat /\ drops \in Int /\ quality.gaps \in Nat
        /\ criticalDrops \in 0 .. MaxDrops /\ quality.gaps - accepted.gaps <= criticalDrops
  BY DEF DataInv, QualityType, EveryEventIsCounted
<1>4. accepted'.all = accepted.all + ok + heard /\ accepted'.gaps = accepted.gaps + heard
        /\ accepted' \in [all : Int, gaps : Nat]
  BY <1>1, <1>2, <1>3
<1>5. criticalDrops' = IF criticalDrops + (gap - heard) < MaxDrops THEN criticalDrops + (gap - heard) ELSE MaxDrops
  BY <1>1 DEF CriticalDropped, Least
<1>6. MaxDrops \in Nat /\ others \in Int /\ gap \in Int
  BY FeedAssumption
<1>7. drops' \in Int /\ accepted'.all + drops' = accepted.all + drops + others + gap
  BY <1>1, <1>2, <1>3, <1>4, <1>6
<1>8. criticalDrops' \in 0 .. MaxDrops
  BY <1>2, <1>3, <1>5, <1>6
<1>9. ASSUME quality.gaps + gap <= MaxDrops PROVE quality.gaps + gap - accepted'.gaps <= criticalDrops'
  BY <1>2, <1>3, <1>4, <1>5, <1>6, <1>9
<1> QED BY <1>4, <1>7, <1>8, <1>9

LEMMA DataFrameKeepsBooks == ASSUME DataInv, DataFrame PROVE DataInv'
<1>1. ASSUME NEW id \in 0 .. LastId, Trade(id) PROVE DataInv'
  <2> DEFINE late == OutOfOrder(id)
             gap == IF ~late /\ GapBefore(id) > 0 THEN 1 ELSE 0
             others == IF late THEN 2 ELSE 1
  <2>1. /\ quality.last \in Int /\ quality.gaps \in Nat /\ quality.lost \in Int /\ quality.observed \in Nat
        /\ quality.late \in Nat /\ seen.first \in Int /\ seen.newer \in Int /\ id \in Int /\ LastId \in Nat
        /\ 0 <= id /\ id <= LastId /\ quality.last >= -1 /\ MaxDrops \in Nat
    BY FeedAssumption DEF DataInv, QualityType, NoTrade
  <2>2. Published(others, gap)
    BY <1>1 DEF Trade
  <2>3. others \in Nat /\ gap \in 0 .. 1
    OBVIOUS
  <2>4. seen' = [first |-> IF quality.last = NoTrade THEN id ELSE seen.first,
                 newer |-> IF id > quality.last THEN seen.newer + 1 ELSE seen.newer]
    BY <1>1 DEF Trade
  <2>5. CASE late
    <3>1. quality' = [quality EXCEPT !.observed = @ + 1, !.late = @ + 1]
      BY <1>1, <2>5 DEF Trade, Checked
    <3>2. /\ quality'.last = quality.last /\ quality'.gaps = quality.gaps /\ quality'.lost = quality.lost
          /\ quality'.observed = quality.observed + 1 /\ quality'.late = quality.late + 1
          /\ quality' \in QualityType
      <4>1. quality \in QualityType /\ quality.observed + 1 \in Nat /\ quality.late + 1 \in Nat
        BY <2>1 DEF DataInv
      <4> DEFINE o == quality.observed + 1
                 t == quality.late + 1
      <4>2. quality' = [quality EXCEPT !.observed = o, !.late = t] /\ o \in Nat /\ t \in Nat
        BY <3>1, <4>1
      <4> HIDE DEF o, t
      <4>3. /\ quality'.last = quality.last /\ quality'.gaps = quality.gaps /\ quality'.lost = quality.lost
            /\ quality'.observed = o /\ quality'.late = t /\ quality' \in QualityType
        BY <4>1, <4>2 DEF QualityType
      <4> QED BY <4>3 DEF o, t
    <3>3. id < quality.last /\ quality.last # NoTrade
      BY <2>1, <2>5 DEF OutOfOrder, NoTrade
    <3>4. seen' = seen
      BY <2>1, <2>4, <3>3 DEF DataInv
    <3>5. quality.gaps + gap <= MaxDrops
      BY <2>1, <2>5, <3>3, DropsAssumption DEF DataInv
    <3> QED BY <2>1, <2>2, <2>3, <2>5, <3>2, <3>3, <3>4, <3>5, PublishedAccounts
            DEF DataInv, GapsAddUp, EveryEventIsCounted
  <2>6. CASE ~late
    <3>1. GapBefore(id) \in Nat
      BY <2>1 DEF GapBefore
    <3>2. quality' = [quality EXCEPT !.observed = quality.observed + 1, !.last = id,
                                     !.gaps = quality.gaps + gap, !.lost = quality.lost + GapBefore(id)]
      <4>1. quality.gaps + 0 = quality.gaps
        BY <2>1
      <4>2. CASE GapBefore(id) > 0
        BY <1>1, <2>6, <4>2 DEF Trade, Checked
      <4>3. CASE ~(GapBefore(id) > 0)
        BY <1>1, <2>6, <4>1, <4>3 DEF Trade, Checked
      <4> QED BY <4>2, <4>3
    <3>3. /\ quality'.last = id /\ quality'.gaps = quality.gaps + gap /\ quality'.lost = quality.lost + GapBefore(id)
          /\ quality'.observed = quality.observed + 1 /\ quality'.late = quality.late
          /\ quality' \in QualityType
      <4>1. quality \in QualityType /\ quality.observed + 1 \in Nat /\ quality.gaps + gap \in Nat
             /\ quality.lost + GapBefore(id) \in Int
        BY <2>1, <2>3, <3>1 DEF DataInv
      <4> DEFINE o == quality.observed + 1
                 g == quality.gaps + gap
                 l == quality.lost + GapBefore(id)
      <4>2. quality' = [quality EXCEPT !.observed = o, !.last = id, !.gaps = g, !.lost = l]
              /\ o \in Nat /\ g \in Nat /\ l \in Int
        BY <3>2, <4>1
      <4> HIDE DEF o, g, l
      <4>3. /\ quality'.last = id /\ quality'.gaps = g /\ quality'.lost = l
            /\ quality'.observed = o /\ quality'.late = quality.late /\ quality' \in QualityType
        BY <2>1, <4>1, <4>2 DEF QualityType
      <4> QED BY <4>3 DEF o, g, l
    <3>4. quality.last <= id
      BY <2>1, <2>6 DEF OutOfOrder
    <3>5. 2 * (quality.gaps + gap) <= id
      BY <2>1, <2>6, <3>4 DEF DataInv, GapBefore, NoTrade
    <3>6. quality.gaps + gap <= MaxDrops
      BY <2>1, <2>3, <3>5, DropsAssumption
    <3>7. seen' \in [first : Int, newer : Int] /\ GapsAddUp'
      BY <2>1, <2>4, <3>3, <3>4, SMTT(30) DEF DataInv, GapsAddUp, GapBefore, NoTrade
    <3>8. EveryEventIsCounted'
      <4>1. others = 1 /\ accepted'.all \in Int /\ drops' \in Int /\ accepted.all \in Int /\ drops \in Int
              /\ accepted'.gaps \in Nat /\ criticalDrops' \in Int
        BY <2>2, <2>3, <2>6, FeedAssumption, PublishedAccounts DEF DataInv
      <4>2. accepted'.all + drops' = accepted.all + drops + 1 + gap
        BY <2>2, <2>3, <4>1, PublishedAccounts
      <4>3. quality.gaps + gap - accepted'.gaps <= criticalDrops'
        BY <2>2, <2>3, <3>6, PublishedAccounts
      <4>4. accepted.all + drops = quality.observed + quality.late + quality.gaps
        BY DEF DataInv, EveryEventIsCounted
      <4>5. gap \in Int
        BY <2>3
      <4> HIDE DEF gap, others
      <4>6. accepted'.all + drops' = quality'.observed + quality'.late + quality'.gaps
        BY <2>1, <3>3, <4>1, <4>2, <4>4, <4>5
      <4>7. quality'.gaps - accepted'.gaps <= criticalDrops'
        BY <2>1, <3>3, <4>1, <4>3, <4>5
      <4> QED BY <4>6, <4>7 DEF EveryEventIsCounted
    <3> QED BY <2>1, <2>2, <2>3, <3>3, <3>5, <3>7, <3>8, PublishedAccounts DEF DataInv, NoTrade
  <2> QED BY <2>5, <2>6
<1>2. ASSUME NEW verdict \in {"ok", "crossed"}, Quote(verdict) PROVE DataInv'
  <2>1. PICK bad \in Nat : quality' = [quality EXCEPT !.observed = quality.observed + 1, !.bad = bad]
    <3>1. quality.bad \in Nat /\ quality.bad + 1 \in Nat
      BY DEF DataInv, QualityType
    <3>2. CASE verdict = "ok"
      BY <1>2, <3>1, <3>2 DEF Quote
    <3>3. CASE verdict # "ok"
      BY <1>2, <3>1, <3>3 DEF Quote
    <3> QED BY <3>2, <3>3
  <2>2. /\ quality'.last = quality.last /\ quality'.gaps = quality.gaps /\ quality'.lost = quality.lost
        /\ quality'.observed = quality.observed + 1 /\ quality'.late = quality.late
        /\ quality' \in QualityType
    <3>1. quality \in QualityType /\ quality.observed + 1 \in Nat
      BY DEF DataInv, QualityType
    <3> DEFINE o == quality.observed + 1
    <3>2. quality' = [quality EXCEPT !.observed = o, !.bad = bad] /\ o \in Nat
      BY <2>1, <3>1
    <3> HIDE DEF o
    <3>3. /\ quality'.last = quality.last /\ quality'.gaps = quality.gaps /\ quality'.lost = quality.lost
          /\ quality'.observed = o /\ quality'.late = quality.late /\ quality' \in QualityType
      BY <3>1, <3>2 DEF QualityType
    <3> QED BY <3>3 DEF o
  <2>3. quality.gaps + 0 <= MaxDrops
    BY FeedAssumption, DropsAssumption DEF DataInv, QualityType, NoTrade
  <2>4. seen' = seen /\ Published(1, 0)
    BY <1>2 DEF Quote
  <2> QED BY <2>2, <2>3, <2>4, PublishedAccounts DEF DataInv, QualityType, GapsAddUp, EveryEventIsCounted
<1> QED BY <1>1, <1>2 DEF DataFrame

(* Every other step leaves the data alone, and an alert only adds to the   *)
(* critical drops.                                                         *)
LEMMA NoticesKeepBooks ==
  ASSUME DataInv, UNCHANGED <<dataVars, accepted>>,
         criticalDrops' = criticalDrops \/ \E refused \in 0 .. 1 : criticalDrops' = CriticalDropped(refused)
  PROVE  DataInv'
<1>1. criticalDrops' \in 0 .. MaxDrops /\ criticalDrops' >= criticalDrops
  BY FeedAssumption DEF DataInv, CriticalDropped, Least
<1>2. quality' = quality /\ drops' = drops /\ seen' = seen /\ accepted' = accepted
  BY DEF dataVars
<1>3. quality.gaps - accepted.gaps <= criticalDrops /\ quality.gaps \in Nat /\ accepted.gaps \in Nat
        /\ criticalDrops \in Int /\ criticalDrops' \in Int
  BY <1>1, FeedAssumption DEF DataInv, QualityType, EveryEventIsCounted
<1>4. quality.gaps - accepted.gaps <= criticalDrops'
  BY <1>1, <1>3
<1>5. EveryEventIsCounted'
  BY <1>2, <1>4 DEF DataInv, EveryEventIsCounted
<1> QED BY <1>1, <1>2, <1>5 DEF DataInv, GapsAddUp
LEMMA FeedOpensBooks == FeedInit => DataInv
  BY FeedAssumption DEF FeedInit, DataInv, QualityType, NoTrade, GapsAddUp, EveryEventIsCounted

LEMMA FeedKeepsBooks == ASSUME DataInv, [FeedNext]_feedVars PROVE DataInv'
<1>1. ASSUME NEW n, NoteFailure(n), UNCHANGED <<dataVars, accepted>> PROVE DataInv'
  BY <1>1, NoticesKeepBooks DEF NoteFailure, Alert
<1>2. CASE DataFrame
  BY <1>2, DataFrameKeepsBooks
<1>3. CASE NoEndpoint \/ ConnectFails \/ SubscribeFails
  BY <1>1, <1>3 DEF NoEndpoint, ConnectFails, SubscribeFails, SessionFailed
<1>4. CASE SessionClosed
  <2>1. CASE stopping
    BY <1>4, <2>1, NoticesKeepBooks DEF SessionClosed, linkVars
  <2>2. CASE ~stopping
    BY <1>1, <1>4, <2>2 DEF SessionClosed, SessionFailed
  <2> QED BY <2>1, <2>2
<1>5. CASE \/ Attempt \/ ConnectSucceeds \/ Subscribed \/ StopWakes
           \/ OtherFrame \/ SessionEnds \/ AskToStop \/ Outage \/ Time \/ UNCHANGED feedVars
  BY <1>5, NoticesKeepBooks DEF Attempt, ConnectSucceeds, Subscribed, StopWakes, OtherFrame, SessionEnds,
                                AskToStop, Outage, Time, feedVars, linkVars
<1> QED BY <1>2, <1>3, <1>4, <1>5 DEF FeedNext, Fiber

(* What the detector calls lost is what is missing from the ids seen, for  *)
(* every range of ids and every trial.                                     *)
THEOREM DataInvariant == FeedSpec => []DataInv
<1> QED BY FeedOpensBooks, FeedKeepsBooks, PTL DEF FeedSpec

(* data_quality.mli: lost ids and newer trades add up to the span of ids.  *)
THEOREM GapsAlwaysAddUp == FeedSpec => []GapsAddUp
<1>1. DataInv => GapsAddUp
  BY DEF DataInv
<1> QED BY <1>1, DataInvariant, PTL

(* Every event is on the bus or in a counter, a lost gap in the            *)
(* supervisor's as well.                                                   *)
THEOREM EveryEventCounted == FeedSpec => []EveryEventIsCounted
<1>1. DataInv => EveryEventIsCounted
  BY DEF DataInv
<1> QED BY <1>1, DataInvariant, PTL

(* Both together: the run's statement about the feed's data.               *)
THEOREM FeedAlwaysAddsUp == FeedSpec => []FeedAddsUp
<1>1. GapsAddUp /\ EveryEventIsCounted => FeedAddsUp
  BY DEF FeedAddsUp
<1> QED BY <1>1, GapsAlwaysAddUp, EveryEventCounted, PTL

-----------------------------------------------------------------------------
(* A failure is one more for both counts; when it opens the circuit, the   *)
(* pause starts.                                                           *)
LEMMA FailureKeepsBreaker ==
  ASSUME NEW n \in Nat, n < Threshold, Burst <= n, Burst \in Nat, NoteFailure(n), at' \in {"timer", "done"}
  PROVE  BreakerInv'
<1>1. failures' = n + 1 /\ burst' = [n |-> Burst + 1, age |-> 0] /\ Threshold \in Nat /\ OpenFor \in Nat
  BY FeedAssumption DEF NoteFailure
<1>2. burst' \in [n : Nat, age : 0 .. OpenFor] /\ burst'.n = Burst + 1 /\ burst'.age = 0 /\ failures' \in Nat
  BY <1>1
<1>3. CASE Breaks(n + 1)
  <2>1. link' = Link("Open_circuit", OpenFor)
    BY <1>3 DEF NoteFailure
  <2> QED BY <1>1, <1>2, <2>1 DEF BreakerInv, Link
<1>4. CASE ~Breaks(n + 1)
  <2>1. PICK d : link' = Link("Reconnecting", d)
    BY <1>4 DEF NoteFailure
  <2> QED BY <1>1, <1>2, <1>4, <2>1 DEF BreakerInv, Link, Breaks
<1> QED BY <1>3, <1>4

LEMMA FeedKeepsBreaker == ASSUME BreakerInv, [FeedNext]_feedVars PROVE BreakerInv'
<1> USE FeedAssumption
<1>1. /\ burst.n \in Nat /\ burst.age \in 0 .. OpenFor /\ failures \in Nat /\ Burst \in Nat /\ Burst <= burst.n
      /\ Threshold \in Nat \ {0} /\ OpenFor \in Nat \ {0}
  BY DEF BreakerInv, Burst
<1>2. CASE Attempt
  <2>1. link' = [state |-> "Connecting", until |-> 0] /\ burst' = [n |-> Burst, age |-> 0]
          /\ failures' = IF link.state = "Open_circuit" THEN 0 ELSE failures
    BY <1>2 DEF Attempt, Link
  <2>2. link.state = "Open_circuit" => Burst = 0
    BY <1>1, <1>2 DEF Attempt, Ready, Burst, BreakerInv
  <2> QED BY <1>1, <2>1, <2>2 DEF BreakerInv
<1>3. CASE NoEndpoint
  <2>1. CASE link.state = "Open_circuit"
    <3>1. Burst = 0 /\ at' = "timer" /\ NoteFailure(0)
      BY <1>1, <1>3, <2>1 DEF NoEndpoint, Ready, Burst, BreakerInv
    <3> QED BY <1>1, <3>1, FailureKeepsBreaker
  <2>2. CASE link.state # "Open_circuit"
    <3>1. failures < Threshold /\ Burst <= failures /\ at' = "timer" /\ NoteFailure(failures)
      BY <1>1, <1>3, <2>2 DEF NoEndpoint, BreakerInv
    <3> QED BY <1>1, <3>1, FailureKeepsBreaker
  <2> QED BY <2>1, <2>2
<1>4. ASSUME SessionFailed, at \notin {"timer", "done"} PROVE BreakerInv'
  <2>1. failures < Threshold /\ Burst <= failures /\ at' \in {"timer", "done"} /\ NoteFailure(failures)
    BY <1>1, <1>4 DEF SessionFailed, BreakerInv
  <2> QED BY <1>1, <2>1, FailureKeepsBreaker
<1>5. CASE ConnectFails \/ SubscribeFails \/ (SessionClosed /\ ~stopping)
  BY <1>4, <1>5 DEF ConnectFails, SubscribeFails, SessionClosed
<1>6. CASE ConnectSucceeds
  <2>1. link' = [state |-> "Connected", until |-> 0] /\ failures' = 0 /\ burst' = [burst EXCEPT !.n = 0]
    BY <1>6 DEF ConnectSucceeds, Link
  <2> QED BY <1>1, <2>1 DEF BreakerInv
<1>7. CASE Time
  <2>1. link' = [link EXCEPT !.until = Down(@)] /\ burst' = [burst EXCEPT !.age = Older(@, OpenFor)]
          /\ failures' = failures /\ at' = at
    BY <1>7 DEF Time
  <2>2. link' = [state |-> link.state, until |-> Down(link.until)]
    BY <2>1 DEF BreakerInv
  <2>3. burst' = [n |-> burst.n, age |-> Older(burst.age, OpenFor)]
    BY <2>1 DEF BreakerInv
  <2>4. Older(burst.age, OpenFor) = (IF burst.age + 1 < OpenFor THEN burst.age + 1 ELSE OpenFor)
    BY DEF Older, Least
  <2>5. Older(burst.age, OpenFor) \in 0 .. OpenFor
    BY <1>1, <2>4
  <2>6. link.state = "Open_circuit" => Down(link.until) \in Nat /\ Down(link.until) + Older(burst.age, OpenFor) >= OpenFor
    BY <1>1, <2>4 DEF BreakerInv, Down
  <2> HIDE FeedAssumption
  <2> QED BY <1>1, <2>1, <2>2, <2>3, <2>5, <2>6 DEF BreakerInv
<1>8. CASE Subscribed \/ SessionEnds \/ StopWakes \/ (SessionClosed /\ stopping)
  <2>1. UNCHANGED <<link, failures, burst>>
          /\ (at \in {"subscribe", "frame", "close"} \/ (at = "timer" /\ at' = "done"))
    BY <1>8 DEF Subscribed, SessionEnds, StopWakes, SessionClosed, linkVars
  <2> QED BY <2>1 DEF BreakerInv
<1>9. CASE DataFrame \/ OtherFrame \/ AskToStop \/ Outage \/ UNCHANGED feedVars
  <2>1. UNCHANGED <<link, failures, burst, at>>
    BY <1>9 DEF DataFrame, OtherFrame, AskToStop, Outage, feedVars, linkVars
  <2> QED BY <2>1 DEF BreakerInv
<1> QED BY <1>2, <1>3, <1>5, <1>6, <1>7, <1>8, <1>9 DEF FeedNext, Fiber

LEMMA BreakerStarts == FeedInit => BreakerInv
  BY FeedAssumption DEF FeedInit, BreakerInv, Link

LEMMA BreakerBounds == BreakerInv => BreakerHolds
  BY FeedAssumption DEF BreakerInv, BreakerHolds

(* The circuit breaker: never more than Threshold failures in a row        *)
(* without a pause of circuit_open_ms, for every threshold and pause.      *)
THEOREM BreakerAlwaysHolds == FeedSpec => []BreakerHolds
  BY BreakerStarts, BreakerBounds, FeedKeepsBreaker, PTL DEF FeedSpec

-----------------------------------------------------------------------------
(* The host that runs the feed. *)

In(pcs, h) == caller.host = h /\ caller.pc \in pcs

(* Whose turn it is: a host that won both compare-and-sets of start and    *)
(* has not come to the last line of stop.                                  *)
Holds(h) == /\ started[h] /\ ~In({"global", "refused"}, h)
            /\ joined[h] => In({"flag", "join", "free"}, h)

HostType ==
  /\ started \in [Hosts -> BOOLEAN] /\ joined \in [Hosts -> BOOLEAN]
  /\ stopFlag \in [Hosts -> BOOLEAN] /\ spawned \in [Hosts -> BOOLEAN]
  /\ told \in [Hosts -> BOOLEAN] /\ globalRunning \in BOOLEAN
  /\ domain \in [Hosts -> {"none", "running", "ended"}]
  /\ running \in [Hosts -> SUBSET Fibers]
  /\ program \in Programs
  /\ caller \in [pc : {"idle", "global", "refused", "spawn", "flag", "join", "free"},
                 host : Hosts, done : Nat]
  /\ caller.done <= Len(program.calls)

(* Which calls have been made: a host that is being started was not        *)
(* stopped before.                                                         *)
CallsInv ==
  /\ \A h \in Hosts : joined[h] =>
       \E i \in 1 .. caller.done : program.calls[i] = [call |-> "stop", host |-> h]
  /\ caller.pc \in {"global", "refused", "spawn"} =>
       started[caller.host] /\ ~joined[caller.host]
  /\ caller.pc \in {"flag", "join", "free"} => joined[caller.host]

(* The guard is taken while a host holds it, no two do, and a Domain runs  *)
(* only for the holder, until it has been joined.                          *)
GuardInv ==
  /\ \A h \in Hosts : Holds(h) => globalRunning
  /\ \A g, h \in Hosts : Holds(g) /\ Holds(h) => g = h
  /\ \A h \in Hosts : domain[h] = "running" => Holds(h) /\ spawned[h]
  /\ \A h \in Hosts : domain[h] = "ended" => running[h] = {}
  /\ caller.pc = "free" => domain[caller.host] # "running"

HostInv == HostType /\ CallsInv /\ GuardInv

(* The feed stands still once its fiber has ended, and what it counted has *)
(* been written down.                                                      *)
FinalInv ==
  /\ domain[Host] # "none" /\ "connectors" \notin running[Host] =>
       counted = criticalDrops /\ live = Final
  /\ "connectors" \in program.fibers[Host]

HostNext == Calls \/ \E h \in Hosts : \/ Scheduler(h) \/ Watch(h)
                                      \/ \E f \in Fibers : FiberEnds(h, f)

-----------------------------------------------------------------------------
(* What a step of the process is to the feed and to the host.              *)
LEMMA StepIsFeedStep == IngestNext => [FeedNext]_feedVars
  BY DEF IngestNext, FeedStep, HostStep, PublishStats, ConnectorsEnd, Told, OtherEnds, FeedNext

LEMMA StepIsHostStep == ASSUME HostType, IngestNext PROVE [HostNext]_hostVars
<1>1. \A f : FiberEnds(Host, f) => f \in Fibers
  BY HostAssumption DEF FiberEnds, Runs, HostType
<1> QED
  BY <1>1, HostAssumption DEF IngestNext, FeedStep, HostStep, PublishStats, ConnectorsEnd, Told, OtherEnds, HostNext

-----------------------------------------------------------------------------
(* The calls of the owner's thread, one by one.                            *)
LEMMA StartClaimKeepsHost == ASSUME HostInv, NEW h \in Hosts, StartClaim(h) PROVE HostInv'
<1>1. /\ caller.pc = "idle" /\ caller.done < Len(program.calls) /\ caller.done \in Nat
      /\ program.calls[caller.done + 1] = [call |-> "start", host |-> h]
      /\ caller' = [pc |-> IF started[h] THEN "idle" ELSE "global", host |-> h, done |-> caller.done + 1]
      /\ started' = [started EXCEPT ![h] = TRUE]
      /\ UNCHANGED <<program, joined, stopFlag, globalRunning, spawned, domain, running, told>>
  BY DEF StartClaim, Call, Calling, At, HostInv, HostType
<1>2. ~joined[h]
  <2>1. ASSUME NEW i \in 1 .. caller.done, program.calls[i] = [call |-> "stop", host |-> h] PROVE FALSE
    <3>1. program.calls \in Seq([call : {"start", "stop"}, host : Hosts])
      BY ProgramAssumption DEF HostInv, HostType
    <3>2. i \in DOMAIN program.calls /\ caller.done + 1 \in DOMAIN program.calls /\ i < caller.done + 1
      BY <1>1, <3>1
    <3> QED BY <1>1, <2>1, <3>2, ProgramAssumption DEF HostInv, HostType
  <2> QED BY <2>1 DEF HostInv, CallsInv
<1>3. HostType'
  BY <1>1 DEF HostInv, HostType
<1>4. \A g \in Hosts : started'[g] = (g = h \/ started[g])
  BY <1>1 DEF HostInv, HostType
<1>5. CallsInv'
  <2>1. ASSUME NEW g \in Hosts, joined[g]
        PROVE  \E i \in 1 .. caller'.done : program.calls[i] = [call |-> "stop", host |-> g]
    BY <1>1, <2>1 DEF HostInv, CallsInv
  <2>2. caller'.pc \in {"idle", "global"} /\ caller'.host = h /\ started'[h]
    BY <1>1, <1>4
  <2> QED BY <1>1, <1>2, <2>1, <2>2 DEF CallsInv
<1>6. \A g \in Hosts : Holds(g)' <=> Holds(g)
  BY <1>1, <1>2, <1>4 DEF Holds, In
<1>7. GuardInv'
  BY <1>1, <1>6 DEF HostInv, GuardInv
<1> QED BY <1>3, <1>5, <1>7 DEF HostInv

LEMMA StartGlobalKeepsHost == ASSUME HostInv, StartGlobal PROVE HostInv'
<1>1. /\ caller.pc = "global" /\ globalRunning' = TRUE
      /\ caller' = [caller EXCEPT !.pc = IF globalRunning THEN "refused" ELSE "spawn"]
      /\ UNCHANGED <<program, started, joined, stopFlag, spawned, domain, running, told>>
  BY DEF StartGlobal, At, Goto
<1>2. HostType'
  BY <1>1 DEF HostInv, HostType
<1>3. /\ caller'.pc = IF globalRunning THEN "refused" ELSE "spawn"
      /\ caller'.host = caller.host /\ caller'.done = caller.done /\ caller.host \in Hosts
  BY <1>1 DEF HostInv, HostType
<1>4. CallsInv'
  BY <1>1, <1>3 DEF HostInv, CallsInv
<1>5. ASSUME NEW g \in Hosts, Holds(g)' PROVE IF globalRunning THEN Holds(g) ELSE g = caller.host
  BY <1>1, <1>3, <1>5 DEF Holds, In, HostInv, GuardInv
<1>6. ASSUME NEW g \in Hosts, Holds(g) PROVE Holds(g)'
  BY <1>1, <1>3, <1>6 DEF Holds, In
<1>7. GuardInv'
  BY <1>1, <1>3, <1>5, <1>6 DEF HostInv, GuardInv
<1> QED BY <1>2, <1>4, <1>7 DEF HostInv

LEMMA StartRefusedKeepsHost == ASSUME HostInv, StartRefused PROVE HostInv'
<1>1. /\ caller.pc = "refused" /\ caller' = [caller EXCEPT !.pc = "idle"]
      /\ started' = [started EXCEPT ![caller.host] = FALSE]
      /\ UNCHANGED <<program, joined, stopFlag, globalRunning, spawned, domain, running, told>>
  BY DEF StartRefused, At, Goto, Set
<1>2. HostType'
  BY <1>1 DEF HostInv, HostType
<1>3. caller'.pc = "idle" /\ caller'.host = caller.host /\ caller'.done = caller.done /\ caller.host \in Hosts
  BY <1>1 DEF HostInv, HostType
<1>4. CallsInv'
  BY <1>1, <1>3 DEF HostInv, CallsInv
<1>5. \A g \in Hosts : started'[g] = (g # caller.host /\ started[g])
  BY <1>1 DEF HostInv, HostType
<1>6. \A g \in Hosts : Holds(g)' <=> Holds(g)
  BY <1>1, <1>3, <1>5 DEF Holds, In, HostInv, CallsInv
<1>7. GuardInv'
  BY <1>1, <1>3, <1>6 DEF HostInv, GuardInv
<1> QED BY <1>2, <1>4, <1>7 DEF HostInv

LEMMA StartSpawnKeepsHost == ASSUME HostInv, StartSpawn PROVE HostInv'
<1>1. /\ caller.pc = "spawn" /\ caller' = [caller EXCEPT !.pc = "idle"]
      /\ domain' = [domain EXCEPT ![caller.host] = "running"]
      /\ spawned' = [spawned EXCEPT ![caller.host] = TRUE]
      /\ running' = [running EXCEPT ![caller.host] = program.fibers[caller.host]]
      /\ UNCHANGED <<program, atomics, told>>
  BY DEF StartSpawn, At, Goto, Set, Of
<1>2. caller'.pc = "idle" /\ caller'.host = caller.host /\ caller'.done = caller.done /\ caller.host \in Hosts
  BY <1>1 DEF HostInv, HostType
<1>3. program.fibers[caller.host] \in SUBSET Fibers
  BY <1>2, ProgramAssumption DEF HostInv, HostType
<1>4. HostType'
  BY <1>1, <1>3 DEF HostInv, HostType, atomics
<1>5. CallsInv'
  BY <1>1, <1>2 DEF HostInv, CallsInv, atomics
<1>6. (\A g \in Hosts : Holds(g)' <=> Holds(g)) /\ Holds(caller.host)
  BY <1>1, <1>2 DEF Holds, In, HostInv, CallsInv, atomics
<1>7. \A g \in Hosts : g # caller.host =>
        domain'[g] = domain[g] /\ running'[g] = running[g] /\ spawned'[g] = spawned[g]
  BY <1>1 DEF HostInv, HostType
<1>8. domain'[caller.host] = "running" /\ spawned'[caller.host]
  BY <1>1, <1>2 DEF HostInv, HostType
<1>9. GuardInv'
  BY <1>1, <1>2, <1>6, <1>7, <1>8 DEF HostInv, GuardInv, atomics
<1> QED BY <1>4, <1>5, <1>9 DEF HostInv

LEMMA StopClaimKeepsHost == ASSUME HostInv, NEW h \in Hosts, StopClaim(h) PROVE HostInv'
<1>1. /\ caller.pc = "idle" /\ caller.done < Len(program.calls) /\ caller.done \in Nat
      /\ program.calls[caller.done + 1] = [call |-> "stop", host |-> h]
      /\ caller' = [pc |-> IF joined[h] THEN "idle" ELSE "flag", host |-> h, done |-> caller.done + 1]
      /\ joined' = [joined EXCEPT ![h] = TRUE]
      /\ UNCHANGED <<program, started, stopFlag, globalRunning, spawned, domain, running, told>>
  BY DEF StopClaim, Call, Calling, At, HostInv, HostType
<1>2. HostType'
  BY <1>1 DEF HostInv, HostType
<1>3. \A g \in Hosts : joined'[g] = (g = h \/ joined[g])
  BY <1>1 DEF HostInv, HostType
<1>4. CallsInv'
  <2>1. ASSUME NEW g \in Hosts, joined'[g]
        PROVE  \E i \in 1 .. caller'.done : program.calls[i] = [call |-> "stop", host |-> g]
    <3>1. CASE g = h
      <4>1. caller'.done = caller.done + 1 /\ caller.done + 1 \in 1 .. caller'.done
        BY <1>1
      <4> QED BY <1>1, <3>1, <4>1
    <3>2. CASE g # h
      BY <1>1, <1>3, <2>1, <3>2 DEF HostInv, CallsInv
    <3> QED BY <3>1, <3>2
  <2>2. caller'.pc \in {"idle", "flag"} /\ caller'.host = h /\ joined'[h]
    BY <1>1, <1>3
  <2> QED BY <1>1, <2>1, <2>2 DEF CallsInv
<1>5. \A g \in Hosts : Holds(g)' <=> Holds(g)
  BY <1>1, <1>3 DEF Holds, In
<1>6. GuardInv'
  BY <1>1, <1>5 DEF HostInv, GuardInv
<1> QED BY <1>2, <1>4, <1>6 DEF HostInv

LEMMA StopWaitsKeepsHost == ASSUME HostInv, StopFlag \/ StopJoin PROVE HostInv'
<1>1. /\ caller.pc \in {"flag", "join"}
      /\ \E pc \in {"join", "free"} : caller' = [caller EXCEPT !.pc = pc]
      /\ stopFlag' \in {stopFlag, [stopFlag EXCEPT ![caller.host] = TRUE]}
      /\ UNCHANGED <<program, started, joined, globalRunning, spawned, domain, running, told>>
  BY DEF StopFlag, StopJoin, At, Goto, Set, Of, atomics
<1>2. caller'.pc \in {"join", "free"} /\ caller'.host = caller.host /\ caller'.done = caller.done /\ caller.host \in Hosts
  BY <1>1 DEF HostInv, HostType
<1>3. HostType'
  BY <1>1 DEF HostInv, HostType
<1>4. CallsInv'
  BY <1>1, <1>2 DEF HostInv, CallsInv
<1>5. \A g \in Hosts : Holds(g)' <=> Holds(g)
  BY <1>1, <1>2 DEF Holds, In
<1>6. caller'.pc = "free" => domain[caller.host] # "running"
  <2>1. CASE StopFlag
    BY <1>2, <2>1 DEF StopFlag, Goto, Of, HostInv, HostType, GuardInv
  <2>2. CASE StopJoin
    BY <2>2 DEF StopJoin, Of
  <2> QED BY <2>1, <2>2
<1>7. GuardInv'
  BY <1>1, <1>2, <1>5, <1>6 DEF HostInv, GuardInv
<1> QED BY <1>3, <1>4, <1>7 DEF HostInv

(* The last line of stop: whoever held the guard, it was this host.        *)
LEMMA StopFreeKeepsHost == ASSUME HostInv, StopFree PROVE HostInv'
<1>1. /\ caller.pc = "free" /\ caller' = [caller EXCEPT !.pc = "idle"]
      /\ spawned' = [spawned EXCEPT ![caller.host] = FALSE]
      /\ globalRunning' = (globalRunning /\ ~started[caller.host])
      /\ UNCHANGED <<program, started, joined, stopFlag, domain, running, told>>
  BY DEF StopFree, At, Goto, Set, Of
<1>2. caller'.pc = "idle" /\ caller'.host = caller.host /\ caller'.done = caller.done /\ caller.host \in Hosts
  BY <1>1 DEF HostInv, HostType
<1>3. HostType'
  BY <1>1 DEF HostInv, HostType
<1>4. CallsInv'
  BY <1>1, <1>2 DEF HostInv, CallsInv
<1>5. \A g \in Hosts : Holds(g)' <=> Holds(g) /\ g # caller.host
  BY <1>1, <1>2 DEF Holds, In, HostInv, CallsInv
<1>6. started[caller.host] => Holds(caller.host)
  BY <1>1 DEF Holds, In
<1>7. \A g \in Hosts : Holds(g)' => globalRunning'
  BY <1>1, <1>2, <1>5, <1>6 DEF HostInv, GuardInv
<1>8. \A g \in Hosts : g # caller.host => spawned'[g] = spawned[g]
  BY <1>1 DEF HostInv, HostType
<1>9. GuardInv'
  BY <1>1, <1>2, <1>5, <1>7, <1>8 DEF HostInv, GuardInv
<1> QED BY <1>3, <1>4, <1>9 DEF HostInv

(* The Domain's own steps: it ends, or becomes emptier.                    *)
LEMMA DomainKeepsHost ==
  ASSUME HostInv, NEW h \in Hosts, Scheduler(h) \/ Watch(h) \/ \E f \in Fibers : FiberEnds(h, f)
  PROVE  HostInv'
<1>1. domain[h] = "running" /\ UNCHANGED <<program, started, joined, globalRunning, spawned, caller>>
  BY DEF Scheduler, AllEnded, MainReturns, Watch, FiberEnds, Runs, atomics
<1>2. HostType'
  <2> USE <1>1 DEF HostInv, HostType
  <2>1. CASE AllEnded(h)
    BY <2>1 DEF AllEnded
  <2>2. CASE MainReturns(h)
    BY <2>2 DEF MainReturns, atomics
  <2>3. CASE Watch(h)
    BY <2>3 DEF Watch, atomics
  <2>4. ASSUME NEW f \in Fibers, FiberEnds(h, f) PROVE HostType'
    BY <2>4 DEF FiberEnds, atomics
  <2> QED BY <2>1, <2>2, <2>3, <2>4 DEF Scheduler
<1>3. CallsInv'
  BY <1>1 DEF HostInv, CallsInv
<1>4. \A g \in Hosts : Holds(g)' <=> Holds(g)
  BY <1>1 DEF Holds, In
<1>5. \A g \in Hosts : g # h => domain'[g] = domain[g] /\ running'[g] = running[g]
  BY DEF HostInv, HostType, Scheduler, AllEnded, MainReturns, Watch, FiberEnds, atomics
<1>6. domain'[h] = "running" \/ (domain'[h] = "ended" /\ running'[h] = {})
  BY <1>1 DEF HostInv, HostType, Scheduler, AllEnded, MainReturns, Watch, FiberEnds, atomics
<1>7. GuardInv'
  <2>1. \A g \in Hosts : domain'[g] = "running" => domain[g] = "running"
    BY <1>1, <1>5
  <2>2. \A g \in Hosts : domain'[g] = "running" => Holds(g)' /\ spawned'[g]
    BY <1>1, <1>4, <2>1 DEF HostInv, GuardInv
  <2>3. \A g \in Hosts : domain'[g] = "ended" => running'[g] = {}
    BY <1>5, <1>6 DEF HostInv, GuardInv
  <2>4. caller.host \in Hosts
    BY DEF HostInv, HostType
  <2>5. caller'.pc = "free" => domain'[caller'.host] # "running"
    BY <1>1, <2>1, <2>4 DEF HostInv, GuardInv
  <2>6. /\ \A g \in Hosts : Holds(g)' => globalRunning'
        /\ \A g, k \in Hosts : Holds(g)' /\ Holds(k)' => g = k
    BY <1>1, <1>4 DEF HostInv, GuardInv
  <2> QED BY <2>2, <2>3, <2>5, <2>6 DEF GuardInv
<1> QED BY <1>2, <1>3, <1>7 DEF HostInv

LEMMA HostKeepsInvariant == ASSUME HostInv, [HostNext]_hostVars PROVE HostInv'
<1>1. CASE UNCHANGED hostVars
  BY <1>1 DEF hostVars, atomics, HostInv, HostType, CallsInv, GuardInv, Holds, In
<1>2. CASE HostNext
  BY <1>2, StartClaimKeepsHost, StartGlobalKeepsHost, StartRefusedKeepsHost, StartSpawnKeepsHost,
     StopClaimKeepsHost, StopWaitsKeepsHost, StopFreeKeepsHost, DomainKeepsHost
     DEF HostNext, Calls, Starting, Stopping
<1> QED BY <1>1, <1>2

-----------------------------------------------------------------------------
(* The feed's books, which the finaliser of its fiber closes.              *)
LEMMA StepKeepsFinal == ASSUME HostInv, HostInv', FinalInv, [IngestNext]_ingestVars PROVE FinalInv'
<1> DEFINE Over == domain[Host] # "none" /\ "connectors" \notin running[Host]
           Feeds == UNCHANGED <<drops, criticalDrops, link>>
<1> Host \in Hosts
  BY HostAssumption
<1>1. program' = program /\ "connectors" \in program.fibers[Host]
  BY DEF FinalInv, IngestNext, FeedStep, HostStep, PublishStats, ConnectorsEnd, Told, OtherEnds, ingestVars,
         hostVars, Calls, Starting, Stopping, StartClaim, StartGlobal, StartRefused, StartSpawn, StopClaim,
         StopFlag, StopJoin, StopFree, Scheduler, AllEnded, MainReturns, Watch, FiberEnds
<1>2. CASE FeedStep
  <2>1. ~Over' 
    BY <1>2 DEF FeedStep, Runs, hostVars
  <2> QED BY <1>1, <2>1 DEF FinalInv
<1>3. CASE PublishStats
  <2>1. Feeds /\ counted' = counted /\ domain' = domain /\ domain[Host] = "running" /\ live' = Snapshot(counted)
    BY <1>3 DEF PublishStats, Runs, FiberEnds, hostVars, feedVars, dataVars, linkVars
  <2>2. Over' => Over
    BY <1>3, <2>1 DEF PublishStats, FiberEnds, hostVars, HostInv, HostType
  <2>3. Over => live' = Final'
    BY <2>1 DEF FinalInv, Snapshot, Final
  <2> QED BY <1>1, <2>1, <2>2, <2>3 DEF FinalInv
<1>4. CASE ConnectorsEnd
  BY <1>1, <1>4 DEF ConnectorsEnd, FinalInv, Snapshot, Final, FiberEnds, Runs, feedVars, dataVars, linkVars
<1>5. CASE HostStep
  <2>1. Feeds /\ counted' = counted /\ live' = live
    BY <1>5 DEF HostStep, feedVars, dataVars, linkVars
  <2>2. Over' => Over
    BY <1>1, <1>5 DEF HostStep, HostInv, HostType, Calls, Starting, Stopping, StartClaim, StartGlobal, StartRefused,
       StartSpawn, StopClaim, StopFlag, StopJoin, StopFree, Scheduler, AllEnded, MainReturns, Of, Set, atomics
  <2> QED BY <1>1, <2>1, <2>2 DEF FinalInv, Final
<1>6. ASSUME NEW h \in Hosts, Told(h) \/ \E f \in Fibers : OtherEnds(h, f) PROVE FinalInv'
  <2>1. Feeds /\ counted' = counted /\ live' = live
    BY <1>6 DEF Told, OtherEnds, AskToStop, feedVars, dataVars, linkVars
  <2>2. Over' => Over
    BY <1>6 DEF Told, OtherEnds, Watch, FiberEnds, HostInv, HostType
  <2> QED BY <1>1, <2>1, <2>2 DEF FinalInv, Final
<1>7. CASE UNCHANGED ingestVars
  BY <1>7 DEF ingestVars, hostVars, feedVars, dataVars, linkVars, FinalInv, Final
<1> QED BY <1>2, <1>3, <1>4, <1>5, <1>6, <1>7 DEF IngestNext

(* The inductive invariant of the process.                                 *)
THEOREM HostInvariant == IngestSpec => [](HostInv /\ FinalInv)
<1>1. IngestInit => HostInv /\ FinalInv
  <2> SUFFICES ASSUME IngestInit PROVE HostInv /\ FinalInv
    OBVIOUS
  <2>1. program \in Programs /\ "connectors" \in program.fibers[Host]
    BY HostAssumption DEF IngestInit, HostInit
  <2>2. Len(program.calls) \in Nat
    BY <2>1, ProgramAssumption
  <2>3. HostType
    <3>1. caller = [pc |-> "idle", host |-> caller.host, done |-> 0] /\ caller.host \in Hosts
      BY DEF IngestInit, HostInit
    <3>2. /\ started \in [Hosts -> BOOLEAN] /\ joined \in [Hosts -> BOOLEAN] /\ stopFlag \in [Hosts -> BOOLEAN]
          /\ spawned \in [Hosts -> BOOLEAN] /\ told \in [Hosts -> BOOLEAN] /\ globalRunning \in BOOLEAN
      BY DEF IngestInit, HostInit
    <3>3. /\ domain \in [Hosts -> {"none", "running", "ended"}] /\ running \in [Hosts -> SUBSET Fibers]
      BY DEF IngestInit, HostInit
    <3>4. caller.done = 0 /\ caller.pc = "idle"
      BY <3>1
    <3>5. caller \in [pc : {"idle", "global", "refused", "spawn", "flag", "join", "free"},
                     host : Hosts, done : Nat]
      BY <3>1
    <3> QED BY <2>1, <2>2, <3>2, <3>3, <3>4, <3>5 DEF HostType
  <2>4. CallsInv
    BY DEF IngestInit, HostInit, CallsInv
  <2>5. GuardInv
    BY DEF IngestInit, HostInit, GuardInv, Holds
  <2>6. FinalInv
    BY <2>1, HostAssumption DEF IngestInit, HostInit, FinalInv
  <2> QED BY <2>3, <2>4, <2>5, <2>6 DEF HostInv
<1>2. HostInv /\ FinalInv /\ [IngestNext]_ingestVars => (HostInv /\ FinalInv)'
  <2> SUFFICES ASSUME HostInv, FinalInv, [IngestNext]_ingestVars PROVE HostInv' /\ FinalInv'
    OBVIOUS
  <2>1. [HostNext]_hostVars
    BY StepIsHostStep DEF HostInv, ingestVars
  <2> QED BY <2>1, HostKeepsInvariant, StepKeepsFinal
<1> QED BY <1>1, <1>2, PTL DEF IngestSpec

(* "Signal every fiber to stop, then join the Domain": of any number of    *)
(* hosts no two are inside Lwt_main.run, and when a stop has returned the  *)
(* Domain is gone and the last snapshot is what the feed counted.          *)
THEOREM StopAlwaysLeavesNothingBehind == IngestSpec => []StopLeavesNothingBehind
<1>1. HostInv /\ FinalInv => StopLeavesNothingBehind
  <2> SUFFICES ASSUME HostInv, FinalInv PROVE StopLeavesNothingBehind
    OBVIOUS
  <2>1. \A g, h \in Hosts : domain[g] = "running" /\ domain[h] = "running" => g = h
    BY DEF HostInv, GuardInv
  <2>2. \A h \in Hosts : joined[h] /\ ~(caller.host = h /\ ~At("idle")) => domain[h] # "running"
    BY DEF HostInv, GuardInv, Holds, In, At
  <2>3. domain[Host] = "ended" => live = Final
    BY HostAssumption DEF HostInv, GuardInv, FinalInv
  <2> QED BY <2>1, <2>2, <2>3 DEF StopLeavesNothingBehind
<1> QED BY <1>1, HostInvariant, PTL

(* The theorems of the feed hold for the feed that a host runs: what the   *)
(* process does to it is a step of its own or none.                        *)
THEOREM HostedFeedAddsUp == IngestSpec => [](FeedAddsUp /\ BreakerHolds)
<1>1. IngestInit => DataInv /\ BreakerInv
  BY FeedOpensBooks, BreakerStarts DEF IngestInit
<1>2. DataInv /\ BreakerInv /\ [IngestNext]_ingestVars => DataInv' /\ BreakerInv'
  BY StepIsFeedStep, FeedKeepsBooks, FeedKeepsBreaker DEF ingestVars
<1>3. DataInv /\ BreakerInv => FeedAddsUp /\ BreakerHolds
  BY BreakerBounds DEF DataInv, FeedAddsUp
<1> QED BY <1>1, <1>2, <1>3, PTL DEF IngestSpec
=============================================================================
