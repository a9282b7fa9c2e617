# AlgoStream: TLA+ models, checks and proofs

This directory holds TLA+ modules translated from the sources of AlgoStream (an
event-driven trading system in OCaml: market-data feeds, an event bus, analytics, a live
strategy runtime with paper execution, a backtest that must agree with it, and in JavaScript
the site that shows it all), the TLC configurations that check them, and proofs that TLAPS
checks. `PROJECT.json` is the index:
it maps every definition to the lines it translates, and lists the runs, the wrong variants
(one per property, showing the property can fail), the hazards and the findings.

    tlc -workers 2 -config MCEventBus.cfg MCEventBus     # one run
    tlapm Queues_proofs.tla                              # the proofs of a component

## 1. The system

### 1.1 How the parts interact

    exchanges --> connectors (Lwt fibers) --> ingestion (quality, normalization)
                                                   | try_publish
                                                   v
                          event bus: 4 priority bands, one dispatcher Domain
                  |                |                |                      |
             time series       analytics          pairs         runtime supervisor
             (own Domain)     (own Domain)     (own Domain)        (own Domain)
                  |                |                |                      |
               bars            snapshots       snapshots        strategy instances
                                                                 gate -> fill engine
                                                                 -> portfolio -> risk
                                                                           |
            telemetry (alerts, health, metrics) <--- snapshots ------------+
                  |
            HTTP API, server-sent events, /metrics  <--- API keys, tickets, audit log
                  |
    dashboard.js (probe, stream with tickets, polling, recorded demo) --> chart.js
    bench.js (history of benchmarks)     guide-nav.js (scroll spy of a guide)

* A *feed connector* is an Lwt fiber; all fibers run in one `Lwt_main.run` on the Lwt host's
  Domain. A connector reconnects with back-off, a circuit breaker and de-duplicated alerts.
* The *event bus* is the only path from the feeds to the rest. Publishers push into a
  bounded ring per priority band; the dispatcher Domain pops and calls the subscribers'
  handlers synchronously.
* Each *consumer* (time series, analytics, pairs, runtime) subscribes a handler that only
  enqueues into a single-producer single-consumer ring, and drains that ring on a Domain of
  its own, so that the dispatcher is never blocked by a slow consumer.
* The *runtime* hands each record to every strategy instance; an instance is meant to be
  driven by that one Domain, while control calls (pause, resume, stop, add) arrive from the
  HTTP fibers. State is shown to others as immutable snapshots in atomics.
* The *backtest* re-implements the instance's step over recorded data; the two are meant to
  trade identically.
* The *dashboard* is the server's client: it probes for a daemon, opens an event stream with
  a ticket it mints with the operator's key, falls back to polling or to a recorded demo, and
  shows what it gets in cards and charts. The *benchmark page* reads the history CI pushes,
  and a *guide* highlights the section that is read. All run in one thread per tab, callback
  by callback.
* *Persistence* is an append-only, hash-chained audit log and the key store file.

### 1.2 Inventory

| Component (source) | State | Operations | What makes it correct |
|---|---|---|---|
| RingBuffer, SPSCQueue (`common/utils/data_structures.ml`) | slots, head and tail indexes | push/pop, enqueue/dequeue | bounded FIFO; no slot lost, none read before it is written; full and empty answers true |
| Event bus (`infrastructure/event_bus`) | four bands, subscriber list, flow counters, running and stop flags, dispatcher handle, at_exit hook | try_publish, subscribe, unsubscribe, dispatch, start, stop, exit | every event delivered or counted as dropped; priority; stop joins; a raising handler harms nobody |
| Live runtime (`runtime/supervisor.ml`, `instance.ml`) | record queue, instance list, per instance lifecycle, working orders, published snapshot | bus handler, drain, add, pause, resume, stop_instance, stop, step, finish | no record unaccounted, ids unique, isolation of a failing strategy, nothing working after a stop |
| Fill engine (`backtest/fill_engine.ml`, `latency.ml`) | working orders with status, remaining quantity, queue ahead, trigger, pending cancel | admit, cancel, on_market, cancel_all | fills only while live and reachable; time in force; queue position; every unit counted once |
| Order lifecycle (`order_management/order_state.ml`) | a status | transition table | terminal is terminal |
| Book and gate (`domain/portfolio`, `risk_limits.ml`, `drawdown.ml`) | positions, cash, marks, peak, day's opening NAV | add_trade, update_market_price, financing, pre_trade_check | quantities follow the blotter, exits always admitted, limits measured from true starts |
| Drivers (`runtime/instance.ml` step, `backtest/engine.ml`) | clock, inbound messages, market view | step, finish; the pass over the data, flatten | live and backtest agree |
| Audit log (`infrastructure/persistence`) | file with chained records, writer's sequence and head | open, append, rotate; walk, verify | an appended record stays verifiable, across restarts and days |
| Authentication (`infrastructure/auth`) | key records, tickets, failures per peer | authenticate, reload, mint, redeem, check | revocation takes effect, tickets single use and short-lived, bounded attempts |
| Connection supervision (`data_ingestion/connection_supervisor.ml`, `connector_runtime.ml`) | connection state, failure count, alert times | note_*, poll, the reconnect loop | breaker opens and closes, alerts not swallowed, the loop ends on stop |
| Ingestion (`ingestion_supervisor.ml`, `data_quality.ml`) | counters of each feed, the snapshot published for other Domains | attach, start, stop, publish | gaps seen once; what other Domains read is what the feed counted; the last snapshot is the final one |
| Normalization (`normalization`) | last sequence and time per symbol, breaks | process a tick | stale feeds reported, breaks applied in order |
| Processors (`time_series`, `analytics`, `pairs`) | SPSC ring, table of keys with LRU, published index, counters | handler, drain, evict, stop | counts add up, readers see a consistent index, bars cover each tick once |
| Circuit breaker, monitor (`risk_management`) | breaker state, limits, day | evaluate, trip, reset | a tripped breaker blocks until it should |
| Telemetry (`telemetry`) | alert registry, histograms | raise, clear, active; health | a lasting condition keeps notifying |
| Lwt host (`infrastructure/lwt_host`) | fibers, started, joined and stop flags, process-wide guard | attach, start, stop | one `Lwt_main.run` at a time; a stop returns, and leaves none; a failing fiber is isolated |
| HTTP server (`infrastructure/network`) | open streams | admit a request, stream, shut down | no command without authority, every command audited |
| Routing (`order_management/routing.ml`) | none | split an order over venues | parts add up, best venues first |
| Dashboard (`site/dashboard/dashboard.js`) | stored key, runs of `begin()` with their timers, streams and tickets, ring of recent frames, controls, labels | begin, probe, mint, stream events, poll, demo, whoami, submit, sign out, command, compare | shows something whatever the daemon does; tickets single use; controls follow the key |
| Charts (`site/assets/chart.js`) | none (the ring belongs to the page) | line, lines, bars | every point in the plot; one scale for what is compared |
| Benchmark page (`site/bench/bench.js`) | history, highlighted dot, tooltip | load, hover, leave, scroll | every measurement on a card, the summary agrees with the cards |
| Guide navigation (`site/assets/guide-nav.js`) | active entry, pending frame | scroll, resize, paint | the highlight catches up |
| Numeric and research libraries, parsers, programs | none of interest | pure computation, wiring | out of scope, section 7 |

### 1.3 What is hard

* *Domains that share memory*: the rings are read and written access by access; start, stop,
  add and pause are sequences of atomic operations that others run between; an instance's
  plain mutable fields are touched by the drain Domain and by whoever calls stop.
* *Shutdown*: each Domain ends by a flag and a final drain; what is published before, during
  and after has to land somewhere countable.
* *Order within a step*: a record matures messages, expires, triggers and matches orders,
  updates the book, informs the strategy and gates its answers; two drivers do it.
* *Limits and boundaries*: full rings, thin books, an order's date, an emptied queue, flat
  positions, a day's turn.
* *Crashes*: only the audit log, the key store and the event log persist anything.
* *Callbacks in a page*: a probe, its timer, a mint, a stream's errors, `whoami` and every
  poll answer in any order, after the key they were sent with has gone, and nothing a run of
  `begin()` started is cancelled by the next.

The hazards, at their lines, are in `PROJECT.json`; those without a property say why.

## 2. Modules

| Module | Models | State and actions against the code |
|---|---|---|
| `BoundedQueue` | the contract of a bounded FIFO whose operations take effect at one instant | `queue`; a put accepted or refused as full, a take, an empty answer |
| `SPSCQueue` | `SPSCQueue` of `data_structures.ml` | `buffer`, `head`, `tail` are the record's fields; `ppc`, `cpc` and the locals are where the two Domains stand inside enqueue and dequeue: one action per read or write of shared memory |
| `RingBuffer` | `RingBuffer` (compare-and-set ring, several producers and consumers) | as above, with the retry loop; `PushWrite` precedes `PushClaim` as in the code |
| `EventBus` | `event_bus.ml`, `priority_queue.ml`, `subscription.ml` | a band is a bounded FIFO; publishers, dispatcher Domains and controllers (threads that call start, stop or run the exit hook) each have a program counter; `log`, `late`, `passed` and `crossed` (a start was at work together with another thread's call) are history |
| `RuntimeSupervisor` | `supervisor.ml`, concurrency of `instance.ml` | handler, drain Domain, add, pause, resume, stop_instance and stop as sequences of their atomic reads and writes (a record is counted, `DrainCount`, before the list of instances is read, `DrainList`); what a step does to the orders is nondeterministic |
| `OrderLifecycle` | `order_state.ml` | status of each order; the transition table |
| `FillEngine` | `fill_engine.ml`, `latency.ml` | one action per entry point: `Admit`, `CancelOrder`, `OnMarket`, `CancelAll`; a pass is a fold over the working orders in the code's order of decisions |
| `Book` | arithmetic of `position.ml`, `portfolio.ml`, `risk_limits.ml` | operators on a state record: `AddTrade`, `Nav`, `Trade`, `PassesGate`... |
| `Drivers` | step and finish of `instance.ml`; the pass, the end and flatten of `engine.ml` | both drivers hold a state record and are fed the same records; one that is late (`IsLate`) the backtest's source drops (`data_source.ml`) and the live runner takes. Each draws the jitter of its latencies from offsets of its own (`Drawn`, `Draw`; `latency.ml`). A step is a `Run` over a list of happenings (fills, cancels, rejects), each told to the strategy as it happens; `inbound` is kept in release order; the strategy is a plan (its answer to its n-th event of each kind) |
| `AuditLog` | `audit_log.ml` | a file is its header and its frames; a hash is the sequence of what was hashed; `WriteFrame`, `Reopen`, `Create`, `AppendTo` return every way an operation can end (done, cut, refused, written but not synced); `acked` and `hurt` are history |
| `Gateway` | handlers and push loop of `server.ml`, `keystore.ml`, `ticket.ml`, `rate_limit.ml`, `keyctl.ml`; extends `AuditLog` | one action per way a request ends, each with the reload, the limiter and the audit call it makes; `disk` is the key file that keyctl and editors replace, also between the stat and the read of a reload |
| `Processors` | `time_series/processor.ml` with `bar_builder.ml`, `analytics/processor.ml` with `per_symbol.ml`, `pairs/processor.ml` with `per_pair.ml`; extends `SPSCQueue` | the skeleton the three share, each thread with a program counter: `handler` (in the bus's handler), `phase` (the drain Domain) and `stopper`; the ring's own steps are those of `SPSCQueue`. `setup` says which processor it is and `After` what it does with a tick; `table` is the drain Domain's LRU table |
| `Queues` | both rings side by side; extends `Processors`, instantiates `RingBuffer` as `Ring` | no state of its own: the two promises about `Ring`, for its users' constants |
| `Feeds` | `connector_runtime.ml`, `connection_supervisor.ml`, `data_quality.ml` | one connector's fiber: an action goes from one wait to the next (`at`), as the fiber does; `link`, `failures`, `alertAge` are the supervisor's, `quality` the gate's; the exchange and time are the environment |
| `LwtHost` | `lwt_host.ml` | `started`, `joined`, `stopFlag`, `globalRunning` are its atomics; `caller` says where the owner's thread stands inside start or stop, `domain` and `running` what the host's Domain does; a fiber is a name that ends |
| `Ingestion` | `ingestion_supervisor.ml`, the health check of `bin/algostream.ml`; extends `Feeds`, `LwtHost` | the feed as one fiber of a host, the publisher of counters as another; `counted` is `critical_drops_table`, `live` the published snapshot. The feed moves only while its fiber runs, and its stop promise is resolved by the host's watcher |
| `Arrays` | `Array.prototype.sort` and `filter`, as the pages use them | `Ranked`: what stands at a place is the element with as many others ahead of it; `Kept`: the elements at the chosen places, in their order |
| `Doubles` | `Number(ts_ns)` | an integer of 64 bits as the nearest double: doubles near a time of today are `Spacing` apart |
| `Charts` | `chart.js`; extends `Arrays`, `Doubles` | `Push` the ring of `CAP` points; `Line`, `Lines`, `Filled` the geometry, in hundredths of a unit of the plot. `ToNumber` and `IsFinite` are JavaScript's: a null is finite and counts as 0 (`Drawable`). Times are doubles, in which widening a single instant by 1 is lost (`Span`), so that its place is 0/0 (`XOf`) |
| `Tables` | the tables and figures of `dashboard.js`; extends `Doubles` | fills of all instances merged by the doubles of their times, newest first, cut to a number of rows; positions, profit and exposure, components and alerts; `Reported` is what the runtime guarantees of its snapshot: no two instances of one name (`bin/algostream.ml:498` refuses a duplicate), whole amounts and times |
| `Dashboard` | `dashboard.js`, and the daemon as far as the page can tell; extends `Charts`, `Tables` | an action is a callback. `visits` holds one record per run of `begin()`: its probe, timer, demo, stream and ticket live in closures of their own; `calls` are the other requests in flight, each with the key it was sent with; `setup` is the daemon and the browser |
| `BenchPage` | `bench.js`; extends `Arrays` | `entries` is the history (`Measured`: values are not negative); sections, series, cards, summary and bands of a sparkline are operators on it; `pointer`, `dot`, `tip` are the tooltip's state |
| `GuideNav` | `guide-nav.js` | scroll and resize events, the queued frame, the paint |
| `Site` | one tab: the three pages one at a time; extends `Dashboard`, `BenchPage`, `GuideNav` | opening and leaving a page; the key in `sessionStorage` and the daemon outlive it |
| `*_proofs` | theorems about both rings and the processors, the bus, the runtime, the fill engine, the drivers, the server and its log, the feeds inside their host, and the site | section 6 |
| `MC*` | instances for TLC | constants, configurations |

`EventBus` uses a band as `RingBuffer` is shown to implement it for one producer;
`RuntimeSupervisor` uses its queue as `SPSCQueue` implements it; `FillEngine` implements
`OrderLifecycle`; `Drivers` is built on `Book` and takes the venue to fill whole orders,
since `FillEngine` has its detail. `Processors` composes a handler, the ring and a drain
Domain: a step of the ring is a step of the one that is inside it. `Ingestion` runs `Feeds` inside
`LwtHost`: an action of the process is one of the feed or leaves it alone, and the same for the
host, so that what is proved of either holds of both. `Site` composes the
pages, and `Dashboard` its own idea of the server, which `Gateway` has in detail: a key is
accepted or not, a ticket redeemed or not. `Gateway` composes the server with `AuditLog`: a recorded
request is a `LogRecord` step of the log and a state change of the server in one.

Operators named "Wrong variants" in a module are not part of the model: each is a plausible
slip of the code (a dropped guard, a missing reset, a swapped order) that `PROJECT.json`
pairs with the property that notices it.

## 3. Runs

Each run finishes in under three minutes on two cores. "expects" is `pass` or the violation the
run exhibits.

| Run (module, configuration) | Bounds | What it shows |
|---|---|---|
| `queues` (`MCQueues`) | rings of 4 slots (3 usable). Processors: bars of one symbol with 5 ticks, bars of two symbols before and after 1970 with 3 ticks and a table of 3, analytics with a table of 1, pairs of two legs. Ring of the bus: one producer with 9 pushes, or two producers with one push each and two consumers | all three processors, stopped at any moment: the ring is a bounded FIFO whose two sides never clash, every event is counted once, nothing that was in the ring before the end stays there, bars are those of the calendar. The compare-and-set ring: a bounded FIFO through two wraps, and with several threads a distance from head to tail that is a true count |
| `feeds` (`MCFeeds.cfg`) | breaker of 3 failures, back-off up to 4 ticks; a trial with a program: 3 frames (trade ids 0..2 in any order, late and twice) with an outage, and 3 outages without data, in a process that starts and stops its host; 2 frames beside the publisher of counters, stopped twice; a second host started before, whose start is refused and tried again; a feed without endpoint beside a host that was never started | gaps are what is missing, each event and lost gap is counted, the breaker holds, the feed reconnects, a stop ends it and returns, no two Domains run Lwt, the last snapshot is the final count |
| `critical_drops_unseen` (`MCFeedsUnseen.cfg`) expects a violation of `AnyCriticalDropFails` | the 2 frames beside the publisher | a gap lost on the bus does not reach the counters that health reads |
| `ring_lost_push` (`MCRingBufferLost.cfg`) expects a violation of `PushedItemsSurvive` | two producers, one push each, one consumer | the loser of the compare-and-set has already overwritten the winner's slot |
| `bus` (`MCEventBus.cfg`) | 2 bands of 2 events, one publisher; 3 publishes with one start, or 1 publish over a restart, by one controlling thread; 1 publish with one start, or a restart without events, by two whose calls cross | every order of publishing, dispatching, raising, subscribing, starting, stopping and exiting: each event is in a band, in hand, dispatched or dropped, and counted so; no stop leaves a dispatcher unless a start crossed another thread's call |
| `bus_stop_any_thread` (`MCEventBusStop.cfg`) expects a violation of `StopIsSafeFromAnyThread` | one start, two threads, no events | a stop from another thread while start is at work leaves a dispatcher that nobody has asked to end |
| `runtime` (`MCRuntime.cfg`) | 2 instances with equal or different ids, queue of 1, 2 records, 1 order each, one controlling Domain making any calls, two adding ones | registration, feeding, pausing and stopping, interleaved access by access |
| `runtime_orders_after_stop` (`MCRuntimeRace.cfg`) expects a violation of `StoppedHasNoOrders` | 1 instance, stop_instance against a step | an order admitted after `cancel_all` |
| `trading` (`MCTrading.cfg`) | the fill engine alone: pairs of orders of quantity 2 covering the order types and times in force, prices 1..4, 3 passes, latencies 0 and 1, all maker models and triggers; or the drivers alone: 7 strategies, with and without limits and latencies, two of them with jitter, 5 records of which one may be late, 2 symbols, 2 prices, days of 2 time units | the matching pass; live and backtest step by step on the same records |
| `position_cover` (`MCDriversCover.cfg`) expects a violation of `ReducingShrinks` | one strategy, 4 records | buying back part of a short enlarges the book the other way |
| `services` (`MCServices.cfg`) | one key, one peer; budgets for guesses (5 requests, at any endpoint), key changes (2 edits, a ticket), tickets (3, table of 2), failing writes (2 faults, 3 records, 2 days); intervals of 2 ticks | the server's requests, streams and pushes on a key file that changes under them, and the log they leave |
| `site` (`MCSite`) | eight set-ups: no `EventSource`; no key store and two instances; the published site without a daemon; sign-out and a key of spaces; a daemon whose health is 503; a proxy that breaks streams; a restart; a replay without `EventSource`. Rings of 2 points, 2 tries of a stream, 3 runs of `begin()` | tickets are used once, controls follow the stored key, a key is asked for again, no page stays dead, charts keep their scale, the tables show the newest fills and agree with the figures, the benchmark page adds up and its tooltip is the nearest point's, a guide's highlight catches up |

### Why the bounds are enough

* Rings: index arithmetic depends on positions only through "full", "empty" and wrapping; 4
  slots (3 usable) give an empty, a partly full and a full ring on either side of the wrap.
  The theorems of section 6 remove the bound for `SPSCQueue`, for the ring of `Processors`, for
  `RingBuffer` with one producer and one consumer, and for its count until the tail has gone
  round. `queues` keeps the pushes of two producers below one turn of the ring on purpose: with
  a full turn an index returns to its old value and a stalled compare-and-set succeeds on stale
  data, which the code does not exclude (section 5). `RingCountsPending` says so itself.
* Bus: two bands show priority and the scan's one-event inversion, capacity 2 shows drops,
  two starts show a restart, and two threads let every stop, exit and start cross every other:
  what a third could add is one more call to cross. A third band adds no new kind of overtaking:
  the scan's promise is about a pair of bands. `Init` chooses between the budgets so that one run
  explores them all; section 6 removes the bounds.
* Runtime: the queue of 1 is full and empty at every turn; two instances are enough for a
  failing one and a bystander and for two racing additions; one order distinguishes "none"
  from "some". Races between two control calls on the same instance are what the violation
  run and section 5 describe.
* Fill engine: quantity 2 has a partial and a complete fill; a print of 1 or 2 units exhausts,
  meets or exceeds the queue ahead; three passes let an order arrive, trigger or be cancelled,
  and be matched afterwards; the variable `engine` runs over maker models and
  triggers. `MCTrading` puts the two halves side by side and lets one of them work, so that
  their states add up and do not multiply.
* Drivers: five records are two in a day, a day's turn and an exit; one late record is enough to
  tell the drivers apart, and may fall back over midnight; the capital is small so that every
  limit is reached.

* Services: an interval of 2 ticks has an inside and an end; four failures (twice the limit of
  2) are what two adjacent windows can admit; one edit before and one during a reload are what
  a reload can miss; three tickets overflow a table of two; two faults are one that tears a
  frame or header and one after the restart. Records and days only matter as first, next and
  next day.

* Processors: five ticks turn the ring of four slots once; a table of one entry evicts at every
  new symbol, and a table of three, with two symbols and two intervals, in the middle of a
  tick's work. Times -1, 1, 2 and 3 are on both sides of 1970, of the bounds of an interval of
  2, and of a published snapshot's age.
* Feeds: the breaker opens after three failures and again after its pause; three frames are a
  first trade, a gap and a late one; alerts age past their window of 2 while the link is
  down. Two hosts are what the process-wide guard is about; a program of six calls has a start
  that is refused, one that is tried again and one of a host already started. The whole of the
  data goes by in the two programs with one fiber: what the others vary does not touch it.

* Site: two points are a ring that has turned; two failures are one that retries and one
  that gives up (the code has four); three runs of `begin()` are a load and two submitted
  keys, whose streams, timers and answers overlap. Each set-up bounds what operator and
  environment do (`left`): the case it is for, and one more step than that takes. Three
  metrics over up to three commits have a section known and one not, commits out of order,
  a metric twice in one, and a throughput as well as times. A guide of three sections ends
  with one too short for the probe line.

In `bus`, `queues`, `trading`, `services`, `feeds` and `site` a variable chosen by `Init` and never changed (`budget`,
`setup`, `engine`, `cfg`, `trial`, `program`) holds the configuration, so that one run covers several.

Deadlock is checked in `ring_lost_push`, whose threads poll for ever; the other systems may really
stop (the bus or a processor is stopped, the feed has ended, the data are over), so their
configurations turn it off.

### What the properties leave out

* `PermanentMissNothing` is about subscriptions that want every band; one with a filter is handed what
  matches by the same step, which no property counts.
* `EveryRecordAccounted` counts a drained record whether or not the instances still listen, and
  `CleanStopSettles` speaks of stops that met no step, no other call on the same instance and no raising `on_stop`:
  what the others do is in the violation `runtime_orders_after_stop` and in section 5.
* `RingCountsPending` excludes a stall over a full turn of the ring.
* `RevocationBites` has a key file that is there; while it is missing the daemon keeps the keys it has
  (`keystore.ml:272`), so that removing the file revokes nothing. That look is left out.
* `BreakerHolds` counts failures since the last success, as the code does: a connection that is made and
  whose subscription is refused, for ever, opens no circuit. `FeedNeverHangs` takes an open silent connection
  for a feed that works, and `NeverADeadPage` an open stream without frames.
* `CommandsAreOnRecord` is about a daemon with an audit directory.

### Fairness

Safety properties use none. The liveness properties:

* `TicksAreTaken`: weak fairness of the drain Domain, which polls in a loop on a core of its
  own, and of a `stop` that has won `joined`. Nobody has to publish or to call stop.
* `FeedNeverHangs`: weak fairness, while the host's Domain runs, of the fiber, whose waits all
  end by an event the Lwt scheduler delivers, of time, of the watcher, of the publisher and of
  the return of `Lwt_main.run`; of a call of start or stop once begun; and of the end of a fiber
  that has been told to stop. The exchange owes nothing; that the feed returns is claimed
  only for one that stays reachable, and a stop ends it whatever the exchange does. No
  program has to start or stop a host.
* `PublishedIsDispatched`: weak fairness of the dispatcher and of start and stop once begun.
  Nobody is assumed to publish, start or stop. The publishes of the model end; in the code
  an endless stream in a higher band may starve lower ones, which strict priority intends.
* `NeverADeadPage`, `AsksForAKey`: weak fairness, for each run of `begin()`, of its decision
  (the probe answers or its timer fires: a probe may hang for ever), of its stream's progress
  (a mint, an opening and a wait end one way or the other) and of the fetch of the recorded
  demo; and of the comparison's poll, a timer. An operator never has to type a key, a daemon
  never has to come back; `AsksForAKey` speaks of one that stays up.
* `HighlightCatchesUp`: weak fairness of `Paint`: a browser paints the frames it was asked for.

## 4. What the violations show

Each is recorded with the quoted line in `PROJECT.json` under `findings`.

1. `data_structures.ml:69`: with two producers, `push` writes its slot before it claims it.
   Feeds run on one Lwt Domain, but alerts and other publishers on other Domains share bands.
2. `instance.ml:488`: `finish` cancels orders while `step` may be admitting one.
3. `position.ml:137`: reducing a short adds the absolute holding instead of the signed one.
4. `ingestion_supervisor.ml:63`: the published `critical_drops` is copied from the connection
   supervisor when the connector has ended (line 121), so while a feed runs it is zero, and the
   health of ingestion does not fail on the "any `critical_drops`" of `telemetry.md:103`.
5. `event_bus.ml:148`: `event_bus.mli:17` says of stop "Safe to call from any thread". A stop that
   another thread makes after start has claimed `running` sets the request and finds no Domain to
   join; start then clears the request and spawns. The bus says it is stopped, a dispatcher lives
   that nobody asks to end, and a further stop does nothing, since `running` is false. (When start
   clears first, the dispatcher ends, but stop has returned without joining it.) Stops and exits may cross each
   other: `StopLeavesNoDispatcher` is what is left of the promise, and proved.

## 5. Further disagreements met while translating

These have no run; they are behaviours of the model that no property forbids, or details the
models abstract, noted for the maintainers.

* `instance.ml:107`: pause tests the lifecycle and sets it in two steps and can overwrite
  Stopped. `instance.ml:483`: the idempotence of stop rests on a plain ref. `supervisor.ml:171`:
  the final drain feeds instances that are already stopped. `instance.ml:487`: a raising
  `on_stop` leaves orders working and the lifecycle Running.
* `fill_engine.ml:143`: a repeated cancel moves the effective time of the first;
  `fill_engine.ml:183`: an iceberg is never sliced; `fill_engine.ml:283`: the maker path ignores
  `allow_partial`; `fill_engine.ml:358`: an aggressive limit may pay beyond its limit;
  `fill_engine.ml:377`: an immediate-or-cancel limit that does not cross rests.
* A start that follows such a crossing spawns a second dispatcher beside the first: two scan at once,
  and priority and the final drain hold of neither.
* `data_structures.ml:52`: `size` reads the head and then the tail, so with pops in between it answers
  more than was ever in the ring, or less after a wrap; `is_empty` and `is_full` rest on it.
  `RingCountsPending` is about the two indexes at one moment.
* `fill_engine.ml:397`: the fill-or-kill probe is on the taker path only; a fill-or-kill limit
  that does not cross rests and may fill in part.
* `audit_log.ml:273`: `previous_file` looks for names of 20 characters, those of `file_for` have
  18. Every new day's header has the zero hash for the day before (`AuditLog` has it so),
  against `audit_log.mli:35`, and `Verify.directory` takes every second file for broken.
* `audit_log.ml:299`: after a torn frame a restart appends behind it; those records are
  acknowledged and can never be read back (verification reports the tear, `NothingVanishes`).
  `audit_log.ml:314`: a header cut short is not noticed until the file is read.
* `server.ml:271`: a stream opened with a ticket gets its first frame without a look at the key,
  so for the life of a ticket after its key was revoked one frame may still be sent;
  `RevocationBites` is about requests and pushed frames.
* `server.ml:363`: both branches write an audit record, so a burst of failures writes up to
  `max_failures` per window, where `rate_limit.mli:6` speaks of one.
* `server.ml:385` and `427`: a refusal at `/api/stream-ticket` or `/metrics` is neither limited, counted
  nor recorded, and `server.ml:320` makes the peer of address and port, so that a new connection
  has a fresh counter. `rate_limit.mli:3` names slowing a brute-force attempt as the limiter's first
  job: of that the code keeps what `RefusalsBounded` says, a bound for the requests of one
  connection that `handle_api` refuses.
* `keystore.ml:284`: a failed reload records the file's mtime; a chmod that puts the mode right
  does not change it, so the file stays unread until its next edit (`Gateway` has the case as
  mode "fixed"; `RevocationBites` excuses it).
* `connector_runtime.ml:188`: nothing calls `read_timed_out`, though `data_ingestion.md:140` says
  that `read_timeout_ms` of silence forces a reconnect: a connection that stays open and silent
  is read for ever. `data_quality.ml:105` compares an exchange's wall clock with the
  monotonic clock that `connector_runtime.ml:55` passes, so a stale tick is never reported.
  The first back-off is of two seconds, not one. `connector_runtime.ml:258`: a failed subscribe
  leaves its socket open. An alert the bus refuses is suppressed for its window all the same.
  The rate limiter is created and never asked.
* `lwt_host.ml:87`: a stop of a host that was never started marks it as joined; if it is started
  afterwards, no later stop stops it, and the process-wide guard stays taken. Two threads that
  start and stop one host at once meet the same: a stop between the second compare-and-set
  and the write of `t.domain` joins nothing and frees the guard. `LwtHost` has one calling thread and
  programs that start no stopped host (`ProgramAssumption`), as those in `bin/` do.
* `ingestion_supervisor.ml:154`: as a tenant of a host, ingestion's own stop raises a flag nobody
  reads and answers with the latest snapshot, not the final one; the caller stops the host.
* Processors: an event the dispatcher had already matched when the handler was unsubscribed
  may be enqueued after the drain Domain's end and stays in the ring
  (`TicksAccounted` counts it there). `pairs/processor.ml`: `feed_bar` would be a second producer
  on the ring, though nothing calls it; a tick out of order overwrites the cached price of its
  leg. With more intervals than table entries a symbol evicts its own bars.
* `audit_log.ml:331` closes a channel twice; an instance added after the runtime's stop is
  never stopped; `admit` of an id already working replaces that order.
* The ring's indexes are masked, so a full turn during a stall defeats the compare-and-set.
* The at_exit hook of the bus leaves `running` true when it joins a dispatcher.
* Live and backtest agree for strategies that act on market events; one that reacts to its
  fills, refusals or timers sees them at other moments (live tells fills at once, does not
  tell refusals and runs no timers).
* Latencies with jitter part them too: the generators differ in seed (`engine.ml:87` takes a
  substream of `root_seed`, `instance.ml:118` its own `seed`) and in what is drawn, since only the
  backtest draws for what it tells the strategy (`engine.ml:262`, `393`, `403`). So orders reach the
  venue at other times. The default latency has no jitter (`latency.ml:18`), and
  `test_parity.ml` sets none.
* A record out of order parts them as well: `data_source.ml:145` drops it before the backtest, and
  `instance.ml:406` processes it, with a clock that goes back. If it belongs to the day before, the live
  day is rolled back and forth and its opening NAV, from which `max_daily_loss` counts, is taken anew
  both times; and the next interval of financing is charged again from the late record on. `live_runtime.md:47`
  promises that fills, counters and NAV "agree exactly"; `DriversAgree` says under which conditions.
* A position the backtest's final pass opens is not marked unless it is flattened; a first
  fill is unmarked until the end of its record, so NAV dips by its notional meanwhile.
* `risk_limits.ml:81` compares an exit with the position at its submission and ignores working
  orders: two exits, each admitted alone, can together cross to the other side during a breach.

The dashboard (`dashboard.js`), as `Dashboard` translates it:

* Line 511: any answer of `/api/health` that is not ok counts as no daemon, also the 503 of a
  daemon with a failed subsystem, so that its operator sees the recorded demo;
  `docs/guides/dashboard.md:44` promises the demo when nothing answers.
* The demo's timer is never cleared: when a key is submitted on a page that shows the demo,
  recorded and live frames alternate. Every submitted key opens a stream beside the ones
  before, which nothing closes.
* `whoami` has no generation: the answer for a key replaced or signed out meanwhile sets the
  controls (`ControlsMatchTheKey` excludes it by `gone`).
* A key of spaces is stored as none: submitted after a sign-out it turns the controls on again.
  On an open daemon a left-over key turns them off, as a sign-out does.
* After a sign-out, or with a key that is refused, polling goes on, and each answer is a 401
  that reopens the prompt. The comparison is polled without asking whether there is a key.
* A poll does not look at `r.ok`: the body of a 401 is rendered as a frame of zeros. A polled
  frame has no source, so that a replaying daemon is coloured as if it breached. The label
  stays "disconnected" once a poll has failed.
* The blank frame rendered on load puts a first point at zero in the charts.
* `chart.js:132` and `155` let a null through, which the global `isFinite` takes for 0: it is
  drawn at 0 and widens the domain (`fmtNum` at line 42 tells a null apart). `chart.js:144` widens a
  single instant by 1, which is lost in a double of 1.7e18: its place is 0/0 and nothing is drawn. The
  daemon does not send one instant: `live_compare.ml:26` asks for eight aligned points.
* `live_compare.ml:87` writes the curve's values with a plain `` `Float ``, without the guard of
  `json.ml:11` ("Yojson emits bare NaN/Infinity, which no JSON parser accepts"): with a NAV
  that is not finite the page cannot parse the answer and keeps the last comparison
  (`dashboard.js:611`). `live_compare.mli:7` says that `Json.of_series` serialises the curve, but only a
  test calls it.

The benchmark page: a throughput that falls to zero is coloured as worse and not counted as a
breach, since CI's ratio divides by it. The highlighter ends a nested OCaml comment at the first
`*)`.

## 6. Proofs

`Queues_proofs` proves first, of the ring alone, for every positive number of slots and every set of payloads
(`CapacityAssumption`, `ItemAssumption` of `SPSCQueue`; the code rounds the
capacity up to a power of two, and `NoItem`, its `None`, is no payload):

* `TypeCorrect` and `SlotsAlwaysAgree`: `TypeOK` and `SlotsAgree` are invariants. Neither is
  inductive alone: that a slot holds an item when it is read depends on what the producer
  has written before it published, and the types of `tail + 1` and `contents` on the indexes
  staying in range. `IInv == TypeOK /\ SlotsAgree` is inductive; each action's step is a
  lemma-sized proof over `Used`, the number of published items, and the fact that a producer
  in the middle of an enqueue still sees `Used < Capacity - 1`.
* `ReadsOnlyItems`: dequeue never finds `None` in a slot the indexes call full.
* `RingIsBoundedQueue`: `Spec => Abstract!AbsSpec`. Under the mapping `contents` (the items
  between the indexes, the oldest taken from the consumer's hand once its slot is cleared)
  `EnqueuePublish` is a put, `EnqueueFull` a refusal, `DequeuePublish` a take, `DequeueEmpty`
  an empty answer, and every other action leaves the abstract queue alone.

The arithmetic of the wrap is stated once, in lemmas about `Succ`, `Wrap` and `Used`.

And of the ring inside a processor, for every processor, table size, set of ticks and moment of
a stop (`ProcessorAssumption`):

* `RingUsedAsSpecified`: `ProcSpec => Spec`. The handler runs on the dispatcher only and the
  drain Domain alone pops, so that each step of a processor is a step of the ring or leaves
  it alone; hence `RingsAreBoundedQueues`, all that is proved of the ring holds in them.
* `EveryTickAccounted`: `TicksAccounted` is an invariant. It is not inductive: it needs that
  the dispatcher is inside enqueue only while the handler is and that the Domain is inside
  dequeue only while it pops (`Linked`), and, from `IInv`, that what a dequeue publishes is
  a tick and not `None`. `WindowGrows` and `WindowShrinks` of the ring's proof give how
  `Used` changes; the counters' arithmetic is split from the quantified facts.
* `BarsAreTheCalendars` (`BarsCoverTicks`): bars are made by folds over the table and over the
  intervals of a symbol, so the invariant is one of the table (`TableOK`): the bars of each of its
  cells, closed and open, are those the ticks since its entry make by the calendar, in order,
  and what was not `OnTime` is counted as late (`CellOK`). One tick into one bar is arithmetic of
  `BarOpenFor`; `CellCovers` reads the property off.

And of the compare-and-set ring (`RingBuffer`, instantiated as `Ring`), for every capacity, set of
threads and number of pushes (`RingAssumption`):

* `CasRingIsBoundedQueue` (the run's `RingIsQueue`): with one producer and one consumer it refines the same bounded FIFO.
  `PairInv` says that what a thread has loaded is still true when it uses it: the tail the producer holds
  and the head the consumer holds are the ring's, the room or the item it has seen is still
  there, and the slot written before the claim still holds the item. So neither ever retries. That nobody
  but the pair moves is `OnlyThePair`. With a second producer the slot's part fails, which is
  the violation `ring_lost_push`. The types hold for any number of both (`CasRingTyped`).
* `CasRingCountsPending` (`RingCountsPending`): the distance from head to tail is a true count. With one pair the reason is `PairInv`
  (`PairCounts`). With any number of threads it is `NotRound`: until the tail has gone round
  once it is the number of pushes itself, what a thread loaded can only be left behind, and a
  compare-and-set that succeeds proves that it was not. After that it can fail: a thread
  overtaken by a full turn between its read of an index and its compare-and-set finds the
  masked index equal again. So the property says "until".

`EventBus_proofs`, for every number of bands, publishers, subscriptions, events, restarts and
controlling threads:

* `BusInvariant`: `BusInv` is inductive. As long as nothing `crossed`, `Alone` says that whoever is inside
  start is alone there, and `OneAlive` that a live dispatcher is the one being started, else the
  one the bus knows, that the stops and exits that join at the same time join that one, and that nobody lives while a start is
  still before its spawn; hence `StopAlwaysLeavesNoDispatcher`. Once a start has crossed another
  thread's call it is false, which is the violation `bus_stop_any_thread`.
* `NobodyIsOvertakenTwice` and `DrainLosesNothingEarly` from `InOrder`: a band the scan has found empty and
  left behind counts nobody passed over, and in the final drain holds late events only, because
  nobody clears the stop request while a dispatcher lives.

* `EveryEventIsAccounted`, whatever crosses: `FlowInv` counts an event as a
  unit that is pushed and not yet counted, waits in a band, is in a dispatcher's hand or has been
  dispatched; `Total`, the sum over the bands, is the size of a set of such units, so that a step
  adds or removes one element. A publish that came back is counted as published or as dropped.
* `PermanentNeverMiss`: `DeliveryInv` relates what each permanent subscription has been handed to the
  list of dispatched events and to how far the current dispatch has come in the table. The attempt
  showed what the claim rests on: subscription ids are unique (`BusAssumption`), for an
  unsubscribe removes one entry and must not remove another's.

`RuntimeSupervisor_proofs`, for every capacity, number of instances, controllers and records:

* `RecordsAlwaysAddUp`: `EveryRecordAccounted` is an invariant, with the types of the queue and
  of the drain Domain beside it (`AccountInv`). The control calls leave the flow alone, which
  one lemma says of them all.
* `AddsNeverUndone`: `AddedStays`. The invariant `AddInv` says that between its read and its
  compare-and-set an adder holds a list without its id; since the set succeeds on that list
  only, the id is new in the list it replaces.
* `NoRunnerIsSkipped`: `RunningGetsEverything`. `FedInv` says what each instance is owed: the
  records drained since it was registered, less one while it still stands in the list the
  Domain is going through, which holds no instance twice. A record that is counted and whose list
  has not been read yet (`HandedOut`) is owed to all that are in the list by then.
* `CleanStopsSettle`: `CleanStopSettles`. `StopInv` says that when two Domains are finishing
  one instance, as the unguarded `stopped` allows, whichever has cancelled its orders has run
  `on_stop`, and that no step is inside an instance whose stop counts as clean.

`FillEngine_proofs`, for every set of orders, markets and records with natural sizes, every
configuration and every pair of latencies (`FillAssumption`):

* A pass is treated one order at a time. `Passed(w, f, t)` says what a pass at time t may make of
  order w: the same intent and times, no more remaining, less only if w was live, and a status
  the table allows with the reason for it. `ProcessPasses` proves it of the whole chain
  `Process`, `MatchOrder`, `Take`, `Rest`, from lemmas on each. With it go the fields of the queue
  (`QueueOK`): what is left of the queue is what was ahead of the order less what has been printed
  since, whatever number of prints and partial fills there was.
* `FillsOnlyWhenLive` (`FillsWhenLive`), `OrdersFollowTheTable` (the refinement of `OrderLifecycle`, with
  `StatusOf` as its mapping) and the first half of `QuantitiesAlwaysBalance` follow from
  `EngineInv`: the two tables are disjoint and hold working and retired orders, all with a
  sound queue. An iceberg has no limit price in this engine and never rests, hence the case
  in `QueueOK`.
* `QuantitiesAlwaysBalance`: `BooksInv` counts. `RetiringCounts` says that closing a set of orders adds to
  the orders not filled, and to the units left, exactly those of the set; `OneReasonEach` that
  those of one pass split into the four counters without overlap, a due cancel before a
  time in force.
* `EngineTyped`: no order fills more than it was for.

`Drivers_proofs`, for every finite set of symbols, every plan, configuration (with the offsets each
driver draws), day length and sequence of records, late ones among them (`DriversAssumption`; `SymbolsAssumption`, for
the sums over the positions):

* `RunUnfolds` gives the recursive function `Run` its meaning: a list of happenings is taken one after
  the other. It, `SumIsInt` and every lemma "a run keeps this" are inductions over naturals or
  set sizes, by `Induction` over a set of naturals, which needs no operator as a parameter.
* `DriversInvariant`: `IInv` is inductive. It holds the types, `Losses` (the peak is a NAV on record, and none is
  higher) and `Resting`: between records the book is worth what was recorded last, and the
  day opened at the last NAV of another day (an earlier one, unless a record was late). What the final pass does to the book
  is not `Resting`: nothing records a NAV after it.
* `GateAlwaysSeesTrueLosses` (`GateSeesTrueLosses`) follows: a roll that came late, or used a mark of the
  new day, would break `Resting`.
* `ReducingNeverRefused` (`ReducingIsNeverRefused`): `TowardsFlatReduces` says that an order against a position, no larger
  than it, is one the gate calls risk-reducing.
* `DriversAlwaysAgree` (`DriversAgree`), for plans that answer to market events, without jitter and as long
  as no record was late: two states are `Alike` when they differ only in what the strategy was
  told and in the messages held back for it. Whatever tells or delays, in the one driver and not in the
  other, changes nothing else (`TellingChangesNothing`, `ReleaseChangesNothing`), and each part
  of a step (arrivals, ticks, matches, settlement, gate) takes alike states to alike states.
* `EveryFillIsHeard` (`HearsEveryFill`), for every plan: `PostInv` says that the numbers of the fills
  told and of those held back are `Shared` out: each of the blotter is in one place, once (`Posted`,
  `Held`). Without jitter they are `Ascending` through both, since `inbound` stays sorted by release and
  a later fill is never due earlier; with jitter it may be, and only "once" is left.
* `BooksAlwaysBalance` (`BooksBalance`): the book's quantities are the sums of the fills, and NAV is what the
  fills have made (`BooksInv`). Each driver's NAV is claimed as long as its own
  blotter covers no short in part (`CoversInPart`), because the code then books the wrong holding: the finding of the run
  `position_cover`. Up to such a fill the theorem holds for every plan, and the plans of the run
  `trading` make none.

`Gateway_proofs`, for every number of keys, peers, tickets and days and every interval and limit:

* `LogNeverVanishes` from `AuditInv`: a file on which no write went wrong is `Sound` (whole header,
  unbroken chain), an open writer stands at the end of its file with its sequence number and
  hash, and what was acknowledged is among the frames.
  `ServerDrivesTheLog` is the refinement (each step of the server is a step of the log or leaves it
  alone), and `NothingVanishesUnderTheServer` their conclusion; `CommandsStayOnRecord` adds `CommandsInv`.
* `RefusalsStayBounded` from `LimitInv`: the counter of a connection stands for its last refusals by
  `handle_api`, the first of them the one it remembers, and whatever was refused `MaxFailures` or more
  before that one is a window older. Requests to the ticket and metrics endpoints in between
  change neither.
* `TicketsStayGoodOnce` from `TicketInv`: the table is sorted by age, and what was minted is in it, was
  used, grew old or was crowded out.
* `RevocationAlwaysBites` from `KeysInv`: what the store holds of a key is what the file says of it,
  for every key the file says nothing new of since the last look at it. The proof needs
  `changedAt` for each key; a first form of it, which an edit of another key could move, failed here
  and not in the run, whose budget has one key and two edits.
* `GatewayTypeCorrect`, with the bounds of the tables.

`Ingestion_proofs` first, of the feed alone, for every range of trade ids, threshold, back-off, pause and trial
(`FeedAssumption`; `DropsAssumption` keeps the counters' bound beyond what the feed can lose):

* `GapsAlwaysAddUp` and `EveryEventCounted` from `DataInv`, which ties what the gate last saw
  to the ids lost and taken, and the events to the counters.
  `FeedAlwaysAddsUp` is the two together, the form the run checks.
* `BreakerAlwaysHolds`: `BreakerInv` relates the consecutive failures of the supervisor to
  those since the last pause, and the rest of an open circuit to the age of that burst.

And of the feed in its host, for any number of hosts and fibers and every program that starts no host
it has stopped (`ProgramAssumption`) and runs the connectors on their host (`HostAssumption`):

* `StopAlwaysLeavesNothingBehind`: `StopLeavesNothingBehind` is an invariant. That no two Domains
  run is not inductive: `GuardInv` says who `Holds` the process-wide guard (a host past both
  compare-and-sets and not yet past the last line of its stop), that the guard is taken while
  one does, that no two do, and that a Domain runs only for the holder; `CallsInv` that a host
  being started has never been stopped. `FinalInv` says that once the connectors have ended the
  table and the snapshot are the feed's own counters, whichever fiber writes last.
* `HostedFeedAddsUp`: `FeedAddsUp` and `BreakerHolds` for the feed inside its host, since each step of
  the process is a step of the feed or leaves it alone (`StepIsFeedStep`).

`Site_proofs`, for every set of keys, limit of failures and of runs, daemon, browser, document,
report and history (`FrameAssumption`, `SectionAssumption`, `HistoryAssumption`):

* `ControlInvariant`, `TicketsSpentOnce`, `ControlsFollowTheKey`: an invariant of each run of
  `begin()` (a redeemed ticket stays with the stream it opened; the key of the last run is the
  stored one unless it was signed out) from which both properties follow.
* `RestingHighlightIsRight`: a guide with no frame pending highlights the section at the probe
  line: what `HighlightCatchesUp` reaches is right whatever the sizes of document and window.
* `ChartsAlwaysKeepScale` (`ChartsKeepScale`): `ScreenInv` says what is on the screen, samples of whole
  numbers and a report. `ReadAsNumbers`: what `Drawable` keeps of a curve, nulls included, are numbers. `Share` rounds to the nearest hundredth and is monotone (`ShareBounds`,
  `ShareGrows`), so that nothing leaves the plot and a place further right or higher means a
  later or higher value, though two values may share one; `ShareEven` that equal times take equal room but
  for one hundredth. On shared axes that needs two instants that differ as doubles (`Spread`).
* `TablesAlwaysTellTheBook` (`TablesTellTheBook`): `RankedSorts` (a strict order on places gives a permutation
  along it), `Flattened` and `SumUnfolds` (a sum is the same whichever element is added last)
  are what sort, flatten and the sums of the page come to; `NumberIsNear` bounds the rounding of a
  nanosecond to a double.
* `BenchAlwaysTellsTheRecord` (`BenchTellsTheRecord`): `FlatIsLaidOut` and `KeptSelects` say which element of which
  list each element of a flattened or filtered one is, `Partition` that disjoint sets have as many
  elements together as their sizes add up to. So the cards' runs, the points and the marks of
  the entries are counted as one set. The tooltip needs `BenchInv`: it is up only while the pointer is in
  its band, whose dot is the nearest (`NearestBand`). The sections' titles have to differ, or
  a panel would be drawn twice (`SectionAssumption`; those of the code do).

Only model-checked:

* All liveness, which this prover cannot reach, as it combines fairness and ENABLED: `TicksAreTaken`,
  `PublishedIsDispatched`, `FeedNeverHangs`, `AsksForAKey`, `NeverADeadPage`, `HighlightCatchesUp`.
* The violations of section 4: they are counterexamples, and there is nothing to prove.

Every other property of the passing runs is stated by a theorem.

## 7. Not modelled

* Floating-point numerics (statistics, regressions, Monte Carlo, optimization, reports,
  histograms): a state model tells nothing about them.
* Formats (JSON, HTTP, Prometheus text, binary encodings), exchange parsers, command lines.
* `LockFreeStack`, `LockFreeHashTable`, memory-mapped and zero-copy buffers: no live component
  uses them.
* `site/assets/highlight.js`: one pass of a regular expression over static text, without state.
* Of the dashboard: number formatting; and that the server's limiter may answer 429.
* Of ingestion: the heartbeat, which has no state; how long a connected feed has been silent.
* Within modelled components: `Verify.directory`; path routing, static files, headers and the bind check of the
  server, and a server without a key store; encoding and hashing of audit records; latency instrumentation of the bus; allocation and NAV history
  of the runtime; average prices, slippage and permanent impact; bar and pair events of the
  drivers.

## 8. Roadmap

In order of importance:

1. `AlertRegistry`, `CircuitBreaker` and the risk monitor's day; the daemon's order of start and
   shutdown over `LwtHost`; hosts used by several threads.
2. Corporate-action breaks and cross-feed checks; order routing and the search-space and
   walk-forward splits as operators checked against their definitions; the pairs strategy as
   a further plan of `Drivers`; the event log's torn tail beside `AuditLog`.
3. Proofs: that what `Drivers` takes its venue to do is what `FillEngine` does with whole orders.
