----------------------------- MODULE Dashboard ------------------------------
(***************************************************************************)
(* site/dashboard/dashboard.js: one page in one tab, and the daemon as far *)
(* as the page can tell.  JavaScript runs one callback at a time, so an    *)
(* action is a callback: an answer to a fetch, a timer, an event of an     *)
(* EventSource, a click.  Requests in flight carry the key they were sent  *)
(* with and are answered in any order.                                     *)
(*                                                                         *)
(* begin() runs once per load and once per key submitted.  What one run of *)
(* it holds (its `settled`, its timer, the demo or the stream it started)  *)
(* lives in closures nothing cancels: it is an element of `visits`.        *)
(***************************************************************************)
EXTENDS Charts, Tables, FiniteSets

CONSTANTS
  Keys, NoKey,          \* what an operator may type, and no key
  Accepted,             \* the keys the key store accepts,
  Controllers,          \* those of them with the scope "control"
  Cap,                  \* CAP: points a chart keeps (240)
  Tries,                \* failures before a stream gives way to polling (4)
  MaxVisits,            \* bound on the runs of begin() in one page
  Sla,                  \* latency.sla_ns
  Setups                \* the configurations to explore

ASSUME KeyAssumption == NoKey \notin Keys /\ Controllers \subseteq Accepted /\ Accepted \subseteq Keys
ASSUME SetupAssumption == \A s \in Setups : s.keys \subseteq Keys \union {NoKey}
ASSUME FrameAssumption ==
  /\ NaN \notin Int /\ Null \notin Int \union {NaN} /\ Sla \in Int
  /\ \A s \in Setups :
       /\ s.p99 \in Int /\ s.depth \in Seq(Nat) /\ Reported(s.insts)
       /\ s.curves \in Seq(Seq(Int \X (Int \union {NaN, Null})))
ASSUME BoundAssumption == Cap \in Nat \ {0} /\ Tries \in Nat \ {0} /\ MaxVisits \in Nat

VARIABLES
  setup,        \* the configuration: the daemon, the browser and the bounds
  left,         \* what operator and environment may still do (bounds)
  up,           \* the daemon answers
  lifecycle,    \* of the daemon's strategy instance
  key,          \* sessionStorage: survives a reload, not the tab
  visits,       \* the runs of begin(), <<>> while the page is closed
  canControl, prompt, banner, conn, source, polling,
  recent,       \* the rings behind the charts: the last Cap frames
  screen,       \* what the last frame left: enabled buttons, the SLA and the
                \* colour of the p99, the bars of the bus, the instances its
                \* tables are made of, the rows of components and alerts
  calls,        \* other requests in flight
  comparing,    \* the comparison panel is shown
  gone          \* history: a whoami answer came for a key no longer stored

world == <<setup, left, up, lifecycle>>
labels == <<prompt, banner, conn>>
charts == <<source, recent, screen>>
vars == <<world, key, visits, canControl, labels, polling, charts, calls, comparing, gone>>

Actions == {"pause", "resume", "stop"}

-----------------------------------------------------------------------------
(* The daemon: "none" is the published site, where /api is a plain 404. *)
Accepts(k) == setup.daemon = "open" \/ (setup.daemon = "keyed" /\ k \in Accepted)

Answer(k) == IF setup.daemon = "none" THEN "absent"
             ELSE IF ~up THEN "unreachable"
             ELSE IF Accepts(k) THEN "ok" ELSE "refused"

(* api: a request that is refused brings up the prompt, whatever the key. *)
AskedOnlyFirst(k) == prompt \/ (Answer(k) = "refused" /\ k = NoKey)    \* a wrong variant
Asked(k) == prompt \/ Answer(k) = "refused"

(* setApiKey, promptForKey, setConn: what the three helpers write. *)
SetApiKey(k) == key' = k
PromptForKey == prompt' = TRUE
SetConn(label) == conn' = label

Spend(what) == left[what] > 0 /\ left' = [left EXCEPT ![what] = @ - 1]

-----------------------------------------------------------------------------
(* render: the frame goes into the charts and onto the page.  A frame of   *)
(* the stream and demo.json name their source; a polled one does not.      *)
BlankFrame ==
  [source |-> "", p99 |-> 0, sla |-> NaN, eps |-> 0, depth |-> <<>>, nav |-> 0, lifecycle |-> "",
   insts |-> <<>>, components |-> <<>>, alerts |-> <<>>]
ErrorFrame == BlankFrame     \* {"error": ...} has none of the fields
DemoBook == [id |-> "demo", realized |-> 1, positions |-> <<>>, recent |-> <<2, 1>>]
DemoFrame ==
  [source |-> "demo", p99 |-> Sla + 2, sla |-> Sla, eps |-> 2, depth |-> <<0, 0, 0, 0>>, nav |-> 3,
   lifecycle |-> "running", insts |-> <<DemoBook>>, components |-> <<>>, alerts |-> <<>>]
LiveFrame ==
  [source |-> setup.source, p99 |-> setup.p99, sla |-> Sla, eps |-> 4, depth |-> setup.depth,
   nav |-> 1, lifecycle |-> lifecycle, insts |-> setup.insts,
   components |-> setup.components, alerts |-> setup.alerts]
PolledFrame == [LiveFrame EXCEPT !.source = ""]

(* renderSystem: the age of a recorded log is not a breach. *)
Above(p99, sla) == IsFinite(sla) /\ p99 > sla
Tone(frame, from) ==
  IF from \in {"replay", "demo"} THEN "plain" ELSE IF Above(frame.p99, frame.sla) THEN "bad" ELSE "good"

(* renderCharts: a bar per band of the bus, on the scale of the deepest. *)
Bands(depth) ==
  LET deepest == Max(ToSet(depth) \union {1})
  IN  [i \in DOMAIN depth |->
         [filled |-> Filled(depth[i], deepest),
          tone |-> IF i = 1 /\ depth[i] > 0 THEN "bad"
                   ELSE IF 10 * depth[i] > 7 * deepest THEN "warn" ELSE "ok"]]

(* renderStrategies: the lifecycle decides what is applicable, the key     *)
(* what is permitted.                                                      *)
Applicable(l) ==
  (IF l = "running" THEN {"pause"} ELSE {}) \union (IF l = "paused" THEN {"resume"} ELSE {})
    \union (IF l \in {"", "stopped"} THEN {} ELSE {"stop"})

Shown(frame, from) ==
  [buttons |-> IF canControl THEN Applicable(frame.lifecycle) ELSE {},
   p99 |-> Tone(frame, from), sla |-> frame.sla, bands |-> Bands(frame.depth),
   insts |-> frame.insts, components |-> ComponentRows(frame.components),
   alerts |-> AlertRows(frame.alerts)]

Points(frame) == [p99 |-> frame.p99, eps |-> frame.eps, nav |-> frame.nav]

Render(frame) ==
  /\ source' = IF frame.source # "" THEN frame.source ELSE source
  /\ recent' = Push(recent, Points(frame), Cap)
  /\ screen' = Shown(frame, source')

(* renderCharts and renderRuntime: the p99 with its reference line, the    *)
(* events per second from zero up, the NAV.                                *)
LatencyChart == Line([i \in DOMAIN recent |-> recent[i].p99], NaN, screen.sla)
ThroughputChart == Line([i \in DOMAIN recent |-> recent[i].eps], 0, NaN)
NavChart == Line([i \in DOMAIN recent |-> recent[i].nav], NaN, NaN)

(* renderRuntime, renderPositions, renderFills. *)
FillTable == FillRows(screen.insts)
PositionTable == PositionRows(screen.insts)
Portfolio == Figures(screen.insts)

(* renderCompare: two NAV curves over time. *)
InDoubles(curve) == [i \in DOMAIN curve |-> <<Number(curve[i][1]), curve[i][2]>>]
CurvesInDoubles == [s \in DOMAIN setup.curves |-> InDoubles(setup.curves[s])]
CompareChart == IF comparing THEN Lines(CurvesInDoubles) ELSE <<>>

-----------------------------------------------------------------------------
(* A run of begin(): the probe is out and the timer is set; refreshWhoami  *)
(* has asked with the key, if there is one.                                *)
Visit(k) ==
  [key |-> k, whoami |-> IF k = NoKey THEN "none" ELSE "asked",
   probe |-> "asked", settled |-> FALSE,
   demo |-> "none", stream |-> "none", failures |-> 0, ticket |-> "none", sent |-> NoKey]

(* open: every opening mints a ticket of its own, if there is a key.  Two  *)
(* wrong variants keep a ticket, and count the failures of one opening.    *)
OpenedAgain(v) == IF key = NoKey \/ v.ticket # "none" THEN [v EXCEPT !.stream = "opening"]
                                                      ELSE [v EXCEPT !.stream = "minting", !.sent = key]
OpenedAfresh(v) ==
  IF key = NoKey THEN [v EXCEPT !.stream = "opening", !.ticket = "none", !.failures = 0]
                 ELSE [v EXCEPT !.stream = "minting", !.ticket = "none", !.sent = key, !.failures = 0]
Opened(v) == IF key = NoKey THEN [v EXCEPT !.stream = "opening", !.ticket = "none"]
                            ELSE [v EXCEPT !.stream = "minting", !.ticket = "none", !.sent = key]

(* startPolling: one timer, whoever asks for it. *)
StartPolling == polling' = TRUE /\ SetConn(IF polling THEN conn ELSE "polling")

(* startStream, startDemo, and decide, which settles a run once. *)
StartStream(b, v) ==
  IF setup.sse THEN /\ visits' = [visits EXCEPT ![b] = Opened(v)]
                    /\ UNCHANGED <<banner, conn, polling>>
               ELSE /\ visits' = [visits EXCEPT ![b] = [v EXCEPT !.stream = "ended"]]
                    /\ StartPolling
                    /\ UNCHANGED banner

StartDemo(b, v) ==
  /\ visits' = [visits EXCEPT ![b] = [v EXCEPT !.demo = "fetching"]]
  /\ banner' = TRUE /\ SetConn("recorded")
  /\ UNCHANGED polling

Decide(b, v, live) ==
  IF v.settled THEN visits' = [visits EXCEPT ![b] = v] /\ UNCHANGED <<banner, conn, polling>>
  ELSE LET settled == [v EXCEPT !.settled = TRUE]
       IN  IF live THEN StartStream(b, settled) ELSE StartDemo(b, settled)

(* The timer of a run that is settled changes nothing. *)
ProbeTimesOut(b) ==
  /\ ~visits[b].settled /\ (setup.slow \/ ~up)
  /\ Decide(b, visits[b], FALSE)
  /\ UNCHANGED <<world, key, canControl, prompt, charts, calls, comparing, gone>>

(* The health endpoint needs no key and answers 503 when a subsystem has   *)
(* failed.  A key that is missing where one is required settles the run.   *)
KeyRequired == setup.daemon = "keyed" /\ up /\ setup.healthy /\ key = NoKey

ProbeAnswers(b) ==
  LET v == [visits[b] EXCEPT !.probe = IF ~up THEN "failed" ELSE IF visits[b].settled THEN "late" ELSE "answered"]
  IN  /\ visits[b].probe = "asked"
      /\ IF KeyRequired
           THEN /\ visits' = [visits EXCEPT ![b] = [v EXCEPT !.settled = TRUE]]
                /\ SetConn("key required") /\ PromptForKey
                /\ UNCHANGED <<banner, polling>>
           ELSE /\ Decide(b, v, up /\ setup.healthy)
                /\ UNCHANGED prompt
      /\ UNCHANGED <<world, key, canControl, charts, calls, comparing, gone>>

-----------------------------------------------------------------------------
(* refreshWhoami, the answer: applyScopes, or the prompt for a 401 (api). A *)
(* daemon without key store knows everyone as anonymous, without scopes.    *)
ApplyScopes(k) == canControl' = (setup.daemon = "keyed" /\ k \in Controllers)

WhoamiAnswers(b) ==
  LET asked == visits[b].key
  IN  /\ visits[b].whoami = "asked"
      /\ visits' = [visits EXCEPT ![b].whoami = IF Answer(asked) = "ok" THEN "told" ELSE "failed"]
      /\ prompt' = Asked(asked)
      /\ IF Answer(asked) = "ok" THEN ApplyScopes(asked) /\ gone' = (gone \/ asked # key)
                                 ELSE UNCHANGED <<canControl, gone>>
      /\ UNCHANGED <<world, key, banner, conn, polling, charts, calls, comparing>>

-----------------------------------------------------------------------------
(* The stream: mint, open, frames, an error, and the wait for another try. *)
TicketAnswers(b) ==
  LET answer == Answer(visits[b].sent)
  IN  /\ visits[b].stream = "minting"
      /\ visits' = [visits EXCEPT ![b].stream = "opening", ![b].sent = NoKey,
                      ![b].ticket = IF answer = "ok" /\ setup.daemon = "keyed" THEN "good" ELSE "none"]
      /\ prompt' = Asked(visits[b].sent)
      /\ UNCHANGED <<world, key, canControl, banner, conn, polling, charts, calls, comparing, gone>>

CanOpen(b) == up /\ (setup.daemon = "open" \/ visits[b].ticket = "good")

StreamOpens(b) ==
  /\ visits[b].stream = "opening" /\ CanOpen(b)
  /\ visits' = [visits EXCEPT ![b].stream = "open", ![b].failures = 0,
                  ![b].ticket = IF @ = "good" THEN "used" ELSE @]
  /\ SetConn("live")
  /\ UNCHANGED <<world, key, canControl, prompt, banner, polling, charts, calls, comparing, gone>>

StreamFrame(b) ==
  /\ visits[b].stream = "open" /\ up
  /\ Render(LiveFrame)
  /\ UNCHANGED <<world, key, visits, canControl, labels, polling, calls, comparing, gone>>

(* onerror: the daemon refuses, is gone, or something between breaks. *)
Breaks(b) == IF visits[b].stream = "opening" THEN CanOpen(b) ELSE up

StreamFails(b) ==
  LET n == visits[b].failures + 1
  IN  /\ visits[b].stream \in {"opening", "open"}
      /\ IF Breaks(b) THEN Spend("breaks") ELSE UNCHANGED left
      /\ visits' = [visits EXCEPT ![b].failures = n,
                      ![b].stream = IF n >= Tries THEN "ended" ELSE "waiting"]
      /\ polling' = (polling \/ n >= Tries)
      /\ SetConn(IF n >= Tries /\ ~polling THEN "polling" ELSE "reconnecting")
      /\ UNCHANGED <<setup, up, lifecycle, key, canControl, prompt, banner, charts, calls, comparing, gone>>

Reopen(b) ==
  /\ visits[b].stream = "waiting"
  /\ visits' = [visits EXCEPT ![b] = Opened(@)]
  /\ UNCHANGED <<world, key, canControl, labels, polling, charts, calls, comparing, gone>>

-----------------------------------------------------------------------------
(* The demo: one fetch of the fixture, then its frame once a second for as *)
(* long as the page lives.  A daemon that is down serves no fixture.       *)
DemoArrives(b) ==
  /\ visits[b].demo = "fetching"
  /\ IF up \/ setup.daemon = "none"
       THEN /\ visits' = [visits EXCEPT ![b].demo = "running"]
            /\ Render(DemoFrame)
            /\ UNCHANGED conn
       ELSE /\ visits' = [visits EXCEPT ![b].demo = "missing"]
            /\ SetConn("no daemon, no demo fixture")
            /\ UNCHANGED charts
  /\ UNCHANGED <<world, key, canControl, prompt, banner, polling, calls, comparing, gone>>

DemoTick(b) ==
  /\ visits[b].demo = "running"
  /\ Render(DemoFrame)
  /\ UNCHANGED <<world, key, visits, canControl, labels, polling, calls, comparing, gone>>

-----------------------------------------------------------------------------
(* Calls outside begin(), at most one of a kind at a time (a bound).       *)
Call(kind, action) == [kind |-> kind, key |-> key, action |-> action]
Waiting(kind) == \E c \in calls : c.kind = kind

PollTick ==
  /\ polling /\ ~Waiting("poll")
  /\ calls' = calls \union {Call("poll", "")}
  /\ UNCHANGED <<world, key, visits, canControl, labels, polling, charts, comparing, gone>>

(* Both answers, telemetry and strategies, whatever their status.          *)
PollAnswers(c) ==
  /\ c.kind = "poll" /\ calls' = calls \ {c}
  /\ prompt' = Asked(c.key)
  /\ CASE Answer(c.key) = "ok" -> Render(PolledFrame) /\ UNCHANGED conn
       [] Answer(c.key) = "refused" -> Render(ErrorFrame) /\ UNCHANGED conn
       [] OTHER -> SetConn("disconnected") /\ UNCHANGED charts
  /\ UNCHANGED <<world, key, visits, canControl, banner, polling, comparing, gone>>

(* pollCompare: list the instances, then compare the first two. *)
CompareTick ==
  /\ visits # <<>> /\ ~Waiting("list") /\ ~Waiting("compare")
  /\ calls' = calls \union {Call("list", "")}
  /\ UNCHANGED <<world, key, visits, canControl, labels, polling, charts, comparing, gone>>

ListAnswers(c) ==
  /\ c.kind = "list"
  /\ prompt' = Asked(c.key)
  /\ IF Answer(c.key) = "ok" /\ Len(setup.insts) >= 2
       THEN calls' = (calls \ {c}) \union {Call("compare", "")} /\ UNCHANGED comparing
       ELSE calls' = calls \ {c} /\ comparing' = (comparing /\ Answer(c.key) = "unreachable")
  /\ UNCHANGED <<world, key, visits, canControl, banner, conn, polling, charts, gone>>

(* 409 while the two curves do not overlap enough.  An answer that is not  *)
(* JSON leaves the panel as it was, like an error.                         *)
CompareAnswers(c) ==
  /\ c.kind = "compare" /\ calls' = calls \ {c}
  /\ prompt' = Asked(c.key)
  /\ IF Answer(c.key) = "ok" THEN comparing' \in BOOLEAN ELSE UNCHANGED comparing
  /\ UNCHANGED <<world, key, visits, canControl, banner, conn, polling, charts, gone>>

(* control: a click on a button the last frame left enabled. *)
Click(a) ==
  /\ a \in screen.buttons /\ ~Waiting("command")
  /\ Spend("commands")
  /\ calls' = calls \union {Call("command", a)}
  /\ UNCHANGED <<setup, up, lifecycle, key, visits, canControl, labels, polling, charts, comparing, gone>>

(* Snapshot of Instance.pause, resume and stop. *)
After(a) == IF a \notin Applicable(lifecycle) THEN lifecycle
            ELSE CASE a = "pause" -> "paused" [] a = "resume" -> "running" [] OTHER -> "stopped"

CommandAnswers(c) ==
  /\ c.kind = "command" /\ calls' = calls \ {c}
  /\ prompt' = Asked(c.key)
  /\ lifecycle' = IF Answer(c.key) = "ok" /\ (setup.daemon = "open" \/ c.key \in Controllers)
                    THEN After(c.action) ELSE lifecycle
  /\ UNCHANGED <<setup, left, up, key, visits, canControl, banner, conn, polling, charts, comparing, gone>>

-----------------------------------------------------------------------------
(* The operator: a key into the prompt, and sign out.  Spaces are trimmed, *)
(* so that they store no key.                                              *)
Submit(k) ==
  /\ prompt /\ Len(visits) < MaxVisits
  /\ Spend("submits")
  /\ SetApiKey(k) /\ prompt' = FALSE
  /\ visits' = Append(visits, Visit(k))
  /\ canControl' = (canControl \/ k = NoKey)
  /\ UNCHANGED <<setup, up, lifecycle, banner, conn, polling, charts, calls, comparing, gone>>

SignOutForgets ==                                                       \* a wrong variant
  /\ visits # <<>>
  /\ Spend("signOuts")
  /\ SetApiKey(NoKey) /\ PromptForKey
  /\ UNCHANGED <<setup, up, lifecycle, visits, canControl, banner, conn, polling, charts, calls, comparing, gone>>

SignOut ==
  /\ visits # <<>>
  /\ Spend("signOuts")
  /\ SetApiKey(NoKey) /\ canControl' = FALSE /\ PromptForKey
  /\ UNCHANGED <<setup, up, lifecycle, visits, banner, conn, polling, charts, calls, comparing, gone>>

(* DOMContentLoaded, for a page its daemon serves or the published one;    *)
(* leaving it ends every timer, request and stream.  The key stays.        *)
Load ==
  /\ visits = <<>> /\ (setup.daemon = "none" \/ up)
  /\ Spend("loads")
  /\ visits' = <<Visit(key)>>
  /\ calls' = {Call("list", "")}
  /\ recent' = Push(<<>>, Points(BlankFrame), Cap)
  /\ screen' = Shown(BlankFrame, source)
  /\ UNCHANGED <<setup, up, lifecycle, key, canControl, labels, polling, source, comparing, gone>>

NoScreen == [buttons |-> {}, p99 |-> "good", sla |-> NaN, bands |-> <<>>,
             insts |-> <<>>, components |-> <<>>, alerts |-> <<>>]

Unloaded ==
  /\ visits = <<>> /\ canControl = TRUE /\ prompt = FALSE /\ banner = FALSE
  /\ conn = "connecting" /\ source = "live" /\ polling = FALSE /\ recent = <<>>
  /\ screen = NoScreen
  /\ calls = {} /\ comparing = FALSE /\ gone = FALSE

Leave ==
  /\ visits # <<>> /\ left.loads > 0
  /\ visits' = <<>> /\ canControl' = TRUE /\ prompt' = FALSE /\ banner' = FALSE
  /\ conn' = "connecting" /\ source' = "live" /\ polling' = FALSE /\ recent' = <<>>
  /\ screen' = NoScreen
  /\ calls' = {} /\ comparing' = FALSE /\ gone' = FALSE
  /\ UNCHANGED <<world, key>>

(* The daemon goes and comes back, restarted: its tickets are forgotten. *)
Outage ==
  /\ up
  /\ Spend("outages")
  /\ up' = FALSE /\ lifecycle' = "running"
  /\ visits' = [b \in DOMAIN visits |->
                  IF visits[b].ticket = "good" THEN [visits[b] EXCEPT !.ticket = "lost"] ELSE visits[b]]
  /\ UNCHANGED <<setup, key, canControl, labels, polling, charts, calls, comparing, gone>>

Restart ==
  /\ ~up /\ setup.daemon # "none"
  /\ up' = TRUE
  /\ UNCHANGED <<setup, left, lifecycle, key, visits, canControl, labels, polling, charts, calls, comparing, gone>>

-----------------------------------------------------------------------------
DashInit ==
  /\ setup \in Setups /\ left = setup.limits
  /\ up = (setup.daemon # "none") /\ lifecycle = "running"
  /\ key = NoKey /\ Unloaded

Decided(b) == ~visits[b].settled /\ (ProbeTimesOut(b) \/ ProbeAnswers(b))

StreamProgress(b) ==
  TicketAnswers(b) \/ StreamOpens(b) \/ (visits[b].stream = "opening" /\ StreamFails(b)) \/ Reopen(b)

DashStep ==
  \/ \E b \in DOMAIN visits :
       \/ ProbeTimesOut(b) \/ ProbeAnswers(b) \/ WhoamiAnswers(b)
       \/ TicketAnswers(b) \/ StreamOpens(b) \/ StreamFrame(b) \/ StreamFails(b) \/ Reopen(b)
       \/ DemoArrives(b) \/ DemoTick(b)
  \/ \E c \in calls : PollAnswers(c) \/ ListAnswers(c) \/ CompareAnswers(c) \/ CommandAnswers(c)
  \/ \E a \in Actions : Click(a)
  \/ \E k \in setup.keys : Submit(k)
  \/ PollTick \/ CompareTick \/ SignOut \/ Outage \/ Restart

(* The event loop serves every timer and the network answers or fails in   *)
(* the end; only a probe may hang, which is what its timer is for.  Nobody *)
(* has to click, submit, leave or restart a daemon.                        *)
Compared == CompareTick \/ \E c \in calls : ListAnswers(c) \/ CompareAnswers(c)

DashFairness ==
  /\ \A b \in 1 .. MaxVisits :
       /\ WF_vars(b \in DOMAIN visits /\ Decided(b))
       /\ WF_vars(b \in DOMAIN visits /\ StreamProgress(b))
       /\ WF_vars(b \in DOMAIN visits /\ DemoArrives(b))
  /\ WF_vars(Compared)

-----------------------------------------------------------------------------
VisitType ==
  [key : Keys \union {NoKey}, whoami : {"none", "asked", "told", "failed"},
   probe : {"asked", "answered", "late", "failed"}, settled : BOOLEAN,
   demo : {"none", "fetching", "running", "missing"},
   stream : {"none", "minting", "opening", "open", "waiting", "ended"}, failures : 0 .. Tries,
   ticket : {"none", "good", "used", "lost"}, sent : Keys \union {NoKey}]

TypeOK == setup \in Setups /\ key \in Keys \union {NoKey} /\ visits \in Seq(VisitType)

(* "redeeming one twice is a 401 by design": whatever fails, restarts or   *)
(* is submitted again, no EventSource is opened with a ticket the daemon   *)
(* has already redeemed.                                                   *)
TicketsAreSpentOnce ==
  \A b \in DOMAIN visits : visits[b].stream = "opening" => visits[b].ticket # "used"

(* "A read-only key disables all three": once the daemon has told the      *)
(* stored key's scopes, the controls are what they allow, and after a sign *)
(* out they are off.  This holds unless an answer has come for a key that  *)
(* was no longer stored.                                                   *)
ControlsMatchTheKey ==
  visits # <<>> /\ ~gone =>
    /\ key # NoKey /\ visits[Len(visits)].whoami = "told" =>
         canControl = (setup.daemon = "keyed" /\ key \in Controllers)
    /\ key = NoKey /\ visits[Len(visits)].key # NoKey => ~canControl

(* A keyed daemon that stays up gets the page to ask for a key: "ask for a *)
(* key rather than guess", and a key that is not accepted is asked again.  *)
AsksForAKey ==
  <>[](up /\ visits # <<>>) => []<>(Accepts(key) \/ prompt)

(* No page is dead: again and again the last run of begin() has a stream   *)
(* that is open or polling in its place, the recording or the news that    *)
(* there is none, or the question for a key.                               *)
Serves(b) == visits[b].stream = "open" \/ visits[b].demo \in {"running", "missing"}

NeverADeadPage ==
  []<>(visits = <<>> \/ prompt \/ polling \/ Serves(Len(visits)))

(* The tables and the figures tell of one book: the table of fills shows   *)
(* the newest of all instances, and a loss on open positions in the        *)
(* figures is the loss of a position in the table.                         *)
TablesTellTheBook ==
  /\ ShowsTheNewest(FillTable, screen.insts)
  /\ Portfolio.unrealized = "neg" => \E row \in ToSet(PositionTable) : row.tone = "neg"

(* What the charts draw lies inside the plot, the reference line too, and  *)
(* a bar that warns is a long one.  Curves of two instants or more, as far *)
(* as doubles tell them apart, share their axes: a place means one instant *)
(* and one value (0 for a null), and equal times are equally wide.  Of one *)
(* instant nothing would be drawn; Live_compare sends eight at least.      *)
ChartsKeepScale ==
  /\ \A chart \in {LatencyChart, ThroughputChart, NavChart} : InsidePlot(chart.path)
  /\ \A y \in LatencyChart.band : y \in PadTop .. H - PadBottom
  /\ \A i \in DOMAIN screen.bands : screen.bands[i].tone = "warn" => screen.bands[i].filled >= 700
  /\ comparing /\ Spread(CurvesInDoubles) =>
       LET marks == Marks(CurvesInDoubles, CompareChart)
       IN  /\ SharedAxes(marks) /\ EvenTime(marks)
           /\ \A s \in DOMAIN CompareChart : InsidePlot(CompareChart[s])
=============================================================================
