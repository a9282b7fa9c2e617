------------------------------ MODULE EventBus ------------------------------
(***************************************************************************)
(* The event bus (infrastructure/event_bus): publishers push into one      *)
(* bounded FIFO per priority band; one dispatcher Domain pops the highest- *)
(* priority non-empty band and calls every matching subscriber; start,     *)
(* stop and the at_exit hook control the dispatcher's life.  A band is the *)
(* atomic bounded FIFO that RingBuffer is shown to implement for one       *)
(* producer at a time.  Latency instrumentation is left out.               *)
(***************************************************************************)
EXTENDS Integers, Sequences, FiniteSets, SequencesExt

CONSTANTS Publishers, Controllers,
          Subs,          \* subscriptions
          Permanent,     \* sequence of subscriptions made before the first event
          Wants,         \* Wants[s]: the bands the filter of s lets through
          NumBands,      \* 4 in the code; band 0 is Critical
          BandBound,     \* events that fit in a band
          MaxPublish,    \* publishes per publisher and
          MaxStarts,     \* successful starts (bounds of the model), and who calls
          Budgets,       \* start and stop: the [publish, starts, callers] explored
          NoEvent        \* nothing in hand

Bands == 0 .. NumBands - 1
Dispatchers == 1 .. MaxStarts
Events == [from : Publishers, n : 1 .. MaxPublish, band : Bands]

ASSUME BusAssumption == /\ NumBands \in Nat \ {0} /\ BandBound \in Nat
                        /\ MaxPublish \in Nat /\ MaxStarts \in Nat
                        /\ Budgets \subseteq [publish : 0 .. MaxPublish,
                                              starts : 0 .. MaxStarts,
                                              callers : SUBSET Controllers]
                        /\ Permanent \in Seq(Subs) /\ IsInjective(Permanent)
                        /\ Wants \in [Subs -> SUBSET Bands]
                        /\ NoEvent \notin Events /\ IsFiniteSet(Publishers)

VARIABLES
  bands,           \* pq: one FIFO per band
  subscribers,     \* the subscriber list, newest first
  published, dropped, dispatched, handlerErrors,   \* flow counters
  running, stopRequested,
  dispatcher,      \* t.dispatcher: the Domain to join, 0 when None
  hook,            \* at_exit hook: "absent", "armed" or "ran"
  pub,             \* per publisher: where it is in try_publish
  ctl,             \* per controller: where it is in start, stop or the hook
  disp,            \* per dispatcher Domain: its state
  log,             \* history: the events each subscription's handler got
  late,            \* history: events pushed after a stop was requested
  passed,          \* history: lower-priority pops since a band was non-empty
  crossed,         \* history: a start was at work at the same time as another
                   \* caller's start, stop or exit hook
  budget           \* chosen once, never changed

flow == <<published, dropped, dispatched, handlerErrors>>
life == <<running, stopRequested, dispatcher, hook, ctl, crossed>>
hist == <<log, late, passed, budget>>
vars == <<bands, subscribers, flow, life, pub, disp, hist>>

Unborn == [st |-> "unborn", drain |-> FALSE, band |-> 0, env |-> NoEvent, todo |-> <<>>]

Init ==
  /\ bands = [b \in Bands |-> <<>>]
  /\ subscribers = Permanent
  /\ published = [b \in Bands |-> 0] /\ dropped = [b \in Bands |-> 0]
  /\ dispatched = 0 /\ handlerErrors = 0
  /\ running = FALSE /\ stopRequested = FALSE /\ dispatcher = 0 /\ hook = "absent"
  /\ pub = [p \in Publishers |-> [n |-> 0, pc |-> "idle", band |-> 0]]
  /\ ctl = [c \in Controllers |-> [pc |-> "idle", join |-> 0]]
  /\ disp = [d \in Dispatchers |-> Unborn]
  /\ log = [s \in Subs |-> <<>>] /\ late = {} /\ passed = [b \in Bands |-> 0]
  /\ crossed = FALSE
  /\ budget \in Budgets

-----------------------------------------------------------------------------
(* Wrong variants, one plausible slip of the code each. *)

SameBand(d) == disp[d].band
NoFinalDrain == IF stopRequested THEN "done" ELSE "scan"
EndWhenIdle(d) == "done"
RestAfterRaise(d, raises) == IF raises THEN <<>> ELSE Tail(disp[d].todo)
IsDone(d) == TRUE
DropForgotten(p) ==
  /\ pub[p].pc # "idle"
  /\ pub' = [pub EXCEPT ![p].pc = "idle"]
  /\ published' = IF pub[p].pc = "pushed" THEN [published EXCEPT ![pub[p].band] = @ + 1] ELSE published
  /\ UNCHANGED <<bands, subscribers, dropped, dispatched, handlerErrors, life, disp, hist>>

-----------------------------------------------------------------------------
(* try_publish: push, then count what happened. *)

HasRoom(b) == Len(bands[b]) < BandBound

PublishPush(p, b) ==
  /\ pub[p].pc = "idle" /\ pub[p].n < budget.publish
  /\ LET e == [from |-> p, n |-> pub[p].n + 1, band |-> b]
     IN  /\ bands' = IF HasRoom(b) THEN [bands EXCEPT ![b] = Append(@, e)] ELSE bands
         /\ late' = IF stopRequested THEN late \union {e} ELSE late
  /\ pub' = [pub EXCEPT ![p] = [n |-> @.n + 1, band |-> b,
                                pc |-> IF HasRoom(b) THEN "pushed" ELSE "full"]]
  /\ UNCHANGED <<subscribers, flow, life, disp, log, passed, budget>>

WasPushed(p) == pub[p].pc = "pushed"

PublishCount(p) ==
  /\ pub[p].pc # "idle"
  /\ pub' = [pub EXCEPT ![p].pc = "idle"]
  /\ IF WasPushed(p)
     THEN published' = [published EXCEPT ![pub[p].band] = @ + 1] /\ UNCHANGED dropped
     ELSE dropped' = [dropped EXCEPT ![pub[p].band] = @ + 1] /\ UNCHANGED published
  /\ UNCHANGED <<bands, subscribers, dispatched, handlerErrors, life, disp, hist>>

(* The list is replaced by one compare-and-set, retried until it succeeds. *)
(* No two subscriptions have the same id.                                  *)
Subscribe(s) ==
  /\ ~Contains(subscribers, s) /\ log[s] = <<>>
  /\ subscribers' = <<s>> \o subscribers
  /\ UNCHANGED <<bands, flow, life, pub, disp, hist>>

Unsubscribe(s) ==
  /\ ~Contains(Permanent, s)
  /\ \E i \in DOMAIN subscribers : /\ subscribers[i] = s
                                  /\ subscribers' = RemoveAt(subscribers, i)
  /\ UNCHANGED <<bands, flow, life, pub, disp, hist>>

-----------------------------------------------------------------------------
(* The dispatcher Domain. *)

(* `while not stop_requested`, else fall through to the final drain. *)
AfterTest == "scan"
FirstBand(d) == 0

LoopTest(d) ==
  /\ disp[d].st = "loop"
  /\ disp' = [disp EXCEPT ![d].st = AfterTest, ![d].band = FirstBand(d),
                          ![d].drain = stopRequested]
  /\ UNCHANGED <<bands, subscribers, flow, life, pub, hist>>

Oldest(b) == Head(bands[b])

(* try_pop looks at one band after the other, each atomically. *)
PopBand(d) ==
  LET b == disp[d].band IN
  /\ disp[d].st = "scan" /\ bands[b] # <<>>
  /\ bands' = [bands EXCEPT ![b] = Tail(@)]
  /\ disp' = [disp EXCEPT ![d].st = "popped", ![d].env = Oldest(b)]
  /\ passed' = [c \in Bands |-> CASE c = b -> 0
                                  [] c < b /\ bands[c] # <<>> -> passed[c] + 1
                                  [] OTHER -> passed[c]]
  /\ UNCHANGED <<subscribers, flow, life, pub, log, late, budget>>

(* Every band was empty: sleep and test again, or end the final drain. *)
AfterEmptyScan(d) == IF disp[d].drain THEN "done" ELSE "loop"

SkipBand(d) ==
  /\ disp[d].st = "scan" /\ bands[disp[d].band] = <<>>
  /\ disp' = IF disp[d].band + 1 \in Bands
             THEN [disp EXCEPT ![d].band = @ + 1]
             ELSE [disp EXCEPT ![d].st = AfterEmptyScan(d)]
  /\ UNCHANGED <<bands, subscribers, flow, life, pub, hist>>

(* dispatch_one: the subscriber list is read once per event. *)
SnapshotSubscribers(d) ==
  /\ disp[d].st = "popped"
  /\ disp' = [disp EXCEPT ![d].st = "deliver", ![d].todo = subscribers]
  /\ UNCHANGED <<bands, subscribers, flow, life, pub, hist>>

Rest(d, raises) == Tail(disp[d].todo)

(* A handler that raises is counted; the next subscriber is still called. *)
CallHandler(d, raises) ==
  /\ disp[d].st = "deliver" /\ disp[d].todo # <<>>
  /\ LET s == Head(disp[d].todo)
         matches == disp[d].env.band \in Wants[s]
     IN  /\ log' = IF matches THEN [log EXCEPT ![s] = Append(@, disp[d].env)] ELSE log
         /\ handlerErrors' = IF matches /\ raises THEN handlerErrors + 1 ELSE handlerErrors
  /\ disp' = [disp EXCEPT ![d].todo = Rest(d, raises)]
  /\ UNCHANGED <<bands, subscribers, published, dropped, dispatched, life, pub, late, passed, budget>>

EndDispatch(d) ==
  /\ disp[d].st = "deliver" /\ disp[d].todo = <<>>
  /\ dispatched' = dispatched + 1
  /\ disp' = [disp EXCEPT ![d].st = IF disp[d].drain THEN "scan" ELSE "loop",
                          ![d].band = FirstBand(d), ![d].env = NoEvent]
  /\ UNCHANGED <<bands, subscribers, published, dropped, handlerErrors, life, pub, hist>>

-----------------------------------------------------------------------------
(* start, stop and the at_exit hook. *)

Goto(c, from, to) == ctl[c].pc = from /\ ctl' = [ctl EXCEPT ![c].pc = to]

Back(c) == ctl' = [ctl EXCEPT ![c] = [pc |-> "idle", join |-> 0]]

Starting(c) == ctl[c].pc \in {"start clear", "start spawn", "start assign"}

StartClaim(c) ==
  /\ c \in budget.callers /\ ~running
  /\ Cardinality({d \in Dispatchers : disp[d].st # "unborn"})
       + Cardinality({e \in Controllers : ctl[e].pc \in {"start clear", "start spawn"}})
       < budget.starts
  /\ Goto(c, "idle", "start clear")
  /\ running' = TRUE
  /\ crossed' = (crossed \/ \E e \in Controllers : ctl[e].pc # "idle")
  /\ UNCHANGED <<bands, subscribers, flow, stopRequested, dispatcher, hook, pub, disp, hist>>

StartClear(c) ==
  /\ Goto(c, "start clear", "start spawn")
  /\ stopRequested' = FALSE
  /\ UNCHANGED <<bands, subscribers, flow, running, dispatcher, hook, crossed, pub, disp, hist>>

StartSpawn(c, d) ==
  /\ ctl[c].pc = "start spawn" /\ disp[d].st = "unborn"
  /\ disp' = [disp EXCEPT ![d].st = "loop"]
  /\ ctl' = [ctl EXCEPT ![c] = [pc |-> "start assign", join |-> d]]
  /\ UNCHANGED <<bands, subscribers, flow, running, stopRequested, dispatcher, hook, crossed, pub, hist>>

StartAssign(c) ==
  /\ ctl[c].pc = "start assign" /\ Back(c)
  /\ dispatcher' = ctl[c].join
  /\ hook' = IF hook = "absent" THEN "armed" ELSE hook
  /\ UNCHANGED <<bands, subscribers, flow, running, stopRequested, crossed, pub, disp, hist>>

StopClaim(c) ==
  /\ c \in budget.callers /\ running
  /\ Goto(c, "idle", "stop signal")
  /\ running' = FALSE
  /\ crossed' = (crossed \/ \E e \in Controllers : Starting(e))
  /\ UNCHANGED <<bands, subscribers, flow, stopRequested, dispatcher, hook, pub, disp, hist>>

StopFlag == TRUE
ToJoin == dispatcher
Finished(d) == disp[d].st = "done"

StopSignal(c) ==
  /\ Goto(c, "stop signal", "stop join")
  /\ stopRequested' = StopFlag
  /\ UNCHANGED <<bands, subscribers, flow, running, dispatcher, hook, crossed, pub, disp, hist>>

(* match t.dispatcher: None returns at once, Some d joins d. *)
StopRead(c) ==
  /\ ctl[c].pc = "stop join"
  /\ ctl' = [ctl EXCEPT ![c] = [pc |-> IF ToJoin = 0 THEN "idle" ELSE "joining",
                                join |-> ToJoin]]
  /\ UNCHANGED <<bands, subscribers, flow, running, stopRequested, dispatcher, hook, crossed, pub, disp, hist>>

Joined(c) ==
  /\ ctl[c].pc = "joining" /\ Finished(ctl[c].join)
  /\ Back(c)
  /\ dispatcher' = 0
  /\ UNCHANGED <<bands, subscribers, flow, running, stopRequested, hook, crossed, pub, disp, hist>>

(* The hook runs once, at process exit: unlike stop it leaves `running`    *)
(* alone when there is a Domain to join, and clears it when there is none. *)
ExitSignal(c) ==
  /\ hook = "armed" /\ hook' = "ran"
  /\ c \in budget.callers /\ ctl[c].pc = "idle"
  /\ IF running
     THEN stopRequested' = TRUE /\ ctl' = [ctl EXCEPT ![c].pc = "exit join"]
     ELSE UNCHANGED <<stopRequested, ctl>>
  /\ crossed' = (crossed \/ \E e \in Controllers : Starting(e))
  /\ UNCHANGED <<bands, subscribers, flow, running, dispatcher, pub, disp, hist>>

ExitRead(c) ==
  /\ ctl[c].pc = "exit join"
  /\ ctl' = [ctl EXCEPT ![c] = [pc |-> IF dispatcher = 0 THEN "idle" ELSE "joining",
                                join |-> dispatcher]]
  /\ running' = (running /\ dispatcher # 0)
  /\ UNCHANGED <<bands, subscribers, flow, stopRequested, dispatcher, hook, crossed, pub, disp, hist>>

-----------------------------------------------------------------------------
Dispatch(d) == \/ LoopTest(d) \/ PopBand(d) \/ SkipBand(d) \/ SnapshotSubscribers(d)
               \/ \E raises \in BOOLEAN : CallHandler(d, raises)
               \/ EndDispatch(d)

(* What a controller does once it has won its compare-and-set. *)
Control(c) == \/ StartClear(c) \/ StartAssign(c)
              \/ \E d \in Dispatchers : StartSpawn(c, d)
              \/ StopSignal(c) \/ StopRead(c) \/ ExitRead(c) \/ Joined(c)

Next == \/ \E p \in Publishers : PublishCount(p) \/ \E b \in Bands : PublishPush(p, b)
        \/ \E s \in Subs : Subscribe(s) \/ Unsubscribe(s)
        \/ \E d \in Dispatchers : Dispatch(d)
        \/ \E c \in Controllers : StartClaim(c) \/ StopClaim(c) \/ ExitSignal(c) \/ Control(c)

Spec == Init /\ [][Next]_vars

(* The dispatcher Domain is a thread of its own and polls without blocking; *)
(* start and stop run to their end.  Nobody has to publish, start or stop.  *)
FairSpec == /\ Spec
            /\ \A d \in Dispatchers : WF_vars(Dispatch(d))
            /\ \A c \in Controllers : WF_vars(Control(c))
            /\ \A p \in Publishers : WF_vars(PublishCount(p))

-----------------------------------------------------------------------------
Live(d) == disp[d].st \notin {"unborn", "done"}
InHand(d) == disp[d].env # NoEvent
Delivering == \E d \in Dispatchers : disp[d].st = "deliver"

(* What a counter per member of a set counts together, as a set of units. *)
Units(counter, S) == UNION {{x} \X (1 .. counter[x]) : x \in S}
Total(counter) == Cardinality(Units(counter, Bands))
Offered == Cardinality(Units([p \in Publishers |-> pub[p].n], Publishers))
Pending == Total([b \in Bands |-> Len(bands[b])])

(* Type invariant of the bus. *)
TypeOK ==
  /\ bands \in [Bands -> Seq(Events)] /\ \A b \in Bands : Len(bands[b]) <= BandBound
  /\ subscribers \in Seq(Subs)
  /\ {published, dropped, passed} \subseteq [Bands -> Nat]
  /\ {dispatched, handlerErrors} \subseteq Nat
  /\ {running, stopRequested, crossed} \subseteq BOOLEAN
  /\ dispatcher \in 0 .. MaxStarts /\ hook \in {"absent", "armed", "ran"}
  /\ \A p \in Publishers : pub[p].pc \in {"idle", "pushed", "full"}
  /\ \A c \in Controllers : ctl[c].join \in 0 .. MaxStarts
  /\ \A d \in Dispatchers : disp[d].band \in Bands /\ disp[d].env \in Events \union {NoEvent}
  /\ log \in [Subs -> Seq(Events)] /\ late \subseteq Events

(* The flow counters account for every event: what was pushed is in a band,*)
(* in a dispatcher's hand or counted as dispatched, and every call of      *)
(* try_publish that came back counted its event as published or, its band  *)
(* being full, as dropped (try_publish, dispatch_one).                     *)
EveryEventAccounted ==
  /\ Total(published) + Cardinality({p \in Publishers : pub[p].pc = "pushed"})
       = Pending + Cardinality({d \in Dispatchers : InHand(d)}) + dispatched
  /\ Offered = Total(published) + Total(dropped) + Cardinality({p \in Publishers : pub[p].pc # "idle"})

(* A subscription that was there before the first event is handed every    *)
(* dispatched event its filter lets through, whatever other handlers raise *)
(* and however the subscriber list changes meanwhile.                      *)
PermanentMissNothing ==
  \A s \in Range(Permanent) :
     Wants[s] = Bands /\ ~Delivering => Len(log[s]) = dispatched

(* Strict priority with a scan that is not atomic: an event that arrives   *)
(* in a band the scan has already passed is overtaken by one lower event,  *)
(* never by two, as long as no start crossed another caller's call (two    *)
(* dispatchers would scan at once).                                        *)
OvertakenAtMostOnce == ~crossed => \A b \in Bands : passed[b] <= 1

BackAndStopped == ~running /\ \A c \in Controllers : ctl[c].pc = "idle"

(* stop "signals the dispatcher [...] then joins the dispatcher domain.    *)
(* Safe to call from any thread; safe to call twice." (event_bus.mli:16):  *)
(* when nobody is inside start or stop and the bus is stopped, no          *)
(* dispatcher lives that has not even been asked to end.                   *)
StopIsSafeFromAnyThread ==
  BackAndStopped => \A d \in Dispatchers : Live(d) => stopRequested

(* What the code keeps of it: stops and the exit hook may cross each other *)
(* from any thread, and no dispatcher is left, as long as no start ran at  *)
(* the same time as another caller's start, stop or exit hook.             *)
StopLeavesNoDispatcher == ~crossed /\ BackAndStopped => \A d \in Dispatchers : ~Live(d)

(* The final drain loses nothing that was published before the stop: when  *)
(* a dispatcher ends, whatever is still in a band was pushed after it,     *)
(* unless a start crossed another call and took the request back.          *)
NothingEarlyIsLost ==
  [][\A d \in Dispatchers :
       ~crossed /\ Live(d) /\ ~Live(d)' => \A b \in Bands : Range(bands[b]) \subseteq late]_vars

(* While the bus runs and nobody stops it, the dispatcher keeps taking what *)
(* is in a band.  The publishes of the model end: in the code a stream of   *)
(* events that never ends in a higher band starves the lower ones.          *)
PublishedIsDispatched ==
  \A b \in Bands : bands[b] # <<>> /\ running
                     ~> bands[b] = <<>> \/ stopRequested \/ ~running
=============================================================================
