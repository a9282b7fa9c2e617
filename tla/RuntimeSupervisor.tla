------------------------- MODULE RuntimeSupervisor -------------------------
(***************************************************************************)
(* The live runtime (runtime/supervisor.ml, runtime/instance.ml): the bus  *)
(* handler enqueues market records, one drain Domain feeds each record to  *)
(* every registered strategy instance, and control calls (add, pause,      *)
(* resume, stop_instance, stop) arrive from other Domains at any moment.   *)
(* The queue is the bounded FIFO that SPSCQueue implements.  An instance   *)
(* is its lifecycle, its private `stopped` flag and its number of working  *)
(* orders; fills, risk gate and strategy decide nondeterministically.      *)
(* Allocation and the NAV curve, which nothing here reads, are left out.   *)
(***************************************************************************)
EXTENDS Integers, Sequences, FiniteSets, SequencesExt

CONSTANTS Inst,         \* instance objects, each with one Domain that adds it
          Ids,          \* strategy ids
          Controllers,  \* Domains that make control calls
          Calls,        \* calls they make: "pause", "resume", "stop_instance", "stop"
          Capacity,     \* queue_capacity
          MaxRecords,   \* market events the bus dispatches (bound of the model)
          MaxOrders,    \* working orders per instance (bound of the model)
          None

ASSUME RuntimeAssumption ==
  /\ Capacity \in Nat \ {0} /\ MaxRecords \in Nat /\ MaxOrders \in Nat
  /\ Calls \subseteq {"pause", "resume", "stop_instance", "stop"}
  /\ None \notin Inst

VARIABLES
  attached,     \* the handler is in the bus's subscriber list
  bus,          \* the dispatcher: "idle", or "calling" the handler
  queue, nEvents, nDropped,
  instances,    \* the registered instances, oldest first
  joined, stopFlag,
  drain,        \* the drain Domain
  lifecycle, stopped, working,   \* per instance
  pubWorking,   \* working_orders of the published snapshot
  idOf,         \* per instance: its strategy_id
  adder,        \* per instance: where its add stands
  ctl,          \* per controller: the call in progress
  handled,      \* history: handler calls so far
  seen,         \* history: records handed out when the instance was registered
  fed,          \* history: records each instance processed
  clean,        \* history: no step, pause or resume overlapped the stop
  finished,     \* history: a stop ran to its end
  onStops       \* history: times on_stop was called

feedVars == <<attached, bus, queue, nEvents, nDropped, handled>>
regVars == <<instances, idOf, adder, seen>>
instVars == <<lifecycle, stopped, working, pubWorking, fed>>
hist == <<clean, finished, onStops>>
vars == <<feedVars, regVars, joined, stopFlag, drain, ctl, instVars, hist>>

Idle == [pc |-> "idle", inst |-> None, todo |-> <<>>]
Registered == ToSet(instances)

Init ==
  /\ attached = TRUE /\ bus = "idle" /\ queue = <<>> /\ nEvents = 0 /\ nDropped = 0
  /\ instances = <<>> /\ joined = FALSE /\ stopFlag = FALSE
  /\ drain = [pc |-> "test", final |-> FALSE, rec |-> 0, todo |-> <<>>]
  /\ lifecycle = [i \in Inst |-> "Running"] /\ stopped = [i \in Inst |-> FALSE]
  /\ working = [i \in Inst |-> 0] /\ pubWorking = [i \in Inst |-> 0]
  /\ idOf \in [Inst -> Ids] /\ adder = [i \in Inst |-> [pc |-> "new", cur |-> <<>>]]
  /\ ctl = [c \in Controllers |-> Idle]
  /\ handled = 0 /\ seen = [i \in Inst |-> 0] /\ fed = [i \in Inst |-> 0]
  /\ clean = [i \in Inst |-> TRUE]
  /\ finished = [i \in Inst |-> FALSE] /\ onStops = [i \in Inst |-> 0]

-----------------------------------------------------------------------------
(* Wrong variants, one plausible slip of the code each. *)

DropUncounted == nDropped
RaiseEndsAll(raises) == IF raises THEN <<>> ELSE Tail(drain.todo)
AlwaysWins(i) == TRUE
CancelNone(i) == working[i]

-----------------------------------------------------------------------------
(* The bus handler, on the dispatcher Domain.  The dispatcher read the     *)
(* subscriber list before the call: unsubscribing does not recall it.      *)

BusCall ==
  /\ attached /\ bus = "idle" /\ handled < MaxRecords
  /\ bus' = "calling" /\ handled' = handled + 1
  /\ UNCHANGED <<attached, queue, nEvents, nDropped, regVars, joined, stopFlag, drain, ctl,
                 instVars, hist>>

Enqueued == IF Len(queue) < Capacity THEN Append(queue, handled) ELSE queue

Dropped == IF Len(queue) < Capacity THEN nDropped ELSE nDropped + 1

BusEnqueue ==
  /\ bus = "calling" /\ bus' = "idle"
  /\ queue' = Enqueued
  /\ nDropped' = Dropped
  /\ UNCHANGED <<attached, handled, nEvents, regVars, joined, stopFlag, drain, ctl, instVars, hist>>

-----------------------------------------------------------------------------
(* add: read the list, look for the id, compare-and-set, retry.            *)

HasId(list, i) == \E j \in ToSet(list) : idOf[j] = idOf[i]

AddRead(i) ==
  /\ adder[i].pc \in {"new", "read"}
  /\ adder' = [adder EXCEPT ![i] =
       IF HasId(instances, i) THEN [pc |-> "refused", cur |-> <<>>]
                              ELSE [pc |-> "cas", cur |-> instances]]
  /\ UNCHANGED <<feedVars, instances, idOf, seen, joined, stopFlag, drain, ctl, instVars, hist>>

(* Of the records counted, those whose list of instances has been read. *)
HandedOut == nEvents - (IF drain.pc = "list" THEN 1 ELSE 0)

CasWins(i) == instances = adder[i].cur
AfterLostCas(i) == "read"

AddCas(i) ==
  /\ adder[i].pc = "cas"
  /\ IF CasWins(i)
     THEN /\ instances' = Append(adder[i].cur, i)
          /\ adder' = [adder EXCEPT ![i] = [pc |-> "added", cur |-> <<>>]]
          /\ seen' = [seen EXCEPT ![i] = HandedOut]
     ELSE /\ adder' = [adder EXCEPT ![i] = [pc |-> AfterLostCas(i), cur |-> instances]]
          /\ UNCHANGED <<instances, seen>>
  /\ UNCHANGED <<feedVars, idOf, joined, stopFlag, drain, ctl, instVars, hist>>

-----------------------------------------------------------------------------
(* The drain Domain. *)

Enter == IF stopFlag THEN "finish" ELSE "poll"

DrainTest ==
  /\ drain.pc = "test"
  /\ drain' = [drain EXCEPT !.pc = Enter, !.final = stopFlag]
  /\ UNCHANGED <<feedVars, regVars, joined, stopFlag, ctl, instVars, hist>>

DrainTake ==
  /\ drain.pc \in {"poll", "finish"} /\ queue # <<>>
  /\ drain' = [drain EXCEPT !.pc = "count", !.rec = Head(queue)]
  /\ queue' = Tail(queue)
  /\ UNCHANGED <<attached, bus, nEvents, nDropped, handled, regVars, joined, stopFlag, ctl,
                 instVars, hist>>

(* An empty queue: sleep and test again, or end the final pass. *)
DrainEmpty ==
  /\ drain.pc \in {"poll", "finish"} /\ queue = <<>>
  /\ drain' = [drain EXCEPT !.pc = IF drain.final THEN "done" ELSE "test"]
  /\ UNCHANGED <<feedVars, regVars, joined, stopFlag, ctl, instVars, hist>>

NextRound == IF drain.final THEN "finish" ELSE "test"

(* Count the record, *)
DrainCount ==
  /\ drain.pc = "count"
  /\ nEvents' = nEvents + 1
  /\ drain' = [drain EXCEPT !.pc = "list"]
  /\ UNCHANGED <<attached, bus, queue, nDropped, handled, regVars, joined, stopFlag, ctl,
                 instVars, hist>>

(* then read the list of instances that get it. *)
DrainList ==
  /\ drain.pc = "list"
  /\ drain' = [drain EXCEPT !.pc = "feed", !.todo = instances]
  /\ UNCHANGED <<feedVars, regVars, joined, stopFlag, ctl, instVars, hist>>

Current == drain.todo[1]

DrainNext ==
  /\ drain.pc = "feed" /\ drain.todo = <<>>
  /\ drain' = [drain EXCEPT !.pc = NextRound, !.rec = 0]
  /\ UNCHANGED <<feedVars, regVars, joined, stopFlag, ctl, instVars, hist>>

Accepts(i) == ~stopped[i]

(* step, on entry: nothing once stopped; otherwise the market view advances *)
(* and resting orders are matched, paused or not.                           *)
StepEnter ==
  /\ drain.pc = "feed" /\ drain.todo # <<>>
  /\ LET i == Current IN
     IF Accepts(i)
     THEN /\ drain' = [drain EXCEPT !.pc = "consult"]
          /\ fed' = [fed EXCEPT ![i] = @ + 1]
          /\ \E w \in 0 .. working[i] : working' = [working EXCEPT ![i] = w]
          /\ clean' = [clean EXCEPT ![i] =
                         @ /\ ~\E c \in Controllers : ctl[c].inst = i /\ ctl[c].pc # "idle"]
     ELSE /\ drain' = [drain EXCEPT !.todo = Tail(@)]
          /\ UNCHANGED <<fed, working, clean>>
  /\ UNCHANGED <<feedVars, regVars, joined, stopFlag, ctl, lifecycle, stopped, pubWorking,
                 finished, onStops>>

Consults(i) == lifecycle[i] = "Running"

(* dispatch_to_strategy reads the lifecycle, calls on_event ... *)
StepConsult ==
  /\ drain.pc = "consult"
  /\ drain' = [drain EXCEPT !.pc = IF Consults(Current) THEN "act" ELSE "publish"]
  /\ UNCHANGED <<feedVars, regVars, joined, stopFlag, ctl, instVars, hist>>

AfterStep(raises) == Tail(drain.todo)

(* ... and handles its actions: admit an order that passes the risk gate,   *)
(* or nothing.  on_event may raise, which skips the publish.                *)
StepAct ==
  /\ drain.pc = "act"
  /\ LET i == Current IN
     \/ /\ working[i] < MaxOrders
        /\ working' = [working EXCEPT ![i] = @ + 1]
        /\ drain' = [drain EXCEPT !.pc = "publish"]
     \/ drain' = [drain EXCEPT !.pc = "publish"] /\ UNCHANGED working
     \/ /\ drain' = [drain EXCEPT !.pc = "feed", !.todo = AfterStep(TRUE)]
        /\ UNCHANGED working
  /\ UNCHANGED <<feedVars, regVars, joined, stopFlag, ctl, lifecycle, stopped, pubWorking, fed,
                 hist>>

StepPublish ==
  /\ drain.pc = "publish"
  /\ pubWorking' = [pubWorking EXCEPT ![Current] = working[Current]]
  /\ drain' = [drain EXCEPT !.pc = "feed", !.todo = AfterStep(FALSE)]
  /\ UNCHANGED <<feedVars, regVars, joined, stopFlag, ctl, lifecycle, stopped, working, fed, hist>>

InStep(i) == drain.pc \in {"consult", "act", "publish"} /\ Current = i

-----------------------------------------------------------------------------
(* pause and resume test the lifecycle and then set it: two steps. *)

PauseRead(c, i) ==
  /\ "pause" \in Calls /\ ctl[c] = Idle /\ i \in Registered /\ lifecycle[i] = "Running"
  /\ ctl' = [ctl EXCEPT ![c] = [Idle EXCEPT !.pc = "pause", !.inst = i]]
  /\ UNCHANGED <<feedVars, regVars, joined, stopFlag, drain, instVars, hist>>

ResumeRead(c, i) ==
  /\ "resume" \in Calls /\ ctl[c] = Idle /\ i \in Registered /\ lifecycle[i] = "Paused"
  /\ ctl' = [ctl EXCEPT ![c] = [Idle EXCEPT !.pc = "resume", !.inst = i]]
  /\ UNCHANGED <<feedVars, regVars, joined, stopFlag, drain, instVars, hist>>

ControlSet(c) ==
  /\ ctl[c].pc \in {"pause", "resume"}
  /\ LET i == ctl[c].inst
         pausing == ctl[c].pc = "pause"
     IN  /\ lifecycle' = [lifecycle EXCEPT ![i] = IF pausing THEN "Paused" ELSE "Running"]
         /\ clean' = [clean EXCEPT ![i] = @ /\ ~stopped[i]]
  /\ ctl' = [ctl EXCEPT ![c] = Idle]
  /\ UNCHANGED <<feedVars, regVars, joined, stopFlag, drain, stopped, working, pubWorking, fed,
                 finished, onStops>>

-----------------------------------------------------------------------------
(* Instance.stop (finish), from stop_instance or as part of stop. *)

StopInstance(c, i) ==
  /\ "stop_instance" \in Calls /\ ctl[c] = Idle /\ i \in Registered
  /\ ctl' = [ctl EXCEPT ![c] = [Idle EXCEPT !.pc = "finish", !.inst = i]]
  /\ UNCHANGED <<feedVars, regVars, joined, stopFlag, drain, instVars, hist>>

(* Where a controller goes once it is done with an instance. *)
Done(c) == IF ctl[c].todo = <<>> THEN Idle
           ELSE [ctl[c] EXCEPT !.pc = "each", !.inst = None]

FinishTest(c) ==
  /\ ctl[c].pc = "finish"
  /\ ctl' = [ctl EXCEPT ![c] = IF stopped[@.inst] THEN Done(c) ELSE [@ EXCEPT !.pc = "mark"]]
  /\ UNCHANGED <<feedVars, regVars, joined, stopFlag, drain, instVars, hist>>

FinishMark(c) ==
  /\ ctl[c].pc = "mark"
  /\ LET i == ctl[c].inst IN
     /\ stopped' = [stopped EXCEPT ![i] = TRUE]
     /\ clean' = [clean EXCEPT ![i] = @ /\ ~InStep(i)]
     /\ ctl' = [ctl EXCEPT ![c].pc = IF lifecycle[i] # "Stopped" THEN "onstop" ELSE "cancel"]
  /\ UNCHANGED <<feedVars, regVars, joined, stopFlag, drain, lifecycle, working, pubWorking, fed,
                 finished, onStops>>

(* on_stop may submit, do nothing or raise.  A raise leaves the instance    *)
(* marked as stopped with its orders and lifecycle untouched.               *)
FinishOnStop(c) ==
  /\ ctl[c].pc = "onstop"
  /\ LET i == ctl[c].inst IN
     /\ onStops' = [onStops EXCEPT ![i] = @ + 1]
     /\ \/ /\ working[i] < MaxOrders
           /\ working' = [working EXCEPT ![i] = @ + 1]
           /\ ctl' = [ctl EXCEPT ![c].pc = "cancel"]
        \/ ctl' = [ctl EXCEPT ![c].pc = "cancel"] /\ UNCHANGED working
        \/ ctl' = [ctl EXCEPT ![c] = Done(c)] /\ UNCHANGED working
  /\ UNCHANGED <<feedVars, regVars, joined, stopFlag, drain, lifecycle, stopped, pubWorking, fed,
                 clean, finished>>

AfterCancelAll(i) == 0

FinishCancel(c) ==
  /\ ctl[c].pc = "cancel"
  /\ working' = [working EXCEPT ![ctl[c].inst] = AfterCancelAll(ctl[c].inst)]
  /\ ctl' = [ctl EXCEPT ![c].pc = "setstopped"]
  /\ UNCHANGED <<feedVars, regVars, joined, stopFlag, drain, lifecycle, stopped, pubWorking, fed,
                 hist>>

FinishSet(c) ==
  /\ ctl[c].pc = "setstopped"
  /\ lifecycle' = [lifecycle EXCEPT ![ctl[c].inst] = "Stopped"]
  /\ ctl' = [ctl EXCEPT ![c].pc = "publish"]
  /\ UNCHANGED <<feedVars, regVars, joined, stopFlag, drain, stopped, working, pubWorking, fed,
                 hist>>

FinishPublish(c) ==
  /\ ctl[c].pc = "publish"
  /\ LET i == ctl[c].inst IN
     /\ pubWorking' = [pubWorking EXCEPT ![i] = working[i]]
     /\ finished' = [finished EXCEPT ![i] = TRUE]
  /\ ctl' = [ctl EXCEPT ![c] = Done(c)]
  /\ UNCHANGED <<feedVars, regVars, joined, stopFlag, drain, lifecycle, stopped, working, fed,
                 clean, onStops>>

-----------------------------------------------------------------------------
(* Supervisor.stop. *)

StopClaim(c) ==
  /\ "stop" \in Calls /\ ctl[c] = Idle /\ ~joined
  /\ joined' = TRUE
  /\ ctl' = [ctl EXCEPT ![c].pc = "unsubscribe"]
  /\ UNCHANGED <<feedVars, regVars, stopFlag, drain, instVars, hist>>

(* `instances t` is read once, after the unsubscribe. *)
StopUnsubscribe(c) ==
  /\ ctl[c].pc = "unsubscribe"
  /\ attached' = FALSE
  /\ ctl' = [ctl EXCEPT ![c] = [pc |-> "each", inst |-> None, todo |-> Append(instances, None)]]
  /\ UNCHANGED <<bus, queue, nEvents, nDropped, handled, regVars, joined, stopFlag, drain,
                 instVars, hist>>

(* The None that ends the list stands for what follows List.iter. *)
StopEach(c) ==
  /\ ctl[c].pc = "each" /\ Head(ctl[c].todo) # None
  /\ ctl' = [ctl EXCEPT ![c] = [pc |-> "finish", inst |-> Head(@.todo), todo |-> Tail(@.todo)]]
  /\ UNCHANGED <<feedVars, regVars, joined, stopFlag, drain, instVars, hist>>

RaisedStopFlag == TRUE

StopFlag(c) ==
  /\ ctl[c].pc = "each" /\ Head(ctl[c].todo) = None
  /\ stopFlag' = RaisedStopFlag
  /\ ctl' = [ctl EXCEPT ![c] = [Idle EXCEPT !.pc = "join"]]
  /\ UNCHANGED <<feedVars, regVars, joined, drain, instVars, hist>>

StopJoin(c) ==
  /\ ctl[c].pc = "join" /\ drain.pc = "done"
  /\ ctl' = [ctl EXCEPT ![c] = Idle]
  /\ UNCHANGED <<feedVars, regVars, joined, stopFlag, drain, instVars, hist>>

-----------------------------------------------------------------------------
Feeding == BusCall \/ BusEnqueue
Adding == \E i \in Inst : AddRead(i) \/ AddCas(i)
Draining == \/ DrainTest \/ DrainTake \/ DrainEmpty \/ DrainCount \/ DrainList \/ DrainNext
            \/ StepEnter \/ StepConsult \/ StepAct \/ StepPublish
Calling(c) == \/ \E i \in Inst : PauseRead(c, i) \/ ResumeRead(c, i) \/ StopInstance(c, i)
              \/ StopClaim(c)
Working(c) == \/ ControlSet(c) \/ FinishTest(c) \/ FinishMark(c) \/ FinishOnStop(c)
              \/ FinishCancel(c) \/ FinishSet(c) \/ FinishPublish(c)
              \/ StopUnsubscribe(c) \/ StopEach(c) \/ StopFlag(c) \/ StopJoin(c)

Next == Feeding \/ Adding \/ Draining \/ \E c \in Controllers : Calling(c) \/ Working(c)
Spec == Init /\ [][Next]_vars

-----------------------------------------------------------------------------
(* Every variable stays in its domain. *)
TypeOK ==
  /\ attached \in BOOLEAN /\ bus \in {"idle", "calling"}
  /\ queue \in Seq(1 .. MaxRecords) /\ Len(queue) <= Capacity
  /\ nEvents \in 0 .. MaxRecords /\ nDropped \in 0 .. MaxRecords /\ handled \in 0 .. MaxRecords
  /\ instances \in Seq(Inst) /\ joined \in BOOLEAN /\ stopFlag \in BOOLEAN
  /\ drain.pc \in {"test", "poll", "finish", "count", "list", "feed", "consult", "act", "publish", "done"}
  /\ drain.todo \in Seq(Inst) /\ drain.rec \in 0 .. MaxRecords
  /\ lifecycle \in [Inst -> {"Running", "Paused", "Stopped"}] /\ stopped \in [Inst -> BOOLEAN]
  /\ working \in [Inst -> 0 .. MaxOrders] /\ pubWorking \in [Inst -> 0 .. MaxOrders]
  /\ \A i \in Inst : adder[i].pc \in {"new", "read", "cas", "added", "refused"}
  /\ \A c \in Controllers : ctl[c].inst \in Inst \union {None}

(* Every record the handler was given is counted as drained or dropped, is  *)
(* in the queue, or is in the hands of the dispatcher or the drain Domain.  *)
EveryRecordAccounted ==
  handled = nEvents + nDropped + Len(queue) + (IF bus = "calling" THEN 1 ELSE 0)
                    + (IF drain.pc = "count" THEN 1 ELSE 0)

(* add: an instance whose add returned true is in the list for good, the    *)
(* order of the others never changes and the ids stay distinct, whatever    *)
(* adds race with it.                                                       *)
AddedStays ==
  [][/\ IsPrefix(instances, instances')
     /\ \A j, k \in DOMAIN instances' : idOf[instances'[j]] = idOf[instances'[k]] => j = k
     /\ \A i \in Inst : adder'[i].pc = "added" => i \in ToSet(instances')]_vars

(* An instance that raises costs no other a record, and an instance joins   *)
(* for good: while it runs, it has processed every record drained since it  *)
(* was registered.                                                          *)
RunningGetsEverything ==
  \A i \in Registered :
    /\ drain.pc \in {"test", "poll", "finish", "done", "count"} /\ ~stopped[i]
    => fed[i] = nEvents - seen[i]

(* stop: if no step, pause or resume overlapped it, a finished instance has *)
(* no working order, says so in its snapshot, and stays stopped.            *)
CleanStopSettles ==
  \A i \in Inst : finished[i] /\ clean[i] /\ onStops[i] <= 1 =>
    working[i] = 0 /\ pubWorking[i] = 0 /\ lifecycle[i] = "Stopped"


(* instance.mli on stop: "cancel every working order, and publish a final   *)
(* snapshot" - a stopped instance has none.  A step in progress admits one. *)
StoppedHasNoOrders ==
  \A i \in Inst : finished[i] /\ ~InStep(i) => working[i] = 0
=============================================================================
