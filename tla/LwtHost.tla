------------------------------- MODULE LwtHost -------------------------------
(***************************************************************************)
(* lwt_host.ml: the one Lwt scheduler of the process.  A host is built, it *)
(* is given its fibers, started and stopped once by the thread that owns   *)
(* it; its Domain runs the fibers until all have ended.  What a fiber does *)
(* is its own module's affair: here it is a name that ends.                *)
(*                                                                         *)
(* Calls come from one thread, as in the programs of bin/, in an order the *)
(* configuration gives; none starts a host that has been stopped.          *)
(***************************************************************************)
EXTENDS Naturals, Sequences

CONSTANTS Hosts, Fibers,
          Programs      \* [calls: the calls in order, fibers: what is attached to
                        \* each host before]

ASSUME ProgramAssumption ==
  /\ Programs \subseteq [calls : Seq([call : {"start", "stop"}, host : Hosts]),
                          fibers : [Hosts -> SUBSET Fibers]]
  /\ \A p \in Programs : \A i, j \in DOMAIN p.calls :
       p.calls[i].host = p.calls[j].host /\ p.calls[i].call = "stop" /\ i < j => p.calls[j].call = "stop"

VARIABLES
  program,      \* constant: what the owner's thread does
  started, joined, stopFlag,  \* the atomics of each host
  globalRunning,
  spawned,      \* t.domain is set
  domain,       \* the host's Domain: "none", "running" or "ended"
  running,      \* its fibers that have not ended
  told,         \* the stop promise is resolved, which ends the watcher
  caller        \* where the owner's thread is, for which host, and its calls so far

atomics == <<started, joined, stopFlag, globalRunning>>
hostVars == <<program, atomics, spawned, domain, running, told, caller>>

At(pc) == caller.pc = pc
Goto(pc) == caller' = [caller EXCEPT !.pc = pc]
Of(flags) == flags[caller.host]
Set(flags, b) == [flags EXCEPT ![caller.host] = b]

-----------------------------------------------------------------------------
Call(what, h) ==
  /\ At("idle") /\ caller.done < Len(program.calls)
  /\ program.calls[caller.done + 1] = [call |-> what, host |-> h]
Calling(pc, h) == caller' = [pc |-> pc, host |-> h, done |-> caller.done + 1]

(* start: two compare-and-sets, the second undone by a third step when it  *)
(* fails.                                                                  *)
StartClaim(h) ==
  /\ Call("start", h)
  /\ Calling(IF started[h] THEN "idle" ELSE "global", h)
  /\ started' = [started EXCEPT ![h] = TRUE]
  /\ UNCHANGED <<program, joined, stopFlag, globalRunning, spawned, domain, running, told>>

StartGlobal ==
  /\ At("global")
  /\ globalRunning' = TRUE
  /\ Goto(IF globalRunning THEN "refused" ELSE "spawn")
  /\ UNCHANGED <<program, started, joined, stopFlag, spawned, domain, running, told>>

StartRefused ==
  /\ At("refused")
  /\ started' = Set(started, FALSE)
  /\ Goto("idle")
  /\ UNCHANGED <<program, joined, stopFlag, globalRunning, spawned, domain, running, told>>

StartSpawn ==
  /\ At("spawn")
  /\ domain' = Set(domain, "running")
  /\ running' = Set(running, Of(program.fibers))
  /\ spawned' = Set(spawned, TRUE)
  /\ Goto("idle")
  /\ UNCHANGED <<program, atomics, told>>

(* stop: the first call raises the flag and waits for the Domain.          *)
StopClaim(h) ==
  /\ Call("stop", h)
  /\ Calling(IF joined[h] THEN "idle" ELSE "flag", h)
  /\ joined' = [joined EXCEPT ![h] = TRUE]
  /\ UNCHANGED <<program, started, stopFlag, globalRunning, spawned, domain, running, told>>

StopFlag ==
  /\ At("flag")
  /\ stopFlag' = Set(stopFlag, TRUE)
  /\ Goto(IF Of(spawned) THEN "join" ELSE "free")
  /\ UNCHANGED <<program, started, joined, globalRunning, spawned, domain, running, told>>

StopJoin ==
  /\ At("join") /\ Of(domain) = "ended"
  /\ Goto("free")
  /\ UNCHANGED <<program, atomics, spawned, domain, running, told>>

StopFree ==
  /\ At("free")
  /\ spawned' = Set(spawned, FALSE)
  /\ globalRunning' = (globalRunning /\ ~Of(started))
  /\ Goto("idle")
  /\ UNCHANGED <<program, started, joined, stopFlag, domain, running, told>>

-----------------------------------------------------------------------------
(* domain_main: the watcher polls the flag and resolves the promise; the   *)
(* last fiber to end raises the flag itself, so that the watcher ends too. *)
Runs(h, f) == domain[h] = "running" /\ f \in running[h]

Watch(h) ==
  /\ domain[h] = "running" /\ stopFlag[h] /\ ~told[h]
  /\ told' = [told EXCEPT ![h] = TRUE]
  /\ UNCHANGED <<program, atomics, spawned, domain, running, caller>>

(* guarded: a fiber that raises ends like any other. *)
FiberEnds(h, f) ==
  /\ Runs(h, f)
  /\ running' = [running EXCEPT ![h] = @ \ {f}]
  /\ UNCHANGED <<program, atomics, spawned, domain, told, caller>>

AllEnded(h) ==
  /\ domain[h] = "running" /\ running[h] = {} /\ ~stopFlag[h]
  /\ stopFlag' = [stopFlag EXCEPT ![h] = TRUE]
  /\ UNCHANGED <<program, started, joined, globalRunning, spawned, domain, running, told, caller>>

MainReturns(h) ==
  /\ domain[h] = "running" /\ running[h] = {} /\ told[h]
  /\ domain' = [domain EXCEPT ![h] = "ended"]
  /\ UNCHANGED <<program, atomics, spawned, running, told, caller>>

HostInit ==
  LET none == [h \in Hosts |-> FALSE]
  IN  /\ started = none /\ joined = none /\ stopFlag = none /\ spawned = none /\ told = none
      /\ globalRunning = FALSE
      /\ domain = [h \in Hosts |-> "none"] /\ running = [h \in Hosts |-> {}]
      /\ program \in Programs
  /\ caller \in [pc : {"idle"}, host : Hosts, done : {0}]

Starting == StartGlobal \/ StartRefused \/ StartSpawn
Stopping == StopFlag \/ StopJoin \/ StopFree
Calls == Starting \/ Stopping \/ \E h \in Hosts : StartClaim(h) \/ StopClaim(h)

(* The loop of the Domain, but for the fibers.                             *)
Scheduler(h) == AllEnded(h) \/ MainReturns(h)
=============================================================================
