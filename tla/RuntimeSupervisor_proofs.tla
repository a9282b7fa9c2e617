---------------------- MODULE RuntimeSupervisor_proofs ----------------------
(***************************************************************************)
(* The live runtime, for every number of instances, controllers and        *)
(* records and every capacity of the queue: the books of the feed, the     *)
(* list of instances under racing adds, and the stop.                      *)
(***************************************************************************)
EXTENDS RuntimeSupervisor, SequenceTheorems, TLAPS

DrainPcs == {"test", "poll", "finish", "count", "list", "feed", "consult", "act", "publish", "done"}
InsideStep == {"consult", "act", "publish"}

DrainType == [pc : DrainPcs, final : BOOLEAN, rec : Nat, todo : Seq(Inst)]

(* The drain Domain's own state, and the list it reads. *)
DrainInv ==
  /\ drain \in DrainType /\ stopFlag \in BOOLEAN
  /\ queue \in Seq(Nat) /\ handled \in Nat
  /\ instances \in Seq(Inst)
  /\ drain.pc \in InsideStep => drain.todo # <<>>

-----------------------------------------------------------------------------
(* Whatever a turn of the drain Domain does, its state stays well formed.  *)
LEMMA DrainingKeepsDrain == ASSUME DrainInv, Draining PROVE DrainInv'
<1> USE DEF DrainInv, DrainType, DrainPcs, InsideStep
<1>1. CASE DrainTest
  BY <1>1 DEF DrainTest, Enter, feedVars, regVars
<1>2. CASE DrainTake
  <2>1. Head(queue) \in Nat /\ Tail(queue) \in Seq(Nat)
    BY <1>2 DEF DrainTake
  <2> QED BY <1>2, <2>1 DEF DrainTake, regVars
<1>3. CASE DrainEmpty
  BY <1>3 DEF DrainEmpty, feedVars, regVars
<1>4. CASE DrainCount
  BY <1>4 DEF DrainCount, regVars
<1>10. CASE DrainList
  BY <1>10 DEF DrainList, feedVars, regVars
<1>5. CASE DrainNext
  BY <1>5 DEF DrainNext, NextRound, feedVars, regVars
<1>6. CASE StepEnter
  <2>1. Tail(drain.todo) \in Seq(Inst)
    BY <1>6 DEF StepEnter
  <2> QED BY <1>6, <2>1 DEF StepEnter, feedVars, regVars
<1>7. CASE StepConsult
  BY <1>7 DEF StepConsult, feedVars, regVars
<1>8. CASE StepAct
  <2>1. Tail(drain.todo) \in Seq(Inst)
    BY <1>8 DEF StepAct
  <2> QED BY <1>8, <2>1 DEF StepAct, AfterStep, feedVars, regVars
<1>9. CASE StepPublish
  <2>1. Tail(drain.todo) \in Seq(Inst)
    BY <1>9 DEF StepPublish
  <2> QED BY <1>9, <2>1 DEF StepPublish, AfterStep, feedVars, regVars
<1> QED BY <1>1, <1>2, <1>3, <1>4, <1>5, <1>6, <1>7, <1>8, <1>9, <1>10 DEF Draining

-----------------------------------------------------------------------------
(* What the other Domains leave alone. *)

flow == <<handled, nEvents, nDropped, queue, bus, drain>>

AccountInv ==
  /\ DrainInv
  /\ nEvents \in Nat /\ nDropped \in Nat /\ bus \in {"idle", "calling"}
  /\ EveryRecordAccounted

LEMMA CallsLeaveTheDrain ==
  ASSUME NEW c \in Controllers, Calling(c) \/ Working(c)
  PROVE  /\ UNCHANGED <<flow, instances>>
         /\ stopFlag' = stopFlag \/ stopFlag' = TRUE
  BY DEF Calling, Working, PauseRead, ResumeRead, StopInstance, StopClaim, ControlSet,
         FinishTest, FinishMark, FinishOnStop, FinishCancel, FinishSet, FinishPublish,
         StopUnsubscribe, StopEach, StopFlag, StopJoin, RaisedStopFlag, feedVars, regVars, flow

LEMMA AddsLeaveTheFlow ==
  ASSUME Adding
  PROVE  /\ UNCHANGED <<flow, stopFlag>>
         /\ instances' = instances \/ \E i \in Inst : instances' = Append(instances, i)
  BY DEF Adding, AddRead, AddCas, CasWins, feedVars, regVars, flow

LEMMA AccountInit == Init => AccountInv
<1> SUFFICES ASSUME Init PROVE AccountInv
  OBVIOUS
<1>1. drain \in DrainType /\ drain.pc = "test"
  BY DEF Init, DrainType, DrainPcs
<1>2. queue = <<>> /\ queue \in Seq(Nat) /\ Len(queue) = 0 /\ instances \in Seq(Inst)
  BY DEF Init
<1>3. DrainInv
  BY <1>1, <1>2 DEF Init, DrainInv, InsideStep
<1> QED BY <1>1, <1>2, <1>3 DEF Init, AccountInv, EveryRecordAccounted

LEMMA AccountStep == AccountInv /\ [Next]_vars => AccountInv'
<1> SUFFICES ASSUME AccountInv, [Next]_vars PROVE AccountInv'
  OBVIOUS
<1> USE DEF AccountInv
<1>1. CASE BusCall
  BY <1>1 DEF BusCall, DrainInv, EveryRecordAccounted, regVars
<1>2. CASE BusEnqueue
  <2>1. CASE Len(queue) < Capacity
    <3>1. queue' = Append(queue, handled) /\ nDropped' = nDropped
      BY <1>2, <2>1 DEF BusEnqueue, Enqueued, Dropped
    <3>2. queue' \in Seq(Nat) /\ Len(queue') = Len(queue) + 1 /\ Len(queue) \in Nat
      BY <3>1 DEF DrainInv
    <3> QED BY <1>2, <3>1, <3>2 DEF BusEnqueue, DrainInv, EveryRecordAccounted, regVars
  <2>2. CASE ~(Len(queue) < Capacity)
    <3>1. queue' = queue /\ nDropped' = nDropped + 1 /\ Len(queue) \in Nat
      BY <1>2, <2>2 DEF BusEnqueue, Enqueued, Dropped, DrainInv
    <3> QED BY <1>2, <3>1 DEF BusEnqueue, DrainInv, EveryRecordAccounted, regVars
  <2> QED BY <2>1, <2>2
<1>3. CASE Adding
  <2>1. DrainInv'
    <3>1. instances' \in Seq(Inst)
      <4>1. \A i \in Inst : Append(instances, i) \in Seq(Inst)
        BY DEF DrainInv
      <4> QED BY <1>3, <4>1, AddsLeaveTheFlow DEF DrainInv
    <3>2. drain' = drain /\ queue' = queue /\ handled' = handled /\ stopFlag' = stopFlag
      BY <1>3, AddsLeaveTheFlow DEF flow
    <3> QED BY <3>1, <3>2 DEF DrainInv
  <2> QED BY <1>3, <2>1, AddsLeaveTheFlow DEF EveryRecordAccounted, flow
<1>4. CASE Draining
  <2>1. DrainInv'
    BY <1>4, DrainingKeepsDrain
  <2>2. nDropped' = nDropped /\ bus' = bus /\ handled' = handled
    BY <1>4 DEF Draining, DrainTest, DrainTake, DrainEmpty, DrainCount, DrainList, DrainNext, StepEnter,
                StepConsult, StepAct, StepPublish, feedVars
  <2>3. nEvents' \in Nat /\ EveryRecordAccounted'
    <3>1. CASE DrainTake
      <4>1. drain.pc # "count" /\ drain'.pc = "count" /\ nEvents' = nEvents
        BY <3>1 DEF DrainTake, DrainInv, DrainType
      <4>2. Len(queue') = Len(queue) - 1 /\ Len(queue) \in Nat
        BY <3>1 DEF DrainTake, DrainInv
      <4> QED BY <2>2, <4>1, <4>2 DEF EveryRecordAccounted
    <3>2. CASE DrainCount
      <4>1. drain.pc = "count" /\ drain'.pc # "count" /\ nEvents' = nEvents + 1
        BY <3>2 DEF DrainCount, DrainInv, DrainType
      <4>2. queue' = queue /\ Len(queue) \in Nat
        BY <3>2 DEF DrainCount, DrainInv
      <4> QED BY <2>2, <4>1, <4>2 DEF EveryRecordAccounted
    <3>3. CASE ~DrainTake /\ ~DrainCount
      <4>1. drain.pc # "count" /\ drain'.pc # "count"
        BY <1>4, <3>3 DEF Draining, DrainTest, DrainEmpty, DrainList, DrainNext, StepEnter, StepConsult,
             StepAct, StepPublish, Enter, NextRound, AfterStep, DrainInv, DrainType
      <4>2. nEvents' = nEvents /\ queue' = queue
        BY <1>4, <3>3 DEF Draining, DrainTest, DrainEmpty, DrainList, DrainNext, StepEnter, StepConsult,
             StepAct, StepPublish, feedVars
      <4> QED BY <2>2, <4>1, <4>2 DEF EveryRecordAccounted
    <3> QED BY <3>1, <3>2, <3>3
  <2> QED BY <2>1, <2>2, <2>3
<1>5. CASE \E c \in Controllers : Calling(c) \/ Working(c)
  <2>1. DrainInv'
    BY <1>5, CallsLeaveTheDrain DEF DrainInv, flow
  <2> QED BY <1>5, <2>1, CallsLeaveTheDrain DEF EveryRecordAccounted, flow
<1>6. CASE UNCHANGED vars
  BY <1>6 DEF vars, feedVars, regVars, DrainInv, EveryRecordAccounted
<1> QED BY <1>1, <1>2, <1>3, <1>4, <1>5, <1>6 DEF Next, Feeding

(* Whatever the capacity, the number of instances and the order of the      *)
(* Domains' steps, every record the bus handler took is drained, counted as *)
(* dropped, queued or in the hands of one Domain.                           *)
THEOREM RecordsAlwaysAddUp == Spec => []EveryRecordAccounted
<1>1. AccountInv => EveryRecordAccounted
  BY DEF AccountInv
<1> QED BY <1>1, AccountInit, AccountStep, PTL DEF Spec

-----------------------------------------------------------------------------
(* Racing adds. *)

AdderType == [pc : {"new", "read", "cas", "added", "refused"}, cur : Seq(Inst)]

DistinctIds == \A j, k \in DOMAIN instances : idOf[instances[j]] = idOf[instances[k]] => j = k

(* Between its read and its compare-and-set an adder holds a list without   *)
(* its id: the set succeeds on that very list, so that the id stays new.    *)
AddInv ==
  /\ instances \in Seq(Inst) /\ adder \in [Inst -> AdderType]
  /\ \A i \in Inst : adder[i].pc = "cas" => ~HasId(adder[i].cur, i)
  /\ DistinctIds
  /\ \A i \in Inst : adder[i].pc = "added" => i \in ToSet(instances)

LEMMA AppendFacts ==
  ASSUME NEW s \in Seq(Inst), NEW i \in Inst
  PROVE  /\ Append(s, i) \in Seq(Inst) /\ DOMAIN s = 1 .. Len(s) /\ Len(s) \in Nat
         /\ DOMAIN Append(s, i) = 1 .. Len(s) + 1
         /\ Append(s, i)[Len(s) + 1] = i /\ \A j \in 1 .. Len(s) : Append(s, i)[j] = s[j]
         /\ IsPrefix(s, Append(s, i)) /\ IsPrefix(s, s)
         /\ ToSet(s) \subseteq ToSet(Append(s, i)) /\ i \in ToSet(Append(s, i))
<1>1. /\ Append(s, i) \in Seq(Inst) /\ DOMAIN s = 1 .. Len(s) /\ Len(s) \in Nat
      /\ DOMAIN Append(s, i) = 1 .. Len(s) + 1 /\ Len(Append(s, i)) = Len(s) + 1
      /\ Append(s, i)[Len(s) + 1] = i /\ \A j \in 1 .. Len(s) : Append(s, i)[j] = s[j]
  OBVIOUS
<1>2. SubSeq(s, 1, Len(s)) = SubSeq(Append(s, i), 1, Len(s))
  BY <1>1
<1>3. IsPrefix(s, Append(s, i)) /\ IsPrefix(s, s)
  BY <1>1, <1>2 DEF IsPrefix
<1>4. ToSet(s) \subseteq ToSet(Append(s, i)) /\ i \in ToSet(Append(s, i))
  BY <1>1 DEF ToSet
<1> QED BY <1>1, <1>3, <1>4

LEMMA AddCasStep ==
  ASSUME AddInv, NEW i \in Inst, AddCas(i)
  PROVE  AddInv' /\ IsPrefix(instances, instances')
<1>1. CASE CasWins(i)
  <2>1. /\ instances' = Append(instances, i) /\ idOf' = idOf
        /\ adder' = [adder EXCEPT ![i] = [pc |-> "added", cur |-> <<>>]]
    BY <1>1 DEF AddCas, CasWins
  <2>2. ~HasId(instances, i)
    BY <1>1 DEF AddCas, CasWins, AddInv
  <2>3. adder' \in [Inst -> AdderType] /\ adder'[i].pc = "added"
        /\ \A j \in Inst \ {i} : adder'[j] = adder[j]
    BY <2>1 DEF AddInv, AdderType
  <2>4. DistinctIds'
    <3>1. \A j \in 1 .. Len(instances) : idOf[instances[j]] # idOf[i]
      BY <2>2, AppendFacts DEF HasId, ToSet, AddInv
    <3> QED BY <2>1, <3>1, AppendFacts DEF DistinctIds, AddInv
  <2>5. ASSUME NEW j \in Inst, adder'[j].pc = "cas" PROVE ~HasId(adder[j].cur, j) /\ adder'[j] = adder[j]
    BY <2>3, <2>5 DEF AddInv
  <2>6. \A j \in Inst : adder'[j].pc = "cas" => ~(\E k \in ToSet(adder'[j].cur) : idOf'[k] = idOf'[j])
    BY <2>1, <2>5 DEF HasId
  <2>7. \A j \in Inst : adder'[j].pc = "added" => j \in ToSet(instances')
    BY <2>1, <2>3, AppendFacts DEF AddInv
  <2> QED BY <2>1, <2>3, <2>4, <2>6, <2>7, AppendFacts DEF AddInv, HasId
<1>2. CASE ~CasWins(i)
  <2>1. /\ instances' = instances /\ idOf' = idOf
        /\ adder' = [adder EXCEPT ![i] = [pc |-> "read", cur |-> instances]]
    BY <1>2 DEF AddCas, AfterLostCas
  <2>2. adder' \in [Inst -> AdderType] /\ adder'[i].pc = "read"
        /\ \A j \in Inst \ {i} : adder'[j] = adder[j]
    BY <2>1 DEF AddInv, AdderType
  <2> QED BY <2>1, <2>2, AppendFacts DEF AddInv, DistinctIds, HasId
<1> QED BY <1>1, <1>2

LEMMA AddReadStep ==
  ASSUME AddInv, NEW i \in Inst, AddRead(i)
  PROVE  AddInv' /\ IsPrefix(instances, instances')
<1>1. instances' = instances /\ idOf' = idOf
  BY DEF AddRead
<1>2. CASE HasId(instances, i)
  <2>1. adder' = [adder EXCEPT ![i] = [pc |-> "refused", cur |-> <<>>]]
    BY <1>2 DEF AddRead
  <2>2. adder' \in [Inst -> AdderType] /\ adder'[i].pc = "refused"
        /\ \A j \in Inst \ {i} : adder'[j] = adder[j]
    BY <2>1 DEF AddInv, AdderType
  <2> QED BY <1>1, <2>2, AppendFacts DEF AddInv, DistinctIds, HasId
<1>3. CASE ~HasId(instances, i)
  <2>1. adder' = [adder EXCEPT ![i] = [pc |-> "cas", cur |-> instances]]
    BY <1>3 DEF AddRead
  <2>2. adder' \in [Inst -> AdderType] /\ adder'[i].pc = "cas" /\ adder'[i].cur = instances
        /\ \A j \in Inst \ {i} : adder'[j] = adder[j]
    BY <2>1 DEF AddInv, AdderType
  <2> QED BY <1>1, <1>3, <2>2, AppendFacts DEF AddInv, DistinctIds, HasId
<1> QED BY <1>2, <1>3

LEMMA OthersLeaveTheList ==
  ASSUME BusCall \/ BusEnqueue \/ Draining \/ UNCHANGED vars
         \/ \E c \in Controllers : Calling(c) \/ Working(c)
  PROVE  UNCHANGED <<instances, idOf, adder>>
  BY DEF BusCall, BusEnqueue, Draining, DrainTest, DrainTake, DrainEmpty, DrainCount, DrainList, DrainNext,
         StepEnter, StepConsult, StepAct, StepPublish, Calling, Working, PauseRead, ResumeRead,
         StopInstance, StopClaim, ControlSet, FinishTest, FinishMark, FinishOnStop,
         FinishCancel, FinishSet, FinishPublish, StopUnsubscribe, StopEach, StopFlag, StopJoin,
         vars, regVars

LEMMA AddStep == AddInv /\ [Next]_vars => AddInv' /\ IsPrefix(instances, instances')
<1> SUFFICES ASSUME AddInv, [Next]_vars PROVE AddInv' /\ IsPrefix(instances, instances')
  OBVIOUS
<1>1. CASE Adding
  BY <1>1, AddReadStep, AddCasStep DEF Adding
<1>2. CASE ~Adding
  <2>1. UNCHANGED <<instances, idOf, adder>>
    BY <1>2, OthersLeaveTheList DEF Next, Feeding
  <2> QED BY <2>1, AppendFacts DEF AddInv, DistinctIds, HasId, IsPrefix
<1> QED BY <1>1, <1>2

LEMMA AddInit == Init => AddInv
  BY DEF Init, AddInv, AdderType, DistinctIds

(* Any number of adds may race: an instance whose add returned true is in   *)
(* the list for good, no id is twice in it, and nothing in it moves.        *)
THEOREM AddsNeverUndone == Spec => AddedStays
<1>1. AddInv /\ AddInv' /\ [Next]_vars =>
        [/\ IsPrefix(instances, instances')
         /\ \A j, k \in DOMAIN instances' : idOf[instances'[j]] = idOf[instances'[k]] => j = k
         /\ \A i \in Inst : adder'[i].pc = "added" => i \in ToSet(instances')]_vars
  <2> SUFFICES ASSUME AddInv, AddInv', [Next]_vars
               PROVE  /\ IsPrefix(instances, instances')
                      /\ \A j, k \in DOMAIN instances' :
                           idOf[instances'[j]] = idOf[instances'[k]] => j = k
                      /\ \A i \in Inst : adder'[i].pc = "added" => i \in ToSet(instances')
    OBVIOUS
  <2>1. idOf' = idOf
    <3>1. CASE Adding
      BY <3>1 DEF Adding, AddRead, AddCas
    <3>2. CASE ~Adding
      BY <3>2, OthersLeaveTheList DEF Next, Feeding
    <3> QED BY <3>1, <3>2
  <2> QED BY <2>1, AddStep DEF AddInv, DistinctIds
<1>2. AddInv /\ [Next]_vars => AddInv'
  BY AddStep
<1> QED BY <1>1, <1>2, AddInit, PTL DEF Spec, AddedStays

-----------------------------------------------------------------------------
(* What an instance is owed. *)

Injective(list) == \A j, k \in DOMAIN list : list[j] = list[k] => j = k

(* Instance i has yet to be given the record in the drain Domain's hands.   *)
Awaits(i) == \/ drain.pc = "list"
             \/ drain.pc = "feed" /\ i \in ToSet(drain.todo)
             \/ drain.pc \in InsideStep /\ i \in ToSet(Tail(drain.todo))

Owed(i) == nEvents - seen[i] - (IF Awaits(i) THEN 1 ELSE 0)

FedInv ==
  /\ fed \in [Inst -> Nat] /\ seen \in [Inst -> Int] /\ stopped \in [Inst -> BOOLEAN]
  /\ Injective(drain.todo) /\ ToSet(drain.todo) \subseteq Registered
  /\ \A i \in Inst \ Registered : fed[i] = 0
  /\ \A i \in Registered : ~stopped[i] => fed[i] = Owed(i)

GetsInv == AccountInv /\ AddInv /\ FedInv

LEMMA TailFacts ==
  ASSUME NEW s \in Seq(Inst), s # <<>>, Injective(s)
  PROVE  /\ Tail(s) \in Seq(Inst) /\ Injective(Tail(s)) /\ s[1] \in Inst
         /\ ToSet(s) = {s[1]} \union ToSet(Tail(s)) /\ s[1] \notin ToSet(Tail(s))
<1>1. /\ Len(s) \in Nat \ {0} /\ DOMAIN s = 1 .. Len(s) /\ s[1] \in Inst
      /\ Tail(s) \in Seq(Inst) /\ DOMAIN Tail(s) = 1 .. Len(s) - 1
      /\ \A j \in 1 .. Len(s) - 1 : Tail(s)[j] = s[j + 1]
  OBVIOUS
<1>2. Injective(Tail(s))
  BY <1>1 DEF Injective
<1>3. \A j \in 2 .. Len(s) : s[j] = Tail(s)[j - 1]
  BY <1>1
<1>4. ToSet(s) = {s[1]} \union ToSet(Tail(s))
  <2>1. ToSet(Tail(s)) \subseteq ToSet(s) /\ s[1] \in ToSet(s)
    BY <1>1 DEF ToSet
  <2>2. ASSUME NEW j \in 1 .. Len(s), j # 1 PROVE s[j] \in ToSet(Tail(s))
    <3>1. j - 1 \in 1 .. Len(s) - 1 /\ j \in 2 .. Len(s)
      BY <1>1, <2>2
    <3> QED BY <1>1, <1>3, <3>1 DEF ToSet
  <2> QED BY <1>1, <2>1, <2>2 DEF ToSet
<1>5. s[1] \notin ToSet(Tail(s))
  BY <1>1 DEF ToSet, Injective
<1> QED BY <1>1, <1>2, <1>4, <1>5

LEMMA RegisteredFacts ==
  ASSUME AddInv PROVE Injective(instances) /\ Registered \subseteq Inst
  BY DEF AddInv, DistinctIds, Injective, Registered, ToSet

(* A step that starts no record and registers nobody pays no one.           *)
LEMMA SameDebts ==
  ASSUME FedInv, UNCHANGED <<fed, seen, nEvents, instances>>,
         stopped' \in [Inst -> BOOLEAN], \A i \in Inst : stopped[i] => stopped'[i],
         Registered \subseteq Inst,
         Injective(drain'.todo), ToSet(drain'.todo) \subseteq Registered,
         \A i \in Registered : ~stopped'[i] => Awaits(i)' = Awaits(i)
  PROVE  FedInv'
<1>1. Registered' = Registered
  BY DEF Registered
<1>2. \A i \in Registered : ~stopped'[i] => fed[i] = Owed(i)'
  BY DEF FedInv, Owed
<1> QED BY <1>1, <1>2 DEF FedInv

LEMMA DrainingKeepsDebts ==
  ASSUME GetsInv, Draining PROVE FedInv'
<1> USE DEF GetsInv, AccountInv
<1>1. drain \in DrainType /\ drain.todo \in Seq(Inst) /\ Registered \subseteq Inst
      /\ Injective(drain.todo) /\ ToSet(drain.todo) \subseteq Registered
      /\ stopped \in [Inst -> BOOLEAN]
  BY RegisteredFacts DEF DrainInv, DrainType, FedInv
<1>2. UNCHANGED <<seen, instances, stopped>>
  BY DEF Draining, DrainTest, DrainTake, DrainEmpty, DrainCount, DrainList, DrainNext, StepEnter,
         StepConsult, StepAct, StepPublish, regVars, instVars
<1>3. CASE DrainTest \/ DrainTake \/ DrainEmpty
  <2>1. /\ UNCHANGED <<fed, nEvents>> /\ drain'.todo = drain.todo
        /\ drain.pc \in {"test", "poll", "finish"}
        /\ drain'.pc \in {"finish", "poll", "count", "done", "test"}
    BY <1>1, <1>3 DEF DrainTest, DrainTake, DrainEmpty, Enter, feedVars, instVars, DrainType
  <2>2. \A i \in Inst : Awaits(i)' = Awaits(i)
    BY <2>1 DEF Awaits, InsideStep
  <2> QED BY <1>1, <1>2, <2>1, <2>2, SameDebts
<1>4. CASE DrainCount
  <2>1. /\ nEvents' = nEvents + 1 /\ drain'.pc = "list" /\ drain'.todo = drain.todo
        /\ fed' = fed /\ drain.pc = "count"
    BY <1>1, <1>4 DEF DrainCount, instVars, DrainType
  <2>2. \A i \in Registered : ~Awaits(i) /\ Awaits(i)'
    BY <2>1 DEF Awaits, InsideStep
  <2>3. \A i \in Registered : ~stopped[i] => fed[i] = Owed(i)'
    BY <1>1, <1>2, <2>1, <2>2 DEF FedInv, Owed
  <2>4. Registered' = Registered
    BY <1>2 DEF Registered
  <2> QED BY <1>1, <1>2, <2>1, <2>3, <2>4 DEF FedInv
<1>8. CASE DrainList
  <2>1. /\ UNCHANGED <<fed, nEvents>> /\ drain.pc = "list" /\ drain'.pc = "feed" /\ drain'.todo = instances
    BY <1>1, <1>8 DEF DrainList, feedVars, instVars, DrainType
  <2>2. \A i \in Registered : Awaits(i) /\ Awaits(i)'
    BY <2>1 DEF Awaits, Registered
  <2>3. Injective(drain'.todo) /\ ToSet(drain'.todo) \subseteq Registered
    BY <2>1, RegisteredFacts DEF Registered
  <2>4. \A i \in Registered : Awaits(i)' = Awaits(i)
    <3> TAKE i \in Registered
    <3>1. (Awaits(i) <=> TRUE) /\ (Awaits(i)' <=> TRUE)
      BY <2>2
    <3>2. Awaits(i) \in BOOLEAN /\ Awaits(i)' \in BOOLEAN
      BY DEF Awaits
    <3> QED BY <3>1, <3>2, Zenon
  <2> QED BY <1>1, <1>2, <2>1, <2>3, <2>4, SameDebts
<1>5. CASE DrainNext
  <2>1. /\ UNCHANGED <<fed, nEvents>> /\ drain'.todo = drain.todo /\ drain.todo = <<>>
        /\ drain.pc = "feed" /\ drain'.pc \in {"finish", "test"}
    BY <1>1, <1>5 DEF DrainNext, NextRound, feedVars, instVars, DrainType
  <2>2. \A i \in Inst : Awaits(i)' = Awaits(i)
    BY <2>1 DEF Awaits, InsideStep, ToSet
  <2> QED BY <1>1, <1>2, <2>1, <2>2, SameDebts
<1>6. CASE StepEnter
  <2>1. drain.pc = "feed" /\ drain.todo # <<>> /\ nEvents' = nEvents
    BY <1>6 DEF StepEnter, feedVars
  <2> PICK i \in Inst : i = drain.todo[1]
    BY <1>1, <2>1, TailFacts
  <2>2. /\ Tail(drain.todo) \in Seq(Inst) /\ Injective(Tail(drain.todo)) /\ i \in Inst
        /\ ToSet(drain.todo) = {i} \union ToSet(Tail(drain.todo)) /\ i \notin ToSet(Tail(drain.todo))
    BY <1>1, <2>1, TailFacts
  <2>3. CASE Accepts(i)
    <3>1. /\ drain' = [drain EXCEPT !.pc = "consult"] /\ fed' = [fed EXCEPT ![i] = @ + 1]
      BY <1>6, <2>3 DEF StepEnter, Current
    <3>2. drain'.pc = "consult" /\ drain'.todo = drain.todo
      BY <1>1, <3>1 DEF DrainType
    <3>3. /\ fed' \in [Inst -> Nat] /\ fed'[i] = fed[i] + 1 /\ \A j \in Inst \ {i} : fed'[j] = fed[j]
      BY <2>2, <3>1 DEF FedInv
    <3>4. /\ Awaits(i) /\ ~Awaits(i)' /\ \A j \in Inst \ {i} : Awaits(j)' = Awaits(j)
      BY <2>1, <2>2, <3>2 DEF Awaits, InsideStep
    <3>5. i \in Registered /\ Registered' = Registered
      BY <1>1, <1>2, <2>2 DEF Registered
    <3>6. \A j \in Registered : ~stopped[j] => fed'[j] = Owed(j)'
      <4>1. ASSUME NEW j \in Registered, ~stopped[j], j = i PROVE fed'[j] = Owed(j)'
        <5>1. fed[i] = nEvents - seen[i] - 1 /\ nEvents \in Int /\ seen[i] \in Int
          BY <2>2, <3>4, <4>1 DEF FedInv, Owed
        <5>2. Owed(i)' = nEvents - seen[i] - 0
          BY <1>2, <2>1, <3>4 DEF Owed
        <5> QED BY <3>3, <4>1, <5>1, <5>2
      <4>2. ASSUME NEW j \in Registered, ~stopped[j], j # i PROVE fed'[j] = Owed(j)'
        BY <1>1, <1>2, <2>1, <3>3, <3>4, <4>2 DEF FedInv, Owed
      <4> QED BY <4>1, <4>2
    <3> QED BY <1>1, <1>2, <3>2, <3>3, <3>5, <3>6 DEF FedInv
  <2>4. CASE ~Accepts(i)
    <3>1. /\ drain' = [drain EXCEPT !.todo = Tail(@)] /\ fed' = fed /\ stopped[i]
      BY <1>6, <2>4 DEF StepEnter, Current, Accepts
    <3>2. drain'.pc = "feed" /\ drain'.todo = Tail(drain.todo)
      BY <1>1, <2>1, <3>1 DEF DrainType
    <3>3. \A j \in Inst : ~stopped[j] => Awaits(j)' = Awaits(j)
      BY <2>1, <2>2, <3>1, <3>2 DEF Awaits, InsideStep
    <3> QED BY <1>1, <1>2, <2>1, <2>2, <3>1, <3>2, <3>3, SameDebts
  <2> QED BY <2>3, <2>4
<1>7. CASE StepConsult \/ StepAct \/ StepPublish
  <2>1. /\ UNCHANGED <<fed, nEvents>> /\ drain.pc \in InsideStep /\ drain.todo # <<>>
    BY <1>1, <1>7 DEF StepConsult, StepAct, StepPublish, feedVars, instVars, InsideStep, DrainInv
  <2>2. /\ Tail(drain.todo) \in Seq(Inst) /\ Injective(Tail(drain.todo))
        /\ ToSet(Tail(drain.todo)) \subseteq ToSet(drain.todo)
    BY <1>1, <2>1, TailFacts
  <2>3. \/ drain'.pc \in InsideStep /\ drain'.todo = drain.todo
        \/ drain'.pc = "feed" /\ drain'.todo = Tail(drain.todo)
    <3>1. CASE StepConsult
      BY <1>1, <3>1 DEF StepConsult, InsideStep, DrainType
    <3>2. CASE StepAct
      BY <1>1, <3>2 DEF StepAct, AfterStep, InsideStep, DrainType
    <3>3. CASE StepPublish
      BY <1>1, <3>3 DEF StepPublish, AfterStep, InsideStep, DrainType
    <3> QED BY <1>7, <3>1, <3>2, <3>3
  <2>4. \A j \in Inst : Awaits(j)' = Awaits(j)
    BY <2>1, <2>3 DEF Awaits, InsideStep
  <2> QED BY <1>1, <1>2, <2>1, <2>2, <2>3, <2>4, SameDebts
<1> QED BY <1>3, <1>4, <1>5, <1>6, <1>7, <1>8 DEF Draining

LEMMA AddingKeepsDebts ==
  ASSUME GetsInv, Adding PROVE FedInv'
<1> USE DEF GetsInv, AccountInv
<1>1. PICK i \in Inst : AddRead(i) \/ AddCas(i)
  BY DEF Adding
<1>2. /\ UNCHANGED <<fed, nEvents, drain, stopped>> /\ Registered \subseteq Inst
      /\ stopped \in [Inst -> BOOLEAN] /\ nEvents \in Nat
      /\ Injective(drain.todo) /\ ToSet(drain.todo) \subseteq Registered
  BY <1>1, RegisteredFacts DEF AddRead, AddCas, feedVars, instVars, FedInv
<1>3. \A j \in Inst : Awaits(j)' = Awaits(j)
  BY <1>2 DEF Awaits
<1>4. CASE AddCas(i) /\ CasWins(i)
  <2>1. instances' = Append(instances, i) /\ seen' = [seen EXCEPT ![i] = HandedOut]
    BY <1>4 DEF AddCas, CasWins
  <2>2. i \notin Registered
    BY <1>4 DEF AddCas, CasWins, AddInv, HasId, Registered
  <2>3. Registered' = Registered \union {i}
    <3>1. \A j \in DOMAIN Append(instances, i) :
            j \in DOMAIN instances \/ Append(instances, i)[j] = i
      BY AppendFacts DEF AddInv
    <3>2. ToSet(Append(instances, i)) \subseteq ToSet(instances) \union {i}
      BY <3>1, AppendFacts DEF ToSet, AddInv
    <3> QED BY <2>1, <3>2, AppendFacts DEF Registered, AddInv
  <2>4. Awaits(i) <=> drain.pc = "list"
    <3>1. drain.pc \in InsideStep => ToSet(Tail(drain.todo)) \subseteq ToSet(drain.todo)
      BY <1>2, TailFacts DEF DrainInv, DrainType
    <3> QED BY <1>2, <2>2, <3>1 DEF Awaits
  <2>5. /\ HandedOut \in Int /\ seen' \in [Inst -> Int] /\ seen'[i] = HandedOut
        /\ \A j \in Inst \ {i} : seen'[j] = seen[j]
    BY <1>2, <2>1 DEF FedInv, HandedOut
  <2>6. fed[i] = Owed(i)'
    <3>1. fed[i] = 0
      BY <2>2 DEF FedInv
    <3>2. Owed(i)' = nEvents - HandedOut - (IF drain.pc = "list" THEN 1 ELSE 0)
      BY <1>2, <1>3, <2>4, <2>5 DEF Owed
    <3> QED BY <1>2, <3>1, <3>2 DEF HandedOut
  <2>7. \A j \in Registered : ~stopped[j] => fed[j] = Owed(j)'
    BY <1>2, <1>3, <2>2, <2>5 DEF FedInv, Owed
  <2> QED BY <1>2, <2>3, <2>5, <2>6, <2>7 DEF FedInv
<1>5. CASE ~(AddCas(i) /\ CasWins(i))
  <2>1. UNCHANGED <<instances, seen>>
    BY <1>1, <1>5 DEF AddRead, AddCas
  <2> QED BY <1>2, <1>3, <2>1, SameDebts
<1> QED BY <1>4, <1>5

LEMMA CallsKeepDebts ==
  ASSUME GetsInv, BusCall \/ BusEnqueue \/ UNCHANGED vars
         \/ \E c \in Controllers : Calling(c) \/ Working(c)
  PROVE  FedInv'
<1> USE DEF GetsInv, AccountInv
<1>1. UNCHANGED <<fed, seen, nEvents, instances, drain>>
  BY ZenonT(40) DEF BusCall, BusEnqueue, Calling, Working, PauseRead, ResumeRead, StopInstance, StopClaim,
         ControlSet, FinishTest, FinishMark, FinishOnStop, FinishCancel, FinishSet,
         FinishPublish, StopUnsubscribe, StopEach, StopFlag, StopJoin, vars, feedVars, regVars,
         instVars
<1>2. stopped' = stopped \/ \E i : stopped' = [stopped EXCEPT ![i] = TRUE]
  BY DEF BusCall, BusEnqueue, Calling, Working, PauseRead, ResumeRead, StopInstance, StopClaim,
         ControlSet, FinishTest, FinishMark, FinishOnStop, FinishCancel, FinishSet,
         FinishPublish, StopUnsubscribe, StopEach, StopFlag, StopJoin, vars, instVars
<1>3. stopped' \in [Inst -> BOOLEAN] /\ \A i \in Inst : stopped[i] => stopped'[i]
  BY <1>2 DEF FedInv
<1>4. \A i \in Inst : Awaits(i)' = Awaits(i)
  BY <1>1 DEF Awaits
<1> QED BY <1>1, <1>3, <1>4, SameDebts, RegisteredFacts DEF FedInv

LEMMA GetsStep == GetsInv /\ [Next]_vars => GetsInv'
<1> SUFFICES ASSUME GetsInv, [Next]_vars PROVE GetsInv'
  OBVIOUS
<1>1. AccountInv' /\ AddInv'
  BY AccountStep, AddStep DEF GetsInv
<1>2. FedInv'
  BY DrainingKeepsDebts, AddingKeepsDebts, CallsKeepDebts DEF Next, Feeding
<1> QED BY <1>1, <1>2 DEF GetsInv

LEMMA GetsInit == Init => GetsInv
<1> SUFFICES ASSUME Init PROVE GetsInv
  OBVIOUS
<1>1. drain.todo = <<>> /\ instances = <<>> /\ Registered = {}
  BY DEF Init, Registered, ToSet
<1>2. Injective(drain.todo) /\ ToSet(drain.todo) = {}
  BY <1>1 DEF Injective, ToSet
<1>3. FedInv
  BY <1>1, <1>2 DEF Init, FedInv
<1> QED BY <1>3, AccountInit, AddInit DEF GetsInv

(* A strategy that raises costs no other a record: for any number of        *)
(* instances, one that runs has processed every record drained since it was *)
(* registered.                                                              *)
THEOREM NoRunnerIsSkipped == Spec => []RunningGetsEverything
<1>1. GetsInv => RunningGetsEverything
  <2> SUFFICES ASSUME GetsInv, NEW i \in Registered,
                      drain.pc \in {"test", "poll", "finish", "done", "count"}, ~stopped[i]
               PROVE  fed[i] = nEvents - seen[i]
    BY DEF RunningGetsEverything
  <2>1. ~Awaits(i)
    BY DEF Awaits, InsideStep
  <2>2. i \in Inst /\ nEvents \in Int /\ seen[i] \in Int
    BY RegisteredFacts DEF GetsInv, AccountInv, FedInv
  <2>3. fed[i] = nEvents - seen[i] - 0
    BY <2>1 DEF GetsInv, FedInv, Owed
  <2> QED BY <2>2, <2>3
<1> QED BY <1>1, GetsInit, GetsStep, PTL DEF Spec

-----------------------------------------------------------------------------
(* A stop that met nothing. *)

OnInstance == {"pause", "resume", "finish", "mark", "onstop", "cancel", "setstopped", "publish"}
Finishing == {"onstop", "cancel", "setstopped", "publish"}

CtlType == [pc : OnInstance \union {"idle", "unsubscribe", "each", "join"},
            inst : Inst \union {None}, todo : Seq(Inst \union {None})]

CallInv ==
  /\ ctl \in [Controllers -> CtlType]
  /\ \A c \in Controllers : /\ ctl[c].pc \in OnInstance => ctl[c].inst \in Inst
                            /\ ctl[c].pc = "each" => ctl[c].todo # <<>>
  /\ lifecycle \in [Inst -> {"Running", "Paused", "Stopped"}]
  /\ stopped \in [Inst -> BOOLEAN] /\ clean \in [Inst -> BOOLEAN] /\ finished \in [Inst -> BOOLEAN]
  /\ working \in [Inst -> Nat] /\ pubWorking \in [Inst -> Nat] /\ onStops \in [Inst -> Nat]

At(c, i, pcs) == ctl[c].inst = i /\ ctl[c].pc \in pcs

Quiet(i) == clean[i] /\ onStops[i] <= 1

(* Of two stops that finish one instance, the first to cancel has run       *)
(* on_stop; the second either finds the lifecycle Stopped or runs it again. *)
Settles(i) ==
  /\ stopped[i] /\ clean[i] => ~InStep(i)
  /\ \A c \in Controllers : At(c, i, Finishing) => stopped[i]
  /\ \A c \in Controllers : At(c, i, Finishing \ {"onstop"}) => onStops[i] >= 1
  /\ lifecycle[i] = "Stopped" \/ finished[i] => onStops[i] >= 1
  /\ finished[i] => stopped[i]
  /\ Quiet(i) => \A c \in Controllers : At(c, i, {"setstopped", "publish"}) => working[i] = 0
  /\ Quiet(i) => \A c \in Controllers : At(c, i, {"publish"}) => lifecycle[i] = "Stopped"
  /\ Quiet(i) /\ finished[i] => working[i] = 0 /\ pubWorking[i] = 0 /\ lifecycle[i] = "Stopped"

StopInv == AccountInv /\ CallInv /\ \A i \in Inst : Settles(i)

(* A step that does not touch an instance leaves it settled.               *)
LEMMA Untouched ==
  ASSUME NEW i \in Inst, Settles(i), InStep(i)' => InStep(i),
         lifecycle'[i] = lifecycle[i], stopped'[i] = stopped[i], clean'[i] = clean[i],
         finished'[i] = finished[i], working'[i] = working[i], pubWorking'[i] = pubWorking[i],
         onStops'[i] = onStops[i],
         \A c \in Controllers : At(c, i, Finishing)' => ctl'[c] = ctl[c]
  PROVE  Settles(i)'
  BY DEF Settles, Quiet, At, Finishing

LEMMA DoneFacts ==
  ASSUME CallInv, NEW c \in Controllers
  PROVE  /\ Done(c) \in CtlType /\ Done(c).pc \in {"idle", "each"}
         /\ Done(c).pc = "each" => Done(c).todo # <<>>
  BY DEF CallInv, CtlType, Done, Idle

Call(pc, inst, todo) == [pc |-> pc, inst |-> inst, todo |-> todo]

(* The controller moves on, not into the part of finish that acts.         *)
SetsTo(c, v) ==
  /\ v \in CtlType /\ ctl' = [ctl EXCEPT ![c] = v] /\ v.pc \notin Finishing
  /\ v.pc \in OnInstance => v.inst \in Inst
  /\ v.pc = "each" => v.todo # <<>>

(* Calls that touch no instance: they read, or move the controller along.  *)
Moving(c) == \/ \E i \in Inst : PauseRead(c, i) \/ ResumeRead(c, i) \/ StopInstance(c, i)
             \/ StopClaim(c) \/ FinishTest(c)
             \/ StopUnsubscribe(c) \/ StopEach(c) \/ StopFlag(c) \/ StopJoin(c)

LEMMA MovingKeepsStop ==
  ASSUME StopInv, NEW c \in Controllers, Moving(c)
  PROVE  CallInv' /\ \A i \in Inst : Settles(i)'
<1> USE DEF StopInv
<1>1. UNCHANGED <<drain, instVars, hist>>
  BY DEF Moving, PauseRead, ResumeRead, StopInstance, StopClaim, FinishTest, StopUnsubscribe,
         StopEach, StopFlag, StopJoin
<1>2. \E v : SetsTo(c, v)
  <2> USE DEF CtlType, OnInstance, Finishing
  <2>1. ASSUME NEW i \in Inst, PauseRead(c, i) \/ ResumeRead(c, i) \/ StopInstance(c, i)
        PROVE  \E v : SetsTo(c, v)
    <3>1. PICK pc \in {"pause", "resume", "finish"} : ctl' = [ctl EXCEPT ![c] = Call(pc, i, <<>>)]
      BY <2>1 DEF PauseRead, ResumeRead, StopInstance, Call, Idle
    <3>2. SetsTo(c, Call(pc, i, <<>>))
      BY <3>1 DEF SetsTo, Call
    <3> QED BY <3>2
  <2>2. CASE StopClaim(c)
    <3>1. ctl' = [ctl EXCEPT ![c] = Call("unsubscribe", None, <<>>)]
      <4>1. ctl' = [ctl EXCEPT ![c] = [Idle EXCEPT !.pc = "unsubscribe"]]
        BY <2>2 DEF StopClaim
      <4>2. [Idle EXCEPT !.pc = "unsubscribe"] = Call("unsubscribe", None, <<>>)
        BY DEF Idle, Call
      <4> QED BY <4>1, <4>2
    <3>2. SetsTo(c, Call("unsubscribe", None, <<>>))
      BY <3>1 DEF SetsTo, Call
    <3> QED BY <3>2
  <2>3. CASE FinishTest(c) /\ stopped[ctl[c].inst]
    <3>1. ctl' = [ctl EXCEPT ![c] = Done(c)]
      BY <2>3 DEF FinishTest
    <3>2. SetsTo(c, Done(c))
      BY <3>1, DoneFacts DEF SetsTo
    <3> QED BY <3>2
  <2>4. CASE FinishTest(c) /\ ~stopped[ctl[c].inst]
    <3>1. ctl' = [ctl EXCEPT ![c] = [ctl[c] EXCEPT !.pc = "mark"]] /\ ctl[c].inst \in Inst
      BY <2>4 DEF FinishTest, CallInv
    <3>2. ctl[c] \in CtlType
      BY DEF CallInv
    <3>3. [ctl[c] EXCEPT !.pc = "mark"] = Call("mark", ctl[c].inst, ctl[c].todo)
      BY <3>2 DEF Call
    <3>4. SetsTo(c, Call("mark", ctl[c].inst, ctl[c].todo))
      BY <3>1, <3>2, <3>3 DEF SetsTo, Call
    <3> QED BY <3>4
  <2>5. CASE StopUnsubscribe(c)
    <3>1. instances \in Seq(Inst \union {None})
      BY SeqMonotonic DEF AccountInv, DrainInv
    <3>2. Append(instances, None) \in Seq(Inst \union {None}) /\ Append(instances, None) # <<>>
      BY <3>1, AppendProperties
    <3>3. SetsTo(c, Call("each", None, Append(instances, None)))
      BY <2>5, <3>2 DEF StopUnsubscribe, SetsTo, Call
    <3> QED BY <3>3
  <2>6. CASE StopEach(c)
    <3>1. ctl[c].todo \in Seq(Inst \union {None}) /\ ctl[c].todo # <<>>
      BY <2>6 DEF StopEach, CallInv
    <3>2. Head(ctl[c].todo) \in Inst /\ Tail(ctl[c].todo) \in Seq(Inst \union {None})
      BY <2>6, <3>1 DEF StopEach
    <3>3. SetsTo(c, Call("finish", Head(ctl[c].todo), Tail(ctl[c].todo)))
      BY <2>6, <3>2 DEF StopEach, SetsTo, Call
    <3> QED BY <3>3
  <2>7. CASE StopFlag(c)
    <3>1. ctl' = [ctl EXCEPT ![c] = Call("join", None, <<>>)]
      <4>1. [Idle EXCEPT !.pc = "join"] = Call("join", None, <<>>)
        BY DEF Idle, Call
      <4> QED BY <2>7, <4>1 DEF StopFlag
    <3>2. SetsTo(c, Call("join", None, <<>>))
      BY <3>1 DEF SetsTo, Call
    <3> QED BY <3>2
  <2>8. CASE StopJoin(c)
    <3>1. SetsTo(c, Call("idle", None, <<>>))
      BY <2>8 DEF StopJoin, Idle, SetsTo, Call
    <3> QED BY <3>1
  <2> QED BY <2>1, <2>2, <2>3, <2>4, <2>5, <2>6, <2>7, <2>8 DEF Moving
<1>3. CallInv' /\ \A d \in Controllers : ctl'[d].pc \in Finishing => ctl'[d] = ctl[d]
  BY <1>1, <1>2 DEF SetsTo, CallInv, instVars, hist
<1>4. \A i \in Inst : InStep(i)' = InStep(i)
  BY <1>1 DEF InStep, Current
<1> QED BY <1>1, <1>3, <1>4, Untouched DEF instVars, hist, At

(* The controller's own moves inside finish, and what they leave of others. *)
LEMMA FinishKeepsCalls ==
  ASSUME StopInv, NEW c \in Controllers,
         ControlSet(c) \/ FinishMark(c) \/ FinishOnStop(c) \/ FinishCancel(c) \/ FinishSet(c)
           \/ FinishPublish(c)
  PROVE  /\ CallInv' /\ ctl[c].inst \in Inst
         /\ \A d \in Controllers \ {c} : ctl'[d] = ctl[d]
         /\ \/ ctl'[c].pc \in {"idle", "each"}
            \/ ctl'[c].inst = ctl[c].inst /\ ctl[c].pc \in {"mark"} \union Finishing
         /\ \A i \in Inst : InStep(i)' = InStep(i)
<1> USE DEF StopInv
<1>1. ctl[c].inst \in Inst /\ ctl[c] \in CtlType
  BY DEF CallInv, OnInstance, ControlSet, FinishMark, FinishOnStop, FinishCancel, FinishSet,
         FinishPublish
<1>2. \E v \in CtlType : /\ ctl' = [ctl EXCEPT ![c] = v]
                         /\ v.pc \in OnInstance => v.inst \in Inst
                         /\ v.pc = "each" => v.todo # <<>>
                         /\ \/ v.pc \in {"idle", "each"}
                            \/ v.inst = ctl[c].inst /\ ctl[c].pc \in {"mark"} \union Finishing
  <2>1. CASE ControlSet(c)
    <3>1. Idle \in CtlType /\ Idle.pc = "idle"
      BY DEF Idle, CtlType
    <3> QED BY <2>1, <3>1 DEF ControlSet, OnInstance
  <2>2. CASE ctl' = [ctl EXCEPT ![c] = Done(c)]
    BY <2>2, DoneFacts DEF OnInstance
  <2>3. ASSUME NEW pc \in {"onstop", "cancel", "setstopped", "publish"}, ctl' = [ctl EXCEPT ![c].pc = pc],
               ctl[c].pc \in {"mark"} \union Finishing
        PROVE  ctl' = [ctl EXCEPT ![c] = Call(pc, ctl[c].inst, ctl[c].todo)]
               /\ Call(pc, ctl[c].inst, ctl[c].todo) \in CtlType
    <3>1. [ctl[c] EXCEPT !.pc = pc] = Call(pc, ctl[c].inst, ctl[c].todo)
      BY <1>1 DEF CtlType, Call
    <3>2. ctl' = [ctl EXCEPT ![c] = [ctl[c] EXCEPT !.pc = pc]]
      BY <2>3
    <3>3. Call(pc, ctl[c].inst, ctl[c].todo) \in CtlType
      BY <1>1 DEF CtlType, Call, OnInstance
    <3> QED BY <3>1, <3>2, <3>3
  <2>4. CASE \E pc \in {"onstop", "cancel", "setstopped", "publish"} :
               ctl' = [ctl EXCEPT ![c].pc = pc] /\ ctl[c].pc \in {"mark"} \union Finishing
    <3>1. PICK pc \in {"onstop", "cancel", "setstopped", "publish"} :
            ctl' = [ctl EXCEPT ![c].pc = pc] /\ ctl[c].pc \in {"mark"} \union Finishing
      BY <2>4
    <3> DEFINE v == Call(pc, ctl[c].inst, ctl[c].todo)
    <3>2. v \in CtlType /\ ctl' = [ctl EXCEPT ![c] = v]
      BY <2>3, <3>1
    <3>3. v.inst = ctl[c].inst /\ v.pc # "each"
      BY <3>1 DEF Call
    <3> QED BY <1>1, <3>1, <3>2, <3>3
  <2>5. CASE FinishMark(c)
    <3>1. ctl' = [ctl EXCEPT ![c].pc = "onstop"] \/ ctl' = [ctl EXCEPT ![c].pc = "cancel"]
      BY <2>5 DEF FinishMark
    <3> QED BY <2>4, <2>5, <3>1 DEF FinishMark
  <2> QED BY <2>1, <2>2, <2>4, <2>5 DEF FinishOnStop, FinishCancel, FinishSet, FinishPublish, Finishing
<1>3. /\ \A d \in Controllers \ {c} : ctl'[d] = ctl[d]
      /\ \/ ctl'[c].pc \in {"idle", "each"}
         \/ ctl'[c].inst = ctl[c].inst /\ ctl[c].pc \in {"mark"} \union Finishing
  BY <1>2 DEF CallInv
<1>4. /\ ctl' \in [Controllers -> CtlType]
      /\ \A d \in Controllers : /\ ctl'[d].pc \in OnInstance => ctl'[d].inst \in Inst
                                /\ ctl'[d].pc = "each" => ctl'[d].todo # <<>>
  BY <1>2 DEF CallInv
<1>6. /\ lifecycle' \in [Inst -> {"Running", "Paused", "Stopped"}]
      /\ stopped' \in [Inst -> BOOLEAN] /\ clean' \in [Inst -> BOOLEAN] /\ finished' \in [Inst -> BOOLEAN]
      /\ working' \in [Inst -> Nat] /\ pubWorking' \in [Inst -> Nat] /\ onStops' \in [Inst -> Nat]
  <2> USE <1>1 DEF CallInv
  <2>1. CASE ControlSet(c)
    BY <2>1 DEF ControlSet
  <2>2. CASE FinishMark(c)
    BY <2>2 DEF FinishMark
  <2>3. CASE FinishPublish(c)
    BY <2>3 DEF FinishPublish
  <2>4. CASE FinishOnStop(c)
    <3> PICK i \in Inst : i = ctl[c].inst
      BY <1>1
    <3>1. /\ onStops' = [onStops EXCEPT ![i] = onStops[i] + 1]
          /\ working' = working \/ working' = [working EXCEPT ![i] = working[i] + 1]
          /\ UNCHANGED <<lifecycle, stopped, clean, finished, pubWorking>>
      BY <2>4 DEF FinishOnStop
    <3>2. onStops[i] + 1 \in Nat /\ working[i] + 1 \in Nat
      OBVIOUS
    <3> DEFINE n == onStops[i] + 1
               w == working[i] + 1
    <3>3. n \in Nat /\ w \in Nat /\ onStops' = [onStops EXCEPT ![i] = n]
          /\ (working' = working \/ working' = [working EXCEPT ![i] = w])
      BY <3>1, <3>2
    <3> HIDE DEF n, w
    <3>4. onStops' \in [Inst -> Nat] /\ working' \in [Inst -> Nat]
      BY <3>3
    <3> QED BY <3>1, <3>4
  <2>5. CASE FinishCancel(c)
    BY <2>5 DEF FinishCancel, AfterCancelAll, hist
  <2>6. CASE FinishSet(c)
    BY <2>6 DEF FinishSet, hist
  <2> QED BY <2>1, <2>2, <2>3, <2>4, <2>5, <2>6
<1>7. drain' = drain
  BY DEF ControlSet, FinishMark, FinishOnStop, FinishCancel, FinishSet, FinishPublish
<1>8. \A i \in Inst : InStep(i)' = InStep(i)
  BY <1>7 DEF InStep, Current
<1>9. CallInv'
  BY <1>4, <1>6 DEF CallInv
<1> QED BY <1>1, <1>3, <1>8, <1>9

(* Each act of finish leaves its instance settled.                         *)
LEMMA FinishKeepsStop ==
  ASSUME StopInv, NEW c \in Controllers,
         ControlSet(c) \/ FinishMark(c) \/ FinishOnStop(c) \/ FinishCancel(c) \/ FinishSet(c)
           \/ FinishPublish(c)
  PROVE  CallInv' /\ \A i \in Inst : Settles(i)'
<1> USE DEF StopInv
<1> PICK i \in Inst : i = ctl[c].inst
  BY FinishKeepsCalls
<1>1. /\ CallInv' /\ \A d \in Controllers \ {c} : ctl'[d] = ctl[d]
      /\ \A j \in Inst : InStep(j)' = InStep(j)
  BY FinishKeepsCalls
<1>2. ASSUME NEW j \in Inst \ {i} PROVE Settles(j)'
  <2>1. /\ lifecycle'[j] = lifecycle[j] /\ stopped'[j] = stopped[j] /\ clean'[j] = clean[j]
        /\ finished'[j] = finished[j] /\ working'[j] = working[j]
        /\ pubWorking'[j] = pubWorking[j] /\ onStops'[j] = onStops[j]
    BY DEF CallInv, ControlSet, FinishMark, FinishOnStop, FinishCancel, FinishSet, FinishPublish, hist
  <2>2. \A d \in Controllers : At(d, j, Finishing)' => ctl'[d] = ctl[d]
    BY <1>1, FinishKeepsCalls DEF At, Finishing
  <2> QED BY <1>1, <2>1, <2>2, Untouched
<1>4. \A d \in Controllers \ {c} : \A pcs : At(d, i, pcs)' <=> At(d, i, pcs)
  BY <1>1 DEF At
<1>5. ASSUME NEW pcs PROVE At(c, i, pcs) <=> ctl[c].pc \in pcs
  BY DEF At
<1>3. Settles(i)'
  <2> USE DEF CallInv
  <2>1. CASE ControlSet(c)
    <3>1. /\ lifecycle'[i] # "Stopped" /\ (clean'[i] => clean[i] /\ ~stopped[i])
          /\ ctl'[c].pc = "idle"
          /\ UNCHANGED <<stopped, working, pubWorking, finished, onStops>>
      BY <2>1 DEF ControlSet, Idle
    <3>2. \A d \in Controllers : At(d, i, Finishing)' => At(d, i, Finishing)
      BY <1>4, <3>1 DEF At, Finishing
    <3>3. \A d \in Controllers : At(d, i, Finishing \ {"onstop"})' => At(d, i, Finishing \ {"onstop"})
      BY <1>4, <3>1 DEF At, Finishing
    <3>4. \A d \in Controllers : At(d, i, {"setstopped", "publish"})' \/ At(d, i, {"publish"})' => stopped[i]
      BY <3>2 DEF At, Finishing, Settles
    <3> QED BY <1>1, <3>1, <3>2, <3>3, <3>4 DEF Settles, Quiet
  <2>2. CASE FinishMark(c)
    <3>1. /\ stopped'[i] /\ (clean'[i] => clean[i] /\ ~InStep(i))
          /\ UNCHANGED <<lifecycle, working, pubWorking, finished, onStops>>
      BY <2>2 DEF FinishMark
    <3>2. ctl'[c].pc = "onstop" \/ (ctl'[c].pc = "cancel" /\ lifecycle[i] = "Stopped")
      BY <2>2 DEF FinishMark, CtlType
    <3>3. \A d \in Controllers : At(d, i, Finishing \ {"onstop"})' =>
            At(d, i, Finishing \ {"onstop"}) \/ lifecycle[i] = "Stopped"
      BY <1>4, <3>2 DEF At, Finishing
    <3>4. \A d \in Controllers : /\ At(d, i, {"setstopped", "publish"})' => At(d, i, {"setstopped", "publish"})
                                 /\ At(d, i, {"publish"})' => At(d, i, {"publish"})
      BY <1>4, <3>2 DEF At
    <3>8. /\ (stopped[i] /\ clean[i] => ~InStep(i))'
          /\ \A d \in Controllers : (At(d, i, Finishing) => stopped[i])'
          /\ \A d \in Controllers : (At(d, i, Finishing \ {"onstop"}) => onStops[i] >= 1)'
          /\ (lifecycle[i] = "Stopped" \/ finished[i] => onStops[i] >= 1)'
          /\ (finished[i] => stopped[i])'
      BY <1>1, <3>1, <3>3 DEF Settles
    <3>9. Quiet(i)' =>
            /\ \A d \in Controllers : At(d, i, {"setstopped", "publish"})' => working'[i] = 0
            /\ \A d \in Controllers : At(d, i, {"publish"})' => lifecycle'[i] = "Stopped"
            /\ finished'[i] => working'[i] = 0 /\ pubWorking'[i] = 0 /\ lifecycle'[i] = "Stopped"
      BY <3>1, <3>4 DEF Settles, Quiet
    <3> QED BY <3>8, <3>9 DEF Settles
  <2>3. CASE FinishOnStop(c)
    <3>1. /\ onStops'[i] = onStops[i] + 1 /\ onStops[i] \in Nat
          /\ UNCHANGED <<lifecycle, stopped, clean, pubWorking, finished>>
          /\ ctl[c].pc = "onstop"
      BY <2>3 DEF FinishOnStop
    <3>2. ctl'[c].pc \in {"cancel", "idle", "each"}
      BY <2>3, DoneFacts DEF FinishOnStop, CtlType
    <3>3. stopped[i]
      BY <3>1 DEF Settles, At, Finishing
    <3>4. onStops'[i] >= 1 /\ (onStops'[i] <= 1 => ~(onStops[i] >= 1))
      BY <3>1
    <3>5. Quiet(i)' => \A d \in Controllers : ~At(d, i, {"setstopped", "publish"})'
      <4>1. ~At(c, i, {"setstopped", "publish"})'
        BY <3>2 DEF At
      <4>2. ASSUME NEW d \in Controllers \ {c}, At(d, i, {"setstopped", "publish"})'
            PROVE  onStops[i] >= 1
        <5>1. At(d, i, Finishing \ {"onstop"})
          BY <1>4, <4>2 DEF At, Finishing
        <5> QED BY <5>1 DEF Settles
      <4> QED BY <3>4, <4>1, <4>2 DEF Quiet
    <3>6. Quiet(i)' => ~finished'[i]
      BY <3>1, <3>4 DEF Settles, Quiet
    <3> QED BY <1>1, <3>1, <3>3, <3>4, <3>5, <3>6 DEF Settles, At
  <2>4. CASE FinishCancel(c)
    <3>1. /\ working'[i] = 0 /\ ctl[c].pc = "cancel"
          /\ UNCHANGED <<lifecycle, stopped, clean, pubWorking, finished, onStops>>
      BY <2>4 DEF FinishCancel, AfterCancelAll, hist
    <3>2. ctl'[c].pc = "setstopped" /\ ctl'[c].inst = i
      BY <2>4 DEF FinishCancel, CtlType
    <3>3. \A d \in Controllers : /\ At(d, i, Finishing)' => At(d, i, Finishing)
                                 /\ At(d, i, Finishing \ {"onstop"})' => At(d, i, Finishing \ {"onstop"})
                                 /\ At(d, i, {"publish"})' => At(d, i, {"publish"})
      BY <1>4, <3>1, <3>2 DEF At, Finishing
    <3>8. /\ (stopped[i] /\ clean[i] => ~InStep(i))'
          /\ \A d \in Controllers : (At(d, i, Finishing) => stopped[i])'
          /\ \A d \in Controllers : (At(d, i, Finishing \ {"onstop"}) => onStops[i] >= 1)'
          /\ (lifecycle[i] = "Stopped" \/ finished[i] => onStops[i] >= 1)'
          /\ (finished[i] => stopped[i])'
      BY <1>1, <3>1, <3>3 DEF Settles
    <3>9. Quiet(i)' =>
            /\ \A d \in Controllers : At(d, i, {"setstopped", "publish"})' => working'[i] = 0
            /\ \A d \in Controllers : At(d, i, {"publish"})' => lifecycle'[i] = "Stopped"
            /\ finished'[i] => working'[i] = 0 /\ pubWorking'[i] = 0 /\ lifecycle'[i] = "Stopped"
      BY <3>1, <3>3 DEF Settles, Quiet
    <3> QED BY <3>8, <3>9 DEF Settles
  <2>5. CASE FinishSet(c)
    <3>1. /\ lifecycle'[i] = "Stopped" /\ ctl[c].pc = "setstopped"
          /\ UNCHANGED <<working, stopped, clean, pubWorking, finished, onStops>>
      BY <2>5 DEF FinishSet, hist
    <3>2. ctl'[c].pc = "publish" /\ ctl'[c].inst = i
      BY <2>5 DEF FinishSet, CtlType
    <3> QED BY <1>1, <3>1, <3>2 DEF Settles, Quiet, At, Finishing
  <2>6. CASE FinishPublish(c)
    <3>1. /\ pubWorking'[i] = working[i] /\ finished'[i] /\ ctl[c].pc = "publish"
          /\ UNCHANGED <<lifecycle, working, stopped, clean, onStops>>
      BY <2>6 DEF FinishPublish
    <3>2. ctl'[c].pc \in {"idle", "each"}
      BY <2>6, DoneFacts DEF FinishPublish
    <3> QED BY <1>1, <3>1, <3>2 DEF Settles, Quiet, At, Finishing
  <2> QED BY <2>1, <2>2, <2>3, <2>4, <2>5, <2>6
<1> QED BY <1>1, <1>2, <1>3

(* A turn of the drain Domain is inside a step of an instance only if the   *)
(* instance was not stopped when the step began.                            *)
LEMMA DrainingKeepsStop ==
  ASSUME StopInv, Draining PROVE CallInv' /\ \A i \in Inst : Settles(i)'
<1> USE DEF StopInv
<1>1. /\ drain \in DrainType /\ drain.todo \in Seq(Inst)
      /\ UNCHANGED <<ctl, lifecycle, stopped, finished, onStops>>
  BY DEF Draining, DrainTest, DrainTake, DrainEmpty, DrainCount, DrainList, DrainNext, StepEnter,
         StepConsult, StepAct, StepPublish, instVars, hist, AccountInv, DrainInv, DrainType
<1>2. CASE DrainTest \/ DrainTake \/ DrainEmpty \/ DrainCount \/ DrainList \/ DrainNext \/ StepConsult
  <2>1. UNCHANGED <<working, pubWorking, clean>>
    BY <1>2 DEF DrainTest, DrainTake, DrainEmpty, DrainCount, DrainList, DrainNext, StepConsult,
                instVars, hist
  <2>2. \/ drain'.pc \notin InsideStep
        \/ drain.pc \in InsideStep /\ drain'.todo = drain.todo
    BY <1>1, <1>2 DEF DrainTest, DrainTake, DrainEmpty, DrainCount, DrainList, DrainNext, StepConsult, Enter,
                      NextRound, DrainType, InsideStep
  <2>3. \A i \in Inst : InStep(i)' => InStep(i)
    BY <2>2 DEF InStep, Current, InsideStep
  <2>4. CallInv'
    BY <1>1, <2>1 DEF CallInv
  <2> QED BY <1>1, <2>1, <2>3, <2>4, Untouched
<1>3. CASE StepEnter
  <2>1. drain.pc = "feed" /\ drain.todo # <<>>
    BY <1>3 DEF StepEnter
  <2> PICK i \in Inst : i = drain.todo[1]
    BY <1>1, <2>1
  <2>2. CASE Accepts(i)
    <3>1. /\ drain'.pc = "consult" /\ drain'.todo = drain.todo /\ pubWorking' = pubWorking
          /\ \E w \in 0 .. working[i] : working' = [working EXCEPT ![i] = w]
          /\ \E b \in BOOLEAN : clean' = [clean EXCEPT ![i] = b]
      BY <1>1, <1>3, <2>1, <2>2 DEF StepEnter, Current, DrainType, CallInv
    <3>2. working' \in [Inst -> Nat] /\ clean' \in [Inst -> BOOLEAN]
      <4>1. PICK w \in 0 .. working[i] : working' = [working EXCEPT ![i] = w]
        BY <3>1
      <4>2. w \in Nat
        BY DEF CallInv
      <4> HIDE DEF StopInv
      <4> QED BY <3>1, <4>1, <4>2 DEF CallInv, StopInv
    <3>3. CallInv'
      BY <1>1, <3>1, <3>2 DEF CallInv
    <3>4. ASSUME NEW j \in Inst \ {i} PROVE Settles(j)'
      <4>1. working'[j] = working[j] /\ clean'[j] = clean[j] /\ ~InStep(j)'
        BY <3>1 DEF CallInv, InStep, Current
      <4> QED BY <1>1, <3>1, <4>1, Untouched
    <3>5. Settles(i)'
      <4>1. ~stopped[i] /\ ~finished[i] /\ \A c \in Controllers : ~At(c, i, Finishing)
        BY <2>2 DEF Accepts, Settles
      <4>2. \A c \in Controllers : /\ ~At(c, i, Finishing \ {"onstop"})
                                   /\ ~At(c, i, {"setstopped", "publish"}) /\ ~At(c, i, {"publish"})
        BY <4>1 DEF At, Finishing
      <4>3. \A c \in Controllers : \A pcs : At(c, i, pcs)' <=> At(c, i, pcs)
        BY <1>1 DEF At
      <4> QED BY <1>1, <4>1, <4>2, <4>3 DEF Settles
    <3> QED BY <3>3, <3>4, <3>5
  <2>3. CASE ~Accepts(i)
    <3>1. drain'.pc = "feed" /\ UNCHANGED <<working, pubWorking, clean>>
      BY <1>1, <1>3, <2>1, <2>3 DEF StepEnter, Current, DrainType
    <3>2. \A j \in Inst : ~InStep(j)'
      BY <3>1 DEF InStep
    <3>3. CallInv'
      BY <1>1, <3>1 DEF CallInv
    <3> QED BY <1>1, <3>1, <3>2, <3>3, Untouched
  <2> QED BY <2>2, <2>3
<1>4. CASE StepAct \/ StepPublish
  <2>1. drain.pc \in InsideStep /\ drain.todo # <<>>
    BY <1>4 DEF StepAct, StepPublish, InsideStep, AccountInv, DrainInv
  <2> PICK i \in Inst : i = drain.todo[1]
    BY <1>1, <2>1
  <2>2. /\ clean' = clean
        /\ \/ working' = working
           \/ working' = [working EXCEPT ![i] = @ + 1]
        /\ \/ pubWorking' = pubWorking
           \/ pubWorking' = [pubWorking EXCEPT ![i] = working[i]]
    BY <1>4 DEF StepAct, StepPublish, Current, hist
  <2>3. drain'.pc \notin InsideStep \/ drain'.todo = drain.todo
    BY <1>1, <1>4 DEF StepAct, StepPublish, DrainType, InsideStep
  <2>4. InStep(i) /\ \A j \in Inst : InStep(j)' => j = i
    BY <2>1, <2>3 DEF InStep, Current, InsideStep
  <2>5. working[i] \in Nat /\ working[i] + 1 \in Nat
    BY DEF CallInv
  <2>6. working' \in [Inst -> Nat] /\ pubWorking' \in [Inst -> Nat]
    <3> DEFINE w == working[i] + 1
               p == working[i]
    <3>1. /\ w \in Nat /\ (working' = working \/ working' = [working EXCEPT ![i] = w])
          /\ p \in Nat /\ (pubWorking' = pubWorking \/ pubWorking' = [pubWorking EXCEPT ![i] = p])
          /\ working \in [Inst -> Nat] /\ pubWorking \in [Inst -> Nat]
      BY <2>2, <2>5 DEF CallInv
    <3> HIDE DEF w, p, StopInv
    <3> QED BY <3>1
  <2>7. CallInv'
    BY <1>1, <2>2, <2>6 DEF CallInv
  <2>8. ASSUME NEW j \in Inst \ {i} PROVE Settles(j)'
    <3>1. working'[j] = working[j] /\ pubWorking'[j] = pubWorking[j] /\ ~InStep(j)'
      BY <2>2, <2>4 DEF CallInv
    <3> QED BY <1>1, <2>2, <3>1, Untouched
  <2>9. Settles(i)'
    <3>1. ~(stopped[i] /\ clean[i])
      BY <2>4 DEF Settles
    <3>2. Quiet(i)' => ~stopped[i]
      BY <2>2, <3>1 DEF Quiet
    <3>3. \A c \in Controllers : \A pcs : At(c, i, pcs)' <=> At(c, i, pcs)
      BY <1>1 DEF At
    <3>4. \A c \in Controllers :
            At(c, i, {"setstopped", "publish"}) \/ At(c, i, {"publish"}) => stopped[i]
      BY DEF Settles, At, Finishing
    <3>5. finished[i] => stopped[i]
      BY DEF Settles
    <3>6. Quiet(i)' => /\ \A c \in Controllers : ~At(c, i, {"setstopped", "publish"})'
                       /\ \A c \in Controllers : ~At(c, i, {"publish"})'
                       /\ ~finished'[i]
      BY <1>1, <3>2, <3>3, <3>4, <3>5
    <3> QED BY <1>1, <2>2, <3>1, <3>3, <3>6 DEF Settles
  <2> QED BY <2>7, <2>8, <2>9
<1> QED BY <1>2, <1>3, <1>4 DEF Draining

LEMMA StopStep == StopInv /\ [Next]_vars => StopInv'
<1> SUFFICES ASSUME StopInv, [Next]_vars PROVE StopInv'
  OBVIOUS
<1>1. AccountInv'
  BY AccountStep DEF StopInv
<1>2. CallInv' /\ \A i \in Inst : Settles(i)'
  <2>1. CASE Feeding \/ Adding \/ UNCHANGED vars
    <3>1. UNCHANGED <<drain, ctl, lifecycle, stopped, working, pubWorking, clean, finished, onStops>>
      BY <2>1 DEF Feeding, BusCall, BusEnqueue, Adding, AddRead, AddCas, vars, instVars, hist
    <3>2. \A i \in Inst : InStep(i)' = InStep(i)
      BY <3>1 DEF InStep, Current
    <3>3. CallInv'
      BY <3>1 DEF StopInv, CallInv
    <3> QED BY <3>1, <3>2, <3>3, Untouched DEF StopInv
  <2>2. CASE Draining
    BY <2>2, DrainingKeepsStop
  <2>3. ASSUME NEW c \in Controllers, Calling(c) \/ Working(c)
        PROVE  CallInv' /\ \A i \in Inst : Settles(i)'
    BY <2>3, MovingKeepsStop, FinishKeepsStop DEF Calling, Working, Moving
  <2> QED BY <2>1, <2>2, <2>3 DEF Next
<1> QED BY <1>1, <1>2 DEF StopInv

LEMMA StopInit == Init => StopInv
<1> SUFFICES ASSUME Init PROVE StopInv
  OBVIOUS
<1>1. Idle \in CtlType /\ Idle.pc = "idle"
  BY DEF Idle, CtlType
<1>2. CallInv
  BY <1>1 DEF Init, CallInv, OnInstance
<1>3. ASSUME NEW i \in Inst PROVE Settles(i)
  BY <1>1 DEF Init, Settles, At, Finishing, InStep
<1> QED BY <1>2, <1>3, AccountInit DEF StopInv

(* stop: for any number of controllers and instances, a stop that no step,  *)
(* pause or resume overlapped leaves no working order, says so in the       *)
(* snapshot, and the instance stays stopped.                                *)
THEOREM CleanStopsSettle == Spec => []CleanStopSettles
<1>1. StopInv => CleanStopSettles
  BY DEF StopInv, Settles, Quiet, CleanStopSettles
<1> QED BY <1>1, StopInit, StopStep, PTL DEF Spec
=============================================================================
