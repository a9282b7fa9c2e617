--------------------------- MODULE EventBus_proofs ---------------------------
(***************************************************************************)
(* The life of the dispatcher, the order of the bands, the flow counters   *)
(* and what subscriptions are handed, for every number of bands,           *)
(* publishers, subscriptions, callers and restarts; what concerns the one  *)
(* dispatcher holds until a start crosses another caller's call, the rest  *)
(* always.                                                                 *)
(***************************************************************************)
EXTENDS EventBus, TLAPS, FiniteSetTheorems, SequenceTheorems

States == {"unborn", "loop", "scan", "popped", "deliver", "done"}
Busy == {"scan", "popped", "deliver"}

DispType ==
  /\ DOMAIN disp = Dispatchers
  /\ \A d \in Dispatchers : /\ DOMAIN disp[d] = {"st", "drain", "band", "env", "todo"}
                            /\ disp[d].st \in States /\ disp[d].band \in Bands

CtlType ==
  /\ ctl \in [Controllers -> [pc : {"idle", "start clear", "start spawn", "start assign", "stop signal",
                                    "stop join", "joining", "exit join"},
                              join : 0 .. MaxStarts]]
  /\ dispatcher \in 0 .. MaxStarts

BandType ==
  /\ bands \in [Bands -> Seq(Events)] /\ passed \in [Bands -> Nat]
  /\ pub \in [Publishers -> [n : Nat, pc : {"idle", "pushed", "full"}, band : Bands]]
  /\ budget \in Budgets

(* As long as nothing crossed: who starts the bus is alone with it, and    *)
(* the only dispatcher that may be alive is the one just spawned, else the *)
(* one the bus knows, which is the one that is joined.                     *)
Alone == \A c \in Controllers : Starting(c) =>
           running /\ \A e \in Controllers : e # c => ctl[e].pc = "idle"

OneAlive ==
  /\ \A d \in Dispatchers : Live(d) =>
       /\ \A c \in Controllers :
            /\ ctl[c].pc \notin {"start clear", "start spawn"}
            /\ ctl[c].pc \in {"start assign", "joining"} => d = ctl[c].join
       /\ (\A c \in Controllers : ctl[c].pc # "start assign") => d = dispatcher
  /\ BackAndStopped => \A d \in Dispatchers : ~Live(d)

(* Nobody was passed over in a band the scan found empty, and what came    *)
(* into it during the final drain came late.                               *)
InOrder ==
  /\ \A b \in Bands : (bands[b] = <<>> => passed[b] = 0) /\ passed[b] <= 1
  /\ \A d \in Dispatchers :
       /\ disp[d].st \in Busy /\ disp[d].drain => stopRequested
       /\ disp[d].st = "scan" => \A b \in Bands : b < disp[d].band =>
            passed[b] = 0 /\ (disp[d].drain => Range(bands[b]) \subseteq late)

Uncrossed == Alone /\ OneAlive /\ InOrder

BusInv == DispType /\ CtlType /\ BandType /\ (~crossed => Uncrossed)

-----------------------------------------------------------------------------
LEMMA BandZero == 0 \in Bands
BY BusAssumption DEF Bands

(* A new event is in the band it was pushed to, and nothing else is new.   *)
LEMMA RangeOfAppend ==
  ASSUME NEW S, NEW s \in Seq(S), NEW e \in S
  PROVE Range(Append(s, e)) \subseteq Range(s) \union {e} /\ Append(s, e) # <<>>
BY DEF Range

LEMMA InitBus == Init => BusInv
<1> SUFFICES ASSUME Init PROVE BusInv
  OBVIOUS
<1>1. DispType /\ \A d \in Dispatchers : disp[d].st = "unborn"
  BY BandZero DEF Init, DispType, Unborn, States
<1>2. CtlType /\ \A c \in Controllers : ctl[c].pc = "idle"
  BY BusAssumption DEF Init, CtlType
<1>3. BandType /\ \A b \in Bands : passed[b] = 0
  BY BandZero DEF Init, BandType
<1>4. Alone /\ OneAlive
  BY <1>1, <1>2 DEF Alone, Starting, OneAlive, Live
<1>5. InOrder
  BY <1>1, <1>3 DEF InOrder, Busy
<1> QED BY <1>1, <1>2, <1>3, <1>4, <1>5 DEF BusInv, Uncrossed

(* One step of a dispatcher, field by field. *)
Steps(d, st, band) ==
  /\ DispType' /\ Live(d) /\ disp'[d].st = st /\ disp'[d].band = band
  /\ \A e \in Dispatchers : e # d => disp'[e] = disp[e]

LEMMA LoopTestSteps ==
  ASSUME DispType, NEW d \in Dispatchers, LoopTest(d)
  PROVE Steps(d, "scan", 0) /\ disp'[d].drain = stopRequested
BY BandZero DEF DispType, LoopTest, AfterTest, FirstBand, Steps, Live, States

LEMMA PopBandSteps ==
  ASSUME DispType, NEW d \in Dispatchers, PopBand(d)
  PROVE Steps(d, "popped", disp[d].band) /\ disp'[d].drain = disp[d].drain
BY DEF DispType, PopBand, Steps, Live, States

LEMMA SkipBandSteps ==
  ASSUME DispType, NEW d \in Dispatchers, SkipBand(d)
  PROVE /\ disp'[d].drain = disp[d].drain
        /\ IF disp[d].band + 1 \in Bands THEN Steps(d, "scan", disp[d].band + 1)
           ELSE Steps(d, AfterEmptyScan(d), disp[d].band)
BY DEF DispType, SkipBand, AfterEmptyScan, Steps, Live, States

LEMMA SnapshotSteps ==
  ASSUME DispType, NEW d \in Dispatchers, SnapshotSubscribers(d)
  PROVE Steps(d, "deliver", disp[d].band) /\ disp'[d].drain = disp[d].drain
BY DEF DispType, SnapshotSubscribers, Steps, Live, States

LEMMA CallHandlerSteps ==
  ASSUME DispType, NEW d \in Dispatchers, NEW raises \in BOOLEAN, CallHandler(d, raises)
  PROVE Steps(d, "deliver", disp[d].band) /\ disp'[d].drain = disp[d].drain
BY DEF DispType, CallHandler, Steps, Live, States

LEMMA EndDispatchSteps ==
  ASSUME DispType, NEW d \in Dispatchers, EndDispatch(d)
  PROVE Steps(d, IF disp[d].drain THEN "scan" ELSE "loop", 0) /\ disp'[d].drain = disp[d].drain
BY BandZero DEF DispType, EndDispatch, FirstBand, Steps, Live, States

-----------------------------------------------------------------------------
(* A dispatcher lives on or ends; it brings no other to life. *)
LEMMA DispatchBus ==
  ASSUME BusInv, NEW d \in Dispatchers, Dispatch(d)
  PROVE BusInv'
<1> USE DEF BusInv
<1>1. ASSUME NEW st \in States, NEW b \in Bands, Steps(d, st, b),
             UNCHANGED <<ctl, dispatcher, running, crossed>>, BandType', Uncrossed => InOrder'
      PROVE BusInv'
  <2>1. CtlType'
    BY <1>1 DEF CtlType
  <2>2. ASSUME Uncrossed PROVE Alone' /\ OneAlive'
    <3>1. Alone'
      BY <1>1, <2>2 DEF Uncrossed, Alone, Starting
    <3>2. \A e \in Dispatchers : Live(e)' => Live(e)
      BY <1>1 DEF Steps, Live
    <3>3. OneAlive'
      BY <1>1, <2>2, <3>2 DEF Uncrossed, OneAlive, BackAndStopped
    <3> QED BY <3>1, <3>3
  <2> QED BY <1>1, <2>1, <2>2 DEF Steps, Uncrossed
<1>2. ASSUME Uncrossed, NEW e \in Dispatchers, e # d PROVE ~Live(e)
  <2>1. Live(d)
    BY DEF Dispatch, LoopTest, PopBand, SkipBand, SnapshotSubscribers, CallHandler, EndDispatch, Live
  <2>2. CASE \E c \in Controllers : ctl[c].pc = "start assign"
    BY <1>2, <2>1, <2>2 DEF Uncrossed, OneAlive
  <2>3. CASE \A c \in Controllers : ctl[c].pc # "start assign"
    BY <1>2, <2>1, <2>3 DEF Uncrossed, OneAlive
  <2> QED BY <2>2, <2>3
<1>3. ASSUME Uncrossed, NEW e \in Dispatchers, e # d PROVE disp[e].st \notin Busy
  BY <1>2, <1>3 DEF Live, Busy
<1>4. disp[d].band \in Bands /\ 0 \in Bands
  BY BandZero DEF DispType
<1>5. CASE LoopTest(d)
  <2>1. Steps(d, "scan", 0) /\ disp'[d].drain = stopRequested
    BY <1>5, LoopTestSteps
  <2>2. UNCHANGED <<ctl, dispatcher, running, crossed, stopRequested, bands, passed, pub, budget, late>>
    BY <1>5 DEF LoopTest, life, hist
  <2>3. BandType'
    BY <2>2 DEF BandType
  <2>4. ASSUME Uncrossed PROVE InOrder'
    BY <2>4, <1>3, <2>1, <2>2 DEF Uncrossed, InOrder, Steps, Busy, Bands
  <2> QED BY <1>1, <1>4, <2>1, <2>2, <2>3, <2>4 DEF Steps, States
<1>6. CASE PopBand(d)
  <2> DEFINE k == disp[d].band
  <2>1. Steps(d, "popped", k) /\ disp'[d].drain = disp[d].drain
    BY <1>6, PopBandSteps
  <2>2. /\ UNCHANGED <<ctl, dispatcher, running, crossed, stopRequested, pub, budget, late>>
        /\ disp[d].st = "scan" /\ bands[k] # <<>> /\ bands' = [bands EXCEPT ![k] = Tail(@)]
        /\ passed' = [c \in Bands |-> CASE c = k -> 0
                                        [] c < k /\ bands[c] # <<>> -> passed[c] + 1
                                        [] OTHER -> passed[c]]
    BY <1>6 DEF PopBand, life
  <2>3. BandType'
    <3>1. bands[k] \in Seq(Events) /\ bands[k] # <<>>
      BY <1>4, <2>2 DEF BandType
    <3>2. Tail(bands[k]) \in Seq(Events)
      BY <3>1
    <3>3. bands' \in [Bands -> Seq(Events)]
      BY <1>4, <2>2, <3>2 DEF BandType
    <3>4. passed' \in [Bands -> Nat]
      <4>1. \A c \in Bands : passed[c] \in Nat
        BY DEF BandType
      <4> QED BY <2>2, <4>1
    <3> QED BY <2>2, <3>3, <3>4 DEF BandType
  <2>4. ASSUME Uncrossed PROVE InOrder'
    <3> USE <2>4 DEF Uncrossed
    <3>1. \A b \in Bands : (bands'[b] = <<>> => passed'[b] = 0) /\ passed'[b] <= 1
      <4> TAKE b \in Bands
      <4>1. CASE b = k
        BY <2>2, <4>1
      <4>2. CASE b < k /\ bands[b] # <<>>
        BY <1>4, <2>2, <4>2 DEF InOrder, BandType, Bands
      <4>3. CASE b # k /\ ~(b < k /\ bands[b] # <<>>)
        BY <1>4, <2>2, <4>3 DEF InOrder, BandType
      <4> QED BY <1>4, <4>1, <4>2, <4>3 DEF Bands
    <3>2. \A e \in Dispatchers : disp'[e].st # "scan"
      BY <1>3, <2>1 DEF Steps, Busy
    <3>3. \A e \in Dispatchers : disp'[e].st \in Busy /\ disp'[e].drain => stopRequested'
      BY <1>3, <2>1, <2>2 DEF Steps, Busy, InOrder
    <3> QED BY <3>1, <3>2, <3>3 DEF InOrder
  <2> QED BY <1>1, <1>4, <2>1, <2>2, <2>3, <2>4 DEF Steps, States
<1>7. CASE SkipBand(d)
  <2> DEFINE k == disp[d].band
  <2>1. /\ disp'[d].drain = disp[d].drain
        /\ IF k + 1 \in Bands THEN Steps(d, "scan", k + 1) ELSE Steps(d, AfterEmptyScan(d), k)
    BY <1>7, SkipBandSteps
  <2>2. /\ UNCHANGED <<ctl, dispatcher, running, crossed, stopRequested, bands, passed, pub, budget, late>>
        /\ disp[d].st = "scan" /\ bands[k] = <<>>
    BY <1>7 DEF SkipBand, life, hist
  <2>3. BandType'
    BY <2>2 DEF BandType
  <2>4. CASE k + 1 \in Bands
    <3>1. ASSUME Uncrossed PROVE passed[k] = 0 /\ Range(bands[k]) \subseteq late
      BY <1>4, <2>2, <3>1 DEF Uncrossed, InOrder, Range
    <3>2. \A b \in Bands : b < k + 1 => b < k \/ b = k
      BY <1>4 DEF Bands
    <3>3. ASSUME Uncrossed PROVE InOrder'
      BY <3>3, <1>3, <1>4, <2>1, <2>2, <2>4, <3>1, <3>2 DEF Uncrossed, InOrder, Steps, Busy
    <3> QED BY <1>1, <2>1, <2>2, <2>3, <2>4, <3>3 DEF Steps, States
  <2>5. CASE k + 1 \notin Bands
    <3>1. AfterEmptyScan(d) \in {"done", "loop"}
      BY DEF AfterEmptyScan
    <3>2. ASSUME Uncrossed PROVE InOrder'
      BY <3>2, <1>3, <2>1, <2>2, <2>5, <3>1 DEF Uncrossed, InOrder, Steps, Busy
    <3> QED BY <1>1, <1>4, <2>1, <2>2, <2>3, <2>5, <3>1, <3>2 DEF Steps, States
  <2> QED BY <2>4, <2>5
<1>8. ASSUME Steps(d, "deliver", disp[d].band), disp'[d].drain = disp[d].drain, disp[d].st \in Busy,
             UNCHANGED <<ctl, dispatcher, running, crossed, stopRequested, bands, passed, pub, budget, late>>
      PROVE BusInv'
  <2>1. ASSUME Uncrossed PROVE InOrder'
    BY <2>1, <1>3, <1>8 DEF Uncrossed, InOrder, Steps, Busy
  <2>2. BandType'
    BY <1>8 DEF BandType
  <2> QED BY <1>1, <1>4, <1>8, <2>1, <2>2 DEF Steps, States
<1>9. CASE SnapshotSubscribers(d)
  BY <1>8, <1>9, SnapshotSteps DEF SnapshotSubscribers, Busy, life, hist
<1>10. ASSUME NEW raises \in BOOLEAN, CallHandler(d, raises) PROVE BusInv'
  BY <1>8, <1>10, CallHandlerSteps DEF CallHandler, Busy, life
<1>11. CASE EndDispatch(d)
  <2> DEFINE to == IF disp[d].drain THEN "scan" ELSE "loop"
  <2>1. Steps(d, to, 0) /\ disp'[d].drain = disp[d].drain /\ to \in States
    BY <1>11, EndDispatchSteps DEF States
  <2>2. /\ UNCHANGED <<ctl, dispatcher, running, crossed, stopRequested, bands, passed, pub, budget, late>>
        /\ disp[d].st = "deliver"
    BY <1>11 DEF EndDispatch, life, hist
  <2>3. BandType'
    BY <2>2 DEF BandType
  <2>4. ASSUME Uncrossed PROVE InOrder'
    BY <2>4, <1>3, <2>1, <2>2 DEF Uncrossed, InOrder, Steps, Busy, Bands
  <2> QED BY <1>1, <1>4, <2>1, <2>2, <2>3, <2>4 DEF Steps
<1> QED BY <1>5, <1>6, <1>7, <1>9, <1>10, <1>11 DEF Dispatch

-----------------------------------------------------------------------------
(* Starting, stopping and the exit hook, as long as no start crossed, leave *)
(* at most one dispatcher.                                                  *)
LEMMA ControlTypes ==
  ASSUME BusInv, NEW c \in Controllers,
         StartClaim(c) \/ StopClaim(c) \/ ExitSignal(c) \/ Control(c)
  PROVE  DispType' /\ CtlType' /\ BandType'
<1> USE DEF BusInv
<1>1. UNCHANGED <<bands, passed, pub, budget, late>> /\ BandType'
  BY DEF BandType, StartClaim, StopClaim, ExitSignal, Control, StartClear, StartAssign, StartSpawn,
         StopSignal, StopRead, ExitRead, Joined, hist
<1>2. \A d \in Dispatchers : d \in 0 .. MaxStarts
  BY BusAssumption DEF Dispatchers
<1>3. 0 \in 0 .. MaxStarts
  BY BusAssumption
<1>4. ASSUME NEW d \in Dispatchers, StartSpawn(c, d) PROVE DispType' /\ CtlType'
  BY <1>2, <1>4 DEF StartSpawn, DispType, States, CtlType
<1>5. CASE \/ StartClaim(c) \/ StopClaim(c) \/ ExitSignal(c) \/ StartClear(c) \/ StartAssign(c)
           \/ StopSignal(c) \/ StopRead(c) \/ ExitRead(c) \/ Joined(c)
  <2>1. DispType'
    BY <1>5 DEF StartClaim, StopClaim, ExitSignal, StartClear, StartAssign, StopSignal, StopRead, ExitRead,
                Joined, DispType
  <2>2. ASSUME StartClaim(c) \/ StopClaim(c) \/ ExitSignal(c) \/ StartClear(c) \/ StopSignal(c)
        PROVE  CtlType'
    BY <2>2 DEF StartClaim, StopClaim, ExitSignal, StartClear, StopSignal, Goto, CtlType
  <2>3. ASSUME StopRead(c) \/ ExitRead(c) PROVE CtlType'
    <3> DEFINE r == [pc |-> IF dispatcher = 0 THEN "idle" ELSE "joining", join |-> dispatcher]
    <3>1. dispatcher' = dispatcher /\ ctl' = [ctl EXCEPT ![c] = r]
      BY <2>3 DEF StopRead, ExitRead, ToJoin
    <3>2. r \in [pc : {"idle", "joining"}, join : 0 .. MaxStarts]
      BY DEF CtlType
    <3> HIDE DEF r
    <3>3. r \in [pc : {"idle", "start clear", "start spawn", "start assign", "stop signal",
                       "stop join", "joining", "exit join"}, join : 0 .. MaxStarts]
      BY <3>2
    <3> QED BY <3>1, <3>3 DEF CtlType
  <2>4. ASSUME StartAssign(c) \/ Joined(c) PROVE CtlType'
    <3>1. ctl[c].join \in 0 .. MaxStarts
      BY DEF CtlType
    <3>2. ctl' = [ctl EXCEPT ![c] = [pc |-> "idle", join |-> 0]] /\ dispatcher' \in 0 .. MaxStarts
      BY <1>3, <2>4, <3>1 DEF StartAssign, Joined, Back
    <3> QED BY <1>3, <3>2 DEF CtlType
  <2>5. CtlType'
    BY <1>5, <2>2, <2>3, <2>4
  <2> QED BY <1>1, <2>1, <2>5
<1> QED BY <1>1, <1>4, <1>5 DEF Control

LEMMA ControlBus ==
  ASSUME BusInv, NEW c \in Controllers,
         StartClaim(c) \/ StopClaim(c) \/ ExitSignal(c) \/ Control(c)
  PROVE BusInv'
<1> USE DEF BusInv
<1>1. UNCHANGED <<bands, passed, pub, budget, late>>
  BY DEF StartClaim, StopClaim, ExitSignal, Control, StartClear, StartAssign, StartSpawn,
         StopSignal, StopRead, ExitRead, Joined, hist
<1>2. DispType' /\ CtlType' /\ BandType'
  BY ControlTypes
<1>3. ~crossed' => ~crossed
  BY DEF StartClaim, StopClaim, ExitSignal, Control, StartClear, StartAssign, StartSpawn,
         StopSignal, StopRead, ExitRead, Joined
<1> SUFFICES ASSUME ~crossed' PROVE Uncrossed'
  BY <1>2
<1> /\ Alone /\ OneAlive /\ InOrder
  BY <1>3 DEF Uncrossed
<1> USE DEF Uncrossed
<1>4. ASSUME UNCHANGED <<disp, stopRequested>> PROVE InOrder'
  BY <1>1, <1>4 DEF InOrder
<1>5. ASSUME UNCHANGED disp, stopRequested' = TRUE PROVE InOrder'
  BY <1>1, <1>5 DEF InOrder
<1>6. 0 \notin Dispatchers
  BY DEF Dispatchers
<1>7. /\ DOMAIN ctl = Controllers
      /\ \A e \in Controllers : ctl[e] \in [pc : {"idle", "start clear", "start spawn", "start assign",
                                  "stop signal", "stop join", "joining", "exit join"}, join : 0 .. MaxStarts]
  BY DEF CtlType
<1>8. ASSUME ctl[c].pc \in {"stop signal", "stop join", "joining", "exit join"}
      PROVE  \A e \in Controllers : ~Starting(e)
  BY <1>8 DEF Alone, Starting
<1>9. ASSUME Starting(c) PROVE running /\ \A e \in Controllers : e # c => ctl[e].pc = "idle"
  BY <1>9 DEF Alone
<1>10. CASE StartClaim(c)
  <2>1. /\ \A e \in Controllers : ctl[e].pc = "idle"
        /\ ~running /\ running' = TRUE /\ ctl' = [ctl EXCEPT ![c].pc = "start clear"]
        /\ UNCHANGED <<disp, dispatcher, stopRequested>>
    BY <1>10 DEF StartClaim, Goto
  <2>2. \A d \in Dispatchers : ~Live(d) /\ ~Live(d)'
    BY <2>1 DEF OneAlive, BackAndStopped, Live
  <2>3. Alone'
    BY <1>7, <2>1 DEF Alone, Starting
  <2>4. OneAlive'
    BY <2>2 DEF OneAlive
  <2> QED BY <1>4, <2>1, <2>3, <2>4
<1>11. CASE StartClear(c)
  <2>1. /\ ctl[c].pc = "start clear" /\ ctl' = [ctl EXCEPT ![c].pc = "start spawn"]
        /\ UNCHANGED <<disp, dispatcher, running>>
    BY <1>11 DEF StartClear, Goto
  <2>2. \A d \in Dispatchers : ~Live(d) /\ ~Live(d)' /\ disp[d].st \notin Busy
    BY <2>1 DEF OneAlive, Live, Busy
  <2>3. Alone'
    BY <1>7, <1>9, <2>1 DEF Alone, Starting
  <2>4. OneAlive'
    BY <2>2 DEF OneAlive
  <2>5. InOrder'
    BY <1>1, <2>1, <2>2 DEF InOrder, Busy
  <2> QED BY <2>3, <2>4, <2>5
<1>12. ASSUME NEW d \in Dispatchers, StartSpawn(c, d) PROVE Uncrossed'
  <2>1. disp'[d].st = "loop" /\ \A e \in Dispatchers : e # d => disp'[e] = disp[e]
    BY <1>12 DEF StartSpawn, DispType, States
  <2>2. /\ ctl[c].pc = "start spawn"
        /\ ctl' = [ctl EXCEPT ![c] = [pc |-> "start assign", join |-> d]]
        /\ UNCHANGED <<dispatcher, running, stopRequested>>
    BY <1>12 DEF StartSpawn
  <2>3. \A e \in Dispatchers : ~Live(e)
    BY <2>2 DEF OneAlive
  <2>4. \A e \in Dispatchers : Live(e)' => e = d
    BY <2>1, <2>3 DEF Live
  <2>5. Alone'
    BY <1>7, <1>9, <2>2 DEF Alone, Starting
  <2>6. /\ ctl'[c].pc = "start assign" /\ ctl'[c].join = d
        /\ \A e \in Controllers : e # c => ctl'[e].pc = "idle"
    BY <1>7, <1>9, <2>2 DEF Starting
  <2>7. OneAlive'
    BY <2>4, <2>6 DEF OneAlive, BackAndStopped
  <2>8. InOrder'
    BY <1>1, <2>1, <2>2 DEF InOrder, Busy
  <2> QED BY <2>5, <2>7, <2>8
<1>13. CASE StartAssign(c)
  <2>1. /\ ctl[c].pc = "start assign" /\ ctl' = [ctl EXCEPT ![c] = [pc |-> "idle", join |-> 0]]
        /\ dispatcher' = ctl[c].join /\ UNCHANGED <<disp, running, stopRequested>>
    BY <1>13 DEF StartAssign, Back
  <2>2. running' /\ \A e \in Controllers : ctl'[e].pc = "idle"
    BY <1>7, <1>9, <2>1 DEF Starting
  <2>3. Alone'
    BY <2>2 DEF Alone, Starting
  <2>4. OneAlive'
    BY <2>1, <2>2 DEF OneAlive, BackAndStopped, Live
  <2> QED BY <1>4, <2>1, <2>3, <2>4
<1>14. CASE StopClaim(c)
  <2>1. /\ \A e \in Controllers : ~Starting(e)
        /\ ctl' = [ctl EXCEPT ![c].pc = "stop signal"]
        /\ UNCHANGED <<disp, dispatcher, stopRequested>>
    BY <1>14 DEF StopClaim, Goto
  <2>2. Alone'
    BY <1>7, <2>1 DEF Alone, Starting
  <2>3. ctl'[c].pc = "stop signal" /\ \A e \in Controllers : e # c => ctl'[e] = ctl[e]
    BY <1>7, <2>1
  <2>4. OneAlive'
    BY <2>1, <2>3 DEF OneAlive, BackAndStopped, Live, Starting
  <2> QED BY <1>4, <2>1, <2>2, <2>4
<1>15. CASE StopSignal(c)
  <2>1. /\ ctl[c].pc = "stop signal" /\ ctl' = [ctl EXCEPT ![c].pc = "stop join"]
        /\ UNCHANGED <<disp, dispatcher, running>> /\ stopRequested' = TRUE
    BY <1>15 DEF StopSignal, StopFlag, Goto
  <2>2. Alone'
    BY <1>7, <1>8, <2>1 DEF Alone, Starting
  <2>3. ctl'[c].pc = "stop join" /\ \A e \in Controllers : e # c => ctl'[e] = ctl[e]
    BY <1>7, <2>1
  <2>4. OneAlive'
    BY <2>1, <2>3 DEF OneAlive, BackAndStopped, Live
  <2> QED BY <1>5, <2>1, <2>2, <2>4
<1>16. ASSUME ctl[c].pc \in {"stop join", "exit join"}, UNCHANGED <<disp, dispatcher, stopRequested>>,
              ctl' = [ctl EXCEPT ![c] = [pc |-> IF dispatcher = 0 THEN "idle" ELSE "joining",
                                        join |-> dispatcher]]
       PROVE  Uncrossed'
  <2>1. \A e \in Controllers : ~Starting(e) /\ ~Starting(e)'
    BY <1>7, <1>8, <1>16 DEF Starting
  <2>2. Alone'
    BY <2>1 DEF Alone
  <2>3. \A d \in Dispatchers : Live(d) => d = dispatcher
    BY <2>1 DEF OneAlive, Starting
  <2>4. OneAlive'
    <3>1. CASE dispatcher = 0
      BY <1>6, <1>16, <2>3, <3>1 DEF OneAlive, Live
    <3>2. CASE dispatcher # 0
      <4>1. ctl'[c] = [pc |-> "joining", join |-> dispatcher] /\ \A e \in Controllers : e # c => ctl'[e] = ctl[e]
        BY <1>7, <1>16, <3>2
      <4>2. ~BackAndStopped'
        BY <4>1 DEF BackAndStopped
      <4>3. ctl'[c].pc = "joining" /\ ctl'[c].join = dispatcher
        BY <4>1
      <4>4. \A d \in Dispatchers : Live(d)' => Live(d) /\ d = dispatcher
        BY <1>16, <2>3 DEF Live
      <4>5. \A d \in Dispatchers, e \in Controllers : Live(d)' =>
              /\ ctl'[e].pc \notin {"start clear", "start spawn"}
              /\ ctl'[e].pc \in {"start assign", "joining"} => d = ctl'[e].join
        BY <4>1, <4>3, <4>4 DEF OneAlive
      <4> QED BY <1>16, <4>2, <4>4, <4>5 DEF OneAlive
    <3> QED BY <3>1, <3>2
  <2> QED BY <1>4, <1>16, <2>2, <2>4
<1>17. CASE StopRead(c)
  BY <1>16, <1>17 DEF StopRead, ToJoin
<1>18. CASE ExitRead(c)
  BY <1>16, <1>18 DEF ExitRead
<1>19. CASE Joined(c)
  <2>1. /\ ctl[c].pc = "joining" /\ ctl' = [ctl EXCEPT ![c] = [pc |-> "idle", join |-> 0]]
        /\ disp[ctl[c].join].st = "done" /\ UNCHANGED <<disp, running, stopRequested>>
    BY <1>19 DEF Joined, Finished, Back
  <2>2. \A d \in Dispatchers : ~Live(d) /\ ~Live(d)'
    BY <2>1 DEF OneAlive, Live
  <2>3. Alone'
    BY <1>7, <1>8, <2>1 DEF Alone, Starting
  <2>4. OneAlive'
    BY <2>2 DEF OneAlive
  <2> QED BY <1>4, <2>1, <2>3, <2>4
<1>20. CASE ExitSignal(c)
  <2>1. CASE running
    <3>1. /\ ctl' = [ctl EXCEPT ![c].pc = "exit join"] /\ stopRequested' = TRUE
          /\ \A e \in Controllers : ~Starting(e)
          /\ UNCHANGED <<running, dispatcher, disp>>
      BY <1>20, <2>1 DEF ExitSignal
    <3>2. Alone'
      BY <1>7, <3>1 DEF Alone, Starting
    <3>3. ctl'[c].pc = "exit join" /\ \A e \in Controllers : e # c => ctl'[e] = ctl[e]
      BY <1>7, <3>1
    <3>4. OneAlive'
      BY <2>1, <3>1, <3>3 DEF OneAlive, BackAndStopped, Live, Starting
    <3> QED BY <1>5, <3>1, <3>2, <3>4
  <2>2. CASE ~running
    <3>1. UNCHANGED <<ctl, stopRequested, running, dispatcher, disp>>
      BY <1>20, <2>2 DEF ExitSignal
    <3>2. Alone' /\ OneAlive'
      BY <3>1 DEF Alone, Starting, OneAlive, BackAndStopped, Live
    <3> QED BY <1>4, <3>1, <3>2
  <2> QED BY <2>1, <2>2
<1> QED BY <1>10, <1>11, <1>12, <1>13, <1>14, <1>15, <1>17, <1>18, <1>19, <1>20 DEF Control

-----------------------------------------------------------------------------
(* A push after a stop was requested is late; before, no scan is final.    *)
LEMMA PublishBus ==
  ASSUME BusInv, NEW p \in Publishers, NEW b \in Bands, PublishPush(p, b)
  PROVE BusInv'
<1> USE DEF BusInv
<1> DEFINE e == [from |-> p, n |-> pub[p].n + 1, band |-> b]
<1>1. /\ UNCHANGED <<ctl, dispatcher, running, crossed, stopRequested, disp, passed, budget>>
      /\ bands' = IF HasRoom(b) THEN [bands EXCEPT ![b] = Append(@, e)] ELSE bands
      /\ late' = IF stopRequested THEN late \union {e} ELSE late
      /\ pub' = [pub EXCEPT ![p] = [n |-> @.n + 1, band |-> b,
                                   pc |-> IF HasRoom(b) THEN "pushed" ELSE "full"]]
      /\ pub[p].n < budget.publish
  BY DEF PublishPush, life
<1>2. DispType' /\ CtlType' /\ (Alone /\ OneAlive => Alone' /\ OneAlive')
  BY <1>1 DEF DispType, CtlType, Alone, Starting, OneAlive, BackAndStopped, Live
<1>3. e \in Events
  <2>1. pub[p].n \in Nat
    BY DEF BandType
  <2>2. budget.publish \in 0 .. MaxPublish /\ MaxPublish \in Nat
    BY BusAssumption DEF BandType
  <2>3. pub[p].n + 1 \in 1 .. MaxPublish
    BY <1>1, <2>1, <2>2
  <2> QED BY <2>3 DEF Events
<1>4. BandType'
  <2>1. bands' \in [Bands -> Seq(Events)]
    BY <1>1, <1>3 DEF BandType
  <2>2. pub' \in [Publishers -> [n : Nat, pc : {"idle", "pushed", "full"}, band : Bands]]
    <3>1. pub[p].n + 1 \in Nat
      BY DEF BandType
    <3> QED BY <1>1, <3>1 DEF BandType
  <2> QED BY <1>1, <2>1, <2>2 DEF BandType
<1>5. ASSUME NEW c \in Bands
      PROVE /\ bands'[c] = <<>> => bands[c] = <<>>
            /\ Range(bands[c]) \subseteq late /\ stopRequested => Range(bands'[c]) \subseteq late'
  <2>1. CASE c = b /\ HasRoom(b)
    <3>1. bands[b] \in Seq(Events) /\ bands'[b] = Append(bands[b], e)
      BY <1>1, <2>1 DEF BandType
    <3>2. Range(bands'[b]) \subseteq Range(bands[b]) \union {e} /\ bands'[b] # <<>>
      BY <1>3, <3>1, RangeOfAppend
    <3> QED BY <1>1, <2>1, <3>2
  <2>2. CASE ~(c = b /\ HasRoom(b))
    <3>1. bands'[c] = bands[c]
      BY <1>1, <2>2 DEF BandType
    <3> QED BY <1>1, <3>1
  <2> QED BY <2>1, <2>2
<1>6. ASSUME InOrder PROVE InOrder'
  <2>1. \A c \in Bands : (bands'[c] = <<>> => passed'[c] = 0) /\ passed'[c] <= 1
    BY <1>1, <1>5, <1>6 DEF InOrder
  <2>2. \A d \in Dispatchers : disp'[d].st \in Busy /\ disp'[d].drain => stopRequested'
    BY <1>1, <1>6 DEF InOrder
  <2>3. ASSUME NEW d \in Dispatchers, disp[d].st = "scan", NEW c \in Bands, c < disp[d].band
        PROVE passed'[c] = 0 /\ (disp'[d].drain => Range(bands'[c]) \subseteq late')
    BY <1>1, <1>5, <1>6, <2>3 DEF InOrder, Busy
  <2> QED BY <1>1, <2>1, <2>2, <2>3 DEF InOrder
<1> QED BY <1>1, <1>2, <1>4, <1>6 DEF Uncrossed

LEMMA BusStep == ASSUME BusInv, [Next]_vars PROVE BusInv'
<1>1. ASSUME UNCHANGED <<bands, passed, budget, late, disp, life>>, BandType' PROVE BusInv'
  BY <1>1 DEF BusInv, Uncrossed, DispType, CtlType, Alone, Starting, OneAlive, BackAndStopped, InOrder, Live, life
<1>2. ASSUME NEW p \in Publishers, PublishCount(p) PROVE BusInv'
  <2>1. BandType'
    BY <1>2 DEF PublishCount, BusInv, BandType, hist
  <2> QED BY <1>1, <1>2, <2>1 DEF PublishCount, hist
<1>3. ASSUME NEW s \in Subs, Subscribe(s) \/ Unsubscribe(s) PROVE BusInv'
  BY <1>1, <1>3 DEF Subscribe, Unsubscribe, hist, BusInv, BandType
<1>4. CASE UNCHANGED vars
  BY <1>1, <1>4 DEF vars, hist, BusInv, BandType
<1> QED BY <1>2, <1>3, <1>4, DispatchBus, ControlBus, PublishBus DEF Next

(* Any number of events, bands and restarts keeps the invariant.           *)
THEOREM BusInvariant == Spec => []BusInv
<1>1. BusInv /\ [Next]_vars => BusInv'
  BY BusStep
<1> QED BY <1>1, InitBus, PTL DEF Spec

(* For any number of callers: whichever of them stop the bus, and however  *)
(* the stops cross each other and the at_exit hook, no dispatcher is left  *)
(* of a stopped bus, as long as no start crossed another caller's call.    *)
THEOREM StopAlwaysLeavesNoDispatcher == Spec => []StopLeavesNoDispatcher
<1>1. BusInv => StopLeavesNoDispatcher
  BY DEF BusInv, Uncrossed, OneAlive, StopLeavesNoDispatcher
<1> QED BY <1>1, BusInvariant, PTL

(* Whatever the publishers do between two looks of the scan, at most one   *)
(* event of a lower band goes before one that waits, until a start crosses *)
(* another caller's call.                                                  *)
THEOREM NobodyIsOvertakenTwice == Spec => []OvertakenAtMostOnce
<1>1. BusInv => OvertakenAtMostOnce
  BY DEF BusInv, Uncrossed, InOrder, OvertakenAtMostOnce
<1> QED BY <1>1, BusInvariant, PTL

(* The final drain of every dispatcher leaves only what was pushed after   *)
(* the stop was requested, until a start crosses another caller's call.    *)
THEOREM DrainLosesNothingEarly == Spec => NothingEarlyIsLost
<1> DEFINE Loses == \A d \in Dispatchers :
                      ~crossed /\ Live(d) /\ ~Live(d)' => \A b \in Bands : Range(bands[b]) \subseteq late
<1>1. ASSUME BusInv, [Next]_vars PROVE [Loses]_vars
  <2> USE DEF BusInv
  <2>1. ASSUME NEW d \in Dispatchers, ~crossed, Live(d), ~Live(d)', NEW b \in Bands
        PROVE Range(bands[b]) \subseteq late
    <3>1. Next
      BY <1>1, <2>1 DEF vars, Live
    <3>2. \A c \in Controllers : ~(StartClaim(c) \/ StopClaim(c) \/ ExitSignal(c))
      BY <2>1 DEF StartClaim, StopClaim, ExitSignal, Live
    <3>3. \A c \in Controllers : ~Control(c)
      BY <1>1, <2>1 DEF Control, StartClear, StartAssign, StartSpawn, StopSignal, StopRead, ExitRead, Joined,
                  DispType, Live
    <3>4. PICK e \in Dispatchers : Dispatch(e)
      BY <2>1, <3>1, <3>2, <3>3 DEF Next, PublishCount, PublishPush, Subscribe, Unsubscribe, Live
    <3>5. e = d /\ SkipBand(d) /\ disp[d].band + 1 \notin Bands /\ disp[d].drain
      BY <1>1, <2>1, <3>4, LoopTestSteps, PopBandSteps, SkipBandSteps, SnapshotSteps, CallHandlerSteps,
         EndDispatchSteps DEF Dispatch, Steps, Live, AfterEmptyScan
    <3>6. disp[d].band \in Bands /\ disp[d].st = "scan" /\ bands[disp[d].band] = <<>>
      BY <1>1, <3>5 DEF DispType, SkipBand
    <3>7. b < disp[d].band \/ b = disp[d].band
      BY <3>5, <3>6, BusAssumption DEF Bands
    <3>8. Range(<<>>) = {}
      BY DEF Range
    <3> QED BY <1>1, <2>1, <3>5, <3>6, <3>7, <3>8 DEF Uncrossed, InOrder
  <2> QED BY <2>1
<1> QED BY <1>1, BusInvariant, PTL DEF Spec, NothingEarlyIsLost

-----------------------------------------------------------------------------
(* Counting: an event moves from a publisher to a band, to a hand, to the  *)
(* counter of what was dispatched, one at a time.                          *)

LEMMA UnitsAreFinite ==
  ASSUME NEW S, IsFiniteSet(S), NEW c \in [S -> Nat]
  PROVE  IsFiniteSet(Units(c, S)) /\ Cardinality(Units(c, S)) \in Nat
<1> DEFINE T == {{b} \X (1 .. c[b]) : b \in S}
           f == [b \in S |-> {b} \X (1 .. c[b])]
<1>1. f \in Surjection(S, T)
  BY DEF Surjection
<1>2. IsFiniteSet(T)
  BY <1>1, FS_Surjection
<1>3. ASSUME NEW b \in S PROVE IsFiniteSet({b} \X (1 .. c[b]))
  <2>1. IsFiniteSet(1 .. c[b])
    BY FS_Interval
  <2>2. IsFiniteSet({b})
    BY FS_Singleton
  <2> QED BY <2>1, <2>2, FS_Product
<1>4. IsFiniteSet(UNION T)
  <2>1. \A t \in T : IsFiniteSet(t)
    BY <1>3
  <2> HIDE DEF T
  <2> QED BY <1>2, <2>1, FS_UNION
<1> QED BY <1>4, FS_CardinalityType DEF Units

(* One more of one member is one more in all.                              *)
LEMMA OneUnitMore ==
  ASSUME NEW S, IsFiniteSet(S), NEW c \in [S -> Nat], NEW c2 \in [S -> Nat], NEW b \in S,
         c2[b] = c[b] + 1, \A a \in S : a # b => c2[a] = c[a]
  PROVE  Cardinality(Units(c2, S)) = Cardinality(Units(c, S)) + 1
<1> DEFINE u == <<b, c2[b]>>
<1>1. Units(c2, S) = Units(c, S) \union {u}
  <2>1. ASSUME NEW x \in Units(c2, S) PROVE x \in Units(c, S) \union {u}
    <3>1. PICK a \in S : x \in {a} \X (1 .. c2[a])
      BY <2>1 DEF Units
    <3>2. x = <<a, x[2]>> /\ x[2] \in 1 .. c2[a]
      BY <3>1
    <3>3. CASE a = b /\ x[2] = c2[b]
      BY <3>2, <3>3
    <3>4. CASE ~(a = b /\ x[2] = c2[b])
      <4>1. x[2] \in 1 .. c[a]
        BY <3>2, <3>4
      <4> QED BY <3>2, <4>1 DEF Units
    <3> QED BY <3>3, <3>4
  <2>2. ASSUME NEW x \in Units(c, S) PROVE x \in Units(c2, S)
    <3>1. PICK a \in S : x \in {a} \X (1 .. c[a])
      BY <2>2 DEF Units
    <3>2. x = <<a, x[2]>> /\ x[2] \in 1 .. c[a]
      BY <3>1
    <3>3. x[2] \in 1 .. c2[a]
      <4>1. c2[a] \in Nat /\ c[a] \in Nat /\ c2[a] >= c[a]
        OBVIOUS
      <4> QED BY <3>2, <4>1
    <3> QED BY <3>2, <3>3 DEF Units
  <2>3. u \in Units(c2, S)
    <3>1. c2[b] \in 1 .. c2[b]
      OBVIOUS
    <3> QED BY <3>1 DEF Units
  <2> QED BY <2>1, <2>2, <2>3
<1>2. u \notin Units(c, S)
  <2> SUFFICES ASSUME u \in Units(c, S) PROVE FALSE
    OBVIOUS
  <2>1. PICK a \in S : u \in {a} \X (1 .. c[a])
    BY DEF Units
  <2>2. a = b /\ c2[b] \in 1 .. c[b]
    BY <2>1
  <2> QED BY <2>2
<1> QED BY <1>1, <1>2, UnitsAreFinite, FS_AddElement

LEMMA TotalsAreNat ==
  /\ IsFiniteSet(Bands)
  /\ \A c \in [Bands -> Nat] : Total(c) \in Nat
  /\ \A b \in Bands, c, c2 \in [Bands -> Nat] :
       c2[b] = c[b] + 1 /\ (\A a \in Bands : a # b => c2[a] = c[a]) => Total(c2) = Total(c) + 1
<1>1. IsFiniteSet(Bands)
  BY BusAssumption, FS_Interval DEF Bands
<1> QED BY <1>1, UnitsAreFinite, OneUnitMore DEF Total

(* One more member of a finite set, or one less.                           *)
LEMMA OneMember ==
  ASSUME NEW S, IsFiniteSet(S), NEW x \in S, NEW T \in SUBSET S, NEW U \in SUBSET S,
         x \notin T, U = T \union {x}
  PROVE  Cardinality(U) = Cardinality(T) + 1 /\ Cardinality(T) \in Nat
<1>1. IsFiniteSet(T)
  BY FS_Subset
<1> QED BY <1>1, FS_AddElement, FS_CardinalityType

Pushed == {p \in Publishers : pub[p].pc = "pushed"}
Hands == {d \in Dispatchers : InHand(d)}
Waiting == [b \in Bands |-> Len(bands[b])]

(* What a dispatcher holds says where it is.                               *)
HandsType ==
  /\ DOMAIN disp = Dispatchers
  /\ \A d \in Dispatchers :
       /\ DOMAIN disp[d] = {"st", "drain", "band", "env", "todo"}
       /\ disp[d].st \in States /\ disp[d].band \in Bands
       /\ disp[d].env \in IF disp[d].st \in {"popped", "deliver"} THEN Events ELSE {NoEvent}

CountType ==
  /\ bands \in [Bands -> Seq(Events)]
  /\ pub \in [Publishers -> [n : Nat, pc : {"idle", "pushed", "full"}, band : Bands]]
  /\ budget \in Budgets
  /\ published \in [Bands -> Nat] /\ dispatched \in Nat

Carried == Total(published) + Cardinality(Pushed) = Pending + Cardinality(Hands) + dispatched

FlowInv == HandsType /\ CountType /\ Carried

(* Who has pushed and not counted yet, and who holds an event, are subsets *)
(* of finite sets.                                                         *)
LEMMA ActorsAreFinite ==
  /\ IsFiniteSet(Publishers) /\ IsFiniteSet(Dispatchers)
  /\ Pushed \in SUBSET Publishers /\ Hands \in SUBSET Dispatchers
BY BusAssumption, FS_Interval DEF Dispatchers, Pushed, Hands

(* The equation of what is carried, now and after a step.                  *)
Balanced(pubd, pushed, waiting, hands, done) ==
  Total(pubd) + Cardinality(pushed) = Total(waiting) + Cardinality(hands) + done

LEMMA AccountedIsBalanced ==
  /\ Carried <=> Balanced(published, Pushed, Waiting, Hands, dispatched)
  /\ Carried' <=> Balanced(published', Pushed', Waiting', Hands', dispatched')
BY DEF Carried, Pending, Waiting, Pushed, Hands, Balanced

LEMMA WaitingIsNat ==
  /\ CountType => Waiting \in [Bands -> Nat]
  /\ CountType' => Waiting' \in [Bands -> Nat]
BY LenProperties DEF Waiting, CountType

(* Pushing, counting, popping and dispatching move one event each.         *)
LEMMA EventMoves ==
  ASSUME NEW pubd \in [Bands -> Nat], NEW pubd2 \in [Bands -> Nat],
         NEW waiting \in [Bands -> Nat], NEW waiting2 \in [Bands -> Nat],
         NEW pushed \in SUBSET Publishers, NEW pushed2 \in SUBSET Publishers,
         NEW hands \in SUBSET Dispatchers, NEW hands2 \in SUBSET Dispatchers,
         NEW done \in Nat, NEW done2 \in Nat,
         Balanced(pubd, pushed, waiting, hands, done),
         \/ /\ \E b \in Bands : waiting2[b] = waiting[b] + 1 /\ \A a \in Bands : a # b => waiting2[a] = waiting[a]
            /\ \E p \in Publishers : p \notin pushed /\ pushed2 = pushed \union {p}
            /\ pubd2 = pubd /\ hands2 = hands /\ done2 = done
         \/ /\ \E b \in Bands : pubd2[b] = pubd[b] + 1 /\ \A a \in Bands : a # b => pubd2[a] = pubd[a]
            /\ \E p \in Publishers : p \notin pushed2 /\ pushed = pushed2 \union {p}
            /\ waiting2 = waiting /\ hands2 = hands /\ done2 = done
         \/ /\ \E b \in Bands : waiting[b] = waiting2[b] + 1 /\ \A a \in Bands : a # b => waiting[a] = waiting2[a]
            /\ \E d \in Dispatchers : d \notin hands /\ hands2 = hands \union {d}
            /\ pubd2 = pubd /\ pushed2 = pushed /\ done2 = done
         \/ /\ \E d \in Dispatchers : d \notin hands2 /\ hands = hands2 \union {d}
            /\ done2 = done + 1
            /\ pubd2 = pubd /\ pushed2 = pushed /\ waiting2 = waiting
         \/ pubd2 = pubd /\ pushed2 = pushed /\ waiting2 = waiting /\ hands2 = hands /\ done2 = done
  PROVE  Balanced(pubd2, pushed2, waiting2, hands2, done2)
<1>1. /\ Total(pubd) \in Nat /\ Total(pubd2) \in Nat /\ Total(waiting) \in Nat /\ Total(waiting2) \in Nat
  BY TotalsAreNat
<1>2. /\ Cardinality(pushed) \in Nat /\ Cardinality(pushed2) \in Nat
      /\ Cardinality(hands) \in Nat /\ Cardinality(hands2) \in Nat
  BY ActorsAreFinite, FS_Subset, FS_CardinalityType
<1>3. \A b \in Bands, c, c2 \in [Bands -> Nat] :
         c2[b] = c[b] + 1 /\ (\A a \in Bands : a # b => c2[a] = c[a]) => Total(c2) = Total(c) + 1
  BY TotalsAreNat
<1>4. \A p \in Publishers, T, U \in SUBSET Publishers :
         p \notin T /\ U = T \union {p} => Cardinality(U) = Cardinality(T) + 1
  BY ActorsAreFinite, OneMember
<1>5. \A d \in Dispatchers, T, U \in SUBSET Dispatchers :
         d \notin T /\ U = T \union {d} => Cardinality(U) = Cardinality(T) + 1
  BY ActorsAreFinite, OneMember
<1> QED BY <1>1, <1>2, <1>3, <1>4, <1>5 DEF Balanced
(* The same of the bus: a step that makes one of these moves, or none.     *)
LEMMA MoveKeepsFlow ==
  ASSUME FlowInv, HandsType', CountType',
         \/ /\ \E b \in Bands : Waiting'[b] = Waiting[b] + 1 /\ \A a \in Bands : a # b => Waiting'[a] = Waiting[a]
            /\ \E p \in Publishers : p \notin Pushed /\ Pushed' = Pushed \union {p}
            /\ published' = published /\ Hands' = Hands /\ dispatched' = dispatched
         \/ /\ \E b \in Bands : published'[b] = published[b] + 1 /\ \A a \in Bands : a # b => published'[a] = published[a]
            /\ \E p \in Publishers : p \notin Pushed' /\ Pushed = Pushed' \union {p}
            /\ Waiting' = Waiting /\ Hands' = Hands /\ dispatched' = dispatched
         \/ /\ \E b \in Bands : Waiting[b] = Waiting'[b] + 1 /\ \A a \in Bands : a # b => Waiting[a] = Waiting'[a]
            /\ \E d \in Dispatchers : d \notin Hands /\ Hands' = Hands \union {d}
            /\ published' = published /\ Pushed' = Pushed /\ dispatched' = dispatched
         \/ /\ \E d \in Dispatchers : d \notin Hands' /\ Hands = Hands' \union {d}
            /\ dispatched' = dispatched + 1
            /\ published' = published /\ Pushed' = Pushed /\ Waiting' = Waiting
         \/ /\ published' = published /\ Pushed' = Pushed /\ Waiting' = Waiting
            /\ Hands' = Hands /\ dispatched' = dispatched
  PROVE  FlowInv'
<1>1. /\ published \in [Bands -> Nat] /\ published' \in [Bands -> Nat]
      /\ dispatched \in Nat /\ dispatched' \in Nat
      /\ Waiting \in [Bands -> Nat] /\ Waiting' \in [Bands -> Nat]
  BY WaitingIsNat DEF FlowInv, CountType
<1>2. /\ Pushed \in SUBSET Publishers /\ Pushed' \in SUBSET Publishers
      /\ Hands \in SUBSET Dispatchers /\ Hands' \in SUBSET Dispatchers
  BY DEF Pushed, Hands
<1>3. Balanced(published, Pushed, Waiting, Hands, dispatched)
  BY AccountedIsBalanced DEF FlowInv
<1>4. Balanced(published', Pushed', Waiting', Hands', dispatched')
  BY <1>1, <1>2, <1>3, EventMoves, ZenonT(40)
<1> QED BY <1>4, AccountedIsBalanced DEF FlowInv

(* What a publisher or a dispatcher is seen to do by the count.            *)
LEMMA PushMoves ==
  ASSUME FlowInv, NEW p \in Publishers, NEW b \in Bands, PublishPush(p, b)
  PROVE  FlowInv'
<1> USE DEF FlowInv
<1> DEFINE e == [from |-> p, n |-> pub[p].n + 1, band |-> b]
<1>1. /\ UNCHANGED <<disp, published, dispatched, budget>>
      /\ bands' = IF HasRoom(b) THEN [bands EXCEPT ![b] = Append(@, e)] ELSE bands
      /\ pub' = [pub EXCEPT ![p] = [n |-> @.n + 1, band |-> b,
                                   pc |-> IF HasRoom(b) THEN "pushed" ELSE "full"]]
      /\ pub[p].n < budget.publish /\ pub[p].pc = "idle"
  BY DEF PublishPush, life, flow
<1>2. e \in Events
  <2>1. pub[p].n \in Nat
    BY DEF CountType
  <2>2. budget.publish \in 0 .. MaxPublish /\ MaxPublish \in Nat
    BY BusAssumption DEF CountType
  <2>3. pub[p].n + 1 \in 1 .. MaxPublish
    BY <1>1, <2>1, <2>2
  <2> QED BY <2>3 DEF Events
<1>3. HandsType' /\ Hands' = Hands
  BY <1>1 DEF HandsType, Hands, InHand
<1>4. CountType'
  <2>1. bands' \in [Bands -> Seq(Events)]
    BY <1>1, <1>2 DEF CountType
  <2>2. pub' \in [Publishers -> [n : Nat, pc : {"idle", "pushed", "full"}, band : Bands]]
    <3>1. pub[p].n + 1 \in Nat
      BY DEF CountType
    <3> QED BY <1>1, <3>1 DEF CountType
  <2> QED BY <1>1, <2>1, <2>2 DEF CountType
<1>5. CASE HasRoom(b)
  <2>1. p \notin Pushed /\ Pushed' = Pushed \union {p}
    BY <1>1, <1>5 DEF Pushed, CountType
  <2>2. Waiting'[b] = Waiting[b] + 1
    <3>1. bands[b] \in Seq(Events) /\ bands'[b] = Append(bands[b], e)
      BY <1>1, <1>5 DEF CountType
    <3> QED BY <1>2, <3>1, AppendProperties DEF Waiting
  <2>3. \A a \in Bands : a # b => Waiting'[a] = Waiting[a]
    BY <1>1, <1>5 DEF Waiting, CountType
  <2> QED BY <1>1, <1>3, <1>4, <2>1, <2>2, <2>3, MoveKeepsFlow
<1>6. CASE ~HasRoom(b)
  <2>1. Pushed' = Pushed
    BY <1>1, <1>6 DEF Pushed, CountType
  <2>2. Waiting' = Waiting
    BY <1>1, <1>6 DEF Waiting
  <2> QED BY <1>1, <1>3, <1>4, <2>1, <2>2, MoveKeepsFlow
<1> QED BY <1>5, <1>6

LEMMA CountMoves ==
  ASSUME FlowInv, NEW p \in Publishers, PublishCount(p)
  PROVE  FlowInv'
<1> USE DEF FlowInv
<1> DEFINE b == pub[p].band
<1>1. /\ UNCHANGED <<disp, dispatched, budget, bands>> /\ pub[p].pc # "idle"
      /\ pub' = [pub EXCEPT ![p].pc = "idle"]
      /\ published' = IF pub[p].pc = "pushed" THEN [published EXCEPT ![b] = @ + 1] ELSE published
  BY DEF PublishCount, hist, WasPushed
<1>2. HandsType' /\ Hands' = Hands /\ Waiting' = Waiting
  BY <1>1 DEF HandsType, Hands, InHand, Waiting
<1>3. b \in Bands /\ published[b] \in Nat
  BY DEF CountType
<1>4. CountType'
  <2>1. published' \in [Bands -> Nat]
    BY <1>1, <1>3 DEF CountType
  <2> QED BY <1>1, <2>1 DEF CountType
<1>5. CASE pub[p].pc = "pushed"
  <2>1. p \notin Pushed' /\ Pushed = Pushed' \union {p}
    BY <1>1, <1>5 DEF Pushed, CountType
  <2>2. published'[b] = published[b] + 1 /\ \A a \in Bands : a # b => published'[a] = published[a]
    BY <1>1, <1>3, <1>5 DEF CountType
  <2> QED BY <1>1, <1>2, <1>3, <1>4, <2>1, <2>2, MoveKeepsFlow
<1>6. CASE pub[p].pc # "pushed"
  <2>1. Pushed' = Pushed /\ published' = published
    BY <1>1, <1>6 DEF Pushed, CountType
  <2> QED BY <1>1, <1>2, <1>4, <2>1, MoveKeepsFlow
<1> QED BY <1>5, <1>6
(* A dispatcher's step changes its own record only: the fields it leaves.  *)
LEMMA HandStep ==
  ASSUME HandsType, NEW d \in Dispatchers, NEW r,
         disp' = [disp EXCEPT ![d] = r],
         DOMAIN r = {"st", "drain", "band", "env", "todo"},
         r.st \in States, r.band \in Bands,
         r.env \in IF r.st \in {"popped", "deliver"} THEN Events ELSE {NoEvent}
  PROVE  /\ HandsType'
         /\ Hands' = IF r.st \in {"popped", "deliver"} THEN Hands \union {d} ELSE Hands \ {d}
         /\ d \in Hands <=> disp[d].st \in {"popped", "deliver"}
<1>1. NoEvent \notin Events
  BY BusAssumption
<1>2. DOMAIN disp' = Dispatchers /\ disp'[d] = r /\ \A e \in Dispatchers : e # d => disp'[e] = disp[e]
  BY DEF HandsType
<1>3. HandsType'
  BY <1>2 DEF HandsType
<1>4. /\ \A e \in Dispatchers : e # d => (e \in Hands' <=> e \in Hands)
      /\ d \in Hands' <=> r.env # NoEvent
      /\ d \in Hands <=> disp[d].env # NoEvent
  BY <1>2 DEF Hands, InHand
<1>5. Hands \subseteq Dispatchers /\ Hands' \subseteq Dispatchers
  BY DEF Hands
<1>6. /\ r.env # NoEvent <=> r.st \in {"popped", "deliver"}
      /\ disp[d].env # NoEvent <=> disp[d].st \in {"popped", "deliver"}
  BY <1>1 DEF HandsType
<1> QED BY <1>3, <1>4, <1>5, <1>6

LEMMA DispatchMoves ==
  ASSUME FlowInv, NEW d \in Dispatchers, Dispatch(d)
  PROVE  FlowInv'
<1> USE DEF FlowInv
<1>1. /\ DOMAIN disp[d] = {"st", "drain", "band", "env", "todo"} /\ disp[d].st \in States
      /\ disp[d].band \in Bands /\ 0 \in Bands
      /\ disp[d].env \in IF disp[d].st \in {"popped", "deliver"} THEN Events ELSE {NoEvent}
      /\ DOMAIN disp = Dispatchers
  BY BandZero DEF HandsType
<1>2. ASSUME UNCHANGED <<bands, pub, published, dispatched, budget>>, HandsType', Hands' = Hands
      PROVE  FlowInv'
  <2>1. CountType' /\ Waiting' = Waiting /\ Pushed' = Pushed
    BY <1>2 DEF CountType, Waiting, Pushed
  <2> QED BY <1>2, <2>1, MoveKeepsFlow
<1>3. CASE LoopTest(d)
  <2> DEFINE r == [disp[d] EXCEPT !.st = "scan", !.band = 0, !.drain = stopRequested]
  <2>1. disp' = [disp EXCEPT ![d] = r] /\ UNCHANGED <<bands, pub, published, dispatched, budget>>
        /\ disp[d].st = "loop"
    BY <1>1, <1>3 DEF LoopTest, AfterTest, FirstBand, flow, hist
  <2>2. DOMAIN r = {"st", "drain", "band", "env", "todo"} /\ r.st = "scan" /\ r.band = 0 /\ r.env = NoEvent
    BY <1>1, <2>1
  <2> HIDE DEF r
  <2>3. HandsType' /\ Hands' = Hands
    <3>1. HandsType' /\ Hands' = Hands \ {d} /\ d \notin Hands
      BY <1>1, <2>1, <2>2, HandStep DEF States
    <3> QED BY <3>1
  <2> QED BY <1>2, <2>1, <2>3
<1>4. CASE PopBand(d)
  <2> DEFINE k == disp[d].band
             r == [disp[d] EXCEPT !.st = "popped", !.env = Head(bands[k])]
  <2>1. /\ disp' = [disp EXCEPT ![d] = r] /\ UNCHANGED <<pub, published, dispatched, budget>>
        /\ disp[d].st = "scan" /\ bands[k] # <<>> /\ bands' = [bands EXCEPT ![k] = Tail(@)]
    BY <1>1, <1>4 DEF PopBand, Oldest, flow
  <2>2. bands[k] \in Seq(Events)
    BY <1>1 DEF CountType
  <2>3. Head(bands[k]) \in Events /\ Tail(bands[k]) \in Seq(Events) /\ Len(bands[k]) = Len(Tail(bands[k])) + 1
    BY <2>1, <2>2, HeadTailProperties
  <2>4. DOMAIN r = {"st", "drain", "band", "env", "todo"} /\ r.st = "popped" /\ r.band = k /\ r.env \in Events
    BY <1>1, <2>3
  <2>5. HandsType' /\ Hands' = Hands \union {d} /\ d \notin Hands
    BY <1>1, <2>1, <2>4, HandStep DEF States
  <2>6. CountType'
    <3>1. bands' \in [Bands -> Seq(Events)]
      BY <2>1, <2>3 DEF CountType
    <3> QED BY <2>1, <3>1 DEF CountType
  <2>7. Waiting[k] = Waiting'[k] + 1 /\ \A a \in Bands : a # k => Waiting[a] = Waiting'[a]
    <3>1. bands'[k] = Tail(bands[k]) /\ \A a \in Bands : a # k => bands'[a] = bands[a]
      BY <1>1, <2>1 DEF CountType
    <3> QED BY <1>1, <2>3, <3>1 DEF Waiting
  <2>8. Pushed' = Pushed
    BY <2>1 DEF Pushed
  <2> QED BY <1>1, <2>1, <2>5, <2>6, <2>7, <2>8, MoveKeepsFlow
<1>5. CASE SkipBand(d)
  <2> DEFINE r == IF disp[d].band + 1 \in Bands THEN [disp[d] EXCEPT !.band = @ + 1]
                  ELSE [disp[d] EXCEPT !.st = AfterEmptyScan(d)]
  <2>1. disp' = [disp EXCEPT ![d] = r] /\ UNCHANGED <<bands, pub, published, dispatched, budget>>
        /\ disp[d].st = "scan"
    BY <1>1, <1>5 DEF SkipBand, flow, hist
  <2>2. /\ DOMAIN r = {"st", "drain", "band", "env", "todo"} /\ r.st \in {"scan", "done", "loop"}
        /\ r.band \in Bands /\ r.env = NoEvent
    BY <1>1, <2>1 DEF AfterEmptyScan
  <2> HIDE DEF r
  <2>3. HandsType' /\ Hands' = Hands
    <3>1. HandsType' /\ Hands' = Hands \ {d} /\ d \notin Hands
      BY <1>1, <2>1, <2>2, HandStep DEF States
    <3> QED BY <3>1
  <2> QED BY <1>2, <2>1, <2>3
<1>6. CASE SnapshotSubscribers(d)
  <2> DEFINE r == [disp[d] EXCEPT !.st = "deliver", !.todo = subscribers]
  <2>1. disp' = [disp EXCEPT ![d] = r] /\ UNCHANGED <<bands, pub, published, dispatched, budget>>
        /\ disp[d].st = "popped"
    BY <1>1, <1>6 DEF SnapshotSubscribers, flow, hist
  <2>2. DOMAIN r = {"st", "drain", "band", "env", "todo"} /\ r.st = "deliver" /\ r.band = disp[d].band
        /\ r.env = disp[d].env
    BY <1>1
  <2> HIDE DEF r
  <2>3. HandsType' /\ Hands' = Hands
    <3>1. HandsType' /\ Hands' = Hands \union {d} /\ d \in Hands
      BY <1>1, <2>1, <2>2, HandStep DEF States
    <3> QED BY <3>1
  <2> QED BY <1>2, <2>1, <2>3
<1>7. ASSUME NEW raises \in BOOLEAN, CallHandler(d, raises) PROVE FlowInv'
  <2> DEFINE r == [disp[d] EXCEPT !.todo = Rest(d, raises)]
  <2>1. disp' = [disp EXCEPT ![d] = r] /\ UNCHANGED <<bands, pub, published, dispatched, budget>>
        /\ disp[d].st = "deliver"
    BY <1>1, <1>7 DEF CallHandler
  <2>2. DOMAIN r = {"st", "drain", "band", "env", "todo"} /\ r.st = "deliver" /\ r.band = disp[d].band
        /\ r.env = disp[d].env
    BY <1>1, <2>1
  <2> HIDE DEF r
  <2>3. HandsType' /\ Hands' = Hands
    BY <1>1, <2>1, <2>2, HandStep, ZenonT(40) DEF States
  <2> QED BY <1>2, <2>1, <2>3
<1>8. CASE EndDispatch(d)
  <2> DEFINE r == [disp[d] EXCEPT !.st = IF disp[d].drain THEN "scan" ELSE "loop",
                                  !.band = 0, !.env = NoEvent]
  <2>1. disp' = [disp EXCEPT ![d] = r] /\ UNCHANGED <<bands, pub, published, budget>>
        /\ disp[d].st = "deliver" /\ dispatched' = dispatched + 1
    BY <1>1, <1>8 DEF EndDispatch, FirstBand, hist
  <2>2. /\ DOMAIN r = {"st", "drain", "band", "env", "todo"} /\ r.st \in {"scan", "loop"}
        /\ r.band = 0 /\ r.env = NoEvent
    BY <1>1
  <2> HIDE DEF r
  <2>3. HandsType' /\ Hands' = Hands \ {d} /\ d \in Hands
    BY <1>1, <2>1, <2>2, HandStep DEF States
  <2>4. d \notin Hands' /\ Hands = Hands' \union {d}
    BY <2>3
  <2>5. CountType' /\ Waiting' = Waiting /\ Pushed' = Pushed
    BY <2>1 DEF CountType, Waiting, Pushed
  <2> QED BY <2>1, <2>3, <2>4, <2>5, MoveKeepsFlow
<1> QED BY <1>3, <1>4, <1>5, <1>6, <1>7, <1>8 DEF Dispatch

LEMMA FlowStep == FlowInv /\ [Next]_vars => FlowInv'
<1> SUFFICES ASSUME FlowInv, [Next]_vars PROVE FlowInv'
  OBVIOUS
<1> USE DEF FlowInv
<1>1. ASSUME UNCHANGED <<bands, pub, published, dispatched, budget>>, HandsType', Hands' = Hands
      PROVE  FlowInv'
  <2>1. CountType' /\ Waiting' = Waiting /\ Pushed' = Pushed
    BY <1>1 DEF CountType, Waiting, Pushed
  <2> QED BY <1>1, <2>1, MoveKeepsFlow
<1>2. ASSUME UNCHANGED <<bands, pub, published, dispatched, budget, disp>> PROVE FlowInv'
  <2>1. HandsType' /\ Hands' = Hands
    BY <1>2 DEF HandsType, Hands, InHand
  <2> QED BY <1>1, <1>2, <2>1
<1>3. ASSUME NEW c \in Controllers, NEW d \in Dispatchers, StartSpawn(c, d) PROVE FlowInv'
  <2> DEFINE r == [disp[d] EXCEPT !.st = "loop"]
  <2>1. disp' = [disp EXCEPT ![d] = r] /\ UNCHANGED <<bands, pub, published, dispatched, budget>>
        /\ disp[d].st = "unborn"
    BY <1>3 DEF StartSpawn, flow, hist, HandsType
  <2>2. DOMAIN r = {"st", "drain", "band", "env", "todo"} /\ r.st = "loop" /\ r.band = disp[d].band
        /\ r.env = NoEvent /\ disp[d].band \in Bands
    BY <2>1 DEF HandsType
  <2>3. HandsType' /\ Hands' = Hands
    BY <2>1, <2>2, HandStep, ZenonT(40) DEF States
  <2> QED BY <1>1, <2>1, <2>3
<1>4. ASSUME NEW c \in Controllers, StartClaim(c) \/ StopClaim(c) \/ ExitSignal(c) \/ Control(c) PROVE FlowInv'
  BY <1>2, <1>3, <1>4 DEF StartClaim, StopClaim, ExitSignal, Control, StartClear, StartAssign,
     StopSignal, StopRead, ExitRead, Joined, flow, hist
<1>5. ASSUME NEW s \in Subs, Subscribe(s) \/ Unsubscribe(s) PROVE FlowInv'
  BY <1>2, <1>5 DEF Subscribe, Unsubscribe, flow, hist
<1>6. CASE UNCHANGED vars
  BY <1>2, <1>6 DEF vars, flow, hist
<1> QED BY <1>4, <1>5, <1>6, PushMoves, CountMoves, DispatchMoves DEF Next

LEMMA FlowStarts == Init => FlowInv
<1> SUFFICES ASSUME Init PROVE FlowInv
  OBVIOUS
<1>1. HandsType /\ Hands = {}
  BY BandZero DEF Init, HandsType, Unborn, States, Hands, InHand
<1>2. CountType /\ Pushed = {}
  BY BandZero DEF Init, CountType, Pushed
<1>3. published = Waiting
  BY DEF Init, Waiting
<1>4. Total(Waiting) \in Nat
  BY <1>2, WaitingIsNat, TotalsAreNat
<1>5. Balanced(published, Pushed, Waiting, Hands, dispatched)
  BY <1>1, <1>2, <1>3, <1>4, FS_EmptySet DEF Balanced, Init
<1> QED BY <1>1, <1>2, <1>5, AccountedIsBalanced DEF FlowInv

-----------------------------------------------------------------------------
(* Answers: every try_publish that came back is in one of two counters.    *)

Calling == {p \in Publishers : pub[p].pc # "idle"}
Calls == [p \in Publishers |-> pub[p].n]

OfferInv ==
  /\ pub \in [Publishers -> [n : Nat, pc : {"idle", "pushed", "full"}, band : Bands]]
  /\ published \in [Bands -> Nat] /\ dropped \in [Bands -> Nat]
  /\ Offered = Total(published) + Total(dropped) + Cardinality(Calling)

LEMMA OfferSteps ==
  ASSUME NEW p \in Publishers, OfferInv,
         PublishCount(p) \/ \E b \in Bands : PublishPush(p, b)
  PROVE  OfferInv'
<1> USE DEF OfferInv
<1>1. /\ IsFiniteSet(Publishers) /\ Calling \in SUBSET Publishers /\ Calling' \in SUBSET Publishers
      /\ pub[p].n \in Nat /\ pub[p].band \in Bands
  BY BusAssumption DEF Calling
<1>2. Calls \in [Publishers -> Nat] /\ Offered = Cardinality(Units(Calls, Publishers))
  BY DEF Calls, Offered
<1>3. /\ Total(published) \in Nat /\ Total(dropped) \in Nat
      /\ Cardinality(Calling) \in Nat /\ Cardinality(Calling') \in Nat
  BY <1>1, TotalsAreNat, FS_Subset, FS_CardinalityType
<1>4. ASSUME NEW b \in Bands, PublishPush(p, b) PROVE OfferInv'
  <2> DEFINE to == IF HasRoom(b) THEN "pushed" ELSE "full"
  <2>1. /\ pub' = [pub EXCEPT ![p] = [n |-> pub[p].n + 1, band |-> b, pc |-> to]]
        /\ pub[p].pc = "idle" /\ UNCHANGED <<published, dropped>>
    BY <1>4 DEF PublishPush, flow
  <2>2. to \in {"pushed", "full"} /\ to # "idle"
    OBVIOUS
  <2> HIDE DEF to
  <2>3. /\ pub' \in [Publishers -> [n : Nat, pc : {"idle", "pushed", "full"}, band : Bands]]
        /\ pub'[p].n = pub[p].n + 1 /\ pub'[p].pc = to /\ \A q \in Publishers : q # p => pub'[q] = pub[q]
    BY <1>1, <2>1, <2>2
  <2>4. /\ Calls' \in [Publishers -> Nat] /\ Calls'[p] = Calls[p] + 1
        /\ \A q \in Publishers : q # p => Calls'[q] = Calls[q]
    BY <2>3 DEF Calls
  <2>5. Offered' = Cardinality(Units(Calls', Publishers))
    BY DEF Calls, Offered
  <2>6. Offered' = Offered + 1
    BY <1>1, <1>2, <2>4, <2>5, OneUnitMore
  <2>7. p \notin Calling /\ Calling' = Calling \union {p}
    BY <2>1, <2>2, <2>3 DEF Calling
  <2>8. Cardinality(Calling') = Cardinality(Calling) + 1
    BY <1>1, <2>7, OneMember
  <2> QED BY <1>3, <2>1, <2>3, <2>6, <2>8 DEF Total
<1>5. CASE PublishCount(p)
  <2> DEFINE b == pub[p].band
  <2>1. /\ pub' = [pub EXCEPT ![p].pc = "idle"] /\ pub[p].pc # "idle"
        /\ \/ published' = [published EXCEPT ![b] = @ + 1] /\ dropped' = dropped
           \/ dropped' = [dropped EXCEPT ![b] = @ + 1] /\ published' = published
    BY <1>5 DEF PublishCount
  <2>2. /\ pub' \in [Publishers -> [n : Nat, pc : {"idle", "pushed", "full"}, band : Bands]]
        /\ pub'[p].n = pub[p].n /\ pub'[p].pc = "idle" /\ \A q \in Publishers : q # p => pub'[q] = pub[q]
    BY <2>1
  <2>3. Calls' = Calls /\ Offered' = Offered
    BY <2>2 DEF Calls, Offered
  <2>4. p \notin Calling' /\ Calling = Calling' \union {p}
    BY <2>1, <2>2 DEF Calling
  <2>5. Cardinality(Calling) = Cardinality(Calling') + 1
    BY <1>1, <2>4, OneMember
  <2>6. /\ published' \in [Bands -> Nat] /\ dropped' \in [Bands -> Nat]
        /\ Total(published') + Total(dropped') = Total(published) + Total(dropped) + 1
    <3>1. CASE published' = [published EXCEPT ![b] = @ + 1] /\ dropped' = dropped
      <4>1. /\ published' \in [Bands -> Nat] /\ published'[b] = published[b] + 1
            /\ \A a \in Bands : a # b => published'[a] = published[a]
        BY <1>1, <3>1
      <4>2. Total(published') = Total(published) + 1
        BY <1>1, <4>1, TotalsAreNat
      <4>3. Total(dropped') = Total(dropped) /\ dropped' \in [Bands -> Nat]
        BY <3>1, Zenon
      <4> QED BY <1>3, <4>1, <4>2, <4>3
    <3>2. CASE dropped' = [dropped EXCEPT ![b] = @ + 1] /\ published' = published
      <4>1. /\ dropped' \in [Bands -> Nat] /\ dropped'[b] = dropped[b] + 1
            /\ \A a \in Bands : a # b => dropped'[a] = dropped[a]
        BY <1>1, <3>2
      <4>2. Total(dropped') = Total(dropped) + 1
        BY <1>1, <4>1, TotalsAreNat
      <4>3. Total(published') = Total(published) /\ published' \in [Bands -> Nat]
        BY <3>2, Zenon
      <4> QED BY <1>3, <4>1, <4>2, <4>3
    <3> QED BY <2>1, <3>1, <3>2
  <2>7. Total(published)' = Total(published') /\ Total(dropped)' = Total(dropped')
    BY DEF Total
  <2>8. Total(published') \in Nat /\ Total(dropped') \in Nat
    BY <2>6, TotalsAreNat
  <2> QED BY <1>3, <2>2, <2>3, <2>5, <2>6, <2>7, <2>8
<1> QED BY <1>4, <1>5

LEMMA OfferStep == OfferInv /\ [Next]_vars => OfferInv'
<1> SUFFICES ASSUME OfferInv, [Next]_vars PROVE OfferInv'
  OBVIOUS
<1>1. ASSUME UNCHANGED <<pub, published, dropped>> PROVE OfferInv'
  BY <1>1 DEF OfferInv, Offered, Total, Calling
<1>2. ASSUME NEW d \in Dispatchers, Dispatch(d) PROVE OfferInv'
  BY <1>1, <1>2 DEF Dispatch, LoopTest, PopBand, SkipBand, SnapshotSubscribers, CallHandler, EndDispatch, flow
<1>3. ASSUME NEW c \in Controllers, StartClaim(c) \/ StopClaim(c) \/ ExitSignal(c) \/ Control(c) PROVE OfferInv'
  BY <1>1, <1>3 DEF StartClaim, StopClaim, ExitSignal, Control, StartClear, StartAssign, StartSpawn,
     StopSignal, StopRead, ExitRead, Joined, flow
<1>4. ASSUME NEW s \in Subs, Subscribe(s) \/ Unsubscribe(s) PROVE OfferInv'
  BY <1>1, <1>4 DEF Subscribe, Unsubscribe, flow
<1>5. CASE UNCHANGED vars
  BY <1>1, <1>5 DEF vars, flow
<1> QED BY <1>2, <1>3, <1>4, <1>5, OfferSteps DEF Next

LEMMA OfferStarts == Init => OfferInv
<1> SUFFICES ASSUME Init PROVE OfferInv
  OBVIOUS
<1>1. /\ pub \in [Publishers -> [n : Nat, pc : {"idle", "pushed", "full"}, band : Bands]]
      /\ published \in [Bands -> Nat] /\ dropped \in [Bands -> Nat]
      /\ \A b \in Bands : published[b] = 0 /\ dropped[b] = 0
      /\ \A p \in Publishers : Calls[p] = 0
  BY BandZero DEF Init, Calls
<1>2. ASSUME NEW S, NEW c, \A x \in S : c[x] = 0 PROVE Units(c, S) = {}
  BY <1>2 DEF Units
<1>3. Units(published, Bands) = {} /\ Units(dropped, Bands) = {} /\ Units(Calls, Publishers) = {}
  BY <1>1, <1>2
<1>4. Calling = {}
  BY DEF Init, Calling
<1>5. Cardinality({}) = 0
  BY FS_EmptySet
<1>6. Offered = 0 /\ Total(published) = 0 /\ Total(dropped) = 0 /\ Cardinality(Calling) = 0
  BY <1>3, <1>4, <1>5, Zenon DEF Offered, Total, Calls
<1> QED BY <1>1, <1>6 DEF OfferInv

(* For every number of bands, publishers, controllers and restarts: what   *)
(* was counted as published, or is about to be, is in a band, in a         *)
(* dispatcher's hand or was dispatched, and every call of try_publish that *)
(* came back is counted as published or as dropped.                        *)
THEOREM EveryEventIsAccounted == Spec => []EveryEventAccounted
<1>1. FlowInv /\ OfferInv => EveryEventAccounted
  BY DEF FlowInv, Carried, Pushed, Hands, OfferInv, Calling, EveryEventAccounted
<1> QED BY <1>1, FlowStarts, FlowStep, OfferStarts, OfferStep, PTL DEF Spec
-----------------------------------------------------------------------------
(* Delivery: the list that a dispatcher works off is one that was current  *)
(* once, and holds each subscription once.                                 *)

OnceEach(q) == q \in Seq(Subs) /\ IsInjective(q)

LEMMA ConsOnce ==
  ASSUME NEW q, OnceEach(q), NEW s \in Subs, s \notin Range(q)
  PROVE  OnceEach(<<s>> \o q) /\ Range(q) \subseteq Range(<<s>> \o q)
<1> DEFINE r == <<s>> \o q
<1>1. q \in Seq(Subs) /\ r \in Seq(Subs) /\ Len(q) \in Nat /\ DOMAIN q = 1 .. Len(q)
      /\ Len(r) = Len(q) + 1 /\ DOMAIN r = 1 .. Len(q) + 1
      /\ r[1] = s /\ \A i \in 1 .. Len(q) : r[i + 1] = q[i]
  BY DEF OnceEach
<1> HIDE DEF r
<1>2. \A i \in 1 .. Len(q) : q[i] # s
  BY <1>1 DEF Range
<1>3. \A i \in DOMAIN r : i = 1 \/ (i - 1 \in 1 .. Len(q) /\ r[i] = q[i - 1])
  BY <1>1
<1>4. IsInjective(r)
  <2> SUFFICES ASSUME NEW i \in DOMAIN r, NEW j \in DOMAIN r, r[i] = r[j] PROVE i = j
    BY DEF IsInjective
  <2>1. CASE i = 1 \/ j = 1
    BY <1>1, <1>2, <1>3, <2>1
  <2>2. CASE i # 1 /\ j # 1
    <3>1. q[i - 1] = q[j - 1] /\ i - 1 \in DOMAIN q /\ j - 1 \in DOMAIN q
      BY <1>1, <1>3, <2>2
    <3>2. i - 1 = j - 1
      BY <3>1 DEF OnceEach, IsInjective
    <3> QED BY <1>1, <3>2
  <2> QED BY <2>1, <2>2
<1>5. ASSUME NEW x \in Range(q) PROVE x \in Range(r)
  <2>1. PICK i \in 1 .. Len(q) : x = q[i]
    BY <1>1, <1>5 DEF Range
  <2>2. i + 1 \in DOMAIN r /\ r[i + 1] = x
    BY <1>1, <2>1
  <2> QED BY <2>2 DEF Range
<1> QED BY <1>1, <1>4, <1>5 DEF OnceEach, r

(* What a list is without its i-th element.                                *)
LEMMA RemoveAtElements ==
  ASSUME NEW q \in Seq(Subs), NEW i \in 1 .. Len(q)
  PROVE  /\ RemoveAt(q, i) \in Seq(Subs)
         /\ DOMAIN RemoveAt(q, i) = 1 .. Len(q) - 1
         /\ \A j \in 1 .. Len(q) - 1 : RemoveAt(q, i)[j] = q[IF j < i THEN j ELSE j + 1]
<1> DEFINE n == Len(q)
           a == SubSeq(q, 1, i - 1)
           b == SubSeq(q, i + 1, n)
<1>1. n \in Nat /\ i \in Nat /\ 1 <= i /\ i <= n
  OBVIOUS
<1>2. a \in Seq(Subs) /\ Len(a) = i - 1 /\ \A j \in 1 .. i - 1 : a[j] = q[j]
  <2>1. \A j \in 1 .. i - 1 : j \in 1 .. n
    BY <1>1
  <2> QED BY <1>1, <2>1, SubSeqProperties
<1>3. b \in Seq(Subs) /\ Len(b) = n - i /\ \A j \in 1 .. n - i : b[j] = q[j + i]
  <2>1. \A j \in i + 1 .. n : j \in 1 .. n
    BY <1>1
  <2> QED BY <1>1, <2>1, SubSeqProperties
<1> HIDE DEF a, b
<1>4. /\ a \o b \in Seq(Subs) /\ Len(a \o b) = n - 1
      /\ \A j \in 1 .. n - 1 : (a \o b)[j] = IF j <= i - 1 THEN a[j] ELSE b[j - (i - 1)]
  <2>1. Len(a) + Len(b) = n - 1
    BY <1>1, <1>2, <1>3
  <2>2. /\ a \o b \in Seq(Subs) /\ Len(a \o b) = Len(a) + Len(b)
        /\ \A j \in 1 .. Len(a) + Len(b) : (a \o b)[j] = IF j <= Len(a) THEN a[j] ELSE b[j - Len(a)]
    BY <1>2, <1>3, ConcatProperties
  <2> QED BY <1>2, <2>1, <2>2
<1>5. ASSUME NEW j \in 1 .. n - 1 PROVE (a \o b)[j] = q[IF j < i THEN j ELSE j + 1]
  <2>1. CASE j < i
    <3>1. j <= i - 1 /\ j \in 1 .. i - 1
      BY <1>1, <2>1
    <3> QED BY <1>2, <1>4, <2>1, <3>1
  <2>2. CASE ~(j < i)
    <3>1. j - (i - 1) \in 1 .. n - i /\ j - (i - 1) + i = j + 1 /\ ~(j <= i - 1)
      BY <1>1, <2>2
    <3> QED BY <1>3, <1>4, <2>2, <3>1
  <2> QED BY <2>1, <2>2
<1>6. RemoveAt(q, i) = a \o b
  BY DEF RemoveAt, a, b
<1>7. DOMAIN (a \o b) = 1 .. n - 1
  BY <1>4, LenProperties
<1> QED BY <1>4, <1>5, <1>6, <1>7

LEMMA RemoveOnce ==
  ASSUME NEW q, OnceEach(q), NEW i \in DOMAIN q
  PROVE  OnceEach(RemoveAt(q, i)) /\ Range(q) \ {q[i]} \subseteq Range(RemoveAt(q, i))
<1> DEFINE r == RemoveAt(q, i)
<1>1. q \in Seq(Subs) /\ Len(q) \in Nat /\ DOMAIN q = 1 .. Len(q) /\ i \in 1 .. Len(q)
  BY DEF OnceEach
<1>2. r \in Seq(Subs) /\ DOMAIN r = 1 .. Len(q) - 1
      /\ \A j \in 1 .. Len(q) - 1 : r[j] = q[IF j < i THEN j ELSE j + 1]
  BY <1>1, RemoveAtElements
<1> HIDE DEF r
<1>3. IsInjective(r)
  <2> SUFFICES ASSUME NEW j \in DOMAIN r, NEW k \in DOMAIN r, r[j] = r[k] PROVE j = k
    BY DEF IsInjective
  <2> DEFINE at(x) == IF x < i THEN x ELSE x + 1
  <2>1. at(j) \in DOMAIN q /\ at(k) \in DOMAIN q /\ q[at(j)] = q[at(k)]
    BY <1>1, <1>2
  <2>2. at(j) = at(k)
    <3> HIDE DEF at
    <3> QED BY <2>1 DEF OnceEach, IsInjective
  <2> QED BY <1>1, <1>2, <2>2
<1>4. ASSUME NEW x \in Range(q), x # q[i] PROVE x \in Range(r)
  <2>1. PICK j \in 1 .. Len(q) : x = q[j]
    BY <1>1, <1>4 DEF Range
  <2>2. CASE j < i
    <3>1. j \in DOMAIN r /\ r[j] = x
      BY <1>1, <1>2, <2>1, <2>2
    <3> QED BY <3>1 DEF Range
  <2>3. CASE j > i
    <3>1. j - 1 \in DOMAIN r /\ r[j - 1] = x
      BY <1>1, <1>2, <2>1, <2>3
    <3> QED BY <3>1 DEF Range
  <2> QED BY <1>1, <1>4, <2>1, <2>2, <2>3
<1> QED BY <1>2, <1>3, <1>4 DEF OnceEach, r

LEMMA TailOnce ==
  ASSUME NEW q, OnceEach(q), q # <<>>
  PROVE  /\ OnceEach(Tail(q)) /\ Head(q) \in Subs /\ Head(q) \in Range(q)
         /\ Range(Tail(q)) = Range(q) \ {Head(q)}
<1>1. /\ q \in Seq(Subs) /\ Len(q) \in Nat /\ Len(q) > 0 /\ DOMAIN q = 1 .. Len(q)
      /\ Tail(q) \in Seq(Subs) /\ DOMAIN Tail(q) = 1 .. Len(q) - 1
      /\ \A i \in 1 .. Len(q) - 1 : Tail(q)[i] = q[i + 1]
      /\ Head(q) = q[1] /\ Head(q) \in Subs
  BY DEF OnceEach
<1>2. \A i, j \in 1 .. Len(q) : q[i] = q[j] => i = j
  BY <1>1 DEF OnceEach, IsInjective
<1>3. IsInjective(Tail(q))
  <2> SUFFICES ASSUME NEW i \in 1 .. Len(q) - 1, NEW j \in 1 .. Len(q) - 1, Tail(q)[i] = Tail(q)[j]
               PROVE i = j
    BY <1>1 DEF IsInjective
  <2>1. i + 1 \in 1 .. Len(q) /\ j + 1 \in 1 .. Len(q) /\ q[i + 1] = q[j + 1]
    BY <1>1
  <2>2. i + 1 = j + 1
    BY <1>2, <2>1
  <2> QED BY <2>2
<1>4. ASSUME NEW x PROVE x \in Range(Tail(q)) <=> x \in Range(q) /\ x # Head(q)
  <2>1. ASSUME x \in Range(Tail(q)) PROVE x \in Range(q) /\ x # Head(q)
    <3>1. PICK i \in 1 .. Len(q) - 1 : x = q[i + 1]
      BY <1>1, <2>1 DEF Range
    <3>2. i + 1 \in 1 .. Len(q) /\ 1 \in 1 .. Len(q) /\ i + 1 # 1
      BY <1>1
    <3> QED BY <1>1, <1>2, <3>1, <3>2 DEF Range
  <2>2. ASSUME x \in Range(q), x # Head(q) PROVE x \in Range(Tail(q))
    <3>1. PICK i \in 1 .. Len(q) : x = q[i]
      BY <1>1, <2>2 DEF Range
    <3>2. i - 1 \in 1 .. Len(q) - 1 /\ Tail(q)[i - 1] = x
      BY <1>1, <2>2, <3>1
    <3> QED BY <1>1, <3>2 DEF Range
  <2> QED BY <2>1, <2>2
<1>5. Head(q) \in Range(q)
  BY <1>1 DEF Range
<1> QED BY <1>1, <1>3, <1>4, <1>5 DEF OnceEach
Everywhere == {s \in Range(Permanent) : Wants[s] = Bands}

(* The subscriptions that want everything have been called for each event  *)
(* dispatched, and by each dispatcher at work whose list they left already. *)
Called(s) == {d \in Dispatchers : disp[d].st = "deliver" /\ s \notin Range(disp[d].todo)}
HandedOut == \A s \in Everywhere : Len(log[s]) = dispatched + Cardinality(Called(s))

ListsOK ==
  /\ OnceEach(subscribers) /\ Range(Permanent) \subseteq Range(subscribers)
  /\ \A d \in Dispatchers : disp[d].st = "deliver" => OnceEach(disp[d].todo)
  /\ log \in [Subs -> Seq(Events)]

DeliveryInv == ListsOK /\ HandedOut

LEMMA EverywhereWants ==
  ASSUME NEW s \in Everywhere
  PROVE  s \in Subs /\ Wants[s] = Bands /\ s \in Range(Permanent)
BY BusAssumption DEF Everywhere, Range

(* A step that delivers nothing leaves what was handed out.                *)
LEMMA DeliveryStays ==
  ASSUME DeliveryInv, HandsType, HandsType', UNCHANGED <<subscribers, log, dispatched>>,
         \A d \in Dispatchers : disp'[d].st = "deliver" <=> disp[d].st = "deliver",
         \A d \in Dispatchers : disp'[d].st = "deliver" => disp'[d].todo = disp[d].todo
  PROVE  DeliveryInv'
<1>1. ListsOK'
  BY DEF DeliveryInv, ListsOK
<1>2. \A s \in Everywhere : Called(s)' = Called(s)
  BY DEF Called
<1>3. HandedOut'
  BY <1>2 DEF DeliveryInv, HandedOut
<1> QED BY <1>1, <1>3 DEF DeliveryInv

LEMMA CalledIsFinite ==
  ASSUME NEW s
  PROVE  /\ Called(s) \in SUBSET Dispatchers /\ Called(s)' \in SUBSET Dispatchers
         /\ Cardinality(Called(s)) \in Nat /\ Cardinality(Called(s)') \in Nat
<1>1. Called(s) \in SUBSET Dispatchers /\ Called(s)' \in SUBSET Dispatchers
  BY DEF Called
<1> QED BY <1>1, ActorsAreFinite, FS_Subset, FS_CardinalityType

LEMMA CallHandlerDelivers ==
  ASSUME DeliveryInv, HandsType, HandsType', dispatched \in Nat,
         NEW d \in Dispatchers, NEW raises \in BOOLEAN, CallHandler(d, raises)
  PROVE  DeliveryInv'
<1> USE DEF DeliveryInv
<1> DEFINE s0 == Head(disp[d].todo)
           e == disp[d].env
           matches == e.band \in Wants[s0]
<1>1. /\ disp[d].st = "deliver" /\ disp[d].todo # <<>>
      /\ log' = IF matches THEN [log EXCEPT ![s0] = Append(@, e)] ELSE log
      /\ disp'[d].st = "deliver" /\ disp'[d].todo = Tail(disp[d].todo)
      /\ \A f \in Dispatchers : f # d => disp'[f] = disp[f]
      /\ UNCHANGED <<subscribers, dispatched>>
  BY DEF CallHandler, Rest, HandsType
<1>2. /\ OnceEach(Tail(disp[d].todo)) /\ s0 \in Subs /\ s0 \in Range(disp[d].todo)
      /\ Range(Tail(disp[d].todo)) = Range(disp[d].todo) \ {s0}
  BY <1>1, TailOnce DEF ListsOK
<1>4. e \in Events /\ e.band \in Bands
  BY <1>1 DEF HandsType, Events
<1>5. ListsOK'
  <2>1. log' \in [Subs -> Seq(Events)]
    BY <1>1, <1>2, <1>4 DEF ListsOK
  <2>2. \A f \in Dispatchers : disp'[f].st = "deliver" => OnceEach(disp'[f].todo)
    BY <1>1, <1>2 DEF ListsOK
  <2> QED BY <1>1, <2>1, <2>2 DEF ListsOK
<1>7. ASSUME NEW s \in Everywhere
      PROVE  Len(log'[s]) = dispatched' + Cardinality(Called(s)')
  <2>1. s \in Subs /\ Wants[s] = Bands /\ log[s] \in Seq(Events)
    BY EverywhereWants DEF ListsOK
  <2>2. Len(log[s]) = dispatched + Cardinality(Called(s))
    BY DEF HandedOut
  <2>3. CASE s = s0
    <3>1. log'[s] = Append(log[s], e)
      BY <1>1, <1>4, <2>1, <2>3 DEF ListsOK
    <3>2. Len(log'[s]) = Len(log[s]) + 1
      BY <1>4, <2>1, <3>1, AppendProperties
    <3>3. d \notin Called(s) /\ Called(s)' = Called(s) \union {d}
      BY <1>1, <1>2, <2>3 DEF Called
    <3>4. Cardinality(Called(s)') = Cardinality(Called(s)) + 1
      BY <3>3, CalledIsFinite, ActorsAreFinite, OneMember
    <3> QED BY <1>1, <2>2, <3>2, <3>4, CalledIsFinite
  <2>4. CASE s # s0
    <3>1. log'[s] = log[s]
      BY <1>1, <2>1, <2>4 DEF ListsOK
    <3>2. Called(s)' = Called(s)
      BY <1>1, <1>2, <2>4 DEF Called
    <3> QED BY <1>1, <2>2, <3>1, <3>2
  <2> QED BY <2>3, <2>4
<1>8. HandedOut'
  BY <1>7 DEF HandedOut
<1> QED BY <1>5, <1>8

LEMMA SnapshotDelivers ==
  ASSUME DeliveryInv, HandsType, HandsType',
         NEW d \in Dispatchers, SnapshotSubscribers(d)
  PROVE  DeliveryInv'
<1> USE DEF DeliveryInv
<1>1. /\ disp[d].st = "popped" /\ disp'[d].st = "deliver" /\ disp'[d].todo = subscribers
      /\ \A f \in Dispatchers : f # d => disp'[f] = disp[f]
      /\ UNCHANGED <<subscribers, dispatched, log>>
  BY DEF SnapshotSubscribers, HandsType, flow, hist
<1>2. ListsOK'
  BY <1>1 DEF ListsOK
<1>3. ASSUME NEW s \in Everywhere PROVE Called(s)' = Called(s)
  BY <1>1, EverywhereWants DEF ListsOK, Called
<1>4. HandedOut'
  BY <1>1, <1>3 DEF HandedOut
<1> QED BY <1>2, <1>4

LEMMA EndDispatchDelivers ==
  ASSUME DeliveryInv, HandsType, HandsType', dispatched \in Nat,
         NEW d \in Dispatchers, EndDispatch(d)
  PROVE  DeliveryInv'
<1> USE DEF DeliveryInv
<1>1. /\ disp[d].st = "deliver" /\ disp[d].todo = <<>> /\ disp'[d].st # "deliver"
      /\ \A f \in Dispatchers : f # d => disp'[f] = disp[f]
      /\ UNCHANGED <<subscribers, log>> /\ dispatched' = dispatched + 1
  BY DEF EndDispatch, HandsType, hist
<1>2. ListsOK'
  BY <1>1 DEF ListsOK
<1>3. Range(disp[d].todo) = {}
  BY <1>1 DEF Range
<1>4. ASSUME NEW s \in Everywhere PROVE Len(log'[s]) = dispatched' + Cardinality(Called(s)')
  <2>1. d \notin Called(s)' /\ Called(s) = Called(s)' \union {d}
    BY <1>1, <1>3 DEF Called
  <2>2. Cardinality(Called(s)) = Cardinality(Called(s)') + 1
    BY <2>1, CalledIsFinite, ActorsAreFinite, OneMember
  <2>3. Len(log[s]) = dispatched + Cardinality(Called(s))
    BY DEF HandedOut
  <2> QED BY <1>1, <2>2, <2>3, CalledIsFinite
<1>5. HandedOut'
  BY <1>4 DEF HandedOut
<1> QED BY <1>2, <1>5

LEMMA ListsChange ==
  ASSUME DeliveryInv, NEW s \in Subs, Subscribe(s) \/ Unsubscribe(s)
  PROVE  DeliveryInv'
<1> USE DEF DeliveryInv
<1>1. UNCHANGED <<disp, log, dispatched>> /\ HandedOut'
  BY DEF Subscribe, Unsubscribe, flow, hist, HandedOut, Called
<1>2. OnceEach(subscribers') /\ Range(Permanent) \subseteq Range(subscribers')
  <2>1. CASE Subscribe(s)
    <3>1. s \notin Range(subscribers)
      <4>1. DOMAIN subscribers = 1 .. Len(subscribers)
        BY DEF ListsOK, OnceEach
      <4>2. \A i \in 1 .. Len(subscribers) : subscribers[i] # s
        BY <2>1 DEF Subscribe, Contains
      <4> QED BY <4>1, <4>2 DEF Range
    <3> QED BY <2>1, <3>1, ConsOnce DEF Subscribe, ListsOK
  <2>2. CASE Unsubscribe(s)
    <3>1. PICK i \in DOMAIN subscribers : subscribers[i] = s /\ subscribers' = RemoveAt(subscribers, i)
      BY <2>2 DEF Unsubscribe
    <3>2. s \notin Range(Permanent)
      BY <2>2, BusAssumption DEF Unsubscribe, Contains, Range
    <3>3. OnceEach(subscribers') /\ Range(subscribers) \ {s} \subseteq Range(subscribers')
      BY <3>1, RemoveOnce DEF ListsOK
    <3> QED BY <3>2, <3>3 DEF ListsOK
  <2> QED BY <2>1, <2>2
<1> QED BY <1>1, <1>2 DEF ListsOK

LEMMA DeliveryStep ==
  ASSUME DeliveryInv, FlowInv, [Next]_vars
  PROVE  DeliveryInv'
<1>1. HandsType /\ HandsType' /\ dispatched \in Nat
  BY FlowStep DEF FlowInv, CountType
<1>2. ASSUME UNCHANGED <<disp, subscribers, log, dispatched>> PROVE DeliveryInv'
  BY <1>1, <1>2, DeliveryStays
<1>3. ASSUME NEW p \in Publishers, PublishCount(p) \/ \E b \in Bands : PublishPush(p, b) PROVE DeliveryInv'
  BY <1>2, <1>3 DEF PublishCount, PublishPush, flow, hist
<1>4. ASSUME NEW d \in Dispatchers, LoopTest(d) \/ PopBand(d) \/ SkipBand(d) PROVE DeliveryInv'
  <2>1. /\ disp[d].st # "deliver" /\ disp'[d].st # "deliver"
        /\ \A f \in Dispatchers : f # d => disp'[f] = disp[f]
    BY <1>1, <1>4 DEF LoopTest, PopBand, SkipBand, AfterTest, AfterEmptyScan, HandsType
  <2>2. UNCHANGED <<subscribers, log, dispatched>>
    BY <1>4 DEF LoopTest, PopBand, SkipBand, flow, hist
  <2> QED BY <1>1, <2>1, <2>2, DeliveryStays
<1>5. ASSUME NEW d \in Dispatchers, Dispatch(d) PROVE DeliveryInv'
  BY <1>1, <1>4, <1>5, SnapshotDelivers, CallHandlerDelivers, EndDispatchDelivers DEF Dispatch
<1>6. ASSUME NEW c \in Controllers, NEW d \in Dispatchers, StartSpawn(c, d) PROVE DeliveryInv'
  <2>1. /\ disp[d].st # "deliver" /\ disp'[d].st # "deliver"
        /\ \A f \in Dispatchers : f # d => disp'[f] = disp[f]
    BY <1>1, <1>6 DEF StartSpawn, HandsType
  <2>2. UNCHANGED <<subscribers, log, dispatched>>
    BY <1>6 DEF StartSpawn, flow, hist
  <2> QED BY <1>1, <2>1, <2>2, DeliveryStays
<1>7. ASSUME NEW c \in Controllers, StartClaim(c) \/ StopClaim(c) \/ ExitSignal(c) \/ Control(c) PROVE DeliveryInv'
  BY <1>2, <1>6, <1>7 DEF StartClaim, StopClaim, ExitSignal, Control, StartClear, StartAssign,
     StopSignal, StopRead, ExitRead, Joined, flow, hist
<1>8. CASE UNCHANGED vars
  BY <1>2, <1>8 DEF vars, flow, hist
<1> QED BY <1>3, <1>5, <1>7, <1>8, ListsChange DEF Next

LEMMA DeliveryStarts == Init => DeliveryInv
<1> SUFFICES ASSUME Init PROVE DeliveryInv
  OBVIOUS
<1>1. \A d \in Dispatchers : disp[d].st # "deliver"
  BY DEF Init, Unborn
<1>2. ListsOK
  BY <1>1, BusAssumption DEF Init, ListsOK, OnceEach
<1>3. ASSUME NEW s \in Everywhere PROVE Len(log[s]) = dispatched + Cardinality(Called(s))
  <2>1. Called(s) = {}
    BY <1>1 DEF Called
  <2>2. Len(log[s]) = 0 /\ dispatched = 0
    BY EverywhereWants DEF Init
  <2> QED BY <2>1, <2>2, FS_EmptySet
<1> QED BY <1>2, <1>3 DEF DeliveryInv, HandedOut

(* For every number of bands, subscriptions, callers and restarts: a       *)
(* subscription that was there before the first event and wants everything *)
(* is handed each dispatched event once, whatever others raise, come or    *)
(* go, and whichever dispatchers work side by side.                        *)
THEOREM PermanentNeverMiss == Spec => []PermanentMissNothing
<1>1. ASSUME DeliveryInv, FlowInv PROVE PermanentMissNothing
  <2> SUFFICES ASSUME NEW s \in Range(Permanent), Wants[s] = Bands, ~Delivering
               PROVE  Len(log[s]) = dispatched
    BY DEF PermanentMissNothing
  <2>1. s \in Everywhere /\ Called(s) = {}
    BY DEF Everywhere, Called, Delivering
  <2>2. Cardinality(Called(s)) = 0 /\ dispatched \in Nat
    BY <1>1, <2>1, FS_EmptySet DEF FlowInv, CountType
  <2>3. Len(log[s]) = dispatched + Cardinality(Called(s))
    BY <1>1, <2>1 DEF DeliveryInv, HandedOut
  <2> QED BY <2>2, <2>3
<1>2. DeliveryInv /\ FlowInv /\ [Next]_vars => DeliveryInv'
  BY DeliveryStep
<1>3. Spec => []FlowInv
  BY FlowStarts, FlowStep, PTL DEF Spec
<1> QED BY <1>1, <1>2, <1>3, DeliveryStarts, PTL DEF Spec
=============================================================================
