------------------------------- MODULE MCQueues -------------------------------
(* TLC instances of the two queues of data_structures.ml.                  *)
(*                                                                         *)
(* SPSCQueue under its users, the processors, on a ring of four slots: one *)
(* set-up sends many ticks so that the ring's indexes wrap, the others few *)
(* ticks of several symbols and times, before 1970 too.                    *)
(*                                                                         *)
(* RingBuffer under one producer with enough pushes to wrap its indexes    *)
(* twice, and under two producers and two consumers racing for a slot.     *)
(* Either the processor or the ring is at work, never both.                *)
EXTENDS Queues, TLC

CONSTANTS x, y, p1, p2, c1, c2

T(s, ts, p) == [sym |-> s, ts |-> ts, price |-> p]
S(kind, ts, n, k) == [kind |-> kind, ticks |-> ts, max |-> n, keys |-> k]

TwoBars == {T(x, 1, 1), T(x, 2, 2)}
Bars == {T(x, -1, 1), T(x, 1, 1), T(x, 2, 2), T(y, 1, 1), T(y, 3, 1)}
Legs == {T(x, 1, 1), T(x, 3, 1), T(y, 2, 1), T(y, 4, 1)}

AllTicks == TwoBars \union Bars \union Legs
AllSetups == {S("bars", TwoBars, 5, 2), S("bars", Bars, 3, 3),
              S("analytics", Legs \ {T(y, 4, 1)}, 3, 1), S("pairs", Legs, 3, 2)}
OneTwo == <<1, 2>>

NoOne == [push |-> p1 :> 0 @@ p2 :> 0, poll |-> {}]
Alone == [push |-> p1 :> 9 @@ p2 :> 0, poll |-> {c1}]
Crowd == [push |-> p1 :> 1 @@ p2 :> 1, poll |-> {c1, c2}]

Pushers == {p1, p2}
Pollers == {c1, c2}
Users == {NoOne, Alone, Crowd}

ASSUME Ring!RingAssumption

OneProcessor == CHOOSE s \in AllSetups : s.max = 5

QueuesInit == ProcInit /\ Ring!Init /\ (rSetup = NoOne \/ setup = OneProcessor)

slotVars == <<rBuffer, rHead, rTail, rPc, rAt, rItem, rCalls, rPushed, rPopped, rSent, rGot, rSetup>>
Processing(A) == rSetup = NoOne /\ A /\ UNCHANGED slotVars

QueuesNext == Processing(ProcNext) \/ (Ring!Next /\ UNCHANGED procVars)

allVars == <<procVars, slotVars>>
QueuesSpec == /\ QueuesInit /\ [][QueuesNext]_allVars
              /\ WF_allVars(Processing(Drain))
              /\ WF_allVars(Processing(Unsubscribe \/ SetStopFlag \/ Join))
=============================================================================
