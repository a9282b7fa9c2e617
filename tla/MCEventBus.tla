----------------------------- MODULE MCEventBus -----------------------------
(* TLC instances of EventBus: two bands; one subscription that is there from *)
(* the start and wants everything, one that comes and goes.                  *)
EXTENDS EventBus, TLC

CONSTANTS s1, s2, c1, c2

FirstSub == <<s1>>
WantsAll == s1 :> {0, 1} @@ s2 :> {0}
WantsFirst == s1 :> {0}

(* Many events with one caller; a restart with one; then two callers whose *)
(* calls cross, with an event, and over a restart with none.               *)
BusyRestartedOrCrossed ==
  {[publish |-> 3, starts |-> 1, callers |-> {c1}], [publish |-> 1, starts |-> 2, callers |-> {c1}],
   [publish |-> 1, starts |-> 1, callers |-> {c1, c2}], [publish |-> 0, starts |-> 2, callers |-> {c1, c2}]}
OneStartTwoCallers == {[publish |-> 0, starts |-> 1, callers |-> {c1, c2}]}
=============================================================================
