------------------------------ MODULE MCFeeds ------------------------------
(* The feed and its host.  Most of the data goes by in a process that only *)
(* starts and stops it; the others start two hosts one after the other, or *)
(* publish the counters beside another fiber.                              *)
EXTENDS Ingestion

Own == "ingestion"
T(f, o, e) == [frames |-> f, outages |-> o, endpoint |-> e]
Start(h) == [call |-> "start", host |-> h]
Stop(h) == [call |-> "stop", host |-> h]
P(calls, own) == [calls |-> calls, fibers |-> [h \in {Own, "other"} |-> IF h = Own THEN own ELSE {"api"}]]

Alone == P(<<Start(Own), Stop(Own)>>, {"connectors"})
Observed == P(<<Start(Own), Stop(Own), Stop(Own)>>, {"connectors", "stats"})
Second == P(<<Start("other"), Start(Own), Stop("other"), Start(Own), Start(Own), Stop(Own)>>, {"connectors", "stats", "api"})
Third == P(<<Stop("other"), Start(Own), Stop(Own), Stop("other")>>, {"connectors", "stats", "api"})

AllPrograms == {Alone, Observed, Second, Third}
AllTrials == {T(3, 1, TRUE), T(2, 0, TRUE), T(0, 3, TRUE), T(0, 0, TRUE), T(0, 0, FALSE)}
AllScenarios == {<<T(3, 1, TRUE), Alone>>, <<T(0, 3, TRUE), Alone>>, <<T(2, 0, TRUE), Observed>>,
                 <<T(0, 0, TRUE), Second>>, <<T(0, 0, FALSE), Third>>}
OneGap == {<<T(2, 0, TRUE), Observed>>}
=============================================================================
