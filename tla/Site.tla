-------------------------------- MODULE Site --------------------------------
(***************************************************************************)
(* The published site in one tab of a browser: the dashboard, the page of  *)
(* benchmarks and a guide, one of them open at a time.  Closing a page     *)
(* ends its timers, requests and listeners; the key in sessionStorage and  *)
(* the daemon outlive it.                                                  *)
(***************************************************************************)
EXTENDS Dashboard, BenchPage, GuideNav

VARIABLE page      \* the open page, or ""

siteVars == <<vars, benchVars, guideVars, page>>

(* All of the dashboard's state, and the daemon's, but the bounds. *)
dashRest == <<setup, up, lifecycle, key, visits, canControl, labels, polling, charts, calls, comparing, gone>>

Opens(p) == page = "" /\ p \in setup.pages /\ page' = p
Closes(p) == page = p /\ left.loads > 0 /\ page' = ""

OpenADashboard == Opens("dashboard") /\ Load /\ UNCHANGED <<benchVars, guideVars>>
LeaveADashboard == Closes("dashboard") /\ Leave /\ UNCHANGED <<benchVars, guideVars>>

OpenTheBenchmarks ==
  Opens("bench") /\ Spend("loads") /\ OpenBench /\ UNCHANGED <<dashRest, guideVars>>
LeaveTheBenchmarks == Closes("bench") /\ CloseBench /\ UNCHANGED <<vars, guideVars>>

OpenAGuide == Opens("guide") /\ Spend("loads") /\ OpenGuide /\ UNCHANGED <<dashRest, benchVars>>
LeaveAGuide == Closes("guide") /\ CloseGuide /\ UNCHANGED <<vars, benchVars>>

SiteInit == DashInit /\ BenchInit /\ GuideInit /\ page = ""

SiteNext ==
  \/ OpenADashboard \/ LeaveADashboard
  \/ OpenTheBenchmarks \/ LeaveTheBenchmarks
  \/ OpenAGuide \/ LeaveAGuide
  \/ DashStep /\ UNCHANGED <<benchVars, guideVars, page>>
  \/ page = "bench" /\ BenchStep /\ UNCHANGED <<vars, guideVars, page>>
  \/ page = "guide" /\ GuideStep /\ UNCHANGED <<vars, benchVars, page>>

(* A browser paints the frames it was asked for. *)
SiteSpec == SiteInit /\ [][SiteNext]_siteVars /\ DashFairness /\ WF_guideVars(Paint)
=============================================================================
