CONSTANTS
 NaN = NaN
 Null = Null
 NoKey = NoKey
 full = full
 reader = reader
 wrong = wrong
 Keys = {full, reader, wrong}
 Accepted = {full, reader}
 Controllers = {full}
 Cap = 2
 Tries = 2
 MaxVisits = 3
 Sla = 5
 Rows = 3
 Spacing = 4
 Setups <- Explored
 Sections <- KnownSections
 Fallback = "Core Microbenchmarks"
 Histories <- Recorded
 Tops <- GuideTops
 DocHeight = 10
 Viewports = {4, 6}
 Probe = 1
 Slack = 0
CHECK_DEADLOCK FALSE
SPECIFICATION SiteSpec
INVARIANTS
 TicketsAreSpentOnce
 ControlsMatchTheKey
 ChartsKeepScale
 TablesTellTheBook
 BenchTellsTheRecord
PROPERTIES
 AsksForAKey
 NeverADeadPage
 HighlightCatchesUp
