\* Two resources and two timers, with ids for both or for one only, a clock that
\* starts over every four ticks, both widths of unsigned long.  After undefined
\* behaviour nothing more is said.
SPECIFICATION FairSpec
CONSTANTS
  MaxResources = 2
  MaxTimers = 2
  Ids = {1, 2}
  Intervals = {2}
  Repeats = {0, 2}
  Wrap = 4
  MaxStep = 2
  Builds = {TRUE, FALSE}
  MaxActs = 3
CHECK_DEADLOCK FALSE
INVARIANTS
  TimersConsistent
  FaultsExplained
PROPERTIES
  RunsLiveOnce
  IntervalPasses
  TimersRun
