\* Both builds.  Everything stops when the process is gone.
SPECIFICATION FairSpec
CONSTANTS
  Builds = {TRUE, FALSE}
  MaxLines = 3
CHECK_DEADLOCK FALSE
INVARIANTS
  WindowsExclusion
  NoLineLost
PROPERTIES
  ShutdownCommandWorks
  ShutdownCompletes
