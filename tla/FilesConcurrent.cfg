\* Three overlapping requests, any of them of any kind.
SPECIFICATION Spec
CONSTANTS
  Meetings = {m1, m2}
  Calls = {c1, c2, c3}
  None = None
  Empty = Empty
  Torn = Torn
  MaxInFlight = 3
SYMMETRY Symmetry
INVARIANTS RowHasDirectory StrayDirectoriesExplained NotesTornOnlyByExport VideoFreedOnce
\* Every request has been answered.
CHECK_DEADLOCK FALSE
