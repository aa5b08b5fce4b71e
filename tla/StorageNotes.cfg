\* Notes and tags on meetings; no spaces.
SPECIFICATION TwinSpec
CONSTANTS
  MeetingIds = {m1, m2}
  NoteIds = {n1, n2}
  DirPaths = {d1, d2}
  SpaceIds = {}
  ProjectIds = {}
  TagIds = {t1, t2}
  TagNames = {x, y}
  Callers = {c1, c2}
  None = None
SYMMETRY IdSymmetry
INVARIANTS ReferentialIntegrity TwinsAgree
PROPERTY FailedCallChangesNothing
