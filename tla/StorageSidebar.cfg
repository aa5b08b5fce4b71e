\* Spaces, projects and the meetings filed under them; no tags, no notes.
SPECIFICATION TwinSpec
CONSTANTS
  MeetingIds = {m1, m2}
  NoteIds = {}
  DirPaths = {d1, d2}
  SpaceIds = {s1, s2, s3}
  ProjectIds = {p1, p2}
  TagIds = {}
  TagNames = {}
  Callers = {c1}
  None = None
SYMMETRY IdSymmetry
INVARIANTS ReferentialIntegrity ProjectInItsSpace SidebarPartition DistinctPositions TwinsAgree
