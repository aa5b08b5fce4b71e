\* Three calls in flight at once.
SPECIFICATION Spec
CONSTANTS
  Meetings = {m1, m2}
  Calls = {c1, c2, c3}
  AutoChoices = {FALSE}
  None = None
SYMMETRY Symmetry
INVARIANT NoOrphanCapture
PROPERTY CaptureEndsOnlyByItsStop
