\* Two flows about one meeting or two, one after the other or at once; a buffer of one event.
SPECIFICATION Spec
CONSTANTS
  MaxFlows = 2
  Meetings = {m1, m2}
  None = None
  maxBufferSize = 1
SYMMETRY Symmetry
ACTION_CONSTRAINT CrossOverStillStream
INVARIANTS ProcessingMarksNoOtherMeeting NoLostWakeup WatchedWhileWorking
\* Every flow has been used.
CHECK_DEADLOCK FALSE
