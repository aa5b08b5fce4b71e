\* Two jobs for one permit, a subscriber that a ring of two events overruns.
SPECIFICATION FairSpec
CONSTANTS
  Jobs = {j1, j2}
  Subscribers = {s1}
  MAX_CONCURRENT_NOTES_JOBS = 1
  EVENT_CHANNEL_CAPACITY = 2
  MaxRegions = 1
INVARIANTS PermitsConserved OneTerminalEventLast TerminalEventAccounted
PROPERTIES ImplementsService ListenersLearnTheOutcome
\* Every job over and no new one submitted: the engine idles.
CHECK_DEADLOCK FALSE
