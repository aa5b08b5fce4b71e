SPECIFICATION AppSpec
CONSTANTS
  Meetings = {m1, m2}
  app = c1
  Calls = {c1}
  AutoChoices = {TRUE, FALSE}
  None = None
INVARIANTS AppShowsCapture AutoNotesHonoured
