\* One unit is the shortest region a cut may leave; a region of four
\* units can be cut to the depth limit and still be long enough to be cut again.
SPECIFICATION Spec
CONSTANTS
  MIN_REGION_MS = 1
  MAX_DEPTH = 2
  MAX_AUTO_SPLIT_MS = 3
  GapMs = 1
  MinorShare = 3
  Length <- MCLength
  MaxRegions = 2
  MaxPieces = 2
  MaxTurns = 2
  Nobody = Nobody
CHECK_DEADLOCK FALSE
INVARIANTS SpeechTranscribedOnce TranscriptOrdered LocalSpeakerIsTheMic
