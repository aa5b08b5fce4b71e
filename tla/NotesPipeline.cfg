\* Up to three segments in up to three sections; prompts of up to five units.
SPECIFICATION PipelineSpec
CONSTANTS
  Shapes <- MCShapes
  MaxSegments = 3
  MaxShots = 2
  Speakers = {"you", "r1"}
  None = None
  topic_gap_ms = 2
  min_section_ms = 2
  ShareInv = 10
  SECTION_CHUNK_THRESHOLD_CHARS = 5
  SECTION_CHUNK_TARGET_CHARS = 2
  SPLIT_GAP_THRESHOLD_MS = 1
  NarrativeOverhead = 2
  MergeOverhead = 2
  SummarySizes = {1, 2}
CHECK_DEADLOCK FALSE
INVARIANTS NotesComplete PromptsFit NotesHonest
PROPERTY GenerateReturns
