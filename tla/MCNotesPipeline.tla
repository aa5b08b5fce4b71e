--------------------------- MODULE MCNotesPipeline ---------------------------
EXTENDS NotesPipeline

\* A long turn that others speak over, short ones, one after a silence, one
\* without a speaker, an empty one (cut off at its region's end) and one that
\* does not fit a prompt.
MCShapes ==
  {[step |-> 1, len |-> 3, speaker |-> "you", size |-> 1],
   [step |-> 1, len |-> 1, speaker |-> "r1", size |-> 1],
   [step |-> 4, len |-> 1, speaker |-> "r1", size |-> 2],
   [step |-> 4, len |-> 3, speaker |-> None, size |-> 2],
   [step |-> 1, len |-> 0, speaker |-> "you", size |-> 1],
   [step |-> 4, len |-> 3, speaker |-> "you", size |-> 4]}

=============================================================================
