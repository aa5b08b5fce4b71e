--------------------------- MODULE MCMeetingFiles ---------------------------
EXTENDS MeetingFiles, TLC

\* Meetings are interchangeable, and so are the calls and their texts.
Symmetry == Permutations(Meetings) \cup Permutations(Calls)
=============================================================================
