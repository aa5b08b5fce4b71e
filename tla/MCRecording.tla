----------------------------- MODULE MCRecording -----------------------------
EXTENDS Recording, TLC

\* Meetings are interchangeable, and so are the calls.
Symmetry == Permutations(Meetings) \cup Permutations(Calls)
=============================================================================
