---------------------------- MODULE MCNotesClient ----------------------------
EXTENDS NotesClient, TLC

\* Meetings are interchangeable; flows are used in order.
Symmetry == Permutations(Meetings)

\* Bound: while flows have crossed the connection neither opens nor drops by itself,
\* and a stop of the event stream that was spawned runs before anything else.
CrossOverStillStream ==
  /\ crossed /\ stopping => ~ stopping'
  /\ crossed' => live' = live \/ stopping
=============================================================================
