------------------------------ MODULE MCStorage ------------------------------
(***************************************************************************)
(* Storage on small tables.  The ids are interchangeable: no operation     *)
(* orders them.                                                            *)
(***************************************************************************)
EXTENDS StorageTwin, TLC

IdSymmetry ==
  Permutations(MeetingIds) \cup Permutations(NoteIds) \cup Permutations(DirPaths)
    \cup Permutations(SpaceIds) \cup Permutations(ProjectIds)
    \cup Permutations(TagIds) \cup Permutations(TagNames)
=============================================================================
