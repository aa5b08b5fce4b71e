---------------------------- MODULE NotesService ----------------------------
(***************************************************************************)
(* What ipc.notes.generate promises its callers (docs/proto/ipc.md): a job *)
(* id at once, and later exactly one outcome, job.done or job.error, which *)
(* never changes.  NotesJobs is shown to implement it.                     *)
(***************************************************************************)
CONSTANT Jobs

VARIABLE outcome

Outcomes == {"none", "accepted", "done", "error"}

Init == outcome = [j \in Jobs |-> "none"]

Accept(j) ==
  /\ outcome[j] = "none"
  /\ outcome' = [outcome EXCEPT ![j] = "accepted"]

Settle(j) ==
  /\ outcome[j] = "accepted"
  /\ \E o \in {"done", "error"} : outcome' = [outcome EXCEPT ![j] = o]

Next == \E j \in Jobs : Accept(j) \/ Settle(j)

Safety == Init /\ [][Next]_outcome

Spec == Safety /\ \A j \in Jobs : WF_outcome(Settle(j))
=============================================================================
