----------------------------- MODULE NotesJobs -----------------------------
(***************************************************************************)
(* The engine's notes.generate jobs and the event plane they report on     *)
(* (crates/panops-engine/src/server/{handlers,mod,events}.rs).             *)
(*                                                                         *)
(* A job is a tokio task that waits for one of MAX_CONCURRENT_NOTES_JOBS   *)
(* permits, then runs the pipeline on the blocking pool holding the permit *)
(* until the closure ends.  The closure sends job.done or job.error; when  *)
(* it panics the task awaiting it sends job.error instead.  Every event    *)
(* goes to one broadcast ring, read by each events.subscribe task at its   *)
(* own pace.                                                               *)
(*                                                                         *)
(* A pipeline stage is the stretch of run_notes_pipeline that follows one  *)
(* progress event; what it computes is left out, whether it goes on, fails *)
(* or panics is free.                                                      *)
(***************************************************************************)
EXTENDS Naturals, Sequences, FiniteSets

CONSTANTS
  Jobs,                        \* job ids handed out
  Subscribers,                 \* events.subscribe calls
  MAX_CONCURRENT_NOTES_JOBS,
  EVENT_CHANNEL_CAPACITY,
  MaxRegions                   \* bound: speech regions of one recording

ASSUME LimitsArePositive ==
  /\ MAX_CONCURRENT_NOTES_JOBS \in Nat \ {0}
  /\ EVENT_CHANNEL_CAPACITY \in Nat \ {0}
  /\ MaxRegions \in Nat

VARIABLES
  heavy,      \* services.heavy: the OnceLock the warm-up task fills
  pc,         \* where each job is
  permits,    \* free permits of services.notes_jobs
  queue,      \* jobs waiting for a permit, first come first served
  sent,       \* the kinds of the events each job has sent, in order
  sub,        \* each events.subscribe task and its view of the ring
  told        \* history: the state of each subscription when a job was accepted

vars == <<heavy, pc, permits, queue, sent, sub, told>>

Stages == {"checked", "loading", "transcribing", "diarizing",
           "generating_notes", "exporting"}
Pipeline == {"granted"} \cup Stages        \* inside run_notes_pipeline
Holding == Pipeline \cup {"finished"}      \* the closure still owns a permit
JobStates == Holding \cup {"new", "spawned", "waiting", "panicked", "ended"}

Terminal == {"done", "error"}
Kinds == (Stages \ {"checked"}) \cup Terminal
Events == [job : Jobs, kind : Kinds]

SubStates == {"none", "accepted", "open", "closed"}

\* unread: the events the ring still holds for the receiver; heard and overrun:
\* the jobs whose terminal event it was given, or lost to the ring's limit.
SubRecords == [pc : SubStates, unread : Seq(Events),
               heard : SUBSET Jobs, overrun : SUBSET Jobs]

Unsubscribed == [pc |-> "none", unread |-> <<>>, heard |-> {}, overrun |-> {}]

Init ==
  /\ heavy = "warming"
  /\ pc = [j \in Jobs |-> "new"]
  /\ permits = MAX_CONCURRENT_NOTES_JOBS
  /\ queue = <<>>
  /\ sent = [j \in Jobs |-> <<>>]
  /\ sub = [s \in Subscribers |-> Unsubscribed]
  /\ told = [j \in Jobs |-> [s \in Subscribers |-> "none"]]

(***************************************************************************)
(* The warm-up task: a panic in a model loader is caught, so the lock      *)
(* always ends up holding a result.                                        *)
(***************************************************************************)
spawn_heavy_init ==
  /\ heavy = "warming"
  /\ heavy' \in {"ready", "failed"}
  /\ UNCHANGED <<pc, permits, queue, sent, sub, told>>

(***************************************************************************)
(* A job                                                                   *)
(***************************************************************************)
\* Refusing the new event when the ring is full.
BroadcastDropsNewest(r, e) ==
  IF r.pc # "open" \/ Len(r.unread) >= EVENT_CHANNEL_CAPACITY THEN r
  ELSE [r EXCEPT !.unread = Append(@, e)]

\* One event into a receiver's share of the ring: past the capacity the oldest
\* unread one is overwritten (the receiver learns of it as RecvError::Lagged,
\* logs it and goes on).
Broadcast(r, e) ==
  LET unread == Append(r.unread, e) IN
  IF r.pc # "open" THEN r
  ELSE IF Len(unread) <= EVENT_CHANNEL_CAPACITY THEN [r EXCEPT !.unread = unread]
  ELSE [r EXCEPT !.unread = Tail(unread),
                 !.overrun = IF Head(unread).kind \in Terminal
                             THEN @ \cup {Head(unread).job} ELSE @]

\* events_tx.send
Send(j, kind) ==
  /\ sent' = [sent EXCEPT ![j] = Append(@, kind)]
  /\ sub' = [s \in Subscribers |-> Broadcast(sub[s], [job |-> j, kind |-> kind])]

\* Dropping the permit leaves the job in state s.  The semaphore hands the
\* permit to its first waiter, and frees it only when nobody waits.
DropPermit(j, s) ==
  IF queue = <<>>
  THEN /\ permits' = permits + 1
       /\ queue' = queue
       /\ pc' = [pc EXCEPT ![j] = s]
  ELSE /\ permits' = permits
       /\ queue' = Tail(queue)
       /\ pc' = [pc EXCEPT ![j] = s, ![Head(queue)] = "granted"]

\* The id goes back to the caller before any of the job runs.
notes_generate(j) ==
  /\ pc[j] = "new"
  /\ pc' = [pc EXCEPT ![j] = "spawned"]
  /\ told' = [told EXCEPT ![j] = [s \in Subscribers |-> sub[s].pc]]
  /\ UNCHANGED <<heavy, permits, queue, sent, sub>>

\* acquire_owned.  Nothing closes the semaphore, so its error arm is dead.
AcquirePermit(j) ==
  /\ pc[j] = "spawned"
  /\ IF permits > 0
     THEN /\ permits' = permits - 1
          /\ pc' = [pc EXCEPT ![j] = "granted"]
          /\ queue' = queue
     ELSE /\ queue' = Append(queue, j)
          /\ pc' = [pc EXCEPT ![j] = "waiting"]
          /\ permits' = permits
  /\ UNCHANGED <<heavy, sent, sub, told>>

\* The warm-up gate: with no adapters the pipeline returns at once.
PassGate(j) ==
  /\ pc[j] = "granted"
  /\ heavy = "ready"
  /\ pc' = [pc EXCEPT ![j] = "checked"]
  /\ UNCHANGED <<heavy, permits, queue, sent, sub, told>>

Transcribed(j) == Cardinality({i \in DOMAIN sent[j] : sent[j][i] = "transcribing"})

\* emit_job_progress calls in the order the pipeline makes them: one
\* "transcribing" for each speech region, "diarizing" unless it is turned off
\* or there is only a microphone track.
MayFollow(stage, from) ==
  CASE stage = "loading" -> from = "checked"
    [] stage \in {"transcribing", "diarizing", "generating_notes"} ->
         from \in {"loading", "transcribing"}
           \/ (stage = "generating_notes" /\ from = "diarizing")
    [] stage = "exporting" -> from = "generating_notes"

Progress(j, stage) ==
  /\ MayFollow(stage, pc[j])
  /\ stage = "transcribing" => Transcribed(j) < MaxRegions
  /\ Send(j, stage)
  /\ pc' = [pc EXCEPT ![j] = stage]
  /\ UNCHANGED <<heavy, permits, queue, told>>

\* The closure sends its one terminal event while it still owns the permit.
PipelineOk(j) ==
  /\ pc[j] = "exporting"
  /\ Send(j, "done")
  /\ pc' = [pc EXCEPT ![j] = "finished"]
  /\ UNCHANGED <<heavy, permits, queue, told>>

PipelineErr(j) ==
  /\ pc[j] \in Stages \/ (pc[j] = "granted" /\ heavy # "ready")
  /\ Send(j, "error")
  /\ pc' = [pc EXCEPT ![j] = "finished"]
  /\ UNCHANGED <<heavy, permits, queue, told>>

ClosureEnds(j) ==
  /\ pc[j] = "finished"
  /\ DropPermit(j, "ended")
  /\ UNCHANGED <<heavy, sent, sub, told>>

\* The permit owned by something that unwinding does not drop.
PipelinePanicsKeepingPermit(j) ==
  /\ pc[j] \in Stages
  /\ pc' = [pc EXCEPT ![j] = "panicked"]
  /\ UNCHANGED <<heavy, permits, queue, sent, sub, told>>

\* Unwinding drops the permit; the awaiting task has not seen the JoinError.
PipelinePanics(j) ==
  /\ pc[j] \in Stages
  /\ DropPermit(j, "panicked")
  /\ UNCHANGED <<heavy, sent, sub, told>>

\* The JoinHandle dropped unawaited: the panic is swallowed.
ReportPanicSwallowed(j) ==
  /\ pc[j] = "panicked"
  /\ pc' = [pc EXCEPT ![j] = "ended"]
  /\ UNCHANGED <<heavy, permits, queue, sent, sub, told>>

\* Reporting whatever the join returned, not only an error.
ReportPanicAlways(j) ==
  /\ pc[j] \in {"panicked", "finished"}
  /\ Send(j, "error")
  /\ pc' = [pc EXCEPT ![j] = "ended"]
  /\ UNCHANGED <<heavy, permits, queue, told>>

\* join_handle.await returned an error.
ReportPanic(j) ==
  /\ pc[j] = "panicked"
  /\ Send(j, "error")
  /\ pc' = [pc EXCEPT ![j] = "ended"]
  /\ UNCHANGED <<heavy, permits, queue, told>>

(***************************************************************************)
(* events.subscribe: the client is answered by accept() before the         *)
(* receiver exists.                                                        *)
(***************************************************************************)
AcceptSubscription(s) ==
  /\ sub[s].pc = "none"
  /\ sub' = [sub EXCEPT ![s].pc = "accepted"]
  /\ UNCHANGED <<heavy, pc, permits, queue, sent, told>>

\* events_tx.subscribe: the receiver starts at the ring's tail.
Listen(s) ==
  /\ sub[s].pc = "accepted"
  /\ sub' = [sub EXCEPT ![s].pc = "open"]
  /\ UNCHANGED <<heavy, pc, permits, queue, sent, told>>

\* rx.recv(), and the event on its way to the client.
ReadOne(r) ==
  [r EXCEPT !.unread = Tail(@),
            !.heard = IF Head(r.unread).kind \in Terminal
                      THEN @ \cup {Head(r.unread).job} ELSE @]

\* Delivering an event only once another one follows it.
DeliverHoldsBack(s) ==
  /\ sub[s].pc = "open"
  /\ Len(sub[s].unread) > 1
  /\ sub' = [sub EXCEPT ![s] = ReadOne(@)]
  /\ UNCHANGED <<heavy, pc, permits, queue, sent, told>>

Deliver(s) ==
  /\ sub[s].pc = "open"
  /\ sub[s].unread # <<>>
  /\ sub' = [sub EXCEPT ![s] = ReadOne(@)]
  /\ UNCHANGED <<heavy, pc, permits, queue, sent, told>>

\* sink.closed(), or a send that fails: the receiver is dropped.
CloseSubscription(s) ==
  /\ sub[s].pc = "open"
  /\ sub' = [sub EXCEPT ![s] = [Unsubscribed EXCEPT !.pc = "closed"]]
  /\ UNCHANGED <<heavy, pc, permits, queue, sent, told>>

\* The task running one job, whatever it does next.
JobStep(j) ==
  \/ AcquirePermit(j)
  \/ PassGate(j)
  \/ \E stage \in Stages \ {"checked"} : Progress(j, stage)
  \/ PipelineOk(j)
  \/ PipelineErr(j)
  \/ ClosureEnds(j)
  \/ PipelinePanics(j)
  \/ ReportPanic(j)

Receive(s) == Listen(s) \/ Deliver(s)

Next ==
  \/ spawn_heavy_init
  \/ \E j \in Jobs : notes_generate(j) \/ JobStep(j)
  \/ \E s \in Subscribers : AcceptSubscription(s) \/ Receive(s) \/ CloseSubscription(s)

Spec == Init /\ [][Next]_vars

(***************************************************************************)
(* tokio keeps polling the tasks it has spawned, and every adapter call of *)
(* the pipeline returns: the Foundation-model sidecar's calls time out     *)
(* (foundation_llm.rs), for the other adapters it is an assumption.  No    *)
(* client is obliged to submit, subscribe or unsubscribe.                  *)
(***************************************************************************)
FairSpec ==
  /\ Spec
  /\ \A j \in Jobs : WF_vars(JobStep(j))
  /\ \A s \in Subscribers : WF_vars(Receive(s))

-----------------------------------------------------------------------------
\* The variables have their types.
TypeOK ==
  /\ heavy \in {"warming", "ready", "failed"}
  /\ pc \in [Jobs -> JobStates]
  /\ permits \in 0 .. MAX_CONCURRENT_NOTES_JOBS
  /\ queue \in Seq(Jobs)
  /\ sent \in [Jobs -> Seq(Kinds)]
  /\ sub \in [Subscribers -> SubRecords]
  /\ told \in [Jobs -> [Subscribers -> SubStates]]

Holders == {j \in Jobs : pc[j] \in Holding}

\* Backpressure (MAX_CONCURRENT_NOTES_JOBS, mod.rs): permits are neither lost
\* nor minted, panicking pipelines included, so never more than
\* MAX_CONCURRENT_NOTES_JOBS pipelines run, and no job waits beside a free one.
PermitsConserved ==
  /\ permits + Cardinality(Holders) = MAX_CONCURRENT_NOTES_JOBS
  /\ queue # <<>> => permits = 0

Ended(j) == \E i \in DOMAIN sent[j] : sent[j][i] \in Terminal

\* enqueue_notes_job: a job that is over has sent exactly one terminal event
\* and nothing after it, whether its closure returned or panicked; a job that
\* is not over has sent none.
OneTerminalEventLast ==
  \A j \in Jobs :
    /\ Ended(j) <=> pc[j] \in {"finished", "ended"}
    /\ \A i \in DOMAIN sent[j] : sent[j][i] \in Terminal => i = Len(sent[j])

Unread(s, j) == {i \in DOMAIN sub[s].unread : sub[s].unread[i].job = j}

\* subscribe_events: for a job submitted while the subscriber was listening, the
\* terminal event is waiting in the ring, was delivered, or was overwritten: it
\* is never lost without an overrun and never delivered twice, and once it is
\* delivered no event of that job follows.
TerminalEventAccounted ==
  \A s \in Subscribers, j \in Jobs :
    (sub[s].pc = "open" /\ told[j][s] = "open") =>
      /\ Ended(j) => \/ j \in sub[s].heard
                     \/ j \in sub[s].overrun
                     \/ \E i \in Unread(s, j) : sub[s].unread[i].kind \in Terminal
      /\ j \in sub[s].heard \cup sub[s].overrun => Unread(s, j) = {}
      /\ j \notin sub[s].heard \cap sub[s].overrun

\* A subscriber that is listening when the job is accepted hears how it ended,
\* unless the subscription is closed or the ring overruns it.
ListenersLearnTheOutcome ==
  \A s \in Subscribers, j \in Jobs :
    (pc[j] = "spawned" /\ sub[s].pc = "open") ~>
      (sub[s].pc = "closed" \/ j \in sub[s].heard \cup sub[s].overrun)

\* The outcome a client could read off the event plane.
OutcomeOf(j) ==
  IF pc[j] = "new" THEN "none"
  ELSE IF Ended(j) THEN sent[j][Len(sent[j])]
  ELSE "accepted"

Service == INSTANCE NotesService WITH outcome <- [j \in Jobs |-> OutcomeOf(j)]

\* enqueue_notes_job keeps the notes.generate contract: an accepted job settles
\* once, for good, and always does, panic, warm-up failure or not.
ImplementsService == Service!Spec
=============================================================================
