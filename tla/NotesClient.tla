---------------------------- MODULE NotesClient ----------------------------
(***************************************************************************)
(* How the app follows a notes job: AppViewModel's generation flows (the   *)
(* manual button, the audio file, the job a stopped recording started),    *)
(* the WebSocket set-up that races a timer, EventStreamActor's callbacks   *)
(* and buffer, and the polling of notes.md behind them.                    *)
(*                                                                         *)
(* A step is what the main actor or EventStreamActor runs between two      *)
(* suspension points. A flow is used once; its name also names its job and *)
(* its polling task.                                                       *)
(***************************************************************************)
EXTENDS Naturals, Sequences, SequencesExt

CONSTANTS
  MaxFlows,        \* bound: attempts at generating notes
  Meetings,
  None,
  maxBufferSize    \* EventStreamActor.maxBufferSize

ASSUME ClientAssumption ==
  /\ maxBufferSize \in Nat \ {0} /\ MaxFlows \in Nat
  /\ None \notin Nat \cup Meetings

VARIABLES
  state,              \* AppViewModel.state, with the meeting worked on
  notesGenMeetingId,
  lastProgress,       \* notesLastProgressAt: nil, less than five minutes ago, older
  flow,               \* where each generation flow is suspended
  wsTask,             \* wsSubscriptionTask # nil
  live,               \* loopTask is reading an open connection
  wire,               \* terminal events sent on it and not yet routed
  callbacks, eventBuffer,
  hops,               \* terminal callbacks spawned on the main actor, not yet run
  stopping,           \* a task is about to call EventStreamActor.stop
  pollingTask,
  poller,             \* the polling task of each flow
  job,                \* the engine's job of each flow
  md,                 \* meetings that have a notes.md
  crossed             \* history: a flow began while another was on its way, and
                      \* none has begun alone since

ui == <<state, notesGenMeetingId, lastProgress>>
stream == <<live, wire, callbacks, eventBuffer>>
polling == <<pollingTask, poller>>
engine == <<job, md>>
vars == <<ui, flow, wsTask, stream, hops, stopping, polling, engine, crossed>>

Flows == 1 .. MaxFlows

View(tag) == [tag |-> tag, m |-> None]
WorkingOn(m) == [tag |-> "working", m |-> m]
Working(m) == state = WorkingOn(m)
isNotesJobActive == state.tag = "working"

Starting == {f \in Flows : flow[f].pc \in {"start", "ws", "rpc", "register", "poll"}}

Init ==
  /\ state = View("idle") /\ notesGenMeetingId = None /\ lastProgress = "nil"
  /\ flow = [f \in Flows |-> [pc |-> "none", m |-> None, wsOk |-> FALSE]]
  /\ wsTask = FALSE /\ live = FALSE /\ wire = <<>>
  /\ callbacks = {} /\ eventBuffer = <<>>
  /\ hops = {} /\ stopping = FALSE
  /\ pollingTask = None
  /\ poller = [f \in Flows |-> [pc |-> "none", cancelled |-> FALSE]]
  /\ job = [f \in Flows |-> "none"] /\ md = {}
  /\ crossed = FALSE

-----------------------------------------------------------------------------
(* What flows share *)

PollEnd == [pc |-> "end", cancelled |-> TRUE]

Cancelled(ps) ==
  IF pollingTask = None THEN ps ELSE [ps EXCEPT ![pollingTask].cancelled = TRUE]

startPolling(f) ==
  /\ poller' = [Cancelled(poller) EXCEPT ![f] = [pc |-> "get", cancelled |-> FALSE]]
  /\ pollingTask' = f
  /\ lastProgress' = "fresh"

FlowAt(f, pc, wsOk) == [pc |-> pc, m |-> flow[f].m, wsOk |-> wsOk]

\* Without a subscription startPolling is reached in the same step; with one,
\* registerCallback suspends the flow first.
watchNotesJob(f, wsOk) ==
  /\ flow' = [flow EXCEPT ![f] = FlowAt(f, IF wsOk THEN "register" ELSE "end", wsOk)]
  /\ IF wsOk THEN UNCHANGED <<polling, lastProgress>> ELSE startPolling(f)

failNotesStart(f) ==
  /\ state' = View("error")
  /\ lastProgress' = "nil"
  /\ flow' = [flow EXCEPT ![f].pc = "end"]
  /\ UNCHANGED <<notesGenMeetingId, wsTask, stream, hops, stopping, polling, engine>>

\* The code removes every entry of the job; it has one at most
\* (OneEntryPerJob of NotesClientProofs).
unregisterCallback(f) ==
  /\ callbacks' = callbacks \ {f}
  /\ eventBuffer' = RemoveFirst(eventBuffer, f)

\* finishGenerationDone and finishGenerationError, from a callback or a polling
\* task of flow f; ps is the tasks' state with the caller's own step taken. The
\* spawned unregisterCallback touches this job's entries only and is run at once.
finishGeneration(f, tag, ps) ==
  IF Working(flow[f].m)
  THEN /\ state' = View(tag)
       /\ lastProgress' = "nil"
       /\ notesGenMeetingId' = IF tag = "done" THEN None ELSE notesGenMeetingId
       /\ poller' = Cancelled(ps) /\ pollingTask' = None
       /\ IF flow[f].wsOk THEN unregisterCallback(f) ELSE UNCHANGED <<callbacks, eventBuffer>>
  ELSE poller' = ps /\ UNCHANGED <<ui, pollingTask, callbacks, eventBuffer>>

-----------------------------------------------------------------------------
(* Starting a flow: nothing keeps a second one from starting while the first awaits *)

\* Flows are used in order.
MayStart(f) == flow[f].pc = "none" /\ \A g \in 1 .. f - 1 : flow[g].pc # "none"

\* The lazy subscription: there already, or awaited before going on at pc.
ensureWsSubscription(f, m, pc) ==
  flow' = [flow EXCEPT ![f] = [pc |-> IF wsTask THEN pc ELSE "ws", m |-> m, wsOk |-> wsTask]]

beginNotesGeneration(f, m) ==
  /\ notesGenMeetingId' = m
  /\ lastProgress' = "fresh"
  /\ ensureWsSubscription(f, m, "rpc")
  /\ UNCHANGED <<state, wsTask, stream, hops, stopping, polling, engine>>

\* A meeting without audio in its directory ends in an error at once.
generateNotes(f, m) ==
  /\ MayStart(f)
  /\ ~ isNotesJobActive
  /\ \/ beginNotesGeneration(f, m)
     \/ /\ state' = View("error")
        /\ notesGenMeetingId' = m
        /\ lastProgress' = "nil"
        /\ UNCHANGED <<flow, wsTask, stream, hops, stopping, polling, engine>>

\* The audio-file flow first awaits meeting.start.
generate(f) ==
  /\ MayStart(f)
  /\ state.tag = "idle"
  /\ flow' = [flow EXCEPT ![f].pc = "start"]
  /\ UNCHANGED <<ui, wsTask, stream, hops, stopping, polling, engine>>

MeetingStarted(f, m) ==
  /\ flow[f].pc = "start"
  /\ \A g \in Flows : flow[g].m # m
  /\ beginNotesGeneration(f, m)

MeetingStartFails(f) == flow[f].pc = "start" /\ failNotesStart(f)

\* The workspace left pointing at the meeting of the previous job.
TrackAutoKeepsMeeting(f, m) ==
  /\ MayStart(f)
  /\ ~ isNotesJobActive
  /\ state' = WorkingOn(m)
  /\ lastProgress' = "fresh"
  /\ job' = [job EXCEPT ![f] = "running"]
  /\ ensureWsSubscription(f, m, "register")
  /\ UNCHANGED <<notesGenMeetingId, wsTask, stream, hops, stopping, polling, md>>

\* The engine enqueued the job when the recording stopped.
trackAutoGeneratedNotes(f, m) ==
  /\ MayStart(f)
  /\ ~ isNotesJobActive
  /\ state' = WorkingOn(m)
  /\ notesGenMeetingId' = m
  /\ lastProgress' = "fresh"
  /\ job' = [job EXCEPT ![f] = "running"]
  /\ ensureWsSubscription(f, m, "register")
  /\ UNCHANGED <<wsTask, stream, hops, stopping, polling, md>>

stop ==
  /\ live' = FALSE /\ wire' = <<>>
  /\ callbacks' = {} /\ eventBuffer' = <<>>

\* Where a flow goes on after the set-up: a job the engine already has is
\* watched now, any other is requested.
AfterSetup(f, wsOk) ==
  IF job[f] = "none"
  THEN /\ flow' = [flow EXCEPT ![f] = FlowAt(f, "rpc", wsOk)]
       /\ UNCHANGED <<polling, lastProgress>>
  ELSE watchNotesJob(f, wsOk)

\* The set-up wins the race. Ending the race cancels the timer's sleep; a timer
\* already past it goes on to stop the stream and close the connection. Of two set-ups
\* that overlap the later one's connection is read; that both end up subscribed on it,
\* and every event comes twice, is left out.
WsSucceeded(f) ==
  /\ flow[f].pc = "ws"
  /\ AfterSetup(f, TRUE)
  /\ wsTask' = TRUE /\ live' = TRUE /\ wire' = <<>>
  /\ stopping' \in {stopping, TRUE}
  /\ UNCHANGED <<state, notesGenMeetingId, callbacks, eventBuffer, hops, engine>>

\* The set-up fails, or the timer wins and has stopped whatever was set up.
WsFailed(f) ==
  /\ flow[f].pc = "ws"
  /\ AfterSetup(f, FALSE)
  /\ stop \/ UNCHANGED stream
  /\ UNCHANGED <<state, notesGenMeetingId, wsTask, hops, stopping, engine>>

\* notes.generate reaches the engine; the reply comes later, or never.
EngineAccepts(f) ==
  /\ flow[f].pc = "rpc" /\ job[f] = "none"
  /\ job' = [job EXCEPT ![f] = "running"]
  /\ UNCHANGED <<ui, flow, wsTask, stream, hops, stopping, polling, md>>

NotesGenerateReplies(f) ==
  /\ flow[f].pc = "rpc" /\ job[f] # "none"
  /\ state' = WorkingOn(flow[f].m)
  /\ watchNotesJob(f, flow[f].wsOk)
  /\ UNCHANGED <<notesGenMeetingId, wsTask, stream, hops, stopping, engine>>

NotesGenerateFails(f) == flow[f].pc = "rpc" /\ failNotesStart(f)

\* The callback alone, without the safety net.
TrustCallback(f) ==
  /\ flow[f].pc = "poll"
  /\ flow' = [flow EXCEPT ![f].pc = "end"]
  /\ UNCHANGED <<ui, wsTask, stream, hops, stopping, polling, engine>>

\* registerCallback has returned.
WatchByPolling(f) ==
  /\ flow[f].pc = "poll"
  /\ startPolling(f)
  /\ flow' = [flow EXCEPT ![f].pc = "end"]
  /\ UNCHANGED <<state, notesGenMeetingId, wsTask, stream, hops, stopping, engine>>

-----------------------------------------------------------------------------
(* EventStreamActor *)

\* The callback stored without a look at the buffer.
RegisterWithoutReplay(f) ==
  /\ flow[f].pc = "register"
  /\ callbacks' = callbacks \cup {f}
  /\ flow' = [flow EXCEPT ![f].pc = "poll"]
  /\ UNCHANGED <<ui, wsTask, live, wire, eventBuffer, hops, stopping, polling, engine>>

registerCallback(f) ==
  /\ flow[f].pc = "register"
  /\ IF Contains(eventBuffer, f)
     THEN /\ hops' = hops \cup {f}
          /\ eventBuffer' = RemoveFirst(eventBuffer, f)
          /\ UNCHANGED callbacks
     ELSE callbacks' = callbacks \cup {f} /\ UNCHANGED <<hops, eventBuffer>>
  /\ flow' = [flow EXCEPT ![f].pc = "poll"]
  /\ UNCHANGED <<ui, wsTask, live, wire, stopping, polling, engine>>

StopTask ==
  /\ stopping
  /\ stopping' = FALSE
  /\ stop
  /\ UNCHANGED <<ui, flow, wsTask, hops, polling, engine>>

\* A terminal event: to its callback, or into the buffer, evicting the oldest.
route ==
  /\ wire # <<>>
  /\ LET f == Head(wire)
         full == Len(eventBuffer) >= maxBufferSize IN
     IF f \in callbacks
     THEN /\ hops' = hops \cup {f} /\ callbacks' = callbacks \ {f}
          /\ UNCHANGED eventBuffer
     ELSE /\ eventBuffer' = Append(IF full THEN Tail(eventBuffer) ELSE eventBuffer, f)
          /\ UNCHANGED <<hops, callbacks>>
  /\ wire' = Tail(wire)
  /\ UNCHANGED <<ui, flow, wsTask, live, stopping, polling, engine>>

\* The callback's task on the main actor. An error counts as a sign of life
\* even when the guard of finishGenerationError then ignores it.
Callback(f) ==
  /\ f \in hops
  /\ hops' = hops \ {f}
  /\ \/ /\ job[f] = "done"
        /\ finishGeneration(f, "done", poller)
     \/ /\ job[f] = "error" /\ Working(flow[f].m)
        /\ finishGeneration(f, "error", poller)
     \/ /\ job[f] = "error" /\ ~ Working(flow[f].m)
        /\ lastProgress' = "fresh"
        /\ UNCHANGED <<state, notesGenMeetingId, polling, callbacks, eventBuffer>>
  /\ UNCHANGED <<flow, wsTask, live, wire, stopping, engine>>

-----------------------------------------------------------------------------
(* Polling *)

PollerTo(f, pc) ==
  /\ poller' = [poller EXCEPT ![f] = IF pc = "end" THEN PollEnd ELSE [@ EXCEPT !.pc = pc]]
  /\ UNCHANGED <<ui, flow, wsTask, stream, hops, stopping, pollingTask, engine>>

\* meeting.get, for the path to look at.
PollGet(f) ==
  /\ poller[f].pc = "get"
  /\ \/ PollerTo(f, IF poller[f].cancelled THEN "end" ELSE "sleep")
     \/ PollerTo(f, "failed")

\* A cancelled task wakes at once and still looks for the file.
PollWake(f) ==
  /\ poller[f].pc = "sleep"
  /\ \/ flow[f].m \in md /\ PollerTo(f, "found")
     \/ flow[f].m \notin md /\ lastProgress = "old" /\ PollerTo(f, "failed")
     \/ /\ flow[f].m \notin md /\ lastProgress # "old"
        /\ poller[f].cancelled /\ PollerTo(f, "end")

PollReports(f) ==
  /\ poller[f].pc \in {"found", "failed"}
  /\ finishGeneration(f, IF poller[f].pc = "found" THEN "done" ELSE "error",
                      [poller EXCEPT ![f] = PollEnd])
  /\ UNCHANGED <<flow, wsTask, live, wire, hops, stopping, engine>>

\* progressSilenceTimeoutSeconds pass.
SilenceElapses ==
  /\ lastProgress = "fresh"
  /\ lastProgress' = "old"
  /\ UNCHANGED <<state, notesGenMeetingId, flow, wsTask, stream, hops, stopping, polling, engine>>

-----------------------------------------------------------------------------
(* The user *)

\* Also what deleting the selected meeting, and a recording of it that ends, do here.
startNewGenerationFlow ==
  /\ state' = View("idle")
  /\ UNCHANGED <<notesGenMeetingId, lastProgress, flow, wsTask, stream, hops, stopping,
                 polling, engine>>

\* Offered by the views of a finished or failed job only.
reset ==
  /\ state.tag \in {"done", "error"}
  /\ state' = View("idle") /\ notesGenMeetingId' = None /\ lastProgress' = "nil"
  /\ wsTask' = FALSE
  /\ stopping' = TRUE
  /\ poller' = Cancelled(poller) /\ pollingTask' = None
  /\ UNCHANGED <<flow, stream, hops, engine>>

-----------------------------------------------------------------------------
(* The engine and the connection *)

\* The exporting stage: its progress event, heard of by a registered callback,
\* and notes.md.
ExportNotes(f) ==
  /\ job[f] = "running"
  /\ job' = [job EXCEPT ![f] = "written"]
  /\ md' = md \cup {flow[f].m}
  /\ lastProgress' = IF live /\ f \in callbacks THEN "fresh" ELSE lastProgress
  /\ UNCHANGED <<state, notesGenMeetingId, flow, wsTask, stream, hops, stopping, polling>>

JobEnds(f) ==
  /\ \/ job[f] = "written" /\ job' = [job EXCEPT ![f] = "done"]
     \/ job[f] \in {"running", "written"} /\ job' = [job EXCEPT ![f] = "error"]
  /\ wire' = IF live THEN Append(wire, f) ELSE wire
  /\ UNCHANGED <<ui, flow, wsTask, live, callbacks, eventBuffer, hops, stopping,
                 polling, md>>

\* What was not read yet may be lost with the connection.
ConnectionDrops ==
  /\ live
  /\ live' = FALSE
  /\ wire' \in {wire, <<>>}
  /\ UNCHANGED <<ui, flow, wsTask, callbacks, eventBuffer, hops, stopping, polling, engine>>

-----------------------------------------------------------------------------

FlowStep(f) ==
  \/ MeetingStartFails(f) \/ WsSucceeded(f) \/ WsFailed(f) \/ NotesGenerateReplies(f)
  \/ NotesGenerateFails(f) \/ registerCallback(f) \/ WatchByPolling(f)
  \/ \E m \in Meetings : MeetingStarted(f, m)

PollStep(f) == PollGet(f) \/ PollWake(f) \/ PollReports(f)

Environment ==
  \/ \E f \in Flows :
       \/ EngineAccepts(f) \/ ExportNotes(f) \/ JobEnds(f)
       \/ Callback(f)
  \/ route \/ StopTask \/ ConnectionDrops

FlowBegins ==
  \/ \E f \in Flows : generate(f)
  \/ \E f \in Flows, m \in Meetings : generateNotes(f, m) \/ trackAutoGeneratedNotes(f, m)

GoesOn ==
  \/ \E f \in Flows : FlowStep(f) \/ PollStep(f)
  \/ SilenceElapses
  \/ Environment
  \/ startNewGenerationFlow \/ reset

Next ==
  \/ FlowBegins /\ crossed' = (Starting # {})
  \/ GoesOn /\ UNCHANGED crossed

Spec == Init /\ [][Next]_vars

-----------------------------------------------------------------------------

\* While the app works on a meeting's notes, the sidebar's processing mark and the
\* workspace's inline error are on no other meeting (AppViewModel.status(for:)). A
\* flow that begins while another awaits can break this, until one begins alone: that
\* one is right again, whatever its predecessors left. The mark may be missing: a
\* reset between the click and the engine's answer clears it.
ProcessingMarksNoOtherMeeting ==
  isNotesJobActive /\ ~ crossed => notesGenMeetingId \in {state.m, None}

\* EventStreamActor loses no wake-up: whichever of registerCallback and route came
\* first, a job never sits in `callbacks` waiting for the terminal event that lies
\* in the buffer.
NoLostWakeup == callbacks \cap ToSet(eventBuffer) = {}

Watching(f, m) ==
  /\ flow[f].m = m
  /\ poller[f].pc \in {"get", "sleep", "found", "failed"}

\* The app cannot stay in .working: once no flow is on its way, the current polling
\* task is about the meeting being worked on, not cancelled and not over, and the
\* clock of its time-out runs. It ends the flow whatever becomes of the WebSocket,
\* its set-up race, the event buffer and the job (AppViewModel.watchNotesJob). Only
\* flows that crossed can leave another meeting's task in charge, and the window
\* working with nothing that will end it.
WatchedWhileWorking ==
  isNotesJobActive /\ Starting = {} =>
    /\ pollingTask # None /\ lastProgress # "nil"
    /\ \/ Watching(pollingTask, state.m) /\ ~ poller[pollingTask].cancelled
       \/ crossed /\ flow[pollingTask].m # state.m
=============================================================================
