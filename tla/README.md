# A TLA+ model of panops

panops is a local-first meeting recorder for macOS: a SwiftUI app drives a Rust
engine over JSON-RPC on a UNIX socket; the engine records through a capture
sidecar, transcribes, diarizes, writes notes with an LLM and keeps a SQLite
registry of meetings. This directory models the parts of it whose correctness
depends on order, interleaving or failure, checks them with TLC on small
instances, and proves the most important results for every size with TLAPS.

`PROJECT.json` lists the components, the runs, the source lines behind each
definition, the hazards and the theorems.

## The system

| Component | Source | State | Operations | Works with |
|---|---|---|---|---|
| SQLite registry | `panops-portable/src/rusqlite_storage.rs` | six tables behind one `Mutex<Connection>` | create, read, update, delete of meetings, notes, spaces, projects, tags; filing and tagging; opening and migrating the file | called by every IPC handler, from blocking threads |
| Meeting files | `panops-engine/src/server/handlers.rs` | `meetings/<id>/` with `notes.md`, `recording.mov` | `meeting.start/delete/deleteVideo`, `notes.save`, the file half of the notes pipeline | the registry, which is changed in separate steps |
| Recording handlers | `handlers.rs` `recording_start`, `recording_stop` | `sessions` and `auto_notes`, a mutex each | start, stop | capture adapter, notes jobs |
| Capture adapter | `panops-mac/src/screencapturekit_capture.rs` | the sidecar process slot, a map of live sessions | `start_capture`, `stop_capture`, respawn | one line of JSON out, one back, to the sidecar |
| Capture sidecar | `apps/panops-capture-mac` | the one current capture | `capture.start`, `capture.stop`, clean-up at end of input | ScreenCaptureKit |
| Notes jobs | `handlers.rs` `enqueue_notes_job`, `run_notes_pipeline`; `mod.rs` | two permits, the warm-up lock | `notes.generate`, automatic notes after a stop | event plane, registry, meeting files |
| Event plane | `events.rs`, `handlers.rs` `subscribe_events` | a broadcast ring of 256 events | send, subscribe, deliver, lag | the app's event stream |
| Socket lifecycle | `socket.rs`, `mod.rs` | the directory entry, the listener | probe, unlink, bind, chmod, remove at shutdown | other engine processes |
| App recording controller | `LiveRecordingController.swift`, `AppViewModel.swift` | `isRecording`, `recordingId` | start, stop | recording handlers |
| App job tracking | `AppViewModel.swift`, `EventStreamActor.swift` | the watched job, buffered events, the polling task, list tokens | watch, poll, time out, reset | event plane, meeting files |
| Transcription | `recursive_asr.rs`, `audio.rs`, `whisper_vad.rs`, `sherpa_diarizer.rs`, `merge.rs` | the recursion, the segments so far | speech regions, region splitting, diarization, speaker merge | called by a notes job and by the CLI |
| Notes pipeline | `panops-core/src/notes` | one draft per section, in parallel | topic segmentation, chunking, merging, verification, screenshot anchoring | an LLM provider; called by a notes job and by the CLI |
| Model download | `panops-portable/src/model.rs` | model files, partial files, markers | ensure, verify, rename, unpack | warm-up task, network |
| LLM and ASR sidecars | `foundation_llm.rs`, `whisperkit_asr.rs`, `llm_resolver.rs` | a child process each | probe, request, time-out, respawn | notes pipeline, transcription, engine start |
| In-memory storage | `panops-core/src/conformance/fakes.rs` | maps of rows | the `Storage` trait | stands in for the registry in tests |
| Protocol, exporter, CLI, views | `panops-protocol`, `markdown_exporter.rs`, `main.rs`, `Views/` | none | formatting, parsing, layout | |

What is hard here, and hard to test:

- **Several maps for one fact.** "Meeting m is being recorded" lives in the
  sidecar, in the adapter, in two engine maps and in the app. Each is updated
  under its own lock, in an order that differs between start and stop, and the
  sidecar may exit between any two of them.
- **A registry row and files on disk** are changed by separate steps of
  concurrent calls.
- **Jobs that panic.** Permits and the promised terminal event must survive an
  unwinding pipeline.
- **A lossy event plane.** Subscribers lag, disconnect, or subscribe a moment too
  late, and the app has to learn how a job ended anyway.
- **Two engines and one socket name,** with crashes leaving the name behind.
- **Foreign keys two levels deep,** with one column (`meeting.space_id`) that
  repeats what another implies, and a fake that performs the cascades by hand.
- **Files that are fetched, checked and trusted later:** a start may be killed
  between any two steps of a download, of an unpacking or of a migration.
- **Helper processes** that answer late, twice, wrongly or not at all, on a pipe
  that the next caller inherits.
- **Cutting and joining:** audio regions, transcripts, sections, chunks and
  summaries are split, merged and rebased several times, and nothing said may be
  lost or doubled on the way.

## Modules

`Storage` is the registry: one action per `Storage` trait method that changes a
table, a table being a function from row ids to the columns the properties tell
apart. The mutex makes a method one step, except `update_meeting_ended` and
`rename_meeting`, which release it before they read the row back; another call
may come between. `reply` is the result of the last call. SQLite's statements
(`Insert`, `DeleteRows`, cascades and `SET NULL`) are operators, taken from the
schema in the source. Ids that the engine generates are never generated twice
(`issued`). Titles, times and note texts are left out: no guard reads them.
`Next` groups the calls by who makes them: the meeting handlers, the CLI's
`register_meeting_in_registry`, the handlers of spaces, projects and tags.

`StorageTwin` runs `InMemoryStorage`, the fake every test of the engine uses, beside
the registry: each call is made on both, and `TwinsAgree` compares their rows, their
answers and their filtered lists. The fake keeps the assignments of meetings in maps
of their own (`mem.meeting_spaces`, `mem.meeting_projects`), so its cascades are code
and not schema.

`Recording` is `recording.start` and `recording.stop` from the IPC call to the
sidecar. A step is what runs under one lock. `call()` holds the adapter's mutex
for the whole request and reply, so the sidecar's answer is part of the step; its
outcomes are the sets `capture_start(m)` and `capture_stop(m)`: served, refused, a
broken stream (the adapter kills the child and clears the slot) or a failed spawn.
`SidecarExits` is the child going away by itself. `wanted` is a history variable.

`RecordingApp` extends `Recording` with the app as the only client: the optimistic
`isRecording`, the `recordingId` set on acceptance, and what each does on an error.
The app makes one call, `app`; the other calls of `Recording` never begin.

`NotesJobs` is the job queue, the pipeline as seen from outside (which progress
event may follow which, and where it may fail or panic), and the event plane. The
ring is kept per subscriber, as the events it still holds for that receiver.
`NotesService` is what `notes.generate` promises: an accepted job settles once.

`MeetingFiles` puts the registry's meeting and note rows next to the meeting
directories, and runs the handlers that touch both as threads of separate steps. A
directory is there or not, whatever of it was made first: a `create_dir_all` that fails may
leave a part (`CreateDirFails`), and an export makes its directory twice, at its beginning
(`GenExport`) and for the screenshots it copies (`GenShots`).

`NotesClient` is the app following a job: the three ways a generation flow starts,
where each is suspended, `EventStreamActor`'s callbacks and buffer, the polling task
and its time-out. The WebSocket set-up and its timer appear by their outcomes: a
set-up that wins, one that wins while the timer is already past its cancellation
check (a `stop` is then still to come), one that fails, a timer that wins and stops
the stream. A connection may drop at any time. The engine's job is reduced to
running, `notes.md` written, ended; `unregisterCallback`, spawned when a flow ends,
is run at once because it touches that job's entries only. It removes the one buffered
event its job can have; that there is never a second is part of what is proved. Any
number of flows may be between their click and their polling task; `crossed`, a history
variable, says that one began while another was there and none has begun alone since.

`SocketLifecycle` takes `bind_with_lifecycle` and the shutdown system call by
system call, for any number of engine processes on one path, starting at any time. `rivals`, a
history variable, holds the engines that bound while another was about to remove the name,
and those that bound beside one of them: the ones the code may rob. `EngineStart` composes
it with what `run_serve` does first: `RusqliteStorage::new` on the shared database
file, one DDL or migration statement per step, each committed by itself. `todo[e]`
is what engine `e` has still to run; `lone` records which engines have met no other.

`ModelDownload` follows one `ensure_*` function, chosen in `DownloadInit`, over any number of
starts. A file is its length, whether its bytes are the registered ones, and its
modification time. `blame` records why a bad file may be left in place.

`Sidecar` is the request and reply of the two helper adapters. `adapter` tells them
apart: "llm" has a deadline and is probed by `pick_llm`, "asr" has neither and
writes its samples to a temporary file first. The child answers in order but may say
anything; a completion may be more than the pipe holds, and then its write to a child that
reads nothing blocks (`WriteBlocks`). `stray` and `lost` are history variables.

`Transcription` takes the audio of one request through VAD, merging of regions, the
recursive ASR, the diarizer and the merge of speakers. The ASR answers with ordered,
non-overlapping segments that may leave pauses, be empty or overshoot the slice, which is
what `conformance/asr.rs` 76–93 asks of an adapter and `Transcriber.swift` 90–97 enforces,
with any confidence; the recursion is a stack of frames.
`heard` and `leaves` are history variables.

`NotesPipeline` takes the transcript to notes: topic segmentation one segment per
step, then the sections in parallel, one call of the provider per step. A text is its
length, a summary its length and the speaker it cites.

`MCStorage`, `MCRecording`, `MCMeetingFiles` and `MCNotesClient` add symmetry sets;
`MCTranscription` and `MCNotesPipeline` give tracks and segments their shapes.
`StorageProofs` (over `StorageTwin`), `RecordingProofs` (over `RecordingApp`),
`NotesJobsProofs`, `NotesClientProofs`, `MeetingFilesProofs`, `EngineStartProofs`,
`AdapterProofs` (over `ModelDownload` and `Sidecar`) and `NotesRunProofs` (over
`Transcription` and `NotesPipeline`) hold the theorems. Where one proof module extends two
components, one of them names its specification apart: `DownloadSpec`, `PipelineSpec`.

## What the runs check

| Run | Module, configuration | Properties | What it shows |
|---|---|---|---|
| `storage_sidebar` | `MCStorage`, `StorageSidebar.cfg` | `ReferentialIntegrity`, `ProjectInItsSpace`, `SidebarPartition`, `DistinctPositions`, `TwinsAgree` | Meetings filed under spaces and projects that are created, renamed, deleted and reassigned in any order, on the registry and its in-memory twin at once: references resolve through two levels of cascades, a meeting's project lies in its space, the sidebar's lists partition the meetings, positions stay distinct and the twins agree. |
| `storage_notes` | `MCStorage`, `StorageNotes.cfg` | `ReferentialIntegrity`, `TwinsAgree`, `FailedCallChangesNothing` | Notes, tags and meeting ids that clash: references resolve, a call that returns an error leaves every table as it was, and the twin refuses the same calls for the same reasons. |
| `recording_concurrent` | `MCRecording`, `RecordingConcurrent.cfg` | `NoOrphanCapture`, `CaptureEndsOnlyByItsStop` | Three recording.start/stop calls interleaved with sidecar exits and deleted meetings: every capture stays within reach of a stop, and ends only by its own stop or with the sidecar. |
| `recording_app` | `RecordingApp`, `RecordingApp.cfg` | `AppShowsCapture`, `AutoNotesHonoured` | The app as the only client: it never shows an idle window while the sidecar captures, nor a recording that no start was accepted for, and a stop that succeeds runs the notes job exactly when its capture had asked for it. |
| `notes_jobs` | `NotesJobs`, `NotesJobs.cfg` | `PermitsConserved`, `OneTerminalEventLast`, `TerminalEventAccounted`, `ImplementsService`, `ListenersLearnTheOutcome` | Two jobs for one permit, with warm-up, errors and panics, and a subscriber that connects, lags and disconnects at any moment: permits are conserved, each job sends one terminal event, last, a listener gets it or lost it to the ring, and the jobs implement NotesService, liveness included. |
| `engine_start` | `EngineStart`, `EngineStart.cfg` | `ServingOwnsThePath`, `OpenSchemaComplete`, `LoneEngineRecovers` | Engines that open the registry and then the socket, at the same time or one after the other, are killed between any two statements or system calls and start again: who serves owns the path, unless it bound while another was about to remove the name, and has the whole schema, and an engine alone always comes up. |
| `files_concurrent` | `MCMeetingFiles`, `FilesConcurrent.cfg` | `RowHasDirectory`, `StrayDirectoriesExplained`, `NotesTornOnlyByExport`, `VideoFreedOnce` | Three overlapping requests with failing file operations and kills: a row always has its directory, stray directories and incomplete notes have one of the known causes, a video is freed once. |
| `notes_client` | `MCNotesClient`, `NotesClient.cfg` | `ProcessingMarksNoOtherMeeting`, `NoLostWakeup`, `WatchedWhileWorking` | The app following two notes jobs that start one after the other or overlap between click and polling task, over a WebSocket that fails, is stopped late or drops: no wake-up is lost, a live polling task stands behind every job being worked on and the right meeting is marked, except that flows which have crossed may leave the mark or the task on another meeting. |
| `model_download` | `ModelDownload`, `ModelDownload.cfg` | `ReadyIsIntact`, `MarkerHonest`, `Recovers` | Three kinds of model fetched over a network that truncates, oversizes and fails, with kills between any two steps and a user who replaces or removes files: what is handed to an adapter was checked, the marker never vouches for another file, and later starts get through unless a bad file was left where no start removes it. |
| `sidecar` | `Sidecar`, `Sidecar.cfg` | `ReplyMatchesCall`, `IdleSlotUsable`, `CallsReturn` | Two callers of one helper process that answers late, wrongly, twice or never, hangs and exits: a caller gets the reply to its own request, a broken child is not kept, and every call returns, except an ASR call on a child that hangs and the calls behind a completion too large for the pipe of one. |
| `transcription` | `MCTranscription`, `Transcription.cfg` | `SpeechTranscribedOnce`, `TranscriptOrdered`, `LocalSpeakerIsTheMic` | One or two tracks through VAD, recursive ASR, diarization and merge, for every small set of speech regions, every answer of ordered segments and every pattern of confidences: the leaves cover the speech exactly once, the transcript is ordered and inside the audio, and the local speaker's id is the microphone's alone. |
| `notes_pipeline` | `MCNotesPipeline`, `NotesPipeline.cfg` | `NotesComplete`, `PromptsFit`, `NotesHonest`, `GenerateReturns` | Transcripts of up to three segments through topic segmentation, chunked narratives, merging and anchoring, with a provider that answers anything: the sections hold every segment once, prompts keep to the budget, notes cite nobody who did not speak, and generate returns. |

Every run passes. Deadlock is checked wherever the system must go on. The notes, file, client,
sidecar, transcription and pipeline runs, in which everything asked for may have been
answered, turn it off.

### Bounds

- *Registry*: two meetings, two directories, three spaces and two projects let a
  meeting move between spaces, a space disappear under a project and a gap open in
  the numbering; the notes run has two notes and two tags, so that ids and names
  clash. Ids are symmetric.
- *Recording*: three calls in flight is one more than any pair that can interact
  on one meeting; two meetings let a second start meet a running capture.
- *Notes*: two jobs for one permit is the least with a waiting job; a ring of
  two is the least in which an overrun loses one event and keeps one.
  `MaxRegions` bounds the `transcribing` events of one job.
- *Engine start*: three engines, so that one may serve while another starts and a
  third has crashed, or two race and a third is robbed; four inodes, one more than
  engines. The file starts empty, at version 1, current, or newer.
- *Files*: three requests is the least in which a save, a delete and a job meet on
  one meeting; two meetings, one of them new. A request is made once;
  `MaxInFlight` says how many overlap.
- *Client*: two flows and two meetings, so that a watcher of one job meets the state of
  another; a buffer of one, so that one job's end evicts another's. Two bounds
  (`CrossOverStillStream`) apply once flows have crossed: the connection neither opens nor
  drops by itself, and a stop of the event stream runs as soon as it is spawned; flows that
  follow one another meet all of it. With two flows none begins alone after a crossing;
  that this sets things right, and everything else beyond the bounds, is in the theorems.
- *Model download*: a file of two units, so that a download may be empty, short,
  whole or too long; `MaxFaults = 3` failures from outside is one more than the two
  (a kill and a bad mirror, a replaced file and a kill) that interact.
- *Sidecar*: two callers, so that one waits for the mutex while the other fails;
  three calls, so that one follows a failure and its recovery; a pipe of two lines
  holds an answer and a stray one.
- *Transcription*: tracks of up to four units with every list of up to `MaxRegions = 2`
  speech regions, overlapping, touching or empty ones included, every answer of up to
  `MaxPieces = 2` segments, with and without pauses, and of up to `MaxTurns = 2` turns; a
  region can be cut to `MAX_DEPTH`, and both triggers, a cut too close to an edge and the
  depth limit on a piece still long enough to be cut occur. Two turns are enough for a minor
  speaker before or behind a major one.
- *Pipeline*: three segments of six shapes give up to three sections, a section that
  is chunked, chunks whose summaries are merged in more than one round, and a segment
  too long for any prompt. Overheads of two units leave three for the payload.

### Fairness

`FairSpec` of `NotesJobs` assumes that each job's task and each subscription's
task keeps being scheduled (tokio polls what it has spawned) and that each
pipeline stage returns. `NotesPipeline` and `Sidecar` look into two of those stages.
No client is assumed to submit, subscribe or unsubscribe.

`Sidecar` assumes that threads run, that deadlines pass, and that a child which is up
answers; one that hangs or exits owes nothing. The "asr" adapter has no deadline, and
neither has the write of a request to either helper, so `CallsReturn` excepts the first
while its child hangs, and with it every call once a completion is stuck in a full pipe
(`Stuck`). The probe of `pick_llm` is short and fits any pipe: the choice of a provider is
excepted by nothing. `ModelDownload` assumes that a running
process makes progress and that one that ended is started again; failures are bounded
by `MaxFaults`, which is what "the network comes back" means here. `NotesPipeline`
assumes that each call of the provider answers. Nothing is assumed in `EngineStart`:
`LoneEngineRecovers` is an action property, no step of a lone engine gives up.

## Where the code and its documents differ

Five places where the code does not do what its comments or tests say. Each was
found as a counterexample to the claim quoted, in a configuration of these modules that is
not kept as a run. The properties of the runs above are stated so as to hold with them,
and the steps that lead there are in the models: in the second `rivals` are the engines
that may be robbed, in the fourth `crossed` says that flows have overlapped, in the fifth
`Stuck` names the calls that wait.

- src/crates/panops-engine/src/server/handlers.rs:671: recording.stop removes the engine-side session before it calls stop_capture, so when stop_capture fails every later recording.stop answers InputNotFound and the app, which keeps isRecording, can neither stop nor start again; src/apps/Panops/Sources/Panops/LiveRecordingController.swift:83 says "keep recordingId + isRecording so the user can retry Stop instead of orphaning the engine-side recording".
- src/crates/panops-engine/src/server/socket.rs:75: between the refused probe and remove_file another engine may have unlinked the stale socket and bound its own; the second remove_file then unlinks a live socket and both engines serve (the remove_file after a failed set_permissions, 117, can do the same); src/crates/panops-engine/src/server/socket.rs:3 says "The probe-then-unlink dance prevents two engine instances from racing on the same socket path while still recovering from a stale file left after a crash.".
- src/crates/panops-engine/src/server/handlers.rs:246: notes.save renames notes.md and replaces the note row in two separate steps, so of two overlapping saves one can win the file and the other the row, both answering Ok; src/crates/panops-engine/tests/ipc_meeting_rename_and_notes_save.rs:7 says "`notes.save` writes `<meeting_dir>/notes.md` with the supplied markdown AND replaces the meeting's `note` row with a single fresh row carrying the new content.".
- src/apps/Panops/Sources/Panops/AppViewModel.swift:1019: state is set to .working only after the subscription and notes.generate were awaited, so isNotesJobActive does not keep a second flow (the automatic one after a stop, or another click) from starting; each flow then calls startPolling, which cancels the other's task, and when the flow that started first polls last, .working is left on a meeting no polling task and no callback watches; src/apps/Panops/Sources/Panops/AppViewModel.swift:211 says "a terminal event arrives, the UI must not stay working forever.".
- src/crates/panops-mac/src/foundation_llm.rs:234: a completion is written with a blocking write_all that no deadline covers, while the state mutex is held, so a request larger than the pipe to a helper that stopped reading (the frontmatter prompt is not cut to any budget) blocks its caller and every later one for ever; src/crates/panops-mac/src/foundation_llm.rs:24 says "Completion can legitimately take longer, but still must be bounded so a wedged model/sidecar does not poison the adapter forever.".

`events.subscribe` acknowledges the client (`handlers.rs` 763) before it creates the
receiver (764), so a job submitted on the acknowledgement may end unheard;
`TerminalEventAccounted` therefore speaks of subscribers that were listening when the
job was accepted, and `WatchedWhileWorking` is what protects the app.

`AutoNotesHonoured` is checked for the app, which waits for a start's answer
before it offers Stop. With a second client it fails: `recording.start` publishes
the session (`handlers.rs` 623) and stores the auto-notes flag (629) under two
mutexes, and a stop that comes between the two finds no flag.

Smaller things a reader of the code should know, none of which breaks a property:

- `topic_segmentation.rs` 107 breaks a tie between dominant speakers by the order of
  a hash map, so the sections of one transcript may differ between two runs.
- A gap between segments is measured to the previous segment's end; in a two-track
  transcript a long remark that others speak over ends after its successor starts,
  and the silence that follows is measured from the shorter one.
- The frontmatter prompt is not cut to any budget.
- `whisperkit_asr.rs` waits for its helper without a deadline.
- An unpacking of the segmentation model that is cut short leaves a file later starts
  accept (`model.rs` 679), and a bad file that was there before is refused at every
  start but never removed.

## What is proved

For any constants that satisfy the modules' assumptions:

| Theorem | Says |
|---|---|
| `StorageProofs!TypeCorrect` | The tables keep their types, positions included, whatever operations are called. |
| `StorageProofs!ReferencesResolve` | No sequence of calls leaves a note, project, tag link or meeting that refers to a deleted row. |
| `StorageProofs!ProjectAndSpaceAgree` | A meeting filed under a project always carries that project's space. |
| `StorageProofs!SidebarShowsEachMeetingOnce` | Unsorted, the spaces' loose meetings and the projects partition the meetings. |
| `StorageProofs!TwinIsTheRegistry` | The registry driven in lockstep with its fake is the registry of Storage: the runs of the twins check the specification the theorems are about. |
| `StorageProofs!PositionsStayDistinct` | No two spaces, and no two projects of a space, ever share a sort position, whatever gaps deletions have left. |
| `StorageProofs!FailureChangesNothing` | A registry call that reports an error leaves every table as it was, a DELETE that matches nothing and its cascades included. |
| `StorageProofs!FakeIsTheRegistry` | InMemoryStorage and the SQLite registry, driven by the same calls, always hold the same rows, give the same answers and list the same meetings. |
| `RecordingProofs!CaptureStaysOwned` | However many recording.start and recording.stop calls overlap, and whenever the sidecar exits, a running capture can be reached by a stop for its meeting. |
| `RecordingProofs!CaptureIsExclusive` | No handler takes a capture away from its meeting: it ends by its own stop or with the sidecar process. |
| `RecordingProofs!WindowShowsCapture` | While no call is under way the window shows whatever the sidecar captures, its Stop button is for that meeting, and a start that was refused has left no flag. |
| `RecordingProofs!StopHonoursAutoNotes` | With the app as the client, a stop that succeeds passes on the auto_generate_notes its recording was started with. |
| `NotesJobsProofs!Backpressure` | Permits are conserved through waiting, finishing and panicking, for any number of jobs and permits. |
| `NotesJobsProofs!TypeCorrect` | The job and event state keeps its types. |
| `NotesJobsProofs!ExactlyOneOutcome` | Every job sends exactly one terminal event and nothing after it. |
| `NotesJobsProofs!JobsImplementService` | The jobs implement the safety part of the service promised to callers, NotesService. |
| `NotesJobsProofs!OutcomeIsAccountedFor` | For any ring size and any pace of reading, a subscriber that listened when a job was accepted has the job's terminal event exactly once, waiting, delivered or overrun, and nothing of the job after it. |
| `NotesClientProofs!NoWakeupIsLost` | For any number of jobs and any buffer size, whichever of registerCallback and route comes first, no callback waits for a terminal event that lies in the buffer. |
| `NotesClientProofs!MarkIsOnTheRightMeeting` | Whatever flows overlap, the processing mark is never on a meeting other than the one being worked on, unless flows have crossed and none has begun alone since. |
| `NotesClientProofs!WorkIsWatched` | Whatever flows overlap, a window that shows work in progress, with no flow on its way, has a live polling task and a time-out clock that runs; the task is for that meeting, or one of another meeting where flows have crossed. |
| `MeetingFilesProofs!RowsHaveDirectories` | Whatever calls overlap and wherever the engine is killed, a meeting in the registry has its directory. |
| `MeetingFilesProofs!StraysAreExplained` | A directory without a row is being made or removed, or its being left over is on record: a creation or removal that failed half way, a kill, or a notes job that outlived its meeting. |
| `MeetingFilesProofs!SaveTearsNoNotes` | An incomplete notes.md comes from an export, never from notes.save. |
| `MeetingFilesProofs!VideoIsFreedOnce` | Of any number of overlapping meeting.deleteVideo calls one at most reports the video as freed. |
| `EngineStartProofs!OpenSchemaIsComplete` | However many engines open one database file at once and are killed between statements, an engine that has opened it has the whole schema. |
| `EngineStartProofs!LoneEngineServes` | No step of an engine that has met no other gives up, whatever files earlier ones left behind. |
| `EngineStartProofs!ServingEngineOwnsPath` | However many engines start, stop and die at once, one that serves owns the socket path, unless it bound while another was about to remove the name or beside one that had. |
| `AdapterProofs!MarkersAreHonest` | A verification marker that is valid for the model file vouches for the bytes that were hashed. |
| `AdapterProofs!ReadyModelIsIntact` | A model handed to an adapter is intact, unless one of the recorded causes has left a bad file in place. |
| `AdapterProofs!RepliesArePaired` | A call that returns a result has the reply to its own request. |
| `AdapterProofs!SlotStaysUsable` | An idle adapter holds no child whose stream is out of step with it. |
| `NotesRunProofs!SpeechIsTranscribedOnce` | However long the tracks are, whatever regions the VAD reports and wherever answers are cut, every instant of speech is in exactly one chunk that was kept, and no cut leaves a chunk shorter than `MIN_REGION_MS`. |
| `NotesRunProofs!TranscriptIsOrdered` | The transcript is ordered by start, and no segment is inverted or ends past its track, for one track or two. |
| `NotesRunProofs!LocalSpeakerIsMic` | In a two-track transcript speaker 0 is the microphone's and nobody else's, whatever the diarizer answers and however it is collapsed. |
| `NotesRunProofs!NotesAreComplete` | For any transcript and any thresholds the sections hold every segment once and in order, none is inverted, and a screenshot lies in a section around it if there is one. |
| `NotesRunProofs!PromptsAlwaysFit` | Every chunk waiting to be sent fits the context threshold or is a single segment, and the chunks not yet sent are the end of their section, in order. |
| `NotesRunProofs!NotesAreHonest` | Whatever the provider answers, notes are reported only when it answered for some section and cite only speakers of the transcript; the request fails only when it failed for every section. |

No theorem has a hypothesis of its own: all assume only what the modules state of their
constants.

*Registry.* `TypeOK` is not inductive: `next_position` takes the maximum of a set
of positions, which exists only for a bounded set, so `TypeInv` adds that the
positions in use are bounded. References need `Integrity`: the four foreign keys,
the agreement of `project_id` and `space_id`, and `LiveIdsIssued` (every row's id
has been issued), without which a new space or project could take the id of a
deleted one that something still refers to. The proof goes action by action; the
interesting cases are `delete_space`, which reaches meetings along two paths, and
`assign_meeting`. The sidebar's partition follows from integrity. Positions are
distinct because `next_position` lies above all that are in use and a new row takes
an id nobody has. That a failed call changes nothing is immediate except for a DELETE,
which runs before its row count is looked at: it matches no row, and by integrity no
row refers to what is not there, so the cascades are empty too.

*The registry's fake.* The runs drive the registry together with its fake (`TwinSpec`);
`TwinIsTheRegistry` shows that this is the registry of `Storage`, so model and proofs are
about the same specification. `Coupled` relates the two states: the same notes, spaces,
projects and tags, the same meetings, and a column of a meeting's row is set exactly
when the fake's map has the entry. From it follow the same rows and lists
(`CoupledRows`); each call preserves it and gives both the same answer, one lemma per
call. The fake checks before it deletes and SQLite deletes before it counts, which is
where the registry's integrity is needed.

*Recording.* `NoOrphanCapture` is inductive once the calls are known to be records
(`CallsTyped`): its second and third parts, who holds the session and whom the adapter
knows, are what the other needs when a call leaves its holding place. Most actions
are `Harmless`: they leave the capture alone and move a call between places the
invariant does not read. The interesting case is `StopCapture` on a meeting the
adapter does not know: the capture then still belongs to the start that made it.

*The app's recording.* `AInv` says where the call may be for each state of the window
(`ButtonsInv`), whose the capture is at each place of the call (`CaptureInv`), and where
the auto-notes flag has got to (`FlagInv`): on its way in the call, in the engine's map
from the end of a start on, and back in the call once a stop has taken it. Engine steps
preserve it whatever the app does next; the app's own steps use `ButtonsInv`.

*Notes jobs.* Counting permits is not inductive: dropping a permit hands it to the
head of the queue, so `QueueInv` also says that the queue lists waiting jobs, each
once. `DataInv` types the event state. That a job's terminal event is unique and
last (`OneTerminalEventLast`) is inductive with the typing, and gives the step
simulation of `NotesService`: each action leaves every outcome alone, accepts one
job or settles one job. The accounting of events rests on `LedgerInv`: until a job has
ended nothing terminal of it is in any ring or account, a terminal event that still
waits is the last event of its job in that ring, and a job whose terminal event was
delivered or overrun has nothing left in the ring. A push that overruns the ring and a read move the event from one place to
the next; neither can make a second one.

*App job tracking.* `NoLostWakeup` needs `OneEntryPerJob`: the terminal event of a job is
on the wire or in the buffer once, never in both, so a replay cannot leave a second copy
behind a callback. The mark needs `Undisturbed`, which holds while
`crossed` does not: one flow at most is on its way, it may rely on what the window shows
(`OnItsWay`), and the mark is right. Every step but the beginning of a flow preserves it
(`MarkStep`), and a flow that begins alone establishes it, whatever crossed before
(`BeginningAlone`). That work is watched needs no such thing: `Covered` says that behind a
window that works there is either a flow about to attach its polling task (`Attaching`) or
a task in charge (`InCharge`), for any number of flows at once. `reset` and
`startNewGenerationFlow` may come at any of a flow's suspensions.

*Meeting files.* `RowHasDirectory` needs `CreatorInv`: a meeting being created belongs to
one call, and every other call that names it is before its lookup or over; and
`DeleterInv`: a directory is removed only after its row. `FreedInv` says that the calls which have
reported a video as freed are over, that the video is gone, and that there is one at most
for each meeting.

*Engine start.* The statements of the two programs (new file, version 1) are written out;
`WorkInv` says that each engine's `todo` is the rest of one of them and that the objects
of the statements behind it are in the file, whoever ran them; `FileInv` what a stamped
version implies. `LoneEngineRecovers` needs `LoneInv`: an engine that has met no
other is the only one at work, so what it has read of the schema and seen at the path
still holds when it acts. `ServingOwnsThePath` needs
`RivalInv`: beside a rival there are only rivals, so too beside an engine that is about to
remove the name, and no inode has two listeners. An owner that is no rival is then alone
with the path (`OwnerIsAlone`), and no step of another engine takes it.

*Model download.* A marker is honest because it is written from a file that has just been
hashed (`HashedInv`), unless the user came between the two, which `blame` records. An
answer may rest on a segmentation model that another start unpacked (`SegInv`).

*Sidecar.* `StreamInv` accounts for every line from the request that asks for it to the
read that takes it. It needs `HolderInv`, the mutex is held by the call between spawn and
reply, and `StartInv`, that `pick_llm`, which drops the adapter without taking the mutex,
runs before anybody else calls.

*Lists.* The transcription and the pipeline are loops over lists of any length, written as
folds. The provers cannot instantiate the library's induction theorems, which take an
operator, but they can use well-founded induction on a set: a set of numbers that holds 0
and, with each number, the next holds every number, or its complement had a least element
(`Induction`, `InductionUpTo`). `FoldSteps` turns a fold into the sequence of its
intermediate results, and each loop of the code gets such a sequence (`MergeSteps`,
`JoinSteps`, `BudgetSteps`, `AnchorSteps` and others) along which a claim is carried.
Sorting is by rank in `SortByStart`, because of the library's sorting operator nothing can
be proved; that the ranks are distinct and ordered makes the result sorted, stable and of
the same elements.

*Transcription.* `SpeechTranscribedOnce` is about the end of a track; before it, an
instant heard is in a chunk that was kept, in a frame still on the stack or in a region
still to do (`SpeechPlaced`). That it is in one only follows from their order: the chunks,
the frames and the regions each lie one behind the other, and each of the three behind the
one before (`WorkOrdered`). A cut keeps this because it lies inside its frame,
`MIN_REGION_MS` from both ends, which `Keeps` guarantees has room for two such pieces. The
same order makes a track's segments sorted (`TracksKept`): an answer is moved to its frame
and cut off at its end, so nothing starts after the work that follows. Speakers are
numbers before `merge_two_track` moves them up by one, whatever
`collapse_minor_speakers` and the clamp have done to the turns, so none of them is 0.

*Notes pipeline.* `Tiles(ss, n)` says that the sections are the first `n` segments cut at
increasing places (`Bounds`): each reaches from the start of its first segment to the end
of its last. A scanned segment extends the last section or opens one, joining short
sections removes cuts, and in both cases the tiling remains. `NotesComplete` is read off
it: the indices put end to end are 1 to `n`, and since the transcript is ordered and no
segment inverted, no section is. Each of the two splitting loops keeps its chunks
non-empty and their concatenation equal to the section; the second makes each `Sendable`.
`WorkLeft` then follows one section through its calls: what was sent, then what waits, is
the section. `WorkSound` says that only a narrative the provider failed is failed, that
it is then done with a fallback, and that one that is done cites speakers of the
transcript; `Ending` is what the barrier makes of it.

Only model-checked is what needs fairness: `ListenersLearnTheOutcome`, the liveness of
`ImplementsService`, `CallsReturn`, `Recovers` and `GenerateReturns`. This
prover has no rules for fairness and `ENABLED`. Every invariant and every action property
of the runs is a theorem.

## What is not modelled

- ASR, speaker clustering, LLM and ScreenCaptureKit themselves: numeric or external.
- Sample decoding and resampling (`audio.rs`): numeric.
- Wire formats, wording of prompts, Markdown rendering, views, argument parsing:
  conversions without state. Prompts appear by their length.
- Titles, key points and languages of notes: no decision reads them.
- The other fakes of `fakes.rs` and the conformance suites: canned answers.
- The app's sidebar fetches and `EngineProcess`: see the plan.
- A transport failure after the engine has accepted `recording.start`: the app's `catch`
  (`LiveRecordingController.swift` 70) takes `isRecording` back, so the window would go idle
  while the sidecar captures. `RecordingApp` lets the call fail only by the engine's answer.
- A version-0 file half made by a version-1 engine. `RusqliteStorage::new` would run its
  `IF NOT EXISTS` statements over it and stamp version 2 without the two added columns; what
  such an engine wrote, and in which order, is not in this repository.
- The second subscription when two set-ups overlap and both end up on one connection
  (`IpcClient.swift` 198–273): every event then comes twice, and a job's second terminal
  event finds no callback.
- Two errors after which `screencapturekit_capture.rs` keeps its slot: a reply that is not
  UTF-8 (266) and one without result or error (306). The sidecar never writes either: its
  replies go through `emit` and `emitError` (`main.swift` 82–107).
- jsonrpsee's connection handling and the 100-connection guard: library code.
- Poisoned mutexes: the sections under the locks do not panic.
- Filesystem tampering (`validate_meeting_dir`): the rows hold paths the engine
  itself has written.

## Plan

1. The rest of the app's job tracking: the sidebar's fetches and their tokens, the
   reload of the workspace, the save status; the WebSocket set-up step by step.
2. The engine's owner in the app (terminate, kill, relaunch), composed with
   `EngineStart`.
3. Proofs: step lemmas for the liveness properties (a measure each action reduces), from
   which a prover with rules for fairness could go on.
