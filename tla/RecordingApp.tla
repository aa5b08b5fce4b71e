----------------------------- MODULE RecordingApp -----------------------------
(***************************************************************************)
(* The recording stack with the app as its only client:                    *)
(* apps/Panops/Sources/Panops/LiveRecordingController.swift, driven by the *)
(* Record and Stop buttons (RecordBar.swift) and by                        *)
(* AppViewModel.startNewRecording, which deletes the meeting it has just   *)
(* created when the recording cannot be started.                           *)
(*                                                                         *)
(* The buttons are disabled while a call is awaited, so the app has one    *)
(* call in flight; the other calls of the engine are nobody's and never    *)
(* begin.                                                                  *)
(***************************************************************************)
EXTENDS Recording

CONSTANT app          \* the app's call
ASSUME AppIsACall == app \in Calls

VARIABLES
  isRecording,        \* optimistic: set before the engine has accepted
  recordingId         \* set once recording.start is accepted

appVars == <<isRecording, recordingId>>
allVars == <<vars, appVars>>

AppInit == Init /\ isRecording = FALSE /\ recordingId = None

\* start(meetingId:options:) up to its await.
AppStart(m, auto) ==
  /\ ~isRecording
  /\ BeginStart(app, m, auto)
  /\ isRecording' = TRUE
  /\ recordingId' = None

\* The rest of start.  On an error startNewRecording also deletes the meeting;
\* RecordBar, which records into an existing meeting, does not.
AppStarted ==
  /\ call[app].pc = "done" /\ recordingId = None
  /\ call' = [call EXCEPT ![app] = Idle]
  /\ IF call[app].reply = "Ok"
     THEN /\ recordingId' = call[app].m
          /\ UNCHANGED <<isRecording, rows>>
     ELSE /\ isRecording' = FALSE
          /\ rows' \in {rows, rows \ {call[app].m}}
          /\ UNCHANGED recordingId
  /\ UNCHANGED <<sessions, autoNotes, slot, live, current, wanted>>

\* stop() up to its await; without a recordingId it returns at once.
AppStop ==
  /\ recordingId # None
  /\ BeginStop(app, recordingId)
  /\ UNCHANGED appVars

\* The rest of stop: on an error both fields are kept for a retry.
AppStopped ==
  /\ call[app].pc = "done" /\ recordingId # None
  /\ call' = [call EXCEPT ![app] = Idle]
  /\ IF call[app].reply \in {"Ok", "OkJob"}
     THEN recordingId' = None /\ isRecording' = FALSE
     ELSE UNCHANGED appVars
  /\ UNCHANGED <<rows, sessions, autoNotes, slot, live, current, wanted>>

EngineStep == Step(app) /\ UNCHANGED appVars

Environment ==
  /\ SidecarExits \/ \E m \in Meetings : DeleteMeeting(m)
  /\ UNCHANGED appVars

AppNext ==
  \/ \E m \in Meetings, auto \in AutoChoices : AppStart(m, auto)
  \/ AppStarted \/ AppStop \/ AppStopped
  \/ EngineStep
  \/ Environment

AppSpec == AppInit /\ [][AppNext]_allVars

-----------------------------------------------------------------------------
\* Whenever the sidecar captures a meeting and no call is under way, the app
\* shows that recording and its Stop button acts on it: the microphone and the
\* screen are never recorded behind an idle window.  And the flag that was set
\* before the engine answered is by then confirmed or taken back: no window
\* shows a recording that neither button can end.
AppShowsCapture ==
  call[app].pc = "idle" =>
    /\ current # None => isRecording /\ recordingId = current
    /\ isRecording <=> recordingId # None
=============================================================================
