------------------------------ MODULE Recording ------------------------------
(***************************************************************************)
(* Live recording, from the IPC handlers down to the capture sidecar:      *)
(*   - recording.start and recording.stop of the engine                    *)
(*     (crates/panops-engine/src/server/handlers.rs), each call on its own *)
(*     blocking thread, with two maps behind two mutexes;                  *)
(*   - the adapter ScreenCaptureKitCapture                                 *)
(*     (crates/panops-mac/src/screencapturekit_capture.rs), which owns the *)
(*     sidecar process and its own map of live sessions;                   *)
(*   - the sidecar panops-capture-mac, which captures one meeting at a     *)
(*     time and may exit at any moment.                                    *)
(*                                                                         *)
(* A step is what runs under one lock.  call() holds the adapter's state   *)
(* mutex for the whole request and reply, so it is one step;               *)
(* stop_capture also holds the session mutex around it.                    *)
(*                                                                         *)
(* The sidecar's "response send failed" branch is left out: the values it  *)
(* encodes are numbers and paths, whose encoding cannot fail.              *)
(***************************************************************************)
EXTENDS FiniteSets

CONSTANTS
  Meetings,
  Calls,        \* IPC calls that may be in flight together
  AutoChoices,  \* values of auto_generate_notes that clients send
  None

ASSUME NoneIsNoMeeting == None \notin Meetings

ASSUME AutoIsBoolean == AutoChoices \subseteq BOOLEAN

VARIABLES
  rows,         \* meetings that are in the registry
  sessions,     \* IpcImpl.sessions: meetings with an engine-side session
  autoNotes,    \* IpcImpl.auto_notes: meetings whose entry is true
  slot,         \* adapter.state: "none", or the child's state "live" / "dead"
  live,         \* adapter.sessions
  current,      \* the sidecar's current capture
  call,         \* the calls in flight
  wanted        \* history: meetings whose capture was started with auto notes

vars == <<rows, sessions, autoNotes, slot, live, current, call, wanted>>

\* auto: the parameter of start, or the flag that stop took.
\* asked: at stop, whether the capture it ended was started with auto notes.
Request(pc, m, auto) ==
  [pc |-> pc, m |-> m, auto |-> auto, asked |-> FALSE, reply |-> "none"]

Idle == Request("idle", None, FALSE)

Init ==
  /\ rows = Meetings
  /\ sessions = {} /\ autoNotes = {} /\ live = {} /\ wanted = {}
  /\ slot = "none" /\ current = None
  /\ call = [c \in Calls |-> Idle]

At(r, pc) == [r EXCEPT !.pc = pc]

Goto(c, pc) == call' = [call EXCEPT ![c] = At(@, pc)]
Reply(c, r) == call' = [call EXCEPT ![c] = [At(@, "done") EXCEPT !.reply = r]]

-----------------------------------------------------------------------------
(***************************************************************************)
(* Calls arrive and return.                                                *)
(***************************************************************************)

BeginStart(c, m, auto) ==
  /\ call[c].pc = "idle"
  /\ call' = [call EXCEPT ![c] = Request("start_check", m, auto)]
  /\ UNCHANGED <<rows, sessions, autoNotes, slot, live, current, wanted>>

BeginStop(c, m) ==
  /\ call[c].pc = "idle"
  /\ call' = [call EXCEPT ![c] = Request("stop_auto", m, FALSE)]
  /\ UNCHANGED <<rows, sessions, autoNotes, slot, live, current, wanted>>

\* The client has read the reply.
Return(c) ==
  /\ call[c].pc = "done"
  /\ call' = [call EXCEPT ![c] = Idle]
  /\ UNCHANGED <<rows, sessions, autoNotes, slot, live, current, wanted>>

\* meeting.delete does not look at the recordings.
DeleteMeeting(m) ==
  /\ m \in rows
  /\ rows' = rows \ {m}
  /\ UNCHANGED <<sessions, autoNotes, slot, live, current, call, wanted>>

-----------------------------------------------------------------------------
(***************************************************************************)
(* The sidecar, as call() meets it.  Each operator gives the outcomes of   *)
(* one request: the slot and the current capture afterwards, and whether   *)
(* the adapter sees a result.                                              *)
(***************************************************************************)

Outcome(ok, sl, cur) == [ok |-> ok, slot |-> sl, current |-> cur]

\* ensure_spawned: a new child captures nothing; spawning may fail.
SpawnFailed == IF slot = "none" THEN {Outcome(FALSE, "none", None)} ELSE {}

\* Write error, EOF, truncated or undecodable line, missing or other id: the slot is
\* cleared, and dropping it kills a child that is still alive. Two more errors would keep
\* the slot, a line that is not UTF-8 and a reply with neither result nor error: the
\* sidecar writes no such line (emit and emitError of its main.swift).
StreamBroken == {Outcome(FALSE, "none", None)}

\* The request reaches a running child.
Served(replies) == IF slot = "dead" THEN StreamBroken
                   ELSE replies \cup StreamBroken \cup SpawnFailed

\* capture.start: refused while another capture runs; the recorder may fail.
capture_start(m) ==
  Served(IF current # None
         THEN {Outcome(FALSE, "live", current)}
         ELSE {Outcome(TRUE, "live", m), Outcome(FALSE, "live", None)})

\* capture.stop that does not compare the meeting.
CaptureStopAny(m) ==
  Served({Outcome(TRUE, "live", None), Outcome(FALSE, "live", None)})

\* A recorder that fails to stop stays the current one.
CaptureStopKeepsFailed(m) ==
  Served(IF current # m
         THEN {Outcome(FALSE, "live", current)}
         ELSE {Outcome(TRUE, "live", None), Outcome(FALSE, "live", m)})

\* capture.stop: only for the meeting that is being captured; a recorder that
\* fails to stop is dropped all the same.
capture_stop(m) ==
  Served(IF current # m
         THEN {Outcome(FALSE, "live", current)}
         ELSE {Outcome(TRUE, "live", None), Outcome(FALSE, "live", None)})

\* The child exits by itself; the adapter finds out at its next request.
SidecarExits ==
  /\ slot = "live"
  /\ slot' = "dead"
  /\ current' = None
  /\ UNCHANGED <<rows, sessions, autoNotes, live, call, wanted>>

-----------------------------------------------------------------------------
(***************************************************************************)
(* recording.start.                                                        *)
(***************************************************************************)

\* get_meeting and validate_meeting_dir.
StartCheck(c) ==
  /\ call[c].pc = "start_check"
  /\ IF call[c].m \in rows THEN Goto(c, "start_capture") ELSE Reply(c, "Err")
  /\ UNCHANGED <<rows, sessions, autoNotes, slot, live, current, wanted>>

\* start_capture: the sidecar call.
StartCapture(c) ==
  /\ call[c].pc = "start_capture"
  /\ \E o \in capture_start(call[c].m) :
       /\ slot' = o.slot /\ current' = o.current
       /\ IF o.ok
          THEN /\ Goto(c, "start_adapter")
               /\ wanted' = IF call[c].auto THEN wanted \cup {call[c].m}
                            ELSE wanted \ {call[c].m}
          ELSE Reply(c, "Err") /\ UNCHANGED wanted
  /\ UNCHANGED <<rows, sessions, autoNotes, live>>

\* start_capture: the adapter's own map, after the call has returned.
StartAdapter(c) ==
  /\ call[c].pc = "start_adapter"
  /\ live' = live \cup {call[c].m}
  /\ Goto(c, "start_session")
  /\ UNCHANGED <<rows, sessions, autoNotes, slot, current, wanted>>

\* The handler giving up when the meeting was deleted while capture started.
StartSessionIfRow(c) ==
  /\ call[c].pc = "start_session"
  /\ IF call[c].m \in rows
     THEN sessions' = sessions \cup {call[c].m} /\ Goto(c, "start_auto")
     ELSE Reply(c, "Err") /\ UNCHANGED sessions
  /\ UNCHANGED <<rows, autoNotes, slot, live, current, wanted>>

StartSession(c) ==
  /\ call[c].pc = "start_session"
  /\ sessions' = sessions \cup {call[c].m}
  /\ Goto(c, "start_auto")
  /\ UNCHANGED <<rows, autoNotes, slot, live, current, wanted>>

\* The flag read and never stored.
StartAutoForgets(c) ==
  /\ call[c].pc = "start_auto"
  /\ Reply(c, "Ok")
  /\ UNCHANGED <<rows, sessions, autoNotes, slot, live, current, wanted>>

StartAuto(c) ==
  /\ call[c].pc = "start_auto"
  /\ autoNotes' = IF call[c].auto THEN autoNotes \cup {call[c].m}
                  ELSE autoNotes \ {call[c].m}
  /\ Reply(c, "Ok")
  /\ UNCHANGED <<rows, sessions, slot, live, current, wanted>>

-----------------------------------------------------------------------------
(***************************************************************************)
(* recording.stop.                                                         *)
(***************************************************************************)

\* auto_notes.remove(..).unwrap_or(false), before the session is looked up.
StopAuto(c) ==
  /\ call[c].pc = "stop_auto"
  /\ call' = [call EXCEPT ![c] = [At(@, "stop_session") EXCEPT !.auto = call[c].m \in autoNotes]]
  /\ autoNotes' = autoNotes \ {call[c].m}
  /\ UNCHANGED <<rows, sessions, slot, live, current, wanted>>

StopSession(c) ==
  /\ call[c].pc = "stop_session"
  /\ sessions' = sessions \ {call[c].m}
  /\ IF call[c].m \in sessions THEN Goto(c, "stop_capture") ELSE Reply(c, "Err")
  /\ UNCHANGED <<rows, autoNotes, slot, live, current, wanted>>

\* stop_capture: the sidecar is asked first; the adapter forgets the session
\* only when it answered.  The screenshot extraction that follows changes
\* nothing here and its failure is ignored.
StopCapture(c) ==
  /\ call[c].pc = "stop_capture"
  /\ \/ /\ call[c].m \notin live
        /\ Reply(c, "Err")
        /\ UNCHANGED <<slot, current, live>>
     \/ /\ call[c].m \in live
        /\ \E o \in capture_stop(call[c].m) :
             /\ slot' = o.slot /\ current' = o.current
             /\ IF o.ok
                THEN /\ live' = live \ {call[c].m}
                     /\ call' = [call EXCEPT ![c] = [At(@, "stop_notes")
                                                 EXCEPT !.asked = call[c].m \in wanted]]
                ELSE Reply(c, "Err") /\ UNCHANGED live
  /\ UNCHANGED <<rows, sessions, autoNotes, wanted>>

\* A job, or none: no provider, adapters still warming up or failed, no audio.
maybe_enqueue_auto_notes == {"OkJob", "Ok"}

StopNotes(c) ==
  /\ call[c].pc = "stop_notes"
  /\ \E r \in IF call[c].auto THEN maybe_enqueue_auto_notes ELSE {"Ok"} : Reply(c, r)
  /\ UNCHANGED <<rows, sessions, autoNotes, slot, live, current, wanted>>

-----------------------------------------------------------------------------
Step(c) ==
  \/ StartCheck(c) \/ StartCapture(c) \/ StartAdapter(c) \/ StartSession(c) \/ StartAuto(c)
  \/ StopAuto(c) \/ StopSession(c) \/ StopCapture(c) \/ StopNotes(c)

Next ==
  \/ \E c \in Calls, m \in Meetings :
       BeginStop(c, m) \/ \E auto \in AutoChoices : BeginStart(c, m, auto)
  \/ \E c \in Calls : Step(c) \/ Return(c)
  \/ \E m \in Meetings : DeleteMeeting(m)
  \/ SidecarExits

Spec == Init /\ [][Next]_vars

-----------------------------------------------------------------------------
(***************************************************************************)
(* Properties.                                                             *)
(***************************************************************************)

\* Calls that will still record the session of m, or end its capture.
Holding(m) ==
  {c \in Calls : call[c].m = m
     /\ call[c].pc \in {"start_adapter", "start_session", "stop_capture"}}

\* While the sidecar captures a meeting, a recording.stop for that meeting can
\* reach the capture: the engine holds its session, or a call that is on its
\* way to store or to stop it, and the adapter would not refuse that stop with
\* SessionNotFound, except before start_capture has returned.  Nothing the two
\* handlers do in any order, with the sidecar exiting in between, leaves a
\* capture nobody can stop.
NoOrphanCapture ==
  current # None =>
    /\ slot = "live"
    /\ current \in sessions \/ Holding(current) # {}
    /\ \/ current \in live
       \/ \E c \in Calls : call[c].m = current /\ call[c].pc = "start_adapter"

\* A capture is never replaced by another one and ends only by a stop for the
\* same meeting or with the sidecar process itself.
CaptureEndsOnlyByItsStop ==
  [][current # None /\ current' # current =>
       /\ current' = None
       /\ \/ slot' # "live"
          \/ \E c \in Calls : /\ call[c].pc = "stop_capture" /\ call'[c] # call[c]
                              /\ call[c].m = current]_vars

\* A successful stop goes on to the notes job exactly when the capture it ended
\* was started with auto_generate_notes, whatever failed or exited in between.
\* Holds for a client that awaits each reply, as the app does: stop takes the flag
\* before the session and start stores the session before the flag, so a stop
\* that overtakes its start would miss it.
AutoNotesHonoured ==
  \A c \in Calls : call[c].pc = "stop_notes" => call[c].auto = call[c].asked

=============================================================================
