--------------------------- MODULE RecordingProofs ---------------------------
(***************************************************************************)
(* The capture is never lost and never taken by another meeting, for any   *)
(* number of meetings and of calls in flight.                              *)
(***************************************************************************)
EXTENDS RecordingApp, TLAPS

Labels ==
  {"idle", "start_check", "start_capture", "start_adapter", "start_session", "start_auto",
   "stop_auto", "stop_session", "stop_capture", "stop_notes", "done"}

Replies == {"none", "Err", "Ok", "OkJob"}

CallRecord ==
  [pc : Labels, m : Meetings \cup {None}, auto : BOOLEAN, asked : BOOLEAN, reply : Replies]

CallsTyped == call \in [Calls -> CallRecord]

\* NoOrphanCapture is inductive once calls are known to be records.
IInv == CallsTyped /\ NoOrphanCapture

\* A request that leaves a capture running has found or made it so: by the
\* start that succeeded, or because it was for another meeting.
LEMMA StartOutcomes ==
  ASSUME NEW m, NEW o \in capture_start(m), NoOrphanCapture
  PROVE  /\ o.current # None => o.slot = "live"
         /\ o.current # None => (o.ok /\ o.current = m /\ current = None) \/ o.current = current
         /\ o.ok => o.current = m /\ current = None
         /\ current # None => o.current = current \/ (o.current = None /\ o.slot # "live")
BY DEF capture_start, Served, StreamBroken, SpawnFailed, Outcome, NoOrphanCapture

\* A stop leaves a capture running only if it belongs to another meeting.
LEMMA StopOutcomes ==
  ASSUME NEW m, NEW o \in capture_stop(m), NoOrphanCapture
  PROVE  /\ o.current # None => o.slot = "live" /\ o.current = current /\ current # m
         /\ current # None => o.current = current \/ (o.current = None /\ (o.slot # "live" \/ current = m))
BY DEF capture_stop, Served, StreamBroken, SpawnFailed, Outcome, NoOrphanCapture

\* What NoOrphanCapture reads of a step of call c: it goes to pc, for meeting m.
Moves(c, pc, m) ==
  /\ CallsTyped'
  /\ call'[c].pc = pc /\ call'[c].m = m
  /\ \A d \in Calls \ {c} : call'[d] = call[d]

LEMMA RecordMoves ==
  ASSUME CallsTyped, NEW c \in Calls, NEW r \in CallRecord, call' = [call EXCEPT ![c] = r]
  PROVE  Moves(c, r.pc, r.m)
BY DEF Moves, CallsTyped

LEMMA AtField ==
  ASSUME CallsTyped, NEW c \in Calls, NEW pc \in Labels
  PROVE  /\ At(call[c], pc) \in CallRecord
         /\ At(call[c], pc).pc = pc /\ At(call[c], pc).m = call[c].m
BY DEF At, CallsTyped, CallRecord

LEMMA FlagFields ==
  ASSUME NEW a \in CallRecord, NEW b \in BOOLEAN
  PROVE  /\ [a EXCEPT !.auto = b] \in CallRecord /\ [a EXCEPT !.asked = b] \in CallRecord
         /\ [a EXCEPT !.auto = b].pc = a.pc /\ [a EXCEPT !.auto = b].m = a.m
         /\ [a EXCEPT !.asked = b].pc = a.pc /\ [a EXCEPT !.asked = b].m = a.m
BY DEF CallRecord

LEMMA GotoMoves ==
  ASSUME CallsTyped, NEW c \in Calls, NEW pc \in Labels, Goto(c, pc)
  PROVE  Moves(c, pc, call[c].m)
<1> DEFINE r == At(call[c], pc)
<1>1. r \in CallRecord /\ r.pc = pc /\ r.m = call[c].m
  BY AtField
<1>2. call' = [call EXCEPT ![c] = r]
  BY DEF Goto
<1> HIDE DEF r
<1>. QED  BY <1>1, <1>2, RecordMoves

LEMMA ReplyMoves ==
  ASSUME CallsTyped, NEW c \in Calls, NEW reply \in Replies, Reply(c, reply)
  PROVE  Moves(c, "done", call[c].m)
<1> DEFINE a == At(call[c], "done")
           r == [a EXCEPT !.reply = reply]
<1>1. a \in CallRecord /\ a.pc = "done" /\ a.m = call[c].m
  BY AtField DEF Labels
<1>2. call' = [call EXCEPT ![c] = r]
  BY DEF Reply
<1> HIDE DEF a
<1>3. r \in CallRecord /\ r.pc = a.pc /\ r.m = a.m
  BY <1>1 DEF CallRecord
<1> HIDE DEF r
<1>4. Moves(c, r.pc, r.m)
  BY <1>2, <1>3, RecordMoves
<1>. QED  BY <1>1, <1>3, <1>4

LEMMA StopAutoMoves ==
  ASSUME CallsTyped, NEW c \in Calls, StopAuto(c)
  PROVE  Moves(c, "stop_session", call[c].m)
<1> DEFINE a == At(call[c], "stop_session")
           b == call[c].m \in autoNotes
           r == [a EXCEPT !.auto = b]
<1>1. a \in CallRecord /\ a.pc = "stop_session" /\ a.m = call[c].m
  BY AtField DEF Labels
<1>2. call' = [call EXCEPT ![c] = r]
  BY DEF StopAuto
<1>3. b \in BOOLEAN
  OBVIOUS
<1> HIDE DEF a, b
<1>4. r \in CallRecord /\ r.pc = a.pc /\ r.m = a.m
  BY <1>1, <1>3, FlagFields
<1> HIDE DEF r
<1>5. Moves(c, r.pc, r.m)
  BY <1>2, <1>4, RecordMoves
<1>. QED  BY <1>1, <1>4, <1>5

LEMMA StopNotesMoves ==
  ASSUME CallsTyped, NEW c \in Calls,
         call' = [call EXCEPT ![c] = [At(@, "stop_notes") EXCEPT !.asked = call[c].m \in wanted]]
  PROVE  Moves(c, "stop_notes", call[c].m)
<1> DEFINE a == At(call[c], "stop_notes")
           b == call[c].m \in wanted
           r == [a EXCEPT !.asked = b]
<1>1. a \in CallRecord /\ a.pc = "stop_notes" /\ a.m = call[c].m
  BY AtField DEF Labels
<1>2. call' = [call EXCEPT ![c] = r]
  OBVIOUS
<1>3. b \in BOOLEAN
  OBVIOUS
<1> HIDE DEF a, b
<1>4. r \in CallRecord /\ r.pc = a.pc /\ r.m = a.m
  BY <1>1, <1>3, FlagFields
<1> HIDE DEF r
<1>5. Moves(c, r.pc, r.m)
  BY <1>2, <1>4, RecordMoves
<1>. QED  BY <1>1, <1>4, <1>5

LEMMA RequestMoves ==
  ASSUME CallsTyped, NEW c \in Calls, NEW pc \in Labels, NEW m \in Meetings \cup {None},
         NEW auto \in BOOLEAN, call' = [call EXCEPT ![c] = Request(pc, m, auto)]
  PROVE  Moves(c, pc, m)
<1> DEFINE r == Request(pc, m, auto)
<1>1. r \in CallRecord /\ r.pc = pc /\ r.m = m
  BY DEF Request, CallRecord, Replies
<1>2. call' = [call EXCEPT ![c] = r]
  OBVIOUS
<1> HIDE DEF r
<1>. QED  BY <1>1, <1>2, RecordMoves

\* A step that leaves the capture alone, and neither drops a session nor moves a
\* call out of Holding, keeps the capture owned.
LEMMA Harmless ==
  ASSUME IInv, NEW c \in Calls, NEW pc, NEW m, Moves(c, pc, m),
         UNCHANGED <<slot, current>>, sessions \subseteq sessions', live \subseteq live',
         call[c].pc \notin {"start_adapter", "start_session", "stop_capture"}
  PROVE  IInv'
BY DEF IInv, Moves, NoOrphanCapture, Holding

LEMMA Inductive == IInv /\ [Next]_vars => IInv'
<1> SUFFICES ASSUME IInv, [Next]_vars PROVE IInv'
  OBVIOUS
<1> CallsTyped
  BY DEF IInv
<1>1. ASSUME NEW c \in Calls, NEW m \in Meetings, BeginStop(c, m) PROVE IInv'
  <2>1. Moves(c, "stop_auto", m)
    BY <1>1, RequestMoves DEF BeginStop, Labels
  <2>. QED  BY <1>1, <2>1, Harmless DEF BeginStop
<1>2. ASSUME NEW c \in Calls, NEW m \in Meetings, NEW auto \in AutoChoices, BeginStart(c, m, auto)
      PROVE  IInv'
  <2>1. Moves(c, "start_check", m)
    BY <1>2, RequestMoves, AutoIsBoolean DEF BeginStart, Labels
  <2>. QED  BY <1>2, <2>1, Harmless DEF BeginStart
<1>3. ASSUME NEW c \in Calls, Return(c) PROVE IInv'
  <2>1. Moves(c, "idle", None)
    BY <1>3, RequestMoves DEF Return, Idle, Labels
  <2>. QED  BY <1>3, <2>1, Harmless DEF Return
<1>4. ASSUME NEW c \in Calls, StartCheck(c) PROVE IInv'
  <2>1. Moves(c, IF call[c].m \in rows THEN "start_capture" ELSE "done", call[c].m)
    BY <1>4, GotoMoves, ReplyMoves DEF StartCheck, Labels, Replies
  <2>. QED  BY <1>4, <2>1, Harmless DEF StartCheck
<1>5. ASSUME NEW c \in Calls, StartCapture(c) PROVE IInv'
  <2>1. PICK o \in capture_start(call[c].m) :
          /\ slot' = o.slot /\ current' = o.current
          /\ IF o.ok THEN Goto(c, "start_adapter") ELSE Reply(c, "Err")
    BY <1>5 DEF StartCapture
  <2>2. UNCHANGED <<sessions, live>> /\ call[c].pc = "start_capture"
    BY <1>5 DEF StartCapture
  <2>3. Moves(c, IF o.ok THEN "start_adapter" ELSE "done", call[c].m)
    BY <2>1, GotoMoves, ReplyMoves DEF Labels, Replies
  <2>. QED
    BY <2>1, <2>2, <2>3, StartOutcomes DEF IInv, Moves, NoOrphanCapture, Holding
<1>6. ASSUME NEW c \in Calls, StartAdapter(c) PROVE IInv'
  <2>1. Moves(c, "start_session", call[c].m)
    BY <1>6, GotoMoves DEF StartAdapter, Labels
  <2>. QED  BY <1>6, <2>1 DEF StartAdapter, IInv, Moves, NoOrphanCapture, Holding
<1>7. ASSUME NEW c \in Calls, StartSession(c) PROVE IInv'
  <2>1. Moves(c, "start_auto", call[c].m)
    BY <1>7, GotoMoves DEF StartSession, Labels
  <2>. QED  BY <1>7, <2>1 DEF StartSession, IInv, Moves, NoOrphanCapture, Holding
<1>8. ASSUME NEW c \in Calls, StartAuto(c) PROVE IInv'
  <2>1. Moves(c, "done", call[c].m)
    BY <1>8, ReplyMoves DEF StartAuto, Replies
  <2>. QED  BY <1>8, <2>1, Harmless DEF StartAuto
<1>9. ASSUME NEW c \in Calls, StopAuto(c) PROVE IInv'
  BY <1>9, StopAutoMoves, Harmless DEF StopAuto
<1>10. ASSUME NEW c \in Calls, StopSession(c) PROVE IInv'
  <2>1. Moves(c, IF call[c].m \in sessions THEN "stop_capture" ELSE "done", call[c].m)
    BY <1>10, GotoMoves, ReplyMoves DEF StopSession, Labels, Replies
  <2>. QED  BY <1>10, <2>1 DEF StopSession, IInv, Moves, NoOrphanCapture, Holding
<1>11. ASSUME NEW c \in Calls, StopCapture(c) PROVE IInv'
  <2>0. UNCHANGED sessions /\ call[c].pc = "stop_capture"
    BY <1>11 DEF StopCapture
  <2>1. CASE call[c].m \notin live
    \* The capture, if it is this meeting's, still belongs to the start that made it.
    <3>1. UNCHANGED <<slot, current, live>> /\ Moves(c, "done", call[c].m)
      BY <1>11, <2>1, ReplyMoves DEF StopCapture, Replies
    <3>. QED  BY <2>0, <2>1, <3>1 DEF IInv, Moves, NoOrphanCapture, Holding
  <2>2. CASE call[c].m \in live
    <3>1. PICK o \in capture_stop(call[c].m) :
            /\ slot' = o.slot /\ current' = o.current
            /\ IF o.ok
               THEN /\ live' = live \ {call[c].m}
                    /\ call' = [call EXCEPT ![c] = [At(@, "stop_notes")
                                                   EXCEPT !.asked = call[c].m \in wanted]]
               ELSE Reply(c, "Err") /\ UNCHANGED live
      BY <1>11, <2>2 DEF StopCapture
    <3>2. Moves(c, IF o.ok THEN "stop_notes" ELSE "done", call[c].m)
      BY <3>1, ReplyMoves, StopNotesMoves DEF Replies
    <3>. QED
      BY <2>0, <3>1, <3>2, StopOutcomes DEF IInv, Moves, NoOrphanCapture, Holding
  <2>. QED  BY <2>1, <2>2
<1>12. ASSUME NEW c \in Calls, StopNotes(c) PROVE IInv'
  <2>1. Moves(c, "done", call[c].m)
    BY <1>12, ReplyMoves DEF StopNotes, maybe_enqueue_auto_notes, Replies
  <2>. QED  BY <1>12, <2>1, Harmless DEF StopNotes
<1>13. ASSUME NEW m \in Meetings, DeleteMeeting(m) PROVE IInv'
  BY <1>13 DEF DeleteMeeting, IInv, CallsTyped, NoOrphanCapture, Holding
<1>14. CASE SidecarExits
  BY <1>14 DEF SidecarExits, IInv, CallsTyped, NoOrphanCapture, Holding
<1>15. CASE UNCHANGED vars
  BY <1>15 DEF vars, IInv, CallsTyped, NoOrphanCapture, Holding
<1>. QED
  BY <1>1, <1>2, <1>3, <1>4, <1>5, <1>6, <1>7, <1>8, <1>9, <1>10, <1>11, <1>12, <1>13, <1>14,
     <1>15 DEF Next, Step

LEMMA Invariant == Spec => []IInv
<1>1. Init => IInv
  <2>1. Idle \in CallRecord
    BY DEF Idle, Request, CallRecord, Labels, Replies
  <2>. QED  BY <2>1 DEF Init, IInv, CallsTyped, NoOrphanCapture
<1>. QED  BY <1>1, Inductive, PTL DEF Spec

\* However many recording.start and recording.stop calls overlap, and whenever the
\* sidecar exits, a running capture can be reached by a stop for its meeting.
THEOREM CaptureStaysOwned == Spec => []NoOrphanCapture
BY Invariant, PTL DEF IInv

\* No step of a handler takes a capture away from its meeting: it ends by its own
\* stop or with the sidecar process.
THEOREM CaptureIsExclusive == Spec => CaptureEndsOnlyByItsStop
<1>1. ASSUME IInv, [Next]_vars, current # None, current' # current
      PROVE  /\ current' = None
             /\ \/ slot' # "live"
                \/ \E c \in Calls : /\ call[c].pc = "stop_capture" /\ call'[c] # call[c]
                                    /\ call[c].m = current
  <2> USE <1>1 DEF IInv
  <2>1. ASSUME NEW c \in Calls, StartCapture(c) PROVE current' = None /\ slot' # "live"
    BY <2>1, StartOutcomes DEF StartCapture
  <2>2. ASSUME NEW c \in Calls, StopCapture(c)
        PROVE  /\ current' = None
               /\ slot' # "live" \/ (call[c].pc = "stop_capture" /\ call'[c] # call[c]
                                       /\ call[c].m = current)
    <3>1. PICK o \in capture_stop(call[c].m) : slot' = o.slot /\ current' = o.current
      BY <2>2 DEF StopCapture
    <3>2. Moves(c, "done", call[c].m) \/ Moves(c, "stop_notes", call[c].m)
      BY <2>2, ReplyMoves, StopNotesMoves DEF StopCapture, IInv, Replies
    <3>3. call[c].pc = "stop_capture" /\ call'[c] # call[c]
      BY <2>2, <3>2 DEF StopCapture, Moves
    <3>. QED  BY <3>1, <3>3, StopOutcomes
  <2>3. CASE SidecarExits
    BY <2>3 DEF SidecarExits
  <2>4. ASSUME NEW c \in Calls, \/ StartCheck(c) \/ StartAdapter(c) \/ StartSession(c)
                                \/ StartAuto(c) \/ StopAuto(c) \/ StopSession(c)
                                \/ StopNotes(c) \/ Return(c)
        PROVE  FALSE
    BY <2>4 DEF StartCheck, StartAdapter, StartSession, StartAuto, StopAuto, StopSession,
                StopNotes, Return
  <2>5. ASSUME NEW c \in Calls, NEW m \in Meetings,
               BeginStop(c, m) \/ \E auto \in AutoChoices : BeginStart(c, m, auto)
        PROVE  FALSE
    BY <2>5 DEF BeginStop, BeginStart
  <2>6. ASSUME NEW m \in Meetings, DeleteMeeting(m) PROVE FALSE
    BY <2>6 DEF DeleteMeeting
  <2>. QED
    BY <2>1, <2>2, <2>3, <2>4, <2>5, <2>6 DEF Next, Step, vars
<1>. QED
  BY <1>1, Invariant, PTL DEF Spec, CaptureEndsOnlyByItsStop

-----------------------------------------------------------------------------
(***************************************************************************)
(* The app as the client.  Its invariant ties what the buttons show to the *)
(* call in flight, the call to the capture, and the two records of the     *)
(* notes flag to one another.                                              *)
(***************************************************************************)

StartPcs == {"start_check", "start_capture", "start_adapter", "start_session", "start_auto"}
StopPcs  == {"stop_auto", "stop_session", "stop_capture", "stop_notes"}

AppTyped ==
  /\ isRecording \in BOOLEAN
  /\ recordingId \in Meetings \cup {None}
  /\ current \in Meetings \cup {None}
  /\ \A d \in Calls \ {app} : call[d] = Idle

\* The flag is up exactly when a recording is known or a call is under way, and
\* the call in flight is about the recording the app knows, if it knows one.
ButtonsInv ==
  /\ call[app].pc # "idle" => call[app].m \in Meetings
  /\ isRecording <=> recordingId # None \/ call[app].pc # "idle"
  /\ call[app].pc \in StartPcs => recordingId = None
  /\ call[app].pc \in StopPcs => recordingId = call[app].m
  /\ call[app].pc = "done" => recordingId \in {None, call[app].m}

\* The sidecar captures nothing but the meeting of the call, and nothing at all
\* before a start has reached it or after a stop has.
CaptureInv ==
  /\ call[app].pc = "idle" => current \in {None, recordingId}
  /\ call[app].pc # "idle" => current \in {None, call[app].m}
  /\ call[app].pc \in {"start_check", "start_capture", "stop_notes"} => current = None
  /\ call[app].pc = "done" /\ recordingId = None /\ call[app].reply # "Ok" => current = None
  /\ call[app].pc = "done" /\ recordingId # None /\ call[app].reply # "Err" => current = None

Flagged(m) == m \in autoNotes <=> m \in wanted

\* A session's flag is what its capture was started with, except while the call
\* that stores or takes it is between its two maps; then the call carries it.
FlagInv ==
  /\ \A m \in sessions :
       \/ Flagged(m)
       \/ /\ call[app].m = m
          /\ call[app].pc \in {"start_adapter", "start_session", "start_auto", "stop_session"}
  /\ \/ call[app].pc \in {"start_adapter", "start_session", "start_auto", "stop_capture"}
     \/ call[app].pc = "stop_session" /\ call[app].m \in sessions
     => (call[app].auto <=> call[app].m \in wanted)
  /\ call[app].pc = "stop_notes" => call[app].auto = call[app].asked

AInv == CallsTyped /\ AppTyped /\ ButtonsInv /\ CaptureInv /\ FlagInv

\* The record of the app's call after a step.
Becomes(pc, m, auto, asked, reply) ==
  /\ CallsTyped'
  /\ call'[app].pc = pc /\ call'[app].m = m /\ call'[app].reply = reply
  /\ call'[app].auto = auto /\ call'[app].asked = asked
  /\ \A d \in Calls \ {app} : call'[d] = call[d]

LEMMA RecordBecomes ==
  ASSUME CallsTyped, NEW r \in CallRecord, call' = [call EXCEPT ![app] = r]
  PROVE  Becomes(r.pc, r.m, r.auto, r.asked, r.reply)
BY AppIsACall DEF Becomes, CallsTyped

LEMMA AtFields ==
  ASSUME CallsTyped, NEW pc \in Labels
  PROVE  /\ At(call[app], pc) \in CallRecord
         /\ At(call[app], pc).pc = pc /\ At(call[app], pc).m = call[app].m
         /\ At(call[app], pc).auto = call[app].auto /\ At(call[app], pc).asked = call[app].asked
         /\ At(call[app], pc).reply = call[app].reply
BY AppIsACall DEF At, CallsTyped, CallRecord

LEMMA GotoBecomes ==
  ASSUME CallsTyped, NEW pc \in Labels, Goto(app, pc)
  PROVE  Becomes(pc, call[app].m, call[app].auto, call[app].asked, call[app].reply)
<1> DEFINE r == At(call[app], pc)
<1>1. call' = [call EXCEPT ![app] = r]
  BY DEF Goto
<1>2. /\ r \in CallRecord /\ r.pc = pc /\ r.m = call[app].m
      /\ r.auto = call[app].auto /\ r.asked = call[app].asked /\ r.reply = call[app].reply
  BY AtFields
<1> HIDE DEF r
<1>3. Becomes(r.pc, r.m, r.auto, r.asked, r.reply)
  BY <1>1, <1>2, RecordBecomes
<1>. QED  BY <1>2, <1>3

LEMMA ReplyBecomes ==
  ASSUME CallsTyped, NEW reply \in Replies, Reply(app, reply)
  PROVE  Becomes("done", call[app].m, call[app].auto, call[app].asked, reply)
<1> DEFINE a == At(call[app], "done")
           r == [a EXCEPT !.reply = reply]
<1>1. call' = [call EXCEPT ![app] = r]
  BY DEF Reply
<1>2. /\ a \in CallRecord /\ a.pc = "done" /\ a.m = call[app].m
      /\ a.auto = call[app].auto /\ a.asked = call[app].asked
  BY AtFields DEF Labels
<1> HIDE DEF a
<1>3. /\ r \in CallRecord /\ r.pc = a.pc /\ r.m = a.m
      /\ r.auto = a.auto /\ r.asked = a.asked /\ r.reply = reply
  BY <1>2 DEF CallRecord
<1> HIDE DEF r
<1>4. Becomes(r.pc, r.m, r.auto, r.asked, r.reply)
  BY <1>1, <1>3, RecordBecomes
<1>. QED  BY <1>2, <1>3, <1>4

LEMMA RequestBecomes ==
  ASSUME CallsTyped, NEW pc \in Labels, NEW m \in Meetings \cup {None}, NEW auto \in BOOLEAN,
         call' = [call EXCEPT ![app] = Request(pc, m, auto)]
  PROVE  Becomes(pc, m, auto, FALSE, "none")
<1> DEFINE r == Request(pc, m, auto)
<1>1. /\ r \in CallRecord /\ r.pc = pc /\ r.m = m
      /\ r.auto = auto /\ r.asked = FALSE /\ r.reply = "none"
  BY DEF Request, CallRecord, Replies
<1>2. call' = [call EXCEPT ![app] = r]
  OBVIOUS
<1> HIDE DEF r
<1>3. Becomes(r.pc, r.m, r.auto, r.asked, r.reply)
  BY <1>1, <1>2, RecordBecomes
<1>. QED  BY <1>1, <1>3

\* stop takes the flag out of auto_notes and carries it.
LEMMA StopAutoBecomes ==
  ASSUME CallsTyped, StopAuto(app)
  PROVE  \E b \in BOOLEAN :
           /\ b <=> call[app].m \in autoNotes
           /\ Becomes("stop_session", call[app].m, b, call[app].asked, call[app].reply)
<1> DEFINE a == At(call[app], "stop_session")
           b == call[app].m \in autoNotes
           r == [a EXCEPT !.auto = b]
<1>1. call' = [call EXCEPT ![app] = r]
  BY DEF StopAuto
<1>2. /\ a \in CallRecord /\ a.pc = "stop_session" /\ a.m = call[app].m
      /\ a.asked = call[app].asked /\ a.reply = call[app].reply
  BY AtFields DEF Labels
<1>3. b \in BOOLEAN /\ (b <=> call[app].m \in autoNotes)
  OBVIOUS
<1> HIDE DEF a, b
<1>4. /\ r \in CallRecord /\ r.pc = a.pc /\ r.m = a.m
      /\ r.auto = b /\ r.asked = a.asked /\ r.reply = a.reply
  BY <1>2, <1>3 DEF CallRecord
<1> HIDE DEF r
<1>5. Becomes(r.pc, r.m, r.auto, r.asked, r.reply)
  BY <1>1, <1>4, RecordBecomes
<1>6. Becomes("stop_session", call[app].m, b, call[app].asked, call[app].reply)
  BY <1>2, <1>4, <1>5
<1>. QED  BY <1>3, <1>6

\* The history of what the stopped capture was started with.
LEMMA StopNotesBecomes ==
  ASSUME CallsTyped,
         call' = [call EXCEPT ![app] = [At(@, "stop_notes") EXCEPT !.asked = call[app].m \in wanted]]
  PROVE  \E b \in BOOLEAN :
           /\ b <=> call[app].m \in wanted
           /\ Becomes("stop_notes", call[app].m, call[app].auto, b, call[app].reply)
<1> DEFINE a == At(call[app], "stop_notes")
           b == call[app].m \in wanted
           r == [a EXCEPT !.asked = b]
<1>1. call' = [call EXCEPT ![app] = r]
  OBVIOUS
<1>2. /\ a \in CallRecord /\ a.pc = "stop_notes" /\ a.m = call[app].m
      /\ a.auto = call[app].auto /\ a.reply = call[app].reply
  BY AtFields DEF Labels
<1>3. b \in BOOLEAN /\ (b <=> call[app].m \in wanted)
  OBVIOUS
<1> HIDE DEF a, b
<1>4. /\ r \in CallRecord /\ r.pc = a.pc /\ r.m = a.m
      /\ r.asked = b /\ r.auto = a.auto /\ r.reply = a.reply
  BY <1>2, <1>3 DEF CallRecord
<1> HIDE DEF r
<1>5. Becomes(r.pc, r.m, r.auto, r.asked, r.reply)
  BY <1>1, <1>4, RecordBecomes
<1>6. Becomes("stop_notes", call[app].m, call[app].auto, b, call[app].reply)
  BY <1>2, <1>4, <1>5
<1>. QED  BY <1>3, <1>6

LEMMA AppStartOutcomes ==
  ASSUME NEW m, NEW o \in capture_start(m), current = None
  PROVE  o.current \in {None, m} /\ (~o.ok => o.current = None)
BY DEF capture_start, Served, StreamBroken, SpawnFailed, Outcome

LEMMA AppStopOutcomes ==
  ASSUME NEW m, NEW o \in capture_stop(m), current \in {None, m}
  PROVE  o.current \in {None, m} /\ (o.ok => o.current = None)
BY DEF capture_stop, Served, StreamBroken, SpawnFailed, Outcome

\* The parts of the invariant that do not speak of the flags, after a step of the
\* engine: the buttons' fields stay, the call goes on or replies.
LEMMA EngineMoves ==
  ASSUME AInv, NEW pc \in Labels, NEW auto, NEW asked, NEW reply,
         Becomes(pc, call[app].m, auto, asked, reply), UNCHANGED appVars,
         call[app].pc # "idle",
         \/ call[app].pc \in StartPcs /\ pc \in StartPcs \cup {"done"}
         \/ call[app].pc \in StopPcs /\ pc \in StopPcs \cup {"done"},
         current' \in {None, call[app].m},
         pc \in {"start_check", "start_capture", "stop_notes"} => current' = None,
         pc = "done" /\ call[app].pc \in StartPcs /\ reply # "Ok" => current' = None,
         pc = "done" /\ call[app].pc \in StopPcs /\ reply # "Err" => current' = None
  PROVE  CallsTyped' /\ AppTyped' /\ ButtonsInv' /\ CaptureInv'
<1> call'[app].pc = pc /\ call'[app].m = call[app].m /\ call'[app].reply = reply
  BY DEF Becomes
<1> isRecording' = isRecording /\ recordingId' = recordingId
  BY DEF appVars
<1> call[app].m \in Meetings /\ None \notin Meetings
  BY NoneIsNoMeeting DEF AInv, ButtonsInv
<1>1. CallsTyped'
  BY DEF Becomes
<1>2. AppTyped'
  BY DEF AInv, AppTyped, Becomes
<1>3. ButtonsInv'
  BY DEF AInv, ButtonsInv, StartPcs, StopPcs
<1>4. CaptureInv'
  BY DEF AInv, ButtonsInv, CaptureInv, StartPcs, StopPcs
<1>. QED  BY <1>1, <1>2, <1>3, <1>4

LEMMA EnginePreserves == AInv /\ EngineStep => AInv'
<1> SUFFICES ASSUME AInv, EngineStep PROVE AInv'
  OBVIOUS
<1> USE AppIsACall
<1> CallsTyped /\ UNCHANGED appVars
  BY DEF AInv, EngineStep
<1> DEFINE m == call[app].m
           p == call[app].pc
<1>1. CASE StartCheck(app)
  <2>1. p = "start_check" /\ UNCHANGED <<sessions, autoNotes, current, wanted>>
    BY <1>1 DEF StartCheck
  <2>2. \/ Becomes("start_capture", m, call[app].auto, call[app].asked, call[app].reply)
        \/ Becomes("done", m, call[app].auto, call[app].asked, "Err")
    BY <1>1, GotoBecomes, ReplyBecomes DEF StartCheck, Labels, Replies
  <2>3. current = None
    BY <2>1 DEF AInv, CaptureInv
  <2>4. CallsTyped' /\ AppTyped' /\ ButtonsInv' /\ CaptureInv'
    BY <2>1, <2>2, <2>3, EngineMoves DEF StartPcs, Labels
  <2>5. FlagInv'
    BY <2>1, <2>2 DEF AInv, FlagInv, Flagged, Becomes
  <2>. QED  BY <2>4, <2>5 DEF AInv
<1>2. CASE StartCapture(app)
  <2>1. p = "start_capture" /\ UNCHANGED <<sessions, autoNotes>>
    BY <1>2 DEF StartCapture
  <2>2. current = None
    BY <2>1 DEF AInv, CaptureInv
  <2>3. PICK o \in capture_start(m) :
          /\ current' = o.current
          /\ IF o.ok
             THEN /\ Goto(app, "start_adapter")
                  /\ wanted' = IF call[app].auto THEN wanted \cup {m} ELSE wanted \ {m}
             ELSE Reply(app, "Err") /\ UNCHANGED wanted
    BY <1>2 DEF StartCapture
  <2>4. current' \in {None, m} /\ (~o.ok => current' = None)
    BY <2>2, <2>3, AppStartOutcomes
  <2>5. CASE o.ok
    <3>1. Becomes("start_adapter", m, call[app].auto, call[app].asked, call[app].reply)
      BY <2>3, <2>5, GotoBecomes DEF Labels
    <3>2. CallsTyped' /\ AppTyped' /\ ButtonsInv' /\ CaptureInv'
      BY <2>1, <2>4, <3>1, EngineMoves DEF StartPcs, Labels
    <3>3. FlagInv'
      BY <2>1, <2>3, <2>5, <3>1 DEF AInv, FlagInv, Flagged, Becomes
    <3>. QED  BY <3>2, <3>3 DEF AInv
  <2>6. CASE ~o.ok
    <3>1. Becomes("done", m, call[app].auto, call[app].asked, "Err")
      BY <2>3, <2>6, ReplyBecomes DEF Replies
    <3>2. CallsTyped' /\ AppTyped' /\ ButtonsInv' /\ CaptureInv'
      BY <2>1, <2>4, <2>6, <3>1, EngineMoves DEF StartPcs, Labels
    <3>3. FlagInv'
      BY <2>1, <2>3, <2>6, <3>1 DEF AInv, FlagInv, Flagged, Becomes
    <3>. QED  BY <3>2, <3>3 DEF AInv
  <2>. QED  BY <2>5, <2>6
<1>3. CASE StartAdapter(app)
  <2>1. p = "start_adapter" /\ UNCHANGED <<sessions, autoNotes, current, wanted>>
    BY <1>3 DEF StartAdapter
  <2>2. Becomes("start_session", m, call[app].auto, call[app].asked, call[app].reply)
    BY <1>3, GotoBecomes DEF StartAdapter, Labels
  <2>3. current \in {None, m}
    BY <2>1 DEF AInv, CaptureInv
  <2>4. CallsTyped' /\ AppTyped' /\ ButtonsInv' /\ CaptureInv'
    BY <2>1, <2>2, <2>3, EngineMoves DEF StartPcs, Labels
  <2>5. FlagInv'
    BY <2>1, <2>2 DEF AInv, FlagInv, Flagged, Becomes
  <2>. QED  BY <2>4, <2>5 DEF AInv
<1>4. CASE StartSession(app)
  <2>1. /\ p = "start_session" /\ UNCHANGED <<autoNotes, current, wanted>>
        /\ sessions' = sessions \cup {m}
    BY <1>4 DEF StartSession
  <2>2. Becomes("start_auto", m, call[app].auto, call[app].asked, call[app].reply)
    BY <1>4, GotoBecomes DEF StartSession, Labels
  <2>3. current \in {None, m}
    BY <2>1 DEF AInv, CaptureInv
  <2>4. CallsTyped' /\ AppTyped' /\ ButtonsInv' /\ CaptureInv'
    BY <2>1, <2>2, <2>3, EngineMoves DEF StartPcs, Labels
  <2>5. FlagInv'
    BY <2>1, <2>2 DEF AInv, FlagInv, Flagged, Becomes
  <2>. QED  BY <2>4, <2>5 DEF AInv
<1>5. CASE StartAuto(app)
  <2>1. /\ p = "start_auto" /\ UNCHANGED <<sessions, current, wanted>>
        /\ autoNotes' = IF call[app].auto THEN autoNotes \cup {m} ELSE autoNotes \ {m}
    BY <1>5 DEF StartAuto
  <2>2. Becomes("done", m, call[app].auto, call[app].asked, "Ok")
    BY <1>5, ReplyBecomes DEF StartAuto, Replies
  <2>3. current \in {None, m}
    BY <2>1 DEF AInv, CaptureInv
  <2>4. CallsTyped' /\ AppTyped' /\ ButtonsInv' /\ CaptureInv'
    BY <2>1, <2>2, <2>3, EngineMoves DEF StartPcs, StopPcs, Labels
  <2>5. FlagInv'
    BY <2>1, <2>2 DEF AInv, FlagInv, Flagged, Becomes
  <2>. QED  BY <2>4, <2>5 DEF AInv
<1>6. CASE StopAuto(app)
  <2>1. /\ p = "stop_auto" /\ UNCHANGED <<sessions, current, wanted>>
        /\ autoNotes' = autoNotes \ {m}
    BY <1>6 DEF StopAuto
  <2>2. PICK b \in BOOLEAN :
          /\ b <=> m \in autoNotes
          /\ Becomes("stop_session", m, b, call[app].asked, call[app].reply)
    BY <1>6, StopAutoBecomes
  <2>3. current \in {None, m}
    BY <2>1 DEF AInv, CaptureInv
  <2>4. CallsTyped' /\ AppTyped' /\ ButtonsInv' /\ CaptureInv'
    BY <2>1, <2>2, <2>3, EngineMoves DEF StopPcs, Labels
  <2>5. FlagInv'
    BY <2>1, <2>2 DEF AInv, FlagInv, Flagged, Becomes
  <2>. QED  BY <2>4, <2>5 DEF AInv
<1>7. CASE StopSession(app)
  <2>1. /\ p = "stop_session" /\ UNCHANGED <<autoNotes, current, wanted>>
        /\ sessions' = sessions \ {m}
    BY <1>7 DEF StopSession
  <2>2. \/ /\ m \in sessions
           /\ Becomes("stop_capture", m, call[app].auto, call[app].asked, call[app].reply)
        \/ Becomes("done", m, call[app].auto, call[app].asked, "Err")
    BY <1>7, GotoBecomes, ReplyBecomes DEF StopSession, Labels, Replies
  <2>3. current \in {None, m}
    BY <2>1 DEF AInv, CaptureInv
  <2>4. CallsTyped' /\ AppTyped' /\ ButtonsInv' /\ CaptureInv'
    BY <2>1, <2>2, <2>3, EngineMoves DEF StartPcs, StopPcs, Labels
  <2>5. FlagInv'
    BY <2>1, <2>2 DEF AInv, FlagInv, Flagged, Becomes
  <2>. QED  BY <2>4, <2>5 DEF AInv
<1>8. CASE StopCapture(app)
  <2>1. p = "stop_capture" /\ UNCHANGED <<sessions, autoNotes, wanted>>
    BY <1>8 DEF StopCapture
  <2>2. current \in {None, m}
    BY <2>1 DEF AInv, CaptureInv
  <2>3. \/ Reply(app, "Err") /\ current' \in {None, m}
        \/ /\ current' = None
           /\ call' = [call EXCEPT ![app] = [At(@, "stop_notes")
                                          EXCEPT !.asked = call[app].m \in wanted]]
    BY <1>8, <2>2, AppStopOutcomes DEF StopCapture
  <2>4. CASE Reply(app, "Err") /\ current' \in {None, m}
    <3>1. Becomes("done", m, call[app].auto, call[app].asked, "Err")
      BY <2>4, ReplyBecomes DEF Replies
    <3>2. CallsTyped' /\ AppTyped' /\ ButtonsInv' /\ CaptureInv'
      BY <2>1, <2>4, <3>1, EngineMoves DEF StartPcs, StopPcs, Labels
    <3>3. FlagInv'
      BY <2>1, <3>1 DEF AInv, FlagInv, Flagged, Becomes
    <3>. QED  BY <3>2, <3>3 DEF AInv
  <2>5. CASE /\ current' = None
             /\ call' = [call EXCEPT ![app] = [At(@, "stop_notes")
                                            EXCEPT !.asked = call[app].m \in wanted]]
    <3>1. PICK b \in BOOLEAN :
            /\ b <=> m \in wanted
            /\ Becomes("stop_notes", m, call[app].auto, b, call[app].reply)
      BY <2>5, StopNotesBecomes
    <3>2. CallsTyped' /\ AppTyped' /\ ButtonsInv' /\ CaptureInv'
      BY <2>1, <2>5, <3>1, EngineMoves DEF StopPcs, Labels
    <3>3. call[app].auto = b
      <4>1. call[app].auto <=> b
        BY <2>1, <3>1 DEF AInv, FlagInv
      <4>2. call[app].auto \in BOOLEAN
        BY DEF CallsTyped, CallRecord
      <4>. QED  BY <3>1, <4>1, <4>2
    <3>4. FlagInv'
      BY <2>1, <3>1, <3>3 DEF AInv, FlagInv, Flagged, Becomes
    <3>. QED  BY <3>2, <3>4 DEF AInv
  <2>. QED  BY <2>3, <2>4, <2>5
<1>9. CASE StopNotes(app)
  <2>1. p = "stop_notes" /\ UNCHANGED <<sessions, autoNotes, current, wanted>>
    BY <1>9 DEF StopNotes
  <2>2. PICK r \in {"Ok", "OkJob"} : Becomes("done", m, call[app].auto, call[app].asked, r)
    BY <1>9, ReplyBecomes DEF StopNotes, maybe_enqueue_auto_notes, Replies
  <2>3. current = None
    BY <2>1 DEF AInv, CaptureInv
  <2>4. CallsTyped' /\ AppTyped' /\ ButtonsInv' /\ CaptureInv'
    BY <2>1, <2>2, <2>3, EngineMoves DEF StopPcs, StartPcs, Labels
  <2>5. FlagInv'
    BY <2>1, <2>2 DEF AInv, FlagInv, Flagged, Becomes
  <2>. QED  BY <2>4, <2>5 DEF AInv
<1>. QED
  BY <1>1, <1>2, <1>3, <1>4, <1>5, <1>6, <1>7, <1>8, <1>9 DEF EngineStep, Step

LEMMA AppInductive == AInv /\ [AppNext]_allVars => AInv'
<1> SUFFICES ASSUME AInv, [AppNext]_allVars PROVE AInv'
  OBVIOUS
<1> USE AppIsACall
<1> CallsTyped /\ None \notin Meetings
  BY NoneIsNoMeeting DEF AInv
<1>1. ASSUME NEW m \in Meetings, NEW auto \in AutoChoices, AppStart(m, auto) PROVE AInv'
  <2>1. /\ call[app].pc = "idle" /\ ~isRecording /\ isRecording' = TRUE /\ recordingId' = None
        /\ UNCHANGED <<sessions, autoNotes, current, wanted>>
    BY <1>1 DEF AppStart, BeginStart
  <2>2. Becomes("start_check", m, auto, FALSE, "none")
    BY <1>1, RequestBecomes, AutoIsBoolean DEF AppStart, BeginStart, Labels
  <2>3. current = None
    BY <2>1 DEF AInv, ButtonsInv, CaptureInv
  <2>4. CallsTyped' /\ AppTyped'
    BY <2>1, <2>2 DEF AInv, AppTyped, Becomes
  <2>5. ButtonsInv' /\ CaptureInv'
    BY <2>1, <2>2, <2>3 DEF ButtonsInv, CaptureInv, StartPcs, StopPcs, Becomes
  <2>6. FlagInv'
    BY <2>1, <2>2 DEF AInv, FlagInv, Flagged, Becomes
  <2>. QED  BY <2>4, <2>5, <2>6 DEF AInv
<1>2. CASE AppStarted
  <2>1. /\ call[app].pc = "done" /\ recordingId = None
        /\ UNCHANGED <<sessions, autoNotes, current, wanted>>
        /\ \/ /\ call[app].reply = "Ok"
              /\ recordingId' = call[app].m /\ UNCHANGED isRecording
           \/ /\ call[app].reply # "Ok"
              /\ isRecording' = FALSE /\ UNCHANGED recordingId
    BY <1>2 DEF AppStarted
  <2>2. Becomes("idle", None, FALSE, FALSE, "none")
    BY <1>2, RequestBecomes DEF AppStarted, Idle, Labels
  <2>3. CallsTyped' /\ AppTyped'
    BY <2>1, <2>2 DEF AInv, AppTyped, ButtonsInv, Becomes
  <2>4. call[app].m \in Meetings /\ isRecording
    BY <2>1 DEF AInv, ButtonsInv
  <2>5. ButtonsInv'
    BY <2>1, <2>2, <2>4 DEF ButtonsInv, StartPcs, StopPcs, Becomes
  <2>6. CaptureInv'
    BY <2>1, <2>2 DEF AInv, CaptureInv, Becomes
  <2>7. FlagInv'
    BY <2>1, <2>2 DEF AInv, FlagInv, Flagged, Becomes
  <2>. QED  BY <2>3, <2>5, <2>6, <2>7 DEF AInv
<1>3. CASE AppStop
  <2>1. /\ call[app].pc = "idle" /\ recordingId # None
        /\ UNCHANGED <<isRecording, recordingId, sessions, autoNotes, current, wanted>>
    BY <1>3 DEF AppStop, BeginStop, appVars
  <2>2. recordingId \in Meetings
    BY <2>1 DEF AInv, AppTyped
  <2>3. Becomes("stop_auto", recordingId, FALSE, FALSE, "none")
    BY <1>3, <2>2, RequestBecomes DEF AppStop, BeginStop, Labels
  <2>4. CallsTyped' /\ AppTyped'
    BY <2>1, <2>3 DEF AInv, AppTyped, Becomes
  <2>5. ButtonsInv' /\ CaptureInv'
    BY <2>1, <2>2, <2>3 DEF AInv, ButtonsInv, CaptureInv, StartPcs, StopPcs, Becomes
  <2>6. FlagInv'
    BY <2>1, <2>3 DEF AInv, FlagInv, Flagged, Becomes
  <2>. QED  BY <2>4, <2>5, <2>6 DEF AInv
<1>4. CASE AppStopped
  <2>1. /\ call[app].pc = "done" /\ recordingId # None
        /\ UNCHANGED <<sessions, autoNotes, current, wanted>>
        /\ \/ /\ call[app].reply # "Err"
              /\ recordingId' = None /\ isRecording' = FALSE
           \/ UNCHANGED <<isRecording, recordingId>>
    BY <1>4 DEF AppStopped, appVars
  <2>2. Becomes("idle", None, FALSE, FALSE, "none")
    BY <1>4, RequestBecomes DEF AppStopped, Idle, Labels
  <2>3. CallsTyped' /\ AppTyped'
    BY <2>1, <2>2 DEF AInv, AppTyped, Becomes
  <2>4. recordingId = call[app].m /\ isRecording
    BY <2>1 DEF AInv, ButtonsInv
  <2>5. ButtonsInv'
    BY <2>1, <2>2, <2>4 DEF ButtonsInv, StartPcs, StopPcs, Becomes
  <2>6. CaptureInv'
    BY <2>1, <2>2, <2>4 DEF AInv, CaptureInv, Becomes
  <2>7. FlagInv'
    BY <2>1, <2>2 DEF AInv, FlagInv, Flagged, Becomes
  <2>. QED  BY <2>3, <2>5, <2>6, <2>7 DEF AInv
<1>5. CASE Environment
  <2>1. /\ UNCHANGED <<isRecording, recordingId, sessions, autoNotes, call, wanted>>
        /\ current' = current \/ current' = None
    BY <1>5 DEF Environment, SidecarExits, DeleteMeeting, appVars
  <2>2. CallsTyped' /\ AppTyped' /\ ButtonsInv' /\ FlagInv'
    BY <2>1 DEF AInv, CallsTyped, AppTyped, ButtonsInv, FlagInv, Flagged
  <2>3. CaptureInv'
    BY <2>1 DEF AInv, CaptureInv
  <2>. QED  BY <2>2, <2>3 DEF AInv
<1>6. CASE UNCHANGED allVars
  <2>1. UNCHANGED <<isRecording, recordingId, sessions, autoNotes, call, current, wanted>>
    BY <1>6 DEF allVars, vars, appVars
  <2>. QED
    BY <2>1 DEF AInv, CallsTyped, AppTyped, ButtonsInv, CaptureInv, FlagInv, Flagged
<1>. QED
  BY <1>1, <1>2, <1>3, <1>4, <1>5, <1>6, EnginePreserves DEF AppNext

LEMMA AppInvariant == AppSpec => []AInv
<1>1. AppInit => AInv
  <2> SUFFICES ASSUME AppInit PROVE AInv
    OBVIOUS
  <2>1. Idle \in CallRecord /\ Idle.pc = "idle"
    BY DEF Idle, Request, CallRecord, Labels, Replies
  <2>2. call \in [Calls -> CallRecord] /\ \A c \in Calls : call[c] = Idle
    BY <2>1 DEF AppInit, Init
  <2> HIDE DEF Idle
  <2>3. CallsTyped /\ AppTyped
    BY <2>2 DEF AppInit, Init, CallsTyped, AppTyped
  <2>4. ButtonsInv /\ CaptureInv /\ FlagInv
    BY <2>1, <2>2, AppIsACall
       DEF AppInit, Init, ButtonsInv, CaptureInv, FlagInv, StartPcs, StopPcs
  <2>. QED  BY <2>3, <2>4 DEF AInv
<1>. QED  BY <1>1, AppInductive, PTL DEF AppSpec

\* While no call is under way the window shows whatever the sidecar captures, its
\* Stop button is for that meeting, and a start that was refused has left no flag.
THEOREM WindowShowsCapture == AppSpec => []AppShowsCapture
<1>1. AInv => AppShowsCapture
  BY DEF AInv, ButtonsInv, CaptureInv, AppShowsCapture
<1>. QED  BY <1>1, AppInvariant, PTL

\* A stop that succeeds passes on the auto_generate_notes its recording was started
\* with: the two maps of the engine never disagree for the app's one call at a time.
THEOREM StopHonoursAutoNotes == AppSpec => []AutoNotesHonoured
<1>1. AInv => AutoNotesHonoured
  <2> SUFFICES ASSUME AInv, NEW c \in Calls, call[c].pc = "stop_notes"
               PROVE  call[c].auto = call[c].asked
    BY DEF AutoNotesHonoured
  <2>1. Idle.pc = "idle"
    BY DEF Idle, Request
  <2>2. c = app
    BY <2>1 DEF AInv, AppTyped
  <2>. QED  BY <2>2 DEF AInv, FlagInv
<1>. QED  BY <1>1, AppInvariant, PTL

=============================================================================
