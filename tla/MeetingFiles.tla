---------------------------- MODULE MeetingFiles ----------------------------
(***************************************************************************)
(* The registry's rows beside the meeting directories on disk, and the     *)
(* IPC calls of crates/panops-engine/src/server/handlers.rs that change    *)
(* both: meeting.start, meeting.delete, meeting.deleteVideo, notes.save    *)
(* and the tail of notes.generate.                                         *)
(*                                                                         *)
(* Each call runs on a blocking thread of its own; a step is one storage   *)
(* call or one file operation, and each of them may fail.  The engine may  *)
(* be killed between any two steps.  Of a directory only notes.md, the     *)
(* temporary files of notes.save and recording.mov are kept.  A call       *)
(* writes a text of its own, so texts are named after calls.               *)
(***************************************************************************)
EXTENDS Naturals, FiniteSets

CONSTANTS
  Meetings,      \* meeting ids
  Calls,         \* requests; each is made at most once
  None,          \* no directory, no file
  Empty, Torn,   \* texts of a file just truncated, of one with mixed content
  MaxInFlight    \* bound: requests under way at once

ASSUME ValuesAreDistinct ==
  /\ Empty # Torn
  /\ None \notin Calls \cup Meetings \cup {Empty, Torn}
  /\ Empty \notin Calls /\ Torn \notin Calls

\* notes_md: the call whose text it is, Empty, Torn or None.
\* writers: the calls that hold the file now named notes.md open for writing.
Directories ==
  [notes_md : Calls \cup {Empty, Torn, None}, writers : SUBSET Calls,
   partials : SUBSET Calls, video : BOOLEAN]

ASSUME NoneIsNoDirectory == None \notin Directories

VARIABLES
  rows,      \* meetings in the registry
  notes,     \* meeting -> note rows, each the text and the call it came from
  dir,       \* meeting -> its directory
  call,      \* the requests
  stray,     \* history: meetings whose directory may outlive the row
  torn       \* history: meetings whose notes.md may be left incomplete

vars == <<rows, notes, dir, call, stray, torn>>

NewDir == [notes_md |-> None, writers |-> {}, partials |-> {}, video |-> FALSE]

Ops == {"start", "delete", "deleteVideo", "save", "generate"}

Steps ==
  {"create_dir", "create_row", "undo_dir", "delete_lookup", "delete_row", "delete_dir",
   "video_lookup", "video_stat", "video_remove",
   "save_lookup", "save_write", "save_rename", "save_row",
   "gen_lookup", "gen_dir", "gen_export", "gen_shots", "gen_open", "gen_write", "gen_read", "gen_row"}

\* A call is idle, at one of the steps, done or lost in a crash.
Unused == [op |-> None, pc |-> "idle", m |-> None, text |-> None, reply |-> "none"]

\* Meetings recorded earlier, with or without a video.
Init ==
  /\ rows \in SUBSET Meetings
  /\ notes = [m \in Meetings |-> {}]
  /\ \E v \in SUBSET rows :
       dir = [m \in Meetings |-> IF m \in rows THEN [NewDir EXCEPT !.video = m \in v] ELSE None]
  /\ call = [c \in Calls |-> Unused]
  /\ stray = {} /\ torn = {}

InFlight == {c \in Calls : call[c].pc \in Steps}

At(c, pc) == call[c].pc = pc
Goto(c, pc) == call' = [call EXCEPT ![c].pc = pc]
Reply(c, r) ==
  call' = [call EXCEPT ![c] = [op |-> @.op, pc |-> "done", m |-> @.m, text |-> @.text, reply |-> r]]

\* A UUID: never a meeting that is or was in use.
Fresh(m) == m \notin rows /\ \A c \in Calls : call[c].m # m

First(op, m) ==
  CASE op = "start" -> "create_dir"
    [] op = "delete" -> "delete_lookup"
    [] op = "deleteVideo" -> "video_lookup"
    [] op = "save" -> "save_lookup"
    [] op = "generate" -> IF Fresh(m) THEN "create_dir" ELSE "gen_lookup"

\* A request arrives.  Without a meeting_id notes.generate makes a new meeting.
Begin(c, op, m) ==
  /\ At(c, "idle") /\ Cardinality(InFlight) < MaxInFlight
  /\ op = "start" => Fresh(m)
  /\ call' = [call EXCEPT ![c] =
       [op |-> op, pc |-> First(op, m), m |-> m, text |-> None, reply |-> "none"]]
  /\ UNCHANGED <<rows, notes, dir, stray, torn>>

\* get_meeting and validate_meeting_dir, the first step of four handlers.
Lookup(c, from, to) ==
  /\ At(c, from)
  /\ IF call[c].m \in rows THEN Goto(c, to) ELSE Reply(c, "Err")
  /\ UNCHANGED <<rows, notes, dir, stray, torn>>

\* A step that fails with an error to the caller and no effect.
Fail(c, from) ==
  /\ At(c, from)
  /\ Reply(c, "Err")
  /\ UNCHANGED <<rows, notes, dir, stray, torn>>

-----------------------------------------------------------------------------
(***************************************************************************)
(* create_meeting_dir_and_row, for meeting.start and notes.generate.       *)
(***************************************************************************)
\* The row before the directory.
CreateDirAfterRow(c) ==
  /\ At(c, "create_dir")
  /\ rows' = rows \cup {call[c].m}
  /\ Goto(c, "create_row")
  /\ UNCHANGED <<notes, dir, stray, torn>>

CreateDir(c) ==
  /\ At(c, "create_dir")
  /\ dir' = [dir EXCEPT ![call[c].m] = NewDir]
  /\ Goto(c, "create_row")
  /\ UNCHANGED <<rows, notes, stray, torn>>

\* create_dir_all makes meetings/<id> before its screenshots/, and an error
\* removes neither: the directory may stay, with nobody to remove it.
CreateDirFails(c) ==
  LET m == call[c].m IN
  /\ At(c, "create_dir")
  /\ \/ UNCHANGED <<dir, stray>>
     \/ dir' = [dir EXCEPT ![m] = NewDir] /\ stray' = stray \cup {m}
  /\ Reply(c, "Err")
  /\ UNCHANGED <<rows, notes, torn>>

CreateRow(c) ==
  /\ At(c, "create_row")
  /\ \/ /\ rows' = rows \cup {call[c].m}
        /\ IF call[c].op = "start" THEN Reply(c, "Ok") ELSE Goto(c, "gen_dir")
     \/ Goto(c, "undo_dir") /\ UNCHANGED rows
  /\ UNCHANGED <<notes, dir, stray, torn>>

(***************************************************************************)
(* remove_dir_all: everything, or, on an error, a part.  An error leaves a *)
(* stray directory, which is logged and nothing more.                      *)
(***************************************************************************)
Remaining(d) ==
  {[notes_md |-> t, writers |-> IF t = None THEN {} ELSE d.writers, partials |-> p, video |-> v] :
     t \in {d.notes_md, None}, p \in SUBSET d.partials, v \in {d.video, FALSE}}

RemoveDirAll(m) ==
  \/ dir' = [dir EXCEPT ![m] = None] /\ UNCHANGED stray
  \/ /\ dir[m] # None
     /\ \E d \in Remaining(dir[m]) : dir' = [dir EXCEPT ![m] = d]
     /\ stray' = stray \cup {m}

UndoDir(c) ==
  /\ At(c, "undo_dir")
  /\ RemoveDirAll(call[c].m)
  /\ Reply(c, "Err")
  /\ UNCHANGED <<rows, notes, torn>>

-----------------------------------------------------------------------------
(***************************************************************************)
(* meeting.delete and meeting.deleteVideo.                                 *)
(***************************************************************************)
\* delete_meeting; its cascade takes the note rows.  Another call may have
\* deleted the row since the lookup.
DeleteRow(c) ==
  /\ At(c, "delete_row")
  /\ IF call[c].m \in rows
     THEN /\ rows' = rows \ {call[c].m}
          /\ notes' = [notes EXCEPT ![call[c].m] = {}]
          /\ Goto(c, "delete_dir")
     ELSE Reply(c, "Err") /\ UNCHANGED <<rows, notes>>
  /\ UNCHANGED <<dir, stray, torn>>

DeleteDir(c) ==
  /\ At(c, "delete_dir")
  /\ RemoveDirAll(call[c].m)
  /\ Reply(c, "Ok")
  /\ UNCHANGED <<rows, notes, torn>>

HasVideo(m) == dir[m] # None /\ dir[m].video

VideoStat(c) ==
  /\ At(c, "video_stat")
  /\ IF HasVideo(call[c].m) THEN Goto(c, "video_remove") ELSE Reply(c, "Ok")
  /\ UNCHANGED <<rows, notes, dir, stray, torn>>

\* Reporting what the stat saw, whatever remove_file finds.
VideoRemoveTrustsStat(c) ==
  /\ At(c, "video_remove")
  /\ dir' = IF HasVideo(call[c].m) THEN [dir EXCEPT ![call[c].m].video = FALSE] ELSE dir
  /\ Reply(c, "Deleted")
  /\ UNCHANGED <<rows, notes, stray, torn>>

\* A file that has gone since the stat is "not deleted", not an error.
VideoRemove(c) ==
  /\ At(c, "video_remove")
  /\ IF HasVideo(call[c].m)
     THEN dir' = [dir EXCEPT ![call[c].m].video = FALSE] /\ Reply(c, "Deleted")
     ELSE UNCHANGED dir /\ Reply(c, "Ok")
  /\ UNCHANGED <<rows, notes, stray, torn>>

-----------------------------------------------------------------------------
(***************************************************************************)
(* notes.save: a temporary file, renamed over notes.md, then the row.      *)
(***************************************************************************)
\* The temporary file's directory made when it is missing.
SaveWriteMakesDir(c) ==
  /\ At(c, "save_write")
  /\ dir' = [dir EXCEPT ![call[c].m] =
       [(IF @ = None THEN NewDir ELSE @) EXCEPT !.partials = @ \cup {c}]]
  /\ Goto(c, "save_rename")
  /\ UNCHANGED <<rows, notes, stray, torn>>

\* notes.md written in place.
SaveWriteInPlace(c) ==
  /\ At(c, "save_write") /\ dir[call[c].m] # None
  /\ dir' = [dir EXCEPT ![call[c].m].partials = @ \cup {c}, ![call[c].m].notes_md = Empty]
  /\ Goto(c, "save_rename")
  /\ UNCHANGED <<rows, notes, stray, torn>>

SaveWrite(c) ==
  /\ At(c, "save_write") /\ dir[call[c].m] # None
  /\ dir' = [dir EXCEPT ![call[c].m].partials = @ \cup {c}]
  /\ Goto(c, "save_rename")
  /\ UNCHANGED <<rows, notes, stray, torn>>

\* The temporary file may have been begun.
SaveWriteFails(c) ==
  /\ At(c, "save_write")
  /\ \/ UNCHANGED dir
     \/ dir[call[c].m] # None /\ dir' = [dir EXCEPT ![call[c].m].partials = @ \cup {c}]
  /\ Reply(c, "Err")
  /\ UNCHANGED <<rows, notes, stray, torn>>

\* rename: whoever has the old notes.md open now writes to a nameless file.
SaveRename(c) ==
  /\ At(c, "save_rename")
  /\ dir[call[c].m] # None /\ c \in dir[call[c].m].partials
  /\ dir' = [dir EXCEPT ![call[c].m] =
       [notes_md |-> c, writers |-> {}, partials |-> @.partials \ {c}, video |-> @.video]]
  /\ Goto(c, "save_row")
  /\ UNCHANGED <<rows, notes, stray, torn>>

\* replace_meeting_note: one fresh row.
SaveRow(c) ==
  /\ At(c, "save_row")
  /\ IF call[c].m \in rows
     THEN /\ notes' = [notes EXCEPT ![call[c].m] = {[by |-> c, text |-> c]}]
          /\ Reply(c, "Ok")
     ELSE Reply(c, "Err") /\ UNCHANGED notes
  /\ UNCHANGED <<rows, dir, stray, torn>>

-----------------------------------------------------------------------------
(***************************************************************************)
(* notes.generate, from the meeting's lookup to its note row.              *)
(***************************************************************************)
\* A job whose meeting was deleted meanwhile brings the directory back.
MakeDirs(m) ==
  /\ dir' = [dir EXCEPT ![m] = IF @ = None THEN NewDir ELSE @]
  /\ stray' = IF m \in rows THEN stray ELSE stray \cup {m}

\* After transcription: create_dir_all, then the transcript files.
GenDir(c) ==
  /\ At(c, "gen_dir")
  /\ MakeDirs(call[c].m)
  /\ Goto(c, "gen_export")
  /\ UNCHANGED <<rows, notes, torn>>

\* After the notes were generated: the exporter makes the directory again.
\* Whether there are screenshots to copy was found out before.
GenExport(c) ==
  /\ At(c, "gen_export")
  /\ MakeDirs(call[c].m)
  /\ Goto(c, "gen_shots") \/ Goto(c, "gen_open")
  /\ UNCHANGED <<rows, notes, torn>>

\* render_screenshots makes the directory once more and copies into it; what it
\* copies lay in the same directory and is gone with it.  It runs once for each
\* section with screenshots, which with the directory there changes nothing.
GenShots(c) ==
  LET m == call[c].m IN
  /\ At(c, "gen_shots")
  /\ MakeDirs(m)
  /\ IF dir[m] = None THEN Reply(c, "Err") ELSE Goto(c, "gen_open")
  /\ UNCHANGED <<rows, notes, torn>>

\* notes.md with text t and writers w, in a directory that is otherwise as it was.
NotesFile(m, t, w) ==
  dir' = [dir EXCEPT ![m] =
    [notes_md |-> t, writers |-> w, partials |-> @.partials, video |-> @.video]]

\* The exporter's fs::write opens and truncates notes.md, ...
GenOpen(c) ==
  /\ At(c, "gen_open") /\ dir[call[c].m] # None
  /\ NotesFile(call[c].m, Empty, dir[call[c].m].writers \cup {c})
  /\ Goto(c, "gen_write")
  /\ UNCHANGED <<rows, notes, stray, torn>>

\* ... then writes it from the start: over what another export has written
\* since, whose longer text may show behind it.
GenWrite(c) ==
  LET m == call[c].m IN
  /\ At(c, "gen_write")
  /\ IF dir[m] = None \/ c \notin dir[m].writers
     THEN UNCHANGED <<dir, torn>>   \* the open file has lost its name
     ELSE \E t \in IF dir[m].notes_md = Empty THEN {c} ELSE {c, Torn} :
            /\ NotesFile(m, t, dir[m].writers \ {c})
            /\ torn' = IF t = Torn THEN torn \cup {m} ELSE torn
  /\ Goto(c, "gen_read")
  /\ UNCHANGED <<rows, notes, stray>>

\* Write error: the export fails with part of the file written.
GenWriteFails(c) ==
  LET m == call[c].m IN
  /\ At(c, "gen_write")
  /\ IF dir[m] # None /\ c \in dir[m].writers
     THEN /\ NotesFile(m, Torn, dir[m].writers \ {c})
          /\ torn' = torn \cup {m}
     ELSE UNCHANGED <<dir, torn>>
  /\ Reply(c, "Err")
  /\ UNCHANGED <<rows, notes, stray>>

\* read_to_string; a file that is gone or cannot be read becomes an empty text.
ReadBack(m) == {Empty} \cup (IF dir[m] = None THEN {} ELSE {dir[m].notes_md} \ {None})

GenRead(c) ==
  /\ At(c, "gen_read")
  /\ \E t \in ReadBack(call[c].m) :
       call' = [call EXCEPT ![c] =
         [op |-> @.op, pc |-> "gen_row", m |-> @.m, text |-> t, reply |-> @.reply]]
  /\ UNCHANGED <<rows, notes, dir, stray, torn>>

\* create_note; a meeting deleted meanwhile, or any other error, is only logged.
GenRow(c) ==
  /\ At(c, "gen_row")
  /\ \/ /\ call[c].m \in rows
        /\ notes' = [notes EXCEPT ![call[c].m] = @ \cup {[by |-> c, text |-> call[c].text]}]
     \/ UNCHANGED notes
  /\ Reply(c, "Ok")
  /\ UNCHANGED <<rows, dir, stray, torn>>

-----------------------------------------------------------------------------
\* SIGKILL, and the engine started again: rows and files stay as they are.
Crash ==
  /\ InFlight # {}
  /\ call' = [c \in Calls |-> IF c \in InFlight THEN [call[c] EXCEPT !.pc = "lost"] ELSE call[c]]
  /\ stray' = stray \cup {m \in Meetings : m \notin rows /\ dir[m] # None}
  /\ torn' = torn \cup {m \in Meetings : dir[m] # None /\ dir[m].writers # {}}
  /\ dir' = [m \in Meetings |-> IF dir[m] = None THEN None ELSE [dir[m] EXCEPT !.writers = {}]]
  /\ UNCHANGED <<rows, notes>>

Step(c) ==
  \/ CreateDir(c) \/ CreateDirFails(c) \/ CreateRow(c) \/ UndoDir(c)
  \/ Lookup(c, "delete_lookup", "delete_row") \/ DeleteRow(c) \/ DeleteDir(c)
  \/ Lookup(c, "video_lookup", "video_stat") \/ VideoStat(c) \/ VideoRemove(c)
  \/ Lookup(c, "save_lookup", "save_write") \/ SaveWrite(c) \/ SaveWriteFails(c)
  \/ SaveRename(c) \/ SaveRow(c)
  \/ Lookup(c, "gen_lookup", "gen_dir")
  \/ GenDir(c) \/ GenExport(c) \/ GenShots(c) \/ GenOpen(c) \/ GenWrite(c)
  \/ GenWriteFails(c) \/ GenRead(c) \/ GenRow(c)
  \/ \E pc \in {"delete_row", "video_stat", "video_remove", "save_rename", "save_row",
                "gen_dir", "gen_export", "gen_shots", "gen_open"} : Fail(c, pc)

Next ==
  \/ \E c \in Calls, op \in Ops, m \in Meetings : Begin(c, op, m)
  \/ \E c \in Calls : Step(c)
  \/ Crash

Spec == Init /\ [][Next]_vars

-----------------------------------------------------------------------------
\* A meeting in the registry has its directory, whatever calls overlap and
\* wherever the engine was killed: the directory is made before the row and
\* removed after it.
RowHasDirectory == \A m \in rows : dir[m] # None

\* A directory without a row belongs to a call that is creating or deleting its
\* meeting, or is explained: a creation or a removal that failed half way, a
\* kill, or a notes job that was running when its meeting was deleted.
\* notes.save brings none back.
StrayDirectoriesExplained ==
  \A m \in Meetings \ rows :
    dir[m] # None =>
      \/ m \in stray
      \/ \E c \in InFlight : /\ call[c].m = m
                             /\ call[c].pc \in {"create_row", "undo_dir", "delete_dir"}

\* notes.md is incomplete only while an export has it open, or after an export
\* was killed, failed to write or overlapped another one; never through
\* notes.save, which renames a whole file into place.
NotesTornOnlyByExport ==
  \A m \in Meetings :
    dir[m] # None /\ dir[m].notes_md \in {Empty, Torn} => dir[m].writers # {} \/ m \in torn

\* meeting.deleteVideo answers deleted for one recording.mov at most once, so
\* freed_bytes is not counted twice.
VideoFreedOnce ==
  \A m \in Meetings :
    LET freed == {c \in Calls : call[c].m = m /\ call[c].reply = "Deleted"}
    IN  Cardinality(freed) <= 1 /\ (freed # {} => ~HasVideo(m))
=============================================================================
