------------------------------- MODULE Storage -------------------------------
(***************************************************************************)
(* The meeting registry: crates/panops-portable/src/rusqlite_storage.rs.   *)
(*                                                                         *)
(* One SQLite file behind one Mutex<Connection>.  A call that takes the    *)
(* lock once is one action; update_meeting_ended and rename_meeting drop   *)
(* the lock between their UPDATE and the read that builds the reply, so    *)
(* each of them is two actions and other callers' calls may come between.  *)
(*                                                                         *)
(* A table is a function from the ids of its rows to the columns that the  *)
(* properties tell apart.  Titles, names of spaces and projects, times and *)
(* note texts are not kept: no guard of the storage reads them.            *)
(***************************************************************************)
EXTENDS Integers, FiniteSetsExt

CONSTANTS
  MeetingIds, NoteIds, DirPaths,     \* supplied by the caller in the drafts
  SpaceIds, ProjectIds, TagIds,      \* what new_id can give out
  TagNames,
  Callers,                           \* threads that may call the storage
  None                               \* SQL NULL, and "no call pending"

ASSUME NoneIsNoId ==
  None \notin MeetingIds \cup SpaceIds \cup ProjectIds

VARIABLES
  meeting,      \* id -> [dir_path, space_id, project_id, ended]
  note,         \* id -> [meeting_id]
  space,        \* id -> [position]
  project,      \* id -> [space_id, position]
  tag,          \* id -> [name]
  meeting_tag,  \* set of <<meeting id, tag id>>
  issued,       \* ids given out so far: a UUID or new_id never repeats one
  readback,     \* per caller, the meeting whose row it reads back next
  reply         \* outcome of the last call

tables == <<meeting, note, space, project, tag, meeting_tag>>
vars == <<meeting, note, space, project, tag, meeting_tag,
          issued, readback, reply>>

\* "Pending": an UPDATE has run and its caller has not been answered yet.
Replies == {"Ok", "Pending", "NotFound", "AlreadyExists", "UniqueConflict"}

MeetingRow == [dir_path : DirPaths, space_id : SpaceIds \cup {None},
               project_id : ProjectIds \cup {None}, ended : BOOLEAN]
NoteRow    == [meeting_id : MeetingIds]
SpaceRow   == [position : Nat]
ProjectRow == [space_id : SpaceIds, position : Nat]
TagRow     == [name : TagNames]

\* A table with primary keys in Ids and rows in Rows.
IsTable(t, Ids, Rows) == DOMAIN t \subseteq Ids /\ t \in [DOMAIN t -> Rows]

-----------------------------------------------------------------------------
(***************************************************************************)
(* SQL statements.                                                         *)
(***************************************************************************)

Insert(table, id, row) ==
  [k \in DOMAIN table \cup {id} |-> IF k = id THEN row ELSE table[k]]

DeleteRows(table, ids) == [k \in DOMAIN table \ ids |-> table[k]]

\* The number of rows, which is taken again once a row in the middle is deleted.
NextPositionReusingGaps(positions) == Cardinality(positions)

\* MAX(position) + 1 over the given positions, 0 when there is none.
next_position(positions) == IF positions = {} THEN 0 ELSE Max(positions) + 1

\* DELETE FROM meeting with ON DELETE CASCADE on note and meeting_tag.
DropMeetings(ids) ==
  /\ meeting' = DeleteRows(meeting, ids)
  /\ note' = DeleteRows(note, {n \in DOMAIN note : note[n].meeting_id \in ids})
  /\ meeting_tag' = {mt \in meeting_tag : mt[1] \notin ids}

\* DELETE FROM project: meeting.project_id is ON DELETE SET NULL.
MeetingsWithoutProjects(m, ids) ==
  [k \in DOMAIN m |->
     IF m[k].project_id \in ids THEN [m[k] EXCEPT !.project_id = None] ELSE m[k]]

\* DELETE FROM space: meeting.space_id is ON DELETE SET NULL.
MeetingsWithoutSpace(m, s) ==
  [k \in DOMAIN m |->
     IF m[k].space_id = s THEN [m[k] EXCEPT !.space_id = None] ELSE m[k]]

\* ensure_row_exists, and "n == 0" after an UPDATE or a DELETE.
NotFoundUnless(found) == IF found THEN "Ok" ELSE "NotFound"

-----------------------------------------------------------------------------
(***************************************************************************)
(* Meetings and notes.                                                     *)
(***************************************************************************)

NewMeeting(d) ==
  [dir_path |-> d, space_id |-> None, project_id |-> None, ended |-> FALSE]

\* The constraint violations an INSERT of meeting m with directory d meets.
\* With both keys taken SQLite may name either one.
MeetingConflicts(m, d) ==
  {"AlreadyExists" : x \in {m} \cap DOMAIN meeting}
    \cup {"UniqueConflict" : x \in {k \in DOMAIN meeting : meeting[k].dir_path = d}}

\* A draft names a new UUID, or one that is still in the table (a retry).
DraftMeetingId(m) == m \notin issued \/ m \in DOMAIN meeting

create_meeting(m, d) ==
  /\ DraftMeetingId(m)
  /\ \/ /\ MeetingConflicts(m, d) = {}
        /\ meeting' = Insert(meeting, m, NewMeeting(d))
        /\ issued' = issued \cup {m}
        /\ reply' = "Ok"
     \/ /\ reply' \in MeetingConflicts(m, d)
        /\ UNCHANGED <<meeting, issued>>
  /\ UNCHANGED <<note, space, project, tag, meeting_tag, readback>>

\* One transaction: both rows or, on either conflict, neither.
create_meeting_with_note(m, d, n, e) ==
  /\ DraftMeetingId(m)
  /\ \/ /\ MeetingConflicts(m, d) = {}
        /\ n \notin DOMAIN note
        /\ meeting' = Insert(meeting, m, [NewMeeting(d) EXCEPT !.ended = e])
        /\ note' = Insert(note, n, [meeting_id |-> m])
        /\ issued' = issued \cup {m}
        /\ reply' = "Ok"
     \/ /\ MeetingConflicts(m, d) = {} => n \in DOMAIN note
        /\ reply' \in IF MeetingConflicts(m, d) = {} THEN {"AlreadyExists"}
                      ELSE MeetingConflicts(m, d)
        /\ UNCHANGED <<meeting, note, issued>>
  /\ UNCHANGED <<space, project, tag, meeting_tag, readback>>

\* First half of update_meeting_ended: UPDATE, then the lock is dropped.
update_meeting_ended(c, m) ==
  /\ readback[c] = None
  /\ \/ /\ m \in DOMAIN meeting
        /\ meeting' = [meeting EXCEPT ![m].ended = TRUE]
        /\ readback' = [readback EXCEPT ![c] = m]
        /\ reply' = "Pending"
     \/ /\ m \notin DOMAIN meeting
        /\ reply' = "NotFound"
        /\ UNCHANGED <<meeting, readback>>
  /\ UNCHANGED <<note, space, project, tag, meeting_tag, issued>>

\* First half of rename_meeting; the title itself is not kept.
rename_meeting(c, m) ==
  /\ readback[c] = None
  /\ \/ /\ m \in DOMAIN meeting
        /\ readback' = [readback EXCEPT ![c] = m]
        /\ reply' = "Pending"
     \/ /\ m \notin DOMAIN meeting
        /\ reply' = "NotFound"
        /\ UNCHANGED readback
  /\ UNCHANGED <<tables, issued>>

\* Second half of both: get_meeting under a new lock.
get_meeting_back(c) ==
  /\ readback[c] # None
  /\ reply' = NotFoundUnless(readback[c] \in DOMAIN meeting)
  /\ readback' = [readback EXCEPT ![c] = None]
  /\ UNCHANGED <<tables, issued>>

\* ON DELETE CASCADE missing on the note table.
DeleteMeetingKeepsNotes(m) ==
  /\ meeting' = DeleteRows(meeting, {m})
  /\ meeting_tag' = {mt \in meeting_tag : mt[1] # m}
  /\ reply' = NotFoundUnless(m \in DOMAIN meeting)
  /\ UNCHANGED <<note, space, project, tag, issued, readback>>

delete_meeting(m) ==
  /\ DropMeetings({m})
  /\ reply' = NotFoundUnless(m \in DOMAIN meeting)
  /\ UNCHANGED <<space, project, tag, issued, readback>>

\* Meeting checked first, then the note's primary key.
create_note(n, m) ==
  /\ \/ /\ m \in DOMAIN meeting /\ n \notin DOMAIN note
        /\ note' = Insert(note, n, [meeting_id |-> m])
        /\ reply' = "Ok"
     \/ /\ m \notin DOMAIN meeting \/ n \in DOMAIN note
        /\ reply' = IF m \notin DOMAIN meeting THEN "NotFound" ELSE "AlreadyExists"
        /\ UNCHANGED note
  /\ UNCHANGED <<meeting, space, project, tag, meeting_tag, issued, readback>>

NotesOf(m) == {n \in DOMAIN note : note[n].meeting_id = m}

\* replace_meeting_note committing its DELETE before the INSERT is tried.
ReplaceMeetingNoteNoTransaction(m, n) ==
  LET kept == DeleteRows(note, NotesOf(m))
  IN  /\ IF m \notin DOMAIN meeting
         THEN reply' = "NotFound" /\ UNCHANGED note
         ELSE IF n \in DOMAIN kept
              THEN reply' = "AlreadyExists" /\ note' = kept
              ELSE reply' = "Ok" /\ note' = Insert(kept, n, [meeting_id |-> m])
      /\ UNCHANGED <<meeting, space, project, tag, meeting_tag, issued, readback>>

\* One transaction: delete the meeting's notes, insert the draft.  The draft's
\* id may still belong to another meeting's note: then all is rolled back.
replace_meeting_note(m, n) ==
  LET kept == DeleteRows(note, NotesOf(m))
  IN  /\ \/ /\ m \in DOMAIN meeting /\ n \notin DOMAIN kept
            /\ note' = Insert(kept, n, [meeting_id |-> m])
            /\ reply' = "Ok"
         \/ /\ m \notin DOMAIN meeting \/ n \in DOMAIN kept
            /\ reply' = IF m \notin DOMAIN meeting THEN "NotFound"
                        ELSE "AlreadyExists"
            /\ UNCHANGED note
      /\ UNCHANGED <<meeting, space, project, tag, meeting_tag, issued, readback>>

-----------------------------------------------------------------------------
(***************************************************************************)
(* Spaces, projects and tags.                                              *)
(***************************************************************************)

create_space(s) ==
  /\ s \notin issued
  /\ space' = Insert(space, s,
       [position |-> next_position({space[k].position : k \in DOMAIN space})])
  /\ issued' = issued \cup {s}
  /\ reply' = "Ok"
  /\ UNCHANGED <<meeting, note, project, tag, meeting_tag, readback>>

\* The name is not kept: only the outcome of the UPDATE remains.
rename_space(s) ==
  /\ reply' = NotFoundUnless(s \in DOMAIN space)
  /\ UNCHANGED <<tables, issued, readback>>

ProjectsOf(s) == {p \in DOMAIN project : project[p].space_id = s}

\* The cascade stops at the projects: their meetings still name them.
DeleteSpaceOneLevel(s) ==
  /\ space' = DeleteRows(space, {s})
  /\ project' = DeleteRows(project, ProjectsOf(s))
  /\ meeting' = MeetingsWithoutSpace(meeting, s)
  /\ reply' = NotFoundUnless(s \in DOMAIN space)
  /\ UNCHANGED <<note, tag, meeting_tag, issued, readback>>

\* The space's projects go with it, and its meetings become unsorted.
delete_space(s) ==
  /\ space' = DeleteRows(space, {s})
  /\ project' = DeleteRows(project, ProjectsOf(s))
  /\ meeting' = MeetingsWithoutSpace(MeetingsWithoutProjects(meeting, ProjectsOf(s)), s)
  /\ reply' = NotFoundUnless(s \in DOMAIN space)
  /\ UNCHANGED <<note, tag, meeting_tag, issued, readback>>

create_project(p, s) ==
  /\ p \notin issued
  /\ \/ /\ s \in DOMAIN space
        /\ project' = Insert(project, p,
             [space_id |-> s,
              position |-> next_position({project[k].position : k \in ProjectsOf(s)})])
        /\ issued' = issued \cup {p}
        /\ reply' = "Ok"
     \/ /\ s \notin DOMAIN space
        /\ reply' = "NotFound"
        /\ UNCHANGED <<project, issued>>
  /\ UNCHANGED <<meeting, note, space, tag, meeting_tag, readback>>

rename_project(p) ==
  /\ reply' = NotFoundUnless(p \in DOMAIN project)
  /\ UNCHANGED <<tables, issued, readback>>

delete_project(p) ==
  /\ project' = DeleteRows(project, {p})
  /\ meeting' = MeetingsWithoutProjects(meeting, {p})
  /\ reply' = NotFoundUnless(p \in DOMAIN project)
  /\ UNCHANGED <<note, space, tag, meeting_tag, issued, readback>>

\* Idempotent by name: an existing tag of that name is returned as it is.
create_tag(t, name) ==
  /\ t \notin issued
  /\ IF \E k \in DOMAIN tag : tag[k].name = name
     THEN UNCHANGED <<tag, issued>>
     ELSE /\ tag' = Insert(tag, t, [name |-> name])
          /\ issued' = issued \cup {t}
  /\ reply' = "Ok"
  /\ UNCHANGED <<meeting, note, space, project, meeting_tag, readback>>

delete_tag(t) ==
  /\ tag' = DeleteRows(tag, {t})
  /\ meeting_tag' = {mt \in meeting_tag : mt[2] # t}
  /\ reply' = NotFoundUnless(t \in DOMAIN tag)
  /\ UNCHANGED <<meeting, note, space, project, issued, readback>>

tag_meeting(m, t) ==
  /\ \/ /\ m \in DOMAIN meeting /\ t \in DOMAIN tag
        /\ meeting_tag' = meeting_tag \cup {<<m, t>>}
        /\ reply' = "Ok"
     \/ /\ m \notin DOMAIN meeting \/ t \notin DOMAIN tag
        /\ reply' = "NotFound"
        /\ UNCHANGED meeting_tag
  /\ UNCHANGED <<meeting, note, space, project, tag, issued, readback>>

untag_meeting(m, t) ==
  /\ \/ /\ m \in DOMAIN meeting /\ t \in DOMAIN tag
        /\ meeting_tag' = meeting_tag \ {<<m, t>>}
        /\ reply' = "Ok"
     \/ /\ m \notin DOMAIN meeting \/ t \notin DOMAIN tag
        /\ reply' = "NotFound"
        /\ UNCHANGED meeting_tag
  /\ UNCHANGED <<meeting, note, space, project, tag, issued, readback>>

\* assign_meeting trusting the caller's space when a project is given.
AssignMeetingTrustsCaller(m, s, p) ==
  /\ IF /\ m \in DOMAIN meeting
        /\ p # None => p \in DOMAIN project
        /\ s # None => s \in DOMAIN space
     THEN /\ meeting' = [meeting EXCEPT ![m].space_id = s, ![m].project_id = p]
          /\ reply' = "Ok"
     ELSE reply' = "NotFound" /\ UNCHANGED meeting
  /\ UNCHANGED <<note, space, project, tag, meeting_tag, issued, readback>>

\* A project decides the space, whatever space the caller names; without a
\* project the caller's space (or none) is used and the project is cleared.
assign_meeting(m, s, p) ==
  /\ \/ /\ m \in DOMAIN meeting
        /\ p # None => p \in DOMAIN project
        /\ p = None /\ s # None => s \in DOMAIN space
        /\ meeting' = [meeting EXCEPT ![m] =
             [@ EXCEPT !.space_id = IF p # None THEN project[p].space_id ELSE s,
                       !.project_id = p]]
        /\ reply' = "Ok"
     \/ /\ \/ m \notin DOMAIN meeting
           \/ p # None /\ p \notin DOMAIN project
           \/ p = None /\ s # None /\ s \notin DOMAIN space
        /\ reply' = "NotFound"
        /\ UNCHANGED meeting
  /\ UNCHANGED <<note, space, project, tag, meeting_tag, issued, readback>>

\* The unsorted filter looking at the project instead of the space.
ListMeetingsUnsortedByProject(f) ==
  {m \in DOMAIN meeting :
     /\ f.unsorted => meeting[m].project_id = None
     /\ f.space_id # None => meeting[m].space_id = f.space_id
     /\ f.project_id # None => meeting[m].project_id = f.project_id
     /\ f.tag_id # None => <<m, f.tag_id>> \in meeting_tag}

\* list_meetings_filtered: every filter that is set must let the row pass.
list_meetings_filtered(f) ==
  {m \in DOMAIN meeting :
     /\ f.unsorted => meeting[m].space_id = None
     /\ f.space_id # None => meeting[m].space_id = f.space_id
     /\ f.project_id # None => meeting[m].project_id = f.project_id
     /\ f.tag_id # None => <<m, f.tag_id>> \in meeting_tag}

-----------------------------------------------------------------------------
Init ==
  /\ meeting = <<>> /\ note = <<>> /\ space = <<>> /\ project = <<>> /\ tag = <<>>
  /\ meeting_tag = {}
  /\ issued = {}
  /\ readback = [c \in Callers |-> None]
  /\ reply = "Ok"

\* meeting.start, meeting.stop, meeting.rename, meeting.delete, meeting.assign, and
\* the notes the engine keeps for a meeting.
MeetingCalls ==
  \/ \E m \in MeetingIds, d \in DirPaths : create_meeting(m, d)
  \/ \E m \in MeetingIds, c \in Callers :
       update_meeting_ended(c, m) \/ rename_meeting(c, m)
  \/ \E c \in Callers : get_meeting_back(c)
  \/ \E m \in MeetingIds : delete_meeting(m)
  \/ \E m \in MeetingIds, n \in NoteIds :
       create_note(n, m) \/ replace_meeting_note(m, n)
  \/ \E m \in MeetingIds, s \in SpaceIds \cup {None}, p \in ProjectIds \cup {None} :
       assign_meeting(m, s, p)

\* The CLI: a finished meeting with its note; ended_at is left out when the
\* start time does not parse.
register_meeting_in_registry ==
  \E m \in MeetingIds, d \in DirPaths, n \in NoteIds, e \in BOOLEAN :
    create_meeting_with_note(m, d, n, e)

\* space.*, project.* and tag.*.
OrganizationCalls ==
  \/ \E s \in SpaceIds : create_space(s) \/ rename_space(s) \/ delete_space(s)
  \/ \E p \in ProjectIds, s \in SpaceIds : create_project(p, s)
  \/ \E p \in ProjectIds : rename_project(p) \/ delete_project(p)
  \/ \E t \in TagIds, name \in TagNames : create_tag(t, name)
  \/ \E t \in TagIds : delete_tag(t)
  \/ \E m \in MeetingIds, t \in TagIds : tag_meeting(m, t) \/ untag_meeting(m, t)

Next == MeetingCalls \/ register_meeting_in_registry \/ OrganizationCalls

Spec == Init /\ [][Next]_vars

-----------------------------------------------------------------------------
(***************************************************************************)
(* Properties.                                                             *)
(***************************************************************************)

\* Every table holds rows of its schema; pending reads name a meeting.
TypeOK ==
  /\ IsTable(meeting, MeetingIds, MeetingRow)
  /\ IsTable(note, NoteIds, NoteRow)
  /\ IsTable(space, SpaceIds, SpaceRow)
  /\ IsTable(project, ProjectIds, ProjectRow)
  /\ IsTable(tag, TagIds, TagRow)
  /\ meeting_tag \subseteq MeetingIds \X TagIds
  /\ issued \subseteq MeetingIds \cup SpaceIds \cup ProjectIds \cup TagIds
  /\ readback \in [Callers -> MeetingIds \cup {None}]
  /\ reply \in Replies

NotesHaveMeetings == \A n \in DOMAIN note : note[n].meeting_id \in DOMAIN meeting

ProjectsHaveSpaces == \A p \in DOMAIN project : project[p].space_id \in DOMAIN space

TagLinksHaveBothEnds ==
  \A mt \in meeting_tag : mt[1] \in DOMAIN meeting /\ mt[2] \in DOMAIN tag

MeetingRefsExist ==
  \A m \in DOMAIN meeting :
    /\ meeting[m].space_id \in DOMAIN space \cup {None}
    /\ meeting[m].project_id \in DOMAIN project \cup {None}

\* No row outlives a row it refers to, however creations, deletions and
\* assignments are interleaved: the cascades of the schema reach every table,
\* also through two levels (space, project, meeting).
ReferentialIntegrity ==
  NotesHaveMeetings /\ ProjectsHaveSpaces /\ TagLinksHaveBothEnds /\ MeetingRefsExist

\* A meeting filed under a project is filed under that project's space.
\* assign_meeting copies the space at the time of the call; nothing that
\* happens to the project or the space later may separate the two columns.
ProjectInItsSpace ==
  \A m \in DOMAIN meeting :
    meeting[m].project_id # None =>
      /\ meeting[m].project_id \in DOMAIN project
      /\ meeting[m].space_id = project[meeting[m].project_id].space_id

NoFilter == [unsorted |-> FALSE, space_id |-> None, project_id |-> None, tag_id |-> None]
Unsorted == [NoFilter EXCEPT !.unsorted = TRUE]
InSpace(s) == [NoFilter EXCEPT !.space_id = s]
InProject(p) == [NoFilter EXCEPT !.project_id = p]

\* The sidebar loses no meeting and shows none twice: each meeting is listed
\* under "unsorted" or under exactly one existing space, and the list of a
\* project is part of the list of the project's space.
SidebarPartition ==
  /\ \A m \in DOMAIN meeting :
       \/ /\ m \in list_meetings_filtered(Unsorted)
          /\ \A s \in DOMAIN space : m \notin list_meetings_filtered(InSpace(s))
       \/ /\ m \notin list_meetings_filtered(Unsorted)
          /\ \E s \in DOMAIN space :
               \A k \in DOMAIN space : m \in list_meetings_filtered(InSpace(k)) <=> k = s
  /\ \A p \in DOMAIN project :
       list_meetings_filtered(InProject(p))
         \subseteq list_meetings_filtered(InSpace(project[p].space_id))

\* Sort positions stay distinct among the spaces and among the projects of a
\* space, also after deletions have left gaps in the numbering.
DistinctPositions ==
  /\ \A s, k \in DOMAIN space : space[s].position = space[k].position => s = k
  /\ \A p, k \in DOMAIN project :
       /\ project[p].space_id = project[k].space_id
       /\ project[p].position = project[k].position
       => p = k

\* A call that reports an error has changed no table: the multi-statement
\* calls roll back, the guarded ones return before they write.
FailedCallChangesNothing ==
  [][reply' \notin {"Ok", "Pending"} => UNCHANGED tables]_vars

=============================================================================
