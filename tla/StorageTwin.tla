----------------------------- MODULE StorageTwin -----------------------------
(***************************************************************************)
(* InMemoryStorage (crates/panops-core/src/conformance/fakes.rs), which    *)
(* stands in for the SQLite registry in the tests of the engine, run in    *)
(* lock-step with it: every call goes to both.  What the tests show of the *)
(* fake holds of the program only as far as the two agree.                 *)
(*                                                                         *)
(* The fake keeps its tables in hash maps behind one mutex and does by     *)
(* hand what the schema does for SQLite.  mem is its state; an operator    *)
(* mem_f gives the state and the answer of f.  Its sequence numbers and    *)
(* SQLite's new_id both give ids that were never given before, so the ids  *)
(* are taken to be the same.                                               *)
(***************************************************************************)
EXTENDS Storage

VARIABLES
  mem,        \* InMemoryInner
  memReply    \* its answer; "None" when the last step called only SQLite

twinVars == <<vars, mem, memReply>>

EmptyMem ==
  [meetings |-> <<>>, notes |-> <<>>, spaces |-> <<>>, projects |-> <<>>, tags |-> <<>>,
   meeting_tags |-> <<>>, meeting_spaces |-> <<>>, meeting_projects |-> <<>>]

Has(map, key) == key \in DOMAIN map
Without(map, keys) == DeleteRows(map, keys)

Answers(m, r) == mem' = m /\ memReply' = r
Refuses(r) == Answers(mem, r)

-----------------------------------------------------------------------------
(***************************************************************************)
(* Meetings and notes.                                                     *)
(***************************************************************************)

MemDirTaken(d) == \E k \in DOMAIN mem.meetings : mem.meetings[k].dir_path = d

mem_create_meeting(m, d) ==
  IF Has(mem.meetings, m) THEN Refuses("AlreadyExists")
  ELSE IF MemDirTaken(d) THEN Refuses("UniqueConflict")
  ELSE Answers([mem EXCEPT !.meetings = Insert(@, m, [dir_path |-> d, ended |-> FALSE])], "Ok")

\* Everything is checked before anything is inserted.
mem_create_meeting_with_note(m, d, n, e) ==
  IF Has(mem.meetings, m) THEN Refuses("AlreadyExists")
  ELSE IF MemDirTaken(d) THEN Refuses("UniqueConflict")
  ELSE IF Has(mem.notes, n) THEN Refuses("AlreadyExists")
  ELSE Answers([mem EXCEPT !.meetings = Insert(@, m, [dir_path |-> d, ended |-> e]),
                           !.notes = Insert(@, n, [meeting_id |-> m])], "Ok")

mem_update_meeting_ended(m) ==
  IF Has(mem.meetings, m) THEN Answers([mem EXCEPT !.meetings[m].ended = TRUE], "Ok")
  ELSE Refuses("NotFound")

mem_rename_meeting(m) == Refuses(NotFoundUnless(Has(mem.meetings, m)))

\* The cascades, by hand.
mem_delete_meeting(m) ==
  IF ~Has(mem.meetings, m) THEN Refuses("NotFound")
  ELSE Answers([mem EXCEPT !.meetings = Without(@, {m}),
                           !.notes = Without(@, {n \in DOMAIN @ : @[n].meeting_id = m}),
                           !.meeting_tags = Without(@, {m}),
                           !.meeting_spaces = Without(@, {m}),
                           !.meeting_projects = Without(@, {m})], "Ok")

mem_create_note(n, m) ==
  IF ~Has(mem.meetings, m) THEN Refuses("NotFound")
  ELSE IF Has(mem.notes, n) THEN Refuses("AlreadyExists")
  ELSE Answers([mem EXCEPT !.notes = Insert(@, n, [meeting_id |-> m])], "Ok")

\* Any note with the draft's id refused, this meeting's own included.
MemReplaceNoteRefusesOwn(m, n) ==
  IF ~Has(mem.meetings, m) THEN Refuses("NotFound")
  ELSE IF Has(mem.notes, n) THEN Refuses("AlreadyExists")
  ELSE Answers([mem EXCEPT !.notes =
         Insert(Without(@, {k \in DOMAIN @ : @[k].meeting_id = m}), n, [meeting_id |-> m])], "Ok")

\* Only another meeting's note can collide, and is looked for first.
mem_replace_meeting_note(m, n) ==
  IF ~Has(mem.meetings, m) THEN Refuses("NotFound")
  ELSE IF Has(mem.notes, n) /\ mem.notes[n].meeting_id # m THEN Refuses("AlreadyExists")
  ELSE Answers([mem EXCEPT !.notes =
         Insert(Without(@, {k \in DOMAIN @ : @[k].meeting_id = m}), n, [meeting_id |-> m])], "Ok")

-----------------------------------------------------------------------------
(***************************************************************************)
(* Spaces, projects and tags.                                              *)
(***************************************************************************)

mem_next_position(positions) == IF positions = {} THEN 0 ELSE Max(positions) + 1

mem_create_space(s) ==
  Answers([mem EXCEPT !.spaces = Insert(@, s,
             [position |-> mem_next_position({@[k].position : k \in DOMAIN @})])], "Ok")

mem_rename_space(s) == Refuses(NotFoundUnless(Has(mem.spaces, s)))

MemProjectsOf(s) == {p \in DOMAIN mem.projects : mem.projects[p].space_id = s}

\* clear_space_assignments and clear_project_assignments.
AssignedTo(map, ids) == {m \in DOMAIN map : map[m] \in ids}

\* The space's projects removed without their assignments.
MemDeleteSpaceKeepsAssignments(s) ==
  IF ~Has(mem.spaces, s) THEN Refuses("NotFound")
  ELSE Answers([mem EXCEPT !.spaces = Without(@, {s}),
                           !.projects = Without(@, MemProjectsOf(s)),
                           !.meeting_spaces = Without(@, AssignedTo(@, {s}))], "Ok")

mem_delete_space(s) ==
  IF ~Has(mem.spaces, s) THEN Refuses("NotFound")
  ELSE Answers([mem EXCEPT !.spaces = Without(@, {s}),
                           !.projects = Without(@, MemProjectsOf(s)),
                           !.meeting_projects = Without(@, AssignedTo(@, MemProjectsOf(s))),
                           !.meeting_spaces = Without(@, AssignedTo(@, {s}))], "Ok")

mem_create_project(p, s) ==
  IF ~Has(mem.spaces, s) THEN Refuses("NotFound")
  ELSE Answers([mem EXCEPT !.projects = Insert(@, p,
         [space_id |-> s,
          position |-> mem_next_position({@[k].position : k \in MemProjectsOf(s)})])], "Ok")

mem_rename_project(p) == Refuses(NotFoundUnless(Has(mem.projects, p)))

mem_delete_project(p) ==
  IF ~Has(mem.projects, p) THEN Refuses("NotFound")
  ELSE Answers([mem EXCEPT !.projects = Without(@, {p}),
                           !.meeting_projects = Without(@, AssignedTo(@, {p}))], "Ok")

mem_create_tag(t, name) ==
  IF \E k \in DOMAIN mem.tags : mem.tags[k].name = name THEN Refuses("Ok")
  ELSE Answers([mem EXCEPT !.tags = Insert(@, t, [name |-> name])], "Ok")

\* The tag goes from every meeting's list; the list itself stays.
mem_delete_tag(t) ==
  IF ~Has(mem.tags, t) THEN Refuses("NotFound")
  ELSE Answers([mem EXCEPT !.tags = Without(@, {t}),
                           !.meeting_tags = [m \in DOMAIN @ |-> @[m] \ {t}]], "Ok")

TagsOf(m) == IF Has(mem.meeting_tags, m) THEN mem.meeting_tags[m] ELSE {}

mem_tag_meeting(m, t) ==
  IF ~Has(mem.meetings, m) \/ ~Has(mem.tags, t) THEN Refuses("NotFound")
  ELSE Answers([mem EXCEPT !.meeting_tags = Insert(@, m, TagsOf(m) \cup {t})], "Ok")

mem_untag_meeting(m, t) ==
  IF ~Has(mem.meetings, m) \/ ~Has(mem.tags, t) THEN Refuses("NotFound")
  ELSE Answers([mem EXCEPT !.meeting_tags =
         IF Has(@, m) THEN Insert(@, m, TagsOf(m) \ {t}) ELSE @], "Ok")

\* set_assignment: a map entry is put, or removed for None.
Assigned(map, m, id) == IF id = None THEN Without(map, {m}) ELSE Insert(map, m, id)

mem_assign_meeting(m, s, p) ==
  LET assigned(sp) == [mem EXCEPT !.meeting_spaces = Assigned(@, m, sp),
                                  !.meeting_projects = Assigned(@, m, p)]
  IN  IF ~Has(mem.meetings, m) THEN Refuses("NotFound")
      ELSE IF p # None
           THEN IF Has(mem.projects, p) THEN Answers(assigned(mem.projects[p].space_id), "Ok")
                ELSE Refuses("NotFound")
      ELSE IF s # None /\ ~Has(mem.spaces, s) THEN Refuses("NotFound")
      ELSE Answers(assigned(s), "Ok")

LookUp(map, m) == IF Has(map, m) THEN map[m] ELSE None

mem_list_meetings_filtered(f) ==
  {m \in DOMAIN mem.meetings :
     /\ f.unsorted => ~Has(mem.meeting_spaces, m)
     /\ f.space_id # None => LookUp(mem.meeting_spaces, m) = f.space_id
     /\ f.project_id # None => LookUp(mem.meeting_projects, m) = f.project_id
     /\ f.tag_id # None => f.tag_id \in TagsOf(m)}

-----------------------------------------------------------------------------
TwinInit == Init /\ mem = EmptyMem /\ memReply = "Ok"

\* Every call of the Storage trait on both adapters.
TwinNext ==
  \/ \E m \in MeetingIds, d \in DirPaths :
       \/ create_meeting(m, d) /\ mem_create_meeting(m, d)
       \/ \E n \in NoteIds, e \in BOOLEAN :
            create_meeting_with_note(m, d, n, e) /\ mem_create_meeting_with_note(m, d, n, e)
  \/ \E m \in MeetingIds, c \in Callers :
       \/ update_meeting_ended(c, m) /\ mem_update_meeting_ended(m)
       \/ rename_meeting(c, m) /\ mem_rename_meeting(m)
  \/ \E c \in Callers : get_meeting_back(c) /\ Refuses("None")
  \/ \E m \in MeetingIds : delete_meeting(m) /\ mem_delete_meeting(m)
  \/ \E m \in MeetingIds, n \in NoteIds :
       \/ create_note(n, m) /\ mem_create_note(n, m)
       \/ replace_meeting_note(m, n) /\ mem_replace_meeting_note(m, n)
  \/ \E s \in SpaceIds :
       \/ create_space(s) /\ mem_create_space(s)
       \/ rename_space(s) /\ mem_rename_space(s)
       \/ delete_space(s) /\ mem_delete_space(s)
  \/ \E p \in ProjectIds, s \in SpaceIds : create_project(p, s) /\ mem_create_project(p, s)
  \/ \E p \in ProjectIds :
       \/ rename_project(p) /\ mem_rename_project(p)
       \/ delete_project(p) /\ mem_delete_project(p)
  \/ \E t \in TagIds, name \in TagNames : create_tag(t, name) /\ mem_create_tag(t, name)
  \/ \E t \in TagIds : delete_tag(t) /\ mem_delete_tag(t)
  \/ \E m \in MeetingIds, t \in TagIds :
       \/ tag_meeting(m, t) /\ mem_tag_meeting(m, t)
       \/ untag_meeting(m, t) /\ mem_untag_meeting(m, t)
  \/ \E m \in MeetingIds, s \in SpaceIds \cup {None}, p \in ProjectIds \cup {None} :
       assign_meeting(m, s, p) /\ mem_assign_meeting(m, s, p)

TwinSpec == TwinInit /\ [][TwinNext]_twinVars

-----------------------------------------------------------------------------
\* The rows of the fake, as SQLite would hold them.
MemMeetings ==
  [m \in DOMAIN mem.meetings |->
     [dir_path |-> mem.meetings[m].dir_path, ended |-> mem.meetings[m].ended,
      space_id |-> LookUp(mem.meeting_spaces, m),
      project_id |-> LookUp(mem.meeting_projects, m)]]

SameRows ==
  /\ MemMeetings = meeting /\ mem.notes = note /\ mem.spaces = space
  /\ mem.projects = project /\ mem.tags = tag
  /\ UNION {{m} \X mem.meeting_tags[m] : m \in DOMAIN mem.meeting_tags} = meeting_tag

\* With the id and the directory both taken SQLite may report either one.
\* update_meeting_ended and rename_meeting of SQLite answer in a second step.
SameAnswers ==
  \/ memReply = reply
  \/ memReply = "None"
  \/ memReply = "Ok" /\ reply = "Pending"
  \/ {memReply, reply} = {"AlreadyExists", "UniqueConflict"}

SameLists ==
  \A f \in [unsorted : BOOLEAN, space_id : SpaceIds \cup {None},
            project_id : ProjectIds \cup {None}, tag_id : TagIds \cup {None}] :
    mem_list_meetings_filtered(f) = list_meetings_filtered(f)

\* "the fake and real adapter behave identically" (create_meeting of the fake):
\* over any sequence of calls the two hold the same rows, refuse the same calls
\* for the same reason and list the same meetings under every filter, so the
\* cascades the fake performs by hand are those of the schema.
TwinsAgree == SameRows /\ SameAnswers /\ SameLists

=============================================================================
