---------------------------- MODULE StorageProofs ----------------------------
(***************************************************************************)
(* Theorems about Storage, for every set of ids and any number of callers. *)
(*                                                                         *)
(* Typing rests on next_position returning a natural number, which needs   *)
(* the positions in use to be bounded: that is the part TypeInv adds to    *)
(* TypeOK.  The integrity theorems rest on LiveIdsIssued, which says that  *)
(* the id of an inserted meeting is new, so that no row left elsewhere can *)
(* come to refer to it.                                                    *)
(*                                                                         *)
(* That the in-memory storage agrees with the registry rests on Coupled,   *)
(* which relates the two row by row; the registry's own integrity is       *)
(* needed to see that a DELETE the fake refuses does nothing in SQLite.    *)
(***************************************************************************)
EXTENDS StorageTwin, WellFoundedInduction, TLAPS

\* Every non-empty set of naturals has a least element.
LEMMA LeastNatural ==
  ASSUME NEW T \in SUBSET Nat, T # {}
  PROVE  \E x \in T : \A y \in T : x <= y
<1>1. PICK x \in T : \A y \in T : ~(<<y, x>> \in OpToRel(<, Nat))
  BY WFMin, NatLessThanWellFounded
<1>2. \A y \in T : ~(y < x)
  BY <1>1 DEF OpToRel
<1>. QED  BY <1>2

\* Max of a non-empty bounded set of naturals is its greatest element.
LEMMA MaxOfBounded ==
  ASSUME NEW S \in SUBSET Nat, S # {},
         NEW b \in Nat, \A x \in S : x < b
  PROVE  Max(S) \in S /\ \A y \in S : y <= Max(S)
<1>. DEFINE U == {u \in Nat : \A x \in S : x <= u}
<1>0. U \in SUBSET Nat /\ b \in U
  OBVIOUS
<1>1. PICK u \in U : \A v \in U : u <= v
  <2>. HIDE DEF U
  <2>. QED  BY <1>0, LeastNatural
<1>2. u \in S
  <2>. SUFFICES ASSUME u \notin S PROVE FALSE
    OBVIOUS
  <2>1. \A x \in S : x \in Nat /\ x < u
    OBVIOUS
  <2>2. PICK x \in S : TRUE
    OBVIOUS
  <2>. u \in Nat
    OBVIOUS
  <2>3. u - 1 \in Nat
    BY <2>1, <2>2
  <2>4. \A y \in S : y <= u - 1
    BY <2>1
  <2>5. u - 1 \in U
    BY <2>3, <2>4
  <2>. QED  BY <2>5, <1>1
<1>3. u \in S /\ \A y \in S : u >= y
  BY <1>2
<1>. QED  BY <1>3 DEF Max

-----------------------------------------------------------------------------
\* next_position returns a natural above every position in use.
LEMMA NextPosition ==
  ASSUME NEW S \in SUBSET Nat, NEW b \in Nat, \A x \in S : x < b
  PROVE  /\ next_position(S) \in Nat
         /\ \A x \in S : x < next_position(S)
<1>1. CASE S = {}
  BY <1>1 DEF next_position
<1>2. CASE S # {}
  <2>1. Max(S) \in S /\ \A y \in S : y <= Max(S)
    BY <1>2, MaxOfBounded
  <2>2. Max(S) \in Nat /\ next_position(S) = Max(S) + 1
    BY <1>2, <2>1 DEF next_position
  <2>. QED  BY <2>1, <2>2
<1>. QED  BY <1>1, <1>2

\* The positions handed out so far have an upper bound.
SpacesBounded == \E b \in Nat : \A s \in DOMAIN space : space[s].position < b
ProjectsBounded == \E b \in Nat : \A p \in DOMAIN project : project[p].position < b

\* The inductive strengthening of TypeOK.
TypeInv == TypeOK /\ SpacesBounded /\ ProjectsBounded

\* ON DELETE SET NULL leaves a meeting table.
LEMMA UnfiledMeetings ==
  ASSUME NEW m, IsTable(m, MeetingIds, MeetingRow), NEW s, NEW ids
  PROVE  /\ IsTable(MeetingsWithoutSpace(m, s), MeetingIds, MeetingRow)
         /\ IsTable(MeetingsWithoutProjects(m, ids), MeetingIds, MeetingRow)
BY DEF MeetingsWithoutSpace, MeetingsWithoutProjects, IsTable, MeetingRow

\* Every operation keeps the tables typed and the positions bounded.
LEMMA Typing == Spec => []TypeInv
<1>. USE DEF TypeInv, TypeOK
<1>1. Init => TypeInv
  BY DEF Init, IsTable, Replies, SpacesBounded, ProjectsBounded
<1>2. ASSUME TypeInv, [Next]_vars
      PROVE  TypeInv'
  <2>. USE <1>2
  <2>1. ASSUME NEW m \in MeetingIds, NEW d \in DirPaths,
            create_meeting(m, d)
        PROVE  TypeInv'
    <3>1. NewMeeting(d) \in MeetingRow
      BY DEF NewMeeting, MeetingRow
    <3>2. IsTable(meeting', MeetingIds, MeetingRow)
      BY <2>1, <3>1 DEF create_meeting, Insert, IsTable
    <3>3. reply' \in Replies /\ issued' \subseteq issued \cup {m}
      BY <2>1 DEF create_meeting, MeetingConflicts, Replies
    <3>. QED  BY <2>1, <3>2, <3>3 DEF create_meeting, SpacesBounded, ProjectsBounded
  <2>2. ASSUME NEW m \in MeetingIds, NEW d \in DirPaths, NEW n \in NoteIds, NEW e \in BOOLEAN,
            create_meeting_with_note(m, d, n, e)
        PROVE  TypeInv'
    <3>1. [NewMeeting(d) EXCEPT !.ended = e] \in MeetingRow /\ [meeting_id |-> m] \in NoteRow
      BY DEF NewMeeting, MeetingRow, NoteRow
    <3>2. IsTable(meeting', MeetingIds, MeetingRow) /\ IsTable(note', NoteIds, NoteRow)
      BY <2>2, <3>1 DEF create_meeting_with_note, Insert, IsTable
    <3>3. reply' \in Replies /\ issued' \subseteq issued \cup {m}
      BY <2>2 DEF create_meeting_with_note, MeetingConflicts, Replies
    <3>. QED  BY <2>2, <3>2, <3>3 DEF create_meeting_with_note, SpacesBounded, ProjectsBounded
  <2>3. ASSUME NEW c \in Callers, NEW m \in MeetingIds,
            update_meeting_ended(c, m)
        PROVE  TypeInv'
    <3>1. CASE m \in DOMAIN meeting
      <4>1. [meeting[m] EXCEPT !.ended = TRUE] \in MeetingRow
        BY <3>1 DEF IsTable, MeetingRow
      <4>2. meeting' = [meeting EXCEPT ![m] = [meeting[m] EXCEPT !.ended = TRUE]]
        BY <2>3, <3>1 DEF update_meeting_ended
      <4>. QED  BY <2>3, <3>1, <4>1, <4>2
                DEF update_meeting_ended, IsTable, Replies, SpacesBounded, ProjectsBounded
    <3>2. CASE m \notin DOMAIN meeting
      BY <2>3, <3>2 DEF update_meeting_ended, Replies, SpacesBounded, ProjectsBounded
    <3>. QED  BY <3>1, <3>2
  <2>4. ASSUME NEW c \in Callers, NEW m \in MeetingIds,
            rename_meeting(c, m)
        PROVE  TypeInv'
    BY <2>4 DEF rename_meeting, tables, Replies, SpacesBounded, ProjectsBounded
  <2>5. ASSUME NEW c \in Callers,
            get_meeting_back(c)
        PROVE  TypeInv'
    BY <2>5 DEF get_meeting_back, tables, NotFoundUnless, Replies, SpacesBounded, ProjectsBounded
  <2>6. ASSUME NEW m \in MeetingIds,
            delete_meeting(m)
        PROVE  TypeInv'
    <3>1. IsTable(meeting', MeetingIds, MeetingRow) /\ IsTable(note', NoteIds, NoteRow)
      BY <2>6 DEF delete_meeting, DropMeetings, DeleteRows, IsTable
    <3>. QED  BY <2>6, <3>1 DEF delete_meeting, DropMeetings, NotFoundUnless, Replies, SpacesBounded, ProjectsBounded
  <2>7. ASSUME NEW n \in NoteIds, NEW m \in MeetingIds,
            create_note(n, m)
        PROVE  TypeInv'
    <3>1. [meeting_id |-> m] \in NoteRow
      BY DEF NoteRow
    <3>2. IsTable(note', NoteIds, NoteRow)
      BY <2>7, <3>1 DEF create_note, Insert, IsTable
    <3>. QED  BY <2>7, <3>2 DEF create_note, Replies, SpacesBounded, ProjectsBounded
  <2>8. ASSUME NEW m \in MeetingIds, NEW n \in NoteIds,
            replace_meeting_note(m, n)
        PROVE  TypeInv'
    <3>1. [meeting_id |-> m] \in NoteRow
      BY DEF NoteRow
    <3>2. IsTable(DeleteRows(note, NotesOf(m)), NoteIds, NoteRow)
      BY DEF DeleteRows, IsTable
    <3>3. IsTable(note', NoteIds, NoteRow)
      BY <2>8, <3>1, <3>2 DEF replace_meeting_note, Insert, IsTable
    <3>. QED  BY <2>8, <3>3 DEF replace_meeting_note, Replies, SpacesBounded, ProjectsBounded
  <2>9. ASSUME NEW s \in SpaceIds,
            create_space(s)
        PROVE  TypeInv'
    <3>. DEFINE P == {space[k].position : k \in DOMAIN space}
              row == [position |-> next_position(P)]
    <3>1. PICK b \in Nat : \A k \in DOMAIN space : space[k].position < b
      BY DEF SpacesBounded
    <3>2. P \in SUBSET Nat /\ \A x \in P : x < b
      BY <3>1 DEF IsTable, SpaceRow
    <3>3. next_position(P) \in Nat /\ \A x \in P : x < next_position(P)
      BY <3>2, NextPosition
    <3>4. space' = Insert(space, s, row)
      BY <2>9 DEF create_space
    <3>5. row \in SpaceRow
      BY <3>3 DEF SpaceRow
    <3>6. /\ IsTable(space', SpaceIds, SpaceRow)
          /\ DOMAIN space' = DOMAIN space \cup {s} /\ space'[s] = row
          /\ \A k \in DOMAIN space \ {s} : space'[k] = space[k]
      BY <3>4, <3>5 DEF Insert, IsTable
    <3>7. \A k \in DOMAIN space' : space'[k].position < next_position(P) + 1
      <4>1. \A k \in DOMAIN space : space[k].position \in P
        OBVIOUS
      <4>2. space'[s].position = next_position(P)
        BY <3>6
      <4>. HIDE DEF P, row
      <4>3. ASSUME NEW k \in DOMAIN space \ {s}
            PROVE  space'[k].position < next_position(P) + 1
        <5>1. space'[k].position \in P
          BY <3>6, <4>1
        <5>2. space'[k].position \in Nat /\ space'[k].position < next_position(P)
          BY <3>2, <3>3, <5>1
        <5>. QED  BY <3>3, <5>2
      <4>4. next_position(P) < next_position(P) + 1
        BY <3>3
      <4>. QED  BY <3>6, <4>2, <4>3, <4>4
    <3>8. SpacesBounded'
      <4>. HIDE DEF P, row
      <4>1. next_position(P) + 1 \in Nat
        BY <3>3
      <4>. QED  BY <3>7, <4>1 DEF SpacesBounded
    <3>. QED  BY <2>9, <3>6, <3>8 DEF create_space, Replies, ProjectsBounded
  <2>10. ASSUME NEW s \in SpaceIds,
            rename_space(s)
        PROVE  TypeInv'
    BY <2>10 DEF rename_space, tables, NotFoundUnless, Replies, SpacesBounded, ProjectsBounded
  <2>11. ASSUME NEW s \in SpaceIds,
            delete_space(s)
        PROVE  TypeInv'
    <3>1. /\ IsTable(space', SpaceIds, SpaceRow)
          /\ DOMAIN space' \subseteq DOMAIN space
          /\ \A k \in DOMAIN space' : space'[k] = space[k]
      BY <2>11 DEF delete_space, DeleteRows, IsTable
    <3>2. /\ IsTable(project', ProjectIds, ProjectRow)
          /\ DOMAIN project' \subseteq DOMAIN project
          /\ \A k \in DOMAIN project' : project'[k] = project[k]
      BY <2>11 DEF delete_space, DeleteRows, IsTable
    <3>3. IsTable(meeting', MeetingIds, MeetingRow)
      BY <2>11, UnfiledMeetings DEF delete_space
    <3>4. SpacesBounded' /\ ProjectsBounded'
      BY <3>1, <3>2 DEF SpacesBounded, ProjectsBounded
    <3>. QED  BY <2>11, <3>1, <3>2, <3>3, <3>4 DEF delete_space, NotFoundUnless, Replies
  <2>12. ASSUME NEW p \in ProjectIds, NEW s \in SpaceIds,
            create_project(p, s)
        PROVE  TypeInv'
    <3>. DEFINE P == {project[k].position : k \in ProjectsOf(s)}
              row == [space_id |-> s, position |-> next_position(P)]
    <3>1. PICK b \in Nat : \A k \in DOMAIN project : project[k].position < b
      BY DEF ProjectsBounded
    <3>2. /\ P \in SUBSET Nat /\ \A x \in P : x < b
          /\ \A k \in DOMAIN project : project[k].position \in Nat
      BY <3>1 DEF IsTable, ProjectRow, ProjectsOf
    <3>3. next_position(P) \in Nat
      BY <3>2, NextPosition
    <3>4. row \in ProjectRow
      BY <3>3 DEF ProjectRow
    <3>5. CASE s \in DOMAIN space
      <4>1. project' = Insert(project, p, row)
        BY <2>12, <3>5 DEF create_project
      <4>2. /\ IsTable(project', ProjectIds, ProjectRow)
            /\ DOMAIN project' = DOMAIN project \cup {p} /\ project'[p] = row
            /\ \A k \in DOMAIN project \ {p} : project'[k] = project[k]
        BY <4>1, <3>4 DEF Insert, IsTable
      <4>3. next_position(P) + 1 + b \in Nat
            /\ \A k \in DOMAIN project' : project'[k].position < next_position(P) + 1 + b
        <5>1. project'[p].position = next_position(P)
          BY <4>2
        <5>. HIDE DEF P, row
        <5>. QED  BY <3>1, <3>2, <3>3, <4>2, <5>1
      <4>4. ProjectsBounded'
        BY <4>3 DEF ProjectsBounded
      <4>. QED  BY <2>12, <3>5, <4>2, <4>4 DEF create_project, Replies, SpacesBounded, ProjectsBounded
    <3>6. CASE s \notin DOMAIN space
      BY <2>12, <3>6 DEF create_project, Replies, SpacesBounded, ProjectsBounded
    <3>. QED  BY <3>5, <3>6
  <2>13. ASSUME NEW p \in ProjectIds,
            rename_project(p)
        PROVE  TypeInv'
    BY <2>13 DEF rename_project, tables, NotFoundUnless, Replies, SpacesBounded, ProjectsBounded
  <2>14. ASSUME NEW p \in ProjectIds,
            delete_project(p)
        PROVE  TypeInv'
    <3>1. /\ IsTable(project', ProjectIds, ProjectRow)
          /\ DOMAIN project' \subseteq DOMAIN project
          /\ \A k \in DOMAIN project' : project'[k] = project[k]
      BY <2>14 DEF delete_project, DeleteRows, IsTable
    <3>2. IsTable(meeting', MeetingIds, MeetingRow)
      BY <2>14, UnfiledMeetings DEF delete_project
    <3>3. ProjectsBounded'
      BY <3>1 DEF ProjectsBounded
    <3>. QED  BY <2>14, <3>1, <3>2, <3>3 DEF delete_project, NotFoundUnless, Replies, SpacesBounded
  <2>15. ASSUME NEW t \in TagIds, NEW name \in TagNames,
            create_tag(t, name)
        PROVE  TypeInv'
    <3>1. [name |-> name] \in TagRow
      BY DEF TagRow
    <3>2. IsTable(tag', TagIds, TagRow) /\ issued' \subseteq issued \cup {t}
      BY <2>15, <3>1 DEF create_tag, Insert, IsTable
    <3>. QED  BY <2>15, <3>2 DEF create_tag, Replies, SpacesBounded, ProjectsBounded
  <2>16. ASSUME NEW t \in TagIds,
            delete_tag(t)
        PROVE  TypeInv'
    <3>1. IsTable(tag', TagIds, TagRow)
      BY <2>16 DEF delete_tag, DeleteRows, IsTable
    <3>. QED  BY <2>16, <3>1 DEF delete_tag, NotFoundUnless, Replies, SpacesBounded, ProjectsBounded
  <2>17. ASSUME NEW m \in MeetingIds, NEW t \in TagIds,
            tag_meeting(m, t)
        PROVE  TypeInv'
    BY <2>17 DEF tag_meeting, Replies, SpacesBounded, ProjectsBounded
  <2>18. ASSUME NEW m \in MeetingIds, NEW t \in TagIds,
            untag_meeting(m, t)
        PROVE  TypeInv'
    BY <2>18 DEF untag_meeting, Replies, SpacesBounded, ProjectsBounded
  <2>19. ASSUME NEW m \in MeetingIds, NEW s \in SpaceIds \cup {None}, NEW p \in ProjectIds \cup {None},
            assign_meeting(m, s, p)
        PROVE  TypeInv'
    <3>1. IsTable(meeting', MeetingIds, MeetingRow)
      <4>1. CASE reply' = "Ok"
        <5>. DEFINE sp == IF p # None THEN project[p].space_id ELSE s
                    row == [meeting[m] EXCEPT !.space_id = sp, !.project_id = p]
        <5>1. m \in DOMAIN meeting /\ meeting' = [meeting EXCEPT ![m] = row]
          BY <2>19, <4>1 DEF assign_meeting
        <5>2. sp \in SpaceIds \cup {None}
          BY <2>19, <4>1 DEF assign_meeting, IsTable, ProjectRow
        <5>3. row \in MeetingRow
          <6>. HIDE DEF sp
          <6>. QED  BY <5>1, <5>2 DEF IsTable, MeetingRow
        <5>. HIDE DEF row
        <5>. QED  BY <5>1, <5>3 DEF IsTable
      <4>2. CASE reply' # "Ok"
        BY <2>19, <4>2 DEF assign_meeting
      <4>. QED  BY <4>1, <4>2
    <3>. QED  BY <2>19, <3>1 DEF assign_meeting, Replies, SpacesBounded, ProjectsBounded
  <2>20. CASE UNCHANGED vars
    BY <2>20 DEF vars, SpacesBounded, ProjectsBounded
  <2>. QED
    BY <2>1, <2>2, <2>3, <2>4, <2>5, <2>6, <2>7, <2>8, <2>9, <2>10, <2>11, <2>12, <2>13, <2>14, <2>15, <2>16, <2>17, <2>18, <2>19, <2>20
    DEF Next, MeetingCalls, register_meeting_in_registry, OrganizationCalls
<1>. QED  BY <1>1, <1>2, PTL DEF Spec

\* TypeOK holds in every reachable state, for tables of any size.
THEOREM TypeCorrect == Spec => []TypeOK
BY Typing, PTL DEF TypeInv

-----------------------------------------------------------------------------
LiveIdsIssued ==
  DOMAIN meeting \cup DOMAIN space \cup DOMAIN project \cup DOMAIN tag \subseteq issued

Integrity == LiveIdsIssued /\ ReferentialIntegrity /\ ProjectInItsSpace

\* The inductive core: no operation leaves a reference to a deleted row, files a
\* meeting in a project of another space, or reuses the id of a live meeting.
LEMMA StorageIntegrity == Spec => []Integrity
<1>. USE DEF Integrity, LiveIdsIssued, ReferentialIntegrity, ProjectInItsSpace,
         NotesHaveMeetings, ProjectsHaveSpaces, TagLinksHaveBothEnds, MeetingRefsExist
<1>1. Init => Integrity
  BY DEF Init
<1>2. ASSUME TypeInv, Integrity, [Next]_vars
      PROVE  Integrity'
  <2>. USE <1>2, NoneIsNoId DEF TypeInv, TypeOK, IsTable, MeetingRow
  <2>1. ASSUME NEW m \in MeetingIds, NEW d \in DirPaths,
            create_meeting(m, d)
        PROVE  Integrity'
    BY <2>1 DEF create_meeting, Insert, NewMeeting
  <2>2. ASSUME NEW m \in MeetingIds, NEW d \in DirPaths, NEW n \in NoteIds, NEW e \in BOOLEAN,
            create_meeting_with_note(m, d, n, e)
        PROVE  Integrity'
    BY <2>2 DEF create_meeting_with_note, Insert, NewMeeting
  <2>3. ASSUME NEW c \in Callers, NEW m \in MeetingIds,
            update_meeting_ended(c, m)
        PROVE  Integrity'
    <3>1. /\ DOMAIN meeting' = DOMAIN meeting
          /\ \A k \in DOMAIN meeting : /\ meeting'[k].space_id = meeting[k].space_id
                                       /\ meeting'[k].project_id = meeting[k].project_id
      BY <2>3 DEF update_meeting_ended
    <3>. QED  BY <2>3, <3>1 DEF update_meeting_ended
  <2>4. ASSUME NEW c \in Callers, NEW m \in MeetingIds,
            rename_meeting(c, m)
        PROVE  Integrity'
    BY <2>4 DEF rename_meeting, tables
  <2>5. ASSUME NEW c \in Callers,
            get_meeting_back(c)
        PROVE  Integrity'
    BY <2>5 DEF get_meeting_back, tables
  <2>6. ASSUME NEW m \in MeetingIds,
            delete_meeting(m)
        PROVE  Integrity'
    BY <2>6 DEF delete_meeting, DropMeetings, DeleteRows
  <2>7. ASSUME NEW n \in NoteIds, NEW m \in MeetingIds,
            create_note(n, m)
        PROVE  Integrity'
    BY <2>7 DEF create_note, Insert
  <2>8. ASSUME NEW m \in MeetingIds, NEW n \in NoteIds,
            replace_meeting_note(m, n)
        PROVE  Integrity'
    <3>. DEFINE kept == DeleteRows(note, NotesOf(m))
    <3>1. /\ DOMAIN kept \subseteq DOMAIN note
          /\ \A k \in DOMAIN kept : kept[k] = note[k]
      BY DEF DeleteRows
    <3>2. CASE m \in DOMAIN meeting /\ n \notin DOMAIN kept
      <4>1. note' = Insert(kept, n, [meeting_id |-> m])
        BY <2>8, <3>2 DEF replace_meeting_note
      <4>. HIDE DEF kept
      <4>2. NotesHaveMeetings'
        BY <2>8, <3>1, <3>2, <4>1 DEF replace_meeting_note, Insert
      <4>. QED  BY <2>8, <4>2 DEF replace_meeting_note
    <3>3. CASE ~(m \in DOMAIN meeting /\ n \notin DOMAIN kept)
      BY <2>8, <3>3 DEF replace_meeting_note
    <3>. QED  BY <3>2, <3>3
  <2>9. ASSUME NEW s \in SpaceIds,
            create_space(s)
        PROVE  Integrity'
    BY <2>9 DEF create_space, Insert
  <2>10. ASSUME NEW s \in SpaceIds,
            rename_space(s)
        PROVE  Integrity'
    BY <2>10 DEF rename_space, tables
  <2>11. ASSUME NEW s \in SpaceIds,
            delete_space(s)
        PROVE  Integrity'
    BY <2>11 DEF delete_space, DeleteRows, ProjectsOf, MeetingsWithoutSpace, MeetingsWithoutProjects
  <2>12. ASSUME NEW p \in ProjectIds, NEW s \in SpaceIds,
            create_project(p, s)
        PROVE  Integrity'
    <3>1. CASE s \in DOMAIN space
      <4>1. PICK row : project' = Insert(project, p, row) /\ row.space_id = s
        BY <2>12, <3>1 DEF create_project
      <4>2. p \notin DOMAIN project
        BY <2>12 DEF create_project
      <4>3. /\ DOMAIN project' = DOMAIN project \cup {p}
            /\ project'[p].space_id = s
            /\ \A k \in DOMAIN project : project'[k] = project[k]
        BY <4>1, <4>2 DEF Insert
      <4>. QED  BY <2>12, <3>1, <4>3 DEF create_project
    <3>2. CASE s \notin DOMAIN space
      BY <2>12, <3>2 DEF create_project
    <3>. QED  BY <3>1, <3>2
  <2>13. ASSUME NEW p \in ProjectIds,
            rename_project(p)
        PROVE  Integrity'
    BY <2>13 DEF rename_project, tables
  <2>14. ASSUME NEW p \in ProjectIds,
            delete_project(p)
        PROVE  Integrity'
    BY <2>14 DEF delete_project, DeleteRows, MeetingsWithoutProjects
  <2>15. ASSUME NEW t \in TagIds, NEW name \in TagNames,
            create_tag(t, name)
        PROVE  Integrity'
    BY <2>15 DEF create_tag, Insert
  <2>16. ASSUME NEW t \in TagIds,
            delete_tag(t)
        PROVE  Integrity'
    BY <2>16 DEF delete_tag, DeleteRows
  <2>17. ASSUME NEW m \in MeetingIds, NEW t \in TagIds,
            tag_meeting(m, t)
        PROVE  Integrity'
    BY <2>17 DEF tag_meeting
  <2>18. ASSUME NEW m \in MeetingIds, NEW t \in TagIds,
            untag_meeting(m, t)
        PROVE  Integrity'
    BY <2>18 DEF untag_meeting
  <2>19. ASSUME NEW m \in MeetingIds, NEW s \in SpaceIds \cup {None}, NEW p \in ProjectIds \cup {None},
            assign_meeting(m, s, p)
        PROVE  Integrity'
    <3>. DEFINE sp == IF p # None THEN project[p].space_id ELSE s
                row == [meeting[m] EXCEPT !.space_id = sp, !.project_id = p]
    <3>1. CASE reply' = "Ok"
      <4>1. /\ m \in DOMAIN meeting
            /\ p # None => p \in DOMAIN project
            /\ p = None /\ s # None => s \in DOMAIN space
            /\ meeting' = [meeting EXCEPT ![m] = row]
        BY <2>19, <3>1 DEF assign_meeting
      <4>2. sp \in DOMAIN space \cup {None}
        BY <4>1
      <4>3. p # None => sp = project[p].space_id
        OBVIOUS
      <4>. HIDE DEF sp
      <4>4. row.space_id = sp /\ row.project_id = p
        BY <4>1
      <4>. HIDE DEF row
      <4>5. /\ DOMAIN meeting' = DOMAIN meeting
            /\ meeting'[m].space_id = sp /\ meeting'[m].project_id = p
            /\ \A k \in DOMAIN meeting \ {m} : meeting'[k] = meeting[k]
        BY <4>1, <4>4
      <4>. QED  BY <2>19, <4>1, <4>2, <4>3, <4>5 DEF assign_meeting
    <3>2. CASE reply' # "Ok"
      BY <2>19, <3>2 DEF assign_meeting
    <3>. QED  BY <3>1, <3>2
  <2>20. CASE UNCHANGED vars
    BY <2>20 DEF vars
  <2>. QED
    BY <2>1, <2>2, <2>3, <2>4, <2>5, <2>6, <2>7, <2>8, <2>9, <2>10, <2>11, <2>12, <2>13, <2>14, <2>15, <2>16, <2>17, <2>18, <2>19, <2>20
    DEF Next, MeetingCalls, register_meeting_in_registry, OrganizationCalls
<1>. QED  BY <1>1, <1>2, Typing, PTL DEF Spec

\* No call of the storage leaves a row that refers to a missing row.
THEOREM ReferencesResolve == Spec => []ReferentialIntegrity
BY StorageIntegrity, PTL DEF Integrity

\* The space column of a meeting filed under a project is the project's space.
THEOREM ProjectAndSpaceAgree == Spec => []ProjectInItsSpace
BY StorageIntegrity, PTL DEF Integrity

\* Every meeting is reachable from exactly one place of the sidebar.
THEOREM SidebarShowsEachMeetingOnce == Spec => []SidebarPartition
<1>1. TypeInv /\ Integrity => SidebarPartition
  <2>. SUFFICES ASSUME TypeInv, Integrity PROVE SidebarPartition
    OBVIOUS
  <2>. USE DEF TypeInv, TypeOK, Integrity, ReferentialIntegrity
  <2>1. None \notin DOMAIN space /\ None \notin DOMAIN project
    BY NoneIsNoId DEF IsTable
  <2>2. list_meetings_filtered(Unsorted) = {m \in DOMAIN meeting : meeting[m].space_id = None}
    BY DEF list_meetings_filtered, Unsorted, NoFilter
  <2>3. \A s \in DOMAIN space :
          list_meetings_filtered(InSpace(s)) = {m \in DOMAIN meeting : meeting[m].space_id = s}
    BY <2>1 DEF list_meetings_filtered, InSpace, NoFilter
  <2>4. \A p \in DOMAIN project :
          list_meetings_filtered(InProject(p)) = {m \in DOMAIN meeting : meeting[m].project_id = p}
    BY <2>1 DEF list_meetings_filtered, InProject, NoFilter
  <2>5. ASSUME NEW m \in DOMAIN meeting
        PROVE  \/ /\ m \in list_meetings_filtered(Unsorted)
                  /\ \A s \in DOMAIN space : m \notin list_meetings_filtered(InSpace(s))
               \/ /\ m \notin list_meetings_filtered(Unsorted)
                  /\ \E s \in DOMAIN space : \A k \in DOMAIN space :
                       m \in list_meetings_filtered(InSpace(k)) <=> k = s
    BY <2>1, <2>2, <2>3 DEF MeetingRefsExist
  <2>6. ASSUME NEW p \in DOMAIN project
        PROVE  list_meetings_filtered(InProject(p))
                 \subseteq list_meetings_filtered(InSpace(project[p].space_id))
    BY <2>1, <2>3, <2>4 DEF ProjectInItsSpace, ProjectsHaveSpaces
  <2>. QED  BY <2>5, <2>6 DEF SidebarPartition
<1>. QED  BY <1>1, Typing, StorageIntegrity, PTL

-----------------------------------------------------------------------------
(***************************************************************************)
(* Sort positions, and calls that fail.                                    *)
(***************************************************************************)

SpacePositions == \A s, k \in DOMAIN space : space[s].position = space[k].position => s = k

ProjectPositions ==
  \A p, k \in DOMAIN project :
    project[p].space_id = project[k].space_id /\ project[p].position = project[k].position => p = k

\* Deleting rows keeps the positions of the others.
LEMMA FewerSpaces ==
  ASSUME SpacePositions, DOMAIN space' \subseteq DOMAIN space,
         \A k \in DOMAIN space' : space'[k] = space[k]
  PROVE  SpacePositions'
BY DEF SpacePositions

LEMMA FewerProjects ==
  ASSUME ProjectPositions, DOMAIN project' \subseteq DOMAIN project,
         \A k \in DOMAIN project' : project'[k] = project[k]
  PROVE  ProjectPositions'
BY DEF ProjectPositions

\* A new space goes past every other, whatever gaps the deletions have left.
LEMMA NewSpacePosition ==
  ASSUME TypeInv, LiveIdsIssued, SpacePositions, NEW s \in SpaceIds, create_space(s)
  PROVE  SpacePositions'
<1> DEFINE P == {space[k].position : k \in DOMAIN space}
           row == [position |-> next_position(P)]
<1>1. PICK b \in Nat : \A k \in DOMAIN space : space[k].position < b
  BY DEF TypeInv, SpacesBounded
<1>2. P \in SUBSET Nat /\ \A x \in P : x < b
  BY <1>1 DEF TypeInv, TypeOK, IsTable, SpaceRow
<1>3. next_position(P) \in Nat /\ \A x \in P : x < next_position(P)
  <2> HIDE DEF P
  <2>. QED  BY <1>2, NextPosition
<1>4. \A k \in DOMAIN space : space[k].position \in P
  OBVIOUS
<1>5. s \notin DOMAIN space
  BY DEF create_space, LiveIdsIssued
<1>6. space' = Insert(space, s, row)
  BY DEF create_space
<1>7. row.position = next_position(P)
  OBVIOUS
<1> HIDE DEF row
<1>8. /\ DOMAIN space' = DOMAIN space \cup {s} /\ space'[s] = row
      /\ \A k \in DOMAIN space : space'[k] = space[k]
  BY <1>5, <1>6 DEF Insert
<1>9. \A k \in DOMAIN space : space[k].position # next_position(P)
  <2> HIDE DEF P
  <2>. QED  BY <1>2, <1>3, <1>4
<1> HIDE DEF P
<1>. QED  BY <1>7, <1>8, <1>9 DEF SpacePositions

\* A new project goes past every other of its space.
LEMMA NewProjectPosition ==
  ASSUME TypeInv, LiveIdsIssued, ProjectPositions, NEW p \in ProjectIds, NEW s \in SpaceIds,
         create_project(p, s), s \in DOMAIN space
  PROVE  ProjectPositions'
<1> DEFINE P == {project[k].position : k \in ProjectsOf(s)}
           row == [space_id |-> s, position |-> next_position(P)]
<1>1. PICK b \in Nat : \A k \in DOMAIN project : project[k].position < b
  BY DEF TypeInv, ProjectsBounded
<1>2. P \in SUBSET Nat /\ \A x \in P : x < b
  BY <1>1 DEF TypeInv, TypeOK, IsTable, ProjectRow, ProjectsOf
<1>3. next_position(P) \in Nat /\ \A x \in P : x < next_position(P)
  <2> HIDE DEF P
  <2>. QED  BY <1>2, NextPosition
<1>4. \A k \in DOMAIN project : project[k].space_id = s => project[k].position \in P
  BY DEF ProjectsOf
<1>5. p \notin DOMAIN project
  BY DEF create_project, LiveIdsIssued
<1>6. project' = Insert(project, p, row)
  BY DEF create_project
<1>7. row.position = next_position(P) /\ row.space_id = s
  OBVIOUS
<1> HIDE DEF row
<1>8. /\ DOMAIN project' = DOMAIN project \cup {p} /\ project'[p] = row
      /\ \A k \in DOMAIN project : project'[k] = project[k]
  BY <1>5, <1>6 DEF Insert
<1>9. \A k \in DOMAIN project : project[k].space_id = s => project[k].position # next_position(P)
  <2> HIDE DEF P
  <2>. QED  BY <1>2, <1>3, <1>4
<1> HIDE DEF P
<1>. QED  BY <1>7, <1>8, <1>9 DEF ProjectPositions

\* Positions never collide in the sidebar, for any history of creations and deletions.
THEOREM PositionsStayDistinct == Spec => []DistinctPositions
<1> DEFINE Inv == SpacePositions /\ ProjectPositions
<1>1. Init => Inv
  BY DEF Init, SpacePositions, ProjectPositions
<1>2. ASSUME TypeInv, Integrity, Inv, [Next]_vars
      PROVE  Inv'
  <2> USE <1>2 DEF Integrity
  <2>1. ASSUME UNCHANGED <<space, project>>
        PROVE  Inv'
    BY <2>1 DEF SpacePositions, ProjectPositions
  <2>2. CASE MeetingCalls \/ register_meeting_in_registry
    <3>1. UNCHANGED <<space, project>>
      BY <2>2 DEF MeetingCalls, register_meeting_in_registry, create_meeting,
         create_meeting_with_note, update_meeting_ended, rename_meeting, get_meeting_back,
         delete_meeting, create_note, replace_meeting_note, assign_meeting, tables
    <3>. QED  BY <2>1, <3>1
  <2>3. ASSUME NEW s \in SpaceIds, create_space(s)
        PROVE  Inv'
    <3>1. project' = project
      BY <2>3 DEF create_space
    <3>. QED  BY <2>3, <3>1, NewSpacePosition DEF ProjectPositions
  <2>4. ASSUME NEW s \in SpaceIds, rename_space(s)
        PROVE  Inv'
    BY <2>1, <2>4 DEF rename_space, tables
  <2>5. ASSUME NEW s \in SpaceIds, delete_space(s)
        PROVE  Inv'
    <3>1. /\ DOMAIN space' \subseteq DOMAIN space /\ \A k \in DOMAIN space' : space'[k] = space[k]
          /\ DOMAIN project' \subseteq DOMAIN project
          /\ \A k \in DOMAIN project' : project'[k] = project[k]
      BY <2>5 DEF delete_space, DeleteRows
    <3>. QED  BY <3>1, FewerSpaces, FewerProjects
  <2>6. ASSUME NEW p \in ProjectIds, NEW s \in SpaceIds, create_project(p, s)
        PROVE  Inv'
    <3>1. space' = space /\ (s \notin DOMAIN space => project' = project)
      BY <2>6 DEF create_project
    <3>2. CASE s \in DOMAIN space
      BY <2>6, <3>1, <3>2, NewProjectPosition DEF SpacePositions
    <3>3. CASE s \notin DOMAIN space
      BY <2>1, <3>1, <3>3
    <3>. QED  BY <3>2, <3>3
  <2>7. ASSUME NEW p \in ProjectIds, rename_project(p)
        PROVE  Inv'
    BY <2>1, <2>7 DEF rename_project, tables
  <2>8. ASSUME NEW p \in ProjectIds, delete_project(p)
        PROVE  Inv'
    <3>1. /\ space' = space /\ DOMAIN project' \subseteq DOMAIN project
          /\ \A k \in DOMAIN project' : project'[k] = project[k]
      BY <2>8 DEF delete_project, DeleteRows
    <3>. QED  BY <3>1, FewerProjects DEF SpacePositions
  <2>9. ASSUME NEW t \in TagIds, delete_tag(t) \/ \E name \in TagNames : create_tag(t, name)
        PROVE  Inv'
    BY <2>1, <2>9 DEF delete_tag, create_tag
  <2>10. ASSUME NEW m \in MeetingIds, NEW t \in TagIds, tag_meeting(m, t) \/ untag_meeting(m, t)
         PROVE  Inv'
    BY <2>1, <2>10 DEF tag_meeting, untag_meeting
  <2>11. CASE UNCHANGED vars
    BY <2>1, <2>11 DEF vars
  <2>. HIDE DEF Inv
  <2>. QED
    BY <2>2, <2>3, <2>4, <2>5, <2>6, <2>7, <2>8, <2>9, <2>10, <2>11 DEF Next, OrganizationCalls
<1>3. Inv => DistinctPositions
  BY DEF DistinctPositions, SpacePositions, ProjectPositions
<1>. QED  BY <1>1, <1>2, <1>3, Typing, StorageIntegrity, PTL DEF Spec

\* Deleting nothing leaves a table as it is.
LEMMA DeleteNothing ==
  ASSUME NEW t, NEW Ids, NEW Rows, IsTable(t, Ids, Rows), NEW ids, ids \cap DOMAIN t = {}
  PROVE  DeleteRows(t, ids) = t
<1>1. DOMAIN t \ ids = DOMAIN t
  OBVIOUS
<1>. QED  BY <1>1 DEF DeleteRows, IsTable

LEMMA UnfileNothing ==
  ASSUME NEW t, IsTable(t, MeetingIds, MeetingRow), NEW s, NEW ids,
         \A k \in DOMAIN t : t[k].project_id \notin ids /\ t[k].space_id # s
  PROVE  MeetingsWithoutSpace(MeetingsWithoutProjects(t, ids), s) = t
         /\ MeetingsWithoutProjects(t, ids) = t
<1>1. MeetingsWithoutProjects(t, ids) = t
  BY DEF MeetingsWithoutProjects, IsTable
<1>2. MeetingsWithoutSpace(t, s) = t
  BY DEF MeetingsWithoutSpace, IsTable
<1>. QED  BY <1>1, <1>2

\* A call that fails changes no table; a DELETE that matches no row has no cascade
\* to run.
LEMMA FailedStep ==
  ASSUME TypeInv, Integrity, Next, reply' \notin {"Ok", "Pending"}
  PROVE  UNCHANGED tables
<1> USE NoneIsNoId DEF TypeInv, TypeOK, Integrity, ReferentialIntegrity
<1>1. ASSUME NEW m \in MeetingIds, delete_meeting(m)
      PROVE  UNCHANGED tables
  <2>1. m \notin DOMAIN meeting
    BY <1>1 DEF delete_meeting, NotFoundUnless
  <2>2. meeting' = meeting
    BY <1>1, <2>1, DeleteNothing DEF delete_meeting, DropMeetings
  <2>3. {n \in DOMAIN note : note[n].meeting_id \in {m}} = {}
    BY <2>1 DEF NotesHaveMeetings
  <2>4. note' = note
    BY <1>1, <2>3, DeleteNothing DEF delete_meeting, DropMeetings
  <2>5. meeting_tag' = meeting_tag
    BY <1>1, <2>1 DEF delete_meeting, DropMeetings, TagLinksHaveBothEnds
  <2>. QED  BY <1>1, <2>2, <2>4, <2>5 DEF delete_meeting, tables
<1>2. ASSUME NEW s \in SpaceIds, delete_space(s)
      PROVE  UNCHANGED tables
  <2>1. s \notin DOMAIN space /\ s # None
    BY <1>2 DEF delete_space, NotFoundUnless
  <2>2. ProjectsOf(s) = {}
    BY <2>1 DEF ProjectsOf, ProjectsHaveSpaces
  <2>3. \A k \in DOMAIN meeting : meeting[k].project_id \notin ProjectsOf(s) /\ meeting[k].space_id # s
    BY <2>1, <2>2 DEF MeetingRefsExist
  <2>4. space' = space
    BY <1>2, <2>1, DeleteNothing DEF delete_space
  <2>5. project' = project
    BY <1>2, <2>2, DeleteNothing DEF delete_space
  <2>6. meeting' = meeting
    BY <1>2, <2>3, UnfileNothing DEF delete_space
  <2>. QED  BY <1>2, <2>4, <2>5, <2>6 DEF delete_space, tables
<1>3. ASSUME NEW p \in ProjectIds, delete_project(p)
      PROVE  UNCHANGED tables
  <2>1. p \notin DOMAIN project /\ p # None
    BY <1>3 DEF delete_project, NotFoundUnless
  <2>2. \A k \in DOMAIN meeting : meeting[k].project_id \notin {p}
    BY <2>1 DEF MeetingRefsExist
  <2>3. project' = project
    BY <1>3, <2>1, DeleteNothing DEF delete_project
  <2>4. meeting' = meeting
    <3>1. MeetingsWithoutProjects(meeting, {p}) = meeting
      BY <2>2 DEF MeetingsWithoutProjects, IsTable
    <3>. QED  BY <1>3, <3>1 DEF delete_project
  <2>. QED  BY <1>3, <2>3, <2>4 DEF delete_project, tables
<1>4. ASSUME NEW t \in TagIds, delete_tag(t)
      PROVE  UNCHANGED tables
  <2>1. t \notin DOMAIN tag
    BY <1>4 DEF delete_tag, NotFoundUnless
  <2>2. tag' = tag
    BY <1>4, <2>1, DeleteNothing DEF delete_tag
  <2>3. meeting_tag' = meeting_tag
    BY <1>4, <2>1 DEF delete_tag, TagLinksHaveBothEnds
  <2>. QED  BY <1>4, <2>2, <2>3 DEF delete_tag, tables
<1>5. CASE register_meeting_in_registry
  BY <1>5 DEF register_meeting_in_registry, create_meeting_with_note, tables
<1>6. CASE MeetingCalls
  BY <1>1, <1>6 DEF MeetingCalls, create_meeting, update_meeting_ended, rename_meeting,
     get_meeting_back, create_note, replace_meeting_note, assign_meeting, tables
<1>7. CASE OrganizationCalls
  BY <1>2, <1>3, <1>4, <1>7 DEF OrganizationCalls, create_space, rename_space, create_project,
     rename_project, create_tag, tag_meeting, untag_meeting, tables
<1>. QED  BY <1>5, <1>6, <1>7 DEF Next

\* A call that reports an error leaves every table as it was: in particular a
\* DELETE that matches no row has no cascade to run.
THEOREM FailureChangesNothing == Spec => FailedCallChangesNothing
<1>1. ASSUME TypeInv, Integrity, [Next]_vars
      PROVE  [reply' \notin {"Ok", "Pending"} => UNCHANGED tables]_vars
  BY <1>1, FailedStep
<1>. QED  BY <1>1, Typing, StorageIntegrity, PTL DEF Spec, FailedCallChangesNothing

-----------------------------------------------------------------------------
(***************************************************************************)
(* The registry beside its fake.                                           *)
(***************************************************************************)

\* Every call of the lockstep specification is one call of the registry.
LEMMA TwinStep == TwinNext => Next
BY DEF TwinNext, Next, MeetingCalls, register_meeting_in_registry, OrganizationCalls

\* The registry driven in lockstep with InMemoryStorage (fakes.rs) is the registry
\* of Storage, so the runs of the twins check the specification these theorems
\* are about.
THEOREM TwinIsTheRegistry == TwinSpec => Spec
<1>1. TwinInit => Init
  BY DEF TwinInit
<1>2. [TwinNext]_twinVars => [Next]_vars
  BY TwinStep DEF twinVars, vars
<1>3. QED
  BY <1>1, <1>2, PTL DEF TwinSpec, Spec

\* The fake's record of maps, and its rows, which keep the assignments apart.
MemFields == {"meetings", "notes", "spaces", "projects", "tags",
              "meeting_tags", "meeting_spaces", "meeting_projects"}
MemShape == mem = [f \in MemFields |-> mem[f]]
MemRow == [dir_path : DirPaths, ended : BOOLEAN]

SameTables ==
  mem.notes = note /\ mem.spaces = space /\ mem.projects = project /\ mem.tags = tag

MeetingsMatch ==
  /\ DOMAIN mem.meetings = DOMAIN meeting /\ mem.meetings \in [DOMAIN meeting -> MemRow]
  /\ \A m \in DOMAIN meeting :
       /\ mem.meetings[m].dir_path = meeting[m].dir_path
       /\ mem.meetings[m].ended = meeting[m].ended

\* No assignment outlives its meeting, where a later meeting could inherit it, and
\* "unassigned" is the absence of an entry.
AssignmentsMatch ==
  /\ DOMAIN mem.meeting_spaces \subseteq DOMAIN meeting
  /\ DOMAIN mem.meeting_projects \subseteq DOMAIN meeting
  /\ \A m \in DOMAIN mem.meeting_spaces : mem.meeting_spaces[m] # None
  /\ \A m \in DOMAIN meeting :
       /\ LookUp(mem.meeting_spaces, m) = meeting[m].space_id
       /\ LookUp(mem.meeting_projects, m) = meeting[m].project_id

TagsMatch ==
  /\ DOMAIN mem.meeting_tags \subseteq DOMAIN meeting
  /\ \A m \in DOMAIN mem.meeting_tags : mem.meeting_tags[m] \subseteq TagIds
  /\ \A m \in MeetingIds, t \in TagIds : <<m, t>> \in meeting_tag <=> t \in TagsOf(m)

Coupled == MemShape /\ SameTables /\ MeetingsMatch /\ AssignmentsMatch /\ TagsMatch

\* What agrees row by row agrees as tables and as lists.
LEMMA CoupledRows == ASSUME TypeInv, Coupled PROVE SameRows /\ SameLists
<1> USE DEF Coupled
<1>1. MemMeetings = meeting
  <2>1. meeting \in [DOMAIN meeting -> MeetingRow] /\ DOMAIN mem.meetings = DOMAIN meeting
    BY DEF TypeInv, TypeOK, IsTable, MeetingsMatch
  <2>2. ASSUME NEW m \in DOMAIN meeting
        PROVE  [dir_path |-> mem.meetings[m].dir_path, ended |-> mem.meetings[m].ended,
                space_id |-> LookUp(mem.meeting_spaces, m),
                project_id |-> LookUp(mem.meeting_projects, m)] = meeting[m]
    <3>1. meeting[m] = [dir_path |-> meeting[m].dir_path, space_id |-> meeting[m].space_id,
                        project_id |-> meeting[m].project_id, ended |-> meeting[m].ended]
      BY <2>1 DEF MeetingRow
    <3>. QED  BY <3>1 DEF MeetingsMatch, AssignmentsMatch
  <2>. QED  BY <2>1, <2>2 DEF MemMeetings
<1>2. UNION {{m} \X mem.meeting_tags[m] : m \in DOMAIN mem.meeting_tags} = meeting_tag
  <2> DEFINE U == UNION {{m} \X mem.meeting_tags[m] : m \in DOMAIN mem.meeting_tags}
  <2>1. /\ meeting_tag \subseteq MeetingIds \X TagIds
        /\ DOMAIN mem.meeting_tags \subseteq MeetingIds
    BY DEF TypeInv, TypeOK, IsTable, TagsMatch
  <2>2. ASSUME NEW x \in U PROVE x \in meeting_tag
    <3>1. PICK m \in DOMAIN mem.meeting_tags : x \in {m} \X mem.meeting_tags[m]
      OBVIOUS
    <3>2. PICK t \in mem.meeting_tags[m] : x = <<m, t>>
      BY <3>1
    <3>. QED  BY <2>1, <3>2 DEF TagsMatch, TagsOf, Has
  <2>3. ASSUME NEW x \in meeting_tag PROVE x \in U
    <3>1. PICK m \in MeetingIds, t \in TagIds : x = <<m, t>>
      BY <2>1
    <3>2. m \in DOMAIN mem.meeting_tags /\ t \in mem.meeting_tags[m]
      BY <3>1 DEF TagsMatch, TagsOf, Has
    <3>3. x \in {m} \X mem.meeting_tags[m]
      BY <3>1, <3>2
    <3>. QED  BY <3>2, <3>3
  <2>. QED  BY <2>2, <2>3
<1>3. SameRows
  BY <1>1, <1>2 DEF SameRows, SameTables
<1>4. SameLists
  <2> SUFFICES ASSUME NEW f \in [unsorted : BOOLEAN, space_id : SpaceIds \cup {None},
                                 project_id : ProjectIds \cup {None}, tag_id : TagIds \cup {None}]
               PROVE  mem_list_meetings_filtered(f) = list_meetings_filtered(f)
    BY DEF SameLists
  <2>1. DOMAIN mem.meetings = DOMAIN meeting /\ DOMAIN meeting \subseteq MeetingIds
    BY DEF MeetingsMatch, TypeInv, TypeOK, IsTable
  <2>2. ASSUME NEW m \in DOMAIN meeting
        PROVE  /\ ~ Has(mem.meeting_spaces, m) <=> meeting[m].space_id = None
               /\ LookUp(mem.meeting_spaces, m) = meeting[m].space_id
               /\ LookUp(mem.meeting_projects, m) = meeting[m].project_id
    BY DEF AssignmentsMatch, LookUp, Has
  <2>3. \A m \in DOMAIN meeting : f.tag_id # None =>
          (<<m, f.tag_id>> \in meeting_tag <=> f.tag_id \in TagsOf(m))
    <3>1. f.tag_id \in TagIds \cup {None}
      OBVIOUS
    <3>. QED  BY <2>1, <3>1 DEF TagsMatch
  <2>. QED  BY <2>1, <2>2, <2>3 DEF mem_list_meetings_filtered, list_meetings_filtered
<1>. QED  BY <1>3, <1>4

LEMMA CoupledStands == ASSUME Coupled, UNCHANGED <<mem, tables>> PROVE Coupled'
BY DEF Coupled, MemShape, SameTables, MeetingsMatch, AssignmentsMatch, TagsMatch, TagsOf, Has,
   LookUp, tables

\* The two see the same conflicts of a draft.
LEMMA SameConflicts ==
  ASSUME Coupled, NEW m, NEW d
  PROVE  /\ Has(mem.meetings, m) <=> m \in DOMAIN meeting
         /\ MeetingConflicts(m, d) = {} <=> ~ Has(mem.meetings, m) /\ ~ MemDirTaken(d)
         /\ MeetingConflicts(m, d) \subseteq {"AlreadyExists", "UniqueConflict"}
         /\ "AlreadyExists" \in MeetingConflicts(m, d) <=> Has(mem.meetings, m)
BY DEF Coupled, MeetingsMatch, Has, MemDirTaken, MeetingConflicts

\* A draft that meets no conflict becomes the same unfiled row on both sides.
LEMMA NewMeetingMatches ==
  ASSUME TypeInv, Coupled, NEW m \in MeetingIds, m \notin DOMAIN meeting,
         NEW d \in DirPaths, NEW e \in BOOLEAN,
         NEW row, row.dir_path = d, row.ended = e, row.space_id = None, row.project_id = None,
         meeting' = Insert(meeting, m, row),
         mem'.meetings = Insert(mem.meetings, m, [dir_path |-> d, ended |-> e]),
         mem'.meeting_spaces = mem.meeting_spaces, mem'.meeting_projects = mem.meeting_projects,
         mem'.meeting_tags = mem.meeting_tags, UNCHANGED meeting_tag
  PROVE  MeetingsMatch' /\ AssignmentsMatch' /\ TagsMatch'
<1> DEFINE memRow == [dir_path |-> d, ended |-> e]
<1>1. memRow \in MemRow /\ memRow.dir_path = d /\ memRow.ended = e
  BY DEF MemRow
<1>2. mem'.meetings = Insert(mem.meetings, m, memRow)
  OBVIOUS
<1> HIDE DEF memRow
<1>3. /\ DOMAIN meeting' = DOMAIN meeting \cup {m} /\ meeting'[m] = row
      /\ \A k \in DOMAIN meeting : meeting'[k] = meeting[k]
  BY DEF Insert
<1>4. MeetingsMatch'
  <2>1. /\ DOMAIN mem'.meetings = DOMAIN meeting' /\ mem'.meetings[m] = memRow
        /\ \A k \in DOMAIN meeting : mem'.meetings[k] = mem.meetings[k]
    BY <1>2, <1>3 DEF Coupled, MeetingsMatch, Insert
  <2>2. mem'.meetings \in [DOMAIN meeting' -> MemRow]
    BY <1>1, <1>2, <1>3, <2>1 DEF Coupled, MeetingsMatch, Insert
  <2>. QED  BY <1>1, <1>3, <2>1, <2>2 DEF Coupled, MeetingsMatch
<1>5. AssignmentsMatch'
  BY <1>1, <1>3 DEF Coupled, AssignmentsMatch, LookUp, Has
<1>6. TagsMatch'
  BY <1>3 DEF Coupled, TagsMatch, TagsOf, Has
<1>. QED  BY <1>4, <1>5, <1>6

\* Calls that leave the meetings and their assignments alone.
LEMMA MeetingsStand ==
  ASSUME Coupled, UNCHANGED <<meeting, meeting_tag>>, mem'.meetings = mem.meetings,
         mem'.meeting_spaces = mem.meeting_spaces, mem'.meeting_projects = mem.meeting_projects,
         mem'.meeting_tags = mem.meeting_tags
  PROVE  MeetingsMatch' /\ AssignmentsMatch' /\ TagsMatch'
BY DEF Coupled, MeetingsMatch, AssignmentsMatch, TagsMatch, TagsOf, Has, LookUp

\* Both sides of a call that is refused stay as they are.
LEMMA RefusedCoupled ==
  ASSUME TypeInv, Integrity, Coupled, Next, reply' \notin {"Ok", "Pending"}, UNCHANGED mem
  PROVE  Coupled'
BY FailedStep, CoupledStands

Agreed == Coupled /\ SameAnswers

LEMMA CreateMeetingAgrees ==
  ASSUME TypeInv, Integrity, Coupled, Next, NEW m \in MeetingIds, NEW d \in DirPaths,
         create_meeting(m, d), mem_create_meeting(m, d)
  PROVE  Agreed'
<1>1. CASE MeetingConflicts(m, d) = {}
  <2>1. ~ Has(mem.meetings, m) /\ ~ MemDirTaken(d) /\ m \notin DOMAIN meeting
    BY <1>1, SameConflicts
  <2>2. /\ MemShape' /\ memReply' = "Ok"
        /\ mem'.meetings = Insert(mem.meetings, m, [dir_path |-> d, ended |-> FALSE])
        /\ mem'.notes = mem.notes /\ mem'.spaces = mem.spaces /\ mem'.projects = mem.projects
        /\ mem'.tags = mem.tags /\ mem'.meeting_spaces = mem.meeting_spaces
        /\ mem'.meeting_projects = mem.meeting_projects /\ mem'.meeting_tags = mem.meeting_tags
    BY <2>1 DEF mem_create_meeting, Answers, Coupled, MemShape, MemFields
  <2>3. /\ meeting' = Insert(meeting, m, NewMeeting(d)) /\ reply' = "Ok"
        /\ UNCHANGED <<note, space, project, tag, meeting_tag>>
    BY <1>1 DEF create_meeting
  <2>4. /\ NewMeeting(d).dir_path = d /\ NewMeeting(d).ended = FALSE
        /\ NewMeeting(d).space_id = None /\ NewMeeting(d).project_id = None
    BY DEF NewMeeting
  <2>5. MeetingsMatch' /\ AssignmentsMatch' /\ TagsMatch'
    BY <2>1, <2>2, <2>3, <2>4, NewMeetingMatches
  <2>6. SameTables'
    BY <2>2, <2>3 DEF Coupled, SameTables
  <2>. QED  BY <2>2, <2>3, <2>5, <2>6 DEF Agreed, Coupled, SameAnswers
<1>2. CASE MeetingConflicts(m, d) # {}
  <2>1. reply' \in {"AlreadyExists", "UniqueConflict"}
    BY <1>2, SameConflicts DEF create_meeting
  <2>2. UNCHANGED mem /\ memReply' \in {"AlreadyExists", "UniqueConflict"}
    BY <1>2, SameConflicts DEF mem_create_meeting, Refuses, Answers
  <2>3. Coupled'
    BY <2>1, <2>2, RefusedCoupled
  <2>. QED  BY <2>1, <2>2, <2>3 DEF Agreed, SameAnswers
<1>. QED  BY <1>1, <1>2

LEMMA CreateMeetingWithNoteAgrees ==
  ASSUME TypeInv, Integrity, Coupled, Next, NEW m \in MeetingIds, NEW d \in DirPaths,
         NEW n \in NoteIds, NEW e \in BOOLEAN,
         create_meeting_with_note(m, d, n, e), mem_create_meeting_with_note(m, d, n, e)
  PROVE  Agreed'
<1>0. Has(mem.notes, n) <=> n \in DOMAIN note
  BY DEF Coupled, SameTables, Has
<1>1. CASE MeetingConflicts(m, d) = {} /\ n \notin DOMAIN note
  <2>1. ~ Has(mem.meetings, m) /\ ~ MemDirTaken(d) /\ m \notin DOMAIN meeting
    BY <1>1, SameConflicts
  <2>2. /\ MemShape' /\ memReply' = "Ok"
        /\ mem'.meetings = Insert(mem.meetings, m, [dir_path |-> d, ended |-> e])
        /\ mem'.notes = Insert(mem.notes, n, [meeting_id |-> m])
        /\ mem'.spaces = mem.spaces /\ mem'.projects = mem.projects
        /\ mem'.tags = mem.tags /\ mem'.meeting_spaces = mem.meeting_spaces
        /\ mem'.meeting_projects = mem.meeting_projects /\ mem'.meeting_tags = mem.meeting_tags
    BY <1>0, <1>1, <2>1 DEF mem_create_meeting_with_note, Answers, Coupled, MemShape, MemFields
  <2>3. /\ meeting' = Insert(meeting, m, [NewMeeting(d) EXCEPT !.ended = e])
        /\ note' = Insert(note, n, [meeting_id |-> m])
        /\ reply' = "Ok" /\ UNCHANGED <<space, project, tag, meeting_tag>>
    BY <1>1 DEF create_meeting_with_note
  <2> DEFINE row == [NewMeeting(d) EXCEPT !.ended = e]
  <2>4. row.dir_path = d /\ row.ended = e /\ row.space_id = None /\ row.project_id = None
    BY DEF NewMeeting
  <2>5. meeting' = Insert(meeting, m, row)
    BY <2>3
  <2> HIDE DEF row
  <2>6. MeetingsMatch' /\ AssignmentsMatch' /\ TagsMatch'
    BY <2>1, <2>2, <2>3, <2>4, <2>5, NewMeetingMatches
  <2>7. SameTables'
    BY <2>2, <2>3 DEF Coupled, SameTables
  <2>. QED  BY <2>2, <2>3, <2>6, <2>7 DEF Agreed, Coupled, SameAnswers
<1>2. CASE ~ (MeetingConflicts(m, d) = {} /\ n \notin DOMAIN note)
  <2>1. reply' \in {"AlreadyExists", "UniqueConflict"}
    BY <1>2, SameConflicts DEF create_meeting_with_note
  <2>2. UNCHANGED mem /\ memReply' \in {"AlreadyExists", "UniqueConflict"}
    BY <1>0, <1>2, SameConflicts DEF mem_create_meeting_with_note, Refuses, Answers
  <2>3. Coupled'
    BY <2>1, <2>2, RefusedCoupled
  <2>. QED  BY <2>1, <2>2, <2>3 DEF Agreed, SameAnswers
<1>. QED  BY <1>1, <1>2

LEMMA EndMeetingAgrees ==
  ASSUME TypeInv, Integrity, Coupled, Next, NEW c \in Callers, NEW m \in MeetingIds,
         update_meeting_ended(c, m), mem_update_meeting_ended(m)
  PROVE  Agreed'
<1>1. CASE m \in DOMAIN meeting
  <2> DEFINE row == [meeting[m] EXCEPT !.ended = TRUE]
             memRow == [mem.meetings[m] EXCEPT !.ended = TRUE]
  <2>1. /\ row.dir_path = meeting[m].dir_path /\ row.space_id = meeting[m].space_id
        /\ row.project_id = meeting[m].project_id /\ row.ended = TRUE
    BY <1>1 DEF TypeInv, TypeOK, IsTable, MeetingRow
  <2>2. /\ memRow \in MemRow /\ memRow.dir_path = mem.meetings[m].dir_path
        /\ memRow.ended = TRUE
    BY <1>1 DEF Coupled, MeetingsMatch, MemRow
  <2>3. Has(mem.meetings, m)
    BY <1>1, SameConflicts
  <2>4. /\ MemShape' /\ memReply' = "Ok"
        /\ mem'.meetings = [mem.meetings EXCEPT ![m] = memRow]
        /\ mem'.notes = mem.notes /\ mem'.spaces = mem.spaces /\ mem'.projects = mem.projects
        /\ mem'.tags = mem.tags /\ mem'.meeting_spaces = mem.meeting_spaces
        /\ mem'.meeting_projects = mem.meeting_projects /\ mem'.meeting_tags = mem.meeting_tags
    <3> DEFINE x == [mem.meetings EXCEPT ![m] = memRow]
    <3>1. mem' = [mem EXCEPT !.meetings = x] /\ memReply' = "Ok"
      BY <2>3 DEF mem_update_meeting_ended, Answers
    <3> HIDE DEF x
    <3>2. /\ MemShape' /\ memReply' = "Ok" /\ mem'.meetings = x
          /\ mem'.notes = mem.notes /\ mem'.spaces = mem.spaces /\ mem'.projects = mem.projects
          /\ mem'.tags = mem.tags /\ mem'.meeting_spaces = mem.meeting_spaces
          /\ mem'.meeting_projects = mem.meeting_projects /\ mem'.meeting_tags = mem.meeting_tags
      BY <3>1 DEF Coupled, MemShape, MemFields
    <3>. QED  BY <3>2 DEF x
  <2>5. /\ meeting' = [meeting EXCEPT ![m] = row] /\ reply' = "Pending"
        /\ UNCHANGED <<note, space, project, tag, meeting_tag>>
    BY <1>1 DEF update_meeting_ended
  <2> HIDE DEF row, memRow
  <2>6. /\ DOMAIN meeting' = DOMAIN meeting /\ meeting'[m] = row
        /\ \A k \in DOMAIN meeting \ {m} : meeting'[k] = meeting[k]
    BY <1>1, <2>5 DEF TypeInv, TypeOK, IsTable
  <2>7. /\ mem'.meetings \in [DOMAIN meeting -> MemRow] /\ mem'.meetings[m] = memRow
        /\ \A k \in DOMAIN meeting \ {m} : mem'.meetings[k] = mem.meetings[k]
    BY <1>1, <2>2, <2>4 DEF Coupled, MeetingsMatch
  <2>8. MeetingsMatch'
    BY <1>1, <2>1, <2>2, <2>6, <2>7 DEF Coupled, MeetingsMatch
  <2>9. AssignmentsMatch'
    BY <1>1, <2>1, <2>4, <2>6 DEF Coupled, AssignmentsMatch
  <2>10. TagsMatch' /\ SameTables'
    BY <2>4, <2>5, <2>6 DEF Coupled, TagsMatch, TagsOf, Has, SameTables
  <2>. QED  BY <2>4, <2>5, <2>8, <2>9, <2>10 DEF Agreed, Coupled, SameAnswers
<1>2. CASE m \notin DOMAIN meeting
  <2>1. reply' = "NotFound" /\ memReply' = "NotFound" /\ UNCHANGED mem
    BY <1>2, SameConflicts DEF update_meeting_ended, mem_update_meeting_ended, Refuses, Answers
  <2>2. Coupled'
    BY <2>1, RefusedCoupled
  <2>. QED  BY <2>1, <2>2 DEF Agreed, SameAnswers
<1>. QED  BY <1>1, <1>2

\* Renames and the second half of the two-step calls write nothing on either side.
LEMMA RenameAgrees ==
  ASSUME Coupled, UNCHANGED tables,
         \/ \E c \in Callers, m \in MeetingIds : rename_meeting(c, m) /\ mem_rename_meeting(m)
         \/ \E c \in Callers : get_meeting_back(c) /\ Refuses("None")
         \/ \E s \in SpaceIds : rename_space(s) /\ mem_rename_space(s)
         \/ \E p \in ProjectIds : rename_project(p) /\ mem_rename_project(p)
  PROVE  Agreed'
<1>1. UNCHANGED mem
  BY DEF mem_rename_meeting, mem_rename_space, mem_rename_project, Refuses, Answers
<1>2. Coupled'
  BY <1>1, CoupledStands
<1>3. /\ \A m : Has(mem.meetings, m) <=> m \in DOMAIN meeting
      /\ \A s : Has(mem.spaces, s) <=> s \in DOMAIN space
      /\ \A p : Has(mem.projects, p) <=> p \in DOMAIN project
  BY DEF Coupled, MeetingsMatch, SameTables, Has
<1>4. SameAnswers'
  BY <1>3 DEF rename_meeting, mem_rename_meeting, get_meeting_back, rename_space,
     mem_rename_space, rename_project, mem_rename_project, Refuses, Answers, NotFoundUnless,
     SameAnswers
<1>. QED  BY <1>2, <1>4 DEF Agreed

LEMMA DeleteMeetingAgrees ==
  ASSUME TypeInv, Integrity, Coupled, Next, NEW m \in MeetingIds,
         delete_meeting(m), mem_delete_meeting(m)
  PROVE  Agreed'
<1>1. CASE m \in DOMAIN meeting
  <2>1. Has(mem.meetings, m)
    BY <1>1, SameConflicts
  <2>2. /\ MemShape' /\ memReply' = "Ok"
        /\ mem'.meetings = Without(mem.meetings, {m})
        /\ mem'.notes = Without(mem.notes, {n \in DOMAIN mem.notes : mem.notes[n].meeting_id = m})
        /\ mem'.meeting_tags = Without(mem.meeting_tags, {m})
        /\ mem'.meeting_spaces = Without(mem.meeting_spaces, {m})
        /\ mem'.meeting_projects = Without(mem.meeting_projects, {m})
        /\ mem'.spaces = mem.spaces /\ mem'.projects = mem.projects /\ mem'.tags = mem.tags
    BY <2>1 DEF mem_delete_meeting, Answers, Coupled, MemShape, MemFields
  <2>3. /\ meeting' = DeleteRows(meeting, {m})
        /\ note' = DeleteRows(note, {n \in DOMAIN note : note[n].meeting_id \in {m}})
        /\ meeting_tag' = {mt \in meeting_tag : mt[1] \notin {m}}
        /\ reply' = "Ok" /\ UNCHANGED <<space, project, tag>>
    BY <1>1 DEF delete_meeting, DropMeetings, NotFoundUnless
  <2>4. /\ DOMAIN meeting' = DOMAIN meeting \ {m}
        /\ \A k \in DOMAIN meeting \ {m} : meeting'[k] = meeting[k]
    BY <2>3 DEF DeleteRows
  <2>5. MeetingsMatch'
    BY <2>2, <2>4 DEF Coupled, MeetingsMatch, Without, DeleteRows
  <2>6. AssignmentsMatch'
    BY <2>2, <2>4 DEF Coupled, AssignmentsMatch, LookUp, Has, Without, DeleteRows
  <2>7. TagsMatch'
    BY <2>2, <2>3, <2>4 DEF Coupled, TagsMatch, TagsOf, Has, Without, DeleteRows
  <2>8. {n \in DOMAIN note : note[n].meeting_id \in {m}} = {n \in DOMAIN note : note[n].meeting_id = m}
    OBVIOUS
  <2>9. SameTables'
    BY <2>2, <2>3, <2>8 DEF Coupled, SameTables, Without
  <2>. QED  BY <2>2, <2>3, <2>5, <2>6, <2>7, <2>9 DEF Agreed, Coupled, SameAnswers
<1>2. CASE m \notin DOMAIN meeting
  <2>1. reply' = "NotFound" /\ memReply' = "NotFound" /\ UNCHANGED mem
    BY <1>2, SameConflicts DEF delete_meeting, NotFoundUnless, mem_delete_meeting, Refuses, Answers
  <2>2. Coupled'
    BY <2>1, RefusedCoupled
  <2>. QED  BY <2>1, <2>2 DEF Agreed, SameAnswers
<1>. QED  BY <1>1, <1>2

LEMMA CreateNoteAgrees ==
  ASSUME TypeInv, Integrity, Coupled, Next, NEW m \in MeetingIds, NEW n \in NoteIds,
         create_note(n, m), mem_create_note(n, m)
  PROVE  Agreed'
<1>0. (Has(mem.notes, n) <=> n \in DOMAIN note) /\ (Has(mem.meetings, m) <=> m \in DOMAIN meeting)
  BY DEF Coupled, SameTables, MeetingsMatch, Has
<1>1. CASE m \in DOMAIN meeting /\ n \notin DOMAIN note
  <2>1. /\ MemShape' /\ memReply' = "Ok" /\ mem'.meetings = mem.meetings
        /\ mem'.notes = Insert(mem.notes, n, [meeting_id |-> m])
        /\ mem'.spaces = mem.spaces /\ mem'.projects = mem.projects
        /\ mem'.tags = mem.tags /\ mem'.meeting_spaces = mem.meeting_spaces
        /\ mem'.meeting_projects = mem.meeting_projects /\ mem'.meeting_tags = mem.meeting_tags
    BY <1>0, <1>1 DEF mem_create_note, Answers, Coupled, MemShape, MemFields
  <2>2. /\ note' = Insert(note, n, [meeting_id |-> m]) /\ reply' = "Ok"
        /\ UNCHANGED <<meeting, space, project, tag, meeting_tag>>
    BY <1>1 DEF create_note
  <2>3. SameTables'
    BY <2>1, <2>2 DEF Coupled, SameTables
  <2>. QED  BY <2>1, <2>2, <2>3, MeetingsStand DEF Agreed, Coupled, SameAnswers
<1>2. CASE ~ (m \in DOMAIN meeting /\ n \notin DOMAIN note)
  <2>1. reply' \in {"NotFound", "AlreadyExists"} /\ memReply' = reply' /\ UNCHANGED mem
    BY <1>0, <1>2 DEF create_note, mem_create_note, Refuses, Answers
  <2>2. Coupled'
    BY <2>1, RefusedCoupled
  <2>. QED  BY <2>1, <2>2 DEF Agreed, SameAnswers
<1>. QED  BY <1>1, <1>2

LEMMA ReplaceNoteAgrees ==
  ASSUME TypeInv, Integrity, Coupled, Next, NEW m \in MeetingIds, NEW n \in NoteIds,
         replace_meeting_note(m, n), mem_replace_meeting_note(m, n)
  PROVE  Agreed'
<1> DEFINE kept == DeleteRows(note, NotesOf(m))
<1>0. /\ Has(mem.meetings, m) <=> m \in DOMAIN meeting
      /\ Has(mem.notes, n) /\ mem.notes[n].meeting_id # m <=> n \in DOMAIN kept
      /\ Without(mem.notes, {k \in DOMAIN mem.notes : mem.notes[k].meeting_id = m}) = kept
  BY DEF Coupled, SameTables, MeetingsMatch, Has, DeleteRows, NotesOf, Without
<1>1. CASE m \in DOMAIN meeting /\ n \notin DOMAIN kept
  <2>1. /\ MemShape' /\ memReply' = "Ok" /\ mem'.meetings = mem.meetings
        /\ mem'.notes = Insert(Without(mem.notes,
                          {k \in DOMAIN mem.notes : mem.notes[k].meeting_id = m}),
                          n, [meeting_id |-> m])
        /\ mem'.spaces = mem.spaces /\ mem'.projects = mem.projects
        /\ mem'.tags = mem.tags /\ mem'.meeting_spaces = mem.meeting_spaces
        /\ mem'.meeting_projects = mem.meeting_projects /\ mem'.meeting_tags = mem.meeting_tags
    BY <1>0, <1>1 DEF mem_replace_meeting_note, Answers, Coupled, MemShape, MemFields
  <2>2. /\ note' = Insert(kept, n, [meeting_id |-> m]) /\ reply' = "Ok"
        /\ UNCHANGED <<meeting, space, project, tag, meeting_tag>>
    BY <1>1 DEF replace_meeting_note
  <2>3. SameTables'
    BY <1>0, <2>1, <2>2 DEF Coupled, SameTables
  <2>. QED  BY <2>1, <2>2, <2>3, MeetingsStand DEF Agreed, Coupled, SameAnswers
<1>2. CASE ~ (m \in DOMAIN meeting /\ n \notin DOMAIN kept)
  <2>1. reply' \in {"NotFound", "AlreadyExists"} /\ memReply' = reply' /\ UNCHANGED mem
    BY <1>0, <1>2 DEF replace_meeting_note, mem_replace_meeting_note, Refuses, Answers
  <2>2. Coupled'
    BY <2>1, RefusedCoupled
  <2>. QED  BY <2>1, <2>2 DEF Agreed, SameAnswers
<1>. QED  BY <1>1, <1>2

LEMMA CreateSpaceAgrees ==
  ASSUME TypeInv, Integrity, Coupled, NEW s \in SpaceIds, create_space(s), mem_create_space(s)
  PROVE  Agreed'
<1>1. /\ MemShape' /\ memReply' = "Ok" /\ mem'.meetings = mem.meetings
      /\ mem'.notes = mem.notes
      /\ mem'.spaces = Insert(mem.spaces, s, [position |->
           mem_next_position({mem.spaces[k].position : k \in DOMAIN mem.spaces})])
      /\ mem'.projects = mem.projects
      /\ mem'.tags = mem.tags /\ mem'.meeting_spaces = mem.meeting_spaces
      /\ mem'.meeting_projects = mem.meeting_projects /\ mem'.meeting_tags = mem.meeting_tags
  BY DEF mem_create_space, Answers, Coupled, MemShape, MemFields
<1>2. /\ space' = Insert(space, s,
           [position |-> next_position({space[k].position : k \in DOMAIN space})])
      /\ reply' = "Ok" /\ UNCHANGED <<meeting, note, project, tag, meeting_tag>>
  BY DEF create_space
<1>3. SameTables'
  BY <1>1, <1>2 DEF Coupled, SameTables, next_position, mem_next_position
<1>. QED  BY <1>1, <1>2, <1>3, MeetingsStand DEF Agreed, Coupled, SameAnswers

LEMMA CreateProjectAgrees ==
  ASSUME TypeInv, Integrity, Coupled, Next, NEW p \in ProjectIds, NEW s \in SpaceIds,
         create_project(p, s), mem_create_project(p, s)
  PROVE  Agreed'
<1>0. (Has(mem.spaces, s) <=> s \in DOMAIN space) /\ MemProjectsOf(s) = ProjectsOf(s)
  BY DEF Coupled, SameTables, Has, MemProjectsOf, ProjectsOf
<1>1. CASE s \in DOMAIN space
  <2>1. /\ MemShape' /\ memReply' = "Ok" /\ mem'.meetings = mem.meetings
        /\ mem'.notes = mem.notes /\ mem'.spaces = mem.spaces
        /\ mem'.projects = Insert(mem.projects, p, [space_id |-> s, position |->
             mem_next_position({mem.projects[k].position : k \in MemProjectsOf(s)})])
        /\ mem'.tags = mem.tags /\ mem'.meeting_spaces = mem.meeting_spaces
        /\ mem'.meeting_projects = mem.meeting_projects /\ mem'.meeting_tags = mem.meeting_tags
    BY <1>0, <1>1 DEF mem_create_project, Answers, Coupled, MemShape, MemFields
  <2>2. /\ project' = Insert(project, p, [space_id |-> s,
             position |-> next_position({project[k].position : k \in ProjectsOf(s)})])
        /\ reply' = "Ok" /\ UNCHANGED <<meeting, note, space, tag, meeting_tag>>
    BY <1>1 DEF create_project
  <2>3. SameTables'
    BY <1>0, <2>1, <2>2 DEF Coupled, SameTables, next_position, mem_next_position
  <2>. QED  BY <2>1, <2>2, <2>3, MeetingsStand DEF Agreed, Coupled, SameAnswers
<1>2. CASE s \notin DOMAIN space
  <2>1. reply' = "NotFound" /\ memReply' = "NotFound" /\ UNCHANGED mem
    BY <1>0, <1>2 DEF create_project, mem_create_project, Refuses, Answers
  <2>2. Coupled'
    BY <2>1, RefusedCoupled
  <2>. QED  BY <2>1, <2>2 DEF Agreed, SameAnswers
<1>. QED  BY <1>1, <1>2

\* clear_space_assignments and clear_project_assignments do what SET NULL does.
LEMMA ClearedLookUp ==
  ASSUME NEW map, NEW ids, None \notin ids, NEW k
  PROVE  LookUp(Without(map, AssignedTo(map, ids)), k) =
           IF LookUp(map, k) \in ids THEN None ELSE LookUp(map, k)
BY DEF Without, DeleteRows, AssignedTo, LookUp, Has

\* SET NULL, column by column.
LEMMA ProjectColumn ==
  ASSUME NEW t, IsTable(t, MeetingIds, MeetingRow), NEW ids, NEW k \in DOMAIN t
  PROVE  LET u == MeetingsWithoutProjects(t, ids) IN
         /\ u[k].dir_path = t[k].dir_path /\ u[k].ended = t[k].ended
         /\ u[k].space_id = t[k].space_id
         /\ u[k].project_id = IF t[k].project_id \in ids THEN None ELSE t[k].project_id
<1> DEFINE u == MeetingsWithoutProjects(t, ids)
<1>1. /\ t[k] \in MeetingRow
      /\ u[k] = IF t[k].project_id \in ids THEN [t[k] EXCEPT !.project_id = None] ELSE t[k]
  BY DEF MeetingsWithoutProjects, IsTable
<1> HIDE DEF u
<1>. QED  BY <1>1 DEF MeetingRow, u

LEMMA SpaceColumn ==
  ASSUME NEW t, IsTable(t, MeetingIds, MeetingRow), NEW s, NEW k \in DOMAIN t
  PROVE  LET w == MeetingsWithoutSpace(t, s) IN
         /\ w[k].dir_path = t[k].dir_path /\ w[k].ended = t[k].ended
         /\ w[k].space_id = (IF t[k].space_id = s THEN None ELSE t[k].space_id)
         /\ w[k].project_id = t[k].project_id
<1> DEFINE w == MeetingsWithoutSpace(t, s)
<1>1. /\ t[k] \in MeetingRow
      /\ w[k] = IF t[k].space_id = s THEN [t[k] EXCEPT !.space_id = None] ELSE t[k]
  BY DEF MeetingsWithoutSpace, IsTable
<1> HIDE DEF w
<1>. QED  BY <1>1 DEF MeetingRow, w

LEMMA DeleteSpaceAgrees ==
  ASSUME TypeInv, Integrity, Coupled, Next, NEW s \in SpaceIds,
         delete_space(s), mem_delete_space(s)
  PROVE  Agreed'
<1> DEFINE ids == ProjectsOf(s)
<1>0. /\ Has(mem.spaces, s) <=> s \in DOMAIN space
      /\ MemProjectsOf(s) = ids /\ None \notin ids /\ s # None
  BY NoneIsNoId
     DEF Coupled, SameTables, Has, MemProjectsOf, ProjectsOf, TypeInv, TypeOK, IsTable
<1>1. CASE s \in DOMAIN space
  <2>1. /\ MemShape' /\ memReply' = "Ok" /\ mem'.meetings = mem.meetings
        /\ mem'.notes = mem.notes /\ mem'.spaces = Without(mem.spaces, {s})
        /\ mem'.projects = Without(mem.projects, MemProjectsOf(s))
        /\ mem'.meeting_projects =
             Without(mem.meeting_projects, AssignedTo(mem.meeting_projects, MemProjectsOf(s)))
        /\ mem'.meeting_spaces =
             Without(mem.meeting_spaces, AssignedTo(mem.meeting_spaces, {s}))
        /\ mem'.tags = mem.tags /\ mem'.meeting_tags = mem.meeting_tags
    BY <1>0, <1>1 DEF mem_delete_space, Answers, Coupled, MemShape, MemFields
  <2>2. /\ space' = DeleteRows(space, {s}) /\ project' = DeleteRows(project, ids)
        /\ meeting' = MeetingsWithoutSpace(MeetingsWithoutProjects(meeting, ids), s)
        /\ reply' = "Ok" /\ UNCHANGED <<note, tag, meeting_tag>>
    BY <1>1 DEF delete_space, NotFoundUnless
  <2> HIDE DEF ids
  <2>3. IsTable(meeting, MeetingIds, MeetingRow)
    BY DEF TypeInv, TypeOK
  <2>4. DOMAIN meeting' = DOMAIN meeting
    BY <2>2 DEF MeetingsWithoutSpace, MeetingsWithoutProjects
  <2>5. ASSUME NEW k \in DOMAIN meeting
        PROVE  /\ meeting'[k].dir_path = meeting[k].dir_path
               /\ meeting'[k].ended = meeting[k].ended
               /\ meeting'[k].space_id = (IF meeting[k].space_id = s THEN None ELSE meeting[k].space_id)
               /\ meeting'[k].project_id =
                    (IF meeting[k].project_id \in ids THEN None ELSE meeting[k].project_id)
    <3> DEFINE u == MeetingsWithoutProjects(meeting, ids)
    <3>1. IsTable(u, MeetingIds, MeetingRow) /\ DOMAIN u = DOMAIN meeting
      BY <2>3, UnfiledMeetings DEF MeetingsWithoutProjects
    <3>2. /\ u[k].dir_path = meeting[k].dir_path /\ u[k].ended = meeting[k].ended
          /\ u[k].space_id = meeting[k].space_id
          /\ u[k].project_id =
               (IF meeting[k].project_id \in ids THEN None ELSE meeting[k].project_id)
      BY <2>3, ProjectColumn
    <3>3. meeting' = MeetingsWithoutSpace(u, s)
      BY <2>2
    <3> HIDE DEF u
    <3>. QED  BY <3>1, <3>2, <3>3, SpaceColumn
  <2>6. MeetingsMatch'
    BY <2>1, <2>4, <2>5 DEF Coupled, MeetingsMatch
  <2>7. ASSUME NEW k \in DOMAIN meeting
        PROVE  /\ LookUp(mem'.meeting_spaces, k) = meeting'[k].space_id
               /\ LookUp(mem'.meeting_projects, k) = meeting'[k].project_id
    <3>1. LookUp(mem'.meeting_spaces, k) =
            IF LookUp(mem.meeting_spaces, k) \in {s} THEN None ELSE LookUp(mem.meeting_spaces, k)
      BY <1>0, <2>1, ClearedLookUp
    <3>2. LookUp(mem'.meeting_projects, k) =
            IF LookUp(mem.meeting_projects, k) \in ids THEN None
            ELSE LookUp(mem.meeting_projects, k)
      BY <1>0, <2>1, ClearedLookUp
    <3>. QED  BY <2>5, <3>1, <3>2 DEF Coupled, AssignmentsMatch
  <2>8. /\ DOMAIN mem'.meeting_spaces \subseteq DOMAIN mem.meeting_spaces
        /\ \A k \in DOMAIN mem'.meeting_spaces : mem'.meeting_spaces[k] = mem.meeting_spaces[k]
        /\ DOMAIN mem'.meeting_projects \subseteq DOMAIN mem.meeting_projects
    BY <2>1 DEF Without, DeleteRows
  <2>9. AssignmentsMatch'
    BY <2>4, <2>7, <2>8 DEF Coupled, AssignmentsMatch
  <2>10. TagsMatch' /\ SameTables'
    BY <1>0, <2>1, <2>2, <2>4 DEF Coupled, TagsMatch, TagsOf, Has, SameTables, Without
  <2>. QED  BY <2>1, <2>2, <2>6, <2>9, <2>10 DEF Agreed, Coupled, SameAnswers
<1>2. CASE s \notin DOMAIN space
  <2>1. reply' = "NotFound" /\ memReply' = "NotFound" /\ UNCHANGED mem
    BY <1>0, <1>2 DEF delete_space, NotFoundUnless, mem_delete_space, Refuses, Answers
  <2>2. Coupled'
    BY <2>1, RefusedCoupled
  <2>. QED  BY <2>1, <2>2 DEF Agreed, SameAnswers
<1>. QED  BY <1>1, <1>2

LEMMA DeleteProjectAgrees ==
  ASSUME TypeInv, Integrity, Coupled, Next, NEW p \in ProjectIds,
         delete_project(p), mem_delete_project(p)
  PROVE  Agreed'
<1>0. (Has(mem.projects, p) <=> p \in DOMAIN project) /\ None \notin {p}
  BY NoneIsNoId DEF Coupled, SameTables, Has
<1>1. CASE p \in DOMAIN project
  <2>1. /\ MemShape' /\ memReply' = "Ok" /\ mem'.meetings = mem.meetings
        /\ mem'.notes = mem.notes /\ mem'.spaces = mem.spaces
        /\ mem'.projects = Without(mem.projects, {p})
        /\ mem'.meeting_projects =
             Without(mem.meeting_projects, AssignedTo(mem.meeting_projects, {p}))
        /\ mem'.meeting_spaces = mem.meeting_spaces
        /\ mem'.tags = mem.tags /\ mem'.meeting_tags = mem.meeting_tags
    BY <1>0, <1>1 DEF mem_delete_project, Answers, Coupled, MemShape, MemFields
  <2>2. /\ project' = DeleteRows(project, {p})
        /\ meeting' = MeetingsWithoutProjects(meeting, {p})
        /\ reply' = "Ok" /\ UNCHANGED <<note, space, tag, meeting_tag>>
    BY <1>1 DEF delete_project, NotFoundUnless
  <2>3. IsTable(meeting, MeetingIds, MeetingRow)
    BY DEF TypeInv, TypeOK
  <2>4. DOMAIN meeting' = DOMAIN meeting
    BY <2>2 DEF MeetingsWithoutProjects
  <2>5. ASSUME NEW k \in DOMAIN meeting
        PROVE  /\ meeting'[k].dir_path = meeting[k].dir_path
               /\ meeting'[k].ended = meeting[k].ended
               /\ meeting'[k].space_id = meeting[k].space_id
               /\ meeting'[k].project_id =
                    (IF meeting[k].project_id \in {p} THEN None ELSE meeting[k].project_id)
    BY <2>2, <2>3, ProjectColumn
  <2>6. MeetingsMatch'
    BY <2>1, <2>4, <2>5 DEF Coupled, MeetingsMatch
  <2>7. ASSUME NEW k \in DOMAIN meeting
        PROVE  LookUp(mem'.meeting_projects, k) = meeting'[k].project_id
    <3>1. LookUp(mem'.meeting_projects, k) =
            IF LookUp(mem.meeting_projects, k) \in {p} THEN None
            ELSE LookUp(mem.meeting_projects, k)
      BY <1>0, <2>1, ClearedLookUp
    <3>. QED  BY <2>5, <3>1 DEF Coupled, AssignmentsMatch
  <2>8. DOMAIN mem'.meeting_projects \subseteq DOMAIN mem.meeting_projects
    BY <2>1 DEF Without, DeleteRows
  <2>9. AssignmentsMatch'
    BY <2>1, <2>4, <2>5, <2>7, <2>8 DEF Coupled, AssignmentsMatch
  <2>10. TagsMatch' /\ SameTables'
    BY <2>1, <2>2, <2>4 DEF Coupled, TagsMatch, TagsOf, Has, SameTables, Without
  <2>. QED  BY <2>1, <2>2, <2>6, <2>9, <2>10 DEF Agreed, Coupled, SameAnswers
<1>2. CASE p \notin DOMAIN project
  <2>1. reply' = "NotFound" /\ memReply' = "NotFound" /\ UNCHANGED mem
    BY <1>0, <1>2 DEF delete_project, NotFoundUnless, mem_delete_project, Refuses, Answers
  <2>2. Coupled'
    BY <2>1, RefusedCoupled
  <2>. QED  BY <2>1, <2>2 DEF Agreed, SameAnswers
<1>. QED  BY <1>1, <1>2

LEMMA CreateTagAgrees ==
  ASSUME TypeInv, Integrity, Coupled, NEW t \in TagIds, NEW name \in TagNames,
         create_tag(t, name), mem_create_tag(t, name)
  PROVE  Agreed'
<1>0. mem.tags = tag
  BY DEF Coupled, SameTables
<1>1. CASE \E k \in DOMAIN tag : tag[k].name = name
  <2>1. UNCHANGED <<mem, tables>> /\ reply' = "Ok" /\ memReply' = "Ok"
    BY <1>0, <1>1 DEF create_tag, mem_create_tag, Refuses, Answers, tables
  <2>. QED  BY <2>1, CoupledStands DEF Agreed, SameAnswers
<1>2. CASE ~ \E k \in DOMAIN tag : tag[k].name = name
  <2>1. /\ MemShape' /\ memReply' = "Ok" /\ mem'.meetings = mem.meetings
        /\ mem'.notes = mem.notes /\ mem'.spaces = mem.spaces /\ mem'.projects = mem.projects
        /\ mem'.tags = Insert(mem.tags, t, [name |-> name])
        /\ mem'.meeting_spaces = mem.meeting_spaces
        /\ mem'.meeting_projects = mem.meeting_projects /\ mem'.meeting_tags = mem.meeting_tags
    BY <1>0, <1>2 DEF mem_create_tag, Answers, Coupled, MemShape, MemFields
  <2>2. /\ tag' = Insert(tag, t, [name |-> name]) /\ reply' = "Ok"
        /\ UNCHANGED <<meeting, note, space, project, meeting_tag>>
    BY <1>2 DEF create_tag
  <2>3. SameTables'
    BY <2>1, <2>2 DEF Coupled, SameTables
  <2>. QED  BY <2>1, <2>2, <2>3, MeetingsStand DEF Agreed, Coupled, SameAnswers
<1>. QED  BY <1>1, <1>2

LEMMA DeleteTagAgrees ==
  ASSUME TypeInv, Integrity, Coupled, Next, NEW t \in TagIds, delete_tag(t), mem_delete_tag(t)
  PROVE  Agreed'
<1>0. Has(mem.tags, t) <=> t \in DOMAIN tag
  BY DEF Coupled, SameTables, Has
<1>1. CASE t \in DOMAIN tag
  <2>1. /\ MemShape' /\ memReply' = "Ok" /\ mem'.meetings = mem.meetings
        /\ mem'.notes = mem.notes /\ mem'.spaces = mem.spaces /\ mem'.projects = mem.projects
        /\ mem'.tags = Without(mem.tags, {t})
        /\ mem'.meeting_spaces = mem.meeting_spaces
        /\ mem'.meeting_projects = mem.meeting_projects
        /\ mem'.meeting_tags = [m \in DOMAIN mem.meeting_tags |-> mem.meeting_tags[m] \ {t}]
    BY <1>0, <1>1 DEF mem_delete_tag, Answers, Coupled, MemShape, MemFields
  <2>2. /\ tag' = DeleteRows(tag, {t}) /\ meeting_tag' = {mt \in meeting_tag : mt[2] # t}
        /\ reply' = "Ok" /\ UNCHANGED <<meeting, note, space, project>>
    BY <1>1 DEF delete_tag, NotFoundUnless
  <2>3. SameTables' /\ MeetingsMatch' /\ AssignmentsMatch'
    BY <2>1, <2>2 DEF Coupled, SameTables, MeetingsMatch, AssignmentsMatch, LookUp, Has, Without
  <2>4. \A m \in MeetingIds, u \in TagIds : <<m, u>> \in meeting_tag' <=> <<m, u>> \in meeting_tag /\ u # t
    BY <2>2
  <2>5. TagsMatch'
    BY <2>1, <2>2, <2>4 DEF Coupled, TagsMatch, TagsOf, Has
  <2>. QED  BY <2>1, <2>2, <2>3, <2>5 DEF Agreed, Coupled, SameAnswers
<1>2. CASE t \notin DOMAIN tag
  <2>1. reply' = "NotFound" /\ memReply' = "NotFound" /\ UNCHANGED mem
    BY <1>0, <1>2 DEF delete_tag, NotFoundUnless, mem_delete_tag, Refuses, Answers
  <2>2. Coupled'
    BY <2>1, RefusedCoupled
  <2>. QED  BY <2>1, <2>2 DEF Agreed, SameAnswers
<1>. QED  BY <1>1, <1>2

\* One meeting's list of tags replaced on the side of the fake.
LEMMA TagListMatches ==
  ASSUME TypeInv, Coupled, NEW m \in DOMAIN meeting, NEW T \in SUBSET TagIds,
         mem'.meeting_tags = Insert(mem.meeting_tags, m, T), UNCHANGED meeting,
         \A k \in MeetingIds, u \in TagIds :
           <<k, u>> \in meeting_tag' <=> IF k = m THEN u \in T ELSE <<k, u>> \in meeting_tag
  PROVE  TagsMatch'
<1>1. /\ DOMAIN mem'.meeting_tags = DOMAIN mem.meeting_tags \cup {m}
      /\ mem'.meeting_tags[m] = T
      /\ \A k \in DOMAIN mem.meeting_tags \ {m} : mem'.meeting_tags[k] = mem.meeting_tags[k]
  BY DEF Insert
<1>2. \A k \in MeetingIds : TagsOf(k)' = IF k = m THEN T ELSE TagsOf(k)
  BY <1>1 DEF TagsOf, Has
<1>3. \A k \in MeetingIds, u \in TagIds : <<k, u>> \in meeting_tag' <=> u \in TagsOf(k)'
  BY <1>2 DEF Coupled, TagsMatch
<1>. QED  BY <1>1, <1>3 DEF Coupled, TagsMatch

LEMMA TagAgrees ==
  ASSUME TypeInv, Integrity, Coupled, Next, NEW m \in MeetingIds, NEW t \in TagIds,
         \/ tag_meeting(m, t) /\ mem_tag_meeting(m, t)
         \/ untag_meeting(m, t) /\ mem_untag_meeting(m, t)
  PROVE  Agreed'
<1>0. (Has(mem.meetings, m) <=> m \in DOMAIN meeting) /\ (Has(mem.tags, t) <=> t \in DOMAIN tag)
  BY DEF Coupled, SameTables, MeetingsMatch, Has
<1>1. CASE ~ (m \in DOMAIN meeting /\ t \in DOMAIN tag)
  <2>1. reply' = "NotFound" /\ memReply' = "NotFound" /\ UNCHANGED mem
    BY <1>0, <1>1 DEF tag_meeting, untag_meeting, mem_tag_meeting, mem_untag_meeting, Refuses,
       Answers
  <2>2. Coupled'
    BY <2>1, RefusedCoupled
  <2>. QED  BY <2>1, <2>2 DEF Agreed, SameAnswers
<1>2. CASE m \in DOMAIN meeting /\ t \in DOMAIN tag
  <2>0. /\ TagsOf(m) \in SUBSET TagIds
        /\ \A k \in MeetingIds, u \in TagIds : <<k, u>> \in meeting_tag <=> u \in TagsOf(k)
    BY DEF Coupled, TagsMatch, TagsOf, Has
  <2>1. /\ MemShape' /\ memReply' = "Ok" /\ reply' = "Ok"
        /\ mem'.meetings = mem.meetings /\ mem'.notes = mem.notes /\ mem'.spaces = mem.spaces
        /\ mem'.projects = mem.projects /\ mem'.tags = mem.tags
        /\ mem'.meeting_spaces = mem.meeting_spaces
        /\ mem'.meeting_projects = mem.meeting_projects
        /\ UNCHANGED <<meeting, note, space, project, tag>>
    BY <1>0, <1>2 DEF tag_meeting, untag_meeting, mem_tag_meeting, mem_untag_meeting, Answers,
       Coupled, MemShape, MemFields
  <2>2. SameTables' /\ MeetingsMatch' /\ AssignmentsMatch'
    BY <2>1 DEF Coupled, SameTables, MeetingsMatch, AssignmentsMatch, LookUp, Has
  <2>3. TagsMatch'
    <3>1. CASE tag_meeting(m, t) /\ mem_tag_meeting(m, t)
      <4> DEFINE T == TagsOf(m) \cup {t}
      <4>1. mem'.meeting_tags = Insert(mem.meeting_tags, m, T)
        BY <1>0, <1>2, <3>1 DEF mem_tag_meeting, Answers, Coupled, MemShape, MemFields
      <4>2. \A k \in MeetingIds, u \in TagIds :
              <<k, u>> \in meeting_tag' <=> IF k = m THEN u \in T ELSE <<k, u>> \in meeting_tag
        <5>1. meeting_tag' = meeting_tag \cup {<<m, t>>}
          BY <1>2, <3>1 DEF tag_meeting
        <5>2. \A k \in MeetingIds, u \in TagIds :
                <<k, u>> \in meeting_tag' <=> <<k, u>> \in meeting_tag \/ (k = m /\ u = t)
          BY <5>1
        <5>. QED  BY <2>0, <5>2
      <4>3. T \in SUBSET TagIds
        BY <2>0
      <4> HIDE DEF T
      <4>. QED  BY <1>2, <2>1, <4>1, <4>2, <4>3, TagListMatches
    <3>2. CASE untag_meeting(m, t) /\ mem_untag_meeting(m, t)
      <4> DEFINE T == TagsOf(m) \ {t}
      <4>1. \A k \in MeetingIds, u \in TagIds :
              <<k, u>> \in meeting_tag' <=> IF k = m THEN u \in T ELSE <<k, u>> \in meeting_tag
        BY <1>2, <2>0, <3>2 DEF untag_meeting
      <4>2. T \in SUBSET TagIds
        BY <2>0
      <4>3. CASE Has(mem.meeting_tags, m)
        <5>1. mem'.meeting_tags = Insert(mem.meeting_tags, m, T)
          BY <1>0, <1>2, <3>2, <4>3 DEF mem_untag_meeting, Answers, Coupled, MemShape, MemFields
        <5> HIDE DEF T
        <5>. QED  BY <1>2, <2>1, <4>1, <4>2, <5>1, TagListMatches
      <4>4. CASE ~ Has(mem.meeting_tags, m)
        <5>1. mem'.meeting_tags = mem.meeting_tags
          BY <1>0, <1>2, <3>2, <4>4 DEF mem_untag_meeting, Answers, Coupled, MemShape, MemFields
        <5>2. \A k \in MeetingIds, u \in TagIds : <<k, u>> \in meeting_tag' <=> u \in TagsOf(k)'
          BY <2>0, <4>1, <4>4, <5>1 DEF TagsOf, Has
        <5>. QED  BY <2>1, <5>1, <5>2 DEF Coupled, TagsMatch
      <4>. QED  BY <4>3, <4>4
    <3>. QED  BY <3>1, <3>2
  <2>. QED  BY <2>1, <2>2, <2>3 DEF Agreed, Coupled, SameAnswers
<1>. QED  BY <1>1, <1>2

\* set_assignment writes the column.
LEMMA AssignedLookUp ==
  ASSUME NEW map, NEW m, NEW id
  PROVE  /\ DOMAIN Assigned(map, m, id) \subseteq DOMAIN map \cup {m}
         /\ \A k : LookUp(Assigned(map, m, id), k) = IF k = m THEN id ELSE LookUp(map, k)
         /\ (\A k \in DOMAIN map : map[k] # None) =>
              \A k \in DOMAIN Assigned(map, m, id) : Assigned(map, m, id)[k] # None
BY DEF Assigned, LookUp, Has, Without, DeleteRows, Insert

LEMMA AssignAgrees ==
  ASSUME TypeInv, Integrity, Coupled, Next, NEW m \in MeetingIds,
         NEW s \in SpaceIds \cup {None}, NEW p \in ProjectIds \cup {None},
         assign_meeting(m, s, p), mem_assign_meeting(m, s, p)
  PROVE  Agreed'
<1> DEFINE Accepted == /\ m \in DOMAIN meeting
                       /\ p # None => p \in DOMAIN project
                       /\ p = None /\ s # None => s \in DOMAIN space
<1>0. /\ Has(mem.meetings, m) <=> m \in DOMAIN meeting
      /\ Has(mem.projects, p) <=> p \in DOMAIN project
      /\ Has(mem.spaces, s) <=> s \in DOMAIN space
      /\ mem.projects = project
  BY DEF Coupled, SameTables, MeetingsMatch, Has
<1>1. CASE Accepted
  <2> DEFINE sp == IF p # None THEN project[p].space_id ELSE s
             row == [meeting[m] EXCEPT !.space_id = sp, !.project_id = p]
  <2>1. /\ MemShape' /\ memReply' = "Ok" /\ mem'.meetings = mem.meetings
        /\ mem'.notes = mem.notes /\ mem'.spaces = mem.spaces /\ mem'.projects = mem.projects
        /\ mem'.tags = mem.tags /\ mem'.meeting_tags = mem.meeting_tags
        /\ mem'.meeting_spaces = Assigned(mem.meeting_spaces, m, sp)
        /\ mem'.meeting_projects = Assigned(mem.meeting_projects, m, p)
    BY <1>0, <1>1 DEF mem_assign_meeting, Answers, Coupled, MemShape, MemFields
  <2>2. /\ meeting' = [meeting EXCEPT ![m] = row] /\ reply' = "Ok"
        /\ UNCHANGED <<note, space, project, tag, meeting_tag>>
    BY <1>1 DEF assign_meeting
  <2>3. meeting[m] \in MeetingRow /\ meeting \in [DOMAIN meeting -> MeetingRow]
    BY <1>1 DEF TypeInv, TypeOK, IsTable
  <2> HIDE DEF sp
  <2>4. /\ row.dir_path = meeting[m].dir_path /\ row.ended = meeting[m].ended
        /\ row.space_id = sp /\ row.project_id = p
    BY <2>3 DEF MeetingRow
  <2> HIDE DEF row
  <2>5. /\ DOMAIN meeting' = DOMAIN meeting /\ meeting'[m] = row
        /\ \A k \in DOMAIN meeting \ {m} : meeting'[k] = meeting[k]
    BY <1>1, <2>2, <2>3
  <2>6. MeetingsMatch'
    BY <2>1, <2>4, <2>5 DEF Coupled, MeetingsMatch
  <2>7. /\ \A k : LookUp(mem'.meeting_spaces, k) = IF k = m THEN sp ELSE LookUp(mem.meeting_spaces, k)
        /\ \A k : LookUp(mem'.meeting_projects, k) = IF k = m THEN p ELSE LookUp(mem.meeting_projects, k)
        /\ DOMAIN mem'.meeting_spaces \subseteq DOMAIN mem.meeting_spaces \cup {m}
        /\ DOMAIN mem'.meeting_projects \subseteq DOMAIN mem.meeting_projects \cup {m}
        /\ \A k \in DOMAIN mem'.meeting_spaces : mem'.meeting_spaces[k] # None
    BY <2>1, AssignedLookUp DEF Coupled, AssignmentsMatch
  <2>8. AssignmentsMatch'
    BY <1>1, <2>4, <2>5, <2>7 DEF Coupled, AssignmentsMatch
  <2>9. TagsMatch' /\ SameTables'
    BY <2>1, <2>2, <2>5 DEF Coupled, TagsMatch, TagsOf, Has, SameTables
  <2>. QED  BY <2>1, <2>2, <2>6, <2>8, <2>9 DEF Agreed, Coupled, SameAnswers
<1>2. CASE ~ Accepted
  <2>1. reply' = "NotFound" /\ memReply' = "NotFound" /\ UNCHANGED mem
    BY <1>0, <1>2 DEF assign_meeting, mem_assign_meeting, Refuses, Answers
  <2>2. Coupled'
    BY <2>1, RefusedCoupled
  <2>. QED  BY <2>1, <2>2 DEF Agreed, SameAnswers
<1>. QED  BY <1>1, <1>2

LEMMA TwinsStay ==
  ASSUME TypeInv, Integrity, Agreed, [TwinNext]_twinVars
  PROVE  Agreed'
<1>1. Coupled
  BY DEF Agreed
<1>2. CASE TwinNext
  <2>1. Next
    BY <1>2, TwinStep
  <2>2. \/ \E m \in MeetingIds, d \in DirPaths : create_meeting(m, d) /\ mem_create_meeting(m, d)
        \/ \E m \in MeetingIds, d \in DirPaths, n \in NoteIds, e \in BOOLEAN :
             create_meeting_with_note(m, d, n, e) /\ mem_create_meeting_with_note(m, d, n, e)
        \/ \E m \in MeetingIds, c \in Callers : update_meeting_ended(c, m) /\ mem_update_meeting_ended(m)
        \/ /\ \/ \E c \in Callers, m \in MeetingIds : rename_meeting(c, m) /\ mem_rename_meeting(m)
              \/ \E c \in Callers : get_meeting_back(c) /\ Refuses("None")
              \/ \E s \in SpaceIds : rename_space(s) /\ mem_rename_space(s)
              \/ \E p \in ProjectIds : rename_project(p) /\ mem_rename_project(p)
           /\ UNCHANGED tables
        \/ \E m \in MeetingIds : delete_meeting(m) /\ mem_delete_meeting(m)
        \/ \E m \in MeetingIds, n \in NoteIds :
             \/ create_note(n, m) /\ mem_create_note(n, m)
             \/ replace_meeting_note(m, n) /\ mem_replace_meeting_note(m, n)
        \/ \E s \in SpaceIds : \/ create_space(s) /\ mem_create_space(s)
                               \/ delete_space(s) /\ mem_delete_space(s)
        \/ \E p \in ProjectIds, s \in SpaceIds : create_project(p, s) /\ mem_create_project(p, s)
        \/ \E p \in ProjectIds : delete_project(p) /\ mem_delete_project(p)
        \/ \E t \in TagIds, name \in TagNames : create_tag(t, name) /\ mem_create_tag(t, name)
        \/ \E t \in TagIds : delete_tag(t) /\ mem_delete_tag(t)
        \/ \E m \in MeetingIds, t \in TagIds : \/ tag_meeting(m, t) /\ mem_tag_meeting(m, t)
                                               \/ untag_meeting(m, t) /\ mem_untag_meeting(m, t)
        \/ \E m \in MeetingIds, s \in SpaceIds \cup {None}, p \in ProjectIds \cup {None} :
             assign_meeting(m, s, p) /\ mem_assign_meeting(m, s, p)
    BY <1>2 DEF TwinNext, rename_meeting, get_meeting_back, rename_space, rename_project
  <2>. QED
    BY <1>1, <2>1, <2>2, CreateMeetingAgrees, CreateMeetingWithNoteAgrees, EndMeetingAgrees,
       RenameAgrees, DeleteMeetingAgrees, CreateNoteAgrees, ReplaceNoteAgrees, CreateSpaceAgrees,
       DeleteSpaceAgrees, CreateProjectAgrees, DeleteProjectAgrees, CreateTagAgrees,
       DeleteTagAgrees, TagAgrees, AssignAgrees
<1>3. CASE UNCHANGED twinVars
  <2>1. UNCHANGED <<mem, tables, reply, memReply>>
    BY <1>3 DEF twinVars, vars, tables
  <2>2. Coupled'
    BY <1>1, <2>1, CoupledStands
  <2>. QED  BY <2>1, <2>2 DEF Agreed, SameAnswers
<1>. QED  BY <1>2, <1>3

\* InMemoryStorage and the SQLite registry, driven by the same calls, always hold
\* the same rows, give the same answers and list the same meetings: the cascades
\* the fake performs by hand are those of the schema, for any ids and any number
\* of calls.
THEOREM FakeIsTheRegistry == TwinSpec => []TwinsAgree
<1>1. TwinInit => Agreed
  <2> SUFFICES ASSUME TwinInit PROVE Agreed
    OBVIOUS
  <2>1. /\ MemShape /\ mem.meetings = <<>> /\ mem.notes = <<>> /\ mem.spaces = <<>>
        /\ mem.projects = <<>> /\ mem.tags = <<>> /\ mem.meeting_tags = <<>>
        /\ mem.meeting_spaces = <<>> /\ mem.meeting_projects = <<>>
    BY DEF TwinInit, EmptyMem, MemShape, MemFields
  <2>2. SameTables /\ MeetingsMatch /\ AssignmentsMatch /\ SameAnswers
    BY <2>1 DEF TwinInit, Init, SameTables, MeetingsMatch, AssignmentsMatch, SameAnswers
  <2>3. TagsMatch
    BY <2>1 DEF TwinInit, Init, TagsMatch, TagsOf, Has
  <2>. QED  BY <2>1, <2>2, <2>3 DEF Agreed, Coupled
<1>2. TypeInv /\ Integrity /\ Agreed /\ [TwinNext]_twinVars => Agreed'
  BY TwinsStay
<1>3. TypeInv /\ Agreed => TwinsAgree
  BY CoupledRows DEF Agreed, TwinsAgree
<1>. QED  BY <1>1, <1>2, <1>3, TwinIsTheRegistry, Typing, StorageIntegrity, PTL DEF TwinSpec

=============================================================================
