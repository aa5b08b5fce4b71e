--------------------------- MODULE MeetingFilesProofs ---------------------------
(***************************************************************************)
(* Theorems about MeetingFiles, for any number of meetings and of calls,   *)
(* all of them under way at once.                                          *)
(*                                                                         *)
(* Registry and disk agree because a meeting that is being created belongs *)
(* to one call: every other call that names it still stands before its     *)
(* lookup, which will not find the row (CreatorInv), and a directory is    *)
(* only removed once its row is gone (DeleterInv).                         *)
(***************************************************************************)
EXTENDS MeetingFiles, FiniteSetTheorems, TLAPS

Replies == {"none", "Ok", "Err", "Deleted"}
Places == Steps \cup {"idle", "done", "lost"}
Texts == Calls \cup {Empty, Torn, None}

CallRecord == [op : Ops \cup {None}, pc : Places, m : Meetings \cup {None}, text : Texts,
               reply : Replies]

TypeInv ==
  /\ rows \in SUBSET Meetings
  /\ dir \in [Meetings -> Directories \cup {None}]
  /\ call \in [Calls -> CallRecord]
  /\ \A c \in Calls : call[c].pc # "idle" => call[c].m \in Meetings

Creating == {"create_dir", "create_row", "undo_dir"}

\* A call that has not found a row, or will not look for one any more.
Outside == {"idle", "delete_lookup", "video_lookup", "save_lookup", "gen_lookup", "done", "lost"}

CreatorInv ==
  \A c \in Calls : call[c].pc \in Creating =>
    /\ call[c].m \notin rows
    /\ call[c].pc = "create_row" => dir[call[c].m] # None
    /\ \A d \in Calls \ {c} : call[d].m = call[c].m => call[d].pc \in Outside

DeleterInv == \A c \in Calls : call[c].pc = "delete_dir" => call[c].m \notin rows

FreedInv ==
  /\ \A c \in Calls : call[c].reply = "Deleted" => call[c].pc = "done" /\ ~HasVideo(call[c].m)
  /\ \A c, d \in Calls :
       call[c].reply = "Deleted" /\ call[d].reply = "Deleted" /\ call[c].m = call[d].m => c = d

IInv ==
  /\ TypeInv /\ CreatorInv /\ DeleterInv /\ FreedInv
  /\ RowHasDirectory /\ StrayDirectoriesExplained /\ NotesTornOnlyByExport

-----------------------------------------------------------------------------
\* A step of call c to pc with reply r, on the meeting it is about.
Moves(c, pc, r) ==
  /\ call' \in [Calls -> CallRecord]
  /\ call'[c].pc = pc /\ call'[c].m = call[c].m /\ call'[c].reply = r
  /\ \A d \in Calls \ {c} : call'[d] = call[d]

LEMMA GotoMoves ==
  ASSUME TypeInv, NEW c \in Calls, NEW pc \in Places, Goto(c, pc)
  PROVE  Moves(c, pc, call[c].reply)
<1> DEFINE r == [call[c] EXCEPT !.pc = pc]
<1>1. r \in CallRecord /\ r.pc = pc /\ r.m = call[c].m /\ r.reply = call[c].reply
  BY DEF TypeInv, CallRecord
<1>2. call' = [call EXCEPT ![c] = r]
  BY DEF Goto
<1> HIDE DEF r
<1>. QED  BY <1>1, <1>2 DEF Moves, TypeInv

LEMMA ReplyMoves ==
  ASSUME TypeInv, NEW c \in Calls, NEW reply \in Replies, Reply(c, reply)
  PROVE  Moves(c, "done", reply)
<1> DEFINE r == [op |-> call[c].op, pc |-> "done", m |-> call[c].m, text |-> call[c].text,
                 reply |-> reply]
<1>1. r \in CallRecord /\ r.pc = "done" /\ r.m = call[c].m /\ r.reply = reply
  BY DEF TypeInv, CallRecord, Places
<1>2. call' = [call EXCEPT ![c] = r]
  BY DEF Reply
<1> HIDE DEF r
<1>. QED  BY <1>1, <1>2 DEF Moves, TypeInv

\* What an operation other than a removal does to the directories.
KeepsDirectories ==
  /\ dir' \in [Meetings -> Directories \cup {None}]
  /\ stray \subseteq stray' /\ torn \subseteq torn'
  /\ \A m \in Meetings :
       /\ dir[m] # None => dir'[m] # None
       /\ dir[m] = None /\ dir'[m] # None => m \in rows \/ m \in stray'
       /\ HasVideo(m)' => HasVideo(m)
  /\ NotesTornOnlyByExport'

LEMMA Unchanged ==
  ASSUME IInv, UNCHANGED <<dir, stray, torn>>
  PROVE  KeepsDirectories
BY DEF IInv, TypeInv, KeepsDirectories, HasVideo, NotesTornOnlyByExport

\* A step that changes no row: of a call that neither creates nor deletes, or
\* has not begun to.
LEMMA OrdinaryStep ==
  ASSUME IInv, NEW c \in Calls,
         NEW pc \in Places \ (Creating \cup {"idle", "delete_dir"}),
         NEW r \in Replies, Moves(c, pc, r), UNCHANGED rows, KeepsDirectories,
         call[c].pc \in Steps \ {"create_row", "undo_dir", "delete_dir"},
         call[c].pc \notin Outside \/ pc \in Outside \/ call[c].m \in rows,
         r = "Deleted" => pc = "done" /\ HasVideo(call[c].m) /\ ~HasVideo(call[c].m)'
  PROVE  IInv'
<1> USE DEF IInv, Moves
<1>1. call[c].m \in Meetings /\ call[c].pc # "idle"
  BY DEF TypeInv, Steps
<1>2. TypeInv'
  BY <1>1 DEF TypeInv, KeepsDirectories
<1>3. CreatorInv'
  BY <1>1 DEF CreatorInv, Creating, Outside, TypeInv, KeepsDirectories
<1>4. DeleterInv'
  BY DEF DeleterInv
<1>5. FreedInv'
  BY <1>1 DEF FreedInv, KeepsDirectories, TypeInv, Steps
<1>6. RowHasDirectory'
  BY DEF RowHasDirectory, KeepsDirectories, TypeInv
<1>7. StrayDirectoriesExplained'
  <2>1. ASSUME NEW d \in InFlight, call[d].pc \in {"create_row", "undo_dir", "delete_dir"}
        PROVE  d # c /\ call'[d] = call[d] /\ d \in InFlight'
    BY <2>1 DEF InFlight
  <2>. QED  BY <2>1 DEF StrayDirectoriesExplained, KeepsDirectories
<1>. QED  BY <1>2, <1>3, <1>4, <1>5, <1>6, <1>7 DEF KeepsDirectories

LEMMA LookupPreserves ==
  ASSUME IInv, NEW c \in Calls, NEW from \in Outside \ {"idle", "done", "lost"},
         NEW to \in {"delete_row", "video_stat", "save_write", "gen_dir"}, Lookup(c, from, to)
  PROVE  IInv'
<1>1. TypeInv /\ call[c].reply \in Replies /\ call[c].reply # "Deleted"
  BY DEF IInv, TypeInv, CallRecord, FreedInv, Lookup, At, Outside
<1>2. KeepsDirectories /\ UNCHANGED rows /\ call[c].pc = from
  BY Unchanged DEF Lookup, At
<1>3. from \in Steps \ {"create_row", "undo_dir", "delete_dir"}
  BY DEF Outside, Steps
<1>4. CASE call[c].m \in rows
  <2>1. Moves(c, to, call[c].reply)
    BY <1>1, <1>4, GotoMoves DEF Lookup, Places, Steps
  <2>. QED  BY <1>1, <1>2, <1>3, <1>4, <2>1, OrdinaryStep DEF Places, Steps, Creating
<1>5. CASE call[c].m \notin rows
  <2>1. Moves(c, "done", "Err")
    BY <1>1, <1>5, ReplyMoves DEF Lookup, Replies
  <2>. QED  BY <1>2, <1>3, <2>1, OrdinaryStep DEF Places, Replies, Creating, Outside
<1>. QED  BY <1>4, <1>5

LEMMA FailPreserves ==
  ASSUME IInv, NEW c \in Calls,
         NEW from \in {"delete_row", "video_stat", "video_remove", "save_rename", "save_row",
                       "gen_dir", "gen_export", "gen_shots", "gen_open"},
         Fail(c, from)
  PROVE  IInv'
<1>1. Moves(c, "done", "Err")
  BY ReplyMoves DEF Fail, IInv, Replies
<1>2. KeepsDirectories /\ UNCHANGED rows /\ call[c].pc = from
  BY Unchanged DEF Fail, At
<1>. QED  BY <1>1, <1>2, OrdinaryStep DEF Places, Steps, Replies, Creating, Outside

-----------------------------------------------------------------------------
LEMMA DirectoryFacts ==
  ASSUME IInv, NEW m \in Meetings
  PROVE  /\ NewDir \in Directories /\ NewDir # None
         /\ dir[m] # None => /\ dir[m] \in Directories
                             /\ dir[m].notes_md \in Texts /\ dir[m].writers \in SUBSET Calls
                             /\ dir[m].partials \in SUBSET Calls /\ dir[m].video \in BOOLEAN
<1>1. NewDir \in Directories
  BY DEF NewDir, Directories
<1>2. ASSUME dir[m] # None PROVE dir[m] \in Directories
  BY <1>2 DEF IInv, TypeInv
<1>3. \A d \in Directories : /\ d.notes_md \in Texts /\ d.writers \in SUBSET Calls
                            /\ d.partials \in SUBSET Calls /\ d.video \in BOOLEAN
  BY DEF Directories, Texts
<1>. QED  BY <1>1, <1>2, <1>3, NoneIsNoDirectory

\* One directory gets the contents d.
LEMMA DirectoryChanges ==
  ASSUME IInv, NEW m \in Meetings, NEW d \in Directories, dir' = [dir EXCEPT ![m] = d],
         stray \subseteq stray', torn \subseteq torn',
         dir[m] = None => m \in rows \/ m \in stray',
         d.video => HasVideo(m),
         d.notes_md \in {Empty, Torn} => d.writers # {} \/ m \in torn'
  PROVE  KeepsDirectories
<1>1. dir'[m] = d /\ d # None /\ \A x \in Meetings \ {m} : dir'[x] = dir[x]
  BY NoneIsNoDirectory DEF IInv, TypeInv
<1>2. dir' \in [Meetings -> Directories \cup {None}]
  BY DEF IInv, TypeInv
<1>3. NotesTornOnlyByExport'
  BY <1>1 DEF IInv, NotesTornOnlyByExport
<1>. QED  BY <1>1, <1>2, <1>3 DEF KeepsDirectories, HasVideo

LEMMA VideoRemovePreserves ==
  ASSUME IInv, NEW c \in Calls, VideoRemove(c)
  PROVE  IInv'
<1> DEFINE m == call[c].m
<1>1. m \in Meetings /\ call[c].pc = "video_remove" /\ UNCHANGED <<rows, stray, torn>>
  BY DEF VideoRemove, At, IInv, TypeInv
<1>2. CASE HasVideo(m)
  <2> DEFINE d == [dir[m] EXCEPT !.video = FALSE]
  <2>1. dir[m] \in Directories /\ dir[m] # None
    BY <1>1, <1>2, DirectoryFacts DEF HasVideo
  <2>2. d \in Directories /\ ~d.video /\ d.notes_md = dir[m].notes_md /\ d.writers = dir[m].writers
    BY <2>1 DEF Directories
  <2>3. dir' = [dir EXCEPT ![m] = d] /\ Reply(c, "Deleted")
    BY <1>2 DEF VideoRemove
  <2>4. d.notes_md \in {Empty, Torn} => d.writers # {} \/ m \in torn
    BY <1>1, <2>1, <2>2 DEF IInv, NotesTornOnlyByExport
  <2> HIDE DEF d
  <2>5. KeepsDirectories
    BY <1>1, <2>1, <2>2, <2>3, <2>4, DirectoryChanges
  <2>6. Moves(c, "done", "Deleted")
    BY <2>3, ReplyMoves DEF IInv, Replies
  <2>7. ~HasVideo(m)'
    BY <1>1, <2>2, <2>3, <2>6 DEF HasVideo, IInv, TypeInv, Moves
  <2>. QED  BY <1>1, <1>2, <2>5, <2>6, <2>7, OrdinaryStep DEF Places, Steps, Replies, Creating, Outside, Moves
<1>3. CASE ~HasVideo(m)
  <2>1. KeepsDirectories
    BY <1>1, <1>3, Unchanged DEF VideoRemove
  <2>2. Moves(c, "done", "Ok")
    BY <1>3, ReplyMoves DEF VideoRemove, IInv, Replies
  <2>. QED  BY <1>1, <2>1, <2>2, OrdinaryStep DEF Places, Steps, Replies, Creating, Outside
<1>. QED  BY <1>2, <1>3

LEMMA VideoStatPreserves ==
  ASSUME IInv, NEW c \in Calls, VideoStat(c)
  PROVE  IInv'
<1>1. call[c].pc = "video_stat" /\ UNCHANGED rows /\ KeepsDirectories
  BY Unchanged DEF VideoStat, At
<1>2. call[c].reply \in Replies /\ call[c].reply # "Deleted"
  BY <1>1 DEF IInv, TypeInv, CallRecord, FreedInv
<1>3. Moves(c, "video_remove", call[c].reply) \/ Moves(c, "done", "Ok")
  BY GotoMoves, ReplyMoves DEF VideoStat, IInv, Places, Steps, Replies
<1>. QED  BY <1>1, <1>2, <1>3, OrdinaryStep DEF Places, Steps, Replies, Creating, Outside

\* The files of notes.save and of the export: a directory that was there, or one
\* that MakeDirs makes, with other notes and temporary files.
LEMMA NotesStep ==
  ASSUME IInv, NEW c \in Calls, KeepsDirectories, UNCHANGED rows,
         call[c].pc \in {"save_write", "save_rename", "save_row", "gen_dir", "gen_export",
                         "gen_shots", "gen_open", "gen_write", "gen_read", "gen_row"},
         \/ \E pc \in {"save_rename", "save_row", "gen_export", "gen_shots", "gen_open",
                       "gen_write", "gen_read"} : Goto(c, pc)
         \/ Reply(c, "Ok") \/ Reply(c, "Err")
  PROVE  IInv'
<1>1. call[c].reply \in Replies /\ call[c].reply # "Deleted"
  BY DEF IInv, TypeInv, CallRecord, FreedInv
<1>2. ASSUME NEW pc \in {"save_rename", "save_row", "gen_export", "gen_shots", "gen_open",
                         "gen_write", "gen_read"}, Goto(c, pc)
      PROVE  IInv'
  <2>1. Moves(c, pc, call[c].reply)
    BY <1>2, GotoMoves DEF IInv, Places, Steps
  <2>. QED  BY <1>1, <1>2, <2>1, OrdinaryStep DEF Places, Steps, Creating, Outside
<1>3. CASE Reply(c, "Ok") \/ Reply(c, "Err")
  <2>1. Moves(c, "done", "Ok") \/ Moves(c, "done", "Err")
    BY <1>3, ReplyMoves DEF IInv, Replies
  <2>. QED  BY <2>1, OrdinaryStep DEF Places, Steps, Replies, Creating, Outside
<1>. QED  BY <1>2, <1>3

LEMMA SavePreserves ==
  ASSUME IInv, NEW c \in Calls, SaveWrite(c) \/ SaveWriteFails(c) \/ SaveRename(c) \/ SaveRow(c)
  PROVE  IInv'
<1> DEFINE m == call[c].m
<1>1. /\ m \in Meetings /\ UNCHANGED <<rows, stray, torn>>
      /\ call[c].pc \in {"save_write", "save_rename", "save_row"}
  BY DEF SaveWrite, SaveWriteFails, SaveRename, SaveRow, At, IInv, TypeInv
<1>2. ASSUME dir[m] # None, dir' = [dir EXCEPT ![m].partials = @ \cup {c}] PROVE KeepsDirectories
  <2> DEFINE d == [dir[m] EXCEPT !.partials = @ \cup {c}]
  <2>1. d \in Directories /\ d.video = dir[m].video /\ d.notes_md = dir[m].notes_md
          /\ d.writers = dir[m].writers
    BY <1>1, <1>2, DirectoryFacts DEF Directories
  <2>2. dir' = [dir EXCEPT ![m] = d]
    BY <1>2
  <2>3. d.notes_md \in {Empty, Torn} => d.writers # {} \/ m \in torn
    BY <1>1, <1>2, <2>1 DEF IInv, NotesTornOnlyByExport
  <2>4. d.video => HasVideo(m)
    BY <1>2, <2>1 DEF HasVideo
  <2> HIDE DEF d
  <2>. QED  BY <1>1, <1>2, <2>1, <2>2, <2>3, <2>4, DirectoryChanges
<1>3. CASE SaveWrite(c)
  BY <1>1, <1>2, <1>3, NotesStep DEF SaveWrite
<1>4. CASE SaveWriteFails(c)
  <2>1. KeepsDirectories
    BY <1>1, <1>2, <1>4, Unchanged DEF SaveWriteFails
  <2>. QED  BY <1>1, <1>4, <2>1, NotesStep DEF SaveWriteFails
<1>5. CASE SaveRename(c)
  <2> DEFINE d == [notes_md |-> c, writers |-> {}, partials |-> dir[m].partials \ {c},
                   video |-> dir[m].video]
  <2>1. dir[m] # None /\ dir' = [dir EXCEPT ![m] = d]
    BY <1>5 DEF SaveRename
  <2>2. d \in Directories /\ d.video = dir[m].video /\ d.notes_md = c
    BY <1>1, <2>1, DirectoryFacts DEF Directories
  <2>3. d.notes_md \notin {Empty, Torn} /\ (d.video => HasVideo(m))
    BY <2>1, <2>2, ValuesAreDistinct DEF HasVideo
  <2> HIDE DEF d
  <2>4. KeepsDirectories
    BY <1>1, <2>1, <2>2, <2>3, DirectoryChanges
  <2>. QED  BY <1>1, <1>5, <2>4, NotesStep DEF SaveRename
<1>6. CASE SaveRow(c)
  BY <1>1, <1>6, Unchanged, NotesStep DEF SaveRow
<1>. QED  BY <1>3, <1>4, <1>5, <1>6

LEMMA MakeDirsKeeps ==
  ASSUME IInv, NEW m \in Meetings, MakeDirs(m), UNCHANGED torn
  PROVE  KeepsDirectories
<1>1. stray \subseteq stray' /\ (m \in rows \/ m \in stray')
  BY DEF MakeDirs
<1>2. CASE dir[m] = None
  <2>1. NewDir \in Directories /\ ~NewDir.video /\ NewDir.notes_md \notin {Empty, Torn}
    BY DirectoryFacts, ValuesAreDistinct DEF NewDir
  <2>2. dir' = [dir EXCEPT ![m] = NewDir]
    BY <1>2 DEF MakeDirs
  <2>. QED  BY <1>1, <2>1, <2>2, DirectoryChanges
<1>3. CASE dir[m] # None
  <2>1. dir[m] \in Directories /\ dir' = [dir EXCEPT ![m] = dir[m]]
    BY <1>3, DirectoryFacts DEF MakeDirs
  <2>2. dir[m].video => HasVideo(m)
    BY <1>3 DEF HasVideo
  <2>3. dir[m].notes_md \in {Empty, Torn} => dir[m].writers # {} \/ m \in torn
    BY <1>3 DEF IInv, NotesTornOnlyByExport
  <2>. QED  BY <1>1, <2>1, <2>2, <2>3, DirectoryChanges
<1>. QED  BY <1>2, <1>3

\* notes.md written by the export: open for writing, complete or on record as torn.
LEMMA NotesFileKeeps ==
  ASSUME IInv, NEW m \in Meetings, dir[m] # None, NEW t \in Texts, NEW w \in SUBSET Calls,
         NotesFile(m, t, w), UNCHANGED stray, torn \subseteq torn',
         t \in {Empty, Torn} => w # {} \/ m \in torn'
  PROVE  KeepsDirectories
<1> DEFINE d == [notes_md |-> t, writers |-> w, partials |-> dir[m].partials, video |-> dir[m].video]
<1>1. d \in Directories /\ d.video = dir[m].video /\ d.notes_md = t /\ d.writers = w
  BY DirectoryFacts DEF Directories, Texts
<1>2. dir' = [dir EXCEPT ![m] = d]
  BY DEF NotesFile
<1>3. d.video => HasVideo(m)
  BY <1>1 DEF HasVideo
<1> HIDE DEF d
<1>. QED  BY <1>1, <1>2, <1>3, DirectoryChanges

LEMMA GeneratePreserves ==
  ASSUME IInv, NEW c \in Calls,
         \/ GenDir(c) \/ GenExport(c) \/ GenShots(c) \/ GenOpen(c) \/ GenWrite(c)
         \/ GenWriteFails(c) \/ GenRead(c) \/ GenRow(c)
  PROVE  IInv'
<1> DEFINE m == call[c].m
<1>1. /\ m \in Meetings /\ UNCHANGED rows
      /\ call[c].pc \in {"gen_dir", "gen_export", "gen_shots", "gen_open", "gen_write", "gen_read",
                         "gen_row"}
  BY DEF GenDir, GenExport, GenShots, GenOpen, GenWrite, GenWriteFails, GenRead, GenRow, At, IInv,
         TypeInv
<1>2. CASE GenDir(c)
  BY <1>1, <1>2, MakeDirsKeeps, NotesStep DEF GenDir
<1>3. CASE GenExport(c)
  BY <1>1, <1>3, MakeDirsKeeps, NotesStep DEF GenExport
<1>4. CASE GenOpen(c)
  <2>1. dir[m] # None /\ NotesFile(m, Empty, dir[m].writers \cup {c}) /\ UNCHANGED <<stray, torn>>
    BY <1>4 DEF GenOpen
  <2>2. dir[m].writers \cup {c} \in SUBSET Calls
    BY <1>1, <2>1, DirectoryFacts
  <2>3. KeepsDirectories
    BY <1>1, <2>1, <2>2, NotesFileKeeps DEF Texts
  <2>. QED  BY <1>1, <1>4, <2>3, NotesStep DEF GenOpen
<1>5. CASE GenWrite(c)
  <2>1. CASE dir[m] = None \/ c \notin dir[m].writers
    BY <1>1, <1>5, <2>1, Unchanged, NotesStep DEF GenWrite
  <2>2. CASE ~(dir[m] = None \/ c \notin dir[m].writers)
    <3>1. PICK t \in {c, Torn} :
            /\ NotesFile(m, t, dir[m].writers \ {c})
            /\ torn' = IF t = Torn THEN torn \cup {m} ELSE torn
      BY <1>5, <2>2 DEF GenWrite
    <3>2. dir[m].writers \ {c} \in SUBSET Calls
      BY <1>1, <2>2, DirectoryFacts
    <3>3. t \in Texts /\ (t \in {Empty, Torn} => t = Torn)
      BY ValuesAreDistinct DEF Texts
    <3>4. torn \subseteq torn' /\ (t = Torn => m \in torn') /\ UNCHANGED stray
      BY <1>5, <3>1 DEF GenWrite
    <3>5. KeepsDirectories
      BY <1>1, <2>2, <3>1, <3>2, <3>3, <3>4, NotesFileKeeps
    <3>. QED  BY <1>1, <1>5, <3>5, NotesStep DEF GenWrite
  <2>. QED  BY <2>1, <2>2
<1>6. CASE GenWriteFails(c)
  <2>1. CASE ~(dir[m] # None /\ c \in dir[m].writers)
    BY <1>1, <1>6, <2>1, Unchanged, NotesStep DEF GenWriteFails
  <2>2. CASE dir[m] # None /\ c \in dir[m].writers
    <3>1. NotesFile(m, Torn, dir[m].writers \ {c}) /\ torn' = torn \cup {m} /\ UNCHANGED stray
      BY <1>6, <2>2 DEF GenWriteFails
    <3>2. dir[m].writers \ {c} \in SUBSET Calls
      BY <1>1, <2>2, DirectoryFacts
    <3>3. KeepsDirectories
      BY <1>1, <2>2, <3>1, <3>2, NotesFileKeeps DEF Texts
    <3>. QED  BY <1>1, <1>6, <3>3, NotesStep DEF GenWriteFails
  <2>. QED  BY <2>1, <2>2
<1>7. CASE GenRead(c)
  <2>1. PICK t \in ReadBack(m) :
          call' = [call EXCEPT ![c] =
            [op |-> @.op, pc |-> "gen_row", m |-> @.m, text |-> t, reply |-> @.reply]]
    BY <1>7 DEF GenRead
  <2>2. t \in Texts
    BY <1>1, DirectoryFacts DEF ReadBack, Texts
  <2> DEFINE r == [op |-> call[c].op, pc |-> "gen_row", m |-> call[c].m, text |-> t,
                   reply |-> call[c].reply]
  <2>3. r \in CallRecord /\ r.pc = "gen_row" /\ r.m = call[c].m /\ r.reply = call[c].reply
    BY <2>2 DEF IInv, TypeInv, CallRecord, Places, Steps
  <2>4. call' = [call EXCEPT ![c] = r]
    BY <2>1
  <2> HIDE DEF r
  <2>5. Moves(c, "gen_row", call[c].reply)
    BY <2>3, <2>4 DEF Moves, IInv, TypeInv
  <2>6. call[c].reply \in Replies /\ call[c].reply # "Deleted"
    BY <1>1 DEF IInv, TypeInv, CallRecord, FreedInv
  <2>7. KeepsDirectories
    BY <1>7, Unchanged DEF GenRead
  <2>. QED  BY <1>1, <2>5, <2>6, <2>7, OrdinaryStep DEF Places, Steps, Creating, Outside
<1>8. CASE GenRow(c)
  BY <1>1, <1>8, Unchanged, NotesStep DEF GenRow
<1>9. CASE GenShots(c)
  BY <1>1, <1>9, MakeDirsKeeps, NotesStep DEF GenShots
<1>. QED  BY <1>2, <1>3, <1>4, <1>5, <1>6, <1>7, <1>8, <1>9

-----------------------------------------------------------------------------
\* The beginning of a call: nobody uses a fresh meeting yet.
LEMMA BeginPreserves ==
  ASSUME IInv, NEW c \in Calls, NEW op \in Ops, NEW m \in Meetings, Begin(c, op, m)
  PROVE  IInv'
<1> USE DEF IInv
<1> DEFINE r == [op |-> op, pc |-> First(op, m), m |-> m, text |-> None, reply |-> "none"]
<1>1. call' = [call EXCEPT ![c] = r] /\ UNCHANGED <<rows, dir, stray, torn>> /\ call[c].pc = "idle"
  BY DEF Begin, At
<1>2. /\ First(op, m) \in {"create_dir", "delete_lookup", "video_lookup", "save_lookup", "gen_lookup"}
      /\ First(op, m) = "create_dir" => Fresh(m)
  BY DEF First, Ops, Begin
<1>3. r \in CallRecord /\ r.pc = First(op, m) /\ r.m = m /\ r.reply = "none"
  BY <1>2 DEF CallRecord, Places, Steps, Texts, Replies
<1> HIDE DEF r
<1>4. /\ call'[c].pc = First(op, m) /\ call'[c].m = m /\ call'[c].reply = "none"
      /\ \A d \in Calls \ {c} : call'[d] = call[d]
  BY <1>1, <1>3 DEF TypeInv
<1>5. TypeInv'
  BY <1>1, <1>3, <1>4 DEF TypeInv
<1>6. CreatorInv'
  <2>1. CASE First(op, m) = "create_dir"
    <3>1. m \notin rows /\ \A d \in Calls : call[d].m # m
      BY <1>2, <2>1 DEF Fresh
    <3>. QED  BY <1>1, <1>4, <2>1, <3>1 DEF CreatorInv, Creating
  <2>2. CASE First(op, m) # "create_dir"
    <3>1. First(op, m) \in Outside /\ First(op, m) \notin Creating
      BY <1>2, <2>2 DEF Outside, Creating
    <3>. QED  BY <1>1, <1>4, <3>1 DEF CreatorInv
  <2>. QED  BY <2>1, <2>2
<1>7. DeleterInv' /\ FreedInv' /\ NotesTornOnlyByExport' /\ RowHasDirectory'
  BY <1>1, <1>2, <1>4 DEF DeleterInv, FreedInv, HasVideo, NotesTornOnlyByExport, RowHasDirectory
<1>8. StrayDirectoriesExplained'
  <2>1. ASSUME NEW d \in InFlight, call[d].pc \in {"create_row", "undo_dir", "delete_dir"}
        PROVE  call'[d] = call[d] /\ d \in InFlight'
    BY <1>1, <1>4, <2>1 DEF InFlight
  <2>. QED  BY <1>1, <2>1 DEF StrayDirectoriesExplained
<1>. QED  BY <1>5, <1>6, <1>7, <1>8

LEMMA CreateDirPreserves ==
  ASSUME IInv, NEW c \in Calls, CreateDir(c)
  PROVE  IInv'
<1> USE DEF IInv
<1> DEFINE m == call[c].m
<1>1. /\ call[c].pc = "create_dir" /\ m \in Meetings /\ UNCHANGED <<rows, stray, torn>>
      /\ dir' = [dir EXCEPT ![m] = NewDir]
  BY DEF CreateDir, At, TypeInv
<1>2. call[c].reply \in Replies /\ call[c].reply # "Deleted"
  BY <1>1 DEF TypeInv, CallRecord, FreedInv
<1>3. Moves(c, "create_row", call[c].reply)
  BY GotoMoves DEF CreateDir, Places, Steps
<1>4. /\ NewDir \in Directories /\ NewDir # None /\ ~NewDir.video
      /\ NewDir.notes_md \notin {Empty, Torn}
  BY <1>1, DirectoryFacts, ValuesAreDistinct DEF NewDir
<1>5. /\ dir' \in [Meetings -> Directories \cup {None}] /\ dir'[m] = NewDir
      /\ \A x \in Meetings \ {m} : dir'[x] = dir[x]
  BY <1>1, <1>4 DEF TypeInv
<1>6. TypeInv'
  BY <1>1, <1>3, <1>5 DEF TypeInv, Moves
<1>7. CreatorInv'
  BY <1>1, <1>3, <1>4, <1>5 DEF CreatorInv, Creating, Outside, Moves, TypeInv
<1>8. DeleterInv'
  BY <1>1, <1>3 DEF DeleterInv, Moves
<1>9. FreedInv'
  BY <1>1, <1>2, <1>3, <1>4, <1>5 DEF FreedInv, HasVideo, Moves, TypeInv
<1>10. RowHasDirectory' /\ NotesTornOnlyByExport'
  BY <1>1, <1>4, <1>5 DEF RowHasDirectory, NotesTornOnlyByExport, TypeInv
<1>11. StrayDirectoriesExplained'
  <2>1. ASSUME NEW d \in InFlight, call[d].pc \in {"create_row", "undo_dir", "delete_dir"}
        PROVE  call'[d] = call[d] /\ d \in InFlight'
    BY <1>1, <1>3, <2>1 DEF InFlight, Moves
  <2>2. c \in InFlight' /\ call'[c].pc = "create_row" /\ call'[c].m = m
    BY <1>3 DEF InFlight, Moves, Steps
  <2>. QED  BY <1>1, <1>5, <2>1, <2>2 DEF StrayDirectoriesExplained
<1>. QED  BY <1>6, <1>7, <1>8, <1>9, <1>10, <1>11

\* A creation that failed half way is on record.
LEMMA CreateDirFailsPreserves ==
  ASSUME IInv, NEW c \in Calls, CreateDirFails(c)
  PROVE  IInv'
<1> DEFINE m == call[c].m
<1>1. call[c].pc = "create_dir" /\ m \in Meetings /\ UNCHANGED <<rows, torn>>
  BY DEF CreateDirFails, At, IInv, TypeInv
<1>2. KeepsDirectories
  <2>1. CASE UNCHANGED <<dir, stray>>
    BY <1>1, <2>1, Unchanged
  <2>2. CASE dir' = [dir EXCEPT ![m] = NewDir] /\ stray' = stray \cup {m}
    <3>1. NewDir \in Directories /\ ~NewDir.video /\ NewDir.notes_md \notin {Empty, Torn}
      BY <1>1, DirectoryFacts, ValuesAreDistinct DEF NewDir
    <3>. QED  BY <1>1, <2>2, <3>1, DirectoryChanges
  <2>. QED  BY <2>1, <2>2 DEF CreateDirFails
<1>3. Moves(c, "done", "Err")
  BY ReplyMoves DEF CreateDirFails, IInv, Replies
<1>. QED  BY <1>1, <1>2, <1>3, OrdinaryStep DEF Places, Steps, Replies, Creating, Outside

LEMMA CreateRowPreserves ==
  ASSUME IInv, NEW c \in Calls, CreateRow(c)
  PROVE  IInv'
<1> USE DEF IInv
<1> DEFINE m == call[c].m
<1>1. /\ call[c].pc = "create_row" /\ m \in Meetings /\ UNCHANGED <<dir, stray, torn>>
      /\ m \notin rows /\ dir[m] # None
      /\ \A d \in Calls \ {c} : call[d].m = m => call[d].pc \in Outside
  BY DEF CreateRow, At, TypeInv, CreatorInv, Creating
<1>2. call[c].reply \in Replies /\ call[c].reply # "Deleted"
  BY <1>1 DEF TypeInv, CallRecord, FreedInv
<1>3. PICK pc \in {"done", "gen_dir", "undo_dir"}, r \in Replies \ {"Deleted"} :
        /\ Moves(c, pc, r)
        /\ rows' = IF pc = "undo_dir" THEN rows ELSE rows \cup {m}
  <2>1. CASE Reply(c, "Ok") /\ rows' = rows \cup {m}
    <3>1. Moves(c, "done", "Ok")
      BY <2>1, ReplyMoves DEF Replies
    <3>. QED  BY <2>1, <3>1 DEF Replies
  <2>2. CASE Goto(c, "gen_dir") /\ rows' = rows \cup {m}
    <3>1. Moves(c, "gen_dir", call[c].reply)
      BY <2>2, GotoMoves DEF Places, Steps
    <3>. QED  BY <1>2, <2>2, <3>1
  <2>3. CASE Goto(c, "undo_dir") /\ UNCHANGED rows
    <3>1. Moves(c, "undo_dir", call[c].reply)
      BY <2>3, GotoMoves DEF Places, Steps
    <3>. QED  BY <1>2, <2>3, <3>1
  <2>. QED  BY <2>1, <2>2, <2>3 DEF CreateRow
<1>4. TypeInv'
  BY <1>1, <1>3 DEF TypeInv, Moves
<1>5. CreatorInv'
  BY <1>1, <1>3 DEF CreatorInv, Creating, Outside, Moves
<1>6. DeleterInv'
  BY <1>1, <1>3 DEF DeleterInv, Moves, Outside
<1>7. FreedInv'
  BY <1>1, <1>3 DEF FreedInv, HasVideo, Moves
<1>8. RowHasDirectory' /\ NotesTornOnlyByExport'
  BY <1>1, <1>3 DEF RowHasDirectory, NotesTornOnlyByExport
<1>9. StrayDirectoriesExplained'
  <2>1. ASSUME NEW d \in InFlight, d # c PROVE call'[d] = call[d] /\ d \in InFlight'
    BY <1>3, <2>1 DEF InFlight, Moves
  <2>2. pc = "undo_dir" => c \in InFlight' /\ call'[c].pc = "undo_dir" /\ call'[c].m = m
    BY <1>3 DEF InFlight, Moves, Steps
  <2>. QED  BY <1>1, <1>3, <2>1, <2>2 DEF StrayDirectoriesExplained
<1>. QED  BY <1>4, <1>5, <1>6, <1>7, <1>8, <1>9

\* What remove_dir_all leaves: nothing, or a part of it that is on record.
LEMMA RemoveDirAllFacts ==
  ASSUME IInv, NEW m \in Meetings, RemoveDirAll(m), UNCHANGED torn
  PROVE  /\ dir' \in [Meetings -> Directories \cup {None}]
         /\ stray \subseteq stray'
         /\ \A x \in Meetings \ {m} : dir'[x] = dir[x]
         /\ dir'[m] # None => m \in stray'
         /\ HasVideo(m)' => HasVideo(m)
         /\ NotesTornOnlyByExport'
<1> USE DEF IInv
<1>1. CASE dir' = [dir EXCEPT ![m] = None] /\ UNCHANGED stray
  BY <1>1 DEF TypeInv, HasVideo, NotesTornOnlyByExport
<1>2. CASE /\ dir[m] # None
           /\ \E d \in Remaining(dir[m]) : dir' = [dir EXCEPT ![m] = d]
           /\ stray' = stray \cup {m}
  <2>1. PICK d \in Remaining(dir[m]) : dir' = [dir EXCEPT ![m] = d]
    BY <1>2
  <2>2. /\ dir[m].notes_md \in Texts /\ dir[m].writers \in SUBSET Calls
        /\ dir[m].partials \in SUBSET Calls /\ dir[m].video \in BOOLEAN
    BY <1>2, DirectoryFacts
  <2>3. PICK t \in {dir[m].notes_md, None}, p \in SUBSET dir[m].partials,
             v \in {dir[m].video, FALSE} :
          d = [notes_md |-> t, writers |-> IF t = None THEN {} ELSE dir[m].writers,
               partials |-> p, video |-> v]
    BY DEF Remaining
  <2>4. /\ d \in Directories /\ d.notes_md = t /\ d.video = v
        /\ t # None => d.writers = dir[m].writers
    <3> DEFINE w == IF t = None THEN {} ELSE dir[m].writers
    <3>1. w \in SUBSET Calls /\ (t # None => w = dir[m].writers)
      BY <2>2
    <3>2. d = [notes_md |-> t, writers |-> w, partials |-> p, video |-> v]
      BY <2>3
    <3>3. t \in Texts /\ p \in SUBSET Calls /\ v \in BOOLEAN
      BY <2>2 DEF Texts
    <3> HIDE DEF w
    <3>. QED  BY <3>1, <3>2, <3>3 DEF Directories, Texts
  <2>5. t \in {Empty, Torn} => d.writers # {} \/ m \in torn
    BY <1>2, <2>4, ValuesAreDistinct DEF NotesTornOnlyByExport
  <2>6. dir'[m] = d /\ \A x \in Meetings \ {m} : dir'[x] = dir[x]
    BY <2>1 DEF TypeInv
  <2>7. HasVideo(m)' => HasVideo(m)
    BY <1>2, <2>2, <2>4, <2>6 DEF HasVideo
  <2>8. NotesTornOnlyByExport'
    BY <2>4, <2>5, <2>6 DEF NotesTornOnlyByExport
  <2>. QED  BY <1>2, <2>1, <2>4, <2>6, <2>7, <2>8 DEF TypeInv
<1>. QED  BY <1>1, <1>2 DEF RemoveDirAll

\* The directory goes after, or without, its row.
LEMMA RemovalPreserves ==
  ASSUME IInv, NEW c \in Calls, UndoDir(c) \/ DeleteDir(c)
  PROVE  IInv'
<1> USE DEF IInv
<1> DEFINE m == call[c].m
<1>1. /\ call[c].pc \in {"undo_dir", "delete_dir"} /\ m \in Meetings /\ m \notin rows
      /\ UNCHANGED <<rows, torn>> /\ RemoveDirAll(m)
  BY DEF UndoDir, DeleteDir, At, TypeInv, CreatorInv, Creating, DeleterInv
<1>2. PICK r \in {"Err", "Ok"} : Moves(c, "done", r)
  BY ReplyMoves DEF UndoDir, DeleteDir, Replies
<1>3. /\ dir' \in [Meetings -> Directories \cup {None}]
      /\ stray \subseteq stray'
      /\ \A x \in Meetings \ {m} : dir'[x] = dir[x]
      /\ dir'[m] # None => m \in stray'
      /\ \A x \in Meetings : HasVideo(x)' => HasVideo(x)
      /\ NotesTornOnlyByExport'
  <2>1. \A x \in Meetings \ {m} : HasVideo(x)' => HasVideo(x)
    BY <1>1, RemoveDirAllFacts DEF HasVideo
  <2>2. ASSUME NEW x \in Meetings, x = m PROVE HasVideo(x)' => HasVideo(x)
    BY <1>1, <2>2, RemoveDirAllFacts
  <2>. QED  BY <1>1, <2>1, <2>2, RemoveDirAllFacts
<1>4. TypeInv'
  BY <1>1, <1>2, <1>3 DEF TypeInv, Moves
<1>5. CreatorInv'
  <2>1. ASSUME NEW d \in Calls \ {c}, call[d].pc \in Creating PROVE call[d].m # m
    BY <1>1, <2>1 DEF CreatorInv, Outside, Creating
  <2>. QED  BY <1>1, <1>2, <1>3, <2>1 DEF CreatorInv, Creating, Outside, Moves, TypeInv
<1>6. DeleterInv'
  BY <1>1, <1>2 DEF DeleterInv, Moves
<1>7. FreedInv'
  BY <1>1, <1>2, <1>3 DEF FreedInv, Moves, TypeInv
<1>8. RowHasDirectory'
  BY <1>1, <1>3 DEF RowHasDirectory, TypeInv
<1>9. StrayDirectoriesExplained'
  <2>1. ASSUME NEW d \in InFlight, d # c PROVE call'[d] = call[d] /\ d \in InFlight'
    BY <1>2, <2>1 DEF InFlight, Moves
  <2>. QED  BY <1>1, <1>3, <2>1 DEF StrayDirectoriesExplained
<1>. QED  BY <1>3, <1>4, <1>5, <1>6, <1>7, <1>8, <1>9

LEMMA DeleteRowPreserves ==
  ASSUME IInv, NEW c \in Calls, DeleteRow(c)
  PROVE  IInv'
<1> USE DEF IInv
<1> DEFINE m == call[c].m
<1>1. /\ call[c].pc = "delete_row" /\ m \in Meetings /\ UNCHANGED <<dir, stray, torn>>
  BY DEF DeleteRow, At, TypeInv
<1>2. call[c].reply \in Replies /\ call[c].reply # "Deleted"
  BY <1>1 DEF TypeInv, CallRecord, FreedInv
<1>3. CASE m \notin rows
  <2>1. Moves(c, "done", "Err") /\ UNCHANGED rows
    BY <1>3, ReplyMoves DEF DeleteRow, Replies
  <2>. QED  BY <1>1, <2>1, Unchanged, OrdinaryStep DEF Places, Steps, Replies, Creating, Outside
<1>4. CASE m \in rows
  <2>1. Moves(c, "delete_dir", call[c].reply) /\ rows' = rows \ {m}
    BY <1>4, GotoMoves DEF DeleteRow, Places, Steps
  <2>2. TypeInv'
    BY <1>1, <2>1 DEF TypeInv, Moves
  <2>3. CreatorInv'
    BY <1>1, <1>4, <2>1 DEF CreatorInv, Creating, Outside, Moves
  <2>4. DeleterInv'
    BY <1>1, <2>1 DEF DeleterInv, Moves
  <2>5. FreedInv'
    BY <1>1, <1>2, <2>1 DEF FreedInv, HasVideo, Moves
  <2>6. RowHasDirectory' /\ NotesTornOnlyByExport'
    BY <1>1, <2>1 DEF RowHasDirectory, NotesTornOnlyByExport
  <2>7. StrayDirectoriesExplained'
    <3>1. ASSUME NEW d \in InFlight, d # c PROVE call'[d] = call[d] /\ d \in InFlight'
      BY <2>1, <3>1 DEF InFlight, Moves
    <3>2. c \in InFlight' /\ call'[c].pc = "delete_dir" /\ call'[c].m = m
      BY <2>1 DEF InFlight, Moves, Steps
    <3>. QED  BY <1>1, <2>1, <3>1, <3>2 DEF StrayDirectoriesExplained
  <2>. QED  BY <2>2, <2>3, <2>4, <2>5, <2>6, <2>7
<1>. QED  BY <1>3, <1>4

LEMMA CrashPreserves ==
  ASSUME IInv, Crash
  PROVE  IInv'
<1> USE DEF IInv
<1>1. ASSUME NEW c \in Calls
      PROVE  /\ call'[c] \in CallRecord /\ call'[c].m = call[c].m
             /\ call'[c].reply = call[c].reply
             /\ call'[c].pc = IF call[c].pc \in Steps THEN "lost" ELSE call[c].pc
  <2> DEFINE r == [call[c] EXCEPT !.pc = "lost"]
  <2>1. /\ r \in CallRecord /\ r.pc = "lost" /\ r.m = call[c].m /\ r.reply = call[c].reply
    BY DEF TypeInv, CallRecord, Places
  <2>2. call'[c] = IF call[c].pc \in Steps THEN r ELSE call[c]
    BY DEF Crash, InFlight
  <2> HIDE DEF r
  <2>. QED  BY <2>1, <2>2 DEF TypeInv
<1>2. call' \in [Calls -> CallRecord]
  BY <1>1 DEF Crash
<1>3. ASSUME NEW m \in Meetings
      PROVE  /\ dir'[m] \in Directories \cup {None}
             /\ dir[m] = None <=> dir'[m] = None
             /\ dir[m] # None => /\ dir'[m].notes_md = dir[m].notes_md
                                 /\ dir'[m].video = dir[m].video
                                 /\ dir[m].writers # {} => m \in torn'
  <2> DEFINE d == [dir[m] EXCEPT !.writers = {}]
  <2>1. dir[m] # None => /\ d \in Directories /\ d.notes_md = dir[m].notes_md
                         /\ d.video = dir[m].video
    BY DirectoryFacts DEF Directories
  <2>2. dir'[m] = IF dir[m] = None THEN None ELSE d
    BY DEF Crash
  <2> HIDE DEF d
  <2>. QED  BY <2>1, <2>2, NoneIsNoDirectory DEF Crash
<1>4. /\ UNCHANGED rows /\ torn \subseteq torn' /\ dir' \in [Meetings -> Directories \cup {None}]
      /\ \A m \in Meetings \ rows : dir[m] # None => m \in stray'
  BY <1>3 DEF Crash
<1>5. TypeInv'
  BY <1>1, <1>2, <1>4 DEF TypeInv, Steps
<1>6. CreatorInv' /\ DeleterInv'
  BY <1>1 DEF CreatorInv, DeleterInv, Creating, Steps
<1>7. FreedInv'
  BY <1>1, <1>3 DEF FreedInv, HasVideo, TypeInv, Steps
<1>8. RowHasDirectory' /\ StrayDirectoriesExplained' /\ NotesTornOnlyByExport'
  BY <1>3, <1>4 DEF RowHasDirectory, StrayDirectoriesExplained, NotesTornOnlyByExport, TypeInv
<1>. QED  BY <1>5, <1>6, <1>7, <1>8

-----------------------------------------------------------------------------
LEMMA Initially == Init => IInv
<1> SUFFICES ASSUME Init PROVE IInv
  OBVIOUS
<1>1. PICK v \in SUBSET rows :
        dir = [m \in Meetings |-> IF m \in rows THEN [NewDir EXCEPT !.video = m \in v] ELSE None]
  BY DEF Init
<1>2. ASSUME NEW m \in rows
      PROVE  /\ dir[m] \in Directories /\ dir[m] # None /\ dir[m].notes_md = None
  <2> DEFINE b == m \in v
  <2>1. b \in BOOLEAN
    OBVIOUS
  <2>2. dir[m] = [NewDir EXCEPT !.video = b]
    BY <1>1 DEF Init
  <2> HIDE DEF b
  <2>3. dir[m] \in Directories /\ dir[m].notes_md = None
    BY <2>1, <2>2 DEF NewDir, Directories
  <2>. QED  BY <2>3, NoneIsNoDirectory
<1>3. TypeInv
  <2>1. \A m \in Meetings \ rows : dir[m] = None
    BY <1>1
  <2>2. dir \in [Meetings -> Directories \cup {None}]
    BY <1>1, <1>2, <2>1
  <2>3. Unused \in CallRecord /\ Unused.pc = "idle"
    BY DEF Unused, CallRecord, Places, Texts, Replies
  <2>. QED  BY <2>2, <2>3 DEF Init, TypeInv
<1>4. \A c \in Calls : call[c].pc = "idle" /\ call[c].reply = "none"
  BY DEF Init, Unused
<1>5. CreatorInv /\ DeleterInv /\ FreedInv
  BY <1>4 DEF CreatorInv, DeleterInv, FreedInv, Creating
<1>6. RowHasDirectory /\ StrayDirectoriesExplained /\ NotesTornOnlyByExport
  BY <1>1, <1>2, ValuesAreDistinct
     DEF RowHasDirectory, StrayDirectoriesExplained, NotesTornOnlyByExport, Init
<1>. QED  BY <1>3, <1>5, <1>6 DEF IInv

LEMMA Inductive == IInv /\ [Next]_vars => IInv'
<1> SUFFICES ASSUME IInv, [Next]_vars PROVE IInv'
  OBVIOUS
<1>1. CASE UNCHANGED vars
  BY <1>1 DEF vars, IInv, TypeInv, CreatorInv, DeleterInv, FreedInv, HasVideo, RowHasDirectory,
              StrayDirectoriesExplained, NotesTornOnlyByExport, InFlight
<1>2. ASSUME NEW c \in Calls, Step(c) PROVE IInv'
  <2>1. CASE \/ Lookup(c, "delete_lookup", "delete_row") \/ Lookup(c, "video_lookup", "video_stat")
             \/ Lookup(c, "save_lookup", "save_write") \/ Lookup(c, "gen_lookup", "gen_dir")
    BY <2>1, LookupPreserves DEF Outside
  <2>2. CASE \E pc \in {"delete_row", "video_stat", "video_remove", "save_rename", "save_row",
                        "gen_dir", "gen_export", "gen_shots", "gen_open"} : Fail(c, pc)
    BY <2>2, FailPreserves
  <2>. QED  BY <1>2, <2>1, <2>2, CreateDirPreserves, CreateDirFailsPreserves, CreateRowPreserves, RemovalPreserves,
               DeleteRowPreserves, VideoStatPreserves, VideoRemovePreserves, SavePreserves,
               GeneratePreserves DEF Step
<1>. QED  BY <1>1, <1>2, BeginPreserves, CrashPreserves DEF Next

\* A meeting in the registry has its directory, whatever calls overlap and
\* wherever the engine was killed.
THEOREM RowsHaveDirectories == Spec => []RowHasDirectory
<1>1. IInv => RowHasDirectory
  BY DEF IInv
<1>. QED  BY <1>1, Initially, Inductive, PTL DEF Spec

\* A directory without a row is being made or removed, or its being left over
\* is on record.
THEOREM StraysAreExplained == Spec => []StrayDirectoriesExplained
<1>1. IInv => StrayDirectoriesExplained
  BY DEF IInv
<1>. QED  BY <1>1, Initially, Inductive, PTL DEF Spec

\* notes.save never leaves a notes.md that is incomplete, and nobody but an
\* export does.
THEOREM SaveTearsNoNotes == Spec => []NotesTornOnlyByExport
<1>1. IInv => NotesTornOnlyByExport
  BY DEF IInv
<1>. QED  BY <1>1, Initially, Inductive, PTL DEF Spec

\* Of any number of overlapping meeting.deleteVideo calls one at most reports
\* the bytes of the recording as freed.
THEOREM VideoIsFreedOnce == Spec => []VideoFreedOnce
<1>1. IInv => VideoFreedOnce
  <2> SUFFICES ASSUME IInv, NEW m \in Meetings
               PROVE  LET freed == {c \in Calls : call[c].m = m /\ call[c].reply = "Deleted"}
                      IN  Cardinality(freed) <= 1 /\ (freed # {} => ~HasVideo(m))
    BY DEF VideoFreedOnce
  <2> DEFINE freed == {c \in Calls : call[c].m = m /\ call[c].reply = "Deleted"}
  <2>1. \A c, d \in freed : c = d
    BY DEF IInv, FreedInv
  <2>2. freed # {} => ~HasVideo(m)
    BY DEF IInv, FreedInv
  <2>3. freed = {} \/ \E c \in freed : freed = {c}
    BY <2>1
  <2> HIDE DEF freed
  <2>4. freed = {} => Cardinality(freed) = 0
    BY FS_EmptySet
  <2>5. \A c : freed = {c} => Cardinality(freed) = 1
    BY FS_Singleton
  <2>6. Cardinality(freed) \in {0, 1}
    BY <2>3, <2>4, <2>5
  <2>7. Cardinality(freed) <= 1
    BY <2>6
  <2>. QED  BY <2>2, <2>7 DEF freed
<1>. QED  BY <1>1, Initially, Inductive, PTL DEF Spec

================================================================================
