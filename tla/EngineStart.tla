----------------------------- MODULE EngineStart -----------------------------
(***************************************************************************)
(* An engine from its start to its socket: run_serve                       *)
(* (crates/panops-engine/src/server/mod.rs) opens the registry file before *)
(* it binds, so a second engine works on the file of the first one before  *)
(* the socket refuses it.  RusqliteStorage::new                            *)
(* (crates/panops-portable/src/rusqlite_storage.rs) creates or migrates    *)
(* the schema statement by statement, each committed on its own, and a     *)
(* process may be killed between any two of them.                          *)
(*                                                                         *)
(* The file is its user_version and the set of tables, indexes and added   *)
(* columns it holds.                                                       *)
(***************************************************************************)
EXTENDS SocketLifecycle, SequencesExt

VARIABLES
  db,       \* [version, objects]
  todo,     \* per engine, the statements it has still to run; <<"closed">> without
            \* a connection and <<>> once the storage is open
  read,     \* per engine, whether column_exists found the column
  lone      \* history: the engine, if any, that has met no other process

dbVars == <<db, todo, read, lone>>
allVars == <<vars, dbVars>>

EXPECTED_SCHEMA_VERSION == 2
MeetingColumns == {"space_id", "project_id"}
V1Objects == {"meeting", "idx_meeting_started_at", "note", "idx_note_meeting_id"}
V2Tables == <<"space", "project", "tag", "meeting_tag">>
FullSchema == V1Objects \cup ToSet(V2Tables) \cup MeetingColumns

Stamp == <<"user_version">>

DDL ==
  <<"meeting", "idx_meeting_started_at", "note", "idx_note_meeting_id">> \o V2Tables

\* Every column is looked for and then, if need be, added.
migrate_v1_to_v2 ==
  V2Tables \o <<"find_space_id", "space_id", "find_project_id", "project_id">>

\* The version stamped before the schema is there.
ProgramStampsFirst(version) ==
  CASE version = 0 -> Stamp \o DDL
    [] version = 1 -> Stamp \o migrate_v1_to_v2
    [] version = EXPECTED_SCHEMA_VERSION -> <<>>
    [] OTHER -> <<"closed">>

\* What new() runs after it has read user_version; SchemaMismatch closes.
Program(version) ==
  CASE version = 0 -> DDL \o Stamp
    [] version = 1 -> migrate_v1_to_v2 \o Stamp
    [] version = EXPECTED_SCHEMA_VERSION -> <<>>
    [] OTHER -> <<"closed">>

Closed(e) == todo[e] = <<"closed">>
Open(e) == todo[e] = <<>>
Opening(e) == ~Closed(e) /\ ~Open(e)

StartInit ==
  /\ Init
  /\ db \in {[version |-> 0, objects |-> {}],
             [version |-> 1, objects |-> V1Objects],
             [version |-> EXPECTED_SCHEMA_VERSION, objects |-> FullSchema],
             [version |-> EXPECTED_SCHEMA_VERSION + 1, objects |-> FullSchema]}
  /\ todo = [e \in Engines |-> <<"closed">>]
  /\ read = [e \in Engines |-> FALSE]
  /\ lone = {}

\* run_serve up to Connection::open.
StartProcess(e) ==
  /\ pc[e] = "off" /\ Closed(e)
  /\ todo' = [todo EXCEPT ![e] = <<"read_version">>]
  /\ lone' = IF \A o \in Engines : pc[o] = "off" /\ Closed(o) THEN {e} ELSE {}
  /\ UNCHANGED <<vars, db, read>>

ReadVersion(e) ==
  /\ todo[e] = <<"read_version">>
  /\ todo' = [todo EXCEPT ![e] = Program(db.version)]
  /\ UNCHANGED <<vars, db, read, lone>>

\* PRAGMA table_info.
column_exists(e) ==
  /\ Opening(e) /\ Head(todo[e]) \in {"find_space_id", "find_project_id"}
  /\ read' = [read EXCEPT ![e] = todo[e][2] \in db.objects]
  /\ todo' = [todo EXCEPT ![e] = Tail(@)]
  /\ UNCHANGED <<vars, db, lone>>

\* ALTER TABLE tried whether or not the column was found.
AddColumnBlindly(e) ==
  /\ Opening(e) /\ Head(todo[e]) \in MeetingColumns
  /\ IF Head(todo[e]) \in db.objects
     THEN todo' = [todo EXCEPT ![e] = <<"closed">>] /\ UNCHANGED db
     ELSE /\ db' = [db EXCEPT !.objects = @ \cup {Head(todo[e])}]
          /\ todo' = [todo EXCEPT ![e] = Tail(@)]
  /\ UNCHANGED <<vars, read, lone>>

\* ALTER TABLE fails when another process has added the column meanwhile.
AddColumn(e) ==
  /\ Opening(e) /\ Head(todo[e]) \in MeetingColumns
  /\ \/ read[e] /\ todo' = [todo EXCEPT ![e] = Tail(@)] /\ UNCHANGED db
     \/ /\ ~read[e] /\ Head(todo[e]) \notin db.objects
        /\ db' = [db EXCEPT !.objects = @ \cup {Head(todo[e])}]
        /\ todo' = [todo EXCEPT ![e] = Tail(@)]
     \/ /\ ~read[e] /\ Head(todo[e]) \in db.objects
        /\ todo' = [todo EXCEPT ![e] = <<"closed">>]
        /\ UNCHANGED db
  /\ UNCHANGED <<vars, read, lone>>

\* CREATE ... IF NOT EXISTS; a new meeting table has the columns of today.
CreateObject(e) ==
  /\ Opening(e) /\ Head(todo[e]) \in V1Objects \cup ToSet(V2Tables)
  /\ db' = [db EXCEPT !.objects =
       @ \cup {Head(todo[e])}
         \cup IF Head(todo[e]) = "meeting" /\ "meeting" \notin @ THEN MeetingColumns ELSE {}]
  /\ todo' = [todo EXCEPT ![e] = Tail(@)]
  /\ UNCHANGED <<vars, read, lone>>

\* PRAGMA user_version = 2.
StampVersion(e) ==
  /\ Opening(e) /\ Head(todo[e]) = "user_version"
  /\ db' = [db EXCEPT !.version = EXPECTED_SCHEMA_VERSION]
  /\ todo' = [todo EXCEPT ![e] = Tail(@)]
  /\ UNCHANGED <<vars, read, lone>>

\* A statement fails (disk full, file locked for too long): new() returns the
\* error, run_serve exits, the connection is closed.
OpenFails(e) ==
  /\ Opening(e)
  /\ todo' = [todo EXCEPT ![e] = <<"closed">>]
  /\ UNCHANGED <<vars, db, read, lone>>

\* The storage is open: the runtimes are built and the socket comes next.
\* Leaving it for good ends the process and closes the connection.
SocketSteps(e) ==
  /\ Open(e)
  /\ \/ Start(e) \/ PathExists(e) \/ Probe(e) \/ UnlinkStale(e) \/ Bind(e)
     \/ Chmod(e) \/ UndoBind(e) \/ Shutdown(e) \/ RemoveSocket(e) \/ Exit(e)
  /\ todo' = [todo EXCEPT ![e] = IF pc'[e] = "off" THEN <<"closed">> ELSE @]
  /\ UNCHANGED <<db, read, lone>>

\* SIGKILL: a committed statement stays, the rest is not run.
Killed(e) ==
  /\ ~Closed(e)
  /\ IF pc[e] = "off" THEN UNCHANGED vars ELSE Crash(e)
  /\ todo' = [todo EXCEPT ![e] = <<"closed">>]
  /\ UNCHANGED <<db, read, lone>>

StartNext ==
  \E e \in Engines :
    \/ StartProcess(e) \/ ReadVersion(e) \/ column_exists(e) \/ AddColumn(e)
    \/ CreateObject(e) \/ StampVersion(e) \/ OpenFails(e)
    \/ SocketSteps(e) \/ Killed(e)

StartSpec == StartInit /\ [][StartNext]_allVars

-----------------------------------------------------------------------------
\* A file stamped with the current version has the whole schema, and so has the
\* file of every engine whose storage is open: no crash in the middle of the
\* DDL or of the migration, and no second engine at work on the same file, lets
\* an engine serve on a schema that misses a table or a column.
OpenSchemaComplete ==
  \/ db.version = EXPECTED_SCHEMA_VERSION + 1
  \/ db.version = EXPECTED_SCHEMA_VERSION \/ (\E e \in Engines : Open(e))
       => FullSchema \subseteq db.objects

\* Recovery on restart: an engine that meets no other process gets to serve,
\* whatever crashed starts left behind, the registry file half created or half
\* migrated, the socket of a killed engine or a regular file in its place.  It
\* gives up only on a registry of another version, an I/O error, a signal or
\* permissions it cannot set.
LoneEngineRecovers ==
  [][\A e \in lone :
       \/ db.version = EXPECTED_SCHEMA_VERSION + 1
       \/ /\ ReadVersion(e) \/ column_exists(e) \/ AddColumn(e) \/ CreateObject(e)
               => ~Closed(e)'
          /\ PathExists(e) \/ Probe(e) \/ UnlinkStale(e) \/ Bind(e) => pc'[e] # "off"]_allVars

=============================================================================
