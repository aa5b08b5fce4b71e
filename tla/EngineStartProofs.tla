--------------------------- MODULE EngineStartProofs ---------------------------
(***************************************************************************)
(* Theorems about EngineStart, for any number of engines and inodes.       *)
(*                                                                         *)
(* What the registry file holds when an engine has opened it is proved     *)
(* from where every engine is in its program (Working): the statements     *)
(* behind it have left their objects in the file, whoever ran them.  That  *)
(* the serving engine owns its path rests on RivalInv: whoever is about to *)
(* remove the name has no engine beside it that counts on the name, unless *)
(* that engine is on record as a rival.                                    *)
(***************************************************************************)
EXTENDS EngineStart, SequenceTheorems, FiniteSetTheorems, TLAPS

\* The programs of a new file and of one of version 1, statement by statement.
Create ==
  <<"meeting", "idx_meeting_started_at", "note", "idx_note_meeting_id",
    "space", "project", "tag", "meeting_tag", "user_version">>
Migrate ==
  <<"space", "project", "tag", "meeting_tag", "find_space_id", "space_id",
    "find_project_id", "project_id", "user_version">>

Statements ==
  {"meeting", "idx_meeting_started_at", "note", "idx_note_meeting_id",
   "space", "project", "tag", "meeting_tag", "find_space_id", "space_id",
   "find_project_id", "project_id", "user_version"}

Places == {"off", "exists", "probe", "unlink", "bind", "chmod", "undo",
           "serving", "stopping", "closing"}

TypeInv ==
  /\ path \in Inodes \cup {RegularFile, None}
  /\ listener \in [Engines -> Inodes \cup {None}]
  /\ pc \in [Engines -> Places]
  /\ db \in [version : 0 .. 3, objects : SUBSET FullSchema]
  /\ todo \in [Engines -> Seq(Statements \cup {"closed", "read_version"})]
  /\ read \in [Engines -> BOOLEAN]
  /\ lone \in SUBSET Engines

\* What the version says of the file.
FileInv ==
  /\ db.version # 0 => V1Objects \subseteq db.objects
  /\ db.version # 1 /\ "meeting" \in db.objects => MeetingColumns \subseteq db.objects
  /\ db.version = 2 => FullSchema \subseteq db.objects

\* Engine e is about to run statement k of P, or has run all of it at k = 10.
At(e, P, k) ==
  /\ todo[e] = SubSeq(P, k, 9)
  /\ \A i \in 1 .. k - 1 : P[i] \in FullSchema => P[i] \in db.objects
  /\ db.version # 3
  /\ k = 10 => db.version = 2

Creates(e, k) ==
  At(e, Create, k) /\ db.version # 1 /\ (k > 1 => MeetingColumns \subseteq db.objects)
Migrates(e, k) ==
  At(e, Migrate, k) /\ db.version # 0
    /\ ((k = 6 \/ k = 8) /\ read[e] => Migrate[k] \in db.objects)

Working(e) == \E k \in 1 .. 10 : Creates(e, k) \/ Migrates(e, k)

WorkInv ==
  \A e \in Engines : Closed(e) \/ todo[e] = <<"read_version">> \/ Working(e)

ReadIsTrue(e) ==
  Opening(e) /\ Head(todo[e]) \in MeetingColumns /\ Head(todo[e]) \in db.objects => read[e]
PathIsAsSeen(e) ==
  /\ pc[e] \in {"probe", "unlink"} => path # None
  /\ pc[e] = "bind" => path = None

\* An engine that has met nobody is alone, read the file as it is and finds the
\* path as it looked.
LoneInv ==
  /\ \A e \in lone, o \in Engines : o # e => pc[o] = "off" /\ Closed(o)
  /\ \A e \in lone : ReadIsTrue(e) /\ PathIsAsSeen(e)

ListenerInv ==
  \A e \in Engines : listener[e] # None => pc[e] \in {"chmod", "serving", "stopping", "closing"}

IInv == TypeInv /\ FileInv /\ WorkInv /\ LoneInv /\ ListenerInv

\* Engines that count on the path being theirs.
Owners == {"chmod", "serving", "stopping"}

\* Beside a rival there are only rivals; an engine about to remove the name by
\* name has only rivals beside it; no inode has two listeners.
RivalInv ==
  /\ rivals # {} => \A e \in Engines : pc[e] \in Owners => e \in rivals
  /\ \A o, e \in Engines :
       o # e /\ pc[o] \in {"unlink", "undo"} /\ pc[e] \in Owners => e \in rivals
  /\ \A e, o \in Engines : listener[e] # None /\ listener[e] = listener[o] => e = o

-----------------------------------------------------------------------------
LEMMA SchemaFacts ==
  /\ MeetingColumns = {"space_id", "project_id"}
  /\ V1Objects = {"meeting", "idx_meeting_started_at", "note", "idx_note_meeting_id"}
  /\ ToSet(V2Tables) = {"space", "project", "tag", "meeting_tag"}
  /\ FullSchema = V1Objects \cup ToSet(V2Tables) \cup MeetingColumns
<1>1. ToSet(V2Tables) = {"space", "project", "tag", "meeting_tag"}
  <2>1. DOMAIN V2Tables = {1, 2, 3, 4}
    BY DEF V2Tables
  <2>2. V2Tables[1] = "space" /\ V2Tables[2] = "project" /\ V2Tables[3] = "tag"
          /\ V2Tables[4] = "meeting_tag"
    BY DEF V2Tables
  <2>. QED  BY <2>1, <2>2 DEF ToSet
<1>. QED  BY <1>1 DEF MeetingColumns, V1Objects, FullSchema

\* A program is put together from two lists of four and the stamp.
LEMMA ThreeParts ==
  ASSUME NEW a \in Seq(Statements), NEW b \in Seq(Statements), NEW c \in Seq(Statements),
         NEW P \in Seq(Statements), Len(a) = 4, Len(b) = 4, Len(c) = 1, Len(P) = 9,
         \A i \in 1 .. 9 : P[i] = IF i <= 4 THEN a[i] ELSE IF i <= 8 THEN b[i - 4] ELSE c[i - 8]
  PROVE  (a \o b) \o c = P
<1>1. /\ a \o b \in Seq(Statements) /\ Len(a \o b) = 8
      /\ \A i \in 1 .. 8 : (a \o b)[i] = IF i <= 4 THEN a[i] ELSE b[i - 4]
  <2>1. /\ a \o b \in Seq(Statements) /\ Len(a \o b) = Len(a) + Len(b)
        /\ \A i \in 1 .. Len(a) + Len(b) :
             (a \o b)[i] = IF i <= Len(a) THEN a[i] ELSE b[i - Len(a)]
    BY ConcatProperties
  <2>. QED  BY <2>1
<1> DEFINE ab == a \o b
<1>2. /\ ab \o c \in Seq(Statements) /\ Len(ab \o c) = 9
      /\ \A i \in 1 .. 9 : (ab \o c)[i] = IF i <= 8 THEN ab[i] ELSE c[i - 8]
  <2>1. ab \in Seq(Statements) /\ Len(ab) = 8
    BY <1>1
  <2> HIDE DEF ab
  <2>2. /\ ab \o c \in Seq(Statements) /\ Len(ab \o c) = Len(ab) + Len(c)
        /\ \A i \in 1 .. Len(ab) + Len(c) :
             (ab \o c)[i] = IF i <= Len(ab) THEN ab[i] ELSE c[i - Len(ab)]
    BY <2>1, ConcatProperties
  <2>. QED  BY <2>1, <2>2
<1>3. \A i \in 1 .. 9 : ((a \o b) \o c)[i] = P[i]
  BY <1>1, <1>2
<1>. QED  BY <1>2, <1>3, SeqEqual

LEMMA ProgramFacts ==
  /\ Create \in Seq(Statements) /\ Len(Create) = 9
  /\ Migrate \in Seq(Statements) /\ Len(Migrate) = 9
  /\ Program(0) = SubSeq(Create, 1, 9)
  /\ Program(1) = SubSeq(Migrate, 1, 9)
  /\ Program(2) = <<>>
  /\ Program(3) = <<"closed">>
<1>1. Create \in Seq(Statements) /\ Len(Create) = 9
  BY DEF Create, Statements
<1>2. Migrate \in Seq(Statements) /\ Len(Migrate) = 9
  BY DEF Migrate, Statements
<1>3. SubSeq(Create, 1, 9) = Create /\ SubSeq(Migrate, 1, 9) = Migrate
  BY <1>1, <1>2, SubSeqFull
<1> DEFINE v1 == <<"meeting", "idx_meeting_started_at", "note", "idx_note_meeting_id">>
           columns == <<"find_space_id", "space_id", "find_project_id", "project_id">>
<1>4. Program(0) = Create
  <2>1. /\ v1 \in Seq(Statements) /\ V2Tables \in Seq(Statements) /\ Stamp \in Seq(Statements)
        /\ Len(v1) = 4 /\ Len(V2Tables) = 4 /\ Len(Stamp) = 1
    BY DEF Statements, V2Tables, Stamp
  <2>2. Program(0) = (v1 \o V2Tables) \o Stamp
    <3>1. Program(0) = DDL \o Stamp
      BY DEF Program, EXPECTED_SCHEMA_VERSION
    <3>2. DDL = v1 \o V2Tables
      BY DEF DDL
    <3>. QED  BY <3>1, <3>2
  <2>3. \A i \in 1 .. 9 : Create[i] = IF i <= 4 THEN v1[i] ELSE IF i <= 8 THEN V2Tables[i - 4]
                                      ELSE Stamp[i - 8]
    BY DEF Create, V2Tables, Stamp
  <2>. QED  BY <1>1, <2>1, <2>2, <2>3, ThreeParts
<1>5. Program(1) = Migrate
  <2>1. /\ V2Tables \in Seq(Statements) /\ columns \in Seq(Statements) /\ Stamp \in Seq(Statements)
        /\ Len(V2Tables) = 4 /\ Len(columns) = 4 /\ Len(Stamp) = 1
    BY DEF Statements, V2Tables, Stamp
  <2>2. Program(1) = (V2Tables \o columns) \o Stamp
    <3>1. Program(1) = migrate_v1_to_v2 \o Stamp
      BY DEF Program, EXPECTED_SCHEMA_VERSION
    <3>2. migrate_v1_to_v2 = V2Tables \o columns
      BY DEF migrate_v1_to_v2
    <3>. QED  BY <3>1, <3>2
  <2>3. \A i \in 1 .. 9 : Migrate[i] = IF i <= 4 THEN V2Tables[i] ELSE IF i <= 8 THEN columns[i - 4]
                                       ELSE Stamp[i - 8]
    <3>1. /\ \A i \in 1 .. 4 : Migrate[i] = V2Tables[i]
          /\ \A i \in 5 .. 8 : Migrate[i] = columns[i - 4]
          /\ Migrate[9] = Stamp[1]
      BY DEF Migrate, V2Tables, Stamp
    <3> HIDE DEF columns
    <3>. QED  BY <3>1
  <2>. QED  BY <1>2, <2>1, <2>2, <2>3, ThreeParts
<1>6. Program(2) = <<>> /\ Program(3) = <<"closed">>
  BY DEF Program, EXPECTED_SCHEMA_VERSION
<1>. QED  BY <1>1, <1>2, <1>3, <1>4, <1>5, <1>6

\* The statement at hand, and what is left once it has run.
LEMMA SuffixFacts ==
  ASSUME NEW P \in Seq(Statements), Len(P) = 9, NEW k \in 1 .. 10
  PROVE  /\ SubSeq(P, k, 9) \in Seq(Statements)
         /\ k = 10 => SubSeq(P, k, 9) = <<>>
         /\ k # 10 => /\ SubSeq(P, k, 9) # <<>>
                      /\ Head(SubSeq(P, k, 9)) = P[k]
                      /\ Tail(SubSeq(P, k, 9)) = SubSeq(P, k + 1, 9)
                      /\ k < 9 => SubSeq(P, k, 9)[2] = P[k + 1]
<1>2. ASSUME NEW i \in k .. 9 PROVE P[i] \in Statements
  <2>1. i \in 1 .. Len(P)
    OBVIOUS
  <2>. QED  BY <2>1, ElementOfSeq
<1>3. /\ SubSeq(P, k, 9) \in Seq(Statements)
      /\ Len(SubSeq(P, k, 9)) = IF k <= 9 THEN 9 - k + 1 ELSE 0
      /\ \A i \in 1 .. 9 - k + 1 : SubSeq(P, k, 9)[i] = P[k + i - 1]
  BY <1>2, SubSeqProperties
<1>4. k = 10 => SubSeq(P, k, 9) = <<>>
  BY SubSeqEmpty
<1>5. k # 10 => Head(SubSeq(P, k, 9)) = P[k] /\ Tail(SubSeq(P, k, 9)) = SubSeq(P, k + 1, 9)
  BY HeadTailOfSubSeq
<1>6. k # 10 => SubSeq(P, k, 9) # <<>>
  <2>1. Len(<<>>) = 0
    BY EmptySeq
  <2>2. k # 10 => Len(SubSeq(P, k, 9)) # 0
    BY <1>3
  <2>. QED  BY <2>1, <2>2
<1>. QED  BY <1>3, <1>4, <1>5, <1>6

LEMMA CreateSuffix ==
  \A k \in 1 .. 10 :
         /\ SubSeq(Create, k, 9) \in Seq(Statements)
         /\ k = 10 => SubSeq(Create, k, 9) = <<>>
         /\ k # 10 => /\ SubSeq(Create, k, 9) # <<>>
                      /\ Head(SubSeq(Create, k, 9)) = Create[k]
                      /\ Tail(SubSeq(Create, k, 9)) = SubSeq(Create, k + 1, 9)
                      /\ k < 9 => SubSeq(Create, k, 9)[2] = Create[k + 1]
<1>1. Create \in Seq(Statements) /\ Len(Create) = 9
  BY ProgramFacts
<1>. QED  BY <1>1, SuffixFacts

LEMMA MigrateSuffix ==
  \A k \in 1 .. 10 :
         /\ SubSeq(Migrate, k, 9) \in Seq(Statements)
         /\ k = 10 => SubSeq(Migrate, k, 9) = <<>>
         /\ k # 10 => /\ SubSeq(Migrate, k, 9) # <<>>
                      /\ Head(SubSeq(Migrate, k, 9)) = Migrate[k]
                      /\ Tail(SubSeq(Migrate, k, 9)) = SubSeq(Migrate, k + 1, 9)
                      /\ k < 9 => SubSeq(Migrate, k, 9)[2] = Migrate[k + 1]
<1>1. Migrate \in Seq(Statements) /\ Len(Migrate) = 9
  BY ProgramFacts
<1>. QED  BY <1>1, SuffixFacts

LEMMA CreateKinds ==
  \A k \in 1 .. 9 :
         /\ k < 9 => Create[k] \in V1Objects \cup ToSet(V2Tables)
         /\ k = 9 <=> Create[k] = "user_version"
         /\ k = 1 <=> Create[k] = "meeting"
         /\ Create[k] \notin MeetingColumns \cup {"find_space_id", "find_project_id"}
         /\ Create[k] \notin {"closed", "read_version"}
<1> TAKE k \in 1 .. 9
<1>1. k = 1 \/ k = 2 \/ k = 3 \/ k = 4 \/ k = 5 \/ k = 6 \/ k = 7 \/ k = 8 \/ k = 9
  OBVIOUS
<1>2. /\ Create[1] = "meeting" /\ Create[2] = "idx_meeting_started_at" /\ Create[3] = "note"
      /\ Create[4] = "idx_note_meeting_id" /\ Create[5] = "space" /\ Create[6] = "project"
      /\ Create[7] = "tag" /\ Create[8] = "meeting_tag" /\ Create[9] = "user_version"
  BY DEF Create
<1>3. k < 9 => Create[k] \in V1Objects \cup ToSet(V2Tables)
  BY <1>1, <1>2, SchemaFacts
<1>4. k = 9 <=> Create[k] = "user_version"
  BY <1>1, <1>2, SchemaFacts
<1>5. k = 1 <=> Create[k] = "meeting"
  BY <1>1, <1>2, SchemaFacts
<1>6. Create[k] \notin MeetingColumns \cup {"find_space_id", "find_project_id"}
  BY <1>1, <1>2, SchemaFacts
<1>7. Create[k] \notin {"closed", "read_version"}
  BY <1>1, <1>2, SchemaFacts
<1>. QED  BY <1>3, <1>4, <1>5, <1>6, <1>7

LEMMA MigrateKinds ==
  \A k \in 1 .. 9 :
         /\ k < 5 <=> Migrate[k] \in V1Objects \cup ToSet(V2Tables)
         /\ Migrate[k] \in {"find_space_id", "find_project_id"} => k = 5 \/ k = 7
         /\ k = 6 \/ k = 8 <=> Migrate[k] \in MeetingColumns
         /\ k = 9 <=> Migrate[k] = "user_version"
         /\ Migrate[k] \notin {"meeting", "closed", "read_version"}
<1> TAKE k \in 1 .. 9
<1>1. k = 1 \/ k = 2 \/ k = 3 \/ k = 4 \/ k = 5 \/ k = 6 \/ k = 7 \/ k = 8 \/ k = 9
  OBVIOUS
<1>2. /\ Migrate[1] = "space" /\ Migrate[2] = "project" /\ Migrate[3] = "tag"
      /\ Migrate[4] = "meeting_tag" /\ Migrate[5] = "find_space_id" /\ Migrate[6] = "space_id"
      /\ Migrate[7] = "find_project_id" /\ Migrate[8] = "project_id"
      /\ Migrate[9] = "user_version"
  BY DEF Migrate
<1>3. k < 5 <=> Migrate[k] \in V1Objects \cup ToSet(V2Tables)
  <2>1. ASSUME k < 5 PROVE Migrate[k] \in ToSet(V2Tables)
    <3>1. k = 1 \/ k = 2 \/ k = 3 \/ k = 4
      BY <2>1
    <3>. QED  BY <3>1, <1>2, SchemaFacts
  <2>2. ASSUME k \in 5 .. 9 PROVE Migrate[k] \notin V1Objects \cup ToSet(V2Tables)
    <3>1. k = 5 \/ k = 6 \/ k = 7 \/ k = 8 \/ k = 9
      BY <2>2
    <3>. QED  BY <3>1, <1>2, SchemaFacts
  <2>. QED  BY <2>1, <2>2
<1>4. Migrate[k] \in {"find_space_id", "find_project_id"} => k = 5 \/ k = 7
  BY <1>1, <1>2, SchemaFacts
<1>5. k = 6 \/ k = 8 <=> Migrate[k] \in MeetingColumns
  BY <1>1, <1>2, SchemaFacts
<1>6. k = 9 <=> Migrate[k] = "user_version"
  BY <1>1, <1>2, SchemaFacts
<1>7. Migrate[k] \notin {"meeting", "closed", "read_version"}
  BY <1>1, <1>2, SchemaFacts
<1>. QED  BY <1>3, <1>4, <1>5, <1>6, <1>7

LEMMA ProgramsCoverSchema ==
  /\ \A x \in FullSchema \ MeetingColumns : \E i \in 1 .. 8 : Create[i] = x
  /\ \A x \in FullSchema \ V1Objects : \E i \in 1 .. 8 : Migrate[i] = x
<1>1. /\ Create[1] = "meeting" /\ Create[2] = "idx_meeting_started_at" /\ Create[3] = "note"
      /\ Create[4] = "idx_note_meeting_id" /\ Create[5] = "space" /\ Create[6] = "project"
      /\ Create[7] = "tag" /\ Create[8] = "meeting_tag" /\ Create[9] = "user_version"
  BY DEF Create
<1>2. /\ Migrate[1] = "space" /\ Migrate[2] = "project" /\ Migrate[3] = "tag"
      /\ Migrate[4] = "meeting_tag" /\ Migrate[5] = "find_space_id" /\ Migrate[6] = "space_id"
      /\ Migrate[7] = "find_project_id" /\ Migrate[8] = "project_id"
      /\ Migrate[9] = "user_version"
  BY DEF Migrate
<1>3. \A x \in FullSchema \ MeetingColumns : \E i \in 1 .. 8 : Create[i] = x
  BY <1>1, SchemaFacts, SMTT(60)
<1>4. ASSUME NEW x \in FullSchema \ V1Objects PROVE \E i \in 1 .. 8 : Migrate[i] = x
  <2>1. \/ x = Migrate[1] \/ x = Migrate[2] \/ x = Migrate[3] \/ x = Migrate[4]
        \/ x = Migrate[6] \/ x = Migrate[8]
    BY <1>2, SchemaFacts
  <2>. QED  BY <2>1
<1>. QED  BY <1>3, <1>4

\* The two lists of one word tell themselves apart.
LEMMA MarkFacts ==
  /\ <<"closed">> # <<"read_version">> /\ <<"closed">> # <<>> /\ <<"read_version">> # <<>>
  /\ Head(<<"read_version">>) = "read_version" /\ Head(<<"closed">>) = "closed"
<1>1. <<"closed">>[1] = "closed" /\ <<"read_version">>[1] = "read_version"
  OBVIOUS
<1>2. Len(<<"closed">>) = 1 /\ Len(<<"read_version">>) = 1 /\ Len(<<>>) = 0
  OBVIOUS
<1>3. <<"closed">> # <<"read_version">>
  BY <1>1
<1>4. <<"closed">> # <<>> /\ <<"read_version">> # <<>>
  BY <1>2
<1>5. Head(<<"read_version">>) = "read_version" /\ Head(<<"closed">>) = "closed"
  OBVIOUS
<1>. QED  BY <1>3, <1>4, <1>5

-----------------------------------------------------------------------------
LEMMA Initially == StartInit => IInv /\ ServingOwnsThePath /\ RivalInv
<1> SUFFICES ASSUME StartInit PROVE IInv /\ ServingOwnsThePath /\ RivalInv
  OBVIOUS
<1> USE DEF StartInit, Init
<1>1. TypeInv
  <2>1. <<"closed">> \in Seq(Statements \cup {"closed", "read_version"})
    OBVIOUS
  <2>2. db \in [version : 0 .. 3, objects : SUBSET FullSchema]
    BY SchemaFacts DEF EXPECTED_SCHEMA_VERSION
  <2>. QED  BY <2>1, <2>2 DEF TypeInv, Places
<1>2. FileInv
  BY SchemaFacts DEF FileInv, EXPECTED_SCHEMA_VERSION
<1>3. WorkInv /\ LoneInv /\ ListenerInv
  BY DEF WorkInv, LoneInv, ListenerInv, Closed
<1>4. ServingOwnsThePath /\ RivalInv
  BY <1>1 DEF RivalInv, Owners, ServingOwnsThePath
<1>. QED  BY <1>1, <1>2, <1>3, <1>4 DEF IInv

\* An engine between two statements of its program.
LEMMA Underway ==
  ASSUME IInv, NEW e \in Engines, Opening(e), todo[e] # <<"read_version">>
  PROVE  \E k \in 1 .. 9 : Creates(e, k) \/ Migrates(e, k)
<1>1. PICK k \in 1 .. 10 : Creates(e, k) \/ Migrates(e, k)
  BY DEF IInv, WorkInv, Opening, Working
<1>2. k # 10
  <2>1. SUFFICES ASSUME k = 10 PROVE FALSE
    OBVIOUS
  <2>2. SubSeq(Create, k, 9) = <<>> /\ SubSeq(Migrate, k, 9) = <<>>
    BY <2>1, CreateSuffix, MigrateSuffix
  <2>3. ASSUME Creates(e, k) PROVE todo[e] = SubSeq(Create, k, 9)
    BY <2>3 DEF Creates, At
  <2>4. ASSUME Migrates(e, k) PROVE todo[e] = SubSeq(Migrate, k, 9)
    BY <2>4 DEF Migrates, At
  <2>5. todo[e] # <<>>
    BY DEF Opening, Open
  <2>6. CASE Creates(e, k)
    BY <2>2, <2>3, <2>5, <2>6
  <2>7. CASE Migrates(e, k)
    BY <2>2, <2>4, <2>5, <2>7
  <2>. QED  BY <1>1, <2>6, <2>7
<1>3. k \in 1 .. 9
  BY <1>1, <1>2, SMTT(30)
<1>. QED  BY <1>1, <1>3

LEMMA CreateHead ==
  ASSUME NEW e \in Engines, NEW k \in 1 .. 9, Creates(e, k)
  PROVE  /\ todo[e] \in Seq(Statements) /\ todo[e] # <<>>
         /\ Head(todo[e]) = Create[k] /\ Tail(todo[e]) = SubSeq(Create, k + 1, 9)
         /\ k < 9 => todo[e][2] = Create[k + 1]
<1>1. todo[e] = SubSeq(Create, k, 9)
  BY DEF Creates, At
<1>2. k \in 1 .. 10 /\ k # 10
  OBVIOUS
<1>3. /\ SubSeq(Create, k, 9) \in Seq(Statements)
      /\ SubSeq(Create, k, 9) # <<>>
      /\ Head(SubSeq(Create, k, 9)) = Create[k]
      /\ Tail(SubSeq(Create, k, 9)) = SubSeq(Create, k + 1, 9)
      /\ k < 9 => SubSeq(Create, k, 9)[2] = Create[k + 1]
  BY <1>2, CreateSuffix
<1>. QED  BY <1>1, <1>3

LEMMA MigrateHead ==
  ASSUME NEW e \in Engines, NEW k \in 1 .. 9, Migrates(e, k)
  PROVE  /\ todo[e] \in Seq(Statements) /\ todo[e] # <<>>
         /\ Head(todo[e]) = Migrate[k] /\ Tail(todo[e]) = SubSeq(Migrate, k + 1, 9)
         /\ k < 9 => todo[e][2] = Migrate[k + 1]
<1>1. todo[e] = SubSeq(Migrate, k, 9)
  BY DEF Migrates, At
<1>2. k \in 1 .. 10 /\ k # 10
  OBVIOUS
<1>3. /\ SubSeq(Migrate, k, 9) \in Seq(Statements)
      /\ SubSeq(Migrate, k, 9) # <<>>
      /\ Head(SubSeq(Migrate, k, 9)) = Migrate[k]
      /\ Tail(SubSeq(Migrate, k, 9)) = SubSeq(Migrate, k + 1, 9)
      /\ k < 9 => SubSeq(Migrate, k, 9)[2] = Migrate[k + 1]
  BY <1>2, MigrateSuffix
<1>. QED  BY <1>1, <1>3

\* What another engine does to the file leaves an engine where it is.
LEMMA OthersStay ==
  ASSUME NEW o \in Engines, Working(o), todo'[o] = todo[o], read'[o] = read[o],
         db.objects \subseteq db'.objects, db'.version = db.version \/ db'.version = 2
  PROVE  Working(o)'
<1>1. PICK k \in 1 .. 10 : Creates(o, k) \/ Migrates(o, k)
  BY DEF Working
<1>2. ASSUME Creates(o, k) PROVE Creates(o, k)'
  BY <1>2 DEF Creates, At
<1>3. ASSUME Migrates(o, k) PROVE Migrates(o, k)'
  BY <1>3 DEF Migrates, At
<1>. QED  BY <1>1, <1>2, <1>3 DEF Working

\* Running statement k takes the engine to statement k + 1.
LEMMA CreateAdvances ==
  ASSUME NEW e \in Engines, NEW k \in 1 .. 9, Creates(e, k), todo'[e] = Tail(todo[e]),
         db.objects \subseteq db'.objects, MeetingColumns \subseteq db'.objects,
         k < 9 => db'.version = db.version /\ Create[k] \in db'.objects,
         k = 9 => db'.version = 2
  PROVE  Creates(e, k + 1)'
<1>1. todo'[e] = SubSeq(Create, k + 1, 9)
  <2>1. Tail(SubSeq(Create, k, 9)) = SubSeq(Create, k + 1, 9)
    BY CreateSuffix
  <2>. QED  BY <2>1 DEF Creates, At
<1>2. Create[9] \notin FullSchema
  <2>1. "user_version" \notin FullSchema
    BY SchemaFacts
  <2>. QED  BY <2>1 DEF Create
<1>3. \A i \in 1 .. k : Create[i] \in FullSchema => Create[i] \in db'.objects
  BY <1>2 DEF Creates, At
<1>4. At(e, Create, k + 1)'
  BY <1>1, <1>3 DEF Creates, At
<1>5. db'.version # 1
  BY DEF Creates, At
<1>. QED  BY <1>4, <1>5 DEF Creates

LEMMA MigrateAdvances ==
  ASSUME NEW e \in Engines, NEW k \in 1 .. 9, Migrates(e, k), todo'[e] = Tail(todo[e]),
         db.objects \subseteq db'.objects,
         Migrate[k] \in FullSchema => Migrate[k] \in db'.objects,
         k < 9 => db'.version = db.version,
         k = 9 => db'.version = 2,
         (k = 5 \/ k = 7) /\ read'[e] => Migrate[k + 1] \in db'.objects
  PROVE  Migrates(e, k + 1)'
<1>1. todo'[e] = SubSeq(Migrate, k + 1, 9)
  <2>1. Tail(SubSeq(Migrate, k, 9)) = SubSeq(Migrate, k + 1, 9)
    BY MigrateSuffix
  <2>. QED  BY <2>1 DEF Migrates, At
<1>2. \A i \in 1 .. k : Migrate[i] \in FullSchema => Migrate[i] \in db'.objects
  BY DEF Migrates, At
<1>. QED  BY <1>1, <1>2 DEF Migrates, At

\* A statement of engine e: the file may grow, the sockets are not touched.
Runs(e) ==
  /\ UNCHANGED <<vars, lone>>
  /\ todo' \in [Engines -> Seq(Statements \cup {"closed", "read_version"})]
  /\ read' \in [Engines -> BOOLEAN]
  /\ db' \in [version : 0 .. 3, objects : SUBSET FullSchema]
  /\ \A o \in Engines \ {e} : todo'[o] = todo[o] /\ read'[o] = read[o]
  /\ db.objects \subseteq db'.objects
  /\ db'.version = db.version \/ db'.version = 2

LEMMA TodoStaysTyped ==
  ASSUME TypeInv, NEW e \in Engines, NEW t \in Seq(Statements), todo' = [todo EXCEPT ![e] = t]
  PROVE  todo' \in [Engines -> Seq(Statements \cup {"closed", "read_version"})]
<1>1. t \in Seq(Statements \cup {"closed", "read_version"})
  BY SeqMonotonic
<1>. QED  BY <1>1 DEF TypeInv

LEMMA RunsPreserves ==
  ASSUME IInv, NEW e \in Engines, ~Closed(e), Runs(e), FileInv',
         Closed(e)' \/ Working(e)', ReadIsTrue(e)'
  PROVE  IInv'
<1> USE DEF IInv
<1>1. TypeInv'
  BY DEF TypeInv, Runs, vars
<1>2. WorkInv'
  <2>1. ASSUME NEW o \in Engines \ {e}
        PROVE  Closed(o)' \/ todo'[o] = <<"read_version">> \/ Working(o)'
    BY <2>1, OthersStay DEF WorkInv, Runs, Closed
  <2>. QED  BY <2>1 DEF WorkInv
<1>3. LoneInv'
  <2>1. lone \subseteq {e}
    BY DEF LoneInv, TypeInv
  <2>2. ASSUME NEW o \in Engines \ {e} PROVE Closed(o)' <=> Closed(o)
    BY DEF Runs, Closed
  <2>. QED  BY <2>1, <2>2 DEF LoneInv, Runs, vars, PathIsAsSeen
<1>4. ListenerInv'
  BY DEF ListenerInv, Runs, vars
<1>. QED  BY <1>1, <1>2, <1>3, <1>4

\* The engine gives up.
LEMMA ClosePreserves ==
  ASSUME IInv, NEW e \in Engines, ~Closed(e), todo' = [todo EXCEPT ![e] = <<"closed">>],
         UNCHANGED <<vars, read, lone>>, UNCHANGED db
  PROVE  IInv'
<1>1. Closed(e)'
  BY DEF Closed, IInv, TypeInv
<1>2. <<"closed">> \in Seq(Statements \cup {"closed", "read_version"})
  OBVIOUS
<1>3. Runs(e)
  BY <1>2 DEF Runs, IInv, TypeInv
<1>4. FileInv' /\ ReadIsTrue(e)'
  BY <1>1 DEF IInv, FileInv, ReadIsTrue, Opening, Closed
<1>. QED  BY <1>1, <1>3, <1>4, RunsPreserves

LEMMA ReadVersionPreserves ==
  ASSUME IInv, NEW e \in Engines, ReadVersion(e)
  PROVE  IInv'
<1> USE DEF IInv
<1>1. todo'[e] = Program(db.version) /\ UNCHANGED <<vars, db, read, lone>>
  BY DEF ReadVersion, TypeInv
<1>2. ~Closed(e)
  BY MarkFacts DEF ReadVersion, Closed
<1>3. db.version \in 0 .. 3
  BY DEF TypeInv
<1>4. CASE db.version = 0
  <2>1. Creates(e, 1)'
    BY <1>1, <1>4, ProgramFacts DEF Creates, At
  <2>2. Working(e)'
    BY <2>1 DEF Working
  <2>3. Head(todo'[e]) = Create[1] /\ todo'[e] \in Seq(Statements)
    <3>1. todo'[e] = SubSeq(Create, 1, 9)
      BY <1>1, <1>4, ProgramFacts
    <3>2. SubSeq(Create, 1, 9) \in Seq(Statements) /\ Head(SubSeq(Create, 1, 9)) = Create[1]
      BY CreateSuffix
    <3>. QED  BY <3>1, <3>2
  <2>4. Create[1] \notin MeetingColumns
    BY CreateKinds
  <2>5. ReadIsTrue(e)'
    BY <2>3, <2>4 DEF ReadIsTrue
  <2>6. Runs(e)
    BY <1>1, <2>3 DEF Runs, ReadVersion, TypeInv
  <2>. QED  BY <1>1, <1>2, <2>2, <2>5, <2>6, RunsPreserves DEF FileInv
<1>5. CASE db.version = 1
  <2>1. Migrates(e, 1)'
    BY <1>1, <1>5, ProgramFacts DEF Migrates, At
  <2>2. Working(e)'
    BY <2>1 DEF Working
  <2>3. Head(todo'[e]) = Migrate[1] /\ todo'[e] \in Seq(Statements)
    <3>1. todo'[e] = SubSeq(Migrate, 1, 9)
      BY <1>1, <1>5, ProgramFacts
    <3>2. SubSeq(Migrate, 1, 9) \in Seq(Statements) /\ Head(SubSeq(Migrate, 1, 9)) = Migrate[1]
      BY MigrateSuffix
    <3>. QED  BY <3>1, <3>2
  <2>4. Migrate[1] \notin MeetingColumns
    BY MigrateKinds
  <2>5. ReadIsTrue(e)'
    BY <2>3, <2>4 DEF ReadIsTrue
  <2>6. Runs(e)
    BY <1>1, <2>3 DEF Runs, ReadVersion, TypeInv
  <2>. QED  BY <1>1, <1>2, <2>2, <2>5, <2>6, RunsPreserves DEF FileInv
<1>6. CASE db.version = 2
  <2>1. todo'[e] = <<>> /\ SubSeq(Create, 10, 9) = <<>>
    BY <1>1, <1>6, ProgramFacts, CreateSuffix
  <2>2. Creates(e, 10)'
    <3>1. db'.version = 2 /\ FullSchema \subseteq db'.objects
      BY <1>1, <1>6 DEF FileInv
    <3>2. At(e, Create, 10)'
      BY <2>1, <3>1 DEF At
    <3>. QED  BY <3>1, <3>2, SchemaFacts DEF Creates
  <2>3. Working(e)'
    BY <2>2 DEF Working
  <2>4. ReadIsTrue(e)'
    BY <2>1 DEF ReadIsTrue, Opening, Open
  <2>5. todo'[e] \in Seq(Statements \cup {"closed", "read_version"})
    BY <2>1
  <2>6. Runs(e)
    BY <1>1, <2>5 DEF Runs, ReadVersion, TypeInv
  <2>. QED  BY <1>1, <1>2, <2>3, <2>4, <2>6, RunsPreserves DEF FileInv
<1>7. CASE db.version = 3
  BY <1>1, <1>2, <1>7, ProgramFacts, ClosePreserves DEF ReadVersion
<1>. QED  BY <1>3, <1>4, <1>5, <1>6, <1>7

LEMMA ColumnExistsPreserves ==
  ASSUME IInv, NEW e \in Engines, column_exists(e)
  PROVE  IInv' /\ ~Closed(e)'
<1> USE DEF IInv
<1>1. /\ Opening(e) /\ Head(todo[e]) \in {"find_space_id", "find_project_id"}
      /\ read'[e] = (todo[e][2] \in db.objects) /\ todo'[e] = Tail(todo[e])
      /\ UNCHANGED <<vars, db, lone>>
  BY DEF column_exists, TypeInv
<1>2. todo[e] # <<"read_version">>
  BY <1>1, MarkFacts
<1>3. PICK k \in 1 .. 9 : Creates(e, k) \/ Migrates(e, k)
  BY <1>1, <1>2, Underway
<1>4. /\ Migrates(e, k) /\ (k = 5 \/ k = 7)
  <2>1. ~Creates(e, k)
    BY <1>1, CreateHead, CreateKinds
  <2>2. Migrates(e, k)
    BY <1>3, <2>1
  <2>3. Head(todo[e]) = Migrate[k]
    BY <2>2, MigrateHead
  <2>. QED  BY <1>1, <2>2, <2>3, MigrateKinds
<1>5. todo[e][2] = Migrate[k + 1]
  BY <1>4, MigrateHead
<1>6. Migrates(e, k + 1)'
  <2>1. Migrate[k] \notin FullSchema
    BY <1>4, MigrateKinds, SchemaFacts
  <2>2. k < 9
    BY <1>4
  <2>3. read'[e] => Migrate[k + 1] \in db'.objects
    <3>1. read'[e] => todo[e][2] \in db.objects
      BY <1>1, Zenon
    <3>. QED  BY <1>1, <1>5, <3>1
  <2>. QED  BY <1>1, <1>4, <2>1, <2>2, <2>3, MigrateAdvances
<1>7. todo'[e] = SubSeq(Migrate, k + 1, 9) /\ Head(todo'[e]) = Migrate[k + 1]
        /\ todo'[e] \in Seq(Statements)
  BY <1>4, <1>6, MigrateSuffix DEF Migrates, At
<1>8. ReadIsTrue(e)'
  BY <1>1, <1>5, <1>7 DEF ReadIsTrue
<1>9. Runs(e)
  BY <1>1, <1>7 DEF Runs, column_exists, TypeInv
<1>10. Working(e)'
  BY <1>4, <1>6 DEF Working
<1>11. ~Closed(e)
  BY <1>1 DEF Opening
<1>12. ~Closed(e)'
  <2>1. Migrate[k + 1] # "closed"
    BY <1>4, MigrateKinds
  <2>. QED  BY <1>7, <2>1, MarkFacts DEF Closed
<1>. QED  BY <1>1, <1>8, <1>9, <1>10, <1>11, <1>12, RunsPreserves DEF FileInv

LEMMA AddColumnPreserves ==
  ASSUME IInv, NEW e \in Engines, AddColumn(e)
  PROVE  IInv' /\ (e \in lone => ~Closed(e)')
<1> USE DEF IInv
<1>1. Opening(e) /\ Head(todo[e]) \in MeetingColumns /\ UNCHANGED <<vars, read, lone>>
  BY DEF AddColumn
<1>2. todo[e] # <<"read_version">> /\ ~Closed(e)
  BY <1>1, MarkFacts, SchemaFacts DEF Opening
<1>3. PICK k \in 1 .. 9 : Creates(e, k) \/ Migrates(e, k)
  BY <1>1, <1>2, Underway
<1>4. Migrates(e, k) /\ (k = 6 \/ k = 8)
  <2>1. ~Creates(e, k)
    BY <1>1, CreateHead, CreateKinds
  <2>2. Migrates(e, k)
    BY <1>3, <2>1
  <2>3. Head(todo[e]) = Migrate[k]
    BY <2>2, MigrateHead
  <2>. QED  BY <1>1, <2>2, <2>3, MigrateKinds
<1>5. Head(todo[e]) = Migrate[k] /\ Tail(todo[e]) = SubSeq(Migrate, k + 1, 9)
  BY <1>4, MigrateHead
<1>6. /\ SubSeq(Migrate, k + 1, 9) \in Seq(Statements)
      /\ Head(SubSeq(Migrate, k + 1, 9)) = Migrate[k + 1]
      /\ Migrate[k + 1] \notin MeetingColumns /\ Migrate[k + 1] # "closed"
  <2>1. k + 1 \in 1 .. 9 /\ k + 1 # 10 /\ (k + 1 = 7 \/ k + 1 = 9)
    BY <1>4
  <2>. QED  BY <2>1, MigrateSuffix, MigrateKinds
<1>7. ASSUME todo' = [todo EXCEPT ![e] = Tail(@)], UNCHANGED db \/
               db' = [db EXCEPT !.objects = @ \cup {Head(todo[e])}],
             Head(todo[e]) \in db'.objects
      PROVE  IInv' /\ ~Closed(e)'
  <2>1. /\ todo'[e] = Tail(todo[e]) /\ db'.version = db.version
        /\ db.objects \subseteq db'.objects /\ db'.objects \subseteq db.objects \cup {Head(todo[e])}
    BY <1>7 DEF TypeInv
  <2>2. Migrates(e, k + 1)'
    BY <1>1, <1>4, <1>5, <1>7, <2>1, MigrateAdvances
  <2>3. Working(e)'
    <3>1. k + 1 \in 1 .. 10
      OBVIOUS
    <3>. QED  BY <2>2, <3>1 DEF Working
  <2>4. ~Closed(e)' /\ ReadIsTrue(e)'
    BY <1>5, <1>6, <2>1, MarkFacts DEF Closed, ReadIsTrue
  <2>5. Runs(e)
    <3>1. db' \in [version : 0 .. 3, objects : SUBSET FullSchema]
      BY <1>1, <1>7, SchemaFacts DEF TypeInv
    <3>2. todo' \in [Engines -> Seq(Statements \cup {"closed", "read_version"})]
      BY <1>5, <1>6, <1>7, TodoStaysTyped
    <3>. QED  BY <1>1, <1>7, <2>1, <3>1, <3>2 DEF Runs, TypeInv
  <2>6. FileInv'
    BY <1>1, <2>1, SchemaFacts DEF FileInv
  <2>. QED  BY <1>1, <1>2, <2>3, <2>4, <2>5, <2>6, RunsPreserves
<1>8. CASE read[e] /\ todo' = [todo EXCEPT ![e] = Tail(@)] /\ UNCHANGED db
  <2>1. Head(todo[e]) \in db'.objects
    BY <1>4, <1>5, <1>8 DEF Migrates
  <2>. QED  BY <1>7, <1>8, <2>1
<1>9. CASE /\ ~read[e] /\ Head(todo[e]) \notin db.objects
           /\ db' = [db EXCEPT !.objects = @ \cup {Head(todo[e])}]
           /\ todo' = [todo EXCEPT ![e] = Tail(@)]
  <2>1. Head(todo[e]) \in db'.objects
    BY <1>9 DEF TypeInv
  <2>. QED  BY <1>7, <1>9, <2>1
<1>10. CASE /\ ~read[e] /\ Head(todo[e]) \in db.objects
            /\ todo' = [todo EXCEPT ![e] = <<"closed">>] /\ UNCHANGED db
  <2>1. e \notin lone
    BY <1>1, <1>10 DEF LoneInv, ReadIsTrue
  <2>. QED  BY <1>1, <1>2, <1>10, <2>1, ClosePreserves
<1>. QED  BY <1>8, <1>9, <1>10 DEF AddColumn

LEMMA CreateObjectPreserves ==
  ASSUME IInv, NEW e \in Engines, CreateObject(e)
  PROVE  IInv' /\ ~Closed(e)'
<1> USE DEF IInv
<1> DEFINE x == Head(todo[e])
           new == IF x = "meeting" /\ "meeting" \notin db.objects THEN MeetingColumns ELSE {}
<1>1. /\ Opening(e) /\ x \in V1Objects \cup ToSet(V2Tables)
      /\ UNCHANGED <<vars, read, lone>> /\ todo' = [todo EXCEPT ![e] = Tail(@)]
      /\ db' = [db EXCEPT !.objects = @ \cup {x} \cup new]
  BY DEF CreateObject
<1>2. todo[e] # <<"read_version">> /\ ~Closed(e)
  BY <1>1, MarkFacts, SchemaFacts DEF Opening
<1>3. PICK k \in 1 .. 9 : Creates(e, k) \/ Migrates(e, k)
  BY <1>1, <1>2, Underway
<1>4. /\ todo'[e] = Tail(todo[e]) /\ db'.version = db.version
      /\ db'.objects = db.objects \cup {x} \cup new
      /\ db' \in [version : 0 .. 3, objects : SUBSET FullSchema]
  BY <1>1, SchemaFacts DEF TypeInv
<1>5. FileInv'
  BY <1>1, <1>4, SchemaFacts DEF FileInv
<1>6. db.objects \subseteq db'.objects /\ x \in db'.objects
  BY <1>4
<1>7. CASE Creates(e, k)
  <2>1. x = Create[k] /\ Tail(todo[e]) = SubSeq(Create, k + 1, 9)
    BY <1>7, CreateHead
  <2>2. k < 9 /\ db.version # 1
    BY <1>1, <1>7, <2>1, CreateKinds, SchemaFacts DEF Creates
  <2>3. /\ SubSeq(Create, k + 1, 9) \in Seq(Statements)
        /\ Head(SubSeq(Create, k + 1, 9)) = Create[k + 1]
        /\ Create[k + 1] \notin MeetingColumns /\ Create[k + 1] # "closed"
    <3>1. k + 1 \in 1 .. 9 /\ k + 1 # 10
      BY <2>2
    <3>. QED  BY <3>1, CreateSuffix, CreateKinds
  <2>4. MeetingColumns \subseteq db'.objects
    <3>1. CASE k = 1
      BY <1>4, <2>1, <2>2, <3>1, CreateKinds DEF FileInv
    <3>2. CASE k > 1
      BY <1>4, <1>7, <3>2 DEF Creates
    <3>. QED  BY <3>1, <3>2
  <2>5. Creates(e, k + 1)'
    <3>1. /\ todo'[e] = Tail(todo[e]) /\ db'.version = db.version
          /\ db.objects \subseteq db'.objects /\ Create[k] \in db'.objects
      BY <1>4, <1>6, <2>1
    <3>. QED  BY <1>7, <2>2, <2>4, <3>1, CreateAdvances
  <2>6. Working(e)'
    <3>1. k + 1 \in 1 .. 10
      OBVIOUS
    <3>. QED  BY <2>5, <3>1 DEF Working
  <2>7. ~Closed(e)' /\ ReadIsTrue(e)'
    BY <1>4, <2>1, <2>3, MarkFacts DEF Closed, ReadIsTrue
  <2>8. Runs(e)
    <3>1. todo' \in [Engines -> Seq(Statements \cup {"closed", "read_version"})]
      BY <1>1, <2>1, <2>3, TodoStaysTyped
    <3>. QED  BY <1>1, <1>4, <3>1 DEF Runs, TypeInv
  <2>. QED  BY <1>2, <1>5, <2>6, <2>7, <2>8, RunsPreserves
<1>8. CASE Migrates(e, k)
  <2>1. x = Migrate[k] /\ Tail(todo[e]) = SubSeq(Migrate, k + 1, 9)
    BY <1>8, MigrateHead
  <2>2. k < 5
    BY <1>1, <2>1, MigrateKinds
  <2>3. /\ SubSeq(Migrate, k + 1, 9) \in Seq(Statements)
        /\ Head(SubSeq(Migrate, k + 1, 9)) = Migrate[k + 1]
        /\ Migrate[k + 1] \notin MeetingColumns /\ Migrate[k + 1] # "closed"
    <3>1. k + 1 \in 1 .. 9 /\ k + 1 # 10 /\ k + 1 # 6 /\ k + 1 # 8
      BY <2>2
    <3>. QED  BY <3>1, MigrateSuffix, MigrateKinds
  <2>4. Migrates(e, k + 1)'
    <3>1. k # 5 /\ k # 7 /\ k < 9
      BY <2>2
    <3>2. Migrate[k] \in db'.objects
      BY <1>6, <2>1
    <3>. QED  BY <1>4, <1>8, <1>6, <3>1, <3>2, MigrateAdvances
  <2>5. Working(e)'
    <3>1. k + 1 \in 1 .. 10
      OBVIOUS
    <3>. QED  BY <2>4, <3>1 DEF Working
  <2>6. ~Closed(e)' /\ ReadIsTrue(e)'
    BY <1>4, <2>1, <2>3, MarkFacts DEF Closed, ReadIsTrue
  <2>7. Runs(e)
    <3>1. todo' \in [Engines -> Seq(Statements \cup {"closed", "read_version"})]
      BY <1>1, <2>1, <2>3, TodoStaysTyped
    <3>. QED  BY <1>1, <1>4, <3>1 DEF Runs, TypeInv
  <2>. QED  BY <1>2, <1>5, <2>5, <2>6, <2>7, RunsPreserves
<1>. QED  BY <1>3, <1>7, <1>8

LEMMA StampVersionPreserves ==
  ASSUME IInv, NEW e \in Engines, StampVersion(e)
  PROVE  IInv'
<1> USE DEF IInv
<1>1. /\ Opening(e) /\ Head(todo[e]) = "user_version" /\ UNCHANGED <<vars, read, lone>>
      /\ todo' = [todo EXCEPT ![e] = Tail(@)]
  BY DEF StampVersion
<1>2. todo[e] # <<"read_version">> /\ ~Closed(e)
  BY <1>1, MarkFacts DEF Opening
<1>3. PICK k \in 1 .. 9 : Creates(e, k) \/ Migrates(e, k)
  BY <1>1, <1>2, Underway
<1>4. /\ todo'[e] = Tail(todo[e]) /\ db'.version = 2 /\ db'.objects = db.objects
      /\ db' \in [version : 0 .. 3, objects : SUBSET FullSchema]
  <2>1. db' = [db EXCEPT !.version = 2]
    BY DEF StampVersion, EXPECTED_SCHEMA_VERSION
  <2>2. db'.version = 2 /\ db'.objects = db.objects
    BY <2>1 DEF TypeInv
  <2>3. db' \in [version : 0 .. 3, objects : SUBSET FullSchema]
    BY <2>1 DEF TypeInv
  <2>4. todo'[e] = Tail(todo[e])
    BY <1>1 DEF TypeInv
  <2>. QED  BY <2>2, <2>3, <2>4
<1>5. ASSUME Creates(e, k)
      PROVE  FullSchema \subseteq db.objects /\ Creates(e, 10)' /\ todo'[e] = <<>>
  <2>1. k = 9 /\ Tail(todo[e]) = SubSeq(Create, k + 1, 9)
    BY <1>1, <1>5, CreateHead, CreateKinds
  <2>2. FullSchema \subseteq db.objects
    <3>1. MeetingColumns \subseteq db.objects
      BY <1>5, <2>1 DEF Creates
    <3>2. \A i \in 1 .. 8 : Create[i] \in FullSchema => Create[i] \in db.objects
      BY <1>5, <2>1 DEF Creates, At
    <3>. QED  BY <3>1, <3>2, ProgramsCoverSchema
  <2>3. Creates(e, 10)'
    <3>1. Creates(e, k + 1)'
      BY <1>4, <1>5, <2>1, <2>2, SchemaFacts, CreateAdvances
    <3>. QED  BY <2>1, <3>1
  <2>4. todo'[e] = <<>>
    BY <1>4, <2>1, CreateSuffix
  <2>. QED  BY <2>2, <2>3, <2>4
<1>6. ASSUME Migrates(e, k)
      PROVE  FullSchema \subseteq db.objects /\ Migrates(e, 10)' /\ todo'[e] = <<>>
  <2>1. k = 9 /\ Tail(todo[e]) = SubSeq(Migrate, k + 1, 9)
    BY <1>1, <1>6, MigrateHead, MigrateKinds
  <2>2. FullSchema \subseteq db.objects
    <3>1. V1Objects \subseteq db.objects
      BY <1>6 DEF Migrates, FileInv
    <3>2. \A i \in 1 .. 8 : Migrate[i] \in FullSchema => Migrate[i] \in db.objects
      BY <1>6, <2>1 DEF Migrates, At
    <3>. QED  BY <3>1, <3>2, ProgramsCoverSchema
  <2>3. Migrates(e, 10)'
    <3>1. "user_version" \notin FullSchema /\ Migrate[k] = "user_version"
      BY <2>1, MigrateKinds, SchemaFacts
    <3>2. Migrates(e, k + 1)'
      BY <1>4, <1>6, <2>1, <3>1, MigrateAdvances
    <3>. QED  BY <2>1, <3>2
  <2>4. todo'[e] = <<>>
    BY <1>4, <2>1, MigrateSuffix
  <2>. QED  BY <2>2, <2>3, <2>4
<1>7. FullSchema \subseteq db'.objects /\ todo'[e] = <<>>
  BY <1>3, <1>4, <1>5, <1>6
<1>8. Working(e)'
  BY <1>3, <1>5, <1>6 DEF Working
<1>9. FileInv'
  BY <1>4, <1>7, SchemaFacts DEF FileInv
<1>10. ReadIsTrue(e)'
  BY <1>7 DEF ReadIsTrue, Opening, Open
<1>11. Runs(e)
  <2>1. <<>> \in Seq(Statements \cup {"closed", "read_version"})
    OBVIOUS
  <2>2. todo' \in [Engines -> Seq(Statements \cup {"closed", "read_version"})]
    BY <1>1, <1>7, <2>1 DEF TypeInv
  <2>. QED  BY <1>1, <1>4, <2>2 DEF Runs, TypeInv
<1>. QED  BY <1>2, <1>8, <1>9, <1>10, <1>11, RunsPreserves

LEMMA StartProcessPreserves ==
  ASSUME IInv, NEW e \in Engines, StartProcess(e)
  PROVE  IInv'
<1> USE DEF IInv
<1>1. pc[e] = "off" /\ Closed(e) /\ UNCHANGED <<path, listener, pc, db, read>>
  BY DEF StartProcess, vars
<1>2. <<"read_version">> \in Seq(Statements \cup {"closed", "read_version"})
  OBVIOUS
<1>3. todo' = [todo EXCEPT ![e] = <<"read_version">>]
  BY DEF StartProcess
<1>4. \/ lone' = {}
      \/ lone' = {e} /\ (\A o \in Engines : pc[o] = "off" /\ Closed(o))
  <2>1. lone' = IF \A o \in Engines : pc[o] = "off" /\ Closed(o) THEN {e} ELSE {}
    BY DEF StartProcess
  <2>. QED  BY <2>1
<1>5. TypeInv'
  BY <1>1, <1>2, <1>3, <1>4 DEF TypeInv
<1>6. FileInv' /\ ListenerInv'
  BY <1>1 DEF FileInv, ListenerInv
<1>7. WorkInv'
  <2>1. todo'[e] = <<"read_version">>
    BY <1>3 DEF TypeInv
  <2>2. ASSUME NEW o \in Engines \ {e}
        PROVE  Closed(o)' \/ todo'[o] = <<"read_version">> \/ Working(o)'
    <3>1. todo'[o] = todo[o]
      BY <1>3 DEF TypeInv
    <3>. QED  BY <1>1, <3>1, OthersStay DEF WorkInv, Closed
  <2>. QED  BY <2>1, <2>2 DEF WorkInv
<1>8. LoneInv'
  <2>1. ASSUME NEW o \in Engines \ {e} PROVE Closed(o)' <=> Closed(o)
    BY <1>3 DEF TypeInv, Closed
  <2>2. ReadIsTrue(e)'
    <3>1. todo'[e] = <<"read_version">>
      BY <1>3 DEF TypeInv
    <3>. QED  BY <3>1, MarkFacts, SchemaFacts DEF ReadIsTrue
  <2>3. PathIsAsSeen(e)'
    BY <1>1 DEF PathIsAsSeen
  <2>. QED  BY <1>1, <1>4, <2>1, <2>2, <2>3 DEF LoneInv
<1>. QED  BY <1>5, <1>6, <1>7, <1>8

\* What a step of engine e on the socket leaves alone.
SocketStep(e) ==
  \/ Start(e) \/ PathExists(e) \/ Probe(e) \/ UnlinkStale(e) \/ Bind(e)
  \/ Chmod(e) \/ UndoBind(e) \/ Shutdown(e) \/ RemoveSocket(e) \/ Exit(e) \/ Crash(e)

SocketTypes ==
  /\ path \in Inodes \cup {RegularFile, None}
  /\ listener \in [Engines -> Inodes \cup {None}]
  /\ pc \in [Engines -> Places]

LEMMA SocketStepFacts ==
  ASSUME TypeInv, ListenerInv, NEW e \in Engines, SocketStep(e)
  PROVE  /\ SocketTypes' /\ ListenerInv'
         /\ PathIsAsSeen(e) => PathIsAsSeen(e)'
         /\ \A o \in Engines \ {e} : pc'[o] = pc[o] /\ listener'[o] = listener[o]
<1> USE DEF TypeInv, SocketTypes, ListenerInv, PathIsAsSeen, Places
<1>1. CASE Start(e)        BY <1>1 DEF Start, Goto
<1>2. CASE PathExists(e)   BY <1>2 DEF PathExists, Goto
<1>3. CASE Probe(e)        BY <1>3 DEF Probe, Goto
<1>4. CASE UnlinkStale(e)  BY <1>4 DEF UnlinkStale, Goto
<1>5. CASE Bind(e)         BY <1>5 DEF Bind, Goto
<1>6. CASE Chmod(e)        BY <1>6 DEF Chmod, Goto
<1>7. CASE UndoBind(e)     BY <1>7 DEF UndoBind, Goto
<1>8. CASE Shutdown(e)     BY <1>8 DEF Shutdown, Goto
<1>9. CASE RemoveSocket(e) BY <1>9 DEF RemoveSocket, Goto
<1>10. CASE Exit(e)        BY <1>10 DEF Exit, Goto
<1>11. CASE Crash(e)       BY <1>11 DEF Crash, Goto
<1>. QED  BY <1>1, <1>2, <1>3, <1>4, <1>5, <1>6, <1>7, <1>8, <1>9, <1>10, <1>11 DEF SocketStep

LEMMA SocketPreserves ==
  ASSUME IInv, NEW e \in Engines, ~Closed(e), SocketStep(e) \/ UNCHANGED vars,
         todo' = [todo EXCEPT ![e] = <<"closed">>] \/ UNCHANGED todo, UNCHANGED <<db, read, lone>>
  PROVE  IInv'
<1> USE DEF IInv
<1>1. /\ SocketTypes' /\ ListenerInv'
      /\ PathIsAsSeen(e) => PathIsAsSeen(e)'
      /\ \A o \in Engines \ {e} : pc'[o] = pc[o] /\ listener'[o] = listener[o]
  <2>1. CASE SocketStep(e)
    BY <2>1, SocketStepFacts
  <2>2. CASE UNCHANGED vars
    BY <2>2 DEF vars, SocketTypes, TypeInv, ListenerInv, PathIsAsSeen
  <2>. QED  BY <2>1, <2>2
<1>2. <<"closed">> \in Seq(Statements \cup {"closed", "read_version"})
  OBVIOUS
<1>3. TypeInv'
  BY <1>1, <1>2 DEF TypeInv, SocketTypes
<1>4. ASSUME NEW o \in Engines PROVE todo'[o] = todo[o] \/ Closed(o)'
  BY DEF TypeInv, Closed
<1>5. ASSUME NEW o \in Engines \ {e} PROVE todo'[o] = todo[o]
  BY DEF TypeInv
<1>6. WorkInv'
  <2>1. ASSUME NEW o \in Engines
        PROVE  Closed(o)' \/ todo'[o] = <<"read_version">> \/ Working(o)'
    BY <1>4, OthersStay DEF WorkInv, Closed
  <2>. QED  BY <2>1 DEF WorkInv
<1>7. lone \subseteq {e}
  BY DEF LoneInv, TypeInv
<1>8. ReadIsTrue(e) => ReadIsTrue(e)'
  BY <1>4 DEF ReadIsTrue, Opening, Closed, Open
<1>9. LoneInv'
  <2>1. ASSUME NEW o \in Engines \ {e} PROVE Closed(o)' <=> Closed(o)
    BY <1>5 DEF Closed
  <2>. QED  BY <1>1, <1>7, <1>8, <2>1 DEF LoneInv
<1>10. FileInv'
  BY DEF FileInv
<1>. QED  BY <1>1, <1>3, <1>6, <1>9, <1>10

\* Every step of the specification preserves the invariant.
LEMMA Inductive == IInv /\ [StartNext]_allVars => IInv'
<1> SUFFICES ASSUME IInv, [StartNext]_allVars PROVE IInv'
  OBVIOUS
<1>1. CASE UNCHANGED allVars
  <2>1. UNCHANGED <<path, listener, pc, db, todo, read, lone>>
    BY <1>1 DEF allVars, vars, dbVars
  <2>2. TypeInv' /\ FileInv' /\ ListenerInv'
    BY <2>1 DEF IInv, TypeInv, FileInv, ListenerInv
  <2>3. WorkInv'
    BY <2>1, OthersStay DEF IInv, WorkInv, Closed
  <2>4. LoneInv'
    BY <2>1 DEF IInv, LoneInv, Closed, ReadIsTrue, Opening, Open, PathIsAsSeen
  <2>. QED  BY <2>2, <2>3, <2>4 DEF IInv
<1>2. ASSUME NEW e \in Engines,
             \/ StartProcess(e) \/ ReadVersion(e) \/ column_exists(e) \/ AddColumn(e)
             \/ CreateObject(e) \/ StampVersion(e) \/ OpenFails(e)
             \/ SocketSteps(e) \/ Killed(e)
      PROVE  IInv'
  <2>1. CASE StartProcess(e)   BY <2>1, StartProcessPreserves
  <2>2. CASE ReadVersion(e)    BY <2>2, ReadVersionPreserves
  <2>3. CASE column_exists(e)  BY <2>3, ColumnExistsPreserves
  <2>4. CASE AddColumn(e)      BY <2>4, AddColumnPreserves
  <2>5. CASE CreateObject(e)   BY <2>5, CreateObjectPreserves
  <2>6. CASE StampVersion(e)   BY <2>6, StampVersionPreserves
  <2>7. CASE OpenFails(e)
    BY <2>7, ClosePreserves DEF OpenFails, Opening
  <2>8. CASE SocketSteps(e)
    <3>1. ~Closed(e)
      BY <2>8, MarkFacts DEF SocketSteps, Open, Closed
    <3>2. SocketStep(e)
      BY <2>8 DEF SocketSteps, SocketStep
    <3>3. todo' = [todo EXCEPT ![e] = <<"closed">>] \/ todo' = [todo EXCEPT ![e] = @]
      BY <2>8 DEF SocketSteps
    <3>4. todo' = [todo EXCEPT ![e] = <<"closed">>] \/ UNCHANGED todo
      BY <3>3 DEF IInv, TypeInv
    <3>. QED  BY <2>8, <3>1, <3>2, <3>4, SocketPreserves DEF SocketSteps
  <2>9. CASE Killed(e)
    BY <2>9, SocketPreserves DEF Killed, SocketStep
  <2>. QED  BY <1>2, <2>1, <2>2, <2>3, <2>4, <2>5, <2>6, <2>7, <2>8, <2>9
<1>. QED  BY <1>1, <1>2 DEF StartNext

\* A file that is stamped with the current version, or that an engine has open,
\* has the whole schema: whatever RusqliteStorage::new was killed in the middle
\* of, and with any number of engines at work on the file at once.
THEOREM OpenSchemaIsComplete == StartSpec => []OpenSchemaComplete
<1>1. IInv => OpenSchemaComplete
  <2> SUFFICES ASSUME IInv PROVE OpenSchemaComplete
    OBVIOUS
  <2>1. ASSUME NEW e \in Engines, Open(e) PROVE db.version = 2
    <3>1. Working(e)
      BY <2>1, MarkFacts DEF IInv, WorkInv, Open, Closed
    <3>2. PICK k \in 1 .. 10 : Creates(e, k) \/ Migrates(e, k)
      BY <3>1 DEF Working
    <3>3. k # 10 => todo[e] # <<>>
      <4>1. ASSUME k \in 1 .. 9 PROVE todo[e] # <<>>
        BY <3>2, <4>1, CreateHead, MigrateHead
      <4>. QED  BY <3>2, <4>1
    <3>4. k = 10
      BY <2>1, <3>3 DEF Open
    <3>. QED  BY <3>2, <3>4 DEF Creates, Migrates, At
  <2>. QED  BY <2>1 DEF OpenSchemaComplete, IInv, FileInv, EXPECTED_SCHEMA_VERSION
<1>. QED  BY <1>1, Initially, Inductive, PTL DEF StartSpec

\* Recovery on restart, for any number of engines: one that meets no other
\* process gives up only on a registry of another version, an I/O error, a
\* signal or permissions it cannot set.
THEOREM LoneEngineServes == StartSpec => LoneEngineRecovers
<1> DEFINE A == \A e \in lone :
       \/ db.version = EXPECTED_SCHEMA_VERSION + 1
       \/ /\ ReadVersion(e) \/ column_exists(e) \/ AddColumn(e) \/ CreateObject(e)
               => ~Closed(e)'
          /\ PathExists(e) \/ Probe(e) \/ UnlinkStale(e) \/ Bind(e) => pc'[e] # "off"
<1>1. IInv => A
  <2> SUFFICES ASSUME IInv, NEW e \in lone, db.version # EXPECTED_SCHEMA_VERSION + 1
               PROVE  /\ ReadVersion(e) \/ column_exists(e) \/ AddColumn(e) \/ CreateObject(e)
                           => ~Closed(e)'
                      /\ PathExists(e) \/ Probe(e) \/ UnlinkStale(e) \/ Bind(e) => pc'[e] # "off"
    OBVIOUS
  <2>1. e \in Engines
    BY DEF IInv, TypeInv
  <2>2. ASSUME ReadVersion(e) PROVE ~Closed(e)'
    <3>1. db.version \in {0, 1, 2} /\ todo'[e] = Program(db.version)
      BY <2>1, <2>2 DEF IInv, TypeInv, ReadVersion, EXPECTED_SCHEMA_VERSION
    <3>2. Program(0) # <<"closed">>
      BY ProgramFacts, CreateSuffix, CreateKinds, MarkFacts
    <3>3. Program(1) # <<"closed">>
      BY ProgramFacts, MigrateSuffix, MigrateKinds, MarkFacts
    <3>4. Program(2) # <<"closed">>
      BY ProgramFacts, MarkFacts
    <3>. QED  BY <3>1, <3>2, <3>3, <3>4 DEF Closed
  <2>3. ASSUME PathExists(e) PROVE pc'[e] # "off"
    BY <2>1, <2>3 DEF PathExists, Goto, IInv, TypeInv
  <2>4. ASSUME Probe(e) PROVE pc'[e] # "off"
    <3>1. path # None
      BY <2>4 DEF IInv, LoneInv, PathIsAsSeen, Probe
    <3>2. \A o \in Engines : listener[o] = None
      BY <2>1, <2>4 DEF IInv, LoneInv, ListenerInv, Probe
    <3>. QED  BY <2>1, <2>4, <3>1, <3>2 DEF Probe, Live, Goto, IInv, TypeInv
  <2>5. ASSUME UnlinkStale(e) PROVE pc'[e] # "off"
    BY <2>1, <2>5 DEF UnlinkStale, Goto, IInv, TypeInv, LoneInv, PathIsAsSeen
  <2>6. ASSUME Bind(e) PROVE pc'[e] # "off"
    BY <2>1, <2>6 DEF Bind, Goto, IInv, TypeInv, LoneInv, PathIsAsSeen
  <2>. QED  BY <2>1, <2>2, <2>3, <2>4, <2>5, <2>6, ColumnExistsPreserves, AddColumnPreserves,
               CreateObjectPreserves
<1>. QED  BY <1>1, Initially, Inductive, PTL DEF StartSpec, LoneEngineRecovers

-----------------------------------------------------------------------------
\* An owner that is no rival owns the path by itself.
LEMMA OwnerIsAlone ==
  ASSUME ServingOwnsThePath, RivalInv, NEW e \in Engines \ rivals, pc[e] \in Owners
  PROVE  /\ rivals = {} /\ listener[e] # None /\ path = listener[e]
         /\ \A o \in Engines \ {e} : pc[o] \notin Owners \cup {"unlink", "undo"}
<1>1. rivals = {} /\ listener[e] # None /\ path = listener[e]
  BY DEF ServingOwnsThePath, RivalInv, Owners
<1>2. ASSUME NEW o \in Engines \ {e} PROVE pc[o] \notin Owners
  <2>1. pc[o] \in Owners => listener[o] = listener[e]
    BY <1>1 DEF ServingOwnsThePath, Owners
  <2>. QED  BY <1>1, <2>1 DEF RivalInv
<1>3. ASSUME NEW o \in Engines \ {e} PROVE pc[o] \notin {"unlink", "undo"}
  BY <1>1 DEF RivalInv
<1>. QED  BY <1>1, <1>2, <1>3

\* A step that gives nobody a listener or a claim, and leaves the path to an
\* owner that is no rival.
LEMMA QuietStep ==
  ASSUME TypeInv, ServingOwnsThePath, RivalInv, NEW e \in Engines, NEW to \in Places,
         Goto(e, to), UNCHANGED listener \/ listener' = [listener EXCEPT ![e] = None],
         to \in Owners => pc[e] \in Owners /\ UNCHANGED listener,
         to \in {"unlink", "undo"} =>
           \A o \in Engines \ {e} : pc[o] \in Owners => o \in rivals,
         path' # path => \A o \in Engines \ {e} : pc[o] \in Owners => o \in rivals,
         path' # path => to \notin Owners
  PROVE  ServingOwnsThePath' /\ RivalInv'
<1>1. /\ pc'[e] = to /\ \A o \in Engines \ {e} : pc'[o] = pc[o] /\ listener'[o] = listener[o]
      /\ listener'[e] \in {listener[e], None}
      /\ \A o \in Engines \ {e} : o \in rivals' <=> o \in rivals
      /\ rivals' \subseteq rivals
      /\ to # "off" => rivals' = rivals
  BY DEF Goto, TypeInv
<1>2. "off" \notin Owners
  BY DEF Owners
<1>3. ServingOwnsThePath'
  BY <1>1, <1>2 DEF ServingOwnsThePath, Owners
<1>4. RivalInv'
  <2>1. rivals' # {} => \A o \in Engines : pc'[o] \in Owners => o \in rivals'
    BY <1>1, <1>2 DEF RivalInv
  <2>2. ASSUME NEW o \in Engines, NEW x \in Engines, o # x, pc'[o] \in {"unlink", "undo"},
               pc'[x] \in Owners
        PROVE  x \in rivals'
    BY <1>1, <1>2, <2>2 DEF RivalInv
  <2>3. \A o, x \in Engines : listener'[o] # None /\ listener'[o] = listener'[x] => o = x
    BY <1>1 DEF RivalInv
  <2>. QED  BY <2>1, <2>2, <2>3 DEF RivalInv
<1>. QED  BY <1>3, <1>4

\* A bind: beside a rival, or beside an engine about to remove the name, the new
\* owner is a rival too; otherwise the path was free and nobody counted on it.
LEMMA BindKeepsPath ==
  ASSUME TypeInv, ServingOwnsThePath, RivalInv, NEW e \in Engines, pc[e] = "bind", path = None,
         NEW inode \in Inodes, ~Live(inode), path' = inode,
         listener' = [listener EXCEPT ![e] = inode], pc' = [pc EXCEPT ![e] = "chmod"],
         rivals' = IF Removing \/ rivals # {} THEN rivals \cup {e} ELSE rivals
  PROVE  ServingOwnsThePath' /\ RivalInv'
<1>1. /\ pc'[e] = "chmod" /\ listener'[e] = inode /\ inode # None
      /\ \A o \in Engines \ {e} : pc'[o] = pc[o] /\ listener'[o] = listener[o]
      /\ \A o \in Engines : listener[o] # inode
  BY EntriesAreDistinct DEF TypeInv, Live
<1>2. \A o \in Engines \ {e} : pc[o] \in Owners => o \in rivals
  BY OwnerIsAlone
<1>3. ServingOwnsThePath'
  BY <1>1, <1>2 DEF ServingOwnsThePath, Owners
<1>4. rivals' # {} => \A o \in Engines : pc'[o] \in Owners => o \in rivals'
  BY <1>1, <1>2
<1>5. ASSUME NEW o \in Engines, NEW x \in Engines, o # x, pc'[o] \in {"unlink", "undo"},
             pc'[x] \in Owners
      PROVE  x \in rivals'
  <2>1. o # e /\ Removing
    BY <1>1, <1>5 DEF Removing
  <2>. QED  BY <1>1, <1>2, <1>5, <2>1
<1>6. \A o, x \in Engines : listener'[o] # None /\ listener'[o] = listener'[x] => o = x
  BY <1>1 DEF RivalInv
<1>. QED  BY <1>3, <1>4, <1>5, <1>6 DEF RivalInv

LEMMA SocketKeepsPath ==
  ASSUME TypeInv, ListenerInv, ServingOwnsThePath, RivalInv, NEW e \in Engines, SocketStep(e)
  PROVE  ServingOwnsThePath' /\ RivalInv'
<1> USE DEF Owners, Places
<1>1. CASE Start(e) \/ PathExists(e)
  BY <1>1, QuietStep DEF Start, PathExists
<1>2. CASE Probe(e)
  <2>1. PICK to \in {"off", "unlink"} :
          Goto(e, to) /\ (to = "unlink" => path # None /\ ~Live(path))
    BY <1>2 DEF Probe
  <2>2. to = "unlink" => \A o \in Engines \ {e} : pc[o] \in Owners => o \in rivals
    BY <2>1, OwnerIsAlone DEF Live
  <2>. QED  BY <1>2, <2>1, <2>2, QuietStep DEF Probe
<1>3. CASE UnlinkStale(e) \/ UndoBind(e)
  <2>1. \A o \in Engines \ {e} : pc[o] \in Owners => o \in rivals
    BY <1>3 DEF UnlinkStale, UndoBind, RivalInv
  <2>. QED  BY <1>3, <2>1, QuietStep DEF UnlinkStale, UndoBind
<1>4. CASE Bind(e)
  <2>1. CASE path # None
    BY <1>4, <2>1, QuietStep DEF Bind
  <2>2. CASE path = None
    BY <1>4, <2>2, BindKeepsPath DEF Bind
  <2>. QED  BY <2>1, <2>2
<1>5. CASE Chmod(e)
  <2>1. \A o \in Engines \ {e} : pc[o] \in Owners => o \in rivals
    BY <1>5, OwnerIsAlone DEF Chmod
  <2>. QED  BY <1>5, <2>1, QuietStep DEF Chmod
<1>6. CASE Shutdown(e)
  BY <1>6, QuietStep DEF Shutdown
<1>7. CASE RemoveSocket(e)
  <2>1. \A o \in Engines \ {e} : pc[o] \in Owners => o \in rivals
    BY <1>7, OwnerIsAlone DEF RemoveSocket
  <2>. QED  BY <1>7, <2>1, QuietStep DEF RemoveSocket
<1>8. CASE Exit(e) \/ Crash(e)
  BY <1>8, QuietStep DEF Exit, Crash
<1>. QED  BY <1>1, <1>2, <1>3, <1>4, <1>5, <1>6, <1>7, <1>8 DEF SocketStep

\* bind_with_lifecycle never steals: however many engines start, serve, stop and
\* die at once, the engine that serves owns its path, unless it bound while
\* another was between its probe, or failed chmod, and its remove_file.
THEOREM ServingEngineOwnsPath == StartSpec => []ServingOwnsThePath
<1> DEFINE Inv == IInv /\ ServingOwnsThePath /\ RivalInv
<1>1. StartInit => Inv
  BY Initially
<1>2. Inv /\ [StartNext]_allVars => Inv'
  <2> SUFFICES ASSUME Inv, [StartNext]_allVars PROVE Inv'
    OBVIOUS
  <2>1. IInv'
    BY Inductive
  <2>2. CASE UNCHANGED vars
    BY <2>1, <2>2 DEF vars, ServingOwnsThePath, RivalInv
  <2>3. ASSUME NEW e \in Engines, SocketStep(e) PROVE Inv'
    BY <2>1, <2>3, SocketKeepsPath DEF IInv
  <2>4. (\E e \in Engines : SocketStep(e)) \/ UNCHANGED vars
    BY DEF StartNext, StartProcess, ReadVersion, column_exists, AddColumn, CreateObject,
           StampVersion, OpenFails, SocketSteps, Killed, SocketStep, allVars
  <2>. QED  BY <2>2, <2>3, <2>4
<1>3. Inv => ServingOwnsThePath
  OBVIOUS
<1> HIDE DEF Inv
<1>. QED  BY <1>1, <1>2, <1>3, PTL DEF StartSpec

================================================================================
