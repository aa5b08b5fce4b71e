---------------------------- MODULE AdapterProofs ----------------------------
(***************************************************************************)
(* Theorems about two of the engine's adapters.                            *)
(*                                                                         *)
(* ModelDownload, for a file of any size, any limits and any number of     *)
(* faults.  Neither property is inductive: a marker is honest because it   *)
(* is written from a file that has just been hashed (HashedInv), and an    *)
(* answer may rest on a model that another start unpacked (SegInv).        *)
(*                                                                         *)
(* Sidecar, for any number of callers and calls and any size of the pipe.  *)
(* That an idle slot is usable is not inductive: the proof has to account  *)
(* for every line from the request that asks for it to the read that takes *)
(* it (StreamInv), and to know that the mutex is held by the one call that *)
(* is between them (HolderInv) and that pick_llm, which drops the adapter  *)
(* without taking the mutex, runs before anybody else calls (StartInv).    *)
(***************************************************************************)
EXTENDS ModelDownload, Sidecar, SequenceTheorems, TLAPS

-----------------------------------------------------------------------------
(***************************************************************************)
(* ModelDownload.                                                          *)
(***************************************************************************)

Bytes == [size : Nat, good : BOOLEAN]
Files == [size : Nat, good : BOOLEAN, mtime : Times]
Records == [size : Nat, mtime : Times]
Places == {"off", "look", "get", "stream", "trust", "verify", "mark", "unpack", "unpacking",
           "ok", "err"}

FileTypes ==
  /\ kind \in Kinds /\ override \in BOOLEAN /\ skip \in BOOLEAN /\ existed \in BOOLEAN
  /\ dest \in Files \cup {Missing}
  /\ seg \in {"none", "torn", "full"}
  /\ partial \in Bytes \cup {Missing}
  /\ marker \in Records \cup {Missing, Torn}
  /\ pc \in Places
  /\ pc = "stream" => partial \in Bytes

\* Whoever comes between the hash and the marker is to blame for a bad file.
HashedInv == pc = "mark" => "race" \in blame \/ (dest # Missing /\ HashMatches(dest))

\* A model that is only half unpacked is being unpacked or on record.
SegInv ==
  /\ seg = "torn" => pc = "unpacking" \/ blame \cap {"unpack", "skip"} # {}
  /\ pc \in {"unpack", "unpacking"} => kind = "seg"

DownloadInv == FileTypes /\ HashedInv /\ SegInv /\ MarkerHonest /\ ReadyIsIntact

-----------------------------------------------------------------------------
\* A file that is written now has a time that neither it nor its marker had.
LEMMA FreshTimeFacts ==
  /\ FreshTime \in Times
  /\ dest # Missing => dest.mtime # FreshTime
  /\ marker \notin {Missing, Torn} => marker.mtime # FreshTime
<1>1. \E t \in Times : /\ dest # Missing => dest.mtime # t
                       /\ marker \notin {Missing, Torn} => marker.mtime # t
  <2>1. 1 \in Times /\ 2 \in Times /\ 3 \in Times
    BY DEF Times
  <2>. QED  BY <2>1
<1>. QED  BY <1>1 DEF FreshTime

LEMMA WrittenFile ==
  ASSUME FileTypes, NEW b \in Bytes
  PROVE  /\ FileOf(b) \in Files
         /\ marker \notin {Missing, Torn} => marker.mtime # FileOf(b).mtime
BY FreshTimeFacts DEF Bytes, Files, FileOf

LEMMA DownloadStarts == DownloadInit => DownloadInv
<1> SUFFICES ASSUME DownloadInit PROVE DownloadInv
  OBVIOUS
<1>1. [size |-> FileSize, good |-> FALSE, mtime |-> 1] \in Files
  BY SizesAreNaturals DEF Files, Times
<1>2. FileTypes
  BY <1>1 DEF DownloadInit, FileTypes, Places, Kinds
<1>. QED  BY <1>2 DEF DownloadInit, DownloadInv, HashedInv, SegInv, MarkerHonest, verification_cache_valid,
                      ReadyIsIntact

\* A step that leaves the files as they are, towards neither a marker nor an answer.
LEMMA QuietStep ==
  ASSUME DownloadInv, UNCHANGED <<kind, override, dest, seg, marker>>, pc # "unpacking",
         skip' \in BOOLEAN, existed' \in BOOLEAN, blame \subseteq blame',
         pc' \in Places \ {"mark", "ok"}, partial' \in Bytes \cup {Missing},
         pc' = "stream" => partial' \in Bytes,
         pc' \in {"unpack", "unpacking"} => kind = "seg"
  PROVE  DownloadInv'
<1> USE DEF DownloadInv
<1>1. FileTypes'
  BY DEF FileTypes
<1>2. SegInv'
  BY DEF SegInv
<1>3. MarkerHonest'
  BY DEF MarkerHonest, verification_cache_valid, HashMatches
<1>4. HashedInv' /\ ReadyIsIntact'
  BY DEF HashedInv, ReadyIsIntact
<1>. QED  BY <1>1, <1>2, <1>3, <1>4

\* An answer that is given while the files stay as they are.
LEMMA AnswerStep ==
  ASSUME DownloadInv, UNCHANGED <<config, skip, dest, seg, partial, existed>>, pc # "unpacking", pc' = "ok",
         blame \subseteq blame', marker' \in Records \cup {Missing, Torn}, MarkerHonest',
         skip \/ Intact \/ (override /\ existed) \/ "race" \in blame
           \/ (kind = "seg" /\ blame \cap {"unpack", "skip"} # {})
  PROVE  DownloadInv'
<1> USE DEF DownloadInv, config
<1>1. FileTypes'
  BY DEF FileTypes, Places
<1>2. SegInv'
  BY DEF SegInv
<1>3. HashedInv'
  BY DEF HashedInv
<1>4. ReadyIsIntact'
  BY DEF ReadyIsIntact, Intact, HashMatches
<1>. QED  BY <1>1, <1>2, <1>3, <1>4

LEMMA TrustPreserves == ASSUME DownloadInv, Trust PROVE DownloadInv'
<1> USE DEF DownloadInv
<1>1. pc = "trust" /\ UNCHANGED <<config, skip, fs, existed>> /\ blame \subseteq blame'
  BY DEF Trust
<1>2. pc' \in {"verify", "unpack", "ok"}
  BY DEF Trust, AfterVerify
<1>3. CASE pc' # "ok"
  <2>1. pc' = "unpack" => kind = "seg"
    BY DEF Trust, AfterVerify
  <2>. QED  BY <1>1, <1>2, <1>3, <2>1, QuietStep DEF FileTypes, Places, config, fs
<1>4. CASE pc' = "ok"
  <2>1. kind # "seg" /\ ~(MustVerify /\ ~(MayUseCache /\ verification_cache_valid))
    BY <1>4 DEF Trust, AfterVerify
  <2>2. CASE verification_cache_valid
    <3>1. Intact \/ "race" \in blame
      BY <2>1, <2>2 DEF MarkerHonest, verification_cache_valid, Intact
    <3>. QED  BY <1>1, <1>4, <3>1, AnswerStep
              DEF fs, FileTypes, MarkerHonest, verification_cache_valid, HashMatches
  <2>3. CASE ~MustVerify
    <3>1. skip \/ (override /\ existed)
      BY <2>1, <2>3 DEF MustVerify, FileTypes, Kinds
    <3>. QED  BY <1>1, <1>4, <3>1, AnswerStep
              DEF fs, FileTypes, MarkerHonest, verification_cache_valid, HashMatches
  <2>. QED  BY <2>1, <2>2, <2>3
<1>. QED  BY <1>2, <1>3, <1>4

\* The marker is written from a file that was hashed, or the race is on record.
LEMMA MarkPreserves == ASSUME DownloadInv, mark_verified PROVE DownloadInv'
<1> USE DEF DownloadInv
<1>1. /\ pc = "mark" /\ UNCHANGED <<config, skip, dest, seg, partial, existed, blame>>
      /\ pc' \in {"unpack", "ok"}
  BY DEF mark_verified, AfterVerify
<1>2. "race" \in blame \/ (dest # Missing /\ HashMatches(dest))
  BY <1>1 DEF HashedInv
<1>3. MarkerHonest'
  BY <1>1, <1>2 DEF MarkerHonest, verification_cache_valid, HashMatches
<1>4. marker' \in Records \cup {Missing, Torn}
  <2>1. dest # Missing => [size |-> dest.size, mtime |-> dest.mtime] \in Records
    BY DEF FileTypes, Files, Records
  <2>. QED  BY <2>1 DEF mark_verified, FileTypes
<1>5. CASE pc' = "ok"
  <2>1. kind # "seg"
    BY <1>5 DEF mark_verified, AfterVerify
  <2>2. Intact \/ "race" \in blame
    BY <1>2, <2>1 DEF Intact
  <2>. QED  BY <1>1, <1>3, <1>4, <1>5, <2>2, AnswerStep
<1>6. CASE pc' = "unpack"
  <2>1. kind = "seg"
    BY <1>6 DEF mark_verified, AfterVerify
  <2>. QED  BY <1>1, <1>3, <1>4, <1>6, <2>1 DEF FileTypes, Places, HashedInv, SegInv, ReadyIsIntact, config
<1>. QED  BY <1>1, <1>5, <1>6

LEMMA UnpackedPreserves == ASSUME DownloadInv, Unpacked PROVE DownloadInv'
<1> USE DEF DownloadInv
<1>1. /\ pc = "unpacking" /\ UNCHANGED <<config, skip, dest, partial, marker, existed>>
      /\ blame \subseteq blame' /\ pc' \in {"ok", "err"} /\ seg' \in {seg, "full"}
  BY DEF Unpacked
<1>2. kind = "seg" /\ (seg' = "full" \/ blame' \cap {"unpack", "skip"} # {})
  BY DEF Unpacked, SegInv
<1>3. FileTypes' /\ HashedInv'
  BY <1>1 DEF FileTypes, HashedInv, Places, config
<1>4. SegInv' /\ ReadyIsIntact'
  BY <1>1, <1>2 DEF SegInv, ReadyIsIntact, Intact, config
<1>5. MarkerHonest'
  BY <1>1 DEF MarkerHonest, verification_cache_valid, HashMatches
<1>. QED  BY <1>3, <1>4, <1>5

\* A new file in place: no marker names it yet.
LEMMA WritePreserves ==
  ASSUME DownloadInv, NEW b \in Bytes, dest' = FileOf(b), UNCHANGED <<config, skip, seg, marker, existed>>,
         partial' \in Bytes \cup {Missing}, pc' \in Places \ {"stream", "ok"}, blame \subseteq blame',
         pc' = pc \/ (pc # "unpacking" /\ pc' \notin {"unpack", "unpacking"}),
         pc' = "mark" => "race" \in blame'
  PROVE  DownloadInv'
<1> USE DEF DownloadInv, config
<1>1. FileTypes'
  BY WrittenFile DEF FileTypes
<1>2. ~verification_cache_valid'
  BY WrittenFile DEF verification_cache_valid
<1>3. SegInv' /\ HashedInv' /\ ReadyIsIntact'
  BY DEF SegInv, HashedInv, ReadyIsIntact
<1>. QED  BY <1>1, <1>2, <1>3 DEF MarkerHonest

LEMMA StreamPreserves ==
  ASSUME DownloadInv, \/ Request \/ Receive \/ Rename \/ RequestFails \/ ReceiveFails
  PROVE  DownloadInv'
<1> USE DEF DownloadInv
<1>1. ASSUME DownloadFails PROVE pc' \in {"get", "err"}
  BY <1>1 DEF DownloadFails
<1>2. CASE Request
  <2>1. resp'.honest \in BOOLEAN
    <3>1. \E t, h : h \in BOOLEAN /\ resp' = [total |-> t, honest |-> h]
      BY <1>2 DEF Request
    <3>. QED  BY <3>1
  <2>2. partial' \in Bytes
    BY <1>2, <2>1 DEF Request, Bytes
  <2>. QED  BY <1>2, <2>2, QuietStep DEF Request, config, FileTypes, Places
<1>3. CASE Receive
  <2> DEFINE longer == [partial EXCEPT !.size = @ + 1]
  <2>1. longer \in Bytes
    BY <1>3 DEF Receive, FileTypes, Bytes
  <2>2. pc = "stream" /\ partial' \in {Missing, longer} /\ (pc' = "stream" => partial' = longer)
    <3>1. CASE longer.size > download_size_limit(resp.total)
      BY <1>1, <1>3, <3>1 DEF Receive
    <3>2. CASE ~(longer.size > download_size_limit(resp.total))
      BY <1>3, <3>2 DEF Receive
    <3>. QED  BY <3>1, <3>2
  <2>3. pc' \in {"stream", "get", "err"}
    BY <1>1, <1>3 DEF Receive
  <2> HIDE DEF longer
  <2>. QED  BY <1>3, <2>1, <2>2, <2>3, QuietStep DEF Receive, config, FileTypes, Places
<1>4. CASE Rename
  <2>1. partial \in Bytes
    BY <1>4 DEF Rename, FileTypes
  <2>. QED  BY <1>4, <2>1, WritePreserves DEF Rename, Places
<1>5. CASE RequestFails
  BY <1>1, <1>5, QuietStep DEF RequestFails, config, fs, FileTypes, Places
<1>6. CASE ReceiveFails
  BY <1>1, <1>6, QuietStep DEF ReceiveFails, config, fs, FileTypes, Places
<1>. QED  BY <1>2, <1>3, <1>4, <1>5, <1>6

\* The model file is gone, and with it whatever the marker says.
LEMMA RemovePreserves ==
  ASSUME DownloadInv, dest' = Missing, UNCHANGED <<config, skip, seg, partial, marker, existed>>,
         pc' \in {"err", "off"}, pc # "unpacking", blame \subseteq blame'
  PROVE  DownloadInv'
BY DEF DownloadInv, FileTypes, Places, HashedInv, SegInv, MarkerHonest, verification_cache_valid,
       ReadyIsIntact, config

LEMMA VerifyPreserves ==
  ASSUME DownloadInv, VerifyOk \/ VerifyFails \/ VerifyFailsUnremoved
  PROVE  DownloadInv'
<1> USE DEF DownloadInv
<1>1. CASE VerifyOk
  BY <1>1 DEF VerifyOk, config, fs, FileTypes, Places, HashedInv, SegInv, MarkerHonest,
              verification_cache_valid, HashMatches, ReadyIsIntact
<1>2. CASE VerifyFails
  <2>1. CASE existed
    BY <1>2, <2>1, QuietStep DEF VerifyFails, config, FileTypes, Places
  <2>2. CASE ~existed
    BY <1>2, <2>2, RemovePreserves DEF VerifyFails, FileTypes
  <2>. QED  BY <2>1, <2>2
<1>3. CASE VerifyFailsUnremoved
  BY <1>3, QuietStep DEF VerifyFailsUnremoved, config, fs, FileTypes, Places
<1>. QED  BY <1>1, <1>2, <1>3

LEMMA UserPreserves ==
  ASSUME DownloadInv, UserReplaces \/ UserRemoves
  PROVE  DownloadInv'
<1> USE DEF DownloadInv
<1>1. CASE UserReplaces
  <2>1. [size |-> FileSize, good |-> FALSE] \in Bytes
    BY SizesAreNaturals DEF Bytes
  <2>2. CASE pc # "stream"
    BY <1>1, <2>1, <2>2, WritePreserves DEF UserReplaces, FileTypes, Places
  <2>3. CASE pc = "stream"
    <3>1. FileTypes' /\ ~verification_cache_valid'
      BY <1>1, <2>1, WrittenFile DEF UserReplaces, FileTypes, verification_cache_valid, config
    <3>. QED  BY <1>1, <2>3, <3>1
              DEF UserReplaces, HashedInv, SegInv, MarkerHonest, ReadyIsIntact, config
  <2>. QED  BY <2>2, <2>3
<1>2. CASE UserRemoves
  BY <1>2, RemovePreserves DEF UserRemoves
<1>. QED  BY <1>1, <1>2

LEMMA DownloadPreserves == DownloadInv /\ [DownloadNext]_downloadVars => DownloadInv'
<1> SUFFICES ASSUME DownloadInv, [DownloadNext]_downloadVars PROVE DownloadInv'
  OBVIOUS
<1>1. CASE UNCHANGED downloadVars
  BY <1>1 DEF downloadVars, DownloadInv, FileTypes, HashedInv, SegInv, MarkerHonest, verification_cache_valid,
              HashMatches, ReadyIsIntact, Intact
<1>2. CASE Start
  BY <1>2, QuietStep DEF Start, config, fs, DownloadInv, FileTypes, Places
<1>3. CASE Look
  <2>1. CASE pc' # "ok"
    BY <1>3, <2>1, QuietStep DEF Look, config, fs, DownloadInv, FileTypes, Places
  <2>2. CASE pc' = "ok"
    <3>1. kind = "seg" /\ (seg = "full" \/ blame \cap {"unpack", "skip"} # {})
      BY <1>3, <2>2 DEF Look, DownloadInv, SegInv, FileTypes
    <3>2. FileTypes' /\ HashedInv' /\ SegInv' /\ MarkerHonest'
      BY <1>3, <2>2 DEF Look, config, fs, DownloadInv, FileTypes, Places, HashedInv, SegInv, MarkerHonest,
                        verification_cache_valid, HashMatches
    <3>. QED  BY <1>3, <3>1, <3>2 DEF Look, config, fs, DownloadInv, ReadyIsIntact, Intact
  <2>. QED  BY <2>1, <2>2
<1>4. CASE Unpack
  BY <1>4 DEF Unpack, config, DownloadInv, FileTypes, Places, HashedInv, SegInv, MarkerHonest,
              verification_cache_valid, HashMatches, ReadyIsIntact
<1>5. CASE Exit
  BY <1>5, QuietStep DEF Exit, config, fs, DownloadInv, FileTypes, Places
<1>6. CASE Crash
  BY <1>6 DEF Crash, config, DownloadInv, FileTypes, Places, HashedInv, SegInv, MarkerHonest,
              verification_cache_valid, HashMatches, ReadyIsIntact
<1>. QED  BY <1>1, <1>2, <1>3, <1>4, <1>5, <1>6, TrustPreserves, MarkPreserves, UnpackedPreserves,
             StreamPreserves, VerifyPreserves, UserPreserves DEF DownloadNext, ProcessStep

\* A start that skips the hash because of a marker uses a good file, whatever
\* the user, a kill or a torn write did: the marker names size and modification
\* time of bytes that were hashed.
THEOREM MarkersAreHonest == DownloadSpec => []MarkerHonest
<1>1. DownloadInv => MarkerHonest
  BY DEF DownloadInv
<1>. QED  BY <1>1, DownloadStarts, DownloadPreserves, PTL DEF DownloadSpec

\* An ensure function answers with the registered model, for any size of the
\* file and any number of faults, but for the exceptions that are on record.
THEOREM ReadyModelIsIntact == DownloadSpec => []ReadyIsIntact
<1>1. DownloadInv => ReadyIsIntact
  BY DEF DownloadInv
<1>. QED  BY <1>1, DownloadStarts, DownloadPreserves, PTL DEF DownloadSpec

-----------------------------------------------------------------------------
(***************************************************************************)
(* Sidecar.                                                                *)
(***************************************************************************)

Locations == {"idle", "wav", "lock", "spawn", "write", "blocked", "read", "ok", "err"}
Inside == {"spawn", "write", "blocked", "read"}
CallRecord == [pc : Locations, id : Nat, got : Nat]
LineKinds == {"result", "error", "missing", "null", "garbage", "binary", "half"}
Lines == [kind : LineKinds, id : Nat]

CallTypes ==
  /\ adapter \in {"llm", "asr"}
  /\ holder \in Callers \cup {None}
  /\ slot \in BOOLEAN /\ lost \in BOOLEAN /\ stray \in BOOLEAN
  /\ child \in {"up", "wedged", "dead"}
  /\ inbox \in Seq(Nat) /\ pipe \in Seq(Lines) /\ next_id \in Nat
  /\ call \in [Callers -> CallRecord]

\* The mutex is held by the call between spawn and reply.
HolderInv == \A c \in Callers : call[c].pc \in Inside <=> holder = c

\* Until pick_llm has chosen, only the starting engine calls.
StartInv ==
  provider = "unset" =>
    adapter = "llm" /\ \A c \in Callers \ {Starter} : call[c].pc = "idle"

Reading == \E c \in Callers : call[c].pc = "read"

\* An empty slot has no stream; a populated one, unless the child has written on
\* its own account, carries one line during a read and none otherwise.
StreamInv ==
  /\ ~lost
  /\ \A c \in Callers : call[c].pc \in {"write", "blocked", "read"} => slot
  /\ ~slot => child = "dead" /\ inbox = <<>> /\ pipe = <<>> /\ ~stray
  /\ ~stray => IF Reading THEN Len(inbox) + Len(pipe) = 1
               ELSE inbox = <<>> /\ pipe = <<>>

SidecarInv == CallTypes /\ HolderInv /\ StartInv /\ StreamInv /\ ReplyMatchesCall

\* A step of call c to the place to; a call that goes to "ok" has the answer to its request.
Moves(c, to) ==
  /\ call' \in [Callers -> CallRecord]
  /\ call'[c].pc = to
  /\ to = "ok" => call'[c].got = call'[c].id
  /\ \A d \in Callers \ {c} : call'[d] = call[d]

LEMMA RecordMoves ==
  ASSUME CallTypes, NEW c \in Callers, NEW r \in CallRecord, call' = [call EXCEPT ![c] = r],
         r.pc = "ok" => r.got = r.id
  PROVE  Moves(c, r.pc)
BY DEF Moves, CallTypes

LEMMA GotoMoves ==
  ASSUME CallTypes, NEW c \in Callers, NEW to \in Locations \ {"ok"}, Goto(c, to)
  PROVE  Moves(c, to)
<1> DEFINE r == [call[c] EXCEPT !.pc = to]
<1>1. r \in CallRecord /\ r.pc = to
  BY DEF CallTypes, CallRecord
<1>2. call' = [call EXCEPT ![c] = r]
  BY DEF Goto
<1> HIDE DEF r
<1>3. Moves(c, r.pc)
  BY <1>1, <1>2, RecordMoves
<1>. QED  BY <1>1, <1>3

LEMMA FieldsMove ==
  ASSUME CallTypes, NEW c \in Callers, NEW to \in Locations, NEW id \in Nat, NEW got \in Nat,
         call' = [call EXCEPT ![c] = [pc |-> to, id |-> id, got |-> got]],
         to = "ok" => got = id
  PROVE  Moves(c, to)
<1> DEFINE r == [pc |-> to, id |-> id, got |-> got]
<1>1. r \in CallRecord /\ r.pc = to /\ r.id = id /\ r.got = got
  BY DEF CallRecord
<1>2. call' = [call EXCEPT ![c] = r]
  OBVIOUS
<1> HIDE DEF r
<1>3. Moves(c, r.pc)
  BY <1>1, <1>2, RecordMoves
<1>. QED  BY <1>1, <1>3

LEMMA ReturnMoves ==
  ASSUME CallTypes, NEW c \in Callers, NEW to \in Locations, NEW got \in Nat,
         Return(c, to, got), to = "ok" => got = call[c].id
  PROVE  Moves(c, to) /\ holder' = None
<1>1. call[c].id \in Nat
  BY DEF CallTypes, CallRecord
<1>. QED  BY <1>1, FieldsMove DEF Return

LEMMA IdleMoves ==
  ASSUME CallTypes, NEW c \in Callers, NEW to \in Locations \ {"ok"},
         call' = [call EXCEPT ![c] = [Idle EXCEPT !.pc = to]]
  PROVE  Moves(c, to)
<1>1. [Idle EXCEPT !.pc = to] = [pc |-> to, id |-> 0, got |-> 0]
  BY DEF Idle
<1>. QED  BY <1>1, FieldsMove

\* A call outside the mutex that stays outside and leaves the child alone.
LEMMA OutsideStep ==
  ASSUME SidecarInv, NEW c \in Callers, NEW to \in Locations \ Inside, Moves(c, to),
         call[c].pc \notin Inside, UNCHANGED <<adapter, holder, childVars, next_id>>,
         StartInv'
  PROVE  SidecarInv'
<1> USE DEF SidecarInv, Moves
<1>1. CallTypes'
  BY DEF CallTypes, childVars
<1>2. HolderInv'
  BY DEF HolderInv
<1>3. Reading' <=> Reading
  BY DEF Reading, Inside
<1>4. StreamInv'
  BY <1>3 DEF StreamInv, childVars, Inside
<1>5. ReplyMatchesCall'
  BY DEF ReplyMatchesCall
<1>. QED  BY <1>1, <1>2, <1>4, <1>5

\* The holder gives up and drops the child.
LEMMA DropStep ==
  ASSUME SidecarInv, NEW c \in Callers, call[c].pc \in Inside,
         ClearSlot, Moves(c, "err"), holder' = None,
         UNCHANGED <<adapter, provider>>, next_id' \in Nat
  PROVE  SidecarInv'
<1> USE DEF SidecarInv, Moves
<1>1. CallTypes'
  <2>1. <<>> \in Seq(Nat) /\ <<>> \in Seq(Lines)
    OBVIOUS
  <2>. QED  BY <2>1 DEF CallTypes, ClearSlot
<1>2. holder = c /\ \A d \in Callers \ {c} : call[d].pc \notin Inside
  BY DEF HolderInv
<1>3. HolderInv'
  BY <1>2, StarterIsACaller DEF HolderInv, Inside
<1>4. ~Reading'
  BY <1>2 DEF Reading, Inside
<1>5. StreamInv'
  BY <1>2, <1>4 DEF StreamInv, ClearSlot, Inside
<1>6. StartInv' /\ ReplyMatchesCall'
  BY DEF StartInv, ReplyMatchesCall, Inside
<1>. QED  BY <1>1, <1>3, <1>5, <1>6

\* The head of a queue of lines or of ids, and what it leaves.
LEMMA QueueFacts ==
  /\ \A q \in Seq(Nat), n \in Nat : Append(q, n) \in Seq(Nat) /\ Len(Append(q, n)) = Len(q) + 1
  /\ \A q \in Seq(Lines), l \in Lines :
       Append(q, l) \in Seq(Lines) /\ Len(Append(q, l)) = Len(q) + 1
  /\ \A q \in Seq(Nat) : q # <<>> => /\ Head(q) \in Nat /\ Tail(q) \in Seq(Nat)
                                     /\ Len(Tail(q)) = Len(q) - 1
  /\ \A q \in Seq(Lines) : q # <<>> => /\ Head(q) \in Lines /\ Tail(q) \in Seq(Lines)
                                       /\ Len(Tail(q)) = Len(q) - 1
OBVIOUS

LEMMA LengthZero ==
  /\ \A q \in Seq(Nat) : Len(q) \in Nat /\ (Len(q) = 0 <=> q = <<>>)
  /\ \A q \in Seq(Lines) : Len(q) \in Nat /\ (Len(q) = 0 <=> q = <<>>)
OBVIOUS

\* What the child does, it does to its own streams.
LEMMA ChildStep ==
  ASSUME SidecarInv, slot,
         UNCHANGED <<adapter, provider, holder, slot, lost, call, next_id>>,
         CallTypes', stray => stray',
         ~stray' => Len(inbox') + Len(pipe') = Len(inbox) + Len(pipe)
  PROVE  SidecarInv'
<1> USE DEF SidecarInv
<1>1. HolderInv' /\ StartInv' /\ ReplyMatchesCall' /\ (Reading' <=> Reading)
  BY DEF HolderInv, StartInv, ReplyMatchesCall, Reading
<1>2. ~stray' => IF Reading THEN Len(inbox') + Len(pipe') = 1 ELSE inbox' = <<>> /\ pipe' = <<>>
  BY LengthZero DEF StreamInv, CallTypes
<1>3. StreamInv'
  BY <1>1, <1>2 DEF StreamInv
<1>. QED  BY <1>1, <1>3

LEMMA SidecarPreserves == SidecarInv /\ [Next]_vars => SidecarInv'
<1> SUFFICES ASSUME SidecarInv, [Next]_vars PROVE SidecarInv'
  OBVIOUS
<1> CallTypes /\ HolderInv /\ StartInv /\ StreamInv /\ ReplyMatchesCall
  BY DEF SidecarInv
<1>1. ASSUME NEW c \in Callers, probe(c) \/ complete(c) \/ transcribe(c) PROVE SidecarInv'
  <2>1. PICK to \in {"lock", "wav"} : Enter(c, to) /\ (provider = "unset" => c = Starter)
    BY <1>1 DEF probe, complete, transcribe, StartInv
  <2>2. Moves(c, to)
    BY <2>1, IdleMoves DEF Enter, Locations
  <2>3. StartInv'
    BY <2>1, <2>2 DEF StartInv, Enter, Moves
  <2>. QED
    BY <2>1, <2>2, <2>3, OutsideStep DEF Enter, Locations, Inside
<1>2. ASSUME NEW c \in Callers, write_temp_wav(c) PROVE SidecarInv'
  <2>1. PICK to \in {"lock", "err"} : Goto(c, to)
    BY <1>2 DEF write_temp_wav
  <2>2. Moves(c, to)
    BY <2>1, GotoMoves DEF Locations
  <2>3. StartInv'
    BY <1>2, <2>2 DEF StartInv, write_temp_wav, Moves
  <2>. QED
    BY <1>2, <2>1, <2>2, <2>3, OutsideStep DEF write_temp_wav, Locations, Inside
<1>3. ASSUME NEW c \in Callers, Lock(c) PROVE SidecarInv'
  <2>1. Moves(c, "spawn")
    BY <1>3, GotoMoves DEF Lock, Locations
  <2>2. call[c].pc = "lock" /\ holder = None /\ holder' = c
        /\ UNCHANGED <<adapter, provider, childVars, next_id>>
    BY <1>3 DEF Lock
  <2>3. CallTypes'
    BY <2>1, <2>2 DEF CallTypes, Moves, childVars
  <2>4. HolderInv'
    BY <2>1, <2>2, StarterIsACaller DEF HolderInv, Moves, Inside
  <2>5. StartInv'
    BY <2>1, <2>2 DEF StartInv, Moves
  <2>6. ReplyMatchesCall' /\ (Reading' <=> Reading)
    BY <2>1, <2>2 DEF ReplyMatchesCall, Moves, Reading
  <2>7. StreamInv'
    BY <2>1, <2>2, <2>6 DEF StreamInv, Moves, childVars
  <2>. QED  BY <2>3, <2>4, <2>5, <2>6, <2>7 DEF SidecarInv
<1>4. ASSUME NEW c \in Callers, ensure_spawned(c) PROVE SidecarInv'
  <2>1. call[c].pc = "spawn" /\ UNCHANGED <<adapter, provider, next_id>>
    BY <1>4 DEF ensure_spawned
  <2>2. holder = c /\ ~Reading /\ \A d \in Callers \ {c} : call[d].pc \notin Inside
    BY <2>1 DEF HolderInv, Reading, Inside
  <2>3. CASE Goto(c, "write") /\ slot' /\ slot' \in BOOLEAN /\ child' \in {"up", child}
             /\ UNCHANGED <<holder, inbox, pipe, lost, stray>>
    <3>1. Moves(c, "write")
      BY <2>3, GotoMoves DEF Locations
    <3>2. CallTypes'
      BY <2>1, <2>3, <3>1 DEF CallTypes, Moves
    <3>3. HolderInv' /\ StartInv' /\ ReplyMatchesCall' /\ ~Reading'
      BY <2>1, <2>2, <2>3, <3>1
      DEF HolderInv, StartInv, ReplyMatchesCall, Reading, Moves, Inside
    <3>4. StreamInv'
      BY <2>2, <2>3, <3>1, <3>3 DEF StreamInv, Moves
    <3>. QED  BY <3>2, <3>3, <3>4 DEF SidecarInv
  <2>4. CASE Return(c, "err", 0) /\ UNCHANGED childVars
    <3>1. Moves(c, "err") /\ holder' = None
      BY <2>4, ReturnMoves DEF Locations
    <3>2. CallTypes'
      BY <2>1, <2>4, <3>1 DEF CallTypes, Moves, childVars
    <3>3. HolderInv' /\ StartInv' /\ ReplyMatchesCall' /\ ~Reading'
      BY <2>1, <2>2, <3>1, StarterIsACaller
      DEF HolderInv, StartInv, ReplyMatchesCall, Reading, Moves, Inside
    <3>4. StreamInv'
      BY <2>2, <2>4, <3>1, <3>3 DEF StreamInv, Moves, childVars
    <3>. QED  BY <3>2, <3>3, <3>4 DEF SidecarInv
  <2>. QED
    BY <1>4, <2>3, <2>4 DEF ensure_spawned, CallTypes, childVars
<1>5. ASSUME NEW c \in Callers, WriteRequest(c) PROVE SidecarInv'
  \* The one line of this read is asked for.
  <2>1. call[c].pc = "write" /\ next_id' = next_id + 1 /\ inbox' = Append(inbox, next_id)
        /\ UNCHANGED <<adapter, provider, holder, slot, child, pipe, lost, stray>>
    BY <1>5 DEF WriteRequest
  <2>2. Moves(c, "read")
    <3>1. call[c].got \in Nat /\ next_id \in Nat
      BY DEF CallTypes, CallRecord
    <3>. QED  BY <1>5, <3>1, FieldsMove DEF WriteRequest, Locations
  <2>3. slot /\ ~Reading
    BY <2>1 DEF StreamInv, HolderInv, Reading, Inside
  <2>4. Reading'
    BY <2>2 DEF Reading, Moves
  <2>5. inbox' \in Seq(Nat) /\ Len(inbox') = Len(inbox) + 1
    BY <2>1, QueueFacts DEF CallTypes
  <2>6. CallTypes'
    BY <2>1, <2>2, <2>5 DEF CallTypes, Moves
  <2>7. HolderInv' /\ StartInv' /\ ReplyMatchesCall'
    BY <2>1, <2>2 DEF HolderInv, StartInv, ReplyMatchesCall, Moves, Inside
  <2>8. ~stray' => Len(inbox') + Len(pipe') = 1
    BY <2>1, <2>3, <2>5, LengthZero DEF StreamInv, CallTypes
  <2>9. StreamInv'
    BY <2>1, <2>2, <2>3, <2>4, <2>8 DEF StreamInv, Moves
  <2>. QED  BY <2>6, <2>7, <2>9 DEF SidecarInv
<1>6. ASSUME NEW c \in Callers, WriteFails(c) \/ ReadEof(c) \/ Timeout(c) PROVE SidecarInv'
  <2>1. call[c].pc \in Inside /\ ClearSlot /\ Return(c, "err", 0)
        /\ UNCHANGED <<adapter, provider>> /\ next_id' \in Nat
    BY <1>6 DEF WriteFails, ReadEof, Timeout, Inside, CallTypes
  <2>2. Moves(c, "err") /\ holder' = None
    BY <2>1, ReturnMoves DEF Locations
  <2>. QED  BY <2>1, <2>2, DropStep
<1>7. ASSUME NEW c \in Callers, ReadLine(c) PROVE SidecarInv'
  <2>1. call[c].pc = "read" /\ pipe # <<>> /\ UNCHANGED <<adapter, provider, next_id>>
    BY <1>7 DEF ReadLine
  <2>2. Head(pipe) \in Lines /\ Tail(pipe) \in Seq(Lines) /\ Len(Tail(pipe)) = Len(pipe) - 1
    BY <2>1, QueueFacts DEF CallTypes
  <2>3. Head(pipe).id \in Nat
    BY <2>2 DEF Lines
  <2>4. CASE Return(c, "err", 0) /\ ClearSlot
    <3>1. Moves(c, "err") /\ holder' = None
      BY <2>4, ReturnMoves DEF Locations
    <3>. QED  BY <2>1, <2>4, <3>1, DropStep DEF Inside, CallTypes
  <2>5. CASE /\ pipe' = Tail(pipe) /\ UNCHANGED <<slot, child, inbox, lost, stray>>
             /\ \/ Return(c, "ok", Head(pipe).id) /\ Head(pipe).id = call[c].id
                \/ Return(c, "err", 0)
    <3>1. PICK to \in {"ok", "err"} : Moves(c, to) /\ holder' = None
      BY <2>3, <2>5, ReturnMoves DEF Locations
    <3>2. holder = c /\ slot /\ Reading /\ \A d \in Callers \ {c} : call[d].pc \notin Inside
      BY <2>1 DEF HolderInv, StreamInv, Reading, Inside
    <3>3. ~Reading'
      BY <3>1, <3>2 DEF Reading, Moves, Inside
    <3>4. CallTypes'
      BY <2>1, <2>2, <2>5, <3>1 DEF CallTypes, Moves
    <3>5. HolderInv' /\ StartInv' /\ ReplyMatchesCall'
      BY <2>1, <3>1, <3>2, StarterIsACaller
      DEF HolderInv, StartInv, ReplyMatchesCall, Moves, Inside
    \* Nothing is left for the next read.
    <3>6. ~stray' => inbox' = <<>> /\ pipe' = <<>>
      BY <2>1, <2>2, <2>5, <3>2, LengthZero DEF StreamInv, CallTypes
    <3>7. StreamInv'
      BY <2>5, <3>1, <3>2, <3>3, <3>6 DEF StreamInv, Moves
    <3>. QED  BY <3>4, <3>5, <3>7 DEF SidecarInv
  <2>. QED
    BY <1>7, <2>4, <2>5 DEF ReadLine, IsReplyTo
<1>8. ASSUME NEW c \in Callers, pick_llm(c) PROVE SidecarInv'
  <2>1. provider = "unset" /\ call[c].pc \in {"ok", "err"} /\ UNCHANGED <<adapter, holder, next_id>>
    BY <1>8 DEF pick_llm
  <2>2. call' = [call EXCEPT ![c] = [Idle EXCEPT !.pc = "idle"]]
    BY <1>8 DEF pick_llm, Idle
  <2>3. Moves(c, "idle")
    BY <2>2, IdleMoves DEF Locations
  <2>4. \A d \in Callers : call[d].pc \notin Inside
    BY <2>1 DEF StartInv, Inside
  <2>5. provider' # "unset"
    BY <1>8 DEF pick_llm
  <2>6. CASE UNCHANGED childVars
    <3>1. StartInv'
      BY <2>5 DEF StartInv
    <3>. QED
      BY <2>1, <2>3, <2>6, <3>1, OutsideStep DEF Locations, Inside
  <2>7. CASE ClearSlot
    <3>1. CallTypes'
      <4>1. <<>> \in Seq(Nat) /\ <<>> \in Seq(Lines)
        OBVIOUS
      <4>. QED  BY <2>1, <2>3, <2>7, <4>1 DEF CallTypes, ClearSlot, Moves
    <3>2. HolderInv' /\ StartInv' /\ ReplyMatchesCall' /\ ~Reading'
      BY <2>1, <2>3, <2>4, <2>5
      DEF HolderInv, StartInv, ReplyMatchesCall, Reading, Moves, Inside
    <3>3. StreamInv'
      BY <2>3, <2>4, <2>7, <3>2 DEF StreamInv, ClearSlot, Moves, Inside
    <3>. QED  BY <3>1, <3>2, <3>3 DEF SidecarInv
  <2>. QED  BY <1>8, <2>6, <2>7 DEF pick_llm
<1>9. ASSUME NEW c \in Callers, Done(c) PROVE SidecarInv'
  <2>1. call' = [call EXCEPT ![c] = [Idle EXCEPT !.pc = "idle"]]
    BY <1>9 DEF Done, Idle
  <2>2. Moves(c, "idle")
    BY <2>1, IdleMoves DEF Locations
  <2>3. StartInv'
    BY <1>9 DEF Done, StartInv
  <2>. QED
    BY <1>9, <2>2, <2>3, OutsideStep DEF Done, Locations, Inside
<1>10. CASE ChildAnswers
  <2>1. PICK k \in LineKinds : pipe' = Append(pipe, Line(k, Head(inbox)))
    BY <1>10 DEF ChildAnswers, ChildSays, LineKinds
  <2>2. /\ slot /\ inbox # <<>> /\ inbox' = Tail(inbox)
        /\ UNCHANGED <<adapter, provider, holder, slot, child, next_id, call, lost, stray>>
    BY <1>10 DEF ChildAnswers, ChildSays
  <2>3. Head(inbox) \in Nat /\ Tail(inbox) \in Seq(Nat) /\ Len(Tail(inbox)) = Len(inbox) - 1
    BY <2>2, QueueFacts DEF CallTypes
  <2>4. Line(k, Head(inbox)) \in Lines
    BY <2>3 DEF Line, Lines
  <2>5. pipe' \in Seq(Lines) /\ Len(pipe') = Len(pipe) + 1
    BY <2>1, <2>4, QueueFacts DEF CallTypes
  <2>6. CallTypes'
    BY <2>2, <2>3, <2>5 DEF CallTypes
  <2>7. Len(inbox') + Len(pipe') = Len(inbox) + Len(pipe)
    BY <2>2, <2>3, <2>5, LengthZero DEF CallTypes
  <2>. QED  BY <2>2, <2>6, <2>7, ChildStep
<1>11. CASE ChildStray
  <2>1. PICK id \in 1 .. (next_id - 1), k \in {"result", "garbage"} :
          pipe' = Append(pipe, Line(k, id))
    BY <1>11 DEF ChildStray
  <2>2. slot /\ stray' = TRUE
        /\ UNCHANGED <<adapter, provider, holder, slot, child, inbox, next_id, call, lost>>
    BY <1>11 DEF ChildStray
  <2>3. Line(k, id) \in Lines
    BY DEF Line, Lines, LineKinds, CallTypes
  <2>4. CallTypes'
    BY <2>1, <2>2, <2>3, QueueFacts DEF CallTypes
  <2>. QED  BY <2>2, <2>4, ChildStep
<1>12. CASE ChildHangs \/ ChildExits
  <2>1. slot /\ child' \in {"wedged", "dead"}
        /\ UNCHANGED <<adapter, provider, holder, slot, inbox, pipe, next_id, call, lost, stray>>
    BY <1>12 DEF ChildHangs, ChildExits
  <2>2. CallTypes'
    BY <2>1 DEF CallTypes
  <2>. QED  BY <2>1, <2>2, ChildStep
<1>13. CASE UNCHANGED vars
  BY <1>13 DEF vars, SidecarInv, CallTypes, HolderInv, StartInv, StreamInv, Reading, ReplyMatchesCall
<1>14. ASSUME NEW c \in Callers, WriteBlocks(c) PROVE SidecarInv'
  \* The call stays inside, and has asked for no line yet.
  <2>1. /\ call[c].pc = "write" /\ Moves(c, "blocked")
        /\ UNCHANGED <<adapter, provider, holder, childVars, next_id>>
    BY <1>14, GotoMoves DEF WriteBlocks, Locations
  <2>2. slot /\ (Reading' <=> Reading)
    BY <2>1 DEF StreamInv, Reading, Moves
  <2>3. CallTypes' /\ HolderInv' /\ ReplyMatchesCall'
    BY <2>1 DEF CallTypes, HolderInv, ReplyMatchesCall, Moves, Inside, childVars
  <2>4. StartInv'
    BY <2>1 DEF StartInv, Moves
  <2>5. StreamInv'
    BY <2>1, <2>2 DEF StreamInv, Moves, childVars
  <2>. QED  BY <2>3, <2>4, <2>5 DEF SidecarInv
<1>. QED
  BY <1>1, <1>2, <1>3, <1>4, <1>5, <1>6, <1>7, <1>8, <1>9, <1>10, <1>11, <1>12, <1>13, <1>14
  DEF Next, CallStep

LEMMA SidecarKept == Spec => []SidecarInv
<1>1. Init => SidecarInv
  <2> SUFFICES ASSUME Init PROVE SidecarInv
    OBVIOUS
  <2>1. Idle \in CallRecord /\ Idle.pc = "idle"
    BY DEF Idle, CallRecord, Locations
  <2>2. <<>> \in Seq(Nat) /\ <<>> \in Seq(Lines)
    OBVIOUS
  <2>3. \A c \in Callers : call[c] = Idle
    BY DEF Init
  <2>4. CallTypes
    BY <2>1, <2>2 DEF Init, CallTypes
  <2>5. HolderInv /\ StartInv /\ StreamInv /\ ReplyMatchesCall
    BY <2>1, <2>3, StarterIsACaller
    DEF Init, HolderInv, StartInv, StreamInv, ReplyMatchesCall, Reading, Inside
  <2>. QED  BY <2>4, <2>5 DEF SidecarInv
<1>. QED  BY <1>1, SidecarPreserves, PTL DEF Spec

\* A caller gets the reply to its own request, however many threads share the
\* helper and whatever it writes, late, twice or unasked.
THEOREM RepliesArePaired == Spec => []ReplyMatchesCall
BY SidecarKept, PTL DEF SidecarInv

\* The mutex is never free beside a populated slot whose stream is broken or
\* holds what another call left behind.
THEOREM SlotStaysUsable == Spec => []IdleSlotUsable
<1>1. SidecarInv => IdleSlotUsable
  BY StarterIsACaller DEF SidecarInv, IdleSlotUsable, StreamInv, HolderInv, Reading, Inside
<1>. QED  BY <1>1, SidecarKept, PTL

=============================================================================
