---------------------------- MODULE ModelDownload ----------------------------
(***************************************************************************)
(* Getting a model file: crates/panops-portable/src/model.rs.              *)
(*                                                                         *)
(* ensure_model, ensure_vad_model and the two halves of ensure_diar_models *)
(* run one after the other when the engine (or the command line) starts.   *)
(* They differ in when they trust a file that is already there, so the     *)
(* module follows one of them, chosen in DownloadInit, over any number of  *)
(* starts of the process, each of which may be killed at any step.         *)
(*                                                                         *)
(* A file is its bytes, told apart by length and by whether they are the   *)
(* registered ones, and its modification time.  The progress log lines are *)
(* left out.                                                               *)
(***************************************************************************)
EXTENDS Integers, FiniteSets

CONSTANTS
  FileSize,                  \* length of the registered file
  DOWNLOAD_SIZE_GRACE,
  MAX_MODEL_DOWNLOAD_BYTES,
  MaxFaults,                 \* bound on what goes wrong from outside
  Missing, Torn              \* no file or Content-Length; a marker that is no JSON

ASSUME SizesAreNaturals ==
  /\ FileSize \in Nat \ {0} /\ DOWNLOAD_SIZE_GRACE \in Nat /\ MaxFaults \in Nat
  /\ MAX_MODEL_DOWNLOAD_BYTES \in Nat /\ FileSize <= MAX_MODEL_DOWNLOAD_BYTES

\* "bare": ensure_model and ensure_vad_model.  "emb": the embedding model of
\* ensure_diar_models.  "seg": its segmentation model, which comes in a tarball.
Kinds == {"bare", "emb", "seg"}

VARIABLES
  kind,        \* which of the functions runs
  override,    \* PANOPS_MODEL, PANOPS_VAD_MODEL, PANOPS_DIAR_EMB, PANOPS_DIAR_SEG
  skip,        \* PANOPS_SKIP_MODEL_CHECKSUM, as this process was started
  dest,        \* Missing or a file: the model, for "seg" the tarball
  seg,         \* the extracted model: "none", "torn" or "full"
  partial,     \* Missing or the bytes of dest.with_extension("partial")
  marker,      \* Missing, Torn or the .verified record
  pc,          \* where the process is
  existed,     \* dest existed when the function looked
  url,         \* the source being tried
  resp,        \* the response being read: [total, honest]
  faults,      \* what has gone wrong so far, at most MaxFaults
  blame        \* history: why a file that is no good may be left in place

fs == <<dest, seg, partial, marker>>
config == <<kind, override>>
downloadVars ==
  <<kind, override, skip, dest, seg, partial, marker, pc, existed, url, resp, faults, blame>>

Times == 1 .. 3
NoBytes == [size |-> 0, good |-> TRUE]
NoResp == [total |-> Missing, honest |-> TRUE]

\* The registered sha256 belongs to one sequence of bytes.
HashMatches(f) == f.good /\ f.size = FileSize

\* A write gives the file a modification time of its own.
FreshTime ==
  CHOOSE t \in Times : /\ dest # Missing => dest.mtime # t
                       /\ marker \notin {Missing, Torn} => marker.mtime # t

FileOf(b) == [size |-> b.size, good |-> b.good, mtime |-> FreshTime]

\* default_model_path and its siblings: an override names the user's own path,
\* with the user's own file or with none.
DownloadInit ==
  /\ kind \in Kinds /\ override \in BOOLEAN
  /\ dest \in IF override /\ kind # "seg"
              THEN {Missing, [size |-> FileSize, good |-> FALSE, mtime |-> 1]} ELSE {Missing}
  /\ seg \in IF override /\ kind = "seg" THEN {"none", "full"} ELSE {"none"}
  /\ skip = FALSE /\ partial = Missing /\ marker = Missing
  /\ pc = "off" /\ existed = FALSE /\ url = "mirror" /\ resp = NoResp
  /\ faults = 0 /\ blame = {}

\* Something outside the program goes wrong.
Fault == faults < MaxFaults /\ faults' = faults + 1
NoFault == UNCHANGED faults

-----------------------------------------------------------------------------
(***************************************************************************)
(* The process starts, and looks for the file.                             *)
(***************************************************************************)

Start ==
  /\ pc = "off"
  /\ pc' = "look"
  /\ skip' \in BOOLEAN
  /\ UNCHANGED <<config, fs, existed, url, resp, faults, blame>>

\* dest.exists(), and for the tarball seg.exists() before it.
Look ==
  /\ pc = "look"
  /\ existed' = (dest # Missing)
  /\ pc' = IF kind = "seg" /\ seg # "none" THEN "ok"
           ELSE IF kind = "seg" /\ override THEN "err"
           ELSE IF dest # Missing THEN "trust" ELSE "get"
  /\ url' = "mirror"
  /\ UNCHANGED <<config, skip, fs, resp, faults, blame>>

\* A marker is believed whatever the file looks like now.
MarkerAlwaysBelieved == marker \notin {Missing, Torn} /\ dest # Missing

\* The modification time is not compared.
MarkerComparesSize == marker \notin {Missing, Torn} /\ dest # Missing /\ marker.size = dest.size

\* The sha256 in the marker is the registered one: the table is fixed.
verification_cache_valid ==
  /\ marker \notin {Missing, Torn} /\ dest # Missing
  /\ marker.size = dest.size /\ marker.mtime = dest.mtime

\* When the file is hashed.  ensure_model always hashes what it downloaded; the
\* two of ensure_diar_models do not when the checksum is to be skipped.
MustVerify ==
  CASE kind = "bare" -> ~existed \/ (~override /\ ~skip)
    [] kind = "emb" -> ~skip /\ (~existed \/ ~override)
    [] kind = "seg" -> ~skip

\* Only ensure_model ignores the marker for a fresh download.
MayUseCache == kind # "bare" \/ existed

AfterVerify == IF kind = "seg" THEN "unpack" ELSE "ok"

Trust ==
  /\ pc = "trust"
  /\ pc' = IF MustVerify /\ ~(MayUseCache /\ verification_cache_valid) THEN "verify"
           ELSE AfterVerify
  /\ blame' = IF ~MustVerify /\ ~existed /\ ~HashMatches(dest) THEN blame \cup {"skip"}
              ELSE blame
  /\ UNCHANGED <<config, skip, fs, existed, url, resp, faults>>

-----------------------------------------------------------------------------
(***************************************************************************)
(* download, from the mirror and then from upstream.                       *)
(***************************************************************************)

\* download_with_fallback: the mirror's failure is logged, upstream's returned.
DownloadFails ==
  IF url = "mirror" THEN url' = "upstream" /\ pc' = "get"
  ELSE pc' = "err" /\ UNCHANGED url

download_size_limit(total) ==
  IF total = Missing THEN MAX_MODEL_DOWNLOAD_BYTES
  ELSE IF total + DOWNLOAD_SIZE_GRACE < MAX_MODEL_DOWNLOAD_BYTES
       THEN total + DOWNLOAD_SIZE_GRACE ELSE MAX_MODEL_DOWNLOAD_BYTES

\* Directory, request, status, Content-Length or File::create goes wrong.
RequestFails ==
  /\ pc = "get" /\ Fault
  /\ DownloadFails
  /\ UNCHANGED <<config, skip, fs, existed, resp, blame>>

\* File::create truncates what an interrupted download left.
Request ==
  /\ pc = "get"
  /\ \/ \E t \in {Missing, FileSize} : resp' = [total |-> t, honest |-> TRUE] /\ NoFault
     \/ \E t \in {Missing} \cup 0 .. MAX_MODEL_DOWNLOAD_BYTES :
          resp' = [total |-> t, honest |-> FALSE] /\ Fault
  /\ partial' = [size |-> 0, good |-> resp'.honest]
  /\ pc' = "stream"
  /\ UNCHANGED <<config, skip, dest, seg, marker, existed, url, blame>>

BodyEnds ==
  /\ resp.honest => partial.size = FileSize
  /\ resp.total # Missing => partial.size >= resp.total

\* One read and write_all; beyond the limit the partial file is removed, or
\* stays when even that fails.
Receive ==
  /\ pc = "stream"
  /\ resp.honest => partial.size < FileSize
  /\ LET longer == [partial EXCEPT !.size = @ + 1] IN
     IF longer.size > download_size_limit(resp.total)
     THEN /\ (partial' = Missing /\ NoFault) \/ (partial' = longer /\ Fault)
          /\ DownloadFails
     ELSE partial' = longer /\ NoFault /\ UNCHANGED <<pc, url>>
  /\ UNCHANGED <<config, skip, dest, seg, marker, existed, resp, blame>>

\* A read, write, fsync or rename error leaves the partial file.
ReceiveFails ==
  /\ pc = "stream" /\ Fault
  /\ DownloadFails
  /\ UNCHANGED <<config, skip, fs, existed, resp, blame>>

\* n == 0: fsync, and rename over dest.
Rename ==
  /\ pc = "stream" /\ BodyEnds
  /\ dest' = FileOf(partial)
  /\ partial' = Missing
  /\ resp' = NoResp
  /\ pc' = "trust"
  /\ UNCHANGED <<config, skip, seg, marker, existed, url, faults, blame>>

-----------------------------------------------------------------------------
(***************************************************************************)
(* verify_sha256 and mark_verified.                                        *)
(***************************************************************************)

VerifyOk ==
  /\ pc = "verify" /\ dest # Missing /\ HashMatches(dest)
  /\ pc' = "mark"
  /\ UNCHANGED <<config, skip, fs, existed, url, resp, faults, blame>>

Mismatch == dest = Missing \/ ~HashMatches(dest)

\* A mismatch that keeps the download.
VerifyFailsKeepsFile ==
  /\ pc = "verify"
  /\ (Mismatch /\ NoFault) \/ Fault
  /\ pc' = "err"
  /\ UNCHANGED <<config, skip, fs, existed, url, resp, blame>>

\* A mismatch or a read error.  Only what this call downloaded is removed.
VerifyFails ==
  /\ pc = "verify"
  /\ (Mismatch /\ NoFault) \/ Fault
  /\ dest' = IF existed THEN dest ELSE Missing
  /\ pc' = "err"
  /\ UNCHANGED <<config, skip, seg, partial, marker, existed, url, resp, blame>>

\* A removal that fails is ignored.
VerifyFailsUnremoved ==
  /\ pc = "verify" /\ ~existed /\ Mismatch /\ Fault
  /\ pc' = "err"
  /\ blame' = blame \cup {"remove"}
  /\ UNCHANGED <<config, skip, fs, existed, url, resp>>

\* The marker is taken from the file as it is now, after it was hashed.  Not
\* being able to stat the file or to write the marker is ignored.
mark_verified ==
  /\ pc = "mark"
  /\ \/ /\ dest # Missing
        /\ marker' = [size |-> dest.size, mtime |-> dest.mtime] /\ NoFault
     \/ marker' \in {marker, Torn} /\ Fault
  /\ pc' = AfterVerify
  /\ UNCHANGED <<config, skip, dest, seg, partial, existed, url, resp, blame>>

\* tar::Archive::unpack writes the model file in place.
Unpack ==
  /\ pc = "unpack"
  /\ \/ dest # Missing /\ seg' = "torn" /\ pc' = "unpacking" /\ NoFault
     \/ seg' = seg /\ pc' = "err" /\ Fault
  /\ UNCHANGED <<config, skip, dest, partial, marker, existed, url, resp, blame>>

\* An archive that is not the registered one, which only a skipped checksum
\* lets through, unpacks to something else or fails.
Unpacked ==
  /\ pc = "unpacking"
  /\ \/ HashMatches(dest) /\ seg' = "full" /\ pc' = "ok" /\ NoFault /\ UNCHANGED blame
     \/ ~HashMatches(dest) /\ UNCHANGED seg /\ pc' = "ok" /\ NoFault /\ blame' = blame \cup {"skip"}
     \/ UNCHANGED seg /\ pc' = "err" /\ Fault /\ blame' = blame \cup {"unpack"}
  /\ UNCHANGED <<config, skip, dest, partial, marker, existed, url, resp>>

-----------------------------------------------------------------------------
(***************************************************************************)
(* Around the function.                                                    *)
(***************************************************************************)

\* The process ends and will be started again.
Exit ==
  /\ pc \in {"ok", "err"}
  /\ pc' = "off"
  /\ UNCHANGED <<config, skip, fs, existed, url, resp, faults, blame>>

FreshAndBad == pc \in {"trust", "verify"} /\ ~existed /\ dest # Missing /\ ~HashMatches(dest)

\* The process is killed.  A marker being written may be left torn.
Crash ==
  /\ pc \notin {"off", "ok", "err"} /\ Fault
  /\ pc' = "off"
  /\ marker' \in IF pc = "mark" THEN {marker, Torn} ELSE {marker}
  /\ blame' = blame \cup (IF FreshAndBad THEN {"crash"} ELSE {})
                    \cup (IF pc = "unpacking" THEN {"unpack"} ELSE {})
  /\ UNCHANGED <<config, skip, dest, seg, partial, existed, url, resp>>

\* The user replaces the file, for another one of the same length, or removes
\* it.  Between the hash and what relies on it this goes unnoticed.
UserReplaces ==
  /\ dest # Missing /\ pc # "ok" /\ Fault
  /\ dest' = FileOf([size |-> FileSize, good |-> FALSE])
  /\ blame' = blame \cup {"user"}
                    \cup (IF pc \in {"mark", "unpack", "unpacking"} THEN {"race"} ELSE {})
  /\ UNCHANGED <<config, skip, seg, partial, marker, pc, existed, url, resp>>

UserRemoves ==
  /\ dest # Missing /\ pc = "off" /\ Fault
  /\ dest' = Missing
  /\ UNCHANGED <<config, skip, seg, partial, marker, pc, existed, url, resp, blame>>

ProcessStep ==
  \/ Start \/ Look \/ Trust \/ Request \/ Receive \/ Rename
  \/ VerifyOk \/ VerifyFails \/ mark_verified \/ Unpack \/ Unpacked \/ Exit

DownloadNext ==
  \/ ProcessStep
  \/ RequestFails \/ ReceiveFails \/ VerifyFailsUnremoved
  \/ Crash \/ UserReplaces \/ UserRemoves

\* A running process makes progress, and one that ended is started again.
DownloadSpec == DownloadInit /\ [][DownloadNext]_downloadVars /\ WF_downloadVars(ProcessStep)

-----------------------------------------------------------------------------
Intact == IF kind = "seg" THEN seg = "full" ELSE dest # Missing /\ HashMatches(dest)

\* What an ensure function answers with is the registered model, byte for byte,
\* although only a marker may have been looked at: also after killed downloads,
\* bad mirrors, torn markers and files the user replaced or removed.  Excepted
\* are a skipped checksum, the user's own file, a file replaced between its
\* hash and its marker, and a segmentation model whose unpacking was cut short,
\* which later starts take for complete.
ReadyIsIntact ==
  pc = "ok" /\ ~skip =>
    \/ Intact
    \/ override /\ existed
    \/ "race" \in blame
    \/ kind = "seg" /\ blame \cap {"unpack", "skip"} # {}

\* A marker that would let a start skip the hash names a file that is good.
MarkerHonest ==
  verification_cache_valid => HashMatches(dest) \/ "race" \in blame

\* Nothing that goes wrong a finite number of times keeps every later start
\* from succeeding: bad downloads are dropped and fetched again.  It takes a
\* bad file that no start removes: put there by the user, kept by a skipped
\* checksum, or left by a crash or a failed removal between rename and hash.
Recovers ==
  <>(\/ pc = "ok" \/ blame # {}
     \/ kind = "seg" /\ override /\ seg = "none")

=============================================================================
