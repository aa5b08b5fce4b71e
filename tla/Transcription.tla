---------------------------- MODULE Transcription ----------------------------
(***************************************************************************)
(* From audio tracks to one diarized transcript: the transcription half of *)
(* run_notes_pipeline (panops-engine/src/server/handlers.rs) and of the    *)
(* CLI (panops-engine/src/main.rs), with the code it drives: the VAD       *)
(* regions and their merging (panops-portable/src/{whisper_vad,audio}.rs), *)
(* the confidence-recursive ASR (recursive_asr.rs), the diarizer           *)
(* (sherpa_diarizer.rs) and the two-track merge (panops-core/src/merge.rs).*)
(*                                                                         *)
(* Time is counted in units of some milliseconds; text, languages and      *)
(* probabilities are left out: a confidence is below THRESHOLD or it is    *)
(* not.  The recursion is a stack of frames, its top at the head; a step   *)
(* is one call of an adapter.                                              *)
(***************************************************************************)
EXTENDS Naturals, FiniteSets, SequencesExt

CONSTANTS
  MIN_REGION_MS, MAX_DEPTH, MAX_AUTO_SPLIT_MS,
  GapMs,               \* the 5_000 given to merge_adjacent_regions
  MinorShare,          \* 1 / MINOR_SPEAKER_MAX_SHARE
  Length,              \* the duration of each track
  MaxRegions,          \* bound on the regions the VAD reports
  MaxPieces,           \* bound on the segments of one answer of the ASR
  MaxTurns,            \* bound on the turns the clusterer reports
  Nobody               \* no speaker

Tracks == {"mic", "system", "file"}

ASSUME BoundsArePositive ==
  /\ {MIN_REGION_MS, MAX_DEPTH, MAX_AUTO_SPLIT_MS, MinorShare} \subseteq Nat \ {0}
  /\ {GapMs, MaxRegions, MaxPieces, MaxTurns} \subseteq Nat
  /\ Length \in [Tracks -> Nat]
  /\ Nobody \notin Nat

VARIABLES
  plan,                \* the tracks still to do, the language hint, diarization
  phase,
  regions,             \* merged regions of the current track still to do
  stack,               \* frames of transcribe_recursive still to run
  segs,                \* the segments of each track so far
  turns,               \* the diarizer's answer
  merged,              \* the transcript, once the tracks are merged
  heard,               \* history: instants the VAD found speech in
  leaves               \* history: the frames whose segments were kept

vars == <<plan, phase, regions, stack, segs, turns, merged, heard, leaves>>

track == Head(plan.todo)
Instants(r) == r.start .. (r.end - 1)
Duration(r) == r.end - r.start

\* sort_by_key(start_ms), which is stable: element i goes behind the elements that
\* start before it and, among those that start with it, the ones it follows.
Before(s, i) ==
  {j \in DOMAIN s : s[j].start < s[i].start \/ (s[j].start = s[i].start /\ j < i)}
SortByStart(s) ==
  [k \in DOMAIN s |-> s[CHOOSE i \in DOMAIN s : Cardinality(Before(s, i)) = k - 1]]

-----------------------------------------------------------------------------
\* WhisperVad::detect_speech: empty regions are dropped, overlaps are not, and
\* a region may overshoot the audio.
NonEmpty(raw) ==
  FoldLeft(LAMBDA out, r : IF r.end > r.start THEN Append(out, r) ELSE out, <<>>, raw)
detect_speech(raw) == SortByStart(NonEmpty(raw))

\* A region that merges is forgotten instead of extending the previous one.
MergeForgetsEnd(rs) ==
  FoldLeft(LAMBDA out, r :
             IF out # <<>> /\ r.start <= Last(out).end + GapMs
             THEN out
             ELSE Append(out, r),
           <<>>, SortByStart(rs))

merge_adjacent_regions(rs) ==
  FoldLeft(LAMBDA out, r :
             IF out # <<>> /\ r.start <= Last(out).end + GapMs
             THEN [out EXCEPT ![Len(out)].end = Max({@, r.end})]
             ELSE Append(out, r),
           <<>>, SortByStart(rs))

clamp_to(r, ceiling) == [start |-> Min({r.start, ceiling}), end |-> Min({r.end, ceiling})]

RawRegions ==
  LET Region == [start : 0 .. Length[track], end : 0 .. Length[track] + 1]
  IN  UNION {[1 .. n -> {r \in Region : r.start <= r.end}] : n \in 0 .. MaxRegions}

-----------------------------------------------------------------------------
\* What an ASR adapter may answer for a chunk of length d: segments relative to
\* the chunk in the order of time, with pauses between them or without, the last
\* ones possibly empty or past its end, or nothing.
Edges(n, len) ==
  {b \in [1 .. 2 * n -> 0 .. len] : \A i \in 1 .. 2 * n : i > 1 => b[i - 1] <= b[i]}
PiecesOf(n, b, low) ==
  [i \in 1 .. n |-> [start |-> b[2 * i - 1], end |-> b[2 * i], low |-> low[i]]]
Answers(d) ==
  UNION {{PiecesOf(n, b, low) : b \in Edges(n, d + 1), low \in [1 .. n -> BOOLEAN]} :
           n \in 0 .. MaxPieces}

offset_segment(seg, region) ==
  [start |-> Min({seg.start + region.start, region.end}),
   end |-> Min({seg.end + region.start, region.end}),
   track |-> track, speaker |-> Nobody]

confidence_trigger(raw) == \E i \in DOMAIN raw : raw[i].low

\* The answer is kept: a language hint, silence, the depth cap, a region too
\* short to be cut, or neither trigger.
Keeps(f, raw) ==
  \/ plan.hint
  \/ raw = <<>>
  \/ f.depth >= MAX_DEPTH
  \/ Duration(f) < 2 * MIN_REGION_MS
  \/ ~confidence_trigger(raw) /\ Duration(f) <= MAX_AUTO_SPLIT_MS

\* The start of the first least confident segment, or the midpoint when only
\* the length calls for a cut, kept MIN_REGION_MS away from both ends.
SplitAt(f, raw) ==
  LET worst == raw[Min({i \in DOMAIN raw : raw[i].low})]
      wanted == IF confidence_trigger(raw)
                THEN worst.start + f.start
                ELSE f.start + Duration(f) \div 2
  IN  Max({f.start + MIN_REGION_MS, Min({wanted, f.end - MIN_REGION_MS})})

-----------------------------------------------------------------------------
\* n stretches that follow one another from 0 on, up to len at most.
Stretches(n, len) ==
  {b \in [1 .. n + 1 -> 0 .. len] : b[1] = 0 /\ \A i \in 1 .. n : b[i] < b[i + 1]}

\* SherpaDiarizer: what the clusterer may answer.  Turns follow one another
\* over the whole track, or each runs into the next.
WholeTrack(n, len) == {b \in Stretches(n, len) : n > 0 => b[n + 1] = len}
TurnsOf(n, b, who, over) ==
  [i \in 1 .. n |-> [start |-> b[i], end |-> b[i + 1] + over, speaker |-> who[i]]]
Clusters(len) ==
  UNION {{TurnsOf(n, b, who, over) : b \in WholeTrack(n, len),
                                     who \in [1 .. n -> 0 .. MaxTurns - 1],
                                     over \in {0, 1}} : n \in 0 .. MaxTurns}

Speech(ts) == FoldLeft(LAMBDA n, t : n + t.end - t.start, 0, ts)
SpeechOf(ts, who) == Speech(SelectSeq(ts, LAMBDA t : t.speaker = who))
SpeakersOf(ts) == {ts[i].speaker : i \in DOMAIN ts}
is_minor(ts, who) == SpeechOf(ts, who) * MinorShare < Speech(ts)
Majors(ts) == {who \in SpeakersOf(ts) : ~is_minor(ts, who)}

\* A minor turn goes to the closest preceding major speaker, else the closest
\* following one.
Relabelled(ts) ==
  LET major == {i \in DOMAIN ts : ts[i].speaker \in Majors(ts)}
      target(i) == LET before == {j \in major : j <= i}
                   IN  IF before # {} THEN Max(before) ELSE Min(major)
  IN  [i \in DOMAIN ts |-> [ts[i] EXCEPT !.speaker = ts[target(i)].speaker]]

MergedRuns(ts) ==
  FoldLeft(LAMBDA out, t :
             IF out # <<>> /\ Last(out).speaker = t.speaker
             THEN [out EXCEPT ![Len(out)].end = Max({@, t.end})]
             ELSE Append(out, t),
           <<>>, ts)

\* Ids from 0 in order of first appearance.
Renumbered(ts) ==
  LET first(who) == Min({i \in DOMAIN ts : ts[i].speaker = who})
      id(who) == Cardinality(SpeakersOf(SubSeq(ts, 1, first(who) - 1)))
  IN  [i \in DOMAIN ts |-> [ts[i] EXCEPT !.speaker = id(@)]]

collapse_minor_speakers(ts) ==
  IF Speech(ts) = 0 \/ Majors(ts) \in {{}, SpeakersOf(ts)}
  THEN ts
  ELSE Renumbered(MergedRuns(Relabelled(ts)))

\* The defensive clamp at the end of diarize: no turn starts before the
\* previous one ends.
Clamped(ts) ==
  FoldLeft(LAMBDA out, t :
             LET s == IF out = <<>> THEN t.start ELSE Max({t.start, Last(out).end})
             IN  Append(out, [t EXCEPT !.start = s, !.end = Max({@, s})]),
           <<>>, ts)

diarize(raw) == Clamped(collapse_minor_speakers(SortByStart(raw)))

\* merge.rs: the turn that overlaps the segment the most, the first on a tie.
dominant_speaker(seg, ts) ==
  LET overlap(t) == LET lo == Max({seg.start, t.start})
                        hi == Min({seg.end, t.end})
                    IN  IF hi <= lo THEN 0 ELSE hi - lo
      best == {i \in DOMAIN ts : /\ overlap(ts[i]) > 0
                                 /\ \A j \in DOMAIN ts : overlap(ts[j]) <= overlap(ts[i])}
  IN  IF best = {} THEN Nobody ELSE ts[Min(best)].speaker

merge_speaker_turns(ss, ts) ==
  [i \in DOMAIN ss |-> [ss[i] EXCEPT !.speaker = dominant_speaker(ss[i], ts)]]

\* The remote ids are not moved past the local one.
MergeTwoTrackNoOffset(mic, system, ts) ==
  SortByStart([i \in DOMAIN mic |-> [mic[i] EXCEPT !.speaker = 0]]
              \o merge_speaker_turns(system, ts))

merge_two_track(mic, system, ts) ==
  LET remote == [i \in DOMAIN ts |-> [ts[i] EXCEPT !.speaker = @ + 1]]
  IN  SortByStart([i \in DOMAIN mic |-> [mic[i] EXCEPT !.speaker = 0]]
                  \o merge_speaker_turns(system, remote))

-----------------------------------------------------------------------------
\* The two-track path does the tracks the meeting directory holds, the mic
\* first; without one, the file given by the caller is transcribed.
\* What the CLI asks for: one file, diarized unless --no-diarize is given.
run_notes == [todo : {<<"file">>}, two_track : {FALSE}, hint : BOOLEAN, diarize : BOOLEAN]

\* What a notes job asks for: the tracks the capture left, else the file.
run_notes_pipeline ==
  run_notes \cup [todo : {<<"mic">>, <<"system">>, <<"mic", "system">>}, two_track : {TRUE},
                  hint : BOOLEAN, diarize : BOOLEAN]

Init ==
  /\ plan \in run_notes \cup run_notes_pipeline
  /\ phase = "load"
  /\ regions = <<>> /\ stack = <<>> /\ turns = <<>> /\ merged = <<>>
  /\ segs = [t \in Tracks |-> <<>>]
  /\ heard = {} /\ leaves = <<>>

\* An adapter fails and the whole request with it; nothing is kept.
AdapterFails ==
  /\ phase \in {"load", "recurse", "diarize"}
  /\ phase' = "failed"
  /\ regions' = <<>> /\ stack' = <<>> /\ heard' = {} /\ leaves' = <<>>
  /\ segs' = [t \in Tracks |-> <<>>]
  /\ UNCHANGED <<plan, turns, merged>>

\* transcribe_track_labeled up to its loop: load, VAD, merge.
LoadTrack(raw) ==
  /\ phase = "load"
  /\ regions' = merge_adjacent_regions(detect_speech(raw))
  /\ heard' = (UNION {Instants(raw[i]) : i \in DOMAIN raw}) \cap (0 .. Length[track] - 1)
  /\ phase' = "regions"
  /\ UNCHANGED <<plan, stack, segs, turns, merged, leaves>>

\* One turn of the loop over the merged regions.
NextRegion ==
  LET r == clamp_to(Head(regions), Length[track])
  IN  /\ phase = "regions" /\ regions # <<>>
      /\ regions' = Tail(regions)
      /\ IF r.start >= r.end
         THEN UNCHANGED <<phase, stack>>
         ELSE /\ stack' = <<[start |-> r.start, end |-> r.end, depth |-> 0]>>
              /\ phase' = "recurse"
      /\ UNCHANGED <<plan, segs, turns, merged, heard, leaves>>

\* One call of recurse whose answer is returned as it is.
TranscribeLeaf(raw) ==
  LET f == Head(stack)
  IN  /\ phase = "recurse"
      /\ Keeps(f, raw)
      /\ segs' = [segs EXCEPT ![track] =
                    @ \o [i \in DOMAIN raw |-> offset_segment(raw[i], f)]]
      /\ leaves' = Append(leaves, f)
      /\ stack' = Tail(stack)
      /\ phase' = IF Tail(stack) = <<>> THEN "regions" ELSE "recurse"
      /\ UNCHANGED <<plan, regions, turns, merged, heard>>

\* The right half transcribed before the left one.
SplitRightFirst(raw) ==
  LET f == Head(stack)
      cut == SplitAt(f, raw)
  IN  /\ phase = "recurse"
      /\ ~Keeps(f, raw)
      /\ stack' = <<[start |-> cut, end |-> f.end, depth |-> f.depth + 1],
                    [start |-> f.start, end |-> cut, depth |-> f.depth + 1]>> \o Tail(stack)
      /\ UNCHANGED <<plan, phase, regions, segs, turns, merged, heard, leaves>>

\* One call of recurse whose answer is thrown away for those of two halves.
TranscribeSplit(raw) ==
  LET f == Head(stack)
      cut == SplitAt(f, raw)
  IN  /\ phase = "recurse"
      /\ ~Keeps(f, raw)
      /\ stack' = <<[start |-> f.start, end |-> cut, depth |-> f.depth + 1],
                    [start |-> cut, end |-> f.end, depth |-> f.depth + 1]>> \o Tail(stack)
      /\ UNCHANGED <<plan, phase, regions, segs, turns, merged, heard, leaves>>

\* The end of a track: the next one, or the diarizer, or the merge.  The mic
\* track is never diarized.
FinishTrack ==
  /\ phase = "regions" /\ regions = <<>>
  /\ phase' = IF track # "mic" /\ plan.diarize THEN "diarize"
              ELSE IF Len(plan.todo) > 1 THEN "load" ELSE "merge"
  /\ plan' = IF Len(plan.todo) > 1 THEN [plan EXCEPT !.todo = Tail(@)] ELSE plan
  /\ heard' = {} /\ leaves' = <<>>
  /\ UNCHANGED <<regions, stack, segs, turns, merged>>

Diarize(raw) ==
  /\ phase = "diarize"
  /\ turns' = diarize(raw)
  /\ phase' = "merge"
  /\ UNCHANGED <<plan, regions, stack, segs, merged, heard, leaves>>

\* The transcript that is written to transcript.json and given to the notes.
Merge ==
  /\ phase = "merge"
  /\ merged' = IF plan.two_track
               THEN merge_two_track(segs["mic"], segs["system"], turns)
               ELSE IF plan.diarize THEN merge_speaker_turns(segs["file"], turns)
               ELSE segs["file"]
  /\ phase' = "done"
  /\ segs' = [t \in Tracks |-> <<>>] /\ turns' = <<>>
  /\ UNCHANGED <<plan, regions, stack, heard, leaves>>

Next ==
  \/ \E raw \in RawRegions : LoadTrack(raw)
  \/ NextRegion
  \/ phase = "recurse" /\ \E raw \in Answers(Duration(Head(stack))) : TranscribeLeaf(raw)
  \/ phase = "recurse" /\ \E raw \in Answers(Duration(Head(stack))) : TranscribeSplit(raw)
  \/ FinishTrack
  \/ phase = "diarize" /\ \E raw \in Clusters(Length[track]) : Diarize(raw)
  \/ Merge
  \/ AdapterFails

Spec == Init /\ [][Next]_vars

-----------------------------------------------------------------------------
\* When a track is finished every instant the VAD heard speech in has been in
\* exactly one chunk whose segments were kept, and a chunk cut out of a region
\* is at least MIN_REGION_MS long: merging, clamping to the audio, skipping
\* degenerate regions and cutting where an answer was poor never lose or
\* repeat speech, nor feed the model less than it can tell a language from.
SpeechTranscribedOnce ==
  /\ phase = "regions" /\ regions = <<>> =>
       \A t \in heard : Cardinality({i \in DOMAIN leaves : t \in Instants(leaves[i])}) = 1
  /\ \A i \in DOMAIN leaves : leaves[i].depth > 0 => Duration(leaves[i]) >= MIN_REGION_MS

\* The transcript is ordered by start and no segment is inverted or past the
\* end of its track: what segment_topics and anchor_screenshots (which
\* subtracts a section's start from its end) rely on.
TranscriptOrdered ==
  \A i \in DOMAIN merged :
    /\ merged[i].start <= merged[i].end
    /\ merged[i].end <= Length[merged[i].track]
    /\ i > 1 => merged[i - 1].start <= merged[i].start

\* In a two-track transcript speaker 0 ("You") is the microphone's and only
\* its: no remote participant is attributed to the local user or the reverse.
LocalSpeakerIsTheMic ==
  plan.two_track =>
    \A i \in DOMAIN merged :
      (merged[i].speaker = 0) = (merged[i].track = "mic")

=============================================================================
