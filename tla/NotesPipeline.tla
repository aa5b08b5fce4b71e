---------------------------- MODULE NotesPipeline ----------------------------
(***************************************************************************)
(* NotesGenerator::generate (panops-core/src/notes/pipeline.rs): from a    *)
(* transcript to structured notes.  Topic segmentation                     *)
(* (topic_segmentation.rs), one LLM narrative per section, all sections in *)
(* parallel, chunked and merged when the prompt would not fit (prompts.rs),*)
(* checked against invented speakers (verifier.rs), then screenshots       *)
(* (screenshot_anchoring.rs) and the frontmatter.                          *)
(*                                                                         *)
(* A text is its length, a summary its length and the one speaker it       *)
(* cites; titles, key points and languages are left out.  A step is one    *)
(* segment scanned or one call of the LLM.                                 *)
(***************************************************************************)
EXTENDS Naturals, FiniteSets, SequencesExt

CONSTANTS
  Shapes,              \* [step, len, speaker, size]: how a segment may follow another
  MaxSegments,
  MaxShots,            \* bound on the files in the screenshot directory
  Speakers, None,
  topic_gap_ms, min_section_ms,
  ShareInv,            \* 1 / speaker_shift_threshold
  SECTION_CHUNK_THRESHOLD_CHARS, SECTION_CHUNK_TARGET_CHARS,
  SPLIT_GAP_THRESHOLD_MS,
  NarrativeOverhead,   \* what build_section_narrative_prompt adds to a transcript
  MergeOverhead,       \* what build_merge_section_prompt adds to summaries
  SummarySizes

ASSUME BudgetIsPositive ==
  /\ {topic_gap_ms, min_section_ms, SPLIT_GAP_THRESHOLD_MS,
      NarrativeOverhead, MergeOverhead, MaxSegments, MaxShots} \subseteq Nat
  /\ {ShareInv, SECTION_CHUNK_THRESHOLD_CHARS, SECTION_CHUNK_TARGET_CHARS}
       \subseteq Nat \ {0}
  /\ SummarySizes \subseteq Nat \ {0}
  /\ Shapes \subseteq [step : Nat, len : Nat, speaker : Speakers \cup {None}, size : Nat]
  /\ None \notin {"notes", "untitled notes", "LlmUnavailable"}

VARIABLES
  transcript,
  stage,
  sections,            \* RawSections: a time range and the indices of segments
  work,                \* per section, how far its narrative is
  shots,               \* per section, the screenshots anchored to it
  result

pipelineVars == <<transcript, stage, sections, work, shots, result>>

Monus(a, b) == IF a > b THEN a - b ELSE 0
Total(s) == FoldLeft(LAMBDA n, x : n + x.size, 0, s)
SpokenFor(seg) == Monus(seg.end, seg.start)

-----------------------------------------------------------------------------
\* topic_segmentation.rs

SpokenBy(idx, who) ==
  FoldLeft(LAMBDA n, i : IF transcript[i].speaker = who THEN n + SpokenFor(transcript[i]) ELSE n,
           0, idx)
Voices(idx) == {transcript[i].speaker : i \in Range(idx)} \ {None}
SpokenTotal(idx) ==
  FoldLeft(LAMBDA n, i : IF transcript[i].speaker = None THEN n ELSE n + SpokenFor(transcript[i]),
           0, idx)

\* The speakers a section may call dominant: on a tie the hash map's iteration
\* order decides.
DominantSpeakers(idx) ==
  {who \in Voices(idx) : \A other \in Voices(idx) : SpokenBy(idx, other) <= SpokenBy(idx, who)}

\* speaker_share(idx, who) < threshold; a section without speech has share 0.
BelowShare(idx, who) ==
  SpokenTotal(idx) = 0 \/ SpokenBy(idx, who) * ShareInv < SpokenTotal(idx)

\* The answers is_speaker_shift_break may give for a new segment's speaker.
SpeakerShiftBreaks(idx, who) ==
  IF who = None \/ Voices(idx) = {}
  THEN {FALSE}
  ELSE {dom # who /\ BelowShare(idx, who) : dom \in DominantSpeakers(idx)}

NewSection(i) == [start |-> transcript[i].start, end |-> transcript[i].end, idx |-> <<i>>]
Extend(s, end, idx) == [start |-> s.start, end |-> end, idx |-> s.idx \o idx]
Scanned == FoldLeft(LAMBDA n, s : n + Len(s.idx), 0, sections)

\* A short section is dropped instead of joined to the previous one.
MergeShortDrops(ss) ==
  FoldLeft(LAMBDA out, s :
             IF Monus(s.end, s.start) < min_section_ms /\ out # <<>>
             THEN out
             ELSE Append(out, s),
           <<>>, ss)

merge_short_sections(ss) ==
  FoldLeft(LAMBDA out, s :
             IF Monus(s.end, s.start) < min_section_ms /\ out # <<>>
             THEN [out EXCEPT ![Len(out)] = Extend(@, s.end, s.idx)]
             ELSE Append(out, s),
           <<>>, ss)

-----------------------------------------------------------------------------
\* prompts.rs and the chunking of pipeline.rs.  A chunk is a sequence of
\* segments.

SegmentsOf(s) == [j \in DOMAIN s.idx |-> transcript[s.idx[j]]]

\* A prompt is its length: the payload as it is rendered, with the system prompt,
\* the schema and the instructions around it.
build_section_narrative_prompt(segs) == NarrativeOverhead + Total(segs)
build_merge_section_prompt(sums) == MergeOverhead + Total(sums)

\* rendered_llm_request_chars against the threshold.
Fits(prompt) == prompt <= SECTION_CHUNK_THRESHOLD_CHARS
SegmentsFit(segs) == Fits(build_section_narrative_prompt(segs))

\* Only a chunk that is over the target is ended at a gap or a new speaker.
NaturalBreak(current, seg) ==
  /\ current # <<>>
  /\ Total(current) >= SECTION_CHUNK_TARGET_CHARS
  /\ \/ Monus(seg.start, Last(current).end) > SPLIT_GAP_THRESHOLD_MS
     \/ seg.speaker # Last(current).speaker

split_segments_for_chunking(segs) ==
  LET add(acc, seg) ==
        LET full == /\ acc.current # <<>>
                    /\ Total(acc.current) + seg.size > SECTION_CHUNK_THRESHOLD_CHARS
        IN  IF full \/ NaturalBreak(acc.current, seg)
            THEN [chunks |-> Append(acc.chunks, acc.current), current |-> <<seg>>]
            ELSE [acc EXCEPT !.current = Append(@, seg)]
      all == FoldLeft(add, [chunks |-> <<>>, current |-> <<>>], segs)
  IN  IF Total(segs) <= SECTION_CHUNK_THRESHOLD_CHARS
      THEN <<segs>>
      ELSE Append(all.chunks, all.current)

\* The transcript's size is believed to be the prompt's.
RenderedBudgetIgnored(chunk) == <<chunk>>

\* A chunk whose rendered prompt is too long is cut before each segment that
\* would overflow it; a single segment stays alone whatever its size.
push_rendered_budget_chunk(chunk) ==
  LET add(acc, seg) ==
        IF acc.current # <<>> /\ ~SegmentsFit(Append(acc.current, seg))
        THEN [chunks |-> Append(acc.chunks, acc.current), current |-> <<seg>>]
        ELSE [acc EXCEPT !.current = Append(@, seg)]
      all == FoldLeft(add, [chunks |-> <<>>, current |-> <<>>], chunk)
  IN  IF Len(chunk) <= 1 \/ SegmentsFit(chunk) THEN <<chunk>> ELSE Append(all.chunks, all.current)

split_chunks_to_rendered_budget(chunks) ==
  FoldLeft(LAMBDA out, c : out \o push_rendered_budget_chunk(c), <<>>, chunks)

Chunks(segs) == split_chunks_to_rendered_budget(split_segments_for_chunking(segs))

\* process_section: one prompt when it fits, chunks otherwise.
FirstWork(s) ==
  LET segs == SegmentsOf(s)
  IN  [step |-> IF SegmentsFit(segs) THEN "single" ELSE "chunk",
       chunks |-> IF SegmentsFit(segs) THEN <<segs>> ELSE Chunks(segs),
       sums |-> <<>>, rest |-> <<>>, round |-> None, out |-> None, failed |-> FALSE]

-----------------------------------------------------------------------------
\* What the provider may answer: a summary, text that is not JSON, an error.
Replies ==
  [kind : {"json"}, size : SummarySizes, cites : Speakers \cup {None}]
    \cup [kind : {"text", "error"}]

\* verify_section_attribution: the ids cited are among the transcript's.
allowed_speakers == Voices([i \in DOMAIN transcript |-> i])
Allowed(v) == v.cites \in allowed_speakers \cup {None}

\* A section ends with a draft or with its transcript as a fallback; failed
\* says that the provider itself failed.
Draft(w, v) == [w EXCEPT !.step = "done", !.out = [kind |-> "draft", cites |-> v.cites],
                         !.chunks = <<>>, !.sums = <<>>, !.rest = <<>>, !.round = None]
Fallback(w, failed) == [w EXCEPT !.step = "done", !.failed = failed,
                                 !.out = [kind |-> "fallback", cites |-> None],
                                 !.chunks = <<>>, !.sums = <<>>, !.rest = <<>>, !.round = None]

\* A draft is taken unverified.
VerifiedTrusts(w, v) == Draft(w, v)

Verified(w, v) == IF Allowed(v) THEN Draft(w, v) ELSE Fallback(w, FALSE)

\* merge_chunk_summaries, entered with the summaries of all chunks.
EnterMerge(w) ==
  IF Len(w.sums) = 1
  THEN Verified(w, w.sums[1])
  ELSE [w EXCEPT !.step = "merge", !.rest = w.sums, !.sums = <<>>, !.chunks = <<>>,
                 !.round = [len |-> Len(w.sums), size |-> Total(w.sums)]]

\* A round of merging that reduced nothing is repeated.
EndRoundForever(w) ==
  IF Len(w.sums) = 1
  THEN Verified(w, w.sums[1])
  ELSE [w EXCEPT !.rest = w.sums, !.sums = <<>>,
                 !.round = [len |-> Len(w.sums), size |-> Total(w.sums)]]

\* The end of a round: give up, stop, or start the next one.
EndRound(w) ==
  IF Len(w.sums) = w.round.len /\ Total(w.sums) >= w.round.size
  THEN Fallback(w, FALSE)
  ELSE IF Len(w.sums) = 1
  THEN Verified(w, w.sums[1])
  ELSE [w EXCEPT !.rest = w.sums, !.sums = <<>>,
                 !.round = [len |-> Len(w.sums), size |-> Total(w.sums)]]

\* The next batch: as many summaries as fit one prompt, but at least one.
BatchLen(w) ==
  Max({n \in 1 .. Len(w.rest) : n = 1 \/ Fits(build_merge_section_prompt(SubSeq(w.rest, 1, n)))})

-----------------------------------------------------------------------------
place(shapes) ==
  FoldLeft(LAMBDA segs, h :
             LET at == (IF segs = <<>> THEN 0 ELSE Last(segs).start) + h.step
             IN  Append(segs, [start |-> at, end |-> at + h.len,
                               speaker |-> h.speaker, size |-> h.size]),
           <<>>, shapes)
Transcripts == {place(shapes) : shapes \in UNION {[1 .. n -> Shapes] : n \in 0 .. MaxSegments}}

PipelineInit ==
  /\ transcript \in Transcripts
  /\ stage = "topics"
  /\ sections = <<>> /\ work = <<>> /\ shots = <<>>
  /\ result = None

EmptyTranscript ==
  /\ stage = "topics" /\ transcript = <<>>
  /\ stage' = "done" /\ result' = "EmptyTranscript"
  /\ UNCHANGED <<transcript, sections, work, shots>>

\* One turn of segment_topics' loop.
ScanSegment ==
  LET i == Scanned + 1
      current == Last(sections)
      gap == Monus(transcript[i].start, transcript[i - 1].end)
  IN  /\ stage = "topics" /\ i <= Len(transcript)
      /\ IF i = 1
         THEN sections' = <<NewSection(1)>>
         ELSE \E shift \in SpeakerShiftBreaks(current.idx, transcript[i].speaker) :
                sections' = IF gap > topic_gap_ms \/ shift
                            THEN Append(sections, NewSection(i))
                            ELSE [sections EXCEPT ![Len(sections)] =
                                    Extend(@, transcript[i].end, <<i>>)]
      /\ UNCHANGED <<transcript, stage, work, shots, result>>

\* The end of segment_topics, and the parallel stage started.
EndTopics ==
  LET merged == merge_short_sections(sections)
  IN  /\ stage = "topics" /\ transcript # <<>> /\ Scanned = Len(transcript)
      /\ sections' = merged
      /\ work' = [k \in DOMAIN merged |-> FirstWork(merged[k])]
      /\ stage' = "narratives"
      /\ UNCHANGED <<transcript, shots, result>>

\* process_single_section.
AskSingle(k, v) ==
  /\ stage = "narratives" /\ work[k].step = "single"
  /\ work' = [work EXCEPT ![k] = IF v.kind = "json" THEN Verified(@, v)
                                 ELSE Fallback(@, v.kind = "error")]
  /\ UNCHANGED <<transcript, stage, sections, shots, result>>

\* The next chunk of a long section; the first one that fails ends it.
AskChunk(k, v) ==
  LET w == work[k]
      more == [w EXCEPT !.chunks = Tail(@), !.sums = Append(@, v)]
  IN  /\ stage = "narratives" /\ w.step = "chunk"
      /\ work' = [work EXCEPT ![k] = IF v.kind # "json" THEN Fallback(w, v.kind = "error")
                                     ELSE IF more.chunks = <<>> THEN EnterMerge(more)
                                     ELSE more]
      /\ UNCHANGED <<transcript, stage, sections, shots, result>>

\* A batch of one goes to the next round without a call.
PassSingleton(k) ==
  LET w == work[k]
  IN  /\ stage = "narratives" /\ w.step = "merge" /\ w.rest # <<>> /\ BatchLen(w) = 1
      /\ work' = [work EXCEPT ![k] = [w EXCEPT !.sums = Append(@, Head(w.rest)),
                                               !.rest = Tail(@)]]
      /\ UNCHANGED <<transcript, stage, sections, shots, result>>

AskMerge(k, v) ==
  LET w == work[k]
  IN  /\ stage = "narratives" /\ w.step = "merge" /\ w.rest # <<>> /\ BatchLen(w) > 1
      /\ work' = [work EXCEPT ![k] =
                    IF v.kind # "json" THEN Fallback(w, v.kind = "error")
                    ELSE [w EXCEPT !.sums = Append(@, v),
                                   !.rest = SubSeq(@, BatchLen(w) + 1, Len(@))]]
      /\ UNCHANGED <<transcript, stage, sections, shots, result>>

EndMergeRound(k) ==
  /\ stage = "narratives" /\ work[k].step = "merge" /\ work[k].rest = <<>>
  /\ work' = [work EXCEPT ![k] = EndRound(@)]
  /\ UNCHANGED <<transcript, stage, sections, shots, result>>

\* Every section's narrative failed in the provider.
Unavailable == \A k \in DOMAIN work : work[k].failed

\* screenshot_anchoring.rs: the first section around the timestamp, else the
\* one with the nearest midpoint, the first on a tie.
section_for_timestamp(ms) ==
  LET around == {k \in DOMAIN sections : sections[k].start <= ms /\ ms < sections[k].end}
      mid(k) == sections[k].start + (sections[k].end - sections[k].start) \div 2
      dist(k) == Monus(mid(k), ms) + Monus(ms, mid(k))
      nearest == {k \in DOMAIN sections : \A j \in DOMAIN sections : dist(k) <= dist(j)}
  IN  IF around # {} THEN Min(around) ELSE Min(nearest)

anchor_screenshots(times) ==
  FoldLeft(LAMBDA out, ms : [out EXCEPT ![section_for_timestamp(ms)] = Append(@, ms)],
           [k \in DOMAIN sections |-> <<>>], times)

\* screenshots.rs: n files, in the order of their names, spread evenly over the
\* audio; none when the directory is missing.
collect_screenshots(n, duration) == [i \in 1 .. n |-> (i - 1) * (duration \div n)]

\* The barrier after the parallel stage; with a duration, timestamps are
\* clamped to it before they are anchored.
Gather(n, duration) ==
  LET times == collect_screenshots(n, duration) IN
  /\ stage = "narratives" /\ \A k \in DOMAIN work : work[k].step = "done"
  /\ IF Unavailable
     THEN stage' = "done" /\ result' = "LlmUnavailable" /\ UNCHANGED shots
     ELSE /\ stage' = "frontmatter"
          /\ shots' = anchor_screenshots(
                        [i \in DOMAIN times |->
                           IF duration = 0 THEN times[i] ELSE Min({times[i], duration})])
          /\ UNCHANGED result
  /\ UNCHANGED <<transcript, sections, work>>

\* The frontmatter call: anything but JSON leaves the default title.
AskFrontmatter(v) ==
  /\ stage = "frontmatter"
  /\ stage' = "done"
  /\ result' = IF v.kind = "json" THEN "notes" ELSE "untitled notes"
  /\ UNCHANGED <<transcript, sections, work, shots>>

\* Of no duration when no sample was read, and past the last segment otherwise.
Durations == {0, 1 + Max({0} \cup {transcript[i].end : i \in DOMAIN transcript})}

PipelineNext ==
  \/ EmptyTranscript \/ ScanSegment \/ EndTopics
  \/ \E k \in DOMAIN work, v \in Replies : AskSingle(k, v) \/ AskChunk(k, v) \/ AskMerge(k, v)
  \/ \E k \in DOMAIN work : PassSingleton(k) \/ EndMergeRound(k)
  \/ \E n \in 0 .. MaxShots, duration \in Durations : Gather(n, duration)
  \/ \E v \in Replies : AskFrontmatter(v)

\* Every call of the provider answers, and the worker threads run on.
PipelineSpec == PipelineInit /\ [][PipelineNext]_pipelineVars /\ WF_pipelineVars(PipelineNext)

-----------------------------------------------------------------------------
\* The sections hold every segment of the transcript once and in order, no
\* section's range is inverted (anchor_screenshots subtracts its start from its
\* end), and a screenshot taken during some section's time range is put in such
\* a section.
NotesComplete ==
  stage # "topics" /\ transcript # <<>> =>
    /\ FlattenSeq([k \in DOMAIN sections |-> sections[k].idx]) = [i \in DOMAIN transcript |-> i]
    /\ \A k \in DOMAIN sections : sections[k].start <= sections[k].end
    /\ stage = "done" =>
         \A k \in DOMAIN shots : \A i \in DOMAIN shots[k] :
           \/ sections[k].start <= shots[k][i] /\ shots[k][i] < sections[k].end
           \/ \A j \in DOMAIN sections :
                shots[k][i] \notin sections[j].start .. (sections[j].end - 1)

\* The prompts a section sends are within the context threshold, unless they
\* carry one segment that is too long by itself, and the chunks still to be
\* sent are the rest of the section, in order.
PromptsFit ==
  \A k \in DOMAIN work :
    /\ \A c \in Range(work[k].chunks) : SegmentsFit(c) \/ Len(c) = 1
    /\ work[k].step \in {"single", "chunk"} =>
         IsSuffix(FlattenSeq(work[k].chunks), SegmentsOf(sections[k]))

\* Notes are reported only when the provider answered for some section, and
\* none of them cites a speaker who is not in the transcript; the request fails
\* only when the provider failed for every section.
NotesHonest ==
  /\ result \in {"notes", "untitled notes"} =>
       /\ \E k \in DOMAIN work : ~work[k].failed
       /\ \A k \in DOMAIN work : work[k].out.cites \in allowed_speakers \cup {None}
  /\ result = "LlmUnavailable" => \A k \in DOMAIN work : work[k].out.kind = "fallback"

\* Whatever the provider answers, generate returns: merging summaries that do
\* not get shorter is given up.
GenerateReturns == <>(stage = "done")

=============================================================================
