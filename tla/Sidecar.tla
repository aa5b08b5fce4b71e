------------------------------- MODULE Sidecar -------------------------------
(***************************************************************************)
(* The two adapters that talk to a helper process over its stdin and       *)
(* stdout, one JSON line per request and per reply:                        *)
(*   - "llm": crates/panops-mac/src/foundation_llm.rs, with a deadline on  *)
(*     every reply, though on no request, chosen at startup by pick_llm                          *)
(*     (crates/panops-engine/src/llm_resolver.rs) when its probe succeeds; *)
(*   - "asr": crates/panops-mac/src/whisperkit_asr.rs, without a deadline. *)
(*                                                                         *)
(* A call holds the state mutex from the spawn to the reply.  The child    *)
(* runs beside it: it may be slow, hang, exit, or write lines nobody asked *)
(* for.                                                                    *)
(***************************************************************************)
EXTENDS Integers, Sequences

CONSTANTS
  Callers,        \* threads: the starting engine, the sections of notes jobs
  Starter,        \* the one that runs pick_llm
  MaxCalls,       \* bound on the calls
  MaxPipe,        \* bound on the unread lines
  None

ASSUME StarterIsACaller == Starter \in Callers /\ None \notin Callers

VARIABLES
  adapter,        \* "llm" or "asr"
  provider,       \* pick_llm's choice: "unset", "sidecar" or "ollama"
  holder,         \* who holds the state mutex
  slot,           \* Option<SidecarState>: TRUE with a child
  child,          \* the slot's child: "up", "wedged" or "dead"
  inbox,          \* request ids the child has not answered
  pipe,           \* lines of the child nobody has read
  next_id,
  left,           \* calls that may still be made
  call,           \* per caller: [pc, id, got], got being the request answered
  lost,           \* history: the adapter has seen this slot's stream broken
  stray           \* history: this slot's child has written more than its answers

vars == <<adapter, provider, holder, slot, child, inbox, pipe, next_id, left, call, lost, stray>>
childVars == <<slot, child, inbox, pipe, lost, stray>>

Idle == [pc |-> "idle", id |-> 0, got |-> 0]

\* "error": a JSON-RPC error; "binary": not UTF-8; "garbage": not the expected
\* JSON; "null": id null; "half": no newline before EOF or before
\* MAX_RESPONSE_BYTES.
Line(kind, id) == [kind |-> kind, id |-> id]

Init ==
  /\ adapter \in {"llm", "asr"}
  /\ provider = IF adapter = "llm" THEN "unset" ELSE "sidecar"
  /\ holder = None /\ slot = FALSE /\ child = "dead"
  /\ inbox = <<>> /\ pipe = <<>> /\ next_id = 1 /\ left = MaxCalls
  /\ call = [c \in Callers |-> Idle]
  /\ lost = FALSE /\ stray = FALSE

\* *slot = None: SidecarState::drop closes stdin, kills and reaps the child.
ClearSlot ==
  /\ slot' = FALSE /\ child' = "dead" /\ inbox' = <<>> /\ pipe' = <<>>
  /\ lost' = FALSE /\ stray' = FALSE

Goto(c, pc) == call' = [call EXCEPT ![c] = [@ EXCEPT !.pc = pc]]

\* The call returns and the guard is dropped.
Return(c, pc, got) ==
  /\ call' = [call EXCEPT ![c] = [pc |-> pc, id |-> @.id, got |-> got]]
  /\ holder' = None

-----------------------------------------------------------------------------
(***************************************************************************)
(* send_request.                                                           *)
(***************************************************************************)

Enter(c, pc) ==
  /\ call[c].pc = "idle" /\ left > 0
  /\ left' = left - 1
  /\ call' = [call EXCEPT ![c] = [Idle EXCEPT !.pc = pc]]
  /\ UNCHANGED <<adapter, provider, holder, childVars, next_id>>

\* pick_llm probes before anything else; the child it spawned is kept.
probe(c) == adapter = "llm" /\ provider = "unset" /\ c = Starter /\ Enter(c, "lock")

complete(c) == adapter = "llm" /\ provider = "sidecar" /\ Enter(c, "lock")

transcribe(c) == adapter = "asr" /\ Enter(c, "wav")

\* The samples go through a temporary file, which may fail; no request is made
\* then.
write_temp_wav(c) ==
  /\ call[c].pc = "wav"
  /\ \E pc \in {"lock", "err"} : Goto(c, pc)
  /\ UNCHANGED <<adapter, provider, holder, childVars, next_id, left>>

Lock(c) ==
  /\ call[c].pc = "lock" /\ holder = None
  /\ holder' = c
  /\ Goto(c, "spawn")
  /\ UNCHANGED <<adapter, left, provider, childVars, next_id>>

\* A populated slot is used as it is, a child that has died included.
ensure_spawned(c) ==
  /\ call[c].pc = "spawn"
  /\ \/ /\ slot
        /\ Goto(c, "write")
        /\ UNCHANGED <<holder, childVars>>
     \/ /\ ~slot
        /\ slot' = TRUE /\ child' = "up"
        /\ Goto(c, "write")
        /\ UNCHANGED <<holder, inbox, pipe, lost, stray>>
     \/ /\ ~slot
        /\ Return(c, "err", 0)
        /\ UNCHANGED childVars
  /\ UNCHANGED <<adapter, left, provider, next_id>>

\* The id is spent even when the write fails.  The pipe takes a request whole
\* that fits its buffer, whether the child still reads or not.
WriteRequest(c) ==
  /\ call[c].pc = "write" /\ child # "dead"
  /\ next_id' = next_id + 1
  /\ inbox' = Append(inbox, next_id)
  /\ call' = [call EXCEPT ![c] = [pc |-> "read", id |-> next_id, got |-> @.got]]
  /\ UNCHANGED <<adapter, left, provider, holder, slot, child, pipe, lost, stray>>

\* write_all has no deadline, and stdin is a blocking pipe: a completion, with
\* its prompt, may be more than the pipe holds, and a hung child reads none of it.
WriteBlocks(c) ==
  /\ call[c].pc = "write" /\ child = "wedged"
  /\ adapter = "llm" /\ provider = "sidecar"
  /\ Goto(c, "blocked")
  /\ UNCHANGED <<adapter, left, provider, holder, childVars, next_id>>

\* A failed write that leaves the slot populated.
WriteFailsKeepsSlot(c) ==
  /\ call[c].pc \in {"write", "blocked"} /\ child = "dead"
  /\ lost' = TRUE
  /\ next_id' = next_id + 1
  /\ Return(c, "err", 0)
  /\ UNCHANGED <<adapter, left, provider, slot, child, inbox, pipe, stray>>

\* Broken pipe, at once or when the child dies on which the write is blocked.
WriteFails(c) ==
  /\ call[c].pc \in {"write", "blocked"} /\ child = "dead"
  /\ ClearSlot
  /\ next_id' = next_id + 1
  /\ Return(c, "err", 0)
  /\ UNCHANGED <<adapter, left, provider>>

\* The line is taken for the reply whatever its id.
AcceptsAnyId(line, id) == line.kind \in {"result", "error", "missing"}

\* The reply can be paired with the request.
IsReplyTo(line, id) == line.kind \in {"result", "error", "missing"} /\ line.id = id

\* A line that is no UTF-8 and an error or an empty reply to this request keep
\* the child; every other surprise clears the slot.
ReadLine(c) ==
  /\ call[c].pc = "read" /\ pipe # <<>>
  /\ LET line == Head(pipe)
     IN  IF IsReplyTo(line, call[c].id) \/ line.kind = "binary"
         THEN /\ IF line.kind = "result" THEN Return(c, "ok", line.id) ELSE Return(c, "err", 0)
              /\ pipe' = Tail(pipe)
              /\ UNCHANGED <<slot, child, inbox, lost, stray>>
         ELSE Return(c, "err", 0) /\ ClearSlot
  /\ UNCHANGED <<adapter, left, provider, next_id>>

\* n == 0.
ReadEof(c) ==
  /\ call[c].pc = "read" /\ pipe = <<>> /\ child = "dead"
  /\ ClearSlot
  /\ Return(c, "err", 0)
  /\ UNCHANGED <<adapter, left, provider, next_id>>

\* Only the probe has a deadline.
TimeoutForProbeOnly(c) ==
  /\ provider = "unset" /\ call[c].pc = "read" /\ pipe = <<>> /\ child # "dead"
  /\ ClearSlot
  /\ Return(c, "err", 0)
  /\ UNCHANGED <<adapter, left, provider, next_id>>

\* wait_readable runs into the deadline of read_response_line.
Timeout(c) ==
  /\ adapter = "llm" /\ call[c].pc = "read" /\ pipe = <<>> /\ child # "dead"
  /\ ClearSlot
  /\ Return(c, "err", 0)
  /\ UNCHANGED <<adapter, left, provider, next_id>>

\* pick_llm: an available model selects the sidecar; unavailable or an error
\* selects Ollama, and dropping the adapter reaps the child.
pick_llm(c) ==
  /\ provider = "unset" /\ call[c].pc \in {"ok", "err"}
  /\ \/ /\ call[c].pc = "ok" /\ provider' = "sidecar"
        /\ UNCHANGED childVars
     \/ provider' = "ollama" /\ ClearSlot
  /\ call' = [call EXCEPT ![c] = Idle]
  /\ UNCHANGED <<adapter, left, holder, next_id>>

\* The caller has its answer.
Done(c) ==
  /\ provider # "unset" /\ call[c].pc \in {"ok", "err"}
  /\ call' = [call EXCEPT ![c] = Idle]
  /\ UNCHANGED <<adapter, left, provider, holder, childVars, next_id>>

-----------------------------------------------------------------------------
(***************************************************************************)
(* The child.                                                              *)
(***************************************************************************)

ChildSays(kinds) ==
  /\ slot /\ child = "up" /\ inbox # <<>> /\ Len(pipe) < MaxPipe
  /\ \E k \in kinds : pipe' = Append(pipe, Line(k, Head(inbox)))
  /\ inbox' = Tail(inbox)
  /\ UNCHANGED <<adapter, left, provider, holder, slot, child, next_id, call, lost, stray>>

\* One line for the request.
ChildAnswers ==
  ChildSays({"result", "error", "missing", "null", "garbage", "binary", "half"})

\* A line nobody asked for: a second copy of an answer, or output of a library.
ChildStray ==
  /\ slot /\ child = "up" /\ Len(pipe) < MaxPipe
  /\ \E id \in 1 .. (next_id - 1), k \in {"result", "garbage"} :
       pipe' = Append(pipe, Line(k, id))
  /\ stray' = TRUE
  /\ UNCHANGED <<adapter, left, provider, holder, slot, child, inbox, next_id, call, lost>>

ChildHangs ==
  /\ slot /\ child = "up"
  /\ child' = "wedged"
  /\ UNCHANGED <<adapter, left, provider, holder, slot, inbox, pipe, next_id, call, lost, stray>>

ChildExits ==
  /\ slot /\ child # "dead"
  /\ child' = "dead"
  /\ UNCHANGED <<adapter, left, provider, holder, slot, inbox, pipe, next_id, call, lost, stray>>

CallStep(c) ==
  \/ write_temp_wav(c) \/ Lock(c) \/ ensure_spawned(c) \/ WriteRequest(c) \/ WriteBlocks(c)
  \/ WriteFails(c) \/ ReadLine(c) \/ ReadEof(c) \/ Timeout(c) \/ pick_llm(c) \/ Done(c)

Next ==
  \/ \E c \in Callers : probe(c) \/ complete(c) \/ transcribe(c) \/ CallStep(c)
  \/ ChildAnswers \/ ChildStray \/ ChildHangs \/ ChildExits

\* Threads run, deadlines pass, and a child that is up answers.  The mutex
\* starves nobody, as the calls are finitely many.
Spec == /\ Init /\ [][Next]_vars
        /\ \A c \in Callers : WF_vars(CallStep(c))
        /\ WF_vars(ChildAnswers)

-----------------------------------------------------------------------------
\* A caller is given the reply to its own request: not a line left over from a
\* call that failed, nor one a confused child wrote on its own.
ReplyMatchesCall ==
  \A c \in Callers : call[c].pc = "ok" => call[c].got = call[c].id

\* Between calls the slot is fit for the next one: a child whose stream the
\* adapter has seen broken is not kept, and as long as the child writes only
\* its answers there is nothing left in its pipe and nothing it still owes.
\* Without this every later call would fail on the same pipe.
IdleSlotUsable ==
  holder = None /\ slot => ~lost /\ (~stray => pipe = <<>> /\ inbox = <<>>)

\* A call can be stuck only on a child that hangs, and only where the code sets
\* no deadline: on any reply of the "asr" helper, and on a completion too large
\* for the pipe, whose writer keeps the mutex.
Stuck ==
  child = "wedged" /\ (adapter = "asr" \/ \E c \in Callers : call[c].pc = "blocked")

\* Every call returns, however the child behaves, or is stuck for ever on a
\* child that hangs.  pick_llm, whose probe always fits the pipe, comes to a
\* choice before the socket is bound.
CallsReturn ==
  /\ \A c \in Callers :
       call[c].pc \in {"wav", "lock"} ~> (call[c].pc \in {"ok", "err", "idle"} \/ []Stuck)
  /\ \A c \in Callers : (provider = "unset" /\ call[c].pc = "lock") ~> provider # "unset"

=============================================================================
