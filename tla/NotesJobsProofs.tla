--------------------------- MODULE NotesJobsProofs ---------------------------
(***************************************************************************)
(* Theorems about NotesJobs, for any number of jobs, subscribers, permits  *)
(* and ring slots.                                                         *)
(*                                                                         *)
(* Counting permits is not inductive by itself: dropping a permit hands it *)
(* to the head of the queue, so the proof has to know that the jobs in the *)
(* queue are exactly waiting there, each once (QueueInv).                  *)
(***************************************************************************)
EXTENDS NotesJobs, FiniteSetTheorems, SequenceTheorems, TLAPS

\* Everyone in the queue waits, once, and the permits add up.
QueueInv ==
  /\ pc \in [Jobs -> JobStates]
  /\ permits \in Nat
  /\ queue \in Seq(Jobs)
  /\ \A i \in 1 .. Len(queue) : pc[queue[i]] = "waiting"
  /\ \A i, k \in 1 .. Len(queue) : queue[i] = queue[k] => i = k
  /\ IsFiniteSet(Holders)
  /\ PermitsConserved

\* A job that changes state without taking, dropping or awaiting a permit.
LEMMA OrdinaryStep ==
  ASSUME QueueInv, NEW j \in Jobs, NEW x \in JobStates,
         pc[j] # "waiting", x # "waiting", pc[j] \in Holding <=> x \in Holding,
         pc' = [pc EXCEPT ![j] = x], UNCHANGED <<permits, queue>>
  PROVE  QueueInv'
<1>. USE DEF QueueInv
<1>1. Holders' = Holders
  BY DEF Holders
<1>2. \A i \in 1 .. Len(queue) : queue[i] # j
  OBVIOUS
<1>3. \A i \in 1 .. Len(queue) : queue[i] \in Jobs
  OBVIOUS
<1>4. PermitsConserved'
  BY <1>1 DEF PermitsConserved
<1>. QED  BY <1>1, <1>2, <1>3, <1>4

\* acquire_owned takes a free permit or joins the queue.
LEMMA AcquireKeepsCount ==
  ASSUME QueueInv, NEW j \in Jobs, AcquirePermit(j)
  PROVE  QueueInv'
<1>. USE DEF QueueInv
<1>1. pc[j] = "spawned" /\ j \notin Holders
  BY DEF AcquirePermit, Holders, Holding, Pipeline, Stages
<1>2. \A i \in 1 .. Len(queue) : queue[i] # j /\ queue[i] \in Jobs
  BY <1>1
<1>3. CASE permits > 0
  <2>1. /\ permits' = permits - 1 /\ queue' = queue
        /\ pc' = [pc EXCEPT ![j] = "granted"]
    BY <1>3 DEF AcquirePermit
  <2>2. Holders' = Holders \cup {j}
    BY <2>1 DEF Holders, Holding, Pipeline
  <2>3. IsFiniteSet(Holders') /\ Cardinality(Holders') = Cardinality(Holders) + 1
    BY <1>1, <2>2, FS_AddElement
  <2>4. Cardinality(Holders) \in Nat
    BY FS_CardinalityType
  <2>5. permits' \in Nat /\ queue = <<>>
    BY <1>3, <2>1 DEF PermitsConserved
  <2>6. PermitsConserved'
    BY <2>1, <2>3, <2>4, <2>5, LimitsArePositive DEF PermitsConserved
  <2>7. pc' \in [Jobs -> JobStates]
    BY <2>1 DEF JobStates, Holding, Pipeline
  <2>. QED  BY <1>2, <2>1, <2>3, <2>5, <2>6, <2>7
<1>4. CASE ~(permits > 0)
  <2>1. /\ permits' = permits /\ queue' = Append(queue, j)
        /\ pc' = [pc EXCEPT ![j] = "waiting"]
    BY <1>4 DEF AcquirePermit
  <2>2. Holders' = Holders
    BY <1>1, <2>1 DEF Holders, Holding, Pipeline, Stages
  <2>3. permits = 0
    BY <1>4
  <2>4. PermitsConserved'
    BY <2>1, <2>2, <2>3 DEF PermitsConserved
  <2>5. pc' \in [Jobs -> JobStates]
    BY <2>1 DEF JobStates
  <2>6. /\ Len(queue') = Len(queue) + 1 /\ queue' \in Seq(Jobs)
        /\ \A i \in 1 .. Len(queue) : queue'[i] = queue[i]
        /\ queue'[Len(queue) + 1] = j
    BY <2>1
  <2>7. \A i \in 1 .. Len(queue') : pc'[queue'[i]] = "waiting"
    BY <1>2, <2>1, <2>6
  <2>8. \A i, k \in 1 .. Len(queue') : queue'[i] = queue'[k] => i = k
    BY <1>2, <2>6
  <2>. QED  BY <2>1, <2>2, <2>4, <2>5, <2>6, <2>7, <2>8
<1>. QED  BY <1>3, <1>4

\* A dropped permit is freed or goes to the first waiter.
LEMMA DropKeepsCount ==
  ASSUME QueueInv, NEW j \in Jobs, NEW x \in {"ended", "panicked"},
         pc[j] \in Holding, DropPermit(j, x)
  PROVE  QueueInv'
<1>. USE DEF QueueInv
<1>1. pc[j] # "waiting" /\ j \in Holders /\ x \in JobStates /\ x \notin Holding
  BY DEF Holders, Holding, Pipeline, Stages, JobStates
<1>2. \A i \in 1 .. Len(queue) : queue[i] # j /\ queue[i] \in Jobs
  BY <1>1
<1>3. Cardinality(Holders) \in Nat
  BY FS_CardinalityType
<1>4. IsFiniteSet(Holders \ {j}) /\ Cardinality(Holders \ {j}) = Cardinality(Holders) - 1
  BY <1>1, FS_RemoveElement
<1>5. CASE queue = <<>>
  <2>1. /\ permits' = permits + 1 /\ queue' = queue
        /\ pc' = [pc EXCEPT ![j] = x]
    BY <1>5 DEF DropPermit
  <2>2. Holders' = Holders \ {j}
    BY <1>1, <2>1 DEF Holders
  <2>3. PermitsConserved'
    BY <1>3, <1>4, <1>5, <2>1, <2>2, LimitsArePositive DEF PermitsConserved
  <2>. QED  BY <1>1, <1>2, <1>4, <2>1, <2>2, <2>3
<1>6. CASE queue # <<>>
  <2>. DEFINE h == queue[1]
  <2>1. /\ permits' = permits /\ queue' = Tail(queue)
        /\ pc' = [pc EXCEPT ![j] = x, ![h] = "granted"]
    BY <1>6 DEF DropPermit
  <2>2. 1 \in 1 .. Len(queue) /\ h \in Jobs /\ h # j /\ pc[h] = "waiting"
    BY <1>2, <1>6
  <2>3. h \notin Holders \ {j}
    BY <2>2 DEF Holders, Holding, Pipeline, Stages
  <2>4. Holders' = (Holders \ {j}) \cup {h}
    BY <1>1, <2>1, <2>2 DEF Holders, Holding, Pipeline
  <2>5. IsFiniteSet(Holders') /\ Cardinality(Holders') = Cardinality(Holders)
    <3>. HIDE DEF h
    <3>1. /\ IsFiniteSet((Holders \ {j}) \cup {h})
          /\ Cardinality((Holders \ {j}) \cup {h}) = Cardinality(Holders \ {j}) + 1
      BY <1>4, <2>3, FS_AddElement
    <3>. QED  BY <1>3, <1>4, <2>4, <3>1
  <2>6. /\ queue' \in Seq(Jobs) /\ Len(queue') = Len(queue) - 1
        /\ \A i \in 1 .. Len(queue') : queue'[i] = queue[i + 1] /\ i + 1 \in 1 .. Len(queue)
    BY <1>6, <2>1
  <2>7. \A i \in 1 .. Len(queue') : queue'[i] # h /\ queue'[i] # j
    BY <1>2, <2>2, <2>6
  <2>8. pc' \in [Jobs -> JobStates]
    BY <1>1, <2>1, <2>2 DEF JobStates, Holding, Pipeline
  <2>9. \A i \in 1 .. Len(queue') : pc'[queue'[i]] = "waiting"
    BY <1>2, <2>1, <2>6, <2>7
  <2>10. \A i, k \in 1 .. Len(queue') : queue'[i] = queue'[k] => i = k
    BY <2>6
  <2>11. PermitsConserved'
    BY <1>6, <2>1, <2>5 DEF PermitsConserved
  <2>. QED  BY <2>1, <2>5, <2>6, <2>8, <2>9, <2>10, <2>11
<1>. QED  BY <1>5, <1>6

\* Every step keeps the queue and the count.
LEMMA QueueStep ==
  ASSUME QueueInv, [Next]_vars
  PROVE  QueueInv'
<1>. USE DEF JobStates, Holding, Pipeline, Stages
<1>1. ASSUME UNCHANGED <<pc, permits, queue>>
      PROVE  QueueInv'
  BY <1>1 DEF QueueInv, Holders, PermitsConserved
<1>2. CASE spawn_heavy_init
  BY <1>1, <1>2 DEF spawn_heavy_init
<1>3. ASSUME NEW j \in Jobs, notes_generate(j)
      PROVE  QueueInv'
  BY <1>3, OrdinaryStep DEF notes_generate
<1>4. ASSUME NEW j \in Jobs, JobStep(j)
      PROVE  QueueInv'
  <2>1. CASE AcquirePermit(j)
    BY <2>1, AcquireKeepsCount
  <2>2. CASE PassGate(j)
    BY <2>2, OrdinaryStep DEF PassGate
  <2>3. ASSUME NEW stage \in Stages \ {"checked"}, Progress(j, stage)
        PROVE  QueueInv'
    BY <2>3, OrdinaryStep DEF Progress, MayFollow
  <2>4. CASE PipelineOk(j)
    BY <2>4, OrdinaryStep DEF PipelineOk
  <2>5. CASE PipelineErr(j)
    BY <2>5, OrdinaryStep DEF PipelineErr
  <2>6. CASE ClosureEnds(j)
    BY <2>6, DropKeepsCount DEF ClosureEnds
  <2>7. CASE PipelinePanics(j)
    BY <2>7, DropKeepsCount DEF PipelinePanics
  <2>8. CASE ReportPanic(j)
    BY <2>8, OrdinaryStep DEF ReportPanic
  <2>. QED  BY <1>4, <2>1, <2>2, <2>3, <2>4, <2>5, <2>6, <2>7, <2>8 DEF JobStep
<1>5. ASSUME NEW s \in Subscribers,
             AcceptSubscription(s) \/ Receive(s) \/ CloseSubscription(s)
      PROVE  QueueInv'
  BY <1>1, <1>5 DEF AcceptSubscription, Receive, Listen, Deliver, CloseSubscription
<1>6. CASE UNCHANGED vars
  BY <1>1, <1>6 DEF vars
<1>. QED  BY <1>2, <1>3, <1>4, <1>5, <1>6 DEF Next

-----------------------------------------------------------------------------
(***************************************************************************)
(* Typing                                                                  *)
(***************************************************************************)

\* What a send leaves in a receiver's share of the ring is well typed.
LEMMA BroadcastType ==
  ASSUME NEW r \in SubRecords, NEW e \in Events
  PROVE  Broadcast(r, e) \in SubRecords
<1>. DEFINE u == Append(r.unread, e)
<1>1. u \in Seq(Events) /\ u # <<>>
  BY DEF SubRecords
<1>2. Tail(u) \in Seq(Events) /\ Head(u) \in Events
  <2>. HIDE DEF u
  <2>. QED  BY <1>1
<1>3. Head(u).job \in Jobs
  BY <1>2 DEF Events
<1>. HIDE DEF u
<1>4. CASE r.pc # "open"
  BY <1>4 DEF Broadcast
<1>5. CASE r.pc = "open" /\ Len(u) <= EVENT_CHANNEL_CAPACITY
  <2>1. Broadcast(r, e) = [r EXCEPT !.unread = u]
    BY <1>5 DEF Broadcast, u
  <2>. QED  BY <1>1, <2>1 DEF SubRecords
<1>6. CASE r.pc = "open" /\ ~(Len(u) <= EVENT_CHANNEL_CAPACITY)
  <2>. DEFINE o == IF Head(u).kind \in Terminal
                   THEN r.overrun \cup {Head(u).job} ELSE r.overrun
  <2>1. Broadcast(r, e) = [r EXCEPT !.unread = Tail(u), !.overrun = o]
    BY <1>6 DEF Broadcast, u
  <2>2. o \subseteq Jobs
    BY <1>3 DEF SubRecords
  <2>. HIDE DEF o
  <2>. QED  BY <1>2, <2>1, <2>2 DEF SubRecords
<1>. QED  BY <1>4, <1>5, <1>6

\* So is what is left of it after a read.
LEMMA ReadType ==
  ASSUME NEW r \in SubRecords, r.unread # <<>>
  PROVE  ReadOne(r) \in SubRecords
<1>. DEFINE h == IF Head(r.unread).kind \in Terminal
                 THEN r.heard \cup {Head(r.unread).job} ELSE r.heard
<1>1. r.unread \in Seq(Events) /\ r.heard \subseteq Jobs
  BY DEF SubRecords
<1>2. Tail(r.unread) \in Seq(Events) /\ Head(r.unread) \in Events
  BY <1>1
<1>3. h \subseteq Jobs
  BY <1>1, <1>2 DEF Events
<1>4. ReadOne(r) = [r EXCEPT !.unread = Tail(r.unread), !.heard = h]
  BY DEF ReadOne
<1>. HIDE DEF h
<1>. QED  BY <1>2, <1>3, <1>4 DEF SubRecords

\* The part of TypeOK that the queue invariant does not already give.
DataInv ==
  /\ heavy \in {"warming", "ready", "failed"}
  /\ sent \in [Jobs -> Seq(Kinds)]
  /\ sub \in [Subscribers -> SubRecords]
  /\ told \in [Jobs -> [Subscribers -> SubStates]]

\* A send appends a kind and feeds every receiver.
LEMMA SendType ==
  ASSUME DataInv, NEW j \in Jobs, NEW kind \in Kinds, Send(j, kind)
  PROVE  sent' \in [Jobs -> Seq(Kinds)] /\ sub' \in [Subscribers -> SubRecords]
<1>1. sent' \in [Jobs -> Seq(Kinds)]
  BY DEF Send, DataInv
<1>2. [job |-> j, kind |-> kind] \in Events
  BY DEF Events
<1>3. sub' \in [Subscribers -> SubRecords]
  BY <1>2, BroadcastType DEF Send, DataInv
<1>. QED  BY <1>1, <1>3

\* Every step keeps the rest of the state typed.
LEMMA DataStep ==
  ASSUME DataInv, QueueInv, [Next]_vars
  PROVE  DataInv'
<1>1. ASSUME UNCHANGED <<heavy, sent, sub, told>>
      PROVE  DataInv'
  BY <1>1 DEF DataInv
<1>2. ASSUME NEW j \in Jobs, NEW kind \in Kinds, Send(j, kind), UNCHANGED <<heavy, told>>
      PROVE  DataInv'
  BY <1>2, SendType DEF DataInv
<1>3. ASSUME NEW s \in Subscribers, NEW r \in SubRecords, sub' = [sub EXCEPT ![s] = r],
             UNCHANGED <<heavy, sent, told>>
      PROVE  DataInv'
  BY <1>3 DEF DataInv
<1>4. CASE spawn_heavy_init
  BY <1>4 DEF spawn_heavy_init, DataInv
<1>5. ASSUME NEW j \in Jobs, notes_generate(j)
      PROVE  DataInv'
  <2>1. [s \in Subscribers |-> sub[s].pc] \in [Subscribers -> SubStates]
    BY DEF DataInv, SubRecords
  <2>. QED  BY <1>5, <2>1 DEF notes_generate, DataInv
<1>6. ASSUME NEW j \in Jobs, JobStep(j)
      PROVE  DataInv'
  <2>1. CASE AcquirePermit(j) \/ PassGate(j) \/ ClosureEnds(j) \/ PipelinePanics(j)
    BY <1>1, <2>1 DEF AcquirePermit, PassGate, ClosureEnds, PipelinePanics
  <2>2. ASSUME NEW stage \in Stages \ {"checked"}, Progress(j, stage)
        PROVE  DataInv'
    BY <1>2, <2>2 DEF Progress, Kinds
  <2>3. CASE PipelineOk(j) \/ PipelineErr(j) \/ ReportPanic(j)
    BY <1>2, <2>3 DEF PipelineOk, PipelineErr, ReportPanic, Kinds, Terminal
  <2>. QED  BY <1>6, <2>1, <2>2, <2>3 DEF JobStep
<1>7. ASSUME NEW s \in Subscribers,
             AcceptSubscription(s) \/ Receive(s) \/ CloseSubscription(s)
      PROVE  DataInv'
  <2>. sub[s] \in SubRecords
    BY DEF DataInv
  <2>1. CASE AcceptSubscription(s)
    <3>1. [sub[s] EXCEPT !.pc = "accepted"] \in SubRecords
      BY DEF SubRecords, SubStates
    <3>. QED  BY <1>3, <2>1, <3>1 DEF AcceptSubscription
  <2>2. CASE Listen(s)
    <3>1. [sub[s] EXCEPT !.pc = "open"] \in SubRecords
      BY DEF SubRecords, SubStates
    <3>. QED  BY <1>3, <2>2, <3>1 DEF Listen
  <2>3. CASE Deliver(s)
    <3>1. ReadOne(sub[s]) \in SubRecords
      BY <2>3, ReadType DEF Deliver
    <3>. QED  BY <1>3, <2>3, <3>1 DEF Deliver
  <2>4. CASE CloseSubscription(s)
    <3>1. Unsubscribed \in SubRecords
      BY DEF Unsubscribed, SubRecords, SubStates
    <3>2. [Unsubscribed EXCEPT !.pc = "closed"] \in SubRecords
      BY <3>1 DEF SubRecords, SubStates
    <3>. QED  BY <1>3, <2>4, <3>2 DEF CloseSubscription
  <2>. QED  BY <1>7, <2>1, <2>2, <2>3, <2>4 DEF Receive
<1>8. CASE UNCHANGED vars
  BY <1>1, <1>8 DEF vars
<1>. QED  BY <1>4, <1>5, <1>6, <1>7, <1>8 DEF Next

\* The two halves hold together in every reachable state.
LEMMA QueueAndData == Spec => [](QueueInv /\ DataInv)
<1>1. Init => QueueInv
  <2>. SUFFICES ASSUME Init PROVE QueueInv
    OBVIOUS
  <2>1. Holders = {}
    BY DEF Init, Holders, Holding, Pipeline, Stages
  <2>2. IsFiniteSet(Holders) /\ Cardinality(Holders) = 0
    BY <2>1, FS_EmptySet
  <2>. QED  BY <2>2, LimitsArePositive DEF Init, QueueInv, PermitsConserved, JobStates
<1>2. Init => DataInv
  BY DEF Init, DataInv, Unsubscribed, SubRecords, SubStates
<1>3. QueueInv /\ DataInv /\ [Next]_vars => (QueueInv /\ DataInv)'
  BY QueueStep, DataStep
<1>. QED  BY <1>1, <1>2, <1>3, PTL DEF Spec

\* At most MAX_CONCURRENT_NOTES_JOBS pipelines ever run, no permit is lost to a
\* panic, and no job waits beside a free permit.
THEOREM Backpressure == Spec => []PermitsConserved
BY QueueAndData, PTL DEF QueueInv

\* TypeOK holds in every reachable state.
THEOREM TypeCorrect == Spec => []TypeOK
<1>1. QueueInv /\ DataInv => TypeOK
  <2>. SUFFICES ASSUME QueueInv, DataInv PROVE TypeOK
    OBVIOUS
  <2>1. Cardinality(Holders) \in Nat
    BY FS_CardinalityType DEF QueueInv
  <2>2. permits \in 0 .. MAX_CONCURRENT_NOTES_JOBS
    BY <2>1, LimitsArePositive DEF QueueInv, PermitsConserved
  <2>. QED  BY <2>2 DEF QueueInv, DataInv, TypeOK
<1>. QED  BY <1>1, QueueAndData, PTL

-----------------------------------------------------------------------------
(***************************************************************************)
(* One terminal event, and the promise to callers                          *)
(***************************************************************************)
Over == {"finished", "ended"}

\* A step that sends nothing and ends no job.
LEMMA SilentStep ==
  ASSUME OneTerminalEventLast, sent' = sent,
         \A k \in Jobs : pc'[k] \in Over <=> pc[k] \in Over
  PROVE  OneTerminalEventLast'
BY DEF OneTerminalEventLast, Ended, Over

\* A step that sends one event of a job that was not over: terminal exactly
\* when the job is over afterwards.
LEMMA SendingStep ==
  ASSUME OneTerminalEventLast, DataInv, NEW j \in Jobs, NEW kind \in Kinds, Send(j, kind),
         pc \in [Jobs -> JobStates], NEW x \in JobStates, pc' = [pc EXCEPT ![j] = x],
         pc[j] \notin Over, x \in Over <=> kind \in Terminal
  PROVE  /\ OneTerminalEventLast'
         /\ sent'[j] = Append(sent[j], kind)
         /\ \A k \in Jobs \ {j} : sent'[k] = sent[k]
<1>. USE DEF OneTerminalEventLast, Ended, Over
<1>1. /\ sent'[j] = Append(sent[j], kind) /\ sent[j] \in Seq(Kinds)
      /\ \A k \in Jobs \ {j} : sent'[k] = sent[k] /\ pc'[k] = pc[k]
      /\ pc'[j] = x
  BY DEF Send, DataInv
<1>2. \A i \in DOMAIN sent[j] : sent[j][i] \notin Terminal
  OBVIOUS
<1>3. /\ DOMAIN sent'[j] = 1 .. Len(sent[j]) + 1 /\ Len(sent'[j]) = Len(sent[j]) + 1
      /\ \A i \in DOMAIN sent[j] : sent'[j][i] = sent[j][i]
      /\ DOMAIN sent[j] = 1 .. Len(sent[j]) /\ Len(sent[j]) \in Nat
      /\ sent'[j][Len(sent[j]) + 1] = kind
  BY <1>1
<1>4. Ended(j)' <=> x \in Over
  BY <1>1, <1>2, <1>3
<1>5. \A i \in DOMAIN sent'[j] : sent'[j][i] \in Terminal => i = Len(sent'[j])
  BY <1>2, <1>3
<1>6. ASSUME NEW k \in Jobs \ {j}
      PROVE  /\ Ended(k)' <=> pc'[k] \in Over
             /\ \A i \in DOMAIN sent'[k] : sent'[k][i] \in Terminal => i = Len(sent'[k])
  BY <1>1, <1>6
<1>. QED  BY <1>1, <1>4, <1>5, <1>6

\* A job that stops holding a permit ends no other job and starts none.
LEMMA DropKeepsOthers ==
  ASSUME QueueInv, NEW j \in Jobs, NEW x \in JobStates, DropPermit(j, x),
         pc[j] \in Over <=> x \in Over, pc[j] # "new", x # "new"
  PROVE  \A k \in Jobs : /\ pc'[k] \in Over <=> pc[k] \in Over
                         /\ pc'[k] = "new" <=> pc[k] = "new"
<1>. USE DEF QueueInv, Over
<1>1. CASE queue = <<>>
  BY <1>1 DEF DropPermit
<1>2. CASE queue # <<>>
  <2>1. queue[1] \in Jobs /\ pc[queue[1]] = "waiting"
    BY <1>2
  <2>2. pc' = [pc EXCEPT ![j] = x, ![queue[1]] = "granted"]
    BY <1>2 DEF DropPermit
  <2>. QED  BY <2>1, <2>2
<1>. QED  BY <1>1, <1>2

\* The outcomes the service shows its callers.
outcomes == [j \in Jobs |-> OutcomeOf(j)]

\* What a job's own events say about its outcome.
LEMMA OutcomeFacts ==
  ASSUME OneTerminalEventLast, DataInv, NEW j \in Jobs
  PROVE  /\ pc[j] = "new" => OutcomeOf(j) = "none"
         /\ pc[j] # "new" /\ pc[j] \notin Over => OutcomeOf(j) = "accepted"
         /\ pc[j] \in Over => OutcomeOf(j) = sent[j][Len(sent[j])]
BY DEF OneTerminalEventLast, OutcomeOf, Over

\* A silent step that accepts no job changes no outcome.
LEMMA SilentOutcome ==
  ASSUME OneTerminalEventLast, sent' = sent,
         \A k \in Jobs : /\ pc'[k] \in Over <=> pc[k] \in Over
                         /\ pc'[k] = "new" <=> pc[k] = "new"
  PROVE  OneTerminalEventLast' /\ outcomes' = outcomes
<1>1. OneTerminalEventLast'
  BY SilentStep
<1>2. \A k \in Jobs : OutcomeOf(k)' = OutcomeOf(k)
  BY DEF OutcomeOf, Ended
<1>. QED  BY <1>1, <1>2 DEF outcomes

\* A sending step settles its job when the event is terminal, and otherwise
\* changes no outcome.
LEMMA SendingOutcome ==
  ASSUME OneTerminalEventLast, DataInv, NEW j \in Jobs, NEW kind \in Kinds, Send(j, kind),
         pc \in [Jobs -> JobStates], NEW x \in JobStates, pc' = [pc EXCEPT ![j] = x],
         pc[j] \notin Over, x \in Over <=> kind \in Terminal, pc[j] # "new", x # "new"
  PROVE  /\ OneTerminalEventLast'
         /\ kind \in Terminal => outcomes[j] = "accepted" /\ outcomes' = [outcomes EXCEPT ![j] = kind]
         /\ kind \notin Terminal => outcomes' = outcomes
<1>1. /\ OneTerminalEventLast' /\ sent'[j] = Append(sent[j], kind)
      /\ \A k \in Jobs \ {j} : sent'[k] = sent[k]
  BY SendingStep
<1>2. \A k \in Jobs \ {j} : OutcomeOf(k)' = OutcomeOf(k)
  BY <1>1 DEF OutcomeOf, Ended
<1>3. OutcomeOf(j) = "accepted"
  BY OutcomeFacts
<1>4. sent[j] \in Seq(Kinds) /\ pc'[j] = x
  BY DEF DataInv
<1>5. sent'[j][Len(sent'[j])] = kind
  BY <1>1, <1>4
<1>6. Ended(j)' <=> x \in Over
  BY <1>1, <1>4 DEF OneTerminalEventLast, Over
<1>7. OutcomeOf(j)' = IF kind \in Terminal THEN kind ELSE "accepted"
  BY <1>4, <1>5, <1>6 DEF OutcomeOf
<1>. QED  BY <1>1, <1>2, <1>3, <1>7 DEF outcomes

\* Each step of the engine accepts or settles one job, or is invisible to callers.
LEMMA ServiceStep ==
  ASSUME OneTerminalEventLast, QueueInv, DataInv, [Next]_vars
  PROVE  /\ OneTerminalEventLast'
         /\ \/ outcomes' = outcomes
            \/ \E j \in Jobs : /\ outcomes[j] = "none"
                               /\ outcomes' = [outcomes EXCEPT ![j] = "accepted"]
            \/ \E j \in Jobs : /\ outcomes[j] = "accepted"
                               /\ \E o \in {"done", "error"} :
                                    outcomes' = [outcomes EXCEPT ![j] = o]
<1>. DEFINE Goal == /\ OneTerminalEventLast'
                    /\ \/ outcomes' = outcomes
                       \/ \E j \in Jobs : /\ outcomes[j] = "none"
                                          /\ outcomes' = [outcomes EXCEPT ![j] = "accepted"]
                       \/ \E j \in Jobs : /\ outcomes[j] = "accepted"
                                          /\ \E o \in {"done", "error"} :
                                               outcomes' = [outcomes EXCEPT ![j] = o]
<1>. SUFFICES Goal
  OBVIOUS
<1>0. pc \in [Jobs -> JobStates]
  BY DEF QueueInv
<1>1. ASSUME UNCHANGED <<pc, sent>>
      PROVE  Goal
  BY <1>1, SilentOutcome
<1>2. CASE spawn_heavy_init
  BY <1>1, <1>2 DEF spawn_heavy_init
<1>3. ASSUME NEW j \in Jobs, notes_generate(j)
      PROVE  Goal
  <2>1. pc[j] = "new" /\ pc' = [pc EXCEPT ![j] = "spawned"] /\ sent' = sent
    BY <1>3 DEF notes_generate
  <2>2. OneTerminalEventLast'
    BY <1>0, <2>1, SilentStep DEF Over
  <2>3. OutcomeOf(j) = "none" /\ ~Ended(j)
    BY <2>1 DEF OutcomeOf, OneTerminalEventLast
  <2>4. OutcomeOf(j)' = "accepted"
    BY <1>0, <2>1, <2>3 DEF OutcomeOf, Ended
  <2>5. \A k \in Jobs \ {j} : OutcomeOf(k)' = OutcomeOf(k)
    BY <1>0, <2>1 DEF OutcomeOf, Ended
  <2>6. outcomes[j] = "none" /\ outcomes' = [outcomes EXCEPT ![j] = "accepted"]
    BY <2>3, <2>4, <2>5 DEF outcomes
  <2>. QED  BY <2>2, <2>6
<1>4. ASSUME NEW j \in Jobs, JobStep(j)
      PROVE  Goal
  <2>. USE DEF JobStates, Holding, Pipeline, Stages, Over
  <2>1. CASE AcquirePermit(j)
    <3>1. /\ sent' = sent /\ pc[j] = "spawned"
          /\ pc' = [pc EXCEPT ![j] = "granted"] \/ pc' = [pc EXCEPT ![j] = "waiting"]
      BY <2>1 DEF AcquirePermit
    <3>. QED  BY <1>0, <3>1, SilentOutcome
  <2>2. CASE PassGate(j)
    <3>1. sent' = sent /\ pc[j] = "granted" /\ pc' = [pc EXCEPT ![j] = "checked"]
      BY <2>2 DEF PassGate
    <3>. QED  BY <1>0, <3>1, SilentOutcome
  <2>3. ASSUME NEW stage \in Stages \ {"checked"}, Progress(j, stage)
        PROVE  Goal
    <3>1. /\ Send(j, stage) /\ pc' = [pc EXCEPT ![j] = stage] /\ pc[j] \in Stages
          /\ stage \in Kinds /\ stage \notin Terminal
      BY <2>3 DEF Progress, MayFollow, Kinds, Terminal
    <3>. QED  BY <1>0, <3>1, SendingOutcome
  <2>4. CASE PipelineOk(j)
    <3>1. /\ Send(j, "done") /\ pc' = [pc EXCEPT ![j] = "finished"] /\ pc[j] \in Stages
          /\ "done" \in Kinds /\ "done" \in Terminal
      BY <2>4 DEF PipelineOk, Kinds, Terminal
    <3>. QED  BY <1>0, <3>1, SendingOutcome
  <2>5. CASE PipelineErr(j)
    <3>1. /\ Send(j, "error") /\ pc' = [pc EXCEPT ![j] = "finished"] /\ pc[j] \in Pipeline
          /\ "error" \in Kinds /\ "error" \in Terminal
      BY <2>5 DEF PipelineErr, Kinds, Terminal
    <3>. QED  BY <1>0, <3>1, SendingOutcome
  <2>6. CASE ClosureEnds(j)
    <3>1. sent' = sent /\ pc[j] = "finished" /\ DropPermit(j, "ended")
      BY <2>6 DEF ClosureEnds
    <3>. QED  BY <3>1, DropKeepsOthers, SilentOutcome
  <2>7. CASE PipelinePanics(j)
    <3>1. sent' = sent /\ pc[j] \in Stages /\ DropPermit(j, "panicked")
      BY <2>7 DEF PipelinePanics
    <3>. QED  BY <3>1, DropKeepsOthers, SilentOutcome
  <2>8. CASE ReportPanic(j)
    <3>1. /\ Send(j, "error") /\ pc' = [pc EXCEPT ![j] = "ended"] /\ pc[j] = "panicked"
          /\ "error" \in Kinds /\ "error" \in Terminal
      BY <2>8 DEF ReportPanic, Kinds, Terminal
    <3>. QED  BY <1>0, <3>1, SendingOutcome
  <2>. HIDE DEF Goal
  <2>. QED  BY <1>4, <2>1, <2>2, <2>3, <2>4, <2>5, <2>6, <2>7, <2>8 DEF JobStep
<1>5. ASSUME NEW s \in Subscribers,
             AcceptSubscription(s) \/ Receive(s) \/ CloseSubscription(s)
      PROVE  Goal
  <2>1. UNCHANGED <<pc, sent>>
    BY <1>5 DEF AcceptSubscription, Receive, Listen, Deliver, CloseSubscription
  <2>. HIDE DEF Goal
  <2>. QED  BY <1>1, <2>1
<1>6. CASE UNCHANGED vars
  BY <1>1, <1>6 DEF vars
<1>. HIDE DEF Goal
<1>. QED  BY <1>2, <1>3, <1>4, <1>5, <1>6 DEF Next

\* Nobody has sent anything yet.
LEMMA InitTerminal == Init => OneTerminalEventLast
BY DEF Init, OneTerminalEventLast, Ended

\* Every job sends exactly one terminal event and nothing after it, whatever its
\* pipeline does and however the jobs interleave.
THEOREM ExactlyOneOutcome == Spec => []OneTerminalEventLast
<1>1. OneTerminalEventLast /\ QueueInv /\ DataInv /\ [Next]_vars => OneTerminalEventLast'
  BY ServiceStep
<1>. QED  BY <1>1, InitTerminal, QueueAndData, PTL DEF Spec

\* The engine's jobs implement the service promised to callers: its safety part.
THEOREM JobsImplementService == Spec => Service!Safety
<1>1. Init => Service!Init
  BY DEF Init, Service!Init, OutcomeOf
<1>2. ASSUME OneTerminalEventLast, QueueInv, DataInv, [Next]_vars
      PROVE  [Service!Next]_([j \in Jobs |-> OutcomeOf(j)])
  BY <1>2, ServiceStep DEF Service!Next, Service!Accept, Service!Settle, outcomes
<1>. QED  BY <1>1, <1>2, ExactlyOneOutcome, QueueAndData, PTL DEF Spec, Service!Safety

-----------------------------------------------------------------------------
(***************************************************************************)
(* What each subscriber learns                                             *)
(*                                                                         *)
(* A receiver's share of the ring is a ledger: unread events u, and the    *)
(* jobs whose terminal event was delivered (h) or overwritten (o).  With E *)
(* the jobs that have ended, a terminal event still in the ring belongs to *)
(* an ended job, is the last of its job, and has not been accounted for    *)
(* before; an accounted job has nothing left in the ring.                  *)
(***************************************************************************)
Ledger(u, h, o, E) ==
  /\ \A i \in DOMAIN u : u[i].kind \in Terminal =>
       u[i].job \in E /\ \A k \in DOMAIN u : u[k].job = u[i].job => k <= i
  /\ \A i \in DOMAIN u : u[i].job \notin h \cup o
  /\ h \cup o \subseteq E
  /\ h \cap o = {}

Settled(u, h, o, j) ==
  j \in h \cup o \/ \E i \in DOMAIN u : u[i].job = j /\ u[i].kind \in Terminal

EndedJobs == {j \in Jobs : Ended(j)}

LedgerInv ==
  /\ \A s \in Subscribers : sub[s].pc \in {"none", "accepted"} =>
       sub[s].unread = <<>> /\ sub[s].heard = {} /\ sub[s].overrun = {}
  /\ \A s \in Subscribers : sub[s].pc = "open" =>
       Ledger(sub[s].unread, sub[s].heard, sub[s].overrun, EndedJobs)
  /\ \A s \in Subscribers, j \in Jobs : told[j][s] = "open" => sub[s].pc \in {"open", "closed"}
  /\ \A s \in Subscribers, j \in Jobs :
       sub[s].pc = "open" /\ told[j][s] = "open" /\ j \in EndedJobs =>
         Settled(sub[s].unread, sub[s].heard, sub[s].overrun, j)

\* The jobs that are ended once e has been sent too.
After(E, e) == IF e.kind \in Terminal THEN E \cup {e.job} ELSE E

\* An event of a job that has not ended goes into the ring.
LEMMA PushLedger ==
  ASSUME NEW u \in Seq(Events), NEW h, NEW o, NEW E, NEW e \in Events,
         Ledger(u, h, o, E), e.job \notin E
  PROVE  /\ Ledger(Append(u, e), h, o, After(E, e))
         /\ \A j : Settled(u, h, o, j) => Settled(Append(u, e), h, o, j)
         /\ e.kind \in Terminal => Settled(Append(u, e), h, o, e.job)
<1> DEFINE v == Append(u, e)
           n == Len(u)
<1>1. /\ n \in Nat /\ DOMAIN u = 1 .. n /\ DOMAIN v = 1 .. n + 1
      /\ \A i \in 1 .. n : v[i] = u[i]
      /\ v[n + 1] = e
  OBVIOUS
<1> HIDE DEF v, n
<1>2. \A i \in 1 .. n : u[i].kind \in Terminal => u[i].job # e.job
  BY <1>1 DEF Ledger
<1>3. \A i \in 1 .. n + 1 : v[i].kind \in Terminal => v[i].job \in After(E, e)
  <2> SUFFICES ASSUME NEW i \in 1 .. n + 1, v[i].kind \in Terminal
               PROVE  v[i].job \in After(E, e)
    OBVIOUS
  <2>1. CASE i \in 1 .. n
    BY <1>1, <2>1 DEF Ledger, After
  <2>2. CASE i = n + 1
    BY <1>1, <2>2 DEF After
  <2>. QED  BY <1>1, <2>1, <2>2
<1>4. \A i, k \in 1 .. n + 1 : v[i].kind \in Terminal /\ v[k].job = v[i].job => k <= i
  <2> SUFFICES ASSUME NEW i \in 1 .. n + 1, NEW k \in 1 .. n + 1,
                      v[i].kind \in Terminal, v[k].job = v[i].job
               PROVE  k <= i
    OBVIOUS
  <2>1. CASE i = n + 1
    BY <1>1, <2>1
  <2>2. CASE i \in 1 .. n
    <3>1. k # n + 1
      BY <1>1, <1>2, <2>2
    <3>2. k \in 1 .. n
      BY <1>1, <3>1
    <3>. QED  BY <1>1, <2>2, <3>2 DEF Ledger
  <2>. QED  BY <1>1, <2>1, <2>2
<1>5. \A i \in 1 .. n + 1 : v[i].job \notin h \cup o
  <2> SUFFICES ASSUME NEW i \in 1 .. n + 1 PROVE v[i].job \notin h \cup o
    OBVIOUS
  <2>1. CASE i \in 1 .. n
    BY <1>1, <2>1 DEF Ledger
  <2>2. CASE i = n + 1
    BY <1>1, <2>2 DEF Ledger
  <2>. QED  BY <1>1, <2>1, <2>2
<1>6. Ledger(v, h, o, After(E, e))
  BY <1>1, <1>3, <1>4, <1>5 DEF Ledger, After
<1>7. ASSUME NEW j, Settled(u, h, o, j) PROVE Settled(v, h, o, j)
  <2>1. CASE j \in h \cup o
    BY <2>1 DEF Settled
  <2>2. ASSUME NEW i \in 1 .. n, u[i].job = j, u[i].kind \in Terminal
        PROVE  Settled(v, h, o, j)
    <3>1. i \in 1 .. n + 1 /\ v[i] = u[i]
      BY <1>1
    <3>. QED  BY <1>1, <2>2, <3>1 DEF Settled
  <2>. QED  BY <1>1, <1>7, <2>1, <2>2 DEF Settled
<1>8. e.kind \in Terminal => Settled(v, h, o, e.job)
  <2>1. n + 1 \in DOMAIN v
    BY <1>1
  <2>. QED  BY <1>1, <2>1 DEF Settled
<1>. QED  BY <1>6, <1>7, <1>8 DEF v

\* The job that the first unread event settles, if it is a terminal one.
HeadJob(u) == IF Head(u).kind \in Terminal THEN {Head(u).job} ELSE {}

\* The first unread event leaves the ring and is entered under heard or overrun.
LEMMA PopLedger ==
  ASSUME NEW u \in Seq(Events), u # <<>>, NEW h, NEW o, NEW E, Ledger(u, h, o, E)
  PROVE  /\ Ledger(Tail(u), h \cup HeadJob(u), o, E)
         /\ Ledger(Tail(u), h, o \cup HeadJob(u), E)
         /\ \A j : Settled(u, h, o, j) => /\ Settled(Tail(u), h \cup HeadJob(u), o, j)
                                          /\ Settled(Tail(u), h, o \cup HeadJob(u), j)
<1> DEFINE v == Tail(u)
           n == Len(u)
           x == HeadJob(u)
<1>1. /\ n \in Nat /\ n >= 1 /\ DOMAIN u = 1 .. n /\ DOMAIN v = 1 .. n - 1
      /\ \A i \in 1 .. n - 1 : v[i] = u[i + 1] /\ i + 1 \in 1 .. n
      /\ Head(u) = u[1]
  OBVIOUS
<1>2. x = IF u[1].kind \in Terminal THEN {u[1].job} ELSE {}
  BY <1>1 DEF HeadJob
<1> HIDE DEF v, n, x
<1>3. x \subseteq E /\ x \cap (h \cup o) = {}
  BY <1>1, <1>2 DEF Ledger
<1>4. \A i \in 1 .. n - 1 : v[i].job \notin h \cup o \cup x
  <2> SUFFICES ASSUME NEW i \in 1 .. n - 1 PROVE v[i].job \notin h \cup o \cup x
    OBVIOUS
  <2>1. v[i] = u[i + 1] /\ i + 1 \in 1 .. n /\ 1 \in 1 .. n /\ ~(i + 1 <= 1)
    BY <1>1
  <2>2. v[i].job \notin h \cup o
    BY <1>1, <2>1 DEF Ledger
  <2>3. u[1].kind \in Terminal => u[i + 1].job # u[1].job
    BY <1>1, <2>1 DEF Ledger
  <2>. QED  BY <1>2, <2>1, <2>2, <2>3
<1>5. ASSUME NEW i \in 1 .. n - 1, v[i].kind \in Terminal
      PROVE  v[i].job \in E /\ \A k \in 1 .. n - 1 : v[k].job = v[i].job => k <= i
  <2>1. v[i] = u[i + 1] /\ i + 1 \in 1 .. n
    BY <1>1
  <2>2. \A k \in 1 .. n - 1 : v[k].job = v[i].job => k + 1 <= i + 1
    BY <1>1, <1>5, <2>1 DEF Ledger
  <2>3. v[i].job \in E
    BY <1>1, <1>5, <2>1 DEF Ledger
  <2>. QED  BY <1>1, <2>2, <2>3
<1>6. h \cup o \subseteq E /\ h \cap o = {}
  BY DEF Ledger
<1>7. Ledger(v, h \cup x, o, E)
  BY <1>1, <1>3, <1>4, <1>5, <1>6 DEF Ledger
<1>8. Ledger(v, h, o \cup x, E)
  BY <1>1, <1>3, <1>4, <1>5, <1>6 DEF Ledger
<1>9. ASSUME NEW j, Settled(u, h, o, j)
      PROVE  Settled(v, h \cup x, o, j) /\ Settled(v, h, o \cup x, j)
  <2>1. CASE j \in h \cup o
    BY <2>1 DEF Settled
  <2>2. ASSUME NEW i \in 1 .. n, u[i].job = j, u[i].kind \in Terminal
        PROVE  Settled(v, h \cup x, o, j) /\ Settled(v, h, o \cup x, j)
    <3>1. CASE i = 1
      BY <1>2, <2>2, <3>1 DEF Settled
    <3>2. CASE i # 1
      <4>1. i - 1 \in 1 .. n - 1 /\ v[i - 1] = u[i]
        BY <1>1, <3>2
      <4>. QED  BY <1>1, <2>2, <4>1 DEF Settled
    <3>. QED  BY <3>1, <3>2
  <2>. QED  BY <1>1, <1>9, <2>1, <2>2 DEF Settled
<1>. QED  BY <1>7, <1>8, <1>9 DEF v, x

\* A send to a listening receiver, which may overrun it.
LEMMA BroadcastLedger ==
  ASSUME NEW r \in SubRecords, r.pc = "open", NEW e \in Events, NEW E,
         Ledger(r.unread, r.heard, r.overrun, E), e.job \notin E,
         NEW b, b = Broadcast(r, e)
  PROVE  /\ b.pc = "open"
         /\ Ledger(b.unread, b.heard, b.overrun, After(E, e))
         /\ \A j : Settled(r.unread, r.heard, r.overrun, j)
                     => Settled(b.unread, b.heard, b.overrun, j)
         /\ e.kind \in Terminal => Settled(b.unread, b.heard, b.overrun, e.job)
<1> DEFINE u == Append(r.unread, e)
<1>1. r.unread \in Seq(Events)
  BY DEF SubRecords
<1>2. u \in Seq(Events) /\ u # <<>>
  BY <1>1, AppendProperties
<1>3. /\ Ledger(u, r.heard, r.overrun, After(E, e))
      /\ \A j : Settled(r.unread, r.heard, r.overrun, j) => Settled(u, r.heard, r.overrun, j)
      /\ e.kind \in Terminal => Settled(u, r.heard, r.overrun, e.job)
  BY <1>1, PushLedger
<1> HIDE DEF u
<1>4. CASE Len(u) <= EVENT_CHANNEL_CAPACITY
  <2>1. b = [r EXCEPT !.unread = u]
    BY <1>4 DEF Broadcast, u
  <2>2. b.pc = "open" /\ b.unread = u /\ b.heard = r.heard /\ b.overrun = r.overrun
    BY <2>1 DEF SubRecords
  <2>. QED  BY <1>3, <2>2
<1>5. CASE ~(Len(u) <= EVENT_CHANNEL_CAPACITY)
  <2> DEFINE o == IF Head(u).kind \in Terminal
                  THEN r.overrun \cup {Head(u).job} ELSE r.overrun
  <2>1. b = [r EXCEPT !.unread = Tail(u), !.overrun = o]
    BY <1>5 DEF Broadcast, u
  <2>2. o = r.overrun \cup HeadJob(u)
    BY DEF HeadJob
  <2> HIDE DEF o
  <2>3. b.pc = "open" /\ b.unread = Tail(u) /\ b.heard = r.heard /\ b.overrun = o
    BY <2>1 DEF SubRecords
  <2>4. /\ Ledger(Tail(u), r.heard, o, After(E, e))
        /\ \A j : Settled(u, r.heard, r.overrun, j) => Settled(Tail(u), r.heard, o, j)
    BY <1>2, <1>3, <2>2, PopLedger
  <2>. QED  BY <1>3, <2>3, <2>4
<1>. QED  BY <1>4, <1>5

\* A receiver reads one event.
LEMMA ReadLedger ==
  ASSUME NEW r \in SubRecords, r.unread # <<>>, NEW E,
         Ledger(r.unread, r.heard, r.overrun, E), NEW b, b = ReadOne(r)
  PROVE  /\ b.pc = r.pc
         /\ Ledger(b.unread, b.heard, b.overrun, E)
         /\ \A j : Settled(r.unread, r.heard, r.overrun, j)
                     => Settled(b.unread, b.heard, b.overrun, j)
<1> DEFINE h == IF Head(r.unread).kind \in Terminal
                THEN r.heard \cup {Head(r.unread).job} ELSE r.heard
<1>1. b = [r EXCEPT !.unread = Tail(r.unread), !.heard = h]
  BY DEF ReadOne
<1>2. h = r.heard \cup HeadJob(r.unread)
  BY DEF HeadJob
<1> HIDE DEF h
<1>3. b.pc = r.pc /\ b.unread = Tail(r.unread) /\ b.heard = h /\ b.overrun = r.overrun
  BY <1>1 DEF SubRecords
<1>4. r.unread \in Seq(Events)
  BY DEF SubRecords
<1>5. /\ Ledger(Tail(r.unread), h, r.overrun, E)
      /\ \A j : Settled(r.unread, r.heard, r.overrun, j) => Settled(Tail(r.unread), h, r.overrun, j)
  BY <1>2, <1>4, PopLedger
<1>. QED  BY <1>3, <1>5

\* A job that is not over sends an event.
LEMMA LedgerSend ==
  ASSUME LedgerInv, OneTerminalEventLast, DataInv, NEW j \in Jobs, NEW kind \in Kinds,
         Send(j, kind), pc \in [Jobs -> JobStates], pc[j] \notin Over, told' = told
  PROVE  LedgerInv'
<1> DEFINE e == [job |-> j, kind |-> kind]
<1>1. e \in Events /\ e.job = j /\ e.kind = kind
  BY DEF Events
<1>2. sub' = [s \in Subscribers |-> Broadcast(sub[s], e)]
  BY DEF Send
<1> HIDE DEF e
<1>3. /\ sent'[j] = Append(sent[j], kind) /\ sent[j] \in Seq(Kinds)
      /\ \A k \in Jobs \ {j} : sent'[k] = sent[k]
  BY DEF Send, DataInv
<1>4. j \notin EndedJobs
  BY DEF OneTerminalEventLast, EndedJobs, Over
<1>5. Ended(j)' <=> kind \in Terminal
  <2>1. \A i \in DOMAIN sent[j] : sent[j][i] \notin Terminal
    BY <1>4 DEF EndedJobs, Ended
  <2>2. /\ DOMAIN sent'[j] = 1 .. Len(sent[j]) + 1 /\ DOMAIN sent[j] = 1 .. Len(sent[j])
        /\ \A i \in DOMAIN sent[j] : sent'[j][i] = sent[j][i]
        /\ sent'[j][Len(sent[j]) + 1] = kind /\ Len(sent[j]) \in Nat
    BY <1>3
  <2>. QED  BY <2>1, <2>2 DEF Ended
<1>6. \A k \in Jobs \ {j} : Ended(k)' <=> Ended(k)
  BY <1>3 DEF Ended
<1>7. EndedJobs' = After(EndedJobs, e)
  <2>1. \A k \in Jobs : k \in EndedJobs' <=> k \in After(EndedJobs, e)
    <3> SUFFICES ASSUME NEW k \in Jobs
                 PROVE  Ended(k)' <=> (Ended(k) \/ (kind \in Terminal /\ k = j))
      BY <1>1 DEF EndedJobs, After
    <3>1. CASE k = j
      BY <1>4, <1>5, <3>1 DEF EndedJobs
    <3>2. CASE k # j
      BY <1>6, <3>2
    <3>. QED  BY <3>1, <3>2
  <2>2. EndedJobs' \subseteq Jobs /\ After(EndedJobs, e) \subseteq Jobs
    BY <1>1 DEF EndedJobs, After
  <2>. QED  BY <2>1, <2>2
<1>8. \A s \in Subscribers : sub[s] \in SubRecords /\ sub'[s] = Broadcast(sub[s], e)
  BY <1>2 DEF DataInv
<1>9. \A s \in Subscribers : sub[s].pc # "open" => sub'[s] = sub[s]
  BY <1>8 DEF Broadcast
<1>10. ASSUME NEW s \in Subscribers, sub[s].pc = "open"
       PROVE  /\ sub'[s].pc = "open"
              /\ Ledger(sub'[s].unread, sub'[s].heard, sub'[s].overrun, EndedJobs')
              /\ \A k : Settled(sub[s].unread, sub[s].heard, sub[s].overrun, k)
                          => Settled(sub'[s].unread, sub'[s].heard, sub'[s].overrun, k)
              /\ kind \in Terminal => Settled(sub'[s].unread, sub'[s].heard, sub'[s].overrun, j)
  <2>1. Ledger(sub[s].unread, sub[s].heard, sub[s].overrun, EndedJobs)
    BY <1>10 DEF LedgerInv
  <2>. QED  BY <1>1, <1>4, <1>7, <1>8, <1>10, <2>1, BroadcastLedger
<1>11. \A s \in Subscribers : sub'[s].pc = sub[s].pc
  BY <1>9, <1>10
<1>12. \A s \in Subscribers : sub'[s].pc \in {"none", "accepted"} =>
         sub'[s].unread = <<>> /\ sub'[s].heard = {} /\ sub'[s].overrun = {}
  BY <1>9, <1>11 DEF LedgerInv
<1>13. \A s \in Subscribers, k \in Jobs : told'[k][s] = "open" => sub'[s].pc \in {"open", "closed"}
  BY <1>11 DEF LedgerInv
<1>14. ASSUME NEW s \in Subscribers, NEW k \in Jobs, sub'[s].pc = "open",
              told'[k][s] = "open", k \in EndedJobs'
       PROVE  Settled(sub'[s].unread, sub'[s].heard, sub'[s].overrun, k)
  <2>1. sub[s].pc = "open"
    BY <1>11, <1>14
  <2>2. CASE k \in EndedJobs
    BY <1>10, <1>14, <2>1, <2>2 DEF LedgerInv
  <2>3. CASE k \notin EndedJobs
    BY <1>1, <1>7, <1>10, <1>14, <2>1, <2>3 DEF After
  <2>. QED  BY <2>2, <2>3
<1>15. \A s \in Subscribers : sub'[s].pc = "open" =>
         Ledger(sub'[s].unread, sub'[s].heard, sub'[s].overrun, EndedJobs')
  BY <1>10, <1>11
<1>. QED  BY <1>12, <1>13, <1>14, <1>15 DEF LedgerInv

\* One subscription moves; no event is sent.
LEMMA LedgerReceive ==
  ASSUME LedgerInv, DataInv, NEW s \in Subscribers, UNCHANGED <<sent, told>>,
         AcceptSubscription(s) \/ Receive(s) \/ CloseSubscription(s)
  PROVE  LedgerInv'
<1>1. EndedJobs' = EndedJobs
  BY DEF EndedJobs, Ended
<1>2. sub[s] \in SubRecords /\ sub \in [Subscribers -> SubRecords]
  BY DEF DataInv
\* The subscription's record becomes b, which is in order.
<1>3. ASSUME NEW b, sub' = [sub EXCEPT ![s] = b],
             b.pc \in {"none", "accepted"} => b.unread = <<>> /\ b.heard = {} /\ b.overrun = {},
             b.pc = "open" => Ledger(b.unread, b.heard, b.overrun, EndedJobs),
             \A j \in Jobs : told[j][s] = "open" => b.pc \in {"open", "closed"},
             \A j \in Jobs : b.pc = "open" /\ told[j][s] = "open" /\ j \in EndedJobs
                               => Settled(b.unread, b.heard, b.overrun, j)
      PROVE  LedgerInv'
  <2>1. sub'[s] = b /\ \A x \in Subscribers \ {s} : sub'[x] = sub[x]
    BY <1>2, <1>3
  <2>. QED  BY <1>1, <1>3, <2>1 DEF LedgerInv
<1>4. CASE AcceptSubscription(s)
  <2> DEFINE b == [sub[s] EXCEPT !.pc = "accepted"]
  <2>1. sub[s].pc = "none" /\ sub' = [sub EXCEPT ![s] = b]
    BY <1>4 DEF AcceptSubscription
  <2>2. /\ b.pc = "accepted" /\ b.unread = sub[s].unread
        /\ b.heard = sub[s].heard /\ b.overrun = sub[s].overrun
    BY <1>2 DEF SubRecords
  <2> HIDE DEF b
  <2>3. /\ sub[s].unread = <<>> /\ sub[s].heard = {} /\ sub[s].overrun = {}
        /\ \A j \in Jobs : told[j][s] # "open"
    BY <2>1 DEF LedgerInv
  <2>. QED  BY <1>3, <2>1, <2>2, <2>3
<1>5. CASE Listen(s)
  <2> DEFINE b == [sub[s] EXCEPT !.pc = "open"]
  <2>1. sub[s].pc = "accepted" /\ sub' = [sub EXCEPT ![s] = b]
    BY <1>5 DEF Listen
  <2>2. /\ b.pc = "open" /\ b.unread = sub[s].unread
        /\ b.heard = sub[s].heard /\ b.overrun = sub[s].overrun
    BY <1>2 DEF SubRecords
  <2> HIDE DEF b
  <2>3. /\ sub[s].unread = <<>> /\ sub[s].heard = {} /\ sub[s].overrun = {}
        /\ \A j \in Jobs : told[j][s] # "open"
    BY <2>1 DEF LedgerInv
  <2>4. Ledger(<<>>, {}, {}, EndedJobs)
    BY DEF Ledger
  <2>. QED  BY <1>3, <2>1, <2>2, <2>3, <2>4
<1>6. CASE Deliver(s)
  <2> DEFINE b == ReadOne(sub[s])
  <2>1. sub[s].pc = "open" /\ sub[s].unread # <<>> /\ sub' = [sub EXCEPT ![s] = b]
    BY <1>6 DEF Deliver
  <2>2. Ledger(sub[s].unread, sub[s].heard, sub[s].overrun, EndedJobs)
    BY <2>1 DEF LedgerInv
  <2>3. /\ b.pc = "open" /\ Ledger(b.unread, b.heard, b.overrun, EndedJobs)
        /\ \A j : Settled(sub[s].unread, sub[s].heard, sub[s].overrun, j)
                    => Settled(b.unread, b.heard, b.overrun, j)
    BY <1>2, <2>1, <2>2, ReadLedger
  <2> HIDE DEF b
  <2>4. \A j \in Jobs : told[j][s] = "open" /\ j \in EndedJobs
                          => Settled(sub[s].unread, sub[s].heard, sub[s].overrun, j)
    BY <2>1 DEF LedgerInv
  <2>. QED  BY <1>3, <2>1, <2>3, <2>4
<1>7. CASE CloseSubscription(s)
  <2> DEFINE b == [Unsubscribed EXCEPT !.pc = "closed"]
  <2>1. sub' = [sub EXCEPT ![s] = b]
    BY <1>7 DEF CloseSubscription
  <2>2. b.pc = "closed"
    BY DEF Unsubscribed
  <2> HIDE DEF b
  <2>. QED  BY <1>3, <2>1, <2>2
<1>. QED  BY <1>4, <1>5, <1>6, <1>7 DEF Receive

LEMMA LedgerStep ==
  ASSUME LedgerInv, OneTerminalEventLast, QueueInv, DataInv, [Next]_vars
  PROVE  LedgerInv'
<1>0. pc \in [Jobs -> JobStates]
  BY DEF QueueInv
<1>1. ASSUME UNCHANGED <<sent, sub, told>>
      PROVE  LedgerInv'
  <2>1. EndedJobs' = EndedJobs
    BY <1>1 DEF EndedJobs, Ended
  <2>. QED  BY <1>1, <2>1 DEF LedgerInv
<1>2. CASE spawn_heavy_init
  BY <1>1, <1>2 DEF spawn_heavy_init
<1>3. ASSUME NEW j \in Jobs, notes_generate(j)
      PROVE  LedgerInv'
  <2>1. /\ pc[j] = "new" /\ UNCHANGED <<sent, sub>>
        /\ told' = [told EXCEPT ![j] = [s \in Subscribers |-> sub[s].pc]]
    BY <1>3 DEF notes_generate
  <2>2. j \notin EndedJobs
    BY <2>1 DEF OneTerminalEventLast, EndedJobs
  <2>3. EndedJobs' = EndedJobs
    BY <2>1 DEF EndedJobs, Ended
  <2>4. /\ \A s \in Subscribers : told'[j][s] = sub[s].pc
        /\ \A k \in Jobs \ {j}, s \in Subscribers : told'[k][s] = told[k][s]
    BY <2>1 DEF DataInv
  <2>. QED  BY <2>1, <2>2, <2>3, <2>4 DEF LedgerInv
<1>4. ASSUME NEW j \in Jobs, JobStep(j)
      PROVE  LedgerInv'
  <2> USE DEF Stages, Over
  <2>1. CASE AcquirePermit(j) \/ PassGate(j) \/ ClosureEnds(j) \/ PipelinePanics(j)
    BY <1>1, <2>1 DEF AcquirePermit, PassGate, ClosureEnds, PipelinePanics
  <2>2. ASSUME NEW stage \in Stages \ {"checked"}, Progress(j, stage)
        PROVE  LedgerInv'
    <3>1. Send(j, stage) /\ pc[j] \in Stages /\ told' = told /\ stage \in Kinds
      BY <2>2 DEF Progress, MayFollow, Kinds
    <3>. QED  BY <1>0, <3>1, LedgerSend
  <2>3. CASE PipelineOk(j)
    <3>1. Send(j, "done") /\ pc[j] = "exporting" /\ told' = told /\ "done" \in Kinds
      BY <2>3 DEF PipelineOk, Kinds, Terminal
    <3>. QED  BY <1>0, <3>1, LedgerSend
  <2>4. CASE PipelineErr(j) \/ ReportPanic(j)
    <3>1. Send(j, "error") /\ pc[j] \notin Over /\ told' = told /\ "error" \in Kinds
      BY <2>4 DEF PipelineErr, ReportPanic, Kinds, Terminal
    <3>. QED  BY <1>0, <3>1, LedgerSend
  <2>. QED  BY <1>4, <2>1, <2>2, <2>3, <2>4 DEF JobStep
<1>5. ASSUME NEW s \in Subscribers,
             AcceptSubscription(s) \/ Receive(s) \/ CloseSubscription(s)
      PROVE  LedgerInv'
  <2>1. UNCHANGED <<sent, told>>
    BY <1>5 DEF AcceptSubscription, Receive, Listen, Deliver, CloseSubscription
  <2>. QED  BY <1>5, <2>1, LedgerReceive
<1>6. CASE UNCHANGED vars
  BY <1>1, <1>6 DEF vars
<1>. QED  BY <1>2, <1>3, <1>4, <1>5, <1>6 DEF Next

\* A subscriber that was listening when a job was accepted has the job's terminal
\* event in its ring, delivered or overrun, exactly once, and nothing of the job
\* after it: for any ring size, any pace of reading, any number of subscribers.
THEOREM OutcomeIsAccountedFor == Spec => []TerminalEventAccounted
<1>1. Init => LedgerInv
  <2> SUFFICES ASSUME Init PROVE LedgerInv
    OBVIOUS
  <2>1. \A s \in Subscribers :
          sub[s].pc = "none" /\ sub[s].unread = <<>> /\ sub[s].heard = {} /\ sub[s].overrun = {}
    BY DEF Init, Unsubscribed
  <2>2. \A j \in Jobs, s \in Subscribers : told[j][s] = "none"
    BY DEF Init
  <2>. QED  BY <2>1, <2>2 DEF LedgerInv
<1>2. LedgerInv /\ OneTerminalEventLast /\ QueueInv /\ DataInv /\ [Next]_vars => LedgerInv'
  BY LedgerStep
<1>3. LedgerInv => TerminalEventAccounted
  <2> SUFFICES ASSUME LedgerInv, NEW s \in Subscribers, NEW j \in Jobs,
                      sub[s].pc = "open", told[j][s] = "open"
               PROVE  /\ Ended(j) => \/ j \in sub[s].heard
                                     \/ j \in sub[s].overrun
                                     \/ \E i \in Unread(s, j) : sub[s].unread[i].kind \in Terminal
                      /\ j \in sub[s].heard \cup sub[s].overrun => Unread(s, j) = {}
                      /\ j \notin sub[s].heard \cap sub[s].overrun
    BY DEF TerminalEventAccounted
  <2>1. Ledger(sub[s].unread, sub[s].heard, sub[s].overrun, EndedJobs)
    BY DEF LedgerInv
  <2>2. Ended(j) => Settled(sub[s].unread, sub[s].heard, sub[s].overrun, j)
    BY DEF LedgerInv, EndedJobs
  <2>. QED  BY <2>1, <2>2 DEF Ledger, Settled, Unread
<1>. QED  BY <1>1, <1>2, <1>3, ExactlyOneOutcome, QueueAndData, PTL DEF Spec

=============================================================================
