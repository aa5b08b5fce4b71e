-------------------------- MODULE NotesClientProofs --------------------------
(***************************************************************************)
(* Theorems about NotesClient, for any number of flows and meetings and    *)
(* any size of the buffer.                                                 *)
(*                                                                         *)
(* That no wake-up is lost is proved with the fact that a job's terminal   *)
(* event is on the wire or in the buffer once (OneEntryPerJob). The mark   *)
(* of the window needs what a flow still on its way may assume of the      *)
(* window as long as no other flow crosses it (OnItsWay). That the work is *)
(* watched needs, crossed or not, that a flow which is going to poll makes *)
(* up for any task that is in charge before it does (Covered).             *)
(***************************************************************************)
EXTENDS NotesClient, SequenceTheorems, WellFoundedInduction, NaturalsInduction, TLAPS

\* A set of naturals that is not empty has the least element Min names.
LEMMA MinOfNaturals ==
  ASSUME NEW T, T \subseteq Nat, T # {}
  PROVE  Min(T) \in T
<1>1. PICK x \in T : \A y \in T : <<y, x>> \notin OpToRel(<, Nat)
  BY WFMin, NatLessThanWellFounded
<1>2. \A y \in T : y < x => <<y, x>> \in OpToRel(<, Nat)
  BY DEF OpToRel
<1>3. \A y \in T : ~ (y < x)
  BY <1>1, <1>2, Zenon
<1>4. \A y \in T : x =< y
  BY <1>3
<1>. QED  BY <1>4 DEF Min

\* What RemoveFirst leaves of a sequence: the sequence itself, or the sequence with
\* position k closed up.
Without(s, r, k) ==
  /\ k \in 1 .. Len(s) /\ Len(r) = Len(s) - 1
  /\ \A i \in 1 .. Len(r) : r[i] = IF i < k THEN s[i] ELSE s[i + 1]

LEMMA RemoveAtLeaves ==
  ASSUME NEW S, NEW s \in Seq(S), NEW k \in 1 .. Len(s)
  PROVE  RemoveAt(s, k) \in Seq(S) /\ Without(s, RemoveAt(s, k), k)
<1> DEFINE a == SubSeq(s, 1, k - 1)
           b == SubSeq(s, k + 1, Len(s))
<1>1. Len(s) \in Nat /\ \A i \in 1 .. Len(s) : s[i] \in S
  OBVIOUS
<1>2. a \in Seq(S) /\ Len(a) = k - 1 /\ \A i \in 1 .. k - 1 : a[i] = s[i]
  <2>1. \A i \in 1 .. k - 1 : s[i] \in S
    BY <1>1
  <2>. QED  BY <1>1, <2>1, SubSeqProperties
<1>3. b \in Seq(S) /\ Len(b) = Len(s) - k /\ \A i \in 1 .. Len(s) - k : b[i] = s[k + i]
  <2>1. \A i \in k + 1 .. Len(s) : s[i] \in S
    BY <1>1
  <2>2. b \in Seq(S) /\ Len(b) = (IF k + 1 <= Len(s) THEN Len(s) - (k + 1) + 1 ELSE 0)
    BY <1>1, <2>1, SubSeqProperties
  <2>3. \A i \in 1 .. Len(s) - (k + 1) + 1 : b[i] = s[(k + 1) + i - 1]
    BY <1>1, <2>1, SubSeqProperties
  <2>. HIDE DEF b
  <2>4. Len(b) = Len(s) - k
    BY <1>1, <2>2
  <2>5. ASSUME NEW i \in 1 .. Len(s) - k PROVE b[i] = s[k + i]
    <3>1. i \in 1 .. Len(s) - (k + 1) + 1 /\ (k + 1) + i - 1 = k + i
      BY <1>1
    <3>. QED  BY <2>3, <3>1
  <2>. QED  BY <2>2, <2>4, <2>5
<1>4. RemoveAt(s, k) = a \o b
  BY DEF RemoveAt
<1> HIDE DEF a, b
<1>5. /\ a \o b \in Seq(S) /\ Len(a \o b) = Len(s) - 1
      /\ \A i \in 1 .. Len(s) - 1 : (a \o b)[i] = IF i <= k - 1 THEN a[i] ELSE b[i - (k - 1)]
  BY <1>1, <1>2, <1>3, ConcatProperties
<1>6. ASSUME NEW i \in 1 .. Len(s) - 1
      PROVE  (a \o b)[i] = IF i < k THEN s[i] ELSE s[i + 1]
  <2>1. CASE i < k
    BY <1>1, <1>2, <1>5, <2>1
  <2>2. CASE ~ (i < k)
    <3>1. i - (k - 1) \in 1 .. Len(s) - k /\ k + (i - (k - 1)) = i + 1
      BY <1>1, <2>2
    <3>. QED  BY <1>1, <1>3, <1>5, <2>2, <3>1
  <2>. QED  BY <2>1, <2>2
<1> DEFINE r == a \o b
<1> HIDE DEF r
<1>7. Without(s, r, k)
  BY <1>5, <1>6 DEF Without, r
<1>. QED  BY <1>4, <1>5, <1>7 DEF r

\* RemoveFirst keeps elements apart and adds none; of a sequence without repetition
\* it removes every occurrence, as the closure of removeAll(where:) does.
LEMMA RemoveFirstRemoves ==
  ASSUME NEW S, NEW s \in Seq(S), NEW e
  PROVE  LET r == RemoveFirst(s, e) IN
         /\ r \in Seq(S)
         /\ \A i \in 1 .. Len(r) : \E j \in 1 .. Len(s) : r[i] = s[j]
         /\ IsInjective(s) => IsInjective(r) /\ ~ Contains(r, e)
<1>0. DOMAIN s = 1 .. Len(s) /\ Len(s) \in Nat
  OBVIOUS
<1>1. CASE \E i \in 1 .. Len(s) : s[i] = e
  <2> DEFINE I == {i \in 1 .. Len(s) : s[i] = e}
             k == Min(I)
             r == RemoveAt(s, k)
  <2>1. I \subseteq Nat /\ I # {}
    BY <1>1
  <2>2. k \in 1 .. Len(s) /\ s[k] = e
    BY <2>1, MinOfNaturals
  <2>3. RemoveFirst(s, e) = r
    BY <1>1, <2>1 DEF RemoveFirst, SelectInSeq
  <2> HIDE DEF k
  <2>4. r \in Seq(S) /\ Without(s, r, k)
    BY <2>2, RemoveAtLeaves
  <2> HIDE DEF r
  <2>5. DOMAIN r = 1 .. Len(r) /\ Len(r) \in Nat
    BY <2>4
  <2>6. \A i \in 1 .. Len(r) : \E j \in 1 .. Len(s) : j # k /\ r[i] = s[j]
    <3> TAKE i \in 1 .. Len(r)
    <3>1. CASE i < k
      BY <1>0, <2>4, <2>5, <3>1 DEF Without
    <3>2. CASE ~ (i < k)
      <4>1. i + 1 \in 1 .. Len(s) /\ i + 1 # k /\ r[i] = s[i + 1]
        BY <1>0, <2>2, <2>4, <2>5, <3>2 DEF Without
      <4>. QED  BY <4>1
    <3>. QED  BY <3>1, <3>2
  <2>7. ASSUME IsInjective(s) PROVE IsInjective(r) /\ ~ Contains(r, e)
    <3>1. ~ Contains(r, e)
      BY <1>0, <2>2, <2>6, <2>7 DEF IsInjective, Contains
    <3>2. ASSUME NEW i \in 1 .. Len(r), NEW j \in 1 .. Len(r), r[i] = r[j] PROVE i = j
      <4> DEFINE p == IF i < k THEN i ELSE i + 1
                 q == IF j < k THEN j ELSE j + 1
      <4>1. p \in 1 .. Len(s) /\ q \in 1 .. Len(s) /\ s[p] = r[i] /\ s[q] = r[j]
        BY <1>0, <2>2, <2>4, <2>5 DEF Without
      <4>2. p = q
        BY <1>0, <2>7, <3>2, <4>1 DEF IsInjective
      <4>. QED  BY <2>2, <2>5, <1>0, <4>2
    <3>. QED  BY <2>5, <3>1, <3>2 DEF IsInjective
  <2>. QED  BY <2>3, <2>4, <2>6, <2>7
<1>2. CASE ~ \E i \in 1 .. Len(s) : s[i] = e
  BY <1>2 DEF RemoveFirst, Contains
<1>. QED  BY <1>1, <1>2

-----------------------------------------------------------------------------
(* EventStreamActor, for any number of flows and any size of the buffer *)

JobStates == {"none", "running", "written", "done", "error"}

StreamType ==
  /\ callbacks \subseteq Flows
  /\ wire \in Seq(Flows) /\ eventBuffer \in Seq(Flows)
  /\ job \in [Flows -> JobStates]

Ended(f) == job[f] \in {"done", "error"}

\* A job has ended when its terminal event is on the wire or in the buffer, and the
\* event is there once.
OneEntryPerJob ==
  /\ IsInjective(wire) /\ IsInjective(eventBuffer)
  /\ \A i \in 1 .. Len(wire) : Ended(wire[i]) /\ ~ Contains(eventBuffer, wire[i])
  /\ \A i \in 1 .. Len(eventBuffer) : Ended(eventBuffer[i])

StreamInv == StreamType /\ OneEntryPerJob /\ NoLostWakeup

\* A queue that only loses entries.
Shrinks(s, t) ==
  /\ t \in Seq(Flows) /\ IsInjective(t)
  /\ \A i \in 1 .. Len(t) : \E j \in 1 .. Len(s) : t[i] = s[j]

LEMMA Unchanged ==
  ASSUME NEW s \in Seq(Flows), IsInjective(s)
  PROVE  Shrinks(s, s) /\ Shrinks(s, <<>>)
BY DEF Shrinks, IsInjective

LEMMA TailShrinks ==
  ASSUME NEW s \in Seq(Flows), IsInjective(s), s # <<>>
  PROVE  /\ Shrinks(s, Tail(s)) /\ ~ Contains(Tail(s), Head(s))
         /\ Head(s) \in Flows /\ 1 \in 1 .. Len(s) /\ Head(s) = s[1]
<1> DEFINE t == Tail(s)
<1>1. /\ t \in Seq(Flows) /\ Len(t) = Len(s) - 1 /\ Head(s) \in Flows /\ Head(s) = s[1]
      /\ \A i \in 1 .. Len(t) : t[i] = s[i + 1]
  BY HeadTailProperties
<1>2. DOMAIN s = 1 .. Len(s) /\ Len(s) \in Nat /\ Len(s) # 0
  OBVIOUS
<1> HIDE DEF t
<1>3. DOMAIN t = 1 .. Len(t) /\ Len(t) \in Nat
  BY <1>1
<1>4. \A i \in 1 .. Len(t) : i + 1 \in 1 .. Len(s) /\ t[i] = s[i + 1]
  BY <1>1, <1>2, <1>3
<1>5. ASSUME NEW i \in 1 .. Len(t), NEW j \in 1 .. Len(t), t[i] = t[j] PROVE i = j
  <2>1. i + 1 = j + 1
    BY <1>2, <1>4, <1>5 DEF IsInjective
  <2>. QED  BY <2>1
<1>6. 1 \in 1 .. Len(s)
  BY <1>2
<1>7. \A i \in 1 .. Len(t) : t[i] # Head(s)
  <2> TAKE i \in 1 .. Len(t)
  <2>1. i + 1 # 1
    BY <1>3
  <2>. QED  BY <1>1, <1>2, <1>4, <1>6, <2>1 DEF IsInjective
<1>8. IsInjective(t)
  BY <1>3, <1>5 DEF IsInjective
<1>9. Shrinks(s, t)
  BY <1>1, <1>4, <1>8 DEF Shrinks
<1>. QED  BY <1>1, <1>6, <1>7, <1>9 DEF Contains, t

\* Appending what a queue does not hold.
LEMMA AppendGrows ==
  ASSUME NEW s \in Seq(Flows), IsInjective(s), NEW f \in Flows, ~ Contains(s, f)
  PROVE  /\ Append(s, f) \in Seq(Flows) /\ IsInjective(Append(s, f))
         /\ \A i \in 1 .. Len(Append(s, f)) :
              Append(s, f)[i] = f \/ \E j \in 1 .. Len(s) : Append(s, f)[i] = s[j]
<1> DEFINE t == Append(s, f)
<1>1. /\ t \in Seq(Flows) /\ Len(t) = Len(s) + 1 /\ t[Len(s) + 1] = f
      /\ \A i \in 1 .. Len(s) : t[i] = s[i]
  BY AppendProperties
<1>2. DOMAIN s = 1 .. Len(s) /\ Len(s) \in Nat
  OBVIOUS
<1> HIDE DEF t
<1>3. DOMAIN t = 1 .. Len(t)
  BY <1>1
<1>4. \A i \in 1 .. Len(t) : i \in 1 .. Len(s) \/ i = Len(s) + 1
  BY <1>1, <1>2
<1>5. ASSUME NEW i \in DOMAIN t, NEW j \in DOMAIN t, t[i] = t[j] PROVE i = j
  <2>1. CASE i \in 1 .. Len(s) /\ j \in 1 .. Len(s)
    BY <1>1, <1>2, <1>5, <2>1 DEF IsInjective
  <2>2. CASE i \in 1 .. Len(s) /\ j = Len(s) + 1
    BY <1>1, <1>5, <2>2 DEF Contains
  <2>3. CASE i = Len(s) + 1 /\ j \in 1 .. Len(s)
    BY <1>1, <1>5, <2>3 DEF Contains
  <2>. QED  BY <1>3, <1>4, <2>1, <2>2, <2>3
<1>6. IsInjective(t)
  BY <1>5 DEF IsInjective
<1>. QED  BY <1>1, <1>4, <1>6 DEF t

LEMMA LosingKeepsStream ==
  ASSUME StreamInv, callbacks' \subseteq callbacks,
         Shrinks(wire, wire'), Shrinks(eventBuffer, eventBuffer'),
         job' \in [Flows -> JobStates], \A f \in Flows : Ended(f) => Ended(f)'
  PROVE  StreamInv'
<1>1. StreamType'
  BY DEF StreamInv, StreamType, Shrinks
<1>2. /\ \A i \in 1 .. Len(wire) : wire[i] \in Flows
      /\ \A i \in 1 .. Len(eventBuffer) : eventBuffer[i] \in Flows
  BY DEF StreamInv, StreamType
<1>3. OneEntryPerJob'
  BY <1>2 DEF StreamInv, OneEntryPerJob, Shrinks, Contains
<1>4. /\ DOMAIN eventBuffer = 1 .. Len(eventBuffer)
      /\ DOMAIN eventBuffer' = 1 .. Len(eventBuffer')
  BY <1>1 DEF StreamInv, StreamType
<1>5. ASSUME NEW i \in 1 .. Len(eventBuffer') PROVE eventBuffer'[i] \notin callbacks'
  <2>1. PICK j \in 1 .. Len(eventBuffer) : eventBuffer'[i] = eventBuffer[j]
    BY DEF Shrinks
  <2>. QED  BY <1>4, <2>1 DEF StreamInv, NoLostWakeup, ToSet
<1>6. NoLostWakeup'
  BY <1>4, <1>5 DEF NoLostWakeup, ToSet
<1>. QED  BY <1>1, <1>3, <1>6 DEF StreamInv

LEMMA StopKeepsStream == ASSUME StreamInv, stop, UNCHANGED job PROVE StreamInv'
<1>1. Shrinks(wire, <<>>) /\ Shrinks(eventBuffer, <<>>)
  BY Unchanged DEF StreamInv, StreamType, OneEntryPerJob
<1>2. callbacks' \subseteq callbacks /\ \A f \in Flows : Ended(f) => Ended(f)'
  BY DEF stop, Ended
<1>. QED  BY <1>1, <1>2, LosingKeepsStream DEF stop, StreamInv, StreamType

\* Jobs start and write, the wire may be lost, and the actor's own state stays.
LEMMA IdleKeepsStream ==
  ASSUME StreamInv, UNCHANGED <<callbacks, eventBuffer>>, wire' \in {wire, <<>>},
         job' \in [Flows -> JobStates], \A f \in Flows : Ended(f) => Ended(f)'
  PROVE  StreamInv'
<1>1. Shrinks(wire, wire') /\ Shrinks(eventBuffer, eventBuffer')
  BY Unchanged DEF StreamInv, StreamType, OneEntryPerJob
<1>. QED  BY <1>1, LosingKeepsStream

LEMMA FinishKeepsStream ==
  ASSUME StreamInv, NEW f \in Flows, NEW tag, NEW ps, finishGeneration(f, tag, ps),
         UNCHANGED <<wire, job>>
  PROVE  StreamInv'
<1>1. CASE unregisterCallback(f)
  <2>1. Shrinks(wire, wire)
    BY Unchanged DEF StreamInv, StreamType, OneEntryPerJob
  <2>2. Shrinks(eventBuffer, RemoveFirst(eventBuffer, f))
    BY RemoveFirstRemoves DEF StreamInv, StreamType, OneEntryPerJob, Shrinks
  <2>3. callbacks' \subseteq callbacks /\ \A g \in Flows : Ended(g) => Ended(g)'
    BY <1>1 DEF unregisterCallback, Ended
  <2>. QED  BY <1>1, <2>1, <2>2, <2>3, LosingKeepsStream
            DEF unregisterCallback, StreamInv, StreamType
<1>2. CASE UNCHANGED <<callbacks, eventBuffer>>
  BY <1>2, IdleKeepsStream DEF StreamInv, StreamType, Ended
<1>. QED  BY <1>1, <1>2 DEF finishGeneration

LEMMA RegisterKeepsStream ==
  ASSUME StreamInv, NEW f \in Flows, registerCallback(f) PROVE StreamInv'
<1>1. UNCHANGED <<wire, job>>
  BY DEF registerCallback, engine
<1>2. CASE Contains(eventBuffer, f)
  <2>1. Shrinks(wire, wire)
    BY Unchanged DEF StreamInv, StreamType, OneEntryPerJob
  <2>2. Shrinks(eventBuffer, RemoveFirst(eventBuffer, f))
    BY RemoveFirstRemoves DEF StreamInv, StreamType, OneEntryPerJob, Shrinks
  <2>3. UNCHANGED callbacks /\ eventBuffer' = RemoveFirst(eventBuffer, f)
    BY <1>2 DEF registerCallback
  <2>. QED  BY <1>1, <2>1, <2>2, <2>3, LosingKeepsStream DEF StreamInv, StreamType, Ended
<1>3. CASE ~ Contains(eventBuffer, f)
  <2>1. callbacks' = callbacks \cup {f} /\ UNCHANGED eventBuffer
    BY <1>3 DEF registerCallback
  <2>2. DOMAIN eventBuffer = 1 .. Len(eventBuffer)
    BY DEF StreamInv, StreamType
  <2>3. NoLostWakeup'
    BY <1>3, <2>1, <2>2 DEF StreamInv, NoLostWakeup, ToSet, Contains
  <2>. QED  BY <1>1, <2>1, <2>3 DEF StreamInv, StreamType, OneEntryPerJob, Ended
<1>. QED  BY <1>2, <1>3

LEMMA RouteKeepsStream == ASSUME StreamInv, route PROVE StreamInv'
<1> DEFINE f == Head(wire)
           rest == Tail(wire)
           room == IF Len(eventBuffer) >= maxBufferSize THEN Tail(eventBuffer) ELSE eventBuffer
<1>1. UNCHANGED job /\ wire' = rest /\ wire # <<>>
  BY DEF route, engine
<1>2. /\ Shrinks(wire, rest) /\ ~ Contains(rest, f) /\ f \in Flows
      /\ Ended(f) /\ ~ Contains(eventBuffer, f)
  BY <1>1, TailShrinks DEF StreamInv, StreamType, OneEntryPerJob
<1>3. CASE f \in callbacks
  <2>1. callbacks' \subseteq callbacks /\ UNCHANGED eventBuffer
    BY <1>3 DEF route
  <2>2. Shrinks(eventBuffer, eventBuffer)
    BY Unchanged DEF StreamInv, StreamType, OneEntryPerJob
  <2>. QED  BY <1>1, <1>2, <2>1, <2>2, LosingKeepsStream DEF StreamInv, StreamType, Ended
<1>4. CASE f \notin callbacks
  <2>1. eventBuffer' = Append(room, f) /\ UNCHANGED callbacks
    BY <1>4 DEF route
  <2>2. eventBuffer # <<>> \/ room = eventBuffer
    BY ClientAssumption DEF StreamInv, StreamType
  <2>3. Shrinks(eventBuffer, room)
    BY <2>2, Unchanged, TailShrinks DEF StreamInv, StreamType, OneEntryPerJob
  <2> HIDE DEF f, rest, room
  <2>4. room \in Seq(Flows) /\ IsInjective(room) /\ ~ Contains(room, f)
    BY <1>2, <2>3 DEF Shrinks, Contains
  <2> DEFINE t == Append(room, f)
  <2>5. /\ t \in Seq(Flows) /\ IsInjective(t)
        /\ \A i \in 1 .. Len(t) : t[i] = f \/ \E j \in 1 .. Len(room) : t[i] = room[j]
    BY <1>2, <2>4, AppendGrows
  <2> HIDE DEF t
  <2>6. \A i \in 1 .. Len(t) : t[i] = f \/ \E j \in 1 .. Len(eventBuffer) : t[i] = eventBuffer[j]
    BY <2>3, <2>5 DEF Shrinks
  <2>7. StreamType'
    BY <1>1, <1>2, <2>1, <2>5 DEF StreamInv, StreamType, Shrinks, t
  <2>8. \A i \in 1 .. Len(rest) : Ended(rest[i]) /\ ~ Contains(t, rest[i])
    BY <1>2, <2>6 DEF StreamInv, OneEntryPerJob, Shrinks, Contains
  <2>9. \A i \in 1 .. Len(t) : Ended(t[i])
    BY <1>2, <2>6 DEF StreamInv, OneEntryPerJob
  <2>10. OneEntryPerJob'
    BY <1>1, <1>2, <2>1, <2>5, <2>8, <2>9 DEF OneEntryPerJob, Shrinks, Ended, t
  <2>11. DOMAIN t = 1 .. Len(t) /\ DOMAIN eventBuffer = 1 .. Len(eventBuffer)
    BY <2>5 DEF StreamInv, StreamType
  <2>12. callbacks \cap ToSet(t) = {}
    BY <1>4, <2>6, <2>11 DEF StreamInv, NoLostWakeup, ToSet
  <2>. QED  BY <2>1, <2>7, <2>10, <2>12 DEF StreamInv, NoLostWakeup, t
<1>. QED  BY <1>3, <1>4

LEMMA JobEndsKeepsStream == ASSUME StreamInv, NEW f \in Flows, JobEnds(f) PROVE StreamInv'
<1>1. /\ ~ Ended(f) /\ job' \in [Flows -> JobStates] /\ Ended(f)'
      /\ \A g \in Flows : Ended(g) => Ended(g)'
      /\ UNCHANGED <<callbacks, eventBuffer>> /\ wire' \in {wire, Append(wire, f)}
  BY DEF JobEnds, StreamInv, StreamType, Ended, JobStates
<1>2. CASE wire' = wire
  BY <1>1, <1>2, IdleKeepsStream
<1>3. CASE wire' = Append(wire, f)
  <2>1. ~ Contains(wire, f) /\ ~ Contains(eventBuffer, f)
    BY <1>1 DEF StreamInv, OneEntryPerJob, Contains
  <2> DEFINE t == Append(wire, f)
  <2>2. /\ t \in Seq(Flows) /\ IsInjective(t)
        /\ \A i \in 1 .. Len(t) : t[i] = f \/ \E j \in 1 .. Len(wire) : t[i] = wire[j]
    BY <2>1, AppendGrows DEF StreamInv, StreamType, OneEntryPerJob
  <2>3. wire' = t
    BY <1>3
  <2> HIDE DEF t
  <2>4. /\ \A i \in 1 .. Len(wire) : wire[i] \in Flows
        /\ \A i \in 1 .. Len(eventBuffer) : eventBuffer[i] \in Flows
    BY DEF StreamInv, StreamType
  <2>5. \A i \in 1 .. Len(t) :
          job'[t[i]] \in {"done", "error"} /\ ~ Contains(eventBuffer, t[i])
    BY <1>1, <2>1, <2>2, <2>4 DEF StreamInv, OneEntryPerJob, Ended
  <2>6. \A i \in 1 .. Len(eventBuffer) : Ended(eventBuffer[i])'
    BY <1>1, <2>4 DEF StreamInv, OneEntryPerJob, Ended
  <2>7. OneEntryPerJob'
    BY <1>1, <2>2, <2>3, <2>5, <2>6 DEF StreamInv, OneEntryPerJob, Ended
  <2>. QED  BY <1>1, <2>2, <2>3, <2>7 DEF StreamInv, StreamType, NoLostWakeup
<1>. QED  BY <1>1, <1>2, <1>3

-----------------------------------------------------------------------------
(* Types, and flows that have not asked for anything yet *)

FlowPlaces == {"none", "start", "ws", "rpc", "register", "poll", "end"}
FlowRecord == [pc : FlowPlaces, m : Meetings \cup {None}, wsOk : BOOLEAN]
PollPlaces == {"none", "get", "sleep", "found", "failed", "end"}
PollTasks == [Flows -> [pc : PollPlaces, cancelled : BOOLEAN]]
States == [tag : {"idle", "working", "done", "error"}, m : Meetings \cup {None}]

UiType ==
  /\ state \in States /\ notesGenMeetingId \in Meetings \cup {None}
  /\ lastProgress \in {"nil", "fresh", "old"}
FlowType == flow \in [Flows -> FlowRecord] /\ wsTask \in BOOLEAN
PollType == pollingTask \in Flows \cup {None} /\ poller \in PollTasks
JobType == job \in [Flows -> JobStates]

\* The engine has no job of a flow that is still to be used.
FreshInv == \A f \in Flows : flow[f].pc \in {"none", "start"} => job[f] = "none"

BaseInv == UiType /\ FlowType /\ PollType /\ JobType /\ FreshInv

\* A step of flow f to pc, about meeting m.
Goes(f, pc, m) ==
  /\ flow' \in [Flows -> FlowRecord]
  /\ flow'[f].pc = pc /\ flow'[f].m = m
  /\ \A g \in Flows \ {f} : flow'[g] = flow[g]

LEMMA RecordGoes ==
  ASSUME FlowType, NEW f \in Flows, NEW r \in FlowRecord, flow' = [flow EXCEPT ![f] = r]
  PROVE  Goes(f, r.pc, r.m)
BY DEF Goes, FlowType

LEMMA PcGoes ==
  ASSUME FlowType, NEW f \in Flows, NEW pc \in FlowPlaces, flow' = [flow EXCEPT ![f].pc = pc]
  PROVE  Goes(f, pc, flow[f].m)
<1> DEFINE r == [flow[f] EXCEPT !.pc = pc]
<1>1. r \in FlowRecord /\ r.pc = pc /\ r.m = flow[f].m
  BY DEF FlowType, FlowRecord
<1>2. flow' = [flow EXCEPT ![f] = r]
  OBVIOUS
<1> HIDE DEF r
<1>. QED  BY <1>1, <1>2, RecordGoes

LEMMA FieldsGo ==
  ASSUME FlowType, NEW f \in Flows, NEW pc \in FlowPlaces, NEW m \in Meetings \cup {None},
         NEW b \in BOOLEAN, flow' = [flow EXCEPT ![f] = [pc |-> pc, m |-> m, wsOk |-> b]]
  PROVE  Goes(f, pc, m)
<1> DEFINE r == [pc |-> pc, m |-> m, wsOk |-> b]
<1>1. r \in FlowRecord /\ r.pc = pc /\ r.m = m
  BY DEF FlowRecord
<1>2. flow' = [flow EXCEPT ![f] = r]
  OBVIOUS
<1> HIDE DEF r
<1>. QED  BY <1>1, <1>2, RecordGoes

LEMMA SubscriptionGoes ==
  ASSUME FlowType, NEW f \in Flows, NEW m \in Meetings, NEW pc \in FlowPlaces,
         ensureWsSubscription(f, m, pc)
  PROVE  \E q \in {"ws", pc} : Goes(f, q, m)
<1> DEFINE q == IF wsTask THEN pc ELSE "ws"
<1>1. q \in {"ws", pc} /\ q \in FlowPlaces
  BY DEF FlowPlaces
<1>2. wsTask \in BOOLEAN
  BY DEF FlowType
<1>3. flow' = [flow EXCEPT ![f] = [pc |-> q, m |-> m, wsOk |-> wsTask]]
  BY DEF ensureWsSubscription
<1> HIDE DEF q
<1>4. Goes(f, q, m)
  BY <1>1, <1>2, <1>3, FieldsGo
<1>. QED  BY <1>1, <1>4

LEMMA CancelledType == ASSUME PollType, NEW ps \in PollTasks PROVE Cancelled(ps) \in PollTasks
<1>1. CASE pollingTask = None
  BY <1>1 DEF Cancelled
<1>2. CASE pollingTask # None
  <2> DEFINE t == pollingTask
             r == [ps[t] EXCEPT !.cancelled = TRUE]
  <2>1. t \in Flows
    BY <1>2 DEF PollType
  <2>2. r \in [pc : PollPlaces, cancelled : BOOLEAN]
    BY <2>1 DEF PollTasks
  <2>3. Cancelled(ps) = [ps EXCEPT ![t] = r]
    BY <1>2 DEF Cancelled
  <2> HIDE DEF r, t
  <2>. QED  BY <2>1, <2>2, <2>3 DEF PollTasks
<1>. QED  BY <1>1, <1>2

\* The new polling task of flow f is the current one and is not cancelled.
Polls(f) ==
  /\ poller' \in PollTasks /\ pollingTask' = f /\ lastProgress' = "fresh"
  /\ poller'[f].pc = "get" /\ poller'[f].cancelled = FALSE

LEMMA PollingStarts == ASSUME PollType, NEW f \in Flows, startPolling(f) PROVE Polls(f)
<1> DEFINE ps == Cancelled(poller)
           r == [pc |-> "get", cancelled |-> FALSE]
<1>1. ps \in PollTasks
  BY CancelledType DEF PollType
<1>2. r \in [pc : PollPlaces, cancelled : BOOLEAN] /\ r.pc = "get" /\ r.cancelled = FALSE
  BY DEF PollPlaces
<1>3. poller' = [ps EXCEPT ![f] = r] /\ pollingTask' = f /\ lastProgress' = "fresh"
  BY DEF startPolling
<1> HIDE DEF ps, r
<1>4. poller' \in PollTasks /\ poller'[f] = r
  BY <1>1, <1>2, <1>3 DEF PollTasks
<1>. QED  BY <1>2, <1>3, <1>4 DEF Polls

\* watchNotesJob either leaves the flow to register its callback or polls at once.
Watches(f) ==
  \/ Goes(f, "register", flow[f].m) /\ UNCHANGED <<polling, lastProgress>>
  \/ Goes(f, "end", flow[f].m) /\ Polls(f)

LEMMA WatchBegins ==
  ASSUME FlowType, PollType, NEW f \in Flows, NEW b \in BOOLEAN, watchNotesJob(f, b)
  PROVE  Watches(f)
<1>0. flow[f].m \in Meetings \cup {None}
  BY DEF FlowType, FlowRecord
<1>1. CASE b
  <2>1. flow' = [flow EXCEPT ![f] = [pc |-> "register", m |-> flow[f].m, wsOk |-> b]]
    BY <1>1, Zenon DEF watchNotesJob, FlowAt
  <2>2. Goes(f, "register", flow[f].m)
    BY <1>0, <2>1, FieldsGo DEF FlowPlaces
  <2>. QED  BY <1>1, <2>2 DEF watchNotesJob, Watches
<1>2. CASE ~ b
  <2>1. flow' = [flow EXCEPT ![f] = [pc |-> "end", m |-> flow[f].m, wsOk |-> b]]
    BY <1>2, Zenon DEF watchNotesJob, FlowAt
  <2>2. Goes(f, "end", flow[f].m)
    BY <1>0, <2>1, FieldsGo DEF FlowPlaces
  <2>. QED  BY <1>2, <2>2, PollingStarts DEF watchNotesJob, Watches
<1>. QED  BY <1>1, <1>2

LEMMA SetupGoesOn ==
  ASSUME FlowType, PollType, NEW f \in Flows, NEW b \in BOOLEAN, AfterSetup(f, b)
  PROVE  \/ /\ job[f] = "none" /\ Goes(f, "rpc", flow[f].m)
            /\ UNCHANGED <<polling, lastProgress>>
         \/ job[f] # "none" /\ Watches(f)
<1>1. CASE job[f] = "none"
  <2>1. flow' = [flow EXCEPT ![f] = [pc |-> "rpc", m |-> flow[f].m, wsOk |-> b]]
    BY <1>1 DEF AfterSetup, FlowAt
  <2>2. flow[f].m \in Meetings \cup {None}
    BY DEF FlowType, FlowRecord
  <2>3. Goes(f, "rpc", flow[f].m)
    BY <2>1, <2>2, FieldsGo DEF FlowPlaces
  <2>. QED  BY <1>1, <2>3 DEF AfterSetup
<1>2. CASE job[f] # "none"
  BY <1>2, WatchBegins DEF AfterSetup
<1>. QED  BY <1>1, <1>2

\* What finishGeneration does to the window and the tasks: it ends the work, or
\* the call is stale and only its own task moves.
Finishes(ps) ==
  \/ /\ state' \in States /\ state'.tag \in {"done", "error"}
     /\ notesGenMeetingId' \in {notesGenMeetingId, None} /\ lastProgress' = "nil"
     /\ poller' \in PollTasks /\ pollingTask' = None
  \/ poller' = ps /\ UNCHANGED <<ui, pollingTask>>

LEMMA GenerationFinishes ==
  ASSUME PollType, NEW f \in Flows, NEW tag \in {"done", "error"}, NEW ps \in PollTasks,
         finishGeneration(f, tag, ps)
  PROVE  Finishes(ps) /\ (Working(flow[f].m) => state'.tag \in {"done", "error"})
<1>1. CASE Working(flow[f].m)
  BY <1>1, CancelledType DEF finishGeneration, Finishes, View, States
<1>2. CASE ~ Working(flow[f].m)
  BY <1>2 DEF finishGeneration, Finishes
<1>. QED  BY <1>1, <1>2

\* A step of a flow that is under way keeps the flows well formed.
LEMMA GoingKeepsFlows ==
  ASSUME BaseInv, NEW f \in Flows, NEW pc \in FlowPlaces \ {"none", "start"}, NEW m,
         Goes(f, pc, m), wsTask' \in BOOLEAN, UNCHANGED job
  PROVE  FlowType' /\ JobType' /\ FreshInv'
BY DEF BaseInv, FlowType, JobType, FreshInv, Goes

LEMMA WatchingKeepsBase ==
  ASSUME BaseInv, NEW f \in Flows, Watches(f), state' \in States, wsTask' \in BOOLEAN,
         UNCHANGED <<notesGenMeetingId, job>>
  PROVE  BaseInv'
<1>1. CASE Goes(f, "register", flow[f].m) /\ UNCHANGED <<polling, lastProgress>>
  <2>1. FlowType' /\ JobType' /\ FreshInv'
    BY <1>1, GoingKeepsFlows DEF FlowPlaces
  <2>. QED  BY <1>1, <2>1 DEF BaseInv, UiType, PollType, polling
<1>2. CASE Goes(f, "end", flow[f].m) /\ Polls(f)
  <2>1. FlowType' /\ JobType' /\ FreshInv'
    BY <1>2, GoingKeepsFlows DEF FlowPlaces
  <2>. QED  BY <1>2, <2>1 DEF BaseInv, UiType, PollType, Polls
<1>. QED  BY <1>1, <1>2 DEF Watches

LEMMA SetupKeepsBase ==
  ASSUME BaseInv, NEW f \in Flows, NEW b \in BOOLEAN, AfterSetup(f, b), wsTask' \in BOOLEAN,
         UNCHANGED <<state, notesGenMeetingId, job>>
  PROVE  BaseInv'
<1>1. CASE Goes(f, "rpc", flow[f].m) /\ UNCHANGED <<polling, lastProgress>>
  <2>1. FlowType' /\ JobType' /\ FreshInv'
    BY <1>1, GoingKeepsFlows DEF FlowPlaces
  <2>. QED  BY <1>1, <2>1 DEF BaseInv, UiType, PollType, polling
<1>2. CASE Watches(f)
  BY <1>2, WatchingKeepsBase DEF BaseInv, UiType
<1>. QED  BY <1>1, <1>2, SetupGoesOn DEF BaseInv

LEMMA FinishingKeepsBase ==
  ASSUME BaseInv, NEW ps \in PollTasks, Finishes(ps), UNCHANGED <<flow, wsTask, job>>
  PROVE  BaseInv'
<1>1. FlowType' /\ JobType' /\ FreshInv'
  BY DEF BaseInv, FlowType, JobType, FreshInv
<1>2. UiType' /\ PollType'
  BY DEF BaseInv, Finishes, UiType, PollType, ui
<1>. QED  BY <1>1, <1>2 DEF BaseInv

\* A step of a polling task that reports nothing yet.
LEMMA PollerMoves ==
  ASSUME BaseInv, NEW f \in Flows, NEW pc \in PollPlaces \ {"end"}, PollerTo(f, pc)
  PROVE  /\ poller' \in PollTasks /\ poller'[f].pc = pc
         /\ poller'[f].cancelled = poller[f].cancelled
         /\ \A g \in Flows \ {f} : poller'[g] = poller[g]
<1> DEFINE r == [poller[f] EXCEPT !.pc = pc]
<1>1. /\ r \in [pc : PollPlaces, cancelled : BOOLEAN]
      /\ r.pc = pc /\ r.cancelled = poller[f].cancelled
  BY DEF BaseInv, PollType, PollTasks
<1>2. poller' = [poller EXCEPT ![f] = r]
  BY DEF PollerTo
<1> HIDE DEF r
<1>. QED  BY <1>1, <1>2 DEF BaseInv, PollType, PollTasks

LEMMA PollerEnds ==
  ASSUME BaseInv, NEW f \in Flows
  PROVE  /\ [poller EXCEPT ![f] = PollEnd] \in PollTasks
         /\ \A g \in Flows \ {f} : [poller EXCEPT ![f] = PollEnd][g] = poller[g]
<1>1. PollEnd \in [pc : PollPlaces, cancelled : BOOLEAN]
  BY DEF PollEnd, PollPlaces
<1>. QED  BY <1>1 DEF BaseInv, PollType, PollTasks

LEMMA BaseStep == ASSUME BaseInv, [Next]_vars PROVE BaseInv'
<1> USE DEF polling, engine, ui
<1>a. FlowType /\ PollType /\ UiType /\ JobType
  BY DEF BaseInv
<1>1. ASSUME UNCHANGED <<ui, flow, wsTask, polling, job>> PROVE BaseInv'
  BY <1>1 DEF BaseInv, UiType, FlowType, PollType, JobType, FreshInv
<1>2. ASSUME NEW f \in Flows, failNotesStart(f) PROVE BaseInv'
  <2>1. Goes(f, "end", flow[f].m)
    BY <1>2, <1>a, PcGoes DEF failNotesStart, FlowPlaces
  <2>2. FlowType' /\ JobType' /\ FreshInv'
    BY <1>2, <1>a, <2>1, GoingKeepsFlows DEF failNotesStart, FlowPlaces, FlowType
  <2>. QED  BY <1>2, <2>2 DEF failNotesStart, BaseInv, UiType, PollType, View, States
<1>3. ASSUME NEW f \in Flows, NEW m \in Meetings, beginNotesGeneration(f, m) PROVE BaseInv'
  <2>1. PICK q \in {"ws", "rpc"} : Goes(f, q, m)
    BY <1>3, <1>a, SubscriptionGoes DEF beginNotesGeneration, FlowPlaces
  <2>2. FlowType' /\ JobType' /\ FreshInv'
    BY <1>3, <1>a, <2>1, GoingKeepsFlows DEF beginNotesGeneration, FlowPlaces, FlowType
  <2>. QED  BY <1>3, <2>2 DEF beginNotesGeneration, BaseInv, UiType, PollType
<1>4. ASSUME NEW f \in Flows, FlowStep(f) PROVE BaseInv'
  <2>1. CASE WsSucceeded(f)
    BY <2>1, SetupKeepsBase DEF WsSucceeded
  <2>2. CASE WsFailed(f)
    BY <1>a, <2>2, SetupKeepsBase DEF WsFailed, FlowType
  <2>3. CASE NotesGenerateReplies(f)
    <3>1. flow[f].wsOk \in BOOLEAN /\ flow[f].m \in Meetings \cup {None}
      BY <1>a DEF FlowType, FlowRecord
    <3>2. Watches(f)
      BY <1>a, <2>3, <3>1, WatchBegins DEF NotesGenerateReplies
    <3>. QED  BY <1>a, <2>3, <3>1, <3>2, WatchingKeepsBase
              DEF NotesGenerateReplies, WorkingOn, States, FlowType
  <2>4. CASE registerCallback(f)
    <3>1. Goes(f, "poll", flow[f].m)
      BY <2>4, <1>a, PcGoes DEF registerCallback, FlowPlaces
    <3>2. FlowType' /\ JobType' /\ FreshInv'
      BY <2>4, <1>a, <3>1, GoingKeepsFlows DEF registerCallback, FlowPlaces, FlowType
    <3>. QED  BY <2>4, <3>2 DEF registerCallback, BaseInv, UiType, PollType
  <2>5. CASE WatchByPolling(f)
    <3>1. Goes(f, "end", flow[f].m)
      BY <2>5, <1>a, PcGoes DEF WatchByPolling, FlowPlaces
    <3>2. Watches(f)
      BY <1>a, <2>5, <3>1, PollingStarts DEF WatchByPolling, Watches
    <3>. QED  BY <1>a, <2>5, <3>2, WatchingKeepsBase DEF WatchByPolling, UiType, FlowType
  <2>. QED  BY <1>2, <1>3, <1>4, <2>1, <2>2, <2>3, <2>4, <2>5
            DEF FlowStep, MeetingStartFails, NotesGenerateFails, MeetingStarted
<1>5. ASSUME NEW f \in Flows, NEW pc \in PollPlaces, PollerTo(f, pc) PROVE BaseInv'
  <2>1. poller' \in PollTasks
    <3>1. CASE pc = "end"
      BY <1>5, <3>1, PollerEnds DEF PollerTo
    <3>2. CASE pc # "end"
      BY <1>5, <3>2, PollerMoves
    <3>. QED  BY <3>1, <3>2
  <2>. QED  BY <1>5, <2>1 DEF PollerTo, BaseInv, UiType, FlowType, PollType, JobType, FreshInv
<1>6. ASSUME NEW f \in Flows, PollStep(f) PROVE BaseInv'
  <2>1. CASE PollGet(f) \/ PollWake(f)
    BY <1>5, <2>1 DEF PollGet, PollWake, PollPlaces
  <2>2. CASE PollReports(f)
    <3> DEFINE ps == [poller EXCEPT ![f] = PollEnd]
               tag == IF poller[f].pc = "found" THEN "done" ELSE "error"
    <3>1. ps \in PollTasks /\ tag \in {"done", "error"}
      BY PollerEnds
    <3>2. finishGeneration(f, tag, ps)
      BY <2>2 DEF PollReports
    <3> HIDE DEF ps, tag
    <3>3. Finishes(ps)
      BY <1>a, <3>1, <3>2, GenerationFinishes
    <3>. QED  BY <2>2, <3>1, <3>3, FinishingKeepsBase DEF PollReports
  <2>. QED  BY <1>6, <2>1, <2>2 DEF PollStep
<1>7. ASSUME Environment PROVE BaseInv'
  <2>1. ASSUME NEW f \in Flows, EngineAccepts(f) \/ ExportNotes(f) \/ JobEnds(f) PROVE BaseInv'
    <3>1. /\ UNCHANGED <<state, notesGenMeetingId, flow, wsTask, polling>>
          /\ lastProgress' \in {"fresh", lastProgress}
      BY <2>1 DEF EngineAccepts, ExportNotes, JobEnds
    <3>2. JobType' /\ \A g \in Flows : job[g] = "none" => job'[g] = "none" \/ flow[g].pc = "rpc"
      BY <2>1 DEF EngineAccepts, ExportNotes, JobEnds, BaseInv, JobType, JobStates
    <3>3. FreshInv'
      BY <3>1, <3>2 DEF BaseInv, FreshInv
    <3>. QED  BY <3>1, <3>2, <3>3 DEF BaseInv, UiType, FlowType, PollType
  <2>2. ASSUME NEW f \in Flows, Callback(f) PROVE BaseInv'
    <3>1. CASE \E tag \in {"done", "error"} : finishGeneration(f, tag, poller)
      BY <1>a, <2>2, <3>1, GenerationFinishes, FinishingKeepsBase DEF Callback, PollType
    <3>2. CASE lastProgress' = "fresh" /\ UNCHANGED <<state, notesGenMeetingId, polling>>
      BY <2>2, <3>2 DEF Callback, BaseInv, UiType, FlowType, PollType, JobType, FreshInv
    <3>. QED  BY <2>2, <3>1, <3>2 DEF Callback
  <2>3. CASE route \/ StopTask \/ ConnectionDrops
    BY <1>1, <2>3 DEF route, StopTask, ConnectionDrops
  <2>. QED  BY <1>7, <2>1, <2>2, <2>3 DEF Environment
<1>8. ASSUME FlowBegins \/ startNewGenerationFlow \/ reset PROVE BaseInv'
  <2>1. ASSUME NEW f \in Flows, generate(f) PROVE BaseInv'
    <3>1. Goes(f, "start", flow[f].m)
      BY <1>a, <2>1, PcGoes DEF generate, FlowPlaces
    <3>2. FlowType' /\ JobType' /\ FreshInv'
      BY <2>1, <3>1 DEF generate, MayStart, BaseInv, FlowType, JobType, FreshInv, Goes
    <3>. QED  BY <2>1, <3>2 DEF generate, BaseInv, UiType, PollType
  <2>2. ASSUME NEW f \in Flows, NEW m \in Meetings, generateNotes(f, m) PROVE BaseInv'
    <3>1. CASE beginNotesGeneration(f, m)
      BY <1>3, <3>1
    <3>2. CASE /\ state' = View("error") /\ notesGenMeetingId' = m /\ lastProgress' = "nil"
               /\ UNCHANGED <<flow, wsTask, polling, job>>
      BY <3>2 DEF BaseInv, UiType, FlowType, PollType, JobType, FreshInv, View, States
    <3>. QED  BY <2>2, <3>1, <3>2 DEF generateNotes
  <2>3. ASSUME NEW f \in Flows, NEW m \in Meetings, trackAutoGeneratedNotes(f, m) PROVE BaseInv'
    <3>1. PICK q \in {"ws", "register"} : Goes(f, q, m)
      BY <2>3, <1>a, SubscriptionGoes DEF trackAutoGeneratedNotes, FlowPlaces
    <3>2. JobType' /\ \A g \in Flows \ {f} : job'[g] = job[g]
      BY <2>3, <1>a DEF trackAutoGeneratedNotes, JobType, JobStates
    <3>3. FlowType' /\ FreshInv'
      BY <2>3, <3>1, <3>2 DEF trackAutoGeneratedNotes, BaseInv, FlowType, FreshInv, Goes
    <3>. QED  BY <2>3, <3>2, <3>3
              DEF trackAutoGeneratedNotes, BaseInv, UiType, PollType, WorkingOn, States
  <2>4. CASE startNewGenerationFlow
    BY <2>4 DEF startNewGenerationFlow, BaseInv, UiType, FlowType, PollType, JobType, FreshInv,
       View, States
  <2>5. CASE reset
    <3>1. poller' \in PollTasks
      BY <1>a, <2>5, CancelledType DEF reset, PollType
    <3>. QED  BY <2>5, <3>1 DEF reset, BaseInv, UiType, FlowType, PollType, JobType, FreshInv,
              View, States
  <2>. QED  BY <1>8, <2>1, <2>2, <2>3, <2>4, <2>5 DEF FlowBegins
<1>9. CASE SilenceElapses
  BY <1>9 DEF SilenceElapses, BaseInv, UiType, FlowType, PollType, JobType, FreshInv
<1>. QED  BY <1>1, <1>4, <1>6, <1>7, <1>8, <1>9 DEF Next, GoesOn, vars

-----------------------------------------------------------------------------
(* The whole specification *)

LEMMA StreamStep == ASSUME StreamInv, FreshInv, [Next]_vars PROVE StreamInv'
<1> USE DEF stream, polling, engine, ui
<1>1. ASSUME UNCHANGED <<callbacks, eventBuffer, wire, job>> PROVE StreamInv'
  BY <1>1, IdleKeepsStream DEF StreamInv, StreamType, Ended
<1>2. ASSUME NEW f \in Flows, FlowStep(f) PROVE StreamInv'
  <2>1. CASE MeetingStartFails(f) \/ NotesGenerateReplies(f) \/ NotesGenerateFails(f)
             \/ WatchByPolling(f) \/ \E m \in Meetings : MeetingStarted(f, m)
    BY <2>1, <1>1 DEF MeetingStartFails, NotesGenerateReplies, NotesGenerateFails,
       WatchByPolling, MeetingStarted, failNotesStart, beginNotesGeneration
  <2>2. CASE WsSucceeded(f)
    BY <2>2, IdleKeepsStream DEF WsSucceeded, StreamInv, StreamType, Ended
  <2>3. CASE WsFailed(f)
    BY <2>3, <1>1, StopKeepsStream DEF WsFailed
  <2>. QED  BY <1>2, <2>1, <2>2, <2>3, RegisterKeepsStream DEF FlowStep
<1>3. ASSUME NEW f \in Flows, PollStep(f) PROVE StreamInv'
  <2>1. CASE PollGet(f) \/ PollWake(f)
    BY <2>1, <1>1 DEF PollGet, PollWake, PollerTo
  <2>2. CASE PollReports(f)
    BY <2>2, FinishKeepsStream DEF PollReports
  <2>. QED  BY <1>3, <2>1, <2>2 DEF PollStep
<1>4. ASSUME Environment PROVE StreamInv'
  <2>1. ASSUME NEW f \in Flows, EngineAccepts(f) \/ ExportNotes(f) PROVE StreamInv'
    <3>1. /\ job' \in [Flows -> JobStates] /\ \A g \in Flows : Ended(g) => Ended(g)'
          /\ UNCHANGED stream
      BY <2>1 DEF EngineAccepts, ExportNotes, StreamInv, StreamType, Ended, JobStates
    <3>. QED  BY <3>1, IdleKeepsStream
  <2>2. ASSUME NEW f \in Flows, Callback(f) PROVE StreamInv'
    BY <2>2, <1>1, FinishKeepsStream DEF Callback
  <2>3. CASE StopTask
    BY <2>3, StopKeepsStream DEF StopTask
  <2>4. CASE ConnectionDrops
    BY <2>4, IdleKeepsStream DEF ConnectionDrops, StreamInv, StreamType, Ended
  <2>. QED  BY <1>4, <2>1, <2>2, <2>3, <2>4, JobEndsKeepsStream, RouteKeepsStream DEF Environment
<1>5. ASSUME FlowBegins \/ startNewGenerationFlow \/ reset PROVE StreamInv'
  <2>1. ASSUME NEW f \in Flows, NEW m \in Meetings, trackAutoGeneratedNotes(f, m) PROVE StreamInv'
    <3>1. job[f] = "none" /\ UNCHANGED stream
      BY <2>1 DEF trackAutoGeneratedNotes, MayStart, FreshInv
    <3>2. job' \in [Flows -> JobStates] /\ \A g \in Flows : Ended(g) => Ended(g)'
      BY <2>1, <3>1 DEF trackAutoGeneratedNotes, StreamInv, StreamType, Ended, JobStates
    <3>. QED  BY <3>1, <3>2, IdleKeepsStream
  <2>. QED  BY <1>1, <1>5, <2>1 DEF FlowBegins, generate, generateNotes,
            beginNotesGeneration, startNewGenerationFlow, reset
<1>6. CASE SilenceElapses
  BY <1>6, <1>1 DEF SilenceElapses
<1>. QED  BY <1>1, <1>2, <1>3, <1>4, <1>5, <1>6 DEF Next, GoesOn, vars

LEMMA BaseInvariant == Spec => []BaseInv
<1>1. Init => BaseInv
  <2> SUFFICES ASSUME Init PROVE BaseInv
    OBVIOUS
  <2>1. UiType
    BY DEF Init, UiType, View, States
  <2>2. FlowType /\ JobType /\ FreshInv
    BY DEF Init, FlowType, JobType, FreshInv, FlowRecord, FlowPlaces, JobStates
  <2>3. PollType
    BY DEF Init, PollType, PollTasks, PollPlaces
  <2>. QED  BY <2>1, <2>2, <2>3 DEF BaseInv
<1>2. BaseInv /\ [Next]_vars => BaseInv'
  BY BaseStep
<1>. QED  BY <1>1, <1>2, PTL DEF Spec

\* EventStreamActor loses no wake-up, however many jobs are followed and however
\* small the buffer is: registerCallback and route take turns on the actor, and
\* neither leaves a callback waiting for an event that is buffered already.
THEOREM NoWakeupIsLost == Spec => []NoLostWakeup
<1>1. Init => StreamInv
  <2> SUFFICES ASSUME Init PROVE StreamInv
    OBVIOUS
  <2>1. StreamType
    BY DEF Init, StreamType, JobStates
  <2>2. wire = <<>> /\ eventBuffer = <<>> /\ callbacks = {}
    BY DEF Init
  <2>3. OneEntryPerJob
    BY <2>2 DEF OneEntryPerJob, IsInjective
  <2>. QED  BY <2>1, <2>2, <2>3 DEF StreamInv, NoLostWakeup
<1>2. StreamInv /\ BaseInv /\ [Next]_vars => StreamInv'
  BY StreamStep DEF BaseInv
<1>3. StreamInv => NoLostWakeup
  BY DEF StreamInv
<1>. QED  BY <1>1, <1>2, <1>3, BaseInvariant, PTL DEF Spec

-----------------------------------------------------------------------------
(* The mark *)

StartingPlaces == {"start", "ws", "rpc", "register", "poll"}
OneStarting == \A f, g \in Starting : f = g
Others(f) == \A g \in Flows \ {f} : flow[g].pc \notin StartingPlaces

\* A flow on its way is the one the window is about: until its job is accepted
\* nothing is being worked on, from then on what is worked on is its meeting, and
\* the workspace points at that meeting or, after a reset, nowhere.
OnItsWay(f) ==
  /\ flow[f].pc \in {"ws", "rpc", "register", "poll"} =>
       notesGenMeetingId \in {flow[f].m, None}
  /\ flow[f].pc \in {"start", "rpc"} => ~ isNotesJobActive
  /\ flow[f].pc = "ws" /\ job[f] = "none" => ~ isNotesJobActive
  /\ flow[f].pc \in {"ws", "register", "poll"} /\ isNotesJobActive => state.m = flow[f].m

MarkRight == isNotesJobActive => notesGenMeetingId \in {state.m, None}

\* What holds as long as no flow has crossed another.
Undisturbed == OneStarting /\ (\A f \in Flows : OnItsWay(f)) /\ MarkRight

MarkInv == crossed \/ Undisturbed

LEMMA StartingAlone ==
  ASSUME OneStarting, NEW f \in Flows, flow[f].pc \in StartingPlaces
  PROVE  Others(f)
BY DEF OneStarting, Starting, StartingPlaces, Others

LEMMA NoneStarting == ASSUME Starting = {}, NEW f \in Flows PROVE Others(f)
BY DEF Starting, StartingPlaces, Others

\* It is enough to look at the flow that moves.
LEMMA MovingAlone ==
  ASSUME NEW f \in Flows, Others(f), NEW pc, NEW m, Goes(f, pc, m), OnItsWay(f)', MarkRight'
  PROVE  Undisturbed'
<1>1. \A g \in Flows \ {f} : flow'[g].pc \notin StartingPlaces
  BY DEF Goes, Others
<1>2. OneStarting'
  BY <1>1 DEF OneStarting, Starting, StartingPlaces
<1>3. \A g \in Flows : OnItsWay(g)'
  BY <1>1 DEF OnItsWay, StartingPlaces
<1>. QED  BY <1>2, <1>3 DEF Undisturbed

\* Nothing of what the invariant reads has changed but jobs.
LEMMA StandingStill ==
  ASSUME Undisturbed, UNCHANGED <<state, notesGenMeetingId, flow>>,
         \A g \in Flows : job'[g] = "none" => job[g] = "none"
  PROVE  Undisturbed'
BY DEF Undisturbed, OneStarting, Starting, OnItsWay, MarkRight, isNotesJobActive

\* The work has ended or was never on.
LEMMA WorkOver ==
  ASSUME Undisturbed, state'.tag # "working", notesGenMeetingId' \in {notesGenMeetingId, None},
         UNCHANGED flow
  PROVE  Undisturbed'
BY DEF Undisturbed, OneStarting, Starting, OnItsWay, MarkRight, isNotesJobActive

LEMMA WatchingKeepsMark ==
  ASSUME Undisturbed, NEW f \in Flows, flow[f].pc \in {"ws", "rpc", "poll"}, Watches(f),
         UNCHANGED notesGenMeetingId,
         state'.tag = "working" => state'.m = flow[f].m
  PROVE  Undisturbed'
<1>1. Others(f)
  BY StartingAlone DEF Undisturbed, StartingPlaces
<1>2. notesGenMeetingId' \in {flow[f].m, None}
  BY DEF Undisturbed, OnItsWay
<1>3. PICK pc \in {"register", "end"} : Goes(f, pc, flow[f].m)
  BY DEF Watches
<1>4. OnItsWay(f)' /\ MarkRight'
  BY <1>2, <1>3 DEF Goes, OnItsWay, MarkRight, isNotesJobActive
<1>. QED  BY <1>1, <1>3, <1>4, MovingAlone

LEMMA SetupKeepsMark ==
  ASSUME BaseInv, Undisturbed, NEW f \in Flows, flow[f].pc = "ws", NEW b \in BOOLEAN,
         AfterSetup(f, b), UNCHANGED <<state, notesGenMeetingId, job>>
  PROVE  Undisturbed'
<1>1. Others(f)
  BY StartingAlone DEF Undisturbed, StartingPlaces
<1>2. CASE job[f] = "none" /\ Goes(f, "rpc", flow[f].m)
  <2>1. OnItsWay(f)' /\ MarkRight'
    BY <1>2 DEF Goes, Undisturbed, OnItsWay, MarkRight, isNotesJobActive
  <2>. QED  BY <1>1, <1>2, <2>1, MovingAlone
<1>3. CASE Watches(f)
  <2>1. state'.tag = "working" => state'.m = flow[f].m
    BY DEF Undisturbed, OnItsWay, isNotesJobActive
  <2>. QED  BY <1>3, <2>1, WatchingKeepsMark
<1>. QED  BY <1>2, <1>3, SetupGoesOn DEF BaseInv

LEMMA FailingKeepsMark ==
  ASSUME BaseInv, Undisturbed, NEW f \in Flows, flow[f].pc \in {"start", "rpc"},
         failNotesStart(f)
  PROVE  Undisturbed'
<1>1. Others(f)
  BY StartingAlone DEF Undisturbed, StartingPlaces
<1>2. Goes(f, "end", flow[f].m)
  BY PcGoes DEF BaseInv, failNotesStart, FlowPlaces
<1>3. OnItsWay(f)' /\ MarkRight'
  BY <1>2 DEF failNotesStart, Goes, OnItsWay, MarkRight, isNotesJobActive, View
<1>. QED  BY <1>1, <1>2, <1>3, MovingAlone

LEMMA BeginningKeepsMark ==
  ASSUME BaseInv, NEW f \in Flows, NEW m \in Meetings, Others(f), ~ isNotesJobActive,
         beginNotesGeneration(f, m)
  PROVE  Undisturbed'
<1>1. PICK q \in {"ws", "rpc"} : Goes(f, q, m)
  BY SubscriptionGoes DEF BaseInv, beginNotesGeneration, FlowPlaces
<1>2. OnItsWay(f)' /\ MarkRight'
  BY <1>1 DEF beginNotesGeneration, Goes, OnItsWay, MarkRight, isNotesJobActive
<1>. QED  BY <1>1, <1>2, MovingAlone

LEMMA FinishingKeepsMark ==
  ASSUME BaseInv, Undisturbed, NEW f \in Flows, NEW tag \in {"done", "error"},
         NEW ps \in PollTasks, finishGeneration(f, tag, ps), UNCHANGED <<flow, job>>
  PROVE  Undisturbed'
<1>1. Finishes(ps)
  BY GenerationFinishes DEF BaseInv
<1>2. CASE state'.tag \in {"done", "error"} /\ notesGenMeetingId' \in {notesGenMeetingId, None}
  BY <1>2, WorkOver
<1>3. CASE UNCHANGED ui
  BY <1>3, StandingStill DEF ui
<1>. QED  BY <1>1, <1>2, <1>3 DEF Finishes

LEMMA MarkStep == ASSUME BaseInv, Undisturbed, GoesOn \/ UNCHANGED vars PROVE Undisturbed'
<1> USE DEF polling, engine, ui
<1>1. ASSUME UNCHANGED <<state, notesGenMeetingId, flow, job>> PROVE Undisturbed'
  BY <1>1, StandingStill
<1>2. ASSUME NEW f \in Flows, FlowStep(f) PROVE Undisturbed'
  <2>1. CASE MeetingStartFails(f) \/ NotesGenerateFails(f)
    BY <2>1, FailingKeepsMark DEF MeetingStartFails, NotesGenerateFails
  <2>2. CASE WsSucceeded(f) \/ WsFailed(f)
    BY <2>2, SetupKeepsMark DEF WsSucceeded, WsFailed
  <2>3. CASE NotesGenerateReplies(f)
    <3>1. flow[f].wsOk \in BOOLEAN /\ FlowType /\ PollType
      BY DEF BaseInv, FlowType, FlowRecord
    <3>2. Watches(f)
      BY <2>3, <3>1, WatchBegins DEF NotesGenerateReplies
    <3>. QED  BY <2>3, <3>2, WatchingKeepsMark DEF NotesGenerateReplies, WorkingOn
  <2>4. CASE registerCallback(f)
    <3>1. Goes(f, "poll", flow[f].m) /\ Others(f)
      BY <2>4, PcGoes, StartingAlone
         DEF registerCallback, FlowPlaces, BaseInv, Undisturbed, StartingPlaces
    <3>2. OnItsWay(f)' /\ MarkRight'
      BY <2>4, <3>1 DEF registerCallback, Goes, Undisturbed, OnItsWay, MarkRight,
         isNotesJobActive
    <3>. QED  BY <3>1, <3>2, MovingAlone
  <2>5. CASE WatchByPolling(f)
    <3>1. Goes(f, "end", flow[f].m)
      BY <2>5, PcGoes DEF WatchByPolling, FlowPlaces, BaseInv
    <3>2. Watches(f)
      BY <2>5, <3>1, PollingStarts DEF WatchByPolling, Watches, BaseInv
    <3>3. state'.tag = "working" => state'.m = flow[f].m
      BY <2>5 DEF WatchByPolling, Undisturbed, OnItsWay, isNotesJobActive
    <3>. QED  BY <2>5, <3>2, <3>3, WatchingKeepsMark DEF WatchByPolling
  <2>6. ASSUME NEW m \in Meetings, MeetingStarted(f, m) PROVE Undisturbed'
    <3>1. Others(f) /\ ~ isNotesJobActive
      BY <2>6, StartingAlone DEF MeetingStarted, Undisturbed, OnItsWay, StartingPlaces
    <3>. QED  BY <2>6, <3>1, BeginningKeepsMark DEF MeetingStarted
  <2>. QED  BY <1>2, <2>1, <2>2, <2>3, <2>4, <2>5, <2>6 DEF FlowStep
<1>3. ASSUME NEW f \in Flows, PollStep(f) PROVE Undisturbed'
  <2>1. CASE PollGet(f) \/ PollWake(f)
    BY <1>1, <2>1 DEF PollGet, PollWake, PollerTo
  <2>2. CASE PollReports(f)
    <3> DEFINE ps == [poller EXCEPT ![f] = PollEnd]
               tag == IF poller[f].pc = "found" THEN "done" ELSE "error"
    <3>1. ps \in PollTasks /\ tag \in {"done", "error"}
      BY PollerEnds
    <3>2. finishGeneration(f, tag, ps) /\ UNCHANGED <<flow, job>>
      BY <2>2 DEF PollReports
    <3> HIDE DEF ps, tag
    <3>. QED  BY <3>1, <3>2, FinishingKeepsMark
  <2>. QED  BY <1>3, <2>1, <2>2 DEF PollStep
<1>4. ASSUME Environment PROVE Undisturbed'
  <2>1. ASSUME NEW f \in Flows, EngineAccepts(f) \/ ExportNotes(f) \/ JobEnds(f)
        PROVE  Undisturbed'
    <3>1. UNCHANGED <<state, notesGenMeetingId, flow>>
      BY <2>1 DEF EngineAccepts, ExportNotes, JobEnds
    <3>2. \A g \in Flows : job'[g] = "none" => job[g] = "none"
      BY <2>1 DEF EngineAccepts, ExportNotes, JobEnds, BaseInv, JobType
    <3>. QED  BY <3>1, <3>2, StandingStill
  <2>2. ASSUME NEW f \in Flows, Callback(f) PROVE Undisturbed'
    <3>1. CASE \E tag \in {"done", "error"} : finishGeneration(f, tag, poller)
      BY <2>2, <3>1, FinishingKeepsMark DEF Callback, BaseInv, PollType
    <3>2. CASE UNCHANGED <<state, notesGenMeetingId>>
      BY <2>2, <3>2, <1>1 DEF Callback
    <3>. QED  BY <2>2, <3>1, <3>2 DEF Callback
  <2>3. CASE route \/ StopTask \/ ConnectionDrops
    BY <1>1, <2>3 DEF route, StopTask, ConnectionDrops
  <2>. QED  BY <1>4, <2>1, <2>2, <2>3 DEF Environment
<1>5. CASE startNewGenerationFlow \/ reset
  BY <1>5, WorkOver DEF startNewGenerationFlow, reset, View
<1>6. CASE SilenceElapses
  BY <1>1, <1>6 DEF SilenceElapses
<1>. QED  BY <1>1, <1>2, <1>3, <1>4, <1>5, <1>6 DEF GoesOn, vars

\* A flow that begins alone is right whatever flows that crossed have left behind.
LEMMA BeginningAlone == ASSUME BaseInv, Starting = {}, FlowBegins PROVE Undisturbed'
<1> USE DEF polling, engine, ui
<1>1. ASSUME NEW f \in Flows, generate(f) PROVE Undisturbed'
  <2>1. Goes(f, "start", flow[f].m) /\ Others(f)
    BY <1>1, PcGoes, NoneStarting DEF generate, FlowPlaces, BaseInv
  <2>2. OnItsWay(f)' /\ MarkRight'
    BY <1>1, <2>1 DEF generate, Goes, OnItsWay, MarkRight, isNotesJobActive
  <2>. QED  BY <2>1, <2>2, MovingAlone
<1>2. ASSUME NEW f \in Flows, NEW m \in Meetings, generateNotes(f, m) PROVE Undisturbed'
  <2>1. Others(f)
    BY NoneStarting
  <2>2. CASE beginNotesGeneration(f, m)
    BY <1>2, <2>1, <2>2, BeginningKeepsMark DEF generateNotes
  <2>3. CASE state' = View("error") /\ UNCHANGED flow
    BY <2>3 DEF Undisturbed, OneStarting, Starting, OnItsWay, View, MarkRight, isNotesJobActive
  <2>. QED  BY <1>2, <2>2, <2>3 DEF generateNotes
<1>3. ASSUME NEW f \in Flows, NEW m \in Meetings, trackAutoGeneratedNotes(f, m)
      PROVE  Undisturbed'
  <2>1. PICK q \in {"ws", "register"} : Goes(f, q, m)
    BY <1>3, SubscriptionGoes DEF trackAutoGeneratedNotes, FlowPlaces, BaseInv
  <2>2. Others(f) /\ job'[f] = "running"
    BY <1>3, NoneStarting DEF trackAutoGeneratedNotes, BaseInv, JobType
  <2>3. OnItsWay(f)' /\ MarkRight'
    BY <1>3, <2>1, <2>2 DEF trackAutoGeneratedNotes, Goes, OnItsWay, WorkingOn, MarkRight,
       isNotesJobActive
  <2>. QED  BY <2>1, <2>2, <2>3, MovingAlone
<1>. QED  BY <1>1, <1>2, <1>3 DEF FlowBegins

LEMMA MarkInvStep == ASSUME BaseInv, MarkInv, [Next]_vars PROVE MarkInv'
<1>1. CASE FlowBegins /\ crossed' = (Starting # {})
  <2>1. CASE Starting = {}
    BY <1>1, <2>1, BeginningAlone DEF MarkInv
  <2>2. CASE Starting # {}
    BY <1>1, <2>2 DEF MarkInv
  <2>. QED  BY <2>1, <2>2
<1>2. CASE (GoesOn \/ UNCHANGED vars) /\ UNCHANGED crossed
  BY <1>2, MarkStep DEF MarkInv
<1>. QED  BY <1>1, <1>2 DEF Next, vars

\* While the app works on a meeting's notes, the processing mark and the inline error
\* are on no other meeting, for any number of flows and meetings, unless flows have
\* crossed and none has begun alone since.
THEOREM MarkIsOnTheRightMeeting == Spec => []ProcessingMarksNoOtherMeeting
<1>1. Init => MarkInv
  BY DEF Init, MarkInv, Undisturbed, OneStarting, Starting, OnItsWay, MarkRight,
     isNotesJobActive, View
<1>2. BaseInv /\ MarkInv /\ [Next]_vars => MarkInv'
  BY MarkInvStep
<1>3. MarkInv => ProcessingMarksNoOtherMeeting
  BY DEF MarkInv, Undisturbed, MarkRight, ProcessingMarksNoOtherMeeting
<1>. QED  BY <1>1, <1>2, <1>3, BaseInvariant, PTL DEF Spec

-----------------------------------------------------------------------------
(* The watch *)

\* A flow that will make its own polling task the current one, whatever happens.
Attaching(f) ==
  \/ flow[f].pc \in {"register", "poll"}
  \/ flow[f].pc = "ws" /\ job[f] # "none"

\* The polling task in charge ends the work, or flows have crossed and it is about
\* another meeting than the one worked on.
InCharge ==
  /\ pollingTask # None /\ lastProgress # "nil"
  /\ \/ Watching(pollingTask, state.m) /\ ~ poller[pollingTask].cancelled
     \/ crossed /\ flow[pollingTask].m # state.m

Covered ==
  /\ pollingTask # None => flow[pollingTask].pc = "end"
  /\ isNotesJobActive => InCharge \/ \E f \in Flows : Attaching(f)

\* The state, the flows and the task in charge are what they were.
LEMMA StandingCovered ==
  ASSUME Covered, UNCHANGED <<state, flow, pollingTask, poller, crossed>>,
         lastProgress' \in {lastProgress, "fresh", "old"},
         \A g \in Flows : job'[g] = "none" => job[g] = "none"
  PROVE  Covered'
<1>1. InCharge => InCharge'
  BY DEF InCharge, Watching
<1>2. \A f \in Flows : Attaching(f) => Attaching(f)'
  BY DEF Attaching
<1>. QED  BY <1>1, <1>2 DEF Covered, isNotesJobActive

LEMMA IdleCovered ==
  ASSUME Covered, state'.tag # "working", pollingTask' \in {pollingTask, None}, UNCHANGED flow
  PROVE  Covered'
BY DEF Covered, isNotesJobActive

\* A flow that moves leaves the task in charge alone, and a flow that was going to
\* poll still is.
LEMMA MovingCovered ==
  ASSUME BaseInv, Covered, NEW f \in Flows, flow[f].pc # "end", NEW pc, NEW m, Goes(f, pc, m),
         UNCHANGED <<pollingTask, poller, crossed>>,
         UNCHANGED job,
         \/ state'.tag # "working"
         \/ Attaching(f)'
         \/ ~ Attaching(f) /\ UNCHANGED state /\ lastProgress' \in {lastProgress, "fresh"}
  PROVE  Covered'
<1>1. pollingTask # None => pollingTask \in Flows \ {f}
  BY DEF BaseInv, PollType, Covered
<1>2. pollingTask # None => flow'[pollingTask] = flow[pollingTask]
  BY <1>1 DEF Goes
<1>3. ASSUME ~ Attaching(f), UNCHANGED state, lastProgress' \in {lastProgress, "fresh"}
      PROVE  Covered'
  <2>1. InCharge => InCharge'
    BY <1>2, <1>3 DEF InCharge, Watching
  <2>2. \A g \in Flows : Attaching(g) => Attaching(g)'
    BY <1>3 DEF Attaching, Goes
  <2>. QED  BY <1>2, <1>3, <2>1, <2>2 DEF Covered, isNotesJobActive
<1>. QED  BY <1>2, <1>3 DEF Covered, isNotesJobActive

\* The flow goes to register its callback, or takes charge itself: of the meeting
\* worked on, unless flows have crossed.
LEMMA WatchingCovers ==
  ASSUME BaseInv, Covered, NEW f \in Flows, flow[f].pc # "end", Watches(f),
         UNCHANGED <<crossed, job>>,
         crossed \/ (state'.tag = "working" => state'.m = flow[f].m)
  PROVE  Covered'
<1>1. CASE Goes(f, "register", flow[f].m) /\ UNCHANGED <<polling, lastProgress>>
  <2>1. flow'[f].pc = "register"
    BY <1>1, Zenon DEF Goes
  <2>2. Attaching(f)'
    BY <2>1 DEF Attaching
  <2>. QED  BY <1>1, <2>2, MovingCovered DEF polling
<1>2. CASE Goes(f, "end", flow[f].m) /\ Polls(f)
  <2>1. f # None
    BY ClientAssumption DEF Flows
  <2>2. isNotesJobActive' => InCharge'
    BY <1>2, <2>1 DEF Goes, Polls, InCharge, Watching, isNotesJobActive
  <2>. QED  BY <1>2, <2>2 DEF Covered, Goes, Polls
<1>. QED  BY <1>1, <1>2 DEF Watches

LEMMA SetupCovers ==
  ASSUME BaseInv, MarkInv, Covered, NEW f \in Flows, flow[f].pc = "ws", NEW b \in BOOLEAN,
         AfterSetup(f, b), UNCHANGED <<state, job, crossed>>
  PROVE  Covered'
<1>1. CASE /\ job[f] = "none" /\ Goes(f, "rpc", flow[f].m)
           /\ UNCHANGED <<polling, lastProgress>>
  <2>1. ~ Attaching(f)
    BY <1>1 DEF Attaching
  <2>. QED  BY <1>1, <2>1, MovingCovered DEF polling
<1>2. CASE Watches(f)
  <2>1. crossed \/ (state'.tag = "working" => state'.m = flow[f].m)
    BY DEF MarkInv, Undisturbed, OnItsWay, isNotesJobActive
  <2>. QED  BY <1>2, <2>1, WatchingCovers
<1>. QED  BY <1>1, <1>2, SetupGoesOn DEF BaseInv

LEMMA FinishingCovered ==
  ASSUME BaseInv, Covered, NEW f \in Flows, NEW tag \in {"done", "error"},
         NEW ps \in PollTasks, finishGeneration(f, tag, ps), UNCHANGED <<flow, job, crossed>>,
         \A g \in Flows : ps[g] = poller[g] \/ g = f
  PROVE  Covered'
<1>1. Finishes(ps) /\ (Working(flow[f].m) => state'.tag \in {"done", "error"})
  BY GenerationFinishes DEF BaseInv
<1>2. CASE state'.tag \in {"done", "error"} /\ pollingTask' = None
  BY <1>2, IdleCovered
<1>3. CASE ~ Working(flow[f].m) /\ poller' = ps /\ UNCHANGED <<ui, pollingTask>>
  <2>1. ASSUME isNotesJobActive, InCharge PROVE InCharge'
    <3>1. CASE crossed /\ flow[pollingTask].m # state.m
      BY <1>3, <2>1, <3>1 DEF InCharge, ui
    <3>2. CASE Watching(pollingTask, state.m) /\ ~ poller[pollingTask].cancelled
      <4>1. pollingTask \in Flows /\ state \in States /\ state.tag = "working"
        BY <2>1 DEF BaseInv, PollType, UiType, InCharge, isNotesJobActive
      <4>2. state = WorkingOn(state.m)
        BY <4>1 DEF States, WorkingOn
      <4>3. pollingTask # f
        BY <1>3, <3>2, <4>2 DEF Working, Watching
      <4>4. poller'[pollingTask] = poller[pollingTask]
        BY <1>3, <4>1, <4>3
      <4>. QED  BY <1>3, <2>1, <3>2, <4>4 DEF InCharge, Watching, ui
    <3>. QED  BY <2>1, <3>1, <3>2 DEF InCharge
  <2>2. \A g \in Flows : Attaching(g) => Attaching(g)'
    BY DEF Attaching
  <2>. QED  BY <1>3, <2>1, <2>2 DEF Covered, isNotesJobActive, ui
<1>4. CASE Working(flow[f].m)
  BY <1>1, <1>4, IdleCovered DEF Finishes, finishGeneration
<1>. QED  BY <1>1, <1>2, <1>3, <1>4 DEF Finishes

\* The polling task in charge gives up only when it is cancelled.
LEMMA PollingCovered ==
  ASSUME BaseInv, Covered, NEW f \in Flows, poller[f].pc \in {"get", "sleep"},
         NEW pc \in {"sleep", "found", "failed", "end"}, PollerTo(f, pc),
         pc = "end" => poller[f].cancelled, UNCHANGED crossed
  PROVE  Covered'
<1>1. UNCHANGED <<ui, flow, pollingTask, job>>
  BY DEF PollerTo, engine
<1>2. /\ \A g \in Flows \ {f} : poller'[g] = poller[g]
      /\ pc # "end" => poller'[f].pc = pc /\ poller'[f].cancelled = poller[f].cancelled
  <2>1. CASE pc = "end"
    BY <2>1, PollerEnds DEF PollerTo
  <2>2. CASE pc # "end"
    BY <2>2, PollerMoves DEF PollPlaces
  <2>. QED  BY <2>1, <2>2
<1>3. ASSUME InCharge PROVE InCharge'
  <2>1. pollingTask \in Flows
    BY <1>3 DEF InCharge, BaseInv, PollType
  <2>. QED  BY <1>1, <1>2, <1>3, <2>1 DEF InCharge, Watching, ui
<1>4. \A g \in Flows : Attaching(g) => Attaching(g)'
  BY <1>1 DEF Attaching
<1>. QED  BY <1>1, <1>3, <1>4 DEF Covered, isNotesJobActive, ui

LEMMA CoveredGoesOn ==
  ASSUME BaseInv, MarkInv, Covered, GoesOn \/ UNCHANGED vars, UNCHANGED crossed
  PROVE  Covered'
<1> USE DEF polling, engine, ui
<1>1. ASSUME UNCHANGED <<state, flow, polling, job>>,
             lastProgress' \in {lastProgress, "fresh", "old"}
      PROVE  Covered'
  BY <1>1, StandingCovered
<1>2. ASSUME NEW f \in Flows, FlowStep(f) PROVE Covered'
  <2>1. CASE MeetingStartFails(f) \/ NotesGenerateFails(f)
    <3>1. Goes(f, "end", flow[f].m) /\ flow[f].pc # "end" /\ state'.tag # "working"
      BY <2>1, PcGoes DEF MeetingStartFails, NotesGenerateFails, failNotesStart, BaseInv,
         FlowPlaces, View
    <3>. QED  BY <2>1, <3>1, MovingCovered
              DEF MeetingStartFails, NotesGenerateFails, failNotesStart
  <2>2. CASE WsSucceeded(f) \/ WsFailed(f)
    BY <2>2, SetupCovers DEF WsSucceeded, WsFailed
  <2>3. CASE NotesGenerateReplies(f)
    <3>1. flow[f].wsOk \in BOOLEAN /\ FlowType /\ PollType
      BY DEF BaseInv, FlowType, FlowRecord
    <3>2. Watches(f)
      BY <2>3, <3>1, WatchBegins DEF NotesGenerateReplies
    <3>. QED  BY <2>3, <3>2, WatchingCovers DEF NotesGenerateReplies, WorkingOn
  <2>4. CASE registerCallback(f)
    <3>1. Goes(f, "poll", flow[f].m) /\ flow[f].pc # "end"
      BY <2>4, PcGoes DEF registerCallback, FlowPlaces, BaseInv
    <3>2. flow'[f].pc = "poll"
      BY <3>1, Zenon DEF Goes
    <3>3. Attaching(f)'
      BY <3>2 DEF Attaching
    <3>. QED  BY <2>4, <3>1, <3>3, MovingCovered DEF registerCallback
  <2>5. CASE WatchByPolling(f)
    <3>1. Goes(f, "end", flow[f].m) /\ flow[f].pc # "end"
      BY <2>5, PcGoes DEF WatchByPolling, FlowPlaces, BaseInv
    <3>2. Watches(f)
      BY <2>5, <3>1, PollingStarts DEF WatchByPolling, Watches, BaseInv
    <3>3. crossed \/ (state'.tag = "working" => state'.m = flow[f].m)
      BY <2>5 DEF WatchByPolling, MarkInv, Undisturbed, OnItsWay, isNotesJobActive
    <3>. QED  BY <2>5, <3>1, <3>2, <3>3, WatchingCovers DEF WatchByPolling
  <2>6. ASSUME NEW m \in Meetings, MeetingStarted(f, m) PROVE Covered'
    <3>1. PICK q \in {"ws", "rpc"} : Goes(f, q, m)
      BY <2>6, SubscriptionGoes DEF MeetingStarted, beginNotesGeneration, BaseInv, FlowPlaces
    <3>2. flow[f].pc # "end" /\ ~ Attaching(f)
      BY <2>6 DEF MeetingStarted, Attaching
    <3>. QED  BY <2>6, <3>1, <3>2, MovingCovered DEF MeetingStarted, beginNotesGeneration
  <2>. QED  BY <1>2, <2>1, <2>2, <2>3, <2>4, <2>5, <2>6 DEF FlowStep
<1>3. ASSUME NEW f \in Flows, PollStep(f) PROVE Covered'
  <2>1. CASE PollGet(f) \/ PollWake(f)
    BY <2>1, PollingCovered DEF PollGet, PollWake
  <2>2. CASE PollReports(f)
    <3> DEFINE ps == [poller EXCEPT ![f] = PollEnd]
               tag == IF poller[f].pc = "found" THEN "done" ELSE "error"
    <3>1. /\ ps \in PollTasks /\ tag \in {"done", "error"}
          /\ \A g \in Flows \ {f} : ps[g] = poller[g]
      BY PollerEnds
    <3>2. finishGeneration(f, tag, ps) /\ UNCHANGED <<flow, job>>
      BY <2>2 DEF PollReports
    <3> HIDE DEF ps, tag
    <3>. QED  BY <3>1, <3>2, FinishingCovered
  <2>. QED  BY <1>3, <2>1, <2>2 DEF PollStep
<1>4. ASSUME Environment PROVE Covered'
  <2>1. ASSUME NEW f \in Flows, EngineAccepts(f) \/ ExportNotes(f) \/ JobEnds(f) PROVE Covered'
    <3>1. /\ UNCHANGED <<state, flow, pollingTask, poller>>
          /\ lastProgress' \in {lastProgress, "fresh", "old"}
      BY <2>1 DEF EngineAccepts, ExportNotes, JobEnds
    <3>2. \A g \in Flows : job'[g] = "none" => job[g] = "none"
      BY <2>1 DEF EngineAccepts, ExportNotes, JobEnds, BaseInv, JobType
    <3>. QED  BY <3>1, <3>2, StandingCovered
  <2>2. ASSUME NEW f \in Flows, Callback(f) PROVE Covered'
    <3>1. CASE \E tag \in {"done", "error"} : finishGeneration(f, tag, poller)
      BY <2>2, <3>1, FinishingCovered DEF Callback, BaseInv, PollType
    <3>2. CASE lastProgress' = "fresh" /\ UNCHANGED <<state, notesGenMeetingId, polling>>
      BY <1>1, <2>2, <3>2 DEF Callback
    <3>. QED  BY <2>2, <3>1, <3>2 DEF Callback
  <2>3. CASE route \/ StopTask \/ ConnectionDrops
    BY <1>1, <2>3 DEF route, StopTask, ConnectionDrops
  <2>. QED  BY <1>4, <2>1, <2>2, <2>3 DEF Environment
<1>5. CASE startNewGenerationFlow \/ reset
  BY <1>5, IdleCovered DEF startNewGenerationFlow, reset, View
<1>6. CASE SilenceElapses
  BY <1>1, <1>6 DEF SilenceElapses
<1>. QED  BY <1>1, <1>2, <1>3, <1>4, <1>5, <1>6 DEF GoesOn, vars

LEMMA CoveredBegins == ASSUME BaseInv, Covered, FlowBegins PROVE Covered'
<1> USE DEF polling, engine, ui
<1>1. ASSUME NEW f \in Flows, flow[f].pc # "end", NEW pc, NEW m, Goes(f, pc, m),
             UNCHANGED polling,
             state'.tag = "working" => Attaching(f)'
      PROVE  Covered'
  BY <1>1 DEF BaseInv, PollType, Covered, Goes, isNotesJobActive
<1>2. ASSUME NEW f \in Flows, generate(f) PROVE Covered'
  <2>1. Goes(f, "start", flow[f].m) /\ flow[f].pc # "end" /\ state'.tag # "working"
    BY <1>2, PcGoes DEF generate, MayStart, FlowPlaces, BaseInv
  <2>. QED  BY <1>1, <1>2, <2>1 DEF generate
<1>3. ASSUME NEW f \in Flows, NEW m \in Meetings, generateNotes(f, m) PROVE Covered'
  <2>1. CASE beginNotesGeneration(f, m)
    <3>1. PICK q \in {"ws", "rpc"} : Goes(f, q, m)
      BY <2>1, SubscriptionGoes DEF BaseInv, beginNotesGeneration, FlowPlaces
    <3>2. flow[f].pc # "end" /\ state'.tag # "working"
      BY <1>3, <2>1 DEF generateNotes, MayStart, beginNotesGeneration, isNotesJobActive
    <3>. QED  BY <1>1, <2>1, <3>1, <3>2 DEF beginNotesGeneration
  <2>2. CASE state' = View("error") /\ UNCHANGED <<flow, polling>>
    BY <2>2, IdleCovered DEF View
  <2>. QED  BY <1>3, <2>1, <2>2 DEF generateNotes
<1>4. ASSUME NEW f \in Flows, NEW m \in Meetings, trackAutoGeneratedNotes(f, m) PROVE Covered'
  <2>1. PICK q \in {"ws", "register"} : Goes(f, q, m)
    BY <1>4, SubscriptionGoes DEF trackAutoGeneratedNotes, FlowPlaces, BaseInv
  <2>2. job'[f] = "running" /\ flow[f].pc # "end"
    BY <1>4 DEF trackAutoGeneratedNotes, MayStart, BaseInv, JobType
  <2>3. flow'[f].pc \in {"ws", "register"}
    BY <2>1, Zenon DEF Goes
  <2>4. Attaching(f)'
    BY <2>2, <2>3 DEF Attaching
  <2>. QED  BY <1>1, <1>4, <2>1, <2>2, <2>4 DEF trackAutoGeneratedNotes
<1>. QED  BY <1>2, <1>3, <1>4 DEF FlowBegins

\* The app cannot stay in .working: the polling task that ends it is there, whatever
\* the WebSocket, the buffer, earlier flows and the jobs do, for any number of flows
\* and meetings. Where flows have crossed it may be about another meeting.
THEOREM WorkIsWatched == Spec => []WatchedWhileWorking
<1>1. Init => MarkInv /\ Covered
  BY DEF Init, MarkInv, Undisturbed, OneStarting, Starting, OnItsWay, MarkRight, Covered,
     isNotesJobActive, View
<1>2. BaseInv /\ MarkInv /\ [Next]_vars => MarkInv'
  BY MarkInvStep
<1>3. BaseInv /\ MarkInv /\ Covered /\ [Next]_vars => Covered'
  BY CoveredGoesOn, CoveredBegins DEF Next, vars
<1>4. Covered => WatchedWhileWorking
  BY DEF Covered, InCharge, Attaching, WatchedWhileWorking, Starting
<1>. QED  BY <1>1, <1>2, <1>3, <1>4, BaseInvariant, PTL DEF Spec

=============================================================================
