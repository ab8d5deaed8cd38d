--------------------------- MODULE RetryQueueProofs ---------------------------
(****************************************************************************)
(* Theorems about RetryQueue, for any messages, drains, attempt limit and   *)
(* batch.  Section 1 is type correctness, section 2 that nothing is parked  *)
(* early, section 3 that nothing handed over is forgotten, section 4 that   *)
(* the queue implements DeferredDeletes.                                    *)
(****************************************************************************)
EXTENDS RetryQueue, TLAPS

USE DEF Push, Dies, deathVars

-----------------------------------------------------------------------------
(* 1. Types                                                                 *)

LEMMA FreshType ==
  ASSUME NEW o \in Items
  PROVE  Fresh(o) \in Descriptor /\ Fresh(o).item = o /\ Fresh(o).attempts = 0
  BY ConstantsAssumption DEF Fresh, Descriptor

LEMMA DescriptorParts ==
  ASSUME NEW x \in Descriptor
  PROVE  x.item \in Items /\ x.attempts \in Nat
  BY ConstantsAssumption DEF Descriptor

LEMMA TypeInit == Init => TypeOK
  BY ConstantsAssumption DEF Init, TypeOK

LEMMA TypeInline ==
  ASSUME TypeOK, NEW o \in Items, Inline(o)
  PROVE  TypeOK'
  <1> USE ConstantsAssumption, FreshType DEF TypeOK, At, drainVars
  <1>1. CASE InlineSucceeds(o)   BY <1>1 DEF InlineSucceeds
  <1>2. CASE InlineRefused(o)    BY <1>2 DEF InlineRefused
  <1>3. CASE InlineTransient(o)  BY <1>3 DEF InlineTransient, Transient
  <1>4. CASE InlineRequeue(o)    BY <1>4 DEF InlineRequeue
  <1>5. CASE InlineHandover(o)   BY <1>5 DEF InlineHandover
  <1>6. CASE InlineDies(o)
    <2>1. deaths' \in 0 .. MaxDeaths
      BY <1>6 DEF InlineDies
    <2> QED BY <1>6, <2>1 DEF InlineDies, Dies
  <1> QED BY <1>1, <1>2, <1>3, <1>4, <1>5, <1>6 DEF Inline

LEMMA TypeDrain ==
  ASSUME TypeOK, NEW d \in Drains, DrainStep(d) \/ DrainDies(d)
  PROVE  TypeOK'
  <1> USE ConstantsAssumption DEF TypeOK, Turn
  <1>1. CASE DrainStart(d)       BY <1>1 DEF DrainStart
  <1>2. CASE DrainEnd(d)         BY <1>2 DEF DrainEnd
  <1>3. CASE Dequeue(d)
    <2>1. Head(ready) \in Descriptor /\ Tail(ready) \in Seq(Descriptor)
      BY <1>3 DEF Dequeue
    <2>2. left[d] - 1 \in 0 .. RetryBatch
      BY <1>3 DEF Dequeue
    <2> QED BY <1>3, <2>1, <2>2 DEF Dequeue
  <1>4. CASE ReplayUnknown(d)    BY <1>4 DEF ReplayUnknown
  <1>5. CASE ReplaySucceeds(d)   BY <1>5 DEF ReplaySucceeds, Items
  <1>6. CASE ReplayTransient(d) \/ ReplayRefused(d)
    <2>1. job[d] \in Descriptor /\ job[d].item \in Items
      BY <1>6 DEF ReplayTransient, ReplayRefused, Descriptor
    <2>2. fails' \in [Items -> Nat]
      <3>1. fails' = [fails EXCEPT ![job[d].item] = fails[job[d].item] + 1]
        BY <1>6 DEF ReplayTransient, ReplayRefused, Failed
      <3>2. fails[job[d].item] + 1 \in Nat
        BY <2>1
      <3> QED BY <3>1, <3>2
    <2>3. transients' \in 0 .. MaxTransient /\ effected' \subseteq Items
      BY <1>6, <2>1 DEF ReplayTransient, ReplayRefused, Transient
    <2> QED BY <1>6, <2>1, <2>2, <2>3 DEF ReplayTransient, ReplayRefused
  <1>7. CASE ReplayRequeue(d)
    <2>1. Fresh(job[d].item) \in Descriptor
      BY <1>7, FreshType DEF ReplayRequeue, Descriptor
    <2> QED BY <1>7, <2>1 DEF ReplayRequeue
  <1>8. CASE MarkFailed(d)
    <2>1. job[d] \in Descriptor /\ job[d].item \in Items
      BY <1>8 DEF MarkFailed, Descriptor
    <2>2. job[d].attempts + 1 < MaxAttempts
              => [item |-> job[d].item, attempts |-> job[d].attempts + 1] \in Descriptor
      BY <2>1 DEF Descriptor
    <2>3. job[d].attempts \in Nat
      BY <2>1 DEF Descriptor
    <2>4. CASE job[d].attempts + 1 >= MaxAttempts
      BY <1>8, <2>1, <2>4 DEF MarkFailed
    <2>5. CASE job[d].attempts + 1 < MaxAttempts
      <3>1. /\ ready' = Append(ready, [item |-> job[d].item, attempts |-> job[d].attempts + 1])
            /\ UNCHANGED dead
        BY <1>8, <2>3, <2>5 DEF MarkFailed
      <3>2. ready' \in Seq(Descriptor)
        BY <2>2, <2>5, <3>1
      <3> QED BY <1>8, <3>1, <3>2 DEF MarkFailed
    <2> QED BY <2>3, <2>4, <2>5, SMTT(30)
  <1>9. CASE DrainDies(d)
    <2>1. deaths' \in 0 .. MaxDeaths
      BY <1>9 DEF DrainDies
    <2>2. lost' \subseteq Items
      BY <1>9 DEF DrainDies, Holds, Descriptor
    <2> QED BY <1>9, <2>1, <2>2 DEF DrainDies
  <1> QED BY <1>1, <1>2, <1>3, <1>4, <1>5, <1>6, <1>7, <1>8, <1>9 DEF DrainStep

LEMMA TypeStep == TypeOK /\ [Next]_vars => TypeOK'
  <1>1. ASSUME TypeOK, UNCHANGED vars PROVE TypeOK'
    BY <1>1 DEF TypeOK, vars, drainVars
  <1> QED BY <1>1, TypeInline, TypeDrain DEF Next

(* The queue keeps its types; in particular no descriptor ever waits with   *)
(* its attempts used up.                                                    *)
THEOREM TypeCorrect == Spec => []TypeOK
  BY TypeInit, TypeStep, PTL DEF Spec

-----------------------------------------------------------------------------
(* 2. Nothing is parked early                                               *)

(* The failures recorded on a descriptor have happened.                     *)
Counted(e) == e.attempts <= fails[e.item]

CountInv ==
    /\ \A i \in DOMAIN ready : Counted(ready[i])
    /\ \A d \in Drains : drain[d] = "replay" => Counted(job[d])
    /\ \A d \in Drains :
          drain[d] \in {"requeue", "fail"} => job[d].attempts + 1 <= fails[job[d].item]
    /\ ParkedLate

LEMMA CountInit == Init => CountInv
  BY DEF Init, CountInv, ParkedLate

LEMMA CountInline ==
  ASSUME TypeOK, CountInv, NEW o \in Items, Inline(o)
  PROVE  CountInv'
  <1> USE DEF TypeOK, CountInv, ParkedLate, Counted, drainVars
  <1>1. CASE UNCHANGED ready
    BY <1>1 DEF Inline, InlineSucceeds, InlineRefused, InlineTransient, InlineRequeue,
                InlineHandover, InlineDies
  <1>2. CASE InlineRequeue(o) \/ InlineHandover(o)
    <2>1. ready' = Append(ready, Fresh(o)) /\ UNCHANGED <<dead, drain, job, fails>>
      BY <1>2 DEF InlineRequeue, InlineHandover
    <2>2. \A i \in DOMAIN ready' : Counted(ready'[i])
      BY <2>1, FreshType
    <2> QED BY <2>1, <2>2
  <1> QED
    BY <1>1, <1>2 DEF Inline, InlineSucceeds, InlineRefused, InlineTransient, InlineDies

LEMMA CountDrain ==
  ASSUME TypeOK, CountInv, NEW d \in Drains, DrainStep(d) \/ DrainDies(d)
  PROVE  CountInv'
  <1> USE ConstantsAssumption DEF TypeOK, CountInv, ParkedLate, Counted, Turn
  <1>1. CASE DrainStart(d)  BY <1>1 DEF DrainStart
  <1>2. CASE DrainEnd(d)    BY <1>2 DEF DrainEnd
  <1>3. CASE Dequeue(d)
    <2>1. Counted(Head(ready)) /\ \A i \in DOMAIN Tail(ready) : Counted(Tail(ready)[i])
      BY <1>3 DEF Dequeue
    <2>2. UNCHANGED <<dead, fails>> /\ ready' = Tail(ready)
      BY <1>3 DEF Dequeue
    <2>3. drain' = [drain EXCEPT ![d] = "replay"] /\ job' = [job EXCEPT ![d] = Head(ready)]
      BY <1>3 DEF Dequeue
    <2>4. \A e \in Drains : e # d => drain'[e] = drain[e] /\ job'[e] = job[e]
      BY <2>3
    <2>5. drain'[d] = "replay" /\ job'[d] = Head(ready)
      BY <2>3
    <2> QED BY <2>1, <2>2, <2>4, <2>5
  <1>4. CASE ReplayUnknown(d) \/ ReplaySucceeds(d)
    BY <1>4 DEF ReplayUnknown, ReplaySucceeds
  <1>5. CASE ReplayTransient(d) \/ ReplayRefused(d)
    <2>1. job[d] \in Descriptor /\ job[d].item \in Items /\ Counted(job[d])
      BY <1>5 DEF ReplayTransient, ReplayRefused, Descriptor
    <2>2. fails' = [fails EXCEPT ![job[d].item] = fails[job[d].item] + 1]
      BY <1>5 DEF ReplayTransient, ReplayRefused, Failed
    <2>3. /\ \A o \in Items : fails'[o] \in Nat /\ fails[o] <= fails'[o]
          /\ job[d].attempts + 1 <= fails'[job[d].item]
      <3>1. job[d].attempts \in Nat
        BY <2>1 DEF Descriptor
      <3> QED BY <2>1, <2>2, <3>1, SMTT(30)
    <2>4. UNCHANGED <<ready, dead, job>>
      BY <1>5 DEF ReplayTransient, ReplayRefused
    <2>5. drain'[d] \in {"requeue", "fail"} /\ \A e \in Drains : e # d => drain'[e] = drain[e]
      BY <1>5 DEF ReplayTransient, ReplayRefused
    <2>6. \A i \in DOMAIN ready' : Counted(ready[i])'
      <3>1. \A i \in DOMAIN ready : ready[i].item \in Items /\ ready[i].attempts \in Nat
        BY DescriptorParts
      <3> QED BY <2>3, <2>4, <3>1
    <2>7. \A e \in Drains :
            /\ drain'[e] = "replay" => job[e].attempts <= fails'[job[e].item]
            /\ drain'[e] \in {"requeue", "fail"} =>
                  job[e].attempts + 1 <= fails'[job[e].item]
      <3>1. \A e \in Drains : drain[e] \in {"replay", "requeue", "fail"} =>
                job[e].item \in Items /\ job[e].attempts \in Nat
        <4> SUFFICES ASSUME NEW e \in Drains, drain[e] \in {"replay", "requeue", "fail"}
                     PROVE  job[e].item \in Items /\ job[e].attempts \in Nat
          OBVIOUS
        <4>1. job[e] \in Descriptor
          OBVIOUS
        <4> QED BY <4>1, DescriptorParts
      <3>2. ASSUME NEW e \in Drains, e # d,
                   drain[e] \in {"replay", "requeue", "fail"}
            PROVE  fails[job[e].item] <= fails'[job[e].item]
        BY <2>3, <3>1, <3>2
      <3>3. ASSUME NEW e \in Drains, e # d, drain[e] = "replay"
            PROVE  job[e].attempts <= fails'[job[e].item]
        <4>1. job[e].attempts <= fails[job[e].item]
          BY <3>3
        <4> QED BY <2>3, <3>1, <3>2, <3>3, <4>1
      <3>4. ASSUME NEW e \in Drains, e # d, drain[e] \in {"requeue", "fail"}
            PROVE  job[e].attempts + 1 <= fails'[job[e].item]
        <4>1. job[e].attempts + 1 <= fails[job[e].item]
          BY <3>4
        <4> QED BY <2>3, <3>1, <3>2, <3>4, <4>1
      <3> QED BY <2>3, <2>5, <3>3, <3>4
    <2>8. ParkedLate'
      BY <2>3, <2>4
    <2> QED BY <2>4, <2>6, <2>7, <2>8
  <1>6. CASE ReplayRequeue(d)
    <2>1. job[d].item \in Items
      BY <1>6 DEF ReplayRequeue, Descriptor
    <2>2. ready' = Append(ready, Fresh(job[d].item)) /\ UNCHANGED <<dead, job, fails>>
      BY <1>6 DEF ReplayRequeue
    <2>3. \A i \in DOMAIN ready' : Counted(ready'[i])
      BY <2>1, <2>2, FreshType
    <2>4. drain' = [drain EXCEPT ![d] = "fail"] /\ drain[d] = "requeue"
      BY <1>6 DEF ReplayRequeue
    <2> QED BY <2>2, <2>3, <2>4
  <1>7. CASE MarkFailed(d)
    <2> DEFINE again == [item |-> job[d].item, attempts |-> job[d].attempts + 1]
    <2>1. job[d].item \in Items /\ job[d].attempts \in Nat
          /\ job[d].attempts + 1 <= fails[job[d].item]
      BY <1>7 DEF MarkFailed, Descriptor
    <2>2. UNCHANGED <<job, fails>> /\ drain' = [drain EXCEPT ![d] = "dequeue"]
      BY <1>7 DEF MarkFailed
    <2>3. CASE job[d].attempts + 1 >= MaxAttempts
      <3>1. dead' = dead \union {job[d].item} /\ ready' = ready
        BY <1>7, <2>3 DEF MarkFailed
      <3>2. fails[job[d].item] >= MaxAttempts
        BY <2>1, <2>3
      <3> QED BY <2>2, <3>1, <3>2
    <2>4. CASE job[d].attempts + 1 < MaxAttempts
      <3>1. ready' = Append(ready, again) /\ dead' = dead
        BY <1>7, <2>1, <2>4 DEF MarkFailed
      <3>2. Counted(again)
        BY <2>1
      <3>3. again \in Descriptor
        BY <2>1, <2>4 DEF Descriptor
      <3>4. \A i \in DOMAIN ready' : Counted(ready'[i])
        BY <3>1, <3>2, <3>3
      <3> QED BY <2>2, <3>1, <3>4
    <2> QED BY <2>1, <2>3, <2>4
  <1>8. CASE DrainDies(d)   BY <1>8 DEF DrainDies
  <1> QED BY <1>1, <1>2, <1>3, <1>4, <1>5, <1>6, <1>7, <1>8 DEF DrainStep

(* An item is parked only after max_attempts failed replays, whichever runs *)
(* made them and whichever of them died.                                    *)
THEOREM NothingParkedEarly == Spec => []ParkedLate
  <1>1. TypeOK /\ CountInv /\ [Next]_vars => CountInv'
    <2>1. ASSUME CountInv, UNCHANGED vars PROVE CountInv'
      BY <2>1 DEF CountInv, ParkedLate, Counted, vars, drainVars
    <2> QED BY <2>1, CountInline, CountDrain DEF Next
  <1>2. CountInv => ParkedLate
    BY DEF CountInv
  <1> QED BY <1>1, <1>2, CountInit, TypeInit, TypeStep, PTL DEF Spec

-----------------------------------------------------------------------------
(* 3. Nothing handed over is forgotten                                      *)

LEMMA QueuedAppend ==
  ASSUME TypeOK, NEW e \in Descriptor, ready' = Append(ready, e), NEW m \in Items
  PROVE  Queued(m)' <=> (Queued(m) \/ e.item = m)
  <1> DEFINE n == Len(ready) + 1
  <1>1. /\ n \in DOMAIN ready' /\ ready'[n] = e
        /\ DOMAIN ready' = DOMAIN ready \union {n}
        /\ \A i \in DOMAIN ready : ready'[i] = ready[i]
    BY DEF TypeOK
  <1> QED BY <1>1 DEF Queued

LEMMA QueuedTail ==
  ASSUME TypeOK, ready # <<>>, ready' = Tail(ready), NEW m \in Items
  PROVE  Queued(m) <=> (Queued(m)' \/ Head(ready).item = m)
  <1>1. ASSUME NEW i \in DOMAIN ready, ready[i].item = m, i # 1 PROVE Queued(m)'
    <2>1. i - 1 \in DOMAIN Tail(ready) /\ Tail(ready)[i - 1] = ready[i]
      BY <1>1 DEF TypeOK
    <2> QED BY <1>1, <2>1 DEF Queued
  <1>2. ASSUME NEW i \in DOMAIN Tail(ready), Tail(ready)[i].item = m PROVE Queued(m)
    <2>1. i + 1 \in DOMAIN ready /\ Tail(ready)[i] = ready[i + 1]
      BY DEF TypeOK
    <2> QED BY <1>2, <2>1 DEF Queued
  <1>3. 1 \in DOMAIN ready /\ ready[1] = Head(ready)
    BY DEF TypeOK
  <1> QED BY <1>1, <1>2, <1>3 DEF Queued

(* What an inline attempt does to what the queue holds.                     *)
LEMMA HeldInline ==
  ASSUME TypeOK, NEW o \in Items, Inline(o), NEW m \in Items
  PROVE  /\ UNCHANGED ready => (Held(m)' <=> Held(m))
         /\ ready' # ready => (Held(m)' <=> Held(m) \/ m = o)
  <1>1. InHands(m)' <=> InHands(m)
    BY DEF Inline, InlineSucceeds, InlineRefused, InlineTransient, InlineRequeue,
           InlineHandover, InlineDies, InHands, Holds, drainVars
  <1>2. CASE UNCHANGED ready
    BY <1>1, <1>2 DEF Held, Queued
  <1>3. CASE ready' # ready
    <2>1. ready' = Append(ready, Fresh(o))
      BY <1>3 DEF Inline, InlineSucceeds, InlineRefused, InlineTransient, InlineRequeue,
                  InlineHandover, InlineDies
    <2>2. Queued(m)' <=> Queued(m) \/ m = o
      BY <2>1, FreshType, QueuedAppend
    <2> QED BY <1>1, <1>3, <2>2 DEF Held
  <1> QED BY <1>2, <1>3

Mine(d, m) == Holds(d) /\ job[d].item = m

HeldByOthers(d, m) == \E e \in Drains \ {d} : Holds(e) /\ job[e].item = m

LEMMA HandsSplit ==
  ASSUME NEW d \in Drains, NEW m \in Items
  PROVE  InHands(m) <=> Mine(d, m) \/ HeldByOthers(d, m)
  BY DEF Mine, InHands, HeldByOthers

(* A step of one run moves no other run.                                    *)
LEMMA OthersKeep ==
  ASSUME TypeOK, NEW d \in Drains, DrainStep(d), NEW m \in Items
  PROVE  HeldByOthers(d, m)' <=> HeldByOthers(d, m)
  <1>1. \A e \in Drains : e # d => drain'[e] = drain[e] /\ job'[e] = job[e]
    BY DEF TypeOK, DrainStep, Turn, DrainStart, DrainEnd, Dequeue, ReplayUnknown,
           ReplaySucceeds, ReplayTransient, ReplayRefused, ReplayRequeue, MarkFailed
  <1> QED BY <1>1 DEF HeldByOthers, Holds

(* What a drain step does to what the queue holds: only the item in the     *)
(* run's hands is affected, and it is let go by success or by parking.      *)
LEMMA HeldDrain ==
  ASSUME TypeOK, NEW d \in Drains, DrainStep(d), NEW m \in Items
  PROVE  /\ Mine(d, m) \/ (Held(m)' <=> Held(m))
         /\ Held(m)' \/ ~Held(m) \/ ReplayUnknown(d) \/ ReplaySucceeds(d)
               \/ (MarkFailed(d) /\ dead' = dead \union {m})
         /\ Held(m)' => Held(m)
  <1>1. Held(m) <=> Queued(m) \/ Mine(d, m) \/ HeldByOthers(d, m)
    BY HandsSplit DEF Held, Mine
  <1>2. Held(m)' <=> Queued(m)' \/ Mine(d, m)' \/ HeldByOthers(d, m)
    <2>1. InHands(m)' <=> Mine(d, m)' \/ HeldByOthers(d, m)'
      BY DEF Mine, InHands, Holds, HeldByOthers
    <2> QED BY <2>1, OthersKeep DEF Held
  <1>3. CASE DrainStart(d) \/ DrainEnd(d)
    <2>1. (Queued(m)' <=> Queued(m)) /\ ~Mine(d, m) /\ ~Mine(d, m)'
      BY <1>3 DEF DrainStart, DrainEnd, Turn, TypeOK, Queued, Holds, Mine
    <2> QED BY <1>1, <1>2, <2>1
  <1>4. CASE Dequeue(d)
    <2>1. ready # <<>> /\ ready' = Tail(ready)
      BY <1>4 DEF Dequeue
    <2>2. ~Mine(d, m) /\ (Mine(d, m)' <=> Head(ready).item = m)
      BY <1>4 DEF Dequeue, Turn, TypeOK, Holds, Mine
    <2>3. Queued(m) <=> Queued(m)' \/ Head(ready).item = m
      BY <2>1, QueuedTail
    <2> QED BY <1>1, <1>2, <2>2, <2>3
  <1>5. CASE ReplayUnknown(d) \/ ReplaySucceeds(d)
    <2>1. (Queued(m)' <=> Queued(m)) /\ ~Mine(d, m)'
      BY <1>5 DEF ReplayUnknown, ReplaySucceeds, Queued, Turn, TypeOK, Holds, Mine
    <2> QED BY <1>1, <1>2, <1>5, <2>1 DEF Mine
  <1>6. CASE ReplayTransient(d) \/ ReplayRefused(d)
    <2>1. (Queued(m)' <=> Queued(m)) /\ (Mine(d, m)' <=> Mine(d, m))
      BY <1>6 DEF ReplayTransient, ReplayRefused, Queued, Turn, TypeOK, Holds, Mine
    <2> QED BY <1>1, <1>2, <2>1
  <1>7. CASE ReplayRequeue(d)
    <2>1. Holds(d) /\ job[d].item \in Items
      <3>1. Holds(d) /\ job[d] \in Descriptor
        BY <1>7 DEF ReplayRequeue, Turn, TypeOK, Holds
      <3> QED BY <3>1, DescriptorParts
    <2>2. Queued(m)' <=> Queued(m) \/ m = job[d].item
      BY <1>7, <2>1, FreshType, QueuedAppend DEF ReplayRequeue
    <2>3. Mine(d, m)' <=> Mine(d, m)
      BY <1>7 DEF ReplayRequeue, Turn, TypeOK, Holds, Mine
    <2>4. Mine(d, m) <=> m = job[d].item
      BY <2>1 DEF Mine
    <2> QED BY <1>1, <1>2, <2>2, <2>3, <2>4
  <1>8. CASE MarkFailed(d)
    <2> DEFINE again == [item |-> job[d].item, attempts |-> job[d].attempts + 1]
    <2>1. Holds(d) /\ job[d].item \in Items /\ job[d].attempts \in Nat
      <3>1. Holds(d) /\ job[d] \in Descriptor
        BY <1>8 DEF MarkFailed, Turn, TypeOK, Holds
      <3> QED BY <3>1, DescriptorParts
    <2>2. ~Mine(d, m)' /\ (Mine(d, m) <=> m = job[d].item)
      BY <1>8, <2>1 DEF MarkFailed, Turn, TypeOK, Holds, Mine
    <2>3. CASE job[d].attempts + 1 >= MaxAttempts
      <3>1. dead' = dead \union {job[d].item} /\ ready' = ready
        BY <1>8, <2>3 DEF MarkFailed
      <3>2. Queued(m)' <=> Queued(m)
        BY <3>1 DEF Queued
      <3> QED BY <1>1, <1>2, <1>8, <2>1, <2>2, <3>1, <3>2
    <2>4. CASE job[d].attempts + 1 < MaxAttempts
      <3>1. ready' = Append(ready, again)
        BY <1>8, <2>1, <2>4, ConstantsAssumption DEF MarkFailed
      <3>2. again \in Descriptor
        BY <2>1, <2>4, ConstantsAssumption DEF Descriptor
      <3>3. Queued(m)' <=> Queued(m) \/ m = job[d].item
        BY <3>1, <3>2, QueuedAppend
      <3> QED BY <1>1, <1>2, <2>2, <3>3
    <2> QED BY <2>1, <2>3, <2>4, ConstantsAssumption
  <1> QED BY <1>3, <1>4, <1>5, <1>6, <1>7, <1>8 DEF DrainStep

(* Only the death of a run loses anything, and what it loses is known.      *)
LEMMA HeldDies ==
  ASSUME TypeOK, NEW d \in Drains, DrainDies(d), NEW m \in Items
  PROVE  Held(m) \/ m \in lost <=> Held(m)' \/ m \in lost'
  <1>1. Held(m) <=> Queued(m) \/ Mine(d, m) \/ HeldByOthers(d, m)
    BY HandsSplit DEF Held
  <1>2. Held(m)' <=> Queued(m)' \/ Mine(d, m)' \/ HeldByOthers(d, m)'
    BY DEF Held, InHands, Mine, Holds, HeldByOthers
  <1>3. /\ \A e \in Drains : e # d => drain'[e] = drain[e]
        /\ drain'[d] = "idle" /\ UNCHANGED <<ready, job>>
    BY DEF TypeOK, DrainDies
  <1>4. (Queued(m)' <=> Queued(m)) /\ (HeldByOthers(d, m)' <=> HeldByOthers(d, m))
    BY <1>3 DEF Queued, HeldByOthers, Holds
  <1>5. ~Mine(d, m)' /\ (m \in lost' <=> m \in lost \/ Mine(d, m))
    BY <1>3 DEF DrainDies, Mine, Holds
  <1> QED BY <1>1, <1>2, <1>4, <1>5

LEMMA KeptStep ==
  ASSUME TypeOK, DescriptorsKept, [Next]_vars
  PROVE  DescriptorsKept'
  <1> USE ConstantsAssumption
  <1> SUFFICES ASSUME NEW m \in Messages, Deferred(m)',
                      m \notin effected' \union dead' \union lost'
               PROVE  Held(m)'
    BY DEF DescriptorsKept
  <1>0. m \in Items /\ m \notin Pieces
    BY DEF Items
  <1>1. CASE UNCHANGED vars
    BY <1>1 DEF vars, drainVars, DescriptorsKept, Deferred, Held, Queued, InHands, Holds
  <1>2. ASSUME NEW o \in Items, Inline(o) PROVE Held(m)'
    <2>1. CASE Deferred(m)
      <3>1. Held(m)
        BY <1>2, <2>1
        DEF DescriptorsKept, Inline, InlineSucceeds, InlineRefused, InlineTransient,
            Transient, InlineRequeue, InlineHandover, InlineDies
      <3> QED BY <1>0, <1>2, <3>1, HeldInline
    <2>2. CASE ~Deferred(m)
      <3>1. InlineRequeue(o) /\ m = o
        BY <1>0, <1>2, <2>2
        DEF TypeOK, Deferred, At, Inline, InlineSucceeds, InlineRefused, InlineTransient,
            InlineRequeue, InlineHandover, InlineDies
      <3>2. Queued(m)'
        BY <3>1, FreshType, QueuedAppend DEF InlineRequeue
      <3> QED BY <3>2 DEF Held
    <2> QED BY <2>1, <2>2
  <1>3. ASSUME NEW d \in Drains, DrainStep(d) PROVE Held(m)'
    <2>1. UNCHANGED <<inline, lost>> /\ effected \subseteq effected' /\ dead \subseteq dead'
      BY <1>3
      DEF DrainStep, DrainStart, DrainEnd, Dequeue, ReplayUnknown, ReplaySucceeds,
          ReplayTransient, ReplayRefused, ReplayRequeue, MarkFailed, Transient
    <2>2. Held(m)
      BY <2>1 DEF DescriptorsKept, Deferred
    <2>3. CASE (ReplaySucceeds(d) \/ ReplayUnknown(d)) /\ job[d].item = m
      BY <1>0, <2>3 DEF ReplaySucceeds, ReplayUnknown
    <2>4. CASE ~((ReplaySucceeds(d) \/ ReplayUnknown(d)) /\ job[d].item = m)
      BY <1>0, <1>3, <2>2, <2>4, HeldDrain DEF Mine
    <2> QED BY <2>3, <2>4
  <1>4. ASSUME NEW d \in Drains, DrainDies(d) PROVE Held(m)'
    <2>1. UNCHANGED <<inline, effected, dead>> /\ lost \subseteq lost'
      BY <1>4 DEF DrainDies
    <2>2. Held(m)
      BY <2>1 DEF DescriptorsKept, Deferred
    <2> QED BY <1>0, <1>4, <2>2, HeldDies
  <1> QED BY <1>1, <1>2, <1>3, <1>4 DEF Next

(* Whatever delete was handed to the queue is done, parked, still held by   *)
(* the list or by a run, or was in the hands of a run that died: for any    *)
(* number of overlapping drains, with sends in the same queue.              *)
THEOREM NothingForgotten == Spec => []DescriptorsKept
  <1>1. Init => DescriptorsKept
    BY DEF Init, DescriptorsKept, Deferred, Items
  <1> QED BY <1>1, KeptStep, TypeInit, TypeStep, PTL DEF Spec

-----------------------------------------------------------------------------
(* 4. The abstract queue                                                    *)

(* Only a delete fails a replay: what a run gives back or parks is one.     *)
OnlyDeletesFail ==
    \A d \in Drains : drain[d] \in {"requeue", "fail"} => job[d].item \in Messages

LEMMA OnlyDeletesFailStep ==
  ASSUME TypeOK, OnlyDeletesFail, [Next]_vars
  PROVE  OnlyDeletesFail'
  <1>1. CASE UNCHANGED vars
    BY <1>1 DEF vars, drainVars, OnlyDeletesFail
  <1>2. ASSUME NEW o \in Items, Inline(o) PROVE OnlyDeletesFail'
    BY <1>2
    DEF OnlyDeletesFail, Inline, InlineSucceeds, InlineRefused, InlineTransient,
        InlineRequeue, InlineHandover, InlineDies, drainVars
  <1>3. ASSUME NEW d \in Drains, DrainStep(d) \/ DrainDies(d) PROVE OnlyDeletesFail'
    <2>1. \A e \in Drains : e # d => drain'[e] = drain[e] /\ job'[e] = job[e]
      BY <1>3
      DEF TypeOK, DrainStep, Turn, DrainStart, DrainEnd, Dequeue, ReplayUnknown,
          ReplaySucceeds, ReplayTransient, ReplayRefused, ReplayRequeue, MarkFailed,
          DrainDies
    <2>2. drain'[d] \in {"requeue", "fail"} => job'[d].item \in Messages
      BY <1>3
      DEF OnlyDeletesFail, TypeOK, DrainStep, Turn, DrainStart, DrainEnd, Dequeue,
          ReplayUnknown, ReplaySucceeds, ReplayTransient, ReplayRefused, ReplayRequeue,
          MarkFailed, DrainDies
    <2> QED BY <2>1, <2>2 DEF OnlyDeletesFail
  <1> QED BY <1>1, <1>2, <1>3 DEF Next

(* Every step of the queue is a step of DeferredDeletes, or none: Lifecycle *)
(* may abstract the queue by it.  Sends do not show; a run that dies leaves *)
(* what it held owed for good.                                              *)
LEMMA DeletesStep ==
  ASSUME TypeOK, OnlyDeletesFail, [Next]_vars
  PROVE  [Deletes!Next]_<<Messages \ effected,
                          {o \in Messages : Held(o) \/ o \in lost}, dead>>
  <1> DEFINE live == Messages \ effected
             owed == {o \in Messages : Held(o) \/ o \in lost}
  <1> USE ConstantsAssumption
      DEF Deletes!Next, Deletes!Delete, Deletes!Defer, Deletes!Deliver, Deletes!GiveUp
  <1>0. Messages \subseteq Items
    BY DEF Items
  <1> SUFFICES \/ UNCHANGED <<live, owed, dead>>
               \/ \E m \in Messages :
                     \/ live' = live \ {m} /\ UNCHANGED <<owed, dead>>
                     \/ /\ live' \in {live, live \ {m}}
                        /\ owed' = owed \union {m}
                        /\ UNCHANGED dead
                     \/ /\ m \in owed
                        /\ live' = live \ {m}
                        /\ owed' \in {owed, owed \ {m}}
                        /\ UNCHANGED dead
                     \/ /\ m \in owed
                        /\ dead' = dead \union {m}
                        /\ owed' \in {owed, owed \ {m}}
                        /\ UNCHANGED live
    OBVIOUS
  <1> HIDE DEF Deletes!Next, Deletes!Delete, Deletes!Defer, Deletes!Deliver, Deletes!GiveUp
  <1>1. CASE UNCHANGED vars
    BY <1>1 DEF vars, drainVars, Held, Queued, InHands, Holds
  <1>2. ASSUME NEW o \in Items, Inline(o), UNCHANGED ready
        PROVE  \/ UNCHANGED <<live, owed, dead>>
               \/ o \in Messages /\ live' = live \ {o} /\ UNCHANGED <<owed, dead>>
    <2>1. \A m \in Items : Held(m)' <=> Held(m)
      BY <1>2, HeldInline
    <2>2. UNCHANGED <<dead, lost>> /\ effected' \in {effected, effected \union {o}}
      BY <1>2
      DEF Inline, InlineSucceeds, InlineRefused, InlineTransient, InlineRequeue,
          InlineHandover, InlineDies, Transient
    <2>3. UNCHANGED owed
      BY <1>0, <2>1, <2>2
    <2>4. CASE o \in Messages
      BY <2>2, <2>3, <2>4
    <2>5. CASE o \notin Messages
      BY <2>2, <2>3, <2>5
    <2> QED BY <2>4, <2>5
  <1>3. ASSUME NEW o \in Items, Inline(o), ready' # ready
        PROVE  /\ UNCHANGED <<live, dead>>
               /\ \/ UNCHANGED owed
                  \/ o \in Messages /\ owed' = owed \union {o}
    <2>1. \A m \in Items : Held(m)' <=> Held(m) \/ m = o
      BY <1>3, HeldInline
    <2>2. UNCHANGED <<effected, dead, lost>>
      BY <1>3
      DEF Inline, InlineSucceeds, InlineRefused, InlineTransient, InlineRequeue,
          InlineHandover, InlineDies
    <2>3. CASE o \in Messages
      BY <1>0, <2>1, <2>2, <2>3
    <2>4. CASE o \notin Messages
      BY <1>0, <2>1, <2>2, <2>4
    <2> QED BY <2>2, <2>3, <2>4
  <1>4. ASSUME NEW d \in Drains, DrainStep(d), ~Holds(d) \/ job[d].item \notin Messages
        PROVE  UNCHANGED <<live, owed, dead>>
    <2>1. \A m \in Messages : Held(m)' <=> Held(m)
      BY <1>0, <1>4, HeldDrain DEF Mine
    <2>2. UNCHANGED lost
      BY <1>4
      DEF DrainStep, DrainStart, DrainEnd, Dequeue, ReplayUnknown, ReplaySucceeds,
          ReplayTransient, ReplayRefused, ReplayRequeue, MarkFailed
    <2>3. UNCHANGED <<live, dead>>
      BY <1>4
      DEF DrainStep, DrainStart, DrainEnd, Dequeue, ReplayUnknown, ReplaySucceeds,
          ReplayTransient, ReplayRefused, ReplayRequeue, MarkFailed, Turn, Holds,
          OnlyDeletesFail
    <2> QED BY <2>1, <2>2, <2>3
  <1>5. ASSUME NEW d \in Drains, DrainStep(d), Holds(d),
               NEW m \in Messages, m = job[d].item
        PROVE  /\ m \in owed
               /\ \/ UNCHANGED <<live, owed, dead>>
                  \/ live' = live \ {m} /\ owed' \in {owed, owed \ {m}} /\ UNCHANGED dead
                  \/ /\ dead' = dead \union {m}
                     /\ owed' \in {owed, owed \ {m}}
                     /\ UNCHANGED live
    <2>1. Held(m)
      BY <1>5 DEF Held, InHands
    <2>2. \A x \in Messages : (x # m => (Held(x)' <=> Held(x))) /\ (Held(x)' => Held(x))
      BY <1>0, <1>5, HeldDrain DEF Mine
    <2>0. UNCHANGED lost
      BY <1>5
      DEF DrainStep, DrainStart, DrainEnd, Dequeue, ReplayUnknown, ReplaySucceeds,
          ReplayTransient, ReplayRefused, ReplayRequeue, MarkFailed
    <2>3. m \in owed /\ owed' \in {owed, owed \ {m}}
      BY <2>0, <2>1, <2>2
    <2>4. ~ReplayUnknown(d)
      BY <1>5 DEF ReplayUnknown
    <2>5. CASE ReplaySucceeds(d)
      BY <1>5, <2>3, <2>5 DEF ReplaySucceeds
    <2>6. CASE ReplayTransient(d) \/ ReplayRefused(d) \/ ReplayRequeue(d)
      <3>1. ~ReplaySucceeds(d) /\ ~MarkFailed(d)
        BY <2>6
        DEF ReplayTransient, ReplayRefused, ReplayRequeue, ReplaySucceeds, MarkFailed,
            Turn, TypeOK
      <3>2. Held(m)'
        BY <1>0, <1>5, <2>1, <2>4, <3>1, HeldDrain
      <3>3. UNCHANGED owed
        BY <2>0, <2>2, <2>1, <3>2
      <3>4. UNCHANGED dead /\ effected' \in {effected, effected \union {m}}
        BY <1>5, <2>6 DEF ReplayTransient, ReplayRefused, ReplayRequeue, Transient
      <3> QED BY <2>3, <3>3, <3>4
    <2>7. CASE MarkFailed(d)
      <3>1. UNCHANGED live
        BY <2>7 DEF MarkFailed
      <3>2. CASE dead' = dead \union {m}
        BY <2>3, <3>1, <3>2
      <3>3. CASE dead' # dead \union {m}
        <4>1. UNCHANGED dead
          BY <1>5, <2>7, <3>3 DEF MarkFailed
        <4>2. ~ReplaySucceeds(d)
          BY <2>7 DEF MarkFailed, ReplaySucceeds, Turn, TypeOK
        <4>3. Held(m)'
          BY <1>0, <1>5, <2>1, <2>4, <3>3, <4>2, HeldDrain
        <4>4. UNCHANGED owed
          BY <2>0, <2>2, <2>1, <4>3
        <4> QED BY <2>3, <3>1, <4>1, <4>4
      <3> QED BY <3>2, <3>3
    <2>8. ~DrainStart(d) /\ ~DrainEnd(d) /\ ~Dequeue(d)
      BY <1>5 DEF Holds, DrainStart, DrainEnd, Dequeue, Turn
    <2> QED BY <1>5, <2>4, <2>5, <2>6, <2>7, <2>8 DEF DrainStep
  <1>6. ASSUME NEW d \in Drains, DrainDies(d) PROVE UNCHANGED <<live, owed, dead>>
    <2>1. \A m \in Messages : Held(m) \/ m \in lost <=> Held(m)' \/ m \in lost'
      BY <1>0, <1>6, HeldDies
    <2>2. UNCHANGED <<effected, dead>>
      BY <1>6 DEF DrainDies
    <2> QED BY <2>1, <2>2
  <1> QED BY <1>1, <1>2, <1>3, <1>4, <1>5, <1>6 DEF Next

(* The queue implements the promise Lifecycle relies on.                    *)
THEOREM DeletesImplemented == Spec => ImplementsDeletes
  <1>1. Init => OnlyDeletesFail
    BY DEF Init, OnlyDeletesFail
  <1>2. Init => Deletes!Init
    BY DEF Init, Deletes!Init, Held, Queued, InHands, Holds
  <1> QED
    BY <1>1, <1>2, OnlyDeletesFailStep, DeletesStep, TypeInit, TypeStep, PTL
    DEF Spec, ImplementsDeletes, Deletes!Spec
=============================================================================
