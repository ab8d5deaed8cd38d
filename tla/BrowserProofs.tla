---------------------------- MODULE BrowserProofs ----------------------------
(****************************************************************************)
(* Proofs about Browser: the slots of the transfer panel are exact, and one *)
(* exchange of tokens at a time is under way, whatever the number of calls, *)
(* transfers, slots and retries.  The slot invariant is inductive by itself *)
(* (every step of it is a Pump); the session's needs that the token held was *)
(* not exchanged before, unless the answer was lost.                        *)
(****************************************************************************)
EXTENDS Browser, FiniteSetTheorems, TLAPS

SlotInv == SlotTypeOK /\ SlotsExact

TokenInv ==
    /\ SessionTypeOK /\ SingleFlight
    /\ refresh \in 0 .. issued /\ (refresh \in used => refresh \in lost)
    /\ \A f \in flights : f.token <= issued
    /\ inFlight = Nobody => flights = {}

CallInv ==
    /\ phase \in [Callers -> {"idle", "prepared", "renewing first", "begun", "renewing",
                              "ready", "sent", "renewing again", "ready again",
                              "sent again", "succeeded", "failed"}]
    /\ bearer \in [Callers -> Pairs]
    /\ attempt \in [Callers -> 0 .. Retries]

IInv == SlotInv /\ TokenInv /\ CallInv /\ access \in 0 .. issued

-----------------------------------------------------------------------------
(* The slots.                                                               *)

(* A sequence without repetitions has as many elements as its length.       *)
LEMMA DistinctCount ==
    ASSUME NEW q \in Seq(Jobs), NEW n \in 0 .. Len(q),
           \A i, k \in DOMAIN q : q[i] = q[k] => i = k
    PROVE  LET S == {q[i] : i \in 1 .. n} IN IsFiniteSet(S) /\ Cardinality(S) = n
<1> DEFINE S == {q[i] : i \in 1 .. n}
           f == [i \in 1 .. n |-> q[i]]
<1>0. n \in Nat /\ \A i \in 1 .. n : i \in DOMAIN q
  OBVIOUS
<1>1. f \in [1 .. n -> S]
  OBVIOUS
<1>2. \A i, k \in 1 .. n : f[i] = f[k] => i = k
  BY <1>0
<1>3. \A s \in S : \E i \in 1 .. n : f[i] = s
  OBVIOUS
<1>4. f \in Bijection(1 .. n, S)
  BY <1>1, <1>2, <1>3 DEF Bijection, Injection, Surjection, IsInjective
<1>5. IsFiniteSet(1 .. n) /\ Cardinality(1 .. n) = n
  BY <1>0, FS_Interval
<1> QED BY <1>4, <1>5, FS_Bijection DEF ExistsBijection

(* Pump, from a queue, a count and statuses that agree.                     *)
LEMMA PumpExact ==
    ASSUME NEW q \in Seq(Jobs), NEW n \in 0 .. MaxConcurrent,
           NEW s \in [Jobs -> {"new", "queued", "running", "done", "error"}],
           n = Cardinality({j \in Jobs : s[j] = "running"}),
           \A j \in Jobs : s[j] = "queued" <=> \E i \in DOMAIN q : q[i] = j,
           \A i, k \in DOMAIN q : q[i] = q[k] => i = k,
           Pump(q, n, s)
    PROVE  SlotInv'
<1> USE TransfersAssumption
<1> DEFINE free == MaxConcurrent - n
           taken == IF free < Len(q) THEN free ELSE Len(q)
           First == {q[i] : i \in 1 .. taken}
           Before == {j \in Jobs : s[j] = "running"}
<1>1. /\ waiting' = SubSeq(q, taken + 1, Len(q))
      /\ active' = n + taken
      /\ status' = [j \in Jobs |->
              IF \E i \in 1 .. taken : q[i] = j THEN "running" ELSE s[j]]
  BY DEF Pump
<1>2. /\ taken \in 0 .. Len(q) /\ n + taken \in 0 .. MaxConcurrent
      /\ taken < Len(q) => n + taken = MaxConcurrent
      /\ Len(q) \in Nat /\ DOMAIN q = 1 .. Len(q) /\ taken \in Nat
  OBVIOUS
<1> HIDE DEF taken, free
<1>3. /\ waiting' \in Seq(Jobs) /\ Len(waiting') = Len(q) - taken
      /\ DOMAIN waiting' = 1 .. (Len(q) - taken)
      /\ \A i \in 1 .. (Len(q) - taken) : waiting'[i] = q[taken + i]
  BY <1>1, <1>2, SMTT(30)
<1>4. SlotTypeOK'
  BY <1>1, <1>2, <1>3 DEF SlotTypeOK
<1>5. active' = Cardinality(Running')
  <2>1. IsFiniteSet(First) /\ Cardinality(First) = taken
    BY <1>2, DistinctCount
  <2>2. First \subseteq Jobs
    BY <1>2
  <2>3. Running' = Before \union First
    BY <1>1, <2>2 DEF Running
  <2>4. Before \intersect First = {}
    <3> SUFFICES ASSUME NEW i \in 1 .. taken, s[q[i]] = "running" PROVE FALSE
      OBVIOUS
    <3>1. i \in DOMAIN q /\ q[i] \in Jobs
      BY <1>2
    <3>2. s[q[i]] = "queued"
      BY <3>1
    <3> QED BY <3>2
  <2>5. IsFiniteSet(Before)
    <3>1. Before \subseteq Jobs
      OBVIOUS
    <3> QED BY <3>1, FS_Subset
  <2> HIDE DEF Before, First
  <2>6. Cardinality(Before \union First) = n + taken - Cardinality({})
    BY <2>1, <2>4, <2>5, FS_Union DEF Before
  <2> QED BY <1>1, <1>2, <2>3, <2>6, FS_EmptySet
<1>6. \A j \in Jobs : status'[j] = "queued" <=> \E i \in DOMAIN waiting' : waiting'[i] = j
  <2> SUFFICES ASSUME NEW j \in Jobs
               PROVE  status'[j] = "queued" <=> \E i \in DOMAIN waiting' : waiting'[i] = j
    OBVIOUS
  <2>1. ASSUME status'[j] = "queued" PROVE \E i \in DOMAIN waiting' : waiting'[i] = j
    <3>1. s[j] = "queued" /\ \A i \in 1 .. taken : q[i] # j
      BY <1>1, <2>1
    <3>2. PICK i \in 1 .. Len(q) : q[i] = j
      BY <1>2, <3>1
    <3>3. i - taken \in 1 .. (Len(q) - taken) /\ i = taken + (i - taken)
      BY <1>2, <3>1, <3>2
    <3>4. waiting'[i - taken] = q[i]
      BY <1>3, <3>3
    <3> QED BY <1>3, <3>2, <3>3, <3>4
  <2>2. ASSUME NEW i \in DOMAIN waiting', waiting'[i] = j PROVE status'[j] = "queued"
    <3>1. taken + i \in DOMAIN q /\ q[taken + i] = j /\ i \in Nat /\ i > 0
      BY <1>2, <1>3, <2>2
    <3>2. \A k \in 1 .. taken : q[k] # j
      BY <1>2, <3>1, SMTT(30)
    <3> QED BY <1>1, <3>1, <3>2
  <2> QED BY <2>1, <2>2
<1>7. \A i, k \in DOMAIN waiting' : waiting'[i] = waiting'[k] => i = k
  <2> SUFFICES ASSUME NEW i \in DOMAIN waiting', NEW k \in DOMAIN waiting',
                      waiting'[i] = waiting'[k]
               PROVE  i = k
    OBVIOUS
  <2>1. taken + i \in DOMAIN q /\ taken + k \in DOMAIN q /\ i \in Nat /\ k \in Nat
    BY <1>2, <1>3, SMTT(30)
  <2>2. q[taken + i] = q[taken + k]
    BY <1>3
  <2>3. taken + i = taken + k
    BY <2>1, <2>2
  <2> QED BY <1>2, <2>1, <2>3
<1>8. waiting' # <<>> => active' = MaxConcurrent
  <2>1. waiting' # <<>> => Len(waiting') # 0
    BY <1>3
  <2>2. Len(waiting') # 0 => taken < Len(q)
    <3>1. Len(waiting') = Len(q) - taken
      BY <1>3
    <3>2. taken \in Nat /\ Len(q) \in Nat /\ taken <= Len(q)
      BY <1>2
    <3> QED BY <3>1, <3>2
  <2> QED BY <1>1, <1>2, <2>1, <2>2
<1> QED BY <1>4, <1>5, <1>6, <1>7, <1>8 DEF SlotInv, SlotsExact

LEMMA EnqueueExact == ASSUME SlotInv, NEW j \in Jobs, Enqueue(j) PROVE SlotInv'
<1> DEFINE q == Append(waiting, j)
           s == [status EXCEPT ![j] = "queued"]
<1>1. /\ waiting \in Seq(Jobs) /\ active \in 0 .. MaxConcurrent /\ status[j] = "new"
      /\ status \in [Jobs -> {"new", "queued", "running", "done", "error"}]
  BY DEF SlotInv, SlotTypeOK, Enqueue
<1>2. /\ q \in Seq(Jobs) /\ DOMAIN q = 1 .. (Len(waiting) + 1) /\ q[Len(waiting) + 1] = j
      /\ \A i \in 1 .. Len(waiting) : q[i] = waiting[i]
      /\ Len(waiting) \in Nat /\ DOMAIN waiting = 1 .. Len(waiting)
  BY <1>1
<1>3. s \in [Jobs -> {"new", "queued", "running", "done", "error"}]
  BY <1>1
<1>4. {i \in Jobs : s[i] = "running"} = Running
  BY <1>1 DEF Running
<1>5. \A i \in DOMAIN waiting : waiting[i] # j
  BY <1>1 DEF SlotInv, SlotsExact
<1>6. \A i \in Jobs : s[i] = "queued" <=> \E k \in DOMAIN q : q[k] = i
  <2>1. \A i \in Jobs : i # j => (s[i] = "queued" <=> \E k \in DOMAIN waiting : waiting[k] = i)
    BY <1>1 DEF SlotInv, SlotsExact
  <2>2. \A i \in Jobs : i # j =>
           ((\E k \in DOMAIN waiting : waiting[k] = i) <=> \E k \in DOMAIN q : q[k] = i)
    BY <1>2
  <2>3. s[j] = "queued" /\ \E k \in DOMAIN q : q[k] = j
    BY <1>1, <1>2
  <2> QED BY <2>1, <2>2, <2>3
<1>7. \A i, k \in DOMAIN q : q[i] = q[k] => i = k
  <2>1. \A i, k \in DOMAIN waiting : waiting[i] = waiting[k] => i = k
    BY DEF SlotInv, SlotsExact
  <2> QED BY <1>2, <1>5, <2>1
<1>8. Pump(q, active, s)
  BY DEF Enqueue
<1>9. active = Cardinality({i \in Jobs : s[i] = "running"})
  BY <1>4 DEF SlotInv, SlotsExact
<1> HIDE DEF q, s
<1> QED BY <1>1, <1>2, <1>3, <1>6, <1>7, <1>8, <1>9, PumpExact

LEMMA FinishExact ==
    ASSUME SlotInv, NEW j \in Jobs, NEW result \in {"done", "error"}, Finish(j, result)
    PROVE  SlotInv'
<1> DEFINE s == [status EXCEPT ![j] = result]
<1> USE TransfersAssumption
<1>1. /\ waiting \in Seq(Jobs) /\ active \in 0 .. MaxConcurrent /\ status[j] = "running"
      /\ status \in [Jobs -> {"new", "queued", "running", "done", "error"}]
  BY DEF SlotInv, SlotTypeOK, Finish
<1>2. s \in [Jobs -> {"new", "queued", "running", "done", "error"}]
  BY <1>1
<1>3. {i \in Jobs : s[i] = "running"} = Running \ {j} /\ j \in Running
  BY <1>1 DEF Running
<1>4. IsFiniteSet(Running)
  <2>1. Running \subseteq Jobs
    BY DEF Running
  <2> QED BY <2>1, FS_Subset
<1>5. /\ Cardinality(Running \ {j}) = Cardinality(Running) - 1
      /\ Cardinality(Running \ {j}) \in Nat
  BY <1>3, <1>4, FS_RemoveElement, FS_CardinalityType
<1>6. active = Cardinality(Running)
  BY DEF SlotInv, SlotsExact
<1>7. active - 1 \in 0 .. MaxConcurrent
      /\ active - 1 = Cardinality({i \in Jobs : s[i] = "running"})
  <2>1. active - 1 \in 0 .. MaxConcurrent
    BY <1>1, <1>5, <1>6
  <2> QED BY <1>3, <1>5, <1>6, <2>1
<1>8. \A i \in Jobs : s[i] = "queued" <=> \E k \in DOMAIN waiting : waiting[k] = i
  BY <1>1 DEF SlotInv, SlotsExact
<1>9. Pump(waiting, active - 1, s)
  BY DEF Finish
<1>10. \A i, k \in DOMAIN waiting : waiting[i] = waiting[k] => i = k
  BY DEF SlotInv, SlotsExact
<1> HIDE DEF s
<1> QED BY <1>1, <1>2, <1>7, <1>8, <1>9, <1>10, PumpExact

LEMMA ClearExact == ASSUME SlotInv, Clear PROVE SlotInv'
<1>1. /\ waiting' = waiting /\ active' = active /\ status' = [j \in Jobs |-> "new"]
      /\ \A j \in Jobs : status[j] \notin {"queued", "running"}
  BY DEF Clear
<1>2. Running = {} /\ Running' = {}
  BY <1>1 DEF Running
<1>3. \A j \in Jobs : ~\E i \in DOMAIN waiting : waiting[i] = j
  BY <1>1 DEF SlotInv, SlotsExact
<1> QED BY <1>1, <1>2, <1>3 DEF SlotInv, SlotTypeOK, SlotsExact

-----------------------------------------------------------------------------
(* The tokens.                                                              *)

LEMMA StartExchangeKeeps ==
    ASSUME TokenInv, NEW c \in Callers, StartExchange(c) PROVE TokenInv'
<1>1. /\ inFlight = Nobody /\ refresh # 0 /\ flights = {} /\ inFlight' = c
      /\ flights' = {[by |-> c, token |-> refresh]}
      /\ UNCHANGED <<access, refresh, issued, good, lapsed, used, lost>>
      /\ refresh \in Pairs /\ issued \in Pairs
  BY DEF StartExchange, TokenInv, SessionTypeOK
<1>2. refresh \in 1 .. MaxPairs /\ refresh <= issued /\ (refresh \in used => refresh \in lost)
  BY <1>1, SessionAssumption DEF TokenInv, Pairs
<1>3. c # Nobody
  BY SessionAssumption
<1>4. SessionTypeOK'
  BY <1>1, <1>2 DEF TokenInv, SessionTypeOK
<1>5. SingleFlight'
  BY <1>1, <1>2 DEF SingleFlight
<1> QED BY <1>1, <1>2, <1>3, <1>4, <1>5 DEF TokenInv

(* Once an exchange settles there is none under way.                        *)
LEMMA SettledKeeps ==
    ASSUME TokenInv, NEW f \in flights, Settled(f)
    PROVE  flights' = {} /\ inFlight' = Nobody
  BY DEF TokenInv, SingleFlight, Settled

LEMMA UsedUpKeeps ==
    ASSUME TokenInv, NEW f \in flights, UsedUp(f)
    PROVE  /\ issued' = issued + 1 /\ issued' \in Pairs /\ issued \in Nat
           /\ good' \subseteq 1 .. issued' /\ f.token \in 1 .. issued
           /\ used' = used \union {f.token}
<1>1. issued \in 0 .. MaxPairs /\ good \subseteq 1 .. issued /\ MaxPairs \in Nat
  BY SessionAssumption DEF TokenInv, SessionTypeOK, Pairs
<1>2. /\ issued < MaxPairs /\ issued' = issued + 1 /\ f.token \in good
      /\ good' = (good \ {f.token}) \union {issued + 1}
  BY DEF UsedUp
<1>3. issued' \in Pairs /\ issued \in Nat /\ f.token \in 1 .. issued
  <2>1. f.token \in 1 .. issued
    BY <1>1, <1>2
  <2>2. issued \in Nat /\ issued + 1 \in 0 .. MaxPairs
    BY <1>1, <1>2
  <2> QED BY <1>2, <2>1, <2>2 DEF Pairs
<1>4. \A t \in good' : t \in 1 .. issued'
  <2>1. 1 .. issued \subseteq 1 .. (issued + 1) /\ issued + 1 \in 1 .. (issued + 1)
    BY <1>3
  <2> QED BY <1>1, <1>2, <2>1
<1>5. used' = used \union {f.token}
  BY DEF UsedUp
<1> QED BY <1>2, <1>3, <1>4, <1>5

LEMMA ExchangedKeeps ==
    ASSUME TokenInv, NEW f \in flights, Exchanged(f) PROVE TokenInv' /\ access' \in 0 .. issued'
<1>1. /\ flights' = {} /\ inFlight' = Nobody
      /\ access' = issued + 1 /\ refresh' = issued + 1
      /\ lapsed' = lapsed /\ lost' = lost
  BY SettledKeeps DEF Exchanged
<1>2. /\ issued' = issued + 1 /\ issued' \in Pairs /\ issued \in Nat
      /\ good' \subseteq 1 .. issued' /\ f.token \in 1 .. issued
           /\ used' = used \union {f.token}
  BY UsedUpKeeps DEF Exchanged
<1>3. /\ used \subseteq 1 .. issued /\ lost \subseteq used /\ lapsed \in 0 .. issued
      /\ used' = used \union {f.token}
  BY UsedUpKeeps DEF TokenInv, SessionTypeOK, Exchanged
<1>4. SessionTypeOK'
  <2>1. access' \in Pairs /\ refresh' \in Pairs /\ issued' \in Pairs
    BY <1>1, <1>2
  <2>2. used' \subseteq 1 .. issued' /\ lost' \subseteq used' /\ lapsed' \in 0 .. issued'
    <3>1. 1 .. issued \subseteq 1 .. issued' /\ 0 .. issued \subseteq 0 .. issued'
      BY <1>2
    <3> QED BY <1>1, <1>2, <1>3, <3>1
  <2>3. good' \subseteq 1 .. issued'
    BY <1>2
  <2> QED BY <1>1, <2>1, <2>2, <2>3 DEF SessionTypeOK
<1>5. refresh' \notin used'
  BY <1>1, <1>2, <1>3
<1> QED BY <1>1, <1>2, <1>4, <1>5 DEF TokenInv, SingleFlight

(* An exchange that fails, and does or does not cost the session.           *)
LEMMA FailedKeeps ==
    ASSUME TokenInv, access \in 0 .. issued, NEW f \in flights, Settled(f),
           Unanswered(f), lapsed' = lapsed,
           ClearSession \/ UNCHANGED <<access, refresh>>
    PROVE  TokenInv' /\ access' \in 0 .. issued'
<1>1. flights' = {} /\ inFlight' = Nobody
  BY SettledKeeps
<1>2. /\ issued' \in Pairs /\ issued \in Pairs /\ issued \in Nat /\ issued' \in Nat /\ issued' >= issued
      /\ good' \subseteq 1 .. issued'
  <2>1. issued \in Pairs /\ issued \in Nat /\ good \subseteq 1 .. issued
    BY SessionAssumption DEF TokenInv, SessionTypeOK, Pairs
  <2>2. CASE UsedUp(f)
    BY <2>1, <2>2, UsedUpKeeps
  <2>3. CASE UNCHANGED <<issued, good>>
    BY <2>1, <2>3
  <2> QED BY <2>2, <2>3 DEF Unanswered
<1>3. /\ used \subseteq 1 .. issued /\ lost \subseteq used
      /\ lapsed \in 0 .. issued /\ access \in Pairs
      /\ refresh \in Pairs /\ refresh \in 0 .. issued /\ (refresh \in used => refresh \in lost)
  BY DEF TokenInv, SessionTypeOK
<1>4. access' \in {0, access} /\ refresh' \in {0, refresh} /\ 0 \in Pairs
  BY SessionAssumption DEF ClearSession, Pairs
<1>5. /\ used' \subseteq 1 .. issued' /\ lost' \subseteq used'
      /\ refresh \in used' => refresh \in lost'
  <2>1. CASE UNCHANGED <<issued, good, used, lost>>
    BY <1>3, <2>1
  <2>2. CASE UsedUp(f) /\ lost' = lost \union {f.token}
    <3>1. used' = used \union {f.token} /\ f.token \in 1 .. issued
      BY <2>2, UsedUpKeeps
    <3>2. 1 .. issued \subseteq 1 .. issued'
      BY <1>2
    <3> QED BY <1>3, <2>2, <3>1, <3>2
  <2> QED BY <2>1, <2>2 DEF Unanswered
<1>6. SessionTypeOK'
  BY <1>1, <1>2, <1>3, <1>4, <1>5 DEF SessionTypeOK
<1>7. /\ refresh' \in 0 .. issued' /\ access' \in 0 .. issued'
      /\ refresh' \in used' => refresh' \in lost'
  <2>1. 0 \notin used'
    BY <1>2, <1>5
  <2> QED BY <1>2, <1>3, <1>4, <1>5, <2>1
<1> QED BY <1>1, <1>6, <1>7 DEF TokenInv, SingleFlight

(* What else may happen to the tokens: a login, the hour, a session that is *)
(* cleared, a logout at Supabase.                                           *)
LEMMA LoginKeeps == ASSUME TokenInv, Login PROVE TokenInv' /\ access' \in 0 .. issued'
<1>1. /\ issued' = issued + 1 /\ issued \in Nat /\ issued' \in Pairs
      /\ access' = issued + 1 /\ refresh' = issued + 1 /\ good' = good \union {issued + 1}
      /\ UNCHANGED <<inFlight, flights, lapsed, used, lost>>
      /\ good \subseteq 1 .. issued /\ lapsed \in 0 .. issued /\ used \subseteq 1 .. issued
  BY SessionAssumption DEF Login, TokenInv, SessionTypeOK, Pairs
<1>2. \A f \in flights : f.token <= issued' /\ f.token \in Nat
  BY <1>1 DEF TokenInv, SessionTypeOK
<1>3. SessionTypeOK'
  BY <1>1 DEF TokenInv, SessionTypeOK
<1> QED BY <1>1, <1>2, <1>3 DEF TokenInv, SingleFlight

LEMMA QuietKeeps ==
    ASSUME TokenInv, access \in 0 .. issued,
           UNCHANGED <<inFlight, flights, issued, used, lost>>,
           good' \subseteq good, lapsed' \in 0 .. issued,
           ClearSession \/ UNCHANGED <<access, refresh>>
    PROVE  TokenInv' /\ access' \in 0 .. issued'
<1>1. /\ access' \in {0, access} /\ refresh' \in {0, refresh} /\ 0 \in Pairs
      /\ issued \in Nat /\ access \in Pairs /\ refresh \in Pairs
  BY SessionAssumption DEF ClearSession, Pairs, TokenInv, SessionTypeOK
<1>2. SessionTypeOK'
  BY <1>1 DEF TokenInv, SessionTypeOK
<1>3. (refresh' \in used' => refresh' \in lost') /\ refresh' \in 0 .. issued' /\ access' \in 0 .. issued'
  <2>1. used \subseteq 1 .. issued
    BY DEF TokenInv, SessionTypeOK
  <2> QED BY <1>1, <2>1 DEF TokenInv
<1> QED BY <1>2, <1>3 DEF TokenInv, SingleFlight

LEMMA SameTokens ==
    ASSUME TokenInv, access \in 0 .. issued, UNCHANGED tokenVars
    PROVE  TokenInv' /\ access' \in 0 .. issued'
  BY DEF TokenInv, SessionTypeOK, SingleFlight, tokenVars

LEMMA ShareKeeps ==
    ASSUME TokenInv, access \in 0 .. issued, NEW c \in Callers, ShareExchange(c)
    PROVE  TokenInv' /\ access' \in 0 .. issued'
<1>1. CASE StartExchange(c)
  BY <1>1, StartExchangeKeeps DEF StartExchange
<1>2. CASE UNCHANGED tokenVars
  BY <1>2, SameTokens
<1> QED BY <1>1, <1>2 DEF ShareExchange

-----------------------------------------------------------------------------
(* The steps.                                                               *)

LEMMA SameSlots == ASSUME SlotInv, UNCHANGED slotVars PROVE SlotInv'
  BY DEF SlotInv, SlotTypeOK, SlotsExact, Running, slotVars

LEMMA StepKeeps ==
    ASSUME IInv, NEW c \in Callers, Begin(c) \/ CallStep(c) PROVE IInv'
<1> USE DEF IInv
<1>0. 0 \in Pairs /\ access \in Pairs /\ Retries \in Nat /\ 0 \in 0 .. Retries
  BY SessionAssumption, BrowserAssumption DEF TokenInv, SessionTypeOK, Pairs
<1>1. CASE Begin(c) \/ NoNeed(c)
  <2>1. CallInv' /\ UNCHANGED <<slotVars, tokenVars>>
    BY <1>1 DEF Begin, NoNeed, Goes, CallInv
  <2> QED BY <2>1, SameSlots, SameTokens
<1>2. CASE NeedsRefresh(c) \/ Unauthorized(c)
  <2>1. CallInv' /\ UNCHANGED slotVars /\ ShareExchange(c)
    BY <1>2 DEF NeedsRefresh, Unauthorized, Goes, Becomes, CallInv
  <2> QED BY <2>1, SameSlots, ShareKeeps
<1>3. CASE Send(c)
  <2>1. CallInv' /\ UNCHANGED <<slotVars, tokenVars>>
    BY <1>0, <1>3 DEF Send, Goes, CallInv
  <2> QED BY <2>1, SameSlots, SameTokens
<1>4. CASE Succeeds(c)
  <2>1. CallInv' /\ UNCHANGED slotVars
    BY <1>4 DEF Succeeds, Becomes, CallInv
  <2>2. CASE Kind[c] = "logout"
    <3>1. /\ UNCHANGED <<inFlight, flights, issued, lapsed, used, lost, access, refresh>>
          /\ good' \subseteq good /\ lapsed' \in 0 .. issued
      BY <1>4, <2>2 DEF Succeeds, TokenInv, SessionTypeOK
    <3> QED BY <2>1, <3>1, SameSlots, QuietKeeps
  <2>3. CASE Kind[c] # "logout"
    BY <1>4, <2>1, <2>3, SameSlots, SameTokens DEF Succeeds
  <2> QED BY <2>2, <2>3
<1>5. CASE FailsForNow(c)
  <2>1. UNCHANGED slotVars /\ bearer' = bearer
    BY <1>5 DEF FailsForNow
  <2>2. RetriesOf(c) \in Nat /\ RetriesOf(c) <= Retries
    BY <1>0 DEF RetriesOf
  <2>3. CallInv'
    <3>1. \/ attempt' = attempt
          \/ /\ attempt' = [attempt EXCEPT ![c] = attempt[c] + 1]
             /\ attempt[c] < RetriesOf(c)
      BY <1>5 DEF FailsForNow
    <3>2. attempt' \in [Callers -> 0 .. Retries]
      <4>1. attempt \in [Callers -> 0 .. Retries]
        BY DEF CallInv
      <4>2. attempt[c] < RetriesOf(c) => attempt[c] + 1 \in 0 .. Retries
        BY <1>0, <2>2, <4>1
      <4> QED BY <3>1, <4>1, <4>2
    <3>3. phase' = [phase EXCEPT ![c] = "ready"] \/ phase' = [phase EXCEPT ![c] = "failed"]
      BY <1>5 DEF FailsForNow, Becomes
    <3> QED BY <2>1, <3>2, <3>3 DEF CallInv
  <2>4. \/ UNCHANGED tokenVars
        \/ ClearSession /\ UNCHANGED <<inFlight, flights, issued, good, lapsed, used, lost>>
    BY <1>5 DEF FailsForNow
  <2>5. lapsed \in 0 .. issued
    BY DEF TokenInv, SessionTypeOK
  <2> QED BY <2>1, <2>3, <2>4, <2>5, SameSlots, SameTokens, QuietKeeps
<1>6. CASE Fails(c)
  <2>1. CallInv' /\ UNCHANGED <<slotVars, tokenVars>>
    BY <1>6 DEF Fails, Becomes, CallInv
  <2> QED BY <2>1, SameSlots, SameTokens
<1>7. CASE LosesSession(c)
  <2>1. /\ CallInv' /\ UNCHANGED slotVars /\ ClearSession
        /\ UNCHANGED <<inFlight, flights, issued, good, lapsed, used, lost>>
    BY <1>7 DEF LosesSession, Becomes, CallInv
  <2>2. lapsed \in 0 .. issued
    BY DEF TokenInv, SessionTypeOK
  <2> QED BY <2>1, <2>2, SameSlots, QuietKeeps
<1>8. CASE End(c)
  <2>1. CallInv'
    BY <1>0, <1>8 DEF End, Becomes, CallInv
  <2>2. SlotInv'
    BY <1>8, FinishExact, SameSlots DEF End
  <2>3. \/ UNCHANGED tokenVars
        \/ ClearSession /\ UNCHANGED <<inFlight, flights, issued, good, lapsed, used, lost>>
    BY <1>8 DEF End
  <2>4. lapsed \in 0 .. issued
    BY DEF TokenInv, SessionTypeOK
  <2> QED BY <2>1, <2>2, <2>3, <2>4, SameTokens, QuietKeeps
<1> QED BY <1>1, <1>2, <1>3, <1>4, <1>5, <1>6, <1>7, <1>8 DEF CallStep

LEMMA SettlingKeeps == ASSUME IInv, Renewed \/ NotRenewed PROVE IInv'
<1> USE DEF IInv
<1>1. PICK f \in flights :
          /\ Resume(f, "ready again") \/ Resume(f, "failed")
          /\ \/ Exchanged(f)
             \/ NotExchanged(f)
             \/ Settled(f) /\ Unanswered(f) /\ ClearSession /\ lapsed' = lapsed
  BY DEF Renewed, NotRenewed
<1>2. UNCHANGED <<slotVars, bearer, attempt>>
  BY DEF Renewed, NotRenewed
<1>3. CallInv'
  BY <1>1, <1>2 DEF Resume, GoesOn, Sharing, CallInv
<1>4. SlotInv'
  BY <1>2, SameSlots
<1>5. TokenInv' /\ access' \in 0 .. issued'
  <2>1. CASE Exchanged(f)
    BY <2>1, ExchangedKeeps
  <2>2. CASE NotExchanged(f)
    BY <2>2, FailedKeeps DEF NotExchanged
  <2>3. CASE Settled(f) /\ Unanswered(f) /\ ClearSession /\ lapsed' = lapsed
    BY <2>3, FailedKeeps
  <2> QED BY <1>1, <2>1, <2>2, <2>3
<1> QED BY <1>3, <1>4, <1>5

LEMMA InitIInv == Init => IInv
<1> SUFFICES ASSUME Init PROVE IInv
  OBVIOUS
<1> USE TransfersAssumption, SessionAssumption, BrowserAssumption
<1>1. SlotInv
  <2>1. Running = {}
    BY DEF Init, SlotInit, Running
  <2> QED BY <2>1, FS_EmptySet DEF Init, SlotInit, SlotInv, SlotTypeOK, SlotsExact
<1>2. TokenInv /\ access \in 0 .. issued
  BY DEF Init, SessionInit, TokenInv, SessionTypeOK, SingleFlight, Pairs
<1>3. CallInv
  BY DEF Init, CallInv, Pairs
<1> QED BY <1>1, <1>2, <1>3 DEF IInv

LEMMA NextIInv == IInv /\ [Next]_vars => IInv'
<1> SUFFICES ASSUME IInv, [Next]_vars PROVE IInv'
  OBVIOUS
<1>1. ASSUME NEW c \in Callers, Begin(c) \/ CallStep(c) PROVE IInv'
  BY <1>1, StepKeeps
<1>2. CASE Renewed \/ NotRenewed
  BY <1>2, SettlingKeeps
<1>3. CASE Login /\ UNCHANGED slotVars /\ Outside
  BY <1>3, LoginKeeps, SameSlots DEF IInv, Outside, CallInv
<1>4. CASE Lapse /\ UNCHANGED slotVars /\ Outside
  <2>1. /\ UNCHANGED <<access, refresh, inFlight, flights, issued, good, used, lost>>
        /\ good' \subseteq good /\ lapsed' \in 0 .. issued
    BY <1>4, SessionAssumption DEF Lapse, IInv, TokenInv, SessionTypeOK, Pairs
  <2> QED BY <1>4, <2>1, QuietKeeps, SameSlots DEF IInv, Outside, CallInv
<1>5. CASE Clear /\ UNCHANGED tokenVars /\ Outside
  BY <1>5, ClearExact, SameTokens DEF IInv, Outside, CallInv
<1>6. ASSUME NEW j \in Jobs, Enqueue(j) /\ UNCHANGED tokenVars /\ Outside PROVE IInv'
  BY <1>6, EnqueueExact, SameTokens DEF IInv, Outside, CallInv
<1>7. CASE UNCHANGED vars
  BY <1>7, SameSlots, SameTokens DEF IInv, vars, CallInv
<1> QED BY <1>1, <1>2, <1>3, <1>4, <1>5, <1>6, <1>7 DEF Next

LEMMA Invariance == Spec => []IInv
  BY InitIInv, NextIInv, PTL DEF Spec

(* Types, for any calls, transfers, slots, retries and logins.              *)
THEOREM TypeCorrect == Spec => []TypeOK
<1>1. IInv => TypeOK
  BY DEF IInv, SlotInv, TokenInv, CallInv, TypeOK
<1> QED BY <1>1, Invariance, PTL

(* No slot leaks and none is given twice, whatever happens to the session.  *)
THEOREM SlotsStayExact == Spec => []SlotsExact
<1>1. IInv => SlotsExact
  BY DEF IInv, SlotInv
<1> QED BY <1>1, Invariance, PTL

(* One exchange at a time; a token that has been exchanged is sent again    *)
(* only if the answer to its exchange was lost, and so never once the       *)
(* browser has been given its successor.                                    *)
THEOREM ExchangesSingle == Spec => []SingleFlight
<1>1. IInv => SingleFlight
  BY DEF IInv, TokenInv
<1> QED BY <1>1, Invariance, PTL
=============================================================================
