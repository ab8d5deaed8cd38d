--------------------------- MODULE RateLimitProofs ---------------------------
(****************************************************************************)
(* Proofs about RateLimit.  What makes the limit hold is that a sorted set  *)
(* forgets nothing too early: an action recorded less than a window minus a *)
(* delay ago is still in it, because every script was stamped at most a     *)
(* delay before it ran (so none trims more than it may) and the key's own   *)
(* expiry is a whole window after the last action.                          *)
(****************************************************************************)
EXTENDS RateLimit, FiniteSetTheorems, TLAPS

(* What a sorted set holds was granted, and both are finite.                *)
LogIsGranted ==
    \A k \in Buckets :
        /\ IsFiniteSet(log[k]) /\ IsFiniteSet(grants[k])
        /\ log[k] \subseteq grants[k]

(* A script runs within a delay of its stamp.                               *)
Prompt == \A c \in Calls : stage[c] = "sent" => now <= stamp[c] + MaxDelay

(* When the actions were recorded, and what is still known of them.         *)
Kept ==
    \A k \in Buckets : \A e \in grants[k] :
        /\ e.at <= now
        /\ e.at <= e.score + MaxDelay
        /\ e.at + Window[k] <= expires[k]
        /\ e.at > now - Window[k] + MaxDelay => e \in log[k]

(* A call that is still allowed has spent from the buckets it has passed.   *)
PaidSoFar ==
    \A c \in Calls :
        /\ stage[c] # "done" => outcome[c] = "none"
        /\ allowed[c] => \A i \in 1 .. (step[c] - 1) :
              \E e \in grants[Needs[c][i]] : e.by = c
        /\ outcome[c] = "acted" => Paid(c)

IInv == TypeOK /\ LogIsGranted /\ Prompt /\ Kept /\ LimitKept /\ PaidSoFar

-----------------------------------------------------------------------------
(* Types.                                                                   *)

LEMMA NeedsType ==
    ASSUME TypeOK, NEW c \in Calls
    PROVE  /\ Needs[c] \in Seq(Buckets)
           /\ step[c] \in DOMAIN Needs[c]
           /\ Bucket(c) \in Buckets
           /\ Window[Bucket(c)] \in Nat \ {0}
           /\ Limit[Bucket(c)] \in Nat \ {0}
  BY RateAssumption, SMTT(30) DEF TypeOK, Bucket

LEMMA ScriptType ==
    ASSUME TypeOK, NEW c \in Calls, Script(c)
    PROVE  /\ log' \in [Buckets -> SUBSET Members]
           /\ expires' \in [Buckets -> Nat]
           /\ grants' \in [Buckets -> SUBSET Members]
<1> DEFINE e == [by |-> c, score |-> stamp[c], at |-> now]
<1>1. e \in Members
  BY RateAssumption DEF TypeOK, Members
<1>0. Bucket(c) \in Buckets /\ Window[Bucket(c)] \in Nat
  BY NeedsType
<1>2. Trimmed(Bucket(c), stamp[c]) \subseteq Members
  BY <1>0 DEF TypeOK, Trimmed, Alive
<1>3. now + Window[Bucket(c)] \in Nat
  BY <1>0, RateAssumption, SMTT(30) DEF TypeOK
<1> HIDE DEF e
<1>4. CASE Room(Bucket(c), stamp[c])
  <2>1. /\ log' = [log EXCEPT ![Bucket(c)] = Trimmed(Bucket(c), stamp[c]) \union {e}]
        /\ expires' = [expires EXCEPT ![Bucket(c)] = now + Window[Bucket(c)]]
        /\ grants' = [grants EXCEPT ![Bucket(c)] = @ \union {e}]
    BY <1>4 DEF Script, e
  <2> QED BY <1>0, <1>1, <1>2, <1>3, <2>1 DEF TypeOK
<1>5. CASE ~Room(Bucket(c), stamp[c])
  BY <1>0, <1>2, <1>5 DEF TypeOK, Script
<1> QED BY <1>4, <1>5

LEMMA TypeStep == TypeOK /\ [Next]_vars => TypeOK'
<1> SUFFICES ASSUME TypeOK, [Next]_vars PROVE TypeOK'
  OBVIOUS
<1> USE RateAssumption
<1>1. CASE Tick
  BY <1>1 DEF Tick, TypeOK
<1>2. ASSUME NEW c \in Calls, ReadClock(c) PROVE TypeOK'
  BY <1>2 DEF ReadClock, TypeOK
<1>3. ASSUME NEW c \in Calls, Checked(c) PROVE TypeOK'
  <2>1. UNCHANGED <<now, stamp>>
    BY <1>3 DEF Checked
  <2>2. /\ log' \in [Buckets -> SUBSET Members]
        /\ expires' \in [Buckets -> Nat]
        /\ grants' \in [Buckets -> SUBSET Members]
    BY <1>3, ScriptType DEF Checked
  <2>3. Verdict(c) \in BOOLEAN /\ allowed' \in [Calls -> BOOLEAN]
    BY <1>3 DEF Checked, Verdict, TypeOK
  <2>4. /\ stage' \in [Calls -> {"before", "sent", "done"}]
        /\ outcome' \in [Calls -> {"none", "acted", "open", "refused", "queued", "failed"}]
    BY <1>3 DEF Checked, TypeOK, Denied
  <2>5. step' \in [Calls -> Nat \ {0}] /\ \A b \in Calls : step'[b] <= Len(Needs[b])
    <3>1. Needs[c] \in Seq(Buckets)
      BY NeedsType
    <3>2. CASE More(c)
      <4>1. step' = [step EXCEPT ![c] = step[c] + 1] /\ step[c] < Len(Needs[c])
        BY <1>3, <3>2 DEF Checked, More
      <4>2. Len(Needs[c]) \in Nat /\ step[c] \in Nat
        BY <3>1 DEF TypeOK
      <4> HIDE RateAssumption
      <4> QED BY <4>1, <4>2 DEF TypeOK
    <3>3. CASE ~More(c)
      BY <1>3, <3>3 DEF Checked, TypeOK
    <3> QED BY <3>2, <3>3
  <2> QED BY <2>1, <2>2, <2>3, <2>4, <2>5 DEF TypeOK
<1>4. ASSUME NEW c \in Calls, Unavailable(c) PROVE TypeOK'
  <2>1. /\ log' \in [Buckets -> SUBSET Members]
        /\ expires' \in [Buckets -> Nat]
        /\ grants' \in [Buckets -> SUBSET Members]
    BY <1>4, ScriptType DEF Unavailable, TypeOK
  <2> QED BY <1>4, <2>1 DEF Unavailable, TypeOK
<1>5. CASE UNCHANGED vars
  BY <1>5 DEF vars, TypeOK
<1> QED BY <1>1, <1>2, <1>3, <1>4, <1>5 DEF Next

-----------------------------------------------------------------------------
(* The script.                                                              *)

LEMMA TrimmedIsGranted ==
    ASSUME TypeOK, LogIsGranted, NEW k \in Buckets, NEW time \in Int
    PROVE  /\ IsFiniteSet(Trimmed(k, time))
           /\ Trimmed(k, time) \subseteq {e \in grants[k] : e.score > time - Window[k]}
           /\ IsFiniteSet({e \in grants[k] : e.score > time - Window[k]})
<1>1. Trimmed(k, time) \subseteq log[k]
  BY DEF Trimmed, Alive
<1>2. log[k] \subseteq grants[k] /\ IsFiniteSet(log[k]) /\ IsFiniteSet(grants[k])
  BY DEF LogIsGranted
<1>3. {e \in grants[k] : e.score > time - Window[k]} \subseteq grants[k]
  OBVIOUS
<1>4. IsFiniteSet(Trimmed(k, time))
      /\ IsFiniteSet({e \in grants[k] : e.score > time - Window[k]})
  BY <1>1, <1>2, <1>3, FS_Subset
<1> QED BY <1>1, <1>2, <1>4 DEF Trimmed

(* Trimming drops nothing recorded less than a window minus a delay ago.    *)
LEMMA TrimKeeps ==
    ASSUME IInv, NEW c \in Calls, stage[c] = "sent", NEW e \in grants[Bucket(c)],
           e.at > now - Window[Bucket(c)] + MaxDelay
    PROVE  e \in Trimmed(Bucket(c), stamp[c])
<1> DEFINE k == Bucket(c)
<1>1. k \in Buckets /\ Window[k] \in Nat
  BY NeedsType DEF IInv
<1>2. e \in Members
  BY <1>1 DEF IInv, TypeOK
<1>3. e \in log[k] /\ e.at + Window[k] <= expires[k] /\ e.at <= e.score + MaxDelay
  BY <1>1 DEF IInv, Kept
<1>4. now \in Nat /\ stamp[c] \in Nat /\ stamp[c] <= now /\ MaxDelay \in Nat /\ expires[k] \in Nat
  BY <1>1, RateAssumption DEF IInv, TypeOK
<1>5. e.at \in Nat /\ e.score \in Nat
  BY <1>2 DEF Members
<1>6. now <= expires[k] /\ e.score > stamp[c] - Window[k]
  BY <1>1, <1>3, <1>4, <1>5
<1> QED BY <1>3, <1>6 DEF Trimmed, Alive

(* What the script does to the parts of the invariant.                      *)
LEMMA ScriptKeeps ==
    ASSUME IInv, NEW c \in Calls, stage[c] = "sent", Script(c), now' = now
    PROVE  LogIsGranted' /\ Kept' /\ LimitKept'
<1> DEFINE k == Bucket(c)
           e == [by |-> c, score |-> stamp[c], at |-> now]
           left == Trimmed(k, stamp[c])
<1>1. /\ k \in Buckets /\ Window[k] \in Nat \ {0} /\ Limit[k] \in Nat \ {0}
      /\ now \in Nat /\ stamp[c] \in Nat /\ stamp[c] <= now /\ MaxDelay \in Nat
      /\ now <= stamp[c] + MaxDelay
      /\ expires[k] \in Nat
  BY NeedsType, RateAssumption, SMTT(30) DEF IInv, TypeOK, Prompt
<1>2. IsFiniteSet(left) /\ left \subseteq grants[k] /\ IsFiniteSet(grants[k])
  <2>1. TypeOK /\ LogIsGranted /\ IsFiniteSet(grants[k])
    BY <1>1 DEF IInv, LogIsGranted
  <2>2. stamp[c] \in Int
    BY <1>1
  <2> QED BY <1>1, <2>1, <2>2, TrimmedIsGranted
<1>3. \A f \in grants[k] : f.at > now - Window[k] + MaxDelay => f \in left
  BY TrimKeeps
<1>4. \A f \in grants[k] : /\ f.at \in Nat /\ f.score \in Nat /\ f.at <= now
                           /\ f.at <= f.score + MaxDelay
                           /\ f.at + Window[k] <= expires[k]
  BY <1>1 DEF IInv, TypeOK, Members, Kept
<1>5. log \in [Buckets -> SUBSET Members] /\ grants \in [Buckets -> SUBSET Members]
      /\ expires \in [Buckets -> Nat]
  BY DEF IInv, TypeOK
<1>6. CASE ~Room(k, stamp[c])
  <2>1. log' = [log EXCEPT ![k] = left] /\ UNCHANGED <<expires, grants>>
    BY <1>6 DEF Script
  <2>2. LogIsGranted'
    BY <1>1, <1>2, <1>5, <2>1 DEF IInv, LogIsGranted
  <2>3. Kept'
    BY <1>1, <1>3, <1>5, <2>1 DEF IInv, Kept
  <2>4. LimitKept'
    BY <2>1 DEF IInv, LimitKept, Within
  <2> QED BY <2>2, <2>3, <2>4
<1>7. CASE Room(k, stamp[c])
  <2>1. /\ log' = [log EXCEPT ![k] = left \union {e}]
        /\ expires' = [expires EXCEPT ![k] = now + Window[k]]
        /\ grants' = [grants EXCEPT ![k] = @ \union {e}]
    BY <1>7 DEF Script
  <2>2. /\ log'[k] = left \union {e} /\ expires'[k] = now + Window[k]
        /\ grants'[k] = grants[k] \union {e}
        /\ \A b \in Buckets : b # k => /\ log'[b] = log[b] /\ expires'[b] = expires[b]
                                       /\ grants'[b] = grants[b]
    BY <1>1, <1>5, <2>1
  <2>3. LogIsGranted'
    <3>1. IsFiniteSet(left \union {e}) /\ IsFiniteSet(grants[k] \union {e})
      BY <1>2, FS_AddElement
    <3> QED BY <1>2, <2>2, <3>1 DEF IInv, LogIsGranted
  <2>4. Kept'
    <3>1. ASSUME NEW b \in Buckets, NEW f \in grants'[b]
          PROVE  /\ f.at <= now /\ f.at <= f.score + MaxDelay
                 /\ f.at + Window[b] <= expires'[b]
                 /\ f.at > now - Window[b] + MaxDelay => f \in log'[b]
      <4>1. CASE b # k
        BY <2>2, <3>1, <4>1 DEF IInv, Kept
      <4>2. CASE b = k /\ f = e
        BY <1>1, <2>2, <4>2
      <4>3. CASE b = k /\ f \in grants[k]
        BY <1>1, <1>3, <1>4, <2>2, <4>3
      <4> QED BY <2>2, <3>1, <4>1, <4>2, <4>3
    <3> QED BY <3>1 DEF Kept
  <2>5. LimitKept'
    <3> SUFFICES ASSUME NEW b \in Buckets, NEW time \in 0 .. now
                 PROVE  Cardinality(Within(b, time, Window[b] - MaxDelay)') <= Limit[b]
      BY DEF LimitKept, Within
    <3> DEFINE span == Window[b] - MaxDelay
    <3>1. CASE b # k
      <4>1. Within(b, time, span)' = Within(b, time, span)
        BY <2>2, <3>1 DEF Within
      <4> QED BY <4>1 DEF IInv, LimitKept
    <3>2. CASE b = k /\ time < now
      <4>1. Within(b, time, span)' = Within(b, time, span)
        BY <1>1, <2>2, <3>2 DEF Within
      <4> QED BY <4>1 DEF IInv, LimitKept
    <3>3. CASE b = k /\ time = now
      <4>1. Within(b, time, span)' \subseteq left \union {e}
        BY <1>1, <1>3, <1>4, <2>2, <3>3 DEF Within
      <4>2. /\ Cardinality(left) < Limit[k] /\ Cardinality(left) \in Nat
        BY <1>2, <1>7, FS_CardinalityType DEF Room
      <4>3. /\ IsFiniteSet(left \union {e})
            /\ Cardinality(left \union {e}) <= Cardinality(left) + 1
            /\ Cardinality(left \union {e}) \in Nat
        <5>1. /\ IsFiniteSet(left \union {e})
              /\ Cardinality(left \union {e}) =
                   IF e \in left THEN Cardinality(left) ELSE Cardinality(left) + 1
          BY <1>2, FS_AddElement
        <5> HIDE DEF left, e
        <5> QED BY <4>2, <5>1
      <4>4. /\ Cardinality(Within(b, time, span)') <= Cardinality(left \union {e})
            /\ Cardinality(Within(b, time, span)') \in Nat
        BY <4>1, <4>3, FS_Subset, FS_CardinalityType
      <4> QED BY <1>1, <3>3, <4>2, <4>3, <4>4
    <3> QED BY <1>1, <3>1, <3>2, <3>3
  <2> QED BY <2>3, <2>4, <2>5
<1> QED BY <1>6, <1>7

(* The script only adds to what was granted, and a verdict is a grant.      *)
LEMMA ScriptGrants ==
    ASSUME TypeOK, NEW c \in Calls, Script(c)
    PROVE  /\ \A k \in Buckets : grants[k] \subseteq grants'[k]
           /\ Verdict(c) => \E e \in grants'[Bucket(c)] : e.by = c
<1>1. Bucket(c) \in Buckets /\ grants \in [Buckets -> SUBSET Members]
  BY NeedsType DEF TypeOK
<1>2. CASE Room(Bucket(c), stamp[c])
  <2> DEFINE e == [by |-> c, score |-> stamp[c], at |-> now]
  <2>1. grants' = [grants EXCEPT ![Bucket(c)] = @ \union {e}]
    BY <1>2 DEF Script
  <2>2. e \in grants'[Bucket(c)] /\ e.by = c
    BY <1>1, <2>1
  <2> QED BY <1>1, <2>1, <2>2
<1>3. CASE ~Room(Bucket(c), stamp[c])
  BY <1>3 DEF Script, Verdict
<1> QED BY <1>2, <1>3

-----------------------------------------------------------------------------
(* The invariant.                                                           *)

LEMMA InitIInv == Init => IInv
<1> SUFFICES ASSUME Init PROVE IInv
  OBVIOUS
<1> USE RateAssumption DEF Init
<1>1. TypeOK
  BY DEF TypeOK
<1>2. LogIsGranted /\ Prompt /\ Kept
  BY FS_EmptySet DEF LogIsGranted, Prompt, Kept
<1>3. LimitKept
  <2>1. \A k \in Buckets, time \in 0 .. now : Within(k, time, Window[k] - MaxDelay) = {}
    BY DEF Within
  <2>2. \A k \in Buckets : 0 <= Limit[k]
    OBVIOUS
  <2> QED BY <2>1, <2>2, FS_EmptySet DEF LimitKept
<1>4. PaidSoFar
  BY DEF PaidSoFar
<1> QED BY <1>1, <1>2, <1>3, <1>4 DEF IInv

LEMMA TickKeeps == ASSUME IInv, Tick PROVE LogIsGranted' /\ Prompt' /\ Kept' /\ LimitKept'
<1>1. /\ now' = now + 1 /\ now \in Nat /\ MaxDelay \in Nat /\ Window \in [Buckets -> Nat \ {0}]
      /\ UNCHANGED <<log, expires, stage, stamp, grants>>
  BY RateAssumption DEF Tick, IInv, TypeOK
<1>2. LogIsGranted'
  BY <1>1 DEF IInv, LogIsGranted
<1>3. Prompt'
  BY <1>1 DEF Tick, IInv, Prompt, TypeOK
<1>4. \A k \in Buckets : \A e \in grants[k] : e.at \in Nat
  BY DEF IInv, TypeOK, Members
<1>5. Kept'
  BY <1>1, <1>4 DEF IInv, Kept
<1>6. LimitKept'
  <2> SUFFICES ASSUME NEW k \in Buckets, NEW time \in 0 .. now'
               PROVE  Cardinality(Within(k, time, Window[k] - MaxDelay)) <= Limit[k]
    BY <1>1 DEF LimitKept, Within
  <2> DEFINE span == Window[k] - MaxDelay
  <2>1. CASE time \in 0 .. now
    BY <2>1 DEF IInv, LimitKept
  <2>2. CASE time = now + 1
    <3>1. Within(k, time, span) \subseteq Within(k, now, span)
      BY <1>1, <1>4, <2>2 DEF Within, IInv, Kept
    <3>2. Within(k, now, span) \subseteq grants[k] /\ IsFiniteSet(grants[k])
      BY DEF Within, IInv, LogIsGranted
    <3>3. /\ Cardinality(Within(k, time, span)) <= Cardinality(Within(k, now, span))
          /\ Cardinality(Within(k, time, span)) \in Nat
          /\ Cardinality(Within(k, now, span)) \in Nat
      BY <3>1, <3>2, FS_Subset, FS_CardinalityType
    <3>4. Cardinality(Within(k, now, span)) <= Limit[k] /\ Limit[k] \in Nat
      BY <1>1, RateAssumption DEF IInv, LimitKept
    <3> QED BY <3>3, <3>4
  <2> QED BY <1>1, <2>1, <2>2
<1> QED BY <1>2, <1>3, <1>5, <1>6

LEMMA CheckedPaid == ASSUME IInv, NEW c \in Calls, Checked(c) PROVE PaidSoFar'
<1>1. /\ TypeOK /\ Script(c) /\ stage[c] = "sent" /\ UNCHANGED <<now, stamp>>
      /\ allowed' = [allowed EXCEPT ![c] = Verdict(c)]
  BY DEF IInv, Checked
<1>2. /\ \A k \in Buckets : grants[k] \subseteq grants'[k]
      /\ Verdict(c) => \E e \in grants'[Bucket(c)] : e.by = c
  BY <1>1, ScriptGrants
<1>3. \A b \in Calls : Needs[b] \in Seq(Buckets)
  BY RateAssumption
<1>4. ASSUME NEW b \in Calls, b # c
      PROVE  /\ stage'[b] # "done" => outcome'[b] = "none"
             /\ allowed'[b] => \A i \in 1 .. (step'[b] - 1) :
                   \E e \in grants'[Needs[b][i]] : e.by = b
             /\ outcome'[b] = "acted" => Paid(b)'
  <2>1. /\ stage'[b] = stage[b] /\ outcome'[b] = outcome[b]
        /\ allowed'[b] = allowed[b] /\ step'[b] = step[b]
    BY <1>1, <1>4 DEF Checked, TypeOK
  <2>2. \A i \in 1 .. (step[b] - 1) : Needs[b][i] \in Buckets
    BY <1>1, <1>3 DEF TypeOK
  <2>3. \A i \in DOMAIN Needs[b] : Needs[b][i] \in Buckets
    BY <1>3
  <2> QED BY <1>2, <2>1, <2>2, <2>3 DEF IInv, PaidSoFar, Paid
<1>5. Verdict(c) => \A i \in 1 .. step[c] : \E e \in grants'[Needs[c][i]] : e.by = c
  <2> SUFFICES ASSUME Verdict(c), NEW i \in 1 .. step[c]
               PROVE  \E e \in grants'[Needs[c][i]] : e.by = c
    OBVIOUS
  <2>1. CASE i = step[c]
    BY <1>2, <2>1 DEF Bucket
  <2>2. CASE i # step[c]
    <3>1. step[c] \in Nat /\ i \in 1 .. (step[c] - 1) /\ Needs[c][i] \in Buckets
      BY <1>1, <1>3, <2>2 DEF TypeOK
    <3>2. \E e \in grants[Needs[c][i]] : e.by = c
      BY <3>1 DEF Verdict, IInv, PaidSoFar
    <3> QED BY <1>2, <3>1, <3>2
  <2> QED BY <2>1, <2>2
<1>6. CASE More(c)
  <2>1. /\ step'[c] = step[c] + 1 /\ stage'[c] = "before" /\ outcome'[c] = outcome[c]
        /\ allowed'[c] = Verdict(c) /\ step[c] \in Nat
    BY <1>1, <1>6 DEF Checked, TypeOK
  <2>2. outcome[c] = "none"
    BY <1>1 DEF IInv, PaidSoFar
  <2> QED BY <1>4, <1>5, <2>1, <2>2 DEF PaidSoFar
<1>7. CASE ~More(c)
  <2>1. /\ step'[c] = step[c] /\ stage'[c] = "done" /\ allowed'[c] = Verdict(c)
        /\ outcome'[c] = (IF Verdict(c) THEN "acted" ELSE Denied(c))
        /\ step[c] = Len(Needs[c]) /\ step[c] \in Nat /\ Needs[c] \in Seq(Buckets)
    BY <1>1, <1>3, <1>7 DEF Checked, TypeOK, More
  <2>2. outcome'[c] = "acted" => Paid(c)'
    BY <1>5, <2>1 DEF Paid, Denied
  <2> QED BY <1>4, <1>5, <2>1, <2>2 DEF PaidSoFar
<1> QED BY <1>6, <1>7

LEMMA UnavailablePaid == ASSUME IInv, NEW c \in Calls, Unavailable(c) PROVE PaidSoFar'
<1>1. /\ TypeOK /\ stage[c] = "sent" /\ UNCHANGED <<step, allowed>>
      /\ outcome' = [outcome EXCEPT ![c] = IF Kind[c] = "request" THEN "open" ELSE "failed"]
      /\ stage' = [stage EXCEPT ![c] = "done"]
  BY DEF IInv, Unavailable
<1>2. \A k \in Buckets : grants[k] \subseteq grants'[k]
  BY <1>1, ScriptGrants DEF Unavailable
<1>3. \A b \in Calls : \A i \in 1 .. Len(Needs[b]) : Needs[b][i] \in Buckets
  BY RateAssumption
<1>4. ASSUME NEW b \in Calls
      PROVE  /\ stage'[b] # "done" => outcome'[b] = "none"
             /\ allowed'[b] => \A i \in 1 .. (step'[b] - 1) :
                   \E e \in grants'[Needs[b][i]] : e.by = b
             /\ outcome'[b] = "acted" => Paid(b)'
  <2>1. \A i \in 1 .. (step[b] - 1) : i \in 1 .. Len(Needs[b])
    BY <1>1, RateAssumption, SMTT(30) DEF TypeOK
  <2>2. allowed[b] => \A i \in 1 .. (step[b] - 1) : \E e \in grants'[Needs[b][i]] : e.by = b
    BY <1>2, <1>3, <2>1 DEF IInv, PaidSoFar
  <2>3. Paid(b) => Paid(b)'
    <3>1. DOMAIN Needs[b] = 1 .. Len(Needs[b])
      BY RateAssumption
    <3> QED BY <1>2, <1>3, <3>1 DEF Paid
  <2>4. outcome'[b] # outcome[b] => outcome'[b] \in {"open", "failed"}
    BY <1>1 DEF TypeOK
  <2>5. stage'[b] # "done" => b # c /\ stage[b] # "done"
    BY <1>1 DEF TypeOK
  <2>6. b # c => outcome'[b] = outcome[b]
    BY <1>1 DEF TypeOK
  <2> QED BY <1>1, <2>2, <2>3, <2>4, <2>5, <2>6 DEF IInv, PaidSoFar
<1> QED BY <1>4 DEF PaidSoFar

LEMMA NextIInv == IInv /\ [Next]_vars => IInv'
<1> SUFFICES ASSUME IInv, [Next]_vars PROVE IInv'
  OBVIOUS
<1>1. TypeOK /\ TypeOK'
  BY TypeStep DEF IInv
<1>2. CASE Tick
  <2>1. PaidSoFar'
    BY <1>2 DEF Tick, IInv, PaidSoFar, Paid
  <2> QED BY <1>1, <1>2, <2>1, TickKeeps DEF IInv
<1>3. ASSUME NEW c \in Calls, ReadClock(c) PROVE IInv'
  <2>1. UNCHANGED <<now, log, expires, grants, step, allowed, outcome>>
    BY <1>3 DEF ReadClock
  <2>2. Prompt'
    BY <1>1, <1>3, RateAssumption DEF ReadClock, IInv, Prompt, TypeOK
  <2>3. PaidSoFar'
    BY <1>1, <1>3 DEF ReadClock, IInv, PaidSoFar, Paid, TypeOK
  <2> QED BY <1>1, <2>1, <2>2, <2>3 DEF IInv, LogIsGranted, Kept, LimitKept, Within
<1>4. ASSUME NEW c \in Calls, Checked(c) PROVE IInv'
  <2>1. LogIsGranted' /\ Kept' /\ LimitKept'
    BY <1>4, ScriptKeeps DEF Checked
  <2>2. \A b \in Calls : stage'[b] = "sent" => stage[b] = "sent"
    BY <1>1, <1>4 DEF Checked, TypeOK
  <2>3. Prompt'
    BY <1>4, <2>2 DEF Checked, IInv, Prompt
  <2> QED BY <1>1, <1>4, <2>1, <2>3, CheckedPaid DEF IInv
<1>5. ASSUME NEW c \in Calls, Unavailable(c) PROVE IInv'
  <2>1. LogIsGranted' /\ Kept' /\ LimitKept'
    <3>1. CASE Script(c)
      BY <1>5, <3>1, ScriptKeeps DEF Unavailable
    <3>2. CASE UNCHANGED <<log, expires, grants>>
      BY <1>5, <3>2 DEF Unavailable, IInv, LogIsGranted, Kept, LimitKept, Within
    <3> QED BY <1>5, <3>1, <3>2 DEF Unavailable
  <2>2. Prompt'
    BY <1>1, <1>5 DEF Unavailable, IInv, Prompt, TypeOK
  <2> QED BY <1>1, <1>5, <2>1, <2>2, UnavailablePaid DEF IInv
<1>6. CASE UNCHANGED vars
  BY <1>1, <1>6 DEF vars, IInv, LogIsGranted, Prompt, Kept, LimitKept, Within, PaidSoFar, Paid
<1> QED BY <1>2, <1>3, <1>4, <1>5, <1>6 DEF Next

(* Types, for any calls, buckets, limits, windows and delay.                *)
THEOREM TypeCorrect == Spec => []TypeOK
<1>1. Init => TypeOK
  BY InitIInv DEF IInv
<1> QED BY <1>1, TypeStep, PTL DEF Spec

THEOREM Invariance == Spec => []IInv
  BY InitIInv, NextIInv, PTL DEF Spec

(* The limiter and the transport keep the budgets, whatever the limits, the *)
(* windows, the delay and the number of callers.                            *)
THEOREM BudgetsKept == Spec => []BudgetKept
<1>1. IInv => BudgetKept
  BY DEF IInv, BudgetKept, PaidSoFar
<1> QED BY <1>1, Invariance, PTL

(* Nobody is refused unless the limit was really used up.                   *)
THEOREM RefusalsJustified == Spec => RefusedOnlyWhenFull
<1> DEFINE A == \A c \in Calls : allowed[c] /\ ~allowed'[c] =>
                  LET k == Bucket(c) IN
                  Cardinality({e \in grants[k] : e.score > stamp[c] - Window[k]}) >= Limit[k]
<1>1. IInv /\ [Next]_vars => [A]_vars
  <2> SUFFICES ASSUME IInv, Next, NEW c \in Calls, allowed[c], ~allowed'[c]
               PROVE  Cardinality({e \in grants[Bucket(c)] :
                          e.score > stamp[c] - Window[Bucket(c)]}) >= Limit[Bucket(c)]
    BY Zenon
  <2> DEFINE k == Bucket(c)
             recent == {e \in grants[k] : e.score > stamp[c] - Window[k]}
  <2>1. k \in Buckets /\ Limit[k] \in Nat /\ stamp[c] \in Int
    BY NeedsType DEF IInv, TypeOK
  <2>2. ~Room(k, stamp[c])
    <3>1. PICK b \in Calls : Checked(b)
      BY DEF Next, Tick, ReadClock, Unavailable
    <3>2. allowed' = [allowed EXCEPT ![b] = Verdict(b)] /\ allowed \in [Calls -> BOOLEAN]
      BY <3>1 DEF Checked, IInv, TypeOK
    <3>3. b = c
      BY <3>2
    <3> QED BY <3>2, <3>3 DEF Verdict
  <2>3. /\ IsFiniteSet(recent) /\ Trimmed(k, stamp[c]) \subseteq recent
        /\ IsFiniteSet(Trimmed(k, stamp[c]))
    BY <2>1, TrimmedIsGranted DEF IInv
  <2>4. /\ Cardinality(Trimmed(k, stamp[c])) <= Cardinality(recent)
        /\ Cardinality(recent) \in Nat /\ Cardinality(Trimmed(k, stamp[c])) \in Nat
    BY <2>3, FS_Subset, FS_CardinalityType
  <2> QED BY <2>1, <2>2, <2>4 DEF Room
<1>2. RefusedOnlyWhenFull <=> [][A]_vars
  BY PTL DEF RefusedOnlyWhenFull
<1> QED BY <1>1, <1>2, Invariance, PTL DEF Spec
=============================================================================
