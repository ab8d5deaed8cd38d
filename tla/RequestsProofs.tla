---------------------------- MODULE RequestsProofs ----------------------------
(****************************************************************************)
(* Proofs about Requests, for any number of requests, keys, published sets, *)
(* clients and pools.  Of the keys: whoever fetches holds the lock, so what *)
(* it was sent is not older than what is cached, nor than its own arrival.  *)
(* Of the clients: each that is open is in one place only.  Then theorems   *)
(* about Accounts, for any number of users and logins.                      *)
(****************************************************************************)
EXTENDS Requests, Accounts, TLAPS

KeyInv ==
    /\ KeyTypeOK
    /\ \A r \in Requests : verify[r] \in {"fetching", "answered"} => Holds(r)
    /\ \A r \in Requests : verify[r] = "answered" =>
          answer[r] >= copied /\ answer[r] >= since[r]

-----------------------------------------------------------------------------
(* The keys.                                                                *)

LEMMA KeyTypes ==
    ASSUME KeyTypeOK
    PROVE  /\ version \in Nat /\ version \in 1 .. Len(Published) /\ Len(Published) \in Nat
           /\ copied \in Nat /\ copied <= version
           /\ \A r \in Requests : since[r] \in Nat /\ answer[r] \in Nat
                                  /\ since[r] <= version /\ answer[r] <= version
                                  /\ answer[r] >= 1 /\ since[r] >= 1
  BY KeyAssumption DEF KeyTypeOK

LEMMA TailType ==
    ASSUME NEW q \in Seq(Requests), q # <<>> PROVE Tail(q) \in Seq(Requests)
  OBVIOUS

LEMMA RotateKeeps == ASSUME KeyInv, Rotate PROVE KeyInv'
<1>1. /\ version' = version + 1 /\ version + 1 \in DOMAIN Published
      /\ UNCHANGED <<cache, copied, verify, since, queue, answer>>
  BY KeyTypes, KeyAssumption DEF Rotate, KeyInv
<1>2. KeyTypeOK'
  BY <1>1, KeyTypes DEF KeyInv, KeyTypeOK
<1> QED BY <1>1, <1>2 DEF KeyInv, Holds

(* A step of one request that leaves the lock's queue alone, or joins it,   *)
(* and does not begin a fetch.                                              *)
LEMMA JoinKeeps ==
    ASSUME KeyInv, NEW r \in Requests, verify[r] \notin {"fetching", "answered"},
           UNCHANGED <<version, cache, copied, answer>>,
           since' = since \/ since' = [since EXCEPT ![r] = version]
                          \/ since' = [since EXCEPT ![r] = 1],
           queue' = queue \/ queue' = Append(queue, r),
           NEW to \in {"idle", "lookup", "waiting", "verified"},
           verify' = [verify EXCEPT ![r] = to]
    PROVE  KeyInv'
<1>1. /\ queue \in Seq(Requests) /\ queue' \in Seq(Requests)
      /\ queue # <<>> => queue' # <<>> /\ Head(queue') = Head(queue)
  <2>1. queue \in Seq(Requests)
    BY DEF KeyInv, KeyTypeOK
  <2>2. CASE queue' = queue
    BY <2>1, <2>2
  <2>3. CASE queue' = Append(queue, r)
    <3>1. /\ Append(queue, r) \in Seq(Requests) /\ Append(queue, r) # <<>>
          /\ queue # <<>> => Append(queue, r)[1] = queue[1]
      BY <2>1
    <3> QED BY <2>1, <2>3, <3>1
  <2> QED BY <2>2, <2>3
<1>2. since' \in [Requests -> 1 .. version]
  <2>1. 1 \in 1 .. version /\ version \in 1 .. version
    BY KeyTypes DEF KeyInv
  <2> QED BY <2>1 DEF KeyInv, KeyTypeOK
<1>3. KeyTypeOK'
  BY <1>1, <1>2 DEF KeyInv, KeyTypeOK
<1>4. \A q \in Requests : verify'[q] \in {"fetching", "answered"} =>
         q # r /\ verify[q] = verify'[q]
  BY DEF KeyInv, KeyTypeOK
<1>5. \A q \in Requests : q # r => since'[q] = since[q]
  BY DEF KeyInv, KeyTypeOK
<1> QED BY <1>1, <1>3, <1>4, <1>5 DEF KeyInv, Holds

LEMMA RecheckKeeps == ASSUME KeyInv, NEW r \in Requests, Recheck(r) PROVE KeyInv'
<1>1. /\ Holds(r) /\ verify[r] = "waiting"
      /\ UNCHANGED <<version, cache, copied, since, answer>>
      /\ \/ verify' = [verify EXCEPT ![r] = "verified"] /\ queue' = Tail(queue)
         \/ verify' = [verify EXCEPT ![r] = "fetching"] /\ queue' = queue
  BY DEF Recheck, Verify
<1>2. \A q \in Requests : verify[q] \notin {"fetching", "answered"}
  BY <1>1 DEF KeyInv, Holds
<1>3. queue \in Seq(Requests) /\ queue' \in Seq(Requests)
  BY <1>1, TailType DEF KeyInv, KeyTypeOK, Holds
<1>4. KeyTypeOK'
  BY <1>1, <1>3 DEF KeyInv, KeyTypeOK
<1>5. \A q \in Requests : verify'[q] \in {"fetching", "answered"} =>
         q = r /\ verify'[q] = "fetching" /\ queue' = queue
  BY <1>1, <1>2 DEF KeyInv, KeyTypeOK
<1> QED BY <1>1, <1>4, <1>5 DEF KeyInv, Holds

LEMMA FetchAnsweredKeeps == ASSUME KeyInv, NEW r \in Requests, FetchAnswered(r) PROVE KeyInv'
<1>1. /\ verify[r] = "fetching" /\ verify' = [verify EXCEPT ![r] = "answered"]
      /\ answer' = [answer EXCEPT ![r] = version]
      /\ UNCHANGED <<version, cache, copied, since, queue>>
  BY DEF FetchAnswered, Verify
<1>2. answer' \in [Requests -> 1 .. version] /\ answer'[r] = version
  BY <1>1, KeyTypes DEF KeyInv, KeyTypeOK
<1>3. KeyTypeOK'
  BY <1>1, <1>2 DEF KeyInv, KeyTypeOK
<1>4. answer'[r] >= copied /\ answer'[r] >= since[r]
  BY <1>2, KeyTypes DEF KeyInv
<1>5. \A q \in Requests : q # r => answer'[q] = answer[q] /\ verify'[q] = verify[q]
  BY <1>1 DEF KeyInv, KeyTypeOK
<1> QED BY <1>1, <1>3, <1>4, <1>5 DEF KeyInv, Holds

(* The holder of the lock leaves.                                           *)
LEMMA LeaveKeeps ==
    ASSUME KeyInv, NEW r \in Requests, verify[r] \in {"fetching", "answered"},
           NEW to \in {"verified", "unknown", "unavailable"},
           verify' = [verify EXCEPT ![r] = to], queue' = Tail(queue),
           UNCHANGED <<version, since>>,
           answer' = answer \/ answer' = [answer EXCEPT ![r] = 1],
           copied' \in 0 .. version,
           cache' = IF copied' = 0 THEN {} ELSE Published[copied']
    PROVE  KeyInv'
<1>1. Holds(r) /\ queue \in Seq(Requests) /\ queue' \in Seq(Requests)
  BY TailType DEF KeyInv, KeyTypeOK, Holds
<1>2. answer' \in [Requests -> 1 .. version]
  <2>1. 1 \in 1 .. version
    BY KeyTypes DEF KeyInv
  <2> QED BY <2>1 DEF KeyInv, KeyTypeOK
<1>3. KeyTypeOK'
  BY <1>1, <1>2 DEF KeyInv, KeyTypeOK
<1>4. \A q \in Requests : verify'[q] \notin {"fetching", "answered"}
  BY <1>1 DEF KeyInv, KeyTypeOK, Holds
<1> QED BY <1>3, <1>4 DEF KeyInv

LEMMA KeyStepKeeps ==
    ASSUME KeyInv, NEW r \in Requests, Arrive(r) \/ KeyStep(r) \/ Answered(r)
    PROVE  KeyInv'
<1>1. CASE Arrive(r)
  BY <1>1, JoinKeeps DEF Arrive, Verify
<1>2. CASE Hit(r)
  BY <1>2, JoinKeeps DEF Hit, Verify
<1>3. CASE Miss(r)
  BY <1>3, JoinKeeps DEF Miss, Verify
<1>4. CASE Recheck(r)
  BY <1>4, RecheckKeeps
<1>5. CASE FetchAnswered(r)
  BY <1>5, FetchAnsweredKeeps
<1>6. CASE FetchFails(r)
  <2>1. copied' \in 0 .. version /\ cache' = IF copied' = 0 THEN {} ELSE Published[copied']
    BY <1>6 DEF FetchFails, KeyInv, KeyTypeOK
  <2> QED BY <1>6, <2>1, LeaveKeeps DEF FetchFails, Verify
<1>7. CASE Replace(r)
  <2>1. copied' = answer[r] /\ cache' = Published[answer[r]] /\ answer[r] \in 1 .. version
    BY <1>7 DEF Replace, KeyInv, KeyTypeOK
  <2>2. copied' \in 0 .. version /\ cache' = IF copied' = 0 THEN {} ELSE Published[copied']
    BY <2>1, KeyTypes DEF KeyInv
  <2>3. PICK to \in {"verified", "unknown"} : verify' = [verify EXCEPT ![r] = to]
    BY <1>7 DEF Replace, Verify
  <2> QED BY <1>7, <2>2, <2>3, LeaveKeeps DEF Replace, Verify
<1>8. CASE Answered(r)
  BY <1>8, JoinKeeps DEF Answered
<1> QED BY <1>1, <1>2, <1>3, <1>4, <1>5, <1>6, <1>7, <1>8 DEF KeyStep

LEMMA NeverOlder ==
    ASSUME KeyInv, NEW r \in Requests, Arrive(r) \/ KeyStep(r) \/ Answered(r)
    PROVE  copied' >= copied
<1>1. CASE Replace(r)
  BY <1>1 DEF Replace, Verify, KeyInv
<1>2. CASE ~Replace(r)
  BY <1>2, KeyTypes DEF Arrive, KeyStep, Answered, Hit, Miss, Recheck, FetchAnswered,
                        FetchFails, KeyInv
<1> QED BY <1>1, <1>2

LEMMA RefusalsRight ==
    ASSUME KeyInv, NEW r \in Requests, NEW q \in Requests,
           Arrive(r) \/ KeyStep(r) \/ Answered(r),
           verify'[q] = "unknown", verify[q] # "unknown"
    PROVE  Unpublished(q)
<1>1. verify \in [Requests -> {"idle", "lookup", "waiting", "fetching", "answered",
                               "verified", "unknown", "unavailable"}]
  BY DEF KeyInv, KeyTypeOK
<1>2. Replace(r) /\ q = r
  BY <1>1 DEF Arrive, KeyStep, Answered, Hit, Miss, Recheck, FetchAnswered,
              FetchFails, Replace, Verify
<1>3. Kid[r] \notin Published[answer[r]] /\ verify[r] = "answered"
  BY <1>1, <1>2 DEF Replace, Verify
<1>4. answer[r] \in since[r] .. version
  BY <1>3, KeyTypes DEF KeyInv
<1> QED BY <1>2, <1>3, <1>4 DEF Unpublished

-----------------------------------------------------------------------------
(* The clients.                                                             *)

(* What is lent, idle or about to be closed is open.                        *)
OpenPlaces ==
    /\ \A b \in Borrowers : Has(b) => state[client[b]] = "open"
    /\ \A p \in PoolIds : \A i \in DOMAIN idle[p] : state[idle[p][i]] = "open"
    /\ \A c \in closing : state[c] = "open"

PoolInv == PoolTypeOK /\ Exclusive /\ OpenPlaces /\ ActsForHolder /\ NoneLost

LEMMA PoolTypes ==
    ASSUME PoolTypeOK
    PROVE  /\ made \in Nat /\ made <= MaxPools /\ pool \in Nat /\ pool <= made
           /\ \A p \in PoolIds : idle[p] \in Seq(Clients) /\ DOMAIN idle[p] = 1 .. Len(idle[p])
                                 /\ \A i \in DOMAIN idle[p] : idle[p][i] \in Clients
           /\ pool # 0 => pool \in PoolIds
           /\ \A b \in Borrowers : /\ lease[b] # "none" => from[b] \in PoolIds
                                   /\ Has(b) => client[b] \in Clients
  BY PoolAssumption DEF PoolTypeOK, PoolIds, Has

LEMMA ThePoolKnown ==
    ASSUME PoolTypeOK, NEW p \in PoolIds, ThePool(p)
    PROVE  /\ made' \in 0 .. MaxPools /\ pool' \in 0 .. made' /\ made <= made'
           /\ p \in 1 .. made'
  BY PoolAssumption DEF PoolTypeOK, PoolIds, ThePool

LEMMA BorrowKeeps == ASSUME PoolInv, NEW b \in Borrowers, Borrow(b) PROVE PoolInv'
<1>1. PICK p \in PoolIds :
          /\ ThePool(p) /\ idle[p] # <<>>
          /\ client' = [client EXCEPT ![b] = Last(idle[p])]
          /\ bearer' = [bearer EXCEPT ![Last(idle[p])] = b]
          /\ idle' = [idle EXCEPT ![p] = Front(@)]
          /\ from' = [from EXCEPT ![b] = p]
  BY DEF Borrow
<1>2. /\ lease[b] = "none" /\ lease' = [lease EXCEPT ![b] = "held"]
      /\ UNCHANGED <<closing, state>>
  BY DEF Borrow
<1> DEFINE n == Len(idle[p])
           c == idle[p][n]
<1>3. /\ idle[p] \in Seq(Clients) /\ n \in Nat /\ n > 0 /\ n \in DOMAIN idle[p]
      /\ DOMAIN idle[p] = 1 .. n /\ c \in Clients /\ Last(idle[p]) = c
  BY <1>1, PoolTypes DEF PoolInv, Last
<1>4. /\ Front(idle[p]) \in Seq(Clients) /\ DOMAIN Front(idle[p]) = 1 .. (n - 1)
      /\ \A i \in 1 .. (n - 1) : Front(idle[p])[i] = idle[p][i]
  BY <1>3 DEF Front
<1>5. /\ idle'[p] = Front(idle[p])
      /\ \A q \in PoolIds : q # p => idle'[q] = idle[q]
      /\ client'[b] = c /\ bearer'[c] = b /\ lease'[b] = "held" /\ from'[b] = p
      /\ \A a \in Borrowers : a # b => /\ client'[a] = client[a] /\ lease'[a] = lease[a]
                                       /\ from'[a] = from[a]
      /\ \A d \in Clients : d # c => bearer'[d] = bearer[d]
  BY <1>1, <1>2, <1>3 DEF PoolInv, PoolTypeOK
<1>6. \A q \in PoolIds : \A i \in DOMAIN idle'[q] :
         i \in DOMAIN idle[q] /\ idle'[q][i] = idle[q][i] /\ ~(q = p /\ i = n)
  BY <1>3, <1>4, <1>5, SMTT(30)
<1>7. \A a \in Borrowers : a # b /\ Has(a)' => Has(a) /\ client'[a] # c
  BY <1>3, <1>5 DEF Has, PoolInv, Exclusive
<1>8. \A q \in PoolIds : \A i \in DOMAIN idle'[q] : idle'[q][i] # c
  BY <1>3, <1>6 DEF PoolInv, Exclusive
<1>9. c \notin closing /\ state[c] = "open"
  BY <1>3 DEF PoolInv, Exclusive, OpenPlaces
<1>10. PoolTypeOK'
  BY <1>1, <1>2, <1>3, <1>4, ThePoolKnown DEF PoolInv, PoolTypeOK
<1>11. Exclusive'
  <2>1. ASSUME NEW a \in Borrowers, NEW d \in Borrowers, Has(a)', Has(d)', client'[a] = client'[d]
        PROVE  a = d
    BY <1>5, <1>7, <2>1 DEF PoolInv, Exclusive
  <2>2. ASSUME NEW q \in PoolIds, NEW i \in DOMAIN idle'[q]
        PROVE  /\ \A a \in Borrowers : Has(a)' => client'[a] # idle'[q][i]
               /\ \A r \in PoolIds : \A j \in DOMAIN idle'[r] :
                     idle'[q][i] = idle'[r][j] => q = r /\ i = j
               /\ idle'[q][i] \notin closing'
    BY <1>2, <1>5, <1>6, <1>7, <1>8, <2>2 DEF PoolInv, Exclusive
  <2>3. \A a \in Borrowers : Has(a)' => client'[a] \notin closing'
    BY <1>2, <1>5, <1>7, <1>9 DEF PoolInv, Exclusive
  <2> QED BY <2>1, <2>2, <2>3 DEF Exclusive, Has
<1>12. OpenPlaces'
  BY <1>2, <1>5, <1>6, <1>7, <1>9 DEF PoolInv, OpenPlaces, Has
<1>13. ActsForHolder'
  <2> SUFFICES ASSUME NEW a \in Borrowers, lease'[a] = "held"
               PROVE  bearer'[client'[a]] = a /\ state'[client'[a]] = "open"
    BY DEF ActsForHolder
  <2>1. CASE a = b
    BY <1>2, <1>5, <1>9, <2>1
  <2>2. CASE a # b
    <3>1. lease[a] = "held" /\ client'[a] = client[a] /\ client[a] \in Clients /\ client[a] # c
      BY <1>5, <1>7, <2>2 DEF PoolInv, PoolTypeOK, Has
    <3> QED BY <1>2, <1>5, <3>1 DEF PoolInv, ActsForHolder
  <2> QED BY <2>1, <2>2
<1>14. NoneLost'
  <2> SUFFICES ASSUME NEW d \in Clients, state'[d] = "open"
               PROVE  \/ \E a \in Borrowers : Has(a)' /\ client'[a] = d
                      \/ \E q \in PoolIds : d \in ListOf(q)'
                      \/ d \in closing'
    BY DEF NoneLost
  <2>1. CASE d = c
    BY <1>5, <2>1 DEF Has
  <2>2. CASE d # c
    <3>1. \/ \E a \in Borrowers : Has(a) /\ client[a] = d
          \/ \E q \in PoolIds : d \in ListOf(q)
          \/ d \in closing
      BY <1>2 DEF PoolInv, NoneLost
    <3>2. ASSUME NEW a \in Borrowers, Has(a) PROVE Has(a)' /\ client'[a] = client[a]
      BY <1>2, <1>5, <3>2 DEF Has
    <3>3. ASSUME NEW q \in PoolIds, d \in ListOf(q) PROVE d \in ListOf(q)'
      <4>1. PICK i \in DOMAIN idle[q] : idle[q][i] = d
        BY <3>3 DEF ListOf
      <4>2. i \in DOMAIN idle'[q] /\ idle'[q][i] = d
        BY <1>3, <1>4, <1>5, <2>2, <4>1, SMTT(30)
      <4> QED BY <4>2 DEF ListOf
    <3> QED BY <1>2, <3>1, <3>2, <3>3
  <2> QED BY <2>1, <2>2
<1> QED BY <1>10, <1>11, <1>12, <1>13, <1>14 DEF PoolInv

LEMMA BorrowMissKeeps == ASSUME PoolInv, NEW b \in Borrowers, BorrowMiss(b) PROVE PoolInv'
<1>1. PICK p \in PoolIds : ThePool(p) /\ from' = [from EXCEPT ![b] = p]
  BY DEF BorrowMiss
<1>2. /\ lease[b] = "none" /\ lease' = [lease EXCEPT ![b] = "creating"]
      /\ UNCHANGED <<idle, closing, state, bearer, client>>
  BY DEF BorrowMiss
<1>3. \A a \in Borrowers : /\ Has(a)' <=> Has(a)
                           /\ lease'[a] = "held" <=> lease[a] = "held"
  BY <1>2 DEF Has, PoolInv, PoolTypeOK
<1>4. PoolTypeOK'
  BY <1>1, <1>2, ThePoolKnown DEF PoolInv, PoolTypeOK
<1>5. Exclusive'
  BY <1>2, <1>3 DEF PoolInv, Exclusive
<1>6. OpenPlaces' /\ ActsForHolder' /\ NoneLost'
  BY <1>2, <1>3 DEF PoolInv, OpenPlaces, ActsForHolder, NoneLost, ListOf
<1> QED BY <1>4, <1>5, <1>6 DEF PoolInv

LEMMA CreatedKeeps == ASSUME PoolInv, NEW b \in Borrowers, Created(b) PROVE PoolInv'
<1> DEFINE c == CHOOSE x \in Unborn : TRUE
<1>1. /\ lease[b] = "creating" /\ c \in Clients /\ state[c] = "unborn"
      /\ state' = [state EXCEPT ![c] = "open"]
      /\ bearer' = [bearer EXCEPT ![c] = b]
      /\ client' = [client EXCEPT ![b] = c]
      /\ lease' = [lease EXCEPT ![b] = "held"]
      /\ UNCHANGED <<pool, made, idle, closing, from>>
  BY DEF Created, Unborn
<1> HIDE DEF c
<1>2. /\ client'[b] = c /\ bearer'[c] = b /\ state'[c] = "open" /\ lease'[b] = "held"
      /\ \A a \in Borrowers : a # b => client'[a] = client[a] /\ lease'[a] = lease[a]
      /\ \A d \in Clients : d # c => bearer'[d] = bearer[d] /\ state'[d] = state[d]
      /\ ~Has(b)
  BY <1>1 DEF PoolInv, PoolTypeOK, Has
<1>3. /\ \A a \in Borrowers : Has(a) => client[a] # c
      /\ \A p \in PoolIds : \A i \in DOMAIN idle[p] : idle[p][i] # c
      /\ c \notin closing
  BY <1>1 DEF PoolInv, OpenPlaces
<1>4. PoolTypeOK'
  BY <1>1 DEF PoolInv, PoolTypeOK
<1>5. \A a \in Borrowers : Has(a)' => a = b \/ (Has(a) /\ client'[a] = client[a])
  BY <1>2 DEF Has
<1>6. Exclusive'
  BY <1>1, <1>2, <1>3, <1>5 DEF PoolInv, Exclusive
<1>7. OpenPlaces'
  <2>1. \A a \in Borrowers : Has(a)' => state'[client'[a]] = "open"
    BY <1>2, <1>3, <1>5, PoolTypes DEF PoolInv, OpenPlaces
  <2>2. \A p \in PoolIds : \A i \in DOMAIN idle[p] : state'[idle[p][i]] = "open"
    BY <1>2, <1>3, PoolTypes DEF PoolInv, OpenPlaces
  <2>3. \A d \in closing : state'[d] = "open"
    BY <1>2, <1>3 DEF PoolInv, OpenPlaces, PoolTypeOK
  <2> QED BY <1>1, <2>1, <2>2, <2>3 DEF OpenPlaces
<1>8. ActsForHolder'
  <2> SUFFICES ASSUME NEW a \in Borrowers, lease'[a] = "held"
               PROVE  bearer'[client'[a]] = a /\ state'[client'[a]] = "open"
    BY DEF ActsForHolder
  <2>1. CASE a = b
    BY <1>2, <2>1
  <2>2. CASE a # b
    <3>1. lease[a] = "held" /\ client'[a] = client[a] /\ client[a] \in Clients /\ client[a] # c
      BY <1>2, <1>3, <2>2 DEF PoolInv, PoolTypeOK, Has
    <3> QED BY <1>2, <3>1 DEF PoolInv, ActsForHolder
  <2> QED BY <2>1, <2>2
<1>9. NoneLost'
  <2>1. \A a \in Borrowers : Has(a) => Has(a)' /\ client'[a] = client[a]
    BY <1>2 DEF Has
  <2>2. Has(b)'
    BY <1>2 DEF Has
  <2> QED BY <1>1, <1>2, <2>1, <2>2 DEF PoolInv, NoneLost, ListOf
<1> QED BY <1>4, <1>6, <1>7, <1>8, <1>9 DEF PoolInv

LEMMA GiveBackKeeps == ASSUME PoolInv, NEW b \in Borrowers, GiveBack(b) PROVE PoolInv'
<1> DEFINE p == from[b]
           c == client[b]
           n == Len(idle[p]) + 1
<1>1. /\ lease[b] = "held" /\ Has(b)
      /\ idle' = [idle EXCEPT ![p] = Append(@, c)]
      /\ lease' = [lease EXCEPT ![b] = "none"]
      /\ client' = [client EXCEPT ![b] = Nobody]
      /\ from' = [from EXCEPT ![b] = 0]
      /\ UNCHANGED <<pool, made, closing, state, bearer>>
  BY DEF GiveBack, Has
<1>2. p \in PoolIds /\ c \in Clients /\ idle[p] \in Seq(Clients)
  BY <1>1, PoolTypes DEF PoolInv
<1>3. /\ idle'[p] = Append(idle[p], c) /\ Append(idle[p], c) \in Seq(Clients)
      /\ DOMAIN idle'[p] = 1 .. n /\ DOMAIN idle[p] = 1 .. (n - 1) /\ n \in Nat /\ n > 0
      /\ idle'[p][n] = c /\ \A i \in 1 .. (n - 1) : idle'[p][i] = idle[p][i]
      /\ \A q \in PoolIds : q # p => idle'[q] = idle[q]
  BY <1>1, <1>2 DEF PoolInv, PoolTypeOK
<1>4. /\ \A a \in Borrowers : a # b => client'[a] = client[a] /\ lease'[a] = lease[a]
      /\ ~Has(b)'
  BY <1>1 DEF PoolInv, PoolTypeOK, Has
<1> HIDE DEF p, c, n
<1>5. \A a \in Borrowers : Has(a)' =>
         a # b /\ Has(a) /\ client'[a] = client[a] /\ client[a] # c
  BY <1>1, <1>4 DEF Has, PoolInv, Exclusive, c
<1>6. \A q \in PoolIds : \A i \in DOMAIN idle'[q] :
         \/ i \in DOMAIN idle[q] /\ idle'[q][i] = idle[q][i] /\ idle[q][i] # c
            /\ ~(q = p /\ i = n)
         \/ q = p /\ i = n /\ idle'[q][i] = c
  <2>1. \A q \in PoolIds : \A i \in DOMAIN idle[q] : idle[q][i] # c
    BY <1>1 DEF PoolInv, Exclusive, c
  <2> TAKE q \in PoolIds
  <2> TAKE i \in DOMAIN idle'[q]
  <2>2. CASE q # p
    BY <1>3, <2>1, <2>2
  <2>3. CASE q = p
    <3>1. i \in 1 .. n
      BY <1>3, <2>3
    <3>2. CASE i = n
      BY <1>3, <2>3, <3>2
    <3>3. CASE i # n
      <4>1. i \in 1 .. (n - 1)
        BY <1>3, <3>1, <3>3
      <4> QED BY <1>2, <1>3, <2>1, <2>3, <3>3, <4>1
    <3> QED BY <3>2, <3>3
  <2> QED BY <2>2, <2>3
<1>7. c \notin closing /\ state[c] = "open"
  BY <1>1 DEF PoolInv, Exclusive, OpenPlaces, c
<1>8. PoolTypeOK'
  BY <1>1, <1>2, <1>3 DEF PoolInv, PoolTypeOK
<1>9. Exclusive'
  <2>1. ASSUME NEW a \in Borrowers, NEW d \in Borrowers, Has(a)', Has(d)', client'[a] = client'[d]
        PROVE  a = d
    BY <1>5, <2>1 DEF PoolInv, Exclusive
  <2>2. ASSUME NEW q \in PoolIds, NEW i \in DOMAIN idle'[q]
        PROVE  /\ \A a \in Borrowers : Has(a)' => client'[a] # idle'[q][i]
               /\ \A r \in PoolIds : \A j \in DOMAIN idle'[r] :
                     idle'[q][i] = idle'[r][j] => q = r /\ i = j
               /\ idle'[q][i] \notin closing'
    <3>1. \A a \in Borrowers : Has(a)' => client'[a] # idle'[q][i]
      BY <1>5, <1>6, <2>2 DEF PoolInv, Exclusive
    <3>2. \A r \in PoolIds : \A j \in DOMAIN idle'[r] :
             idle'[q][i] = idle'[r][j] => q = r /\ i = j
      BY <1>6, <2>2 DEF PoolInv, Exclusive
    <3>3. idle'[q][i] \notin closing'
      BY <1>1, <1>6, <1>7, <2>2 DEF PoolInv, Exclusive
    <3> QED BY <3>1, <3>2, <3>3
  <2>3. \A a \in Borrowers : Has(a)' => client'[a] \notin closing'
    BY <1>1, <1>5 DEF PoolInv, Exclusive
  <2> QED BY <2>1, <2>2, <2>3 DEF Exclusive, Has
<1>10. OpenPlaces'
  BY <1>1, <1>5, <1>6, <1>7 DEF PoolInv, OpenPlaces, Has
<1>11. ActsForHolder'
  BY <1>1, <1>4 DEF PoolInv, ActsForHolder, Has
<1>12. NoneLost'
  <2> SUFFICES ASSUME NEW d \in Clients, state'[d] = "open"
               PROVE  \/ \E a \in Borrowers : Has(a)' /\ client'[a] = d
                      \/ \E q \in PoolIds : d \in ListOf(q)'
                      \/ d \in closing'
    BY DEF NoneLost
  <2>1. CASE d = c
    BY <1>2, <1>3, <2>1 DEF ListOf
  <2>2. CASE d # c
    <3>1. \/ \E a \in Borrowers : Has(a) /\ client[a] = d
          \/ \E q \in PoolIds : d \in ListOf(q)
          \/ d \in closing
      BY <1>1 DEF PoolInv, NoneLost
    <3>2. ASSUME NEW a \in Borrowers, Has(a), client[a] = d PROVE Has(a)' /\ client'[a] = d
      BY <1>4, <2>2, <3>2 DEF Has, c
    <3>3. ASSUME NEW q \in PoolIds, d \in ListOf(q) PROVE d \in ListOf(q)'
      <4>1. PICK i \in DOMAIN idle[q] : idle[q][i] = d
        BY <3>3 DEF ListOf
      <4>2. i \in DOMAIN idle'[q] /\ idle'[q][i] = d
        <5>1. CASE q = p
          <6>1. i \in 1 .. (n - 1) /\ i \in 1 .. n
            BY <1>3, <4>1, <5>1
          <6> QED BY <1>3, <4>1, <5>1, <6>1
        <5>2. CASE q # p
          BY <1>3, <4>1, <5>2, Zenon
        <5> QED BY <5>1, <5>2
      <4> QED BY <4>2 DEF ListOf
    <3> QED BY <1>1, <3>1, <3>2, <3>3
  <2> QED BY <2>1, <2>2
<1> QED BY <1>8, <1>9, <1>10, <1>11, <1>12 DEF PoolInv

LEMMA OverflowKeeps == ASSUME PoolInv, NEW b \in Borrowers, Overflow(b) PROVE PoolInv'
<1>1. /\ lease[b] = "held" /\ lease' = [lease EXCEPT ![b] = "dropping"]
      /\ UNCHANGED <<pool, made, idle, closing, state, bearer, client, from>>
  BY DEF Overflow
<1>2. \A a \in Borrowers : /\ Has(a)' <=> Has(a)
                           /\ lease'[a] = "held" => lease[a] = "held"
  BY <1>1 DEF Has, PoolInv, PoolTypeOK
<1>3. PoolTypeOK'
  BY <1>1 DEF PoolInv, PoolTypeOK
<1>4. Exclusive' /\ OpenPlaces'
  BY <1>1, <1>2 DEF PoolInv, Exclusive, OpenPlaces
<1>5. ActsForHolder' /\ NoneLost'
  BY <1>1, <1>2 DEF PoolInv, ActsForHolder, NoneLost, ListOf
<1> QED BY <1>3, <1>4, <1>5 DEF PoolInv

LEMMA DroppedKeeps == ASSUME PoolInv, NEW b \in Borrowers, Dropped(b) PROVE PoolInv'
<1> DEFINE c == client[b]
<1>1. /\ lease[b] = "dropping" /\ Has(b)
      /\ state' = [state EXCEPT ![c] = "closed"]
      /\ lease' = [lease EXCEPT ![b] = "none"]
      /\ client' = [client EXCEPT ![b] = Nobody]
      /\ from' = [from EXCEPT ![b] = 0]
      /\ UNCHANGED <<pool, made, idle, closing, bearer>>
  BY DEF Dropped, Has
<1>2. c \in Clients
  BY <1>1, PoolTypes DEF PoolInv
<1>3. /\ \A a \in Borrowers : a # b => client'[a] = client[a] /\ lease'[a] = lease[a]
      /\ ~Has(b)' /\ state'[c] = "closed"
      /\ \A d \in Clients : d # c => state'[d] = state[d]
  BY <1>1, <1>2 DEF PoolInv, PoolTypeOK, Has
<1>4. \A a \in Borrowers : Has(a)' =>
         a # b /\ Has(a) /\ client'[a] = client[a] /\ client[a] # c
  BY <1>1, <1>3 DEF Has, PoolInv, Exclusive
<1>5. /\ c \notin closing
      /\ \A p \in PoolIds : \A i \in DOMAIN idle[p] : idle[p][i] # c
  BY <1>1 DEF PoolInv, Exclusive
<1> HIDE DEF c
<1>6. PoolTypeOK'
  BY <1>1, <1>2 DEF PoolInv, PoolTypeOK
<1>7. Exclusive'
  BY <1>1, <1>4 DEF PoolInv, Exclusive
<1>8. OpenPlaces'
  <2>1. \A a \in Borrowers : Has(a)' => state'[client'[a]] = "open"
    BY <1>3, <1>4, PoolTypes DEF PoolInv, OpenPlaces
  <2>2. \A p \in PoolIds : \A i \in DOMAIN idle[p] : state'[idle[p][i]] = "open"
    BY <1>3, <1>5, PoolTypes DEF PoolInv, OpenPlaces
  <2>3. \A d \in closing : state'[d] = "open"
    BY <1>3, <1>5 DEF PoolInv, OpenPlaces, PoolTypeOK
  <2> QED BY <1>1, <2>1, <2>2, <2>3 DEF OpenPlaces
<1>9. ActsForHolder'
  <2> SUFFICES ASSUME NEW a \in Borrowers, lease'[a] = "held"
               PROVE  bearer'[client'[a]] = a /\ state'[client'[a]] = "open"
    BY DEF ActsForHolder
  <2>1. Has(a)' /\ Has(a) /\ a # b
    BY <1>3, <1>4 DEF Has
  <2>2. lease[a] = "held" /\ client'[a] = client[a] /\ client[a] \in Clients /\ client[a] # c
    BY <1>3, <1>4, <2>1, PoolTypes DEF PoolInv
  <2> QED BY <1>1, <1>3, <2>2 DEF PoolInv, ActsForHolder
<1>10. NoneLost'
  <2> SUFFICES ASSUME NEW d \in Clients, state'[d] = "open"
               PROVE  \/ \E a \in Borrowers : Has(a)' /\ client'[a] = d
                      \/ \E q \in PoolIds : d \in ListOf(q)'
                      \/ d \in closing'
    BY DEF NoneLost
  <2>1. d # c /\ state[d] = "open"
    BY <1>3
  <2>2. \A a \in Borrowers : Has(a) /\ client[a] = d => Has(a)' /\ client'[a] = d
    BY <1>3, <2>1 DEF Has, c
  <2> QED BY <1>1, <2>1, <2>2 DEF PoolInv, NoneLost, ListOf
<1> QED BY <1>6, <1>7, <1>8, <1>9, <1>10 DEF PoolInv

LEMMA CloseStartKeeps == ASSUME PoolInv, CloseStart PROVE PoolInv'
<1>1. /\ pool # 0 /\ closing = {} /\ closing' = ListOf(pool)
      /\ idle' = [idle EXCEPT ![pool] = <<>>]
      /\ pool' \in {0, pool}
      /\ UNCHANGED <<made, state, bearer, lease, client, from>>
  BY DEF CloseStart
<1>2. pool \in PoolIds /\ idle[pool] \in Seq(Clients)
  BY <1>1, PoolTypes DEF PoolInv
<1>3. /\ idle'[pool] = <<>> /\ \A q \in PoolIds : q # pool => idle'[q] = idle[q]
      /\ DOMAIN idle'[pool] = {}
  BY <1>1, <1>2 DEF PoolInv, PoolTypeOK
<1>4. \A q \in PoolIds : \A i \in DOMAIN idle'[q] :
         q # pool /\ i \in DOMAIN idle[q] /\ idle'[q][i] = idle[q][i]
  BY <1>3
<1>5. \A c \in closing' : \E i \in DOMAIN idle[pool] : idle[pool][i] = c
  BY <1>1 DEF ListOf
<1>6. PoolTypeOK'
  <2>1. closing' \subseteq Clients
    BY <1>1, <1>2 DEF ListOf
  <2>2. pool' \in 0 .. made /\ idle' \in [PoolIds -> Seq(Clients)]
    BY <1>1, <1>2, PoolTypes DEF PoolInv, PoolTypeOK
  <2> QED BY <1>1, <2>1, <2>2 DEF PoolInv, PoolTypeOK
<1>7. \A a \in Borrowers : Has(a)' <=> Has(a)
  BY <1>1 DEF Has
<1>8. Exclusive'
  <2>1. \A a \in Borrowers : Has(a) => client[a] \notin closing'
    BY <1>2, <1>5 DEF PoolInv, Exclusive
  <2>2. \A q \in PoolIds : \A i \in DOMAIN idle'[q] : idle'[q][i] \notin closing'
    BY <1>2, <1>4, <1>5 DEF PoolInv, Exclusive
  <2> QED BY <1>1, <1>4, <1>7, <2>1, <2>2 DEF PoolInv, Exclusive
<1>9. OpenPlaces'
  BY <1>1, <1>2, <1>4, <1>5, <1>7 DEF PoolInv, OpenPlaces
<1>10. ActsForHolder'
  BY <1>1 DEF PoolInv, ActsForHolder
<1>11. NoneLost'
  <2>1. \A q \in PoolIds : \A c \in ListOf(q) : c \in ListOf(q)' \/ c \in closing'
    BY <1>1, <1>3 DEF ListOf
  <2> QED BY <1>1, <1>7, <2>1 DEF PoolInv, NoneLost
<1> QED BY <1>6, <1>8, <1>9, <1>10, <1>11 DEF PoolInv

LEMMA CloseOneKeeps == ASSUME PoolInv, NEW c \in Clients, CloseOne(c) PROVE PoolInv'
<1>1. /\ c \in closing /\ closing' = closing \ {c} /\ pool' \in {0, pool}
      /\ state' = [state EXCEPT ![c] = "closed"]
      /\ UNCHANGED <<made, idle, bearer, lease, client, from>>
  BY DEF CloseOne
<1>2. state'[c] = "closed" /\ \A d \in Clients : d # c => state'[d] = state[d]
  BY <1>1 DEF PoolInv, PoolTypeOK
<1>3. /\ \A a \in Borrowers : Has(a) => client[a] # c
      /\ \A p \in PoolIds : \A i \in DOMAIN idle[p] : idle[p][i] # c
  BY <1>1 DEF PoolInv, Exclusive
<1>4. PoolTypeOK'
  <2>1. pool' \in 0 .. made
    BY <1>1, PoolTypes DEF PoolInv
  <2> QED BY <1>1, <2>1 DEF PoolInv, PoolTypeOK
<1>5. \A a \in Borrowers : Has(a)' <=> Has(a)
  BY <1>1 DEF Has
<1>6. Exclusive'
  BY <1>1, <1>5 DEF PoolInv, Exclusive
<1>7. OpenPlaces'
  <2>1. \A a \in Borrowers : Has(a) => state'[client[a]] = "open"
    BY <1>2, <1>3, PoolTypes DEF PoolInv, OpenPlaces
  <2>2. \A p \in PoolIds : \A i \in DOMAIN idle[p] : state'[idle[p][i]] = "open"
    BY <1>2, <1>3, PoolTypes DEF PoolInv, OpenPlaces
  <2>3. \A d \in closing' : state'[d] = "open"
    BY <1>1, <1>2 DEF PoolInv, OpenPlaces, PoolTypeOK
  <2> QED BY <1>1, <1>5, <2>1, <2>2, <2>3 DEF OpenPlaces
<1>8. ActsForHolder'
  <2>1. \A a \in Borrowers : lease[a] = "held" => client[a] \in Clients /\ client[a] # c
    BY <1>3, PoolTypes DEF PoolInv, Has
  <2> QED BY <1>1, <1>2, <2>1 DEF PoolInv, ActsForHolder
<1>9. NoneLost'
  BY <1>1, <1>2, <1>5 DEF PoolInv, NoneLost, ListOf
<1> QED BY <1>4, <1>6, <1>7, <1>8, <1>9 DEF PoolInv

-----------------------------------------------------------------------------
(* Both together.                                                           *)

IInv == KeyInv /\ PoolInv

LEMMA SameKeys == ASSUME KeyInv, UNCHANGED keyVars PROVE KeyInv'
  BY DEF KeyInv, KeyTypeOK, Holds, keyVars

LEMMA SamePool == ASSUME PoolInv, UNCHANGED poolVars PROVE PoolInv'
  BY DEF PoolInv, PoolTypeOK, Exclusive, OpenPlaces, ActsForHolder, NoneLost, ListOf, Has,
         poolVars

LEMMA InitIInv == Init => IInv
<1> SUFFICES ASSUME Init PROVE IInv
  OBVIOUS
<1>1. KeyInv
  BY KeyAssumption DEF Init, KeyInit, KeyInv, KeyTypeOK
<1>2. PoolInv
  BY PoolAssumption DEF Init, PoolInit, PoolInv, PoolTypeOK, Exclusive, OpenPlaces,
     ActsForHolder, NoneLost, Has, PoolIds
<1> QED BY <1>1, <1>2 DEF IInv

LEMMA NextIInv == IInv /\ [Next]_vars => IInv'
<1> SUFFICES ASSUME IInv, [Next]_vars PROVE IInv'
  OBVIOUS
<1>1. CASE Rotate /\ UNCHANGED poolVars
  BY <1>1, RotateKeeps, SamePool DEF IInv
<1>2. CASE CloseStep /\ UNCHANGED keyVars
  BY <1>2, CloseStartKeeps, CloseOneKeeps, SameKeys DEF IInv, CloseStep
<1>3. ASSUME NEW r \in Requests, (Arrive(r) \/ KeyStep(r)) /\ UNCHANGED poolVars PROVE IInv'
  BY <1>3, KeyStepKeeps, SamePool DEF IInv
<1>4. ASSUME NEW r \in Requests, UseDatabase(r) PROVE IInv'
  <2>1. r \in Borrowers /\ LeaseStep(r) /\ UNCHANGED keyVars
    BY <1>4 DEF UseDatabase
  <2>2. PoolInv'
    BY <2>1, BorrowKeeps, BorrowMissKeeps, CreatedKeeps, GiveBackKeeps, OverflowKeeps,
       DroppedKeeps DEF IInv, LeaseStep
  <2> QED BY <2>1, <2>2, SameKeys DEF IInv
<1>5. ASSUME NEW r \in Requests, Respond(r) PROVE IInv'
  BY <1>5, KeyStepKeeps, SamePool DEF IInv, Respond
<1>6. CASE UNCHANGED vars
  BY <1>6, SameKeys, SamePool DEF IInv, vars
<1> QED BY <1>1, <1>2, <1>3, <1>4, <1>5, <1>6 DEF Next

LEMMA Invariance == Spec => []IInv
  BY InitIInv, NextIInv, PTL DEF Spec

(* Types, for any requests, keys, clients and pools.                        *)
THEOREM TypeCorrect == Spec => []TypeOK
<1>1. IInv => TypeOK
  BY DEF IInv, KeyInv, PoolInv, TypeOK
<1> QED BY <1>1, Invariance, PTL

(* A borrowed client is open and carries its borrower's token.              *)
THEOREM ClientsActForHolders == Spec => []ActsForHolder
<1>1. IInv => ActsForHolder
  BY DEF IInv, PoolInv
<1> QED BY <1>1, Invariance, PTL

(* A client is lent to one request at a time, and is in one place.          *)
THEOREM ClientsExclusive == Spec => []Exclusive
<1>1. IInv => Exclusive
  BY DEF IInv, PoolInv
<1> QED BY <1>1, Invariance, PTL

(* No open connection is forgotten.                                         *)
THEOREM ClientsNotLost == Spec => []NoneLost
<1>1. IInv => NoneLost
  BY DEF IInv, PoolInv
<1> QED BY <1>1, Invariance, PTL

(* The key cache never goes back to an older set.                           *)
THEOREM CacheMonotone == Spec => CacheNeverOlder
<1>1. IInv /\ [Next]_vars => [copied' >= copied]_keyVars
  <2> SUFFICES ASSUME IInv, Next, ~UNCHANGED keyVars PROVE copied' >= copied
    BY DEF vars, keyVars
  <2>1. CASE Rotate
    BY <2>1, KeyTypes DEF Rotate, IInv, KeyInv
  <2>2. CASE \E r \in Requests : Arrive(r) \/ KeyStep(r) \/ Answered(r)
    BY <2>2, NeverOlder DEF IInv
  <2> QED BY <2>1, <2>2 DEF Next, UseDatabase, Respond
<1> QED BY <1>1, Invariance, PTL DEF Spec, CacheNeverOlder

(* No token is refused whose key was published all the while.               *)
THEOREM NoRefusalIsFalse == Spec => NoFalseRefusal
<1> DEFINE A == \A r \in Requests :
                  verify'[r] = "unknown" /\ verify[r] # "unknown" => Unpublished(r)
<1>1. IInv /\ [Next]_vars => [A]_keyVars
  <2> SUFFICES ASSUME IInv, Next, ~UNCHANGED keyVars, NEW q \in Requests,
                      verify'[q] = "unknown", verify[q] # "unknown"
               PROVE  Unpublished(q)
    BY DEF vars, keyVars
  <2>1. CASE \E r \in Requests : Arrive(r) \/ KeyStep(r) \/ Answered(r)
    BY <2>1, RefusalsRight DEF IInv
  <2> QED BY <2>1 DEF Next, UseDatabase, Respond, Rotate
<1>2. NoFalseRefusal <=> [][A]_keyVars
  BY PTL DEF NoFalseRefusal
<1> QED BY <1>1, <1>2, Invariance, PTL DEF Spec

-----------------------------------------------------------------------------
(* Accounts, for any users, of whom any may be older than the triggers, and *)
(* any logins.  A link is mailed to unconfirmed users only, a login in      *)
(* progress has a user who was confirmed when it signed in, and one about   *)
(* to insert a shell has found none, which another may have made since.     *)

LinksOpen == \A u \in links : user[u] = "unconfirmed"

SignedIn ==
    \A l \in Logins : login[l] \in {"find", "insert", "conflict"} =>
        user[whose[l]] \in {"confirmed", "removed"}

Raced(l) ==
    \/ user[whose[l]] = "removed"
    \/ \E k \in Logins \ {l} : whose[k] = whose[l] /\ login[k] \in {"created", "died"}

RowMissing ==
    \A l \in Logins : login[l] = "insert" => profile[whose[l]] = "none" \/ Raced(l)

ShellInv ==
    /\ AccountTypeOK /\ LinksOpen /\ SignedIn /\ RowMissing
    /\ SyncedSinceTriggers /\ NeverToldTooMuch /\ ConflictOnlyIfRaced

LEMMA ShellInvInit == AccountInit => ShellInv
<1> SUFFICES ASSUME AccountInit PROVE ShellInv
  OBVIOUS
<1>1. /\ user \in [Users -> {"absent", "unconfirmed", "confirmed", "removed"}]
      /\ profile \in [Users -> {"none", "unverified", "verified"}]
      /\ links \subseteq Users
      /\ login \in [Logins -> LoginSteps]
      /\ whose \in [Logins -> Users]
      /\ session \in [Logins -> {"none", "live", "revoked"}]
  BY AccountAssumption DEF AccountInit, LoginSteps
<1>2. holds \in [Logins -> BOOLEAN] /\ flag \in [Logins -> BOOLEAN]
  BY DEF AccountInit
<1>3. \A l \in Logins : login[l] = "idle" /\ ~flag[l]
  BY DEF AccountInit
<1>4. LinksOpen
  BY DEF AccountInit, LinksOpen
<1>5. SyncedSinceTriggers
  BY DEF AccountInit, SyncedSinceTriggers, InSync
<1> QED
  BY <1>1, <1>2, <1>3, <1>4, <1>5
  DEF ShellInv, AccountTypeOK, SignedIn, RowMissing, NeverToldTooMuch, ConflictOnlyIfRaced

(* The four parts about logins hold through any step that leaves the logins *)
(* alone, takes no verification back but with its user, moves no signed-in  *)
(* user but to "removed", and makes no row for one.                         *)
LEMMA UserStepKeeps ==
    ASSUME ShellInv, NEW u \in Users,
           UNCHANGED <<login, whose, flag>>,
           \A v \in Users : v # u => user'[v] = user[v] /\ profile'[v] = profile[v],
           user[u] = "removed" => user'[u] = "removed",
           user[u] = "confirmed" =>
              user'[u] = "removed"
                \/ (user'[u] = "confirmed" /\ profile'[u] = profile[u]),
           profile[u] = "verified" => profile'[u] = "verified" \/ user'[u] = "removed"
    PROVE  SignedIn' /\ RowMissing' /\ NeverToldTooMuch' /\ ConflictOnlyIfRaced'
<1>0. \A l \in Logins : whose[l] \in Users
  BY DEF ShellInv, AccountTypeOK
<1>1. \A v \in Users : user[v] = "removed" => user'[v] = "removed"
  OBVIOUS
<1>2. \A l \in Logins : Raced(l) => Raced(l)'
  BY <1>0, <1>1 DEF Raced
<1>3. SignedIn'
  BY <1>0 DEF ShellInv, SignedIn
<1>4. ASSUME NEW l \in Logins, login[l] = "insert"
      PROVE  profile'[whose[l]] = "none" \/ Raced(l)'
  <2>1. profile[whose[l]] = "none" \/ Raced(l)
    BY <1>4 DEF ShellInv, RowMissing
  <2>2. user[whose[l]] \in {"confirmed", "removed"}
    BY <1>4 DEF ShellInv, SignedIn
  <2>3. user'[whose[l]] = "removed" => Raced(l)'
    BY DEF Raced
  <2> QED BY <1>0, <1>1, <1>2, <2>1, <2>2, <2>3
<1>5. NeverToldTooMuch'
  BY <1>0, <1>1 DEF ShellInv, NeverToldTooMuch
<1>6. ConflictOnlyIfRaced'
  BY <1>2 DEF ShellInv, ConflictOnlyIfRaced, Raced
<1> QED BY <1>3, <1>4, <1>5, <1>6 DEF RowMissing

LEMMA AccountStepKeeps == ASSUME ShellInv, NEW u \in Users, AccountStep(u) PROVE ShellInv'
<1>0. /\ user \in [Users -> {"absent", "unconfirmed", "confirmed", "removed"}]
      /\ profile \in [Users -> {"none", "unverified", "verified"}]
      /\ links \subseteq Users
      /\ session \in [Logins -> {"none", "live", "revoked"}]
  BY DEF ShellInv, AccountTypeOK
<1>1. UNCHANGED <<login, whose, holds, flag>>
  BY DEF AccountStep, SignUp, Confirm, Expire, Remove, Resend
<1>2. session' \in [Logins -> {"none", "live", "revoked"}]
  BY <1>0 DEF AccountStep, SignUp, Confirm, Expire, Remove, Resend
<1>3. links' \subseteq Users
  BY <1>0 DEF AccountStep, SignUp, Confirm, Expire, Remove, Resend
<1>4. user' \in [Users -> {"absent", "unconfirmed", "confirmed", "removed"}]
  BY <1>0 DEF AccountStep, SignUp, Confirm, Expire, Remove, Resend
<1>5. profile' \in [Users -> {"none", "unverified", "verified"}]
  BY <1>0 DEF AccountStep, SignUp, Confirm, Expire, Remove, Resend, Shell
<1>6. \A v \in Users : v # u => user'[v] = user[v]
  BY <1>0 DEF AccountStep, SignUp, Confirm, Expire, Remove, Resend
<1>7. \A v \in Users : v # u => profile'[v] = profile[v]
  BY <1>0 DEF AccountStep, SignUp, Confirm, Expire, Remove, Resend, Shell
<1>8. user[u] = "unconfirmed" \/ u \notin links
  BY DEF ShellInv, LinksOpen
<1>9. u \in links' => user'[u] = "unconfirmed"
  BY <1>0, <1>8 DEF AccountStep, SignUp, Confirm, Expire, Remove, Resend
<1>10. LinksOpen'
  <2>1. \A v \in links' : v = u \/ v \in links
    BY DEF AccountStep, SignUp, Confirm, Expire, Remove, Resend
  <2> QED BY <1>0, <1>6, <1>9, <2>1 DEF ShellInv, LinksOpen
<1>11. /\ user[u] = "removed" => user'[u] = "removed"
       /\ user[u] = "confirmed" =>
             user'[u] = "removed" \/ (user'[u] = "confirmed" /\ profile'[u] = profile[u])
       /\ profile[u] = "verified" => profile'[u] = "verified" \/ user'[u] = "removed"
  BY <1>0, <1>8 DEF AccountStep, SignUp, Confirm, Expire, Remove, Resend, Shell
<1>12. InSync(u) => InSync(u)'
  BY <1>0, <1>8 DEF AccountStep, SignUp, Confirm, Expire, Remove, Resend, Shell, InSync
<1>13. SyncedSinceTriggers'
  <2>1. \A v \in Users : InSync(v) => InSync(v)'
    BY <1>6, <1>7, <1>12 DEF InSync
  <2> QED BY <2>1 DEF ShellInv, SyncedSinceTriggers
<1>14. SignedIn' /\ RowMissing' /\ NeverToldTooMuch' /\ ConflictOnlyIfRaced'
  BY <1>1, <1>6, <1>7, <1>11, UserStepKeeps
<1>15. AccountTypeOK'
  BY <1>1, <1>2, <1>3, <1>4, <1>5 DEF ShellInv, AccountTypeOK
<1> QED BY <1>10, <1>13, <1>14, <1>15 DEF ShellInv

(* A login moves itself and its own row only, and makes a row only where    *)
(* one is missing.                                                          *)
LEMMA LoginStepKeeps == ASSUME ShellInv, NEW l \in Logins, LoginStep(l) PROVE ShellInv'
<1> DEFINE u == whose[l]
<1>0. /\ user \in [Users -> {"absent", "unconfirmed", "confirmed", "removed"}]
      /\ profile \in [Users -> {"none", "unverified", "verified"}]
      /\ login \in [Logins -> LoginSteps]
      /\ session \in [Logins -> {"none", "live", "revoked"}]
      /\ \A k \in Logins : whose[k] \in Users
  BY DEF ShellInv, AccountTypeOK
<1>1. UNCHANGED <<user, links, whose>>
  BY DEF LoginStep, SignIn, FindProfile, Answer, InsertProfile, LoginDies, ReadProfile, Logout
<1>2. session' \in [Logins -> {"none", "live", "revoked"}]
  BY <1>0
  DEF LoginStep, SignIn, FindProfile, Answer, InsertProfile, LoginDies, ReadProfile, Logout
<1>3. login' \in [Logins -> LoginSteps]
  BY <1>0 DEF LoginStep, LoginSteps, SignIn, FindProfile, Answer, InsertProfile, LoginDies,
              ReadProfile, Logout
<1>4. profile' \in [Users -> {"none", "unverified", "verified"}]
  BY <1>0
  DEF LoginStep, SignIn, FindProfile, Answer, InsertProfile, LoginDies, ReadProfile, Logout
<1>5. \A k \in Logins : k # l => login'[k] = login[k]
  BY <1>0
  DEF LoginStep, SignIn, FindProfile, Answer, InsertProfile, LoginDies, ReadProfile, Logout
<1>6. profile' = profile \/ /\ profile' = [profile EXCEPT ![u] = "unverified"]
                            /\ Insertable(u) /\ login[l] = "insert"
                            /\ login'[l] \in {"created", "died"}
  BY <1>0
  DEF LoginStep, SignIn, FindProfile, Answer, InsertProfile, LoginDies, ReadProfile, Logout
<1>7. \A v \in Users : /\ profile[v] # "none" => profile'[v] = profile[v]
                       /\ v # u \/ user[v] # "confirmed" => profile'[v] = profile[v]
  BY <1>0, <1>6 DEF Insertable
<1>8. login'[l] = login[l] \/ login[l] \in {"idle", "find", "insert"}
  BY <1>0
  DEF LoginStep, SignIn, FindProfile, Answer, InsertProfile, LoginDies, ReadProfile, Logout
<1>9. login'[l] \in {"find", "insert", "conflict"} => user[u] \in {"confirmed", "removed"}
  BY <1>0
  DEF LoginStep, SignIn, FindProfile, Answer, InsertProfile, LoginDies, ReadProfile, Logout,
      ShellInv, SignedIn
<1>10. SignedIn'
  BY <1>1, <1>5, <1>9 DEF ShellInv, SignedIn
<1>11. \A k \in Logins : Raced(k) => Raced(k)'
  BY <1>1, <1>5, <1>8 DEF Raced
<1>12. RowMissing'
  <2> SUFFICES ASSUME NEW k \in Logins, login'[k] = "insert"
               PROVE  profile'[whose[k]] = "none" \/ Raced(k)'
    BY <1>1 DEF RowMissing
  <2>1. profile[whose[k]] = "none" \/ Raced(k)
    <3>1. CASE login[k] = "insert"
      BY <3>1 DEF ShellInv, RowMissing
    <3>2. CASE login[k] # "insert"
      <4>1. k = l /\ FindProfile(l)
        BY <1>0, <1>5, <3>2
        DEF LoginStep, SignIn, FindProfile, Answer, InsertProfile, LoginDies, ReadProfile,
            Logout
      <4> QED BY <1>0, <3>2, <4>1 DEF FindProfile, Answer
    <3> QED BY <3>1, <3>2
  <2>2. profile'[whose[k]] = profile[whose[k]] \/ Raced(k)'
    BY <1>0, <1>1, <1>6 DEF Raced
  <2> QED BY <1>11, <2>1, <2>2
<1>13. SyncedSinceTriggers'
  <2>1. \A v \in Users : InSync(v) => InSync(v)'
    BY <1>1, <1>7 DEF InSync
  <2> QED BY <2>1 DEF ShellInv, SyncedSinceTriggers
<1>14. flag' \in [Logins -> BOOLEAN]
  BY DEF ShellInv, AccountTypeOK, LoginStep, SignIn, FindProfile, Answer, InsertProfile,
         LoginDies, ReadProfile, Logout
<1>15. holds' \in [Logins -> BOOLEAN]
  BY DEF ShellInv, AccountTypeOK, LoginStep, SignIn, FindProfile, Answer, InsertProfile,
         LoginDies, ReadProfile, Logout
<1>16. AccountTypeOK'
  BY <1>1, <1>2, <1>3, <1>4, <1>14, <1>15 DEF ShellInv, AccountTypeOK
<1>17. \A k \in Logins : flag'[k] => flag[k] \/ profile[whose[k]] = "verified"
  BY DEF ShellInv, AccountTypeOK, LoginStep, SignIn, FindProfile, Answer, InsertProfile,
         LoginDies, ReadProfile, Logout
<1>18. NeverToldTooMuch'
  BY <1>0, <1>1, <1>7, <1>17 DEF ShellInv, NeverToldTooMuch
<1>19. ConflictOnlyIfRaced'
  <2>1. ASSUME NEW k \in Logins, login'[k] = "conflict" PROVE Raced(k)
    <3>1. CASE login[k] = "conflict"
      BY <3>1 DEF ShellInv, ConflictOnlyIfRaced, Raced
    <3>2. CASE login[k] # "conflict"
      <4>1. k = l /\ InsertProfile(l)
        BY <1>0, <1>5, <2>1, <3>2
        DEF LoginStep, SignIn, FindProfile, Answer, InsertProfile, LoginDies, ReadProfile,
            Logout
      <4>2. login[l] = "insert" /\ ~Insertable(u)
        BY <1>0, <2>1, <4>1 DEF InsertProfile, Answer
      <4> QED BY <4>1, <4>2 DEF Insertable, Raced, ShellInv, SignedIn, RowMissing
    <3> QED BY <3>1, <3>2
  <2> QED BY <1>11, <2>1 DEF ConflictOnlyIfRaced, Raced
<1>20. LinksOpen'
  BY <1>1 DEF ShellInv, LinksOpen
<1> QED
  BY <1>10, <1>12, <1>13, <1>16, <1>18, <1>19, <1>20 DEF ShellInv

LEMMA ShellInvariance == AccountSpec => []ShellInv
<1>1. ShellInv /\ [AccountNext]_accountVars => ShellInv'
  <2>1. ASSUME ShellInv, UNCHANGED accountVars PROVE ShellInv'
    BY <2>1
    DEF accountVars, ShellInv, AccountTypeOK, LinksOpen, SignedIn, RowMissing, Raced,
        SyncedSinceTriggers, InSync, NeverToldTooMuch, ConflictOnlyIfRaced
  <2> QED BY <2>1, AccountStepKeeps, LoginStepKeeps DEF AccountNext
<1> QED BY <1>1, ShellInvInit, PTL DEF AccountSpec

(* Users, rows, links and logins keep their types.                          *)
THEOREM AccountsTyped == AccountSpec => []AccountTypeOK
<1>1. ShellInv => AccountTypeOK
  BY DEF ShellInv
<1> QED BY <1>1, ShellInvariance, PTL

(* The row of a user who came after the triggers says at any time what      *)
(* Supabase knows of the address: signups, confirmations, removals and the  *)
(* find-then-insert of any number of logins never part the two (migration   *)
(* 0005, auth/service.py 49-68).                                            *)
THEOREM ProfilesInSync == AccountSpec => []SyncedSinceTriggers
<1>1. ShellInv => SyncedSinceTriggers
  BY DEF ShellInv
<1> QED BY <1>1, ShellInvariance, PTL

(* A client told its address is verified has a verified row, or its user is *)
(* gone: no shell ever replaces a row.                                      *)
THEOREM VerificationIsKept == AccountSpec => []NeverToldTooMuch
<1>1. ShellInv => NeverToldTooMuch
  BY DEF ShellInv
<1> QED BY <1>1, ShellInvariance, PTL

(* A login is refused over its profile only when the user was removed or    *)
(* another login of the same user inserted the row in between.              *)
THEOREM ConflictsAreRaces == AccountSpec => []ConflictOnlyIfRaced
<1>1. ShellInv => ConflictOnlyIfRaced
  BY DEF ShellInv
<1> QED BY <1>1, ShellInvariance, PTL
=============================================================================
