----------------------------- MODULE QuotaProofs -----------------------------
(****************************************************************************)
(* Theorems about Quota, for any files, sizes, caps and requests.           *)
(****************************************************************************)
EXTENDS Quota, FiniteSetTheorems, TLAPS

USE DEF Adjust

LEMMA TypeInit == Init => TypeOK
  <1> SUFFICES ASSUME Init PROVE TypeOK
    OBVIOUS
  <1>1. verified \in BOOLEAN
    BY DEF Init
  <1>2. /\ usage \in Int
        /\ status \in [Files -> {"none", "committed", "deleting"}]
        /\ pc \in [Files -> UploadSteps]
        /\ del \in [Files \X Requests -> DeleteSteps]
        /\ deficit \in [Files \X Requests -> Nat]
    BY DEF Init, UploadSteps, DeleteSteps
  <1> QED BY <1>1, <1>2 DEF TypeOK

LEMMA TypeUpload ==
  ASSUME TypeOK, NEW f \in Files, Upload(f)
  PROVE  TypeOK'
  <1> USE ConstantsAssumption DEF TypeOK, UploadSteps, Goto
  <1>1. CASE CheckProfile(f)  BY <1>1 DEF CheckProfile
  <1>2. CASE CheckUsage(f)    BY <1>2 DEF CheckUsage
  <1>3. CASE Store(f)         BY <1>3 DEF Store
  <1>4. CASE StoreFails(f)    BY <1>4 DEF StoreFails
  <1>5. CASE Charge(f)        BY <1>5 DEF Charge
  <1>6. CASE ChargeFails(f)   BY <1>6 DEF ChargeFails
  <1> QED BY <1>1, <1>2, <1>3, <1>4, <1>5, <1>6 DEF Upload

LEMMA TypeDelete ==
  ASSUME TypeOK, NEW q \in Files \X Requests, Delete(q)
  PROVE  TypeOK'
  <1> USE ConstantsAssumption DEF TypeOK, DeleteSteps, Step
  <1>0. q[1] \in Files
    OBVIOUS
  <1>1. CASE DeleteLoad(q)   BY <1>1 DEF DeleteLoad
  <1>2. CASE DeleteMark(q)   BY <1>0, <1>2 DEF DeleteMark
  <1>3. CASE Refund(q)       BY <1>0, <1>3 DEF Refund
  <1>4. CASE Floor(q)        BY <1>4 DEF Floor
  <1>5. CASE DeleteFails(q)  BY <1>5 DEF DeleteFails
  <1> QED BY <1>1, <1>2, <1>3, <1>4, <1>5 DEF Delete

LEMMA TypeStep == TypeOK /\ [Next]_vars => TypeOK'
  <1>1. ASSUME TypeOK, UNCHANGED vars PROVE TypeOK'
    BY <1>1 DEF TypeOK, vars
  <1>2. ASSUME TypeOK, Verify PROVE TypeOK'
    BY <1>2 DEF TypeOK, Verify
  <1> QED BY <1>1, <1>2, TypeUpload, TypeDelete DEF Next

(* The variables of the account keep their types; a deficit is never        *)
(* negative, so no floor ever lowers the total.                             *)
THEOREM TypeCorrect == Spec => []TypeOK
  BY TypeInit, TypeStep, PTL DEF Spec

-----------------------------------------------------------------------------

(* The refund that is to lift the total, or was to: it saw the lowest total,*)
(* and every other update since has raised it or become the lowest itself.  *)
Lifts(q) == (del[q] = "floor" \/ q \in Unfloored) /\ usage + deficit[q] >= 0

LEMMA FloorStep ==
  ASSUME TypeOK, FloorPending, [Next]_vars
  PROVE  FloorPending'
  <1> USE ConstantsAssumption DEF TypeOK, Unfloored, Refunded
  <1> SUFFICES ASSUME usage' < 0
               PROVE  \E q \in Files \X Requests : Lifts(q)'
    BY DEF FloorPending, Lifts
  <1>1. CASE UNCHANGED <<usage, del, deficit>>
    <2>1. PICK q \in Files \X Requests : Lifts(q)
      BY <1>1 DEF FloorPending, Lifts
    <2> QED BY <1>1, <2>1 DEF Lifts
  <1>2. ASSUME NEW f \in Files, Charge(f) PROVE \E q \in Files \X Requests : Lifts(q)'
    <2>1. usage' = usage + Size[f] /\ Size[f] \in Nat /\ UNCHANGED <<del, deficit>>
      BY <1>2 DEF Charge
    <2>2. PICK q \in Files \X Requests : Lifts(q)
      BY <2>1 DEF FloorPending, Lifts
    <2>3. usage' + deficit[q] >= 0
      BY <2>1, <2>2 DEF Lifts
    <2> QED BY <2>1, <2>2, <2>3 DEF Lifts
  <1>3. ASSUME NEW p \in Files \X Requests, Refund(p)
        PROVE  \E q \in Files \X Requests : Lifts(q)'
    <2>1. Lifts(p)'
      BY <1>3 DEF Refund, Step, Lifts
    <2> QED BY <2>1
  <1>4. ASSUME NEW p \in Files \X Requests, Floor(p)
        PROVE  \E q \in Files \X Requests : Lifts(q)'
    <2>1. usage' = usage + deficit[p] /\ del[p] = "floor"
      BY <1>4 DEF Floor, Step
    <2>2. PICK q \in Files \X Requests : Lifts(q)
      BY <2>1 DEF FloorPending, Lifts
    <2>3. q # p
      BY <2>1, <2>2 DEF Lifts
    <2>4. del'[q] = del[q] /\ deficit'[q] = deficit[q]
      BY <1>4, <2>3 DEF Floor, Step
    <2>5. usage' + deficit[q] >= 0
      BY <2>1, <2>2 DEF Lifts
    <2> QED BY <2>2, <2>4, <2>5 DEF Lifts
  <1>5. ASSUME NEW p \in Files \X Requests, DeleteLoad(p) \/ DeleteMark(p) \/ DeleteFails(p)
        PROVE  \E q \in Files \X Requests : Lifts(q)'
    <2>1. UNCHANGED <<usage, deficit>>
      BY <1>5 DEF DeleteLoad, DeleteMark, DeleteFails
    <2>2. PICK q \in Files \X Requests : Lifts(q)
      BY <2>1 DEF FloorPending, Lifts
    <2>3. deficit[q] > 0
      BY <2>1, <2>2 DEF Lifts
    <2>4. \/ del'[q] = del[q]
          \/ del[q] = "floor" /\ del'[q] = "done"
      BY <1>5, <2>2 DEF DeleteLoad, DeleteMark, DeleteFails, Step, Lifts
    <2> QED BY <2>1, <2>2, <2>3, <2>4 DEF Lifts
  <1>6. \/ UNCHANGED <<usage, del, deficit>>
        \/ \E f \in Files : Charge(f)
        \/ \E p \in Files \X Requests :
              Refund(p) \/ Floor(p) \/ DeleteLoad(p) \/ DeleteMark(p) \/ DeleteFails(p)
    BY DEF Next, vars, Verify, Upload, CheckProfile, CheckUsage, Store, StoreFails,
           ChargeFails, Delete
  <1> QED BY <1>1, <1>2, <1>3, <1>4, <1>5, <1>6

(* A total below zero is always about to be lifted, unless a second update  *)
(* was lost: two statements that are atomic only one by one add up to a     *)
(* floor, for any number of overlapping refunds and charges.                *)
THEOREM FloorIsRestored == Spec => []FloorPending
  <1>1. Init => FloorPending
    BY DEF Init, FloorPending
  <1> QED BY <1>1, TypeInit, TypeStep, FloorStep, PTL DEF Spec

-----------------------------------------------------------------------------
(****************************************************************************)
(* Sums of sizes.  A sum is the number of bytes in a finite set of things   *)
(* that each have a size, so it grows by the size of what is added and      *)
(* shrinks by the size of what is taken away.                               *)
(****************************************************************************)

LEMMA BytesOf ==
  ASSUME NEW S, NEW size, NEW b
  PROVE  b \in ByteSet(S, size) <=> \E x \in S : b \in {x} \X (1..size[x])
  BY DEF ByteSet

LEMMA OneFile ==
  ASSUME NEW x, NEW n \in Nat
  PROVE  IsFiniteSet({x} \X (1..n)) /\ Cardinality({x} \X (1..n)) = n
  <1>1. IsFiniteSet(1..n) /\ Cardinality(1..n) = n
    BY FS_Interval
  <1>2. IsFiniteSet({x}) /\ Cardinality({x}) = 1
    BY FS_Singleton
  <1>3. /\ IsFiniteSet({x} \X (1..n))
        /\ Cardinality({x} \X (1..n)) = Cardinality({x}) * Cardinality(1..n)
    BY <1>1, <1>2, FS_Product
  <1>4. 1 * n = n
    OBVIOUS
  <1> QED BY <1>1, <1>2, <1>3, <1>4

LEMMA ByteSetFinite ==
  ASSUME NEW S, IsFiniteSet(S), NEW size, \A x \in S : size[x] \in Nat
  PROVE  IsFiniteSet(ByteSet(S, size))
  <1> DEFINE block == [x \in S |-> {x} \X (1..size[x])]
             T == {{x} \X (1..size[x]) : x \in S}
  <1>1. block \in Surjection(S, T)
    <2>1. block \in [S -> T]
      OBVIOUS
    <2>2. ASSUME NEW t \in T PROVE \E x \in S : block[x] = t
      BY <2>2
    <2> HIDE DEF block, T
    <2> QED BY <2>1, <2>2 DEF Surjection
  <1>2. IsFiniteSet(T)
    <2> HIDE DEF block, T
    <2> QED BY <1>1, FS_Surjection
  <1>3. ASSUME NEW t \in T PROVE IsFiniteSet(t)
    <2>1. PICK x \in S : t = {x} \X (1..size[x])
      BY <1>3
    <2> QED BY <2>1, OneFile
  <1>4. IsFiniteSet(UNION T)
    <2> HIDE DEF T
    <2> QED BY <1>2, <1>3, FS_UNION
  <1> QED BY <1>4 DEF ByteSet

LEMMA BytesNat ==
  ASSUME NEW S, IsFiniteSet(S), NEW size, \A x \in S : size[x] \in Nat
  PROVE  Bytes(S, size) \in Nat
  BY ByteSetFinite, FS_CardinalityType DEF Bytes

LEMMA BytesEmpty == ASSUME NEW size PROVE Bytes({}, size) = 0
  <1>1. ByteSet({}, size) = {}
    BY DEF ByteSet
  <1> QED BY <1>1, FS_EmptySet DEF Bytes

(* What a thing that joins adds to the sum.                                 *)
LEMMA BytesAdd ==
  ASSUME NEW S, IsFiniteSet(S), NEW size, \A x \in S : size[x] \in Nat,
         NEW y, y \notin S, size[y] \in Nat
  PROVE  Bytes(S \cup {y}, size) = Bytes(S, size) + size[y]
  <1> DEFINE A == ByteSet(S, size)
             B == {y} \X (1..size[y])
  <1>1. ByteSet(S \cup {y}, size) = A \cup B
    BY DEF ByteSet
  <1>2. A \cap B = {}
    <2>1. ASSUME NEW b \in A, b \in B PROVE FALSE
      <3>1. PICK x \in S : b \in {x} \X (1..size[x])
        BY <2>1, BytesOf
      <3> QED BY <2>1, <3>1
    <2> QED BY <2>1
  <1>3. IsFiniteSet(A)
    BY ByteSetFinite
  <1>4. IsFiniteSet(B) /\ Cardinality(B) = size[y]
    BY OneFile
  <1>5. Cardinality(A) \in Nat
    BY <1>3, FS_CardinalityType
  <1>6. Cardinality(A \cup B) = Cardinality(A) + Cardinality(B) - Cardinality(A \cap B)
    <2> HIDE DEF A, B
    <2> QED BY <1>3, <1>4, FS_Union
  <1>7. Cardinality(A \cap B) = 0
    BY <1>2, FS_EmptySet
  <1> HIDE DEF A, B
  <1>8. Cardinality(A \cup B) = Cardinality(A) + size[y]
    BY <1>4, <1>5, <1>6, <1>7
  <1> QED BY <1>1, <1>8 DEF Bytes, A

LEMMA BytesRemove ==
  ASSUME NEW S, IsFiniteSet(S), NEW size, \A x \in S : size[x] \in Nat,
         NEW y \in S
  PROVE  Bytes(S, size) = Bytes(S \ {y}, size) + size[y]
  <1> DEFINE T == S \ {y}
  <1>1. IsFiniteSet(T) /\ y \notin T /\ T \cup {y} = S /\ (\A x \in T : size[x] \in Nat)
    BY FS_RemoveElement
  <1> HIDE DEF T
  <1>2. Bytes(T \cup {y}, size) = Bytes(T, size) + size[y]
    BY <1>1, BytesAdd
  <1> QED BY <1>1, <1>2 DEF T

(* A sum of k sizes that are each at most m is at most k times m.           *)
LEMMA BytesAtMost ==
  ASSUME NEW S, IsFiniteSet(S), NEW size, NEW m \in Nat,
         \A x \in S : size[x] \in Nat /\ size[x] <= m
  PROVE  Bytes(S, size) <= Cardinality(S) * m
  <1>1. ByteSet(S, size) \subseteq S \X (1..m)
    BY DEF ByteSet
  <1>2. IsFiniteSet(1..m) /\ Cardinality(1..m) = m
    BY FS_Interval
  <1>3. /\ IsFiniteSet(S \X (1..m))
        /\ Cardinality(S \X (1..m)) = Cardinality(S) * Cardinality(1..m)
    BY <1>2, FS_Product
  <1>4. Cardinality(ByteSet(S, size)) <= Cardinality(S \X (1..m))
    BY <1>1, <1>3, FS_Subset
  <1> QED BY <1>2, <1>3, <1>4 DEF Bytes

-----------------------------------------------------------------------------
(****************************************************************************)
(* The inductive invariants.  A charge is due from the moment the bytes are *)
(* stored until Charge makes it, and for ever if it is lost; the sums below *)
(* count what is due with what has been done, so that no step changes the   *)
(* balance except a floor, which adds to it.                                *)
(****************************************************************************)

Touched  == {f \in Files : pc[f] # "idle"}
Made     == {q \in Files \X Requests : del[q] # "idle"}
Due      == {f \in EverStored : pc[f] \in {"charge", "failed"}}
Pending  == {f \in Files : pc[f] \in {"admitted", "charge"}}

(* Only finitely many uploads and deletes have begun, however many there    *)
(* may be, so the sums are sums.                                            *)
FinitelyMany == IsFiniteSet(Touched) /\ IsFiniteSet(Made)

(* An upload charges only what it has stored; a delete finds its file only  *)
(* once it is stored, and has marked it by the time it refunds it.          *)
InOrder ==
    /\ \A f \in Files : pc[f] = "charge" => status[f] # "none"
    /\ \A f \in Files : pc[f] \in {"idle", "usage", "admitted"} => status[f] = "none"
    /\ \A q \in Files \X Requests :
          /\ del[q] # "idle" => status[q[1]] # "none"
          /\ del[q] \in {"refund", "floor", "done"} => status[q[1]] = "deleting"

(* The books: charges made, due or lost, and refunds made, cover what was   *)
(* stored.                                                                  *)
Balanced ==
    usage + Bytes(Due, Size) + Bytes(Refunded, RefundSize) >= Bytes(EverStored, Size)

Untouched == ~verified /\ \A f \in Files : Asked(f) = {}

(* The gate counts what it sees; at most Parallel - 1 admitted uploads are  *)
(* not yet in the total it reads.                                           *)
WithinBatch ==
    /\ Cardinality(InFlight) <= Parallel
    /\ Untouched =>
          /\ \A f \in Pending : Size[f] <= MaxFileSize
          /\ usage + Bytes(Pending, Size) <= Cap + (Parallel - 1) * MaxFileSize

LEMMA FinitelyManyStep ==
  ASSUME TypeOK, FinitelyMany, [Next]_vars
  PROVE  FinitelyMany'
  <1> USE DEF FinitelyMany
  <1>1. ASSUME NEW f \in Files, Upload(f) PROVE FinitelyMany'
    <2>1. UNCHANGED del /\ \A g \in Files : g # f => pc'[g] = pc[g]
      BY <1>1 DEF TypeOK, Upload, CheckProfile, CheckUsage, Store, StoreFails, Charge,
             ChargeFails, Goto
    <2>2. Touched' \subseteq Touched \cup {f} /\ Made' = Made
      BY <2>1 DEF Touched, Made
    <2>3. IsFiniteSet(Touched \cup {f})
      BY FS_AddElement
    <2> QED BY <2>2, <2>3, FS_Subset
  <1>2. ASSUME NEW q \in Files \X Requests, Delete(q) PROVE FinitelyMany'
    <2>1. UNCHANGED pc /\ \A p \in Files \X Requests : p # q => del'[p] = del[p]
      BY <1>2 DEF TypeOK, Delete, DeleteLoad, DeleteMark, Refund, Floor, DeleteFails, Step
    <2>2. Made' \subseteq Made \cup {q} /\ Touched' = Touched
      BY <2>1 DEF Touched, Made
    <2>3. IsFiniteSet(Made \cup {q})
      BY FS_AddElement
    <2> QED BY <2>2, <2>3, FS_Subset
  <1>3. CASE UNCHANGED <<pc, del>>
    BY <1>3 DEF Touched, Made
  <1> QED BY <1>1, <1>2, <1>3 DEF Next, vars, Verify

LEMMA InOrderStep ==
  ASSUME TypeOK, InOrder, [Next]_vars
  PROVE  InOrder'
  <1> USE DEF InOrder
  <1>1. ASSUME NEW f \in Files, Upload(f) PROVE InOrder'
    <2>1. CASE CheckProfile(f) \/ CheckUsage(f)
      BY <2>1 DEF TypeOK, CheckProfile, CheckUsage, Goto
    <2>2. CASE StoreFails(f) \/ Charge(f) \/ ChargeFails(f)
      BY <2>2 DEF TypeOK, StoreFails, Charge, ChargeFails, Goto
    <2>3. CASE Store(f)
      <3>1. /\ status' = [status EXCEPT ![f] = "committed"] /\ pc' = [pc EXCEPT ![f] = "charge"]
            /\ UNCHANGED del /\ status[f] = "none"
        BY <2>3 DEF Store, Goto
      <3>2. \A q \in Files \X Requests : q[1] = f => del[q] = "idle"
        BY <3>1
      <3>3. \A q \in Files \X Requests : q[1] \in Files
        OBVIOUS
      <3> QED BY <3>1, <3>2, <3>3 DEF TypeOK
    <2> QED BY <1>1, <2>1, <2>2, <2>3 DEF Upload
  <1>2. ASSUME NEW q \in Files \X Requests, Delete(q) PROVE InOrder'
    <2>0. q[1] \in Files /\ \A p \in Files \X Requests : p[1] \in Files
      OBVIOUS
    <2>1. CASE DeleteLoad(q)
      BY <2>0, <2>1 DEF TypeOK, DeleteLoad, Step
    <2>2. CASE DeleteMark(q)
      <3>1. /\ status' = [status EXCEPT ![q[1]] = "deleting"] /\ UNCHANGED pc
            /\ del' = [del EXCEPT ![q] = "refund"] /\ status[q[1]] # "none"
        BY <2>2 DEF DeleteMark, Step
      <3> QED BY <2>0, <3>1 DEF TypeOK
    <2>3. CASE Refund(q)
      <3>1. /\ UNCHANGED <<status, pc>> /\ del[q] = "refund"
            /\ \/ del' = [del EXCEPT ![q] = "floor"]
               \/ del' = [del EXCEPT ![q] = "done"]
        BY <2>3 DEF Refund, Step
      <3> QED BY <2>0, <3>1 DEF TypeOK
    <2>4. CASE Floor(q)
      BY <2>0, <2>4 DEF TypeOK, Floor, Step
    <2>5. CASE DeleteFails(q)
      <3>1. /\ UNCHANGED <<status, pc>> /\ del[q] # "idle"
            /\ \/ del' = [del EXCEPT ![q] = "failed"]
               \/ del[q] = "floor" /\ del' = [del EXCEPT ![q] = "done"]
        BY <2>5 DEF DeleteFails, Step
      <3> QED BY <2>0, <3>1 DEF TypeOK
    <2> QED BY <1>2, <2>1, <2>2, <2>3, <2>4, <2>5 DEF Delete
  <1>3. CASE UNCHANGED <<pc, del, status>>
    BY <1>3
  <1> QED BY <1>1, <1>2, <1>3 DEF Next, vars, Verify

(* The sets the sums range over are finite, and their members have sizes.   *)
LEMMA SumsDefined ==
  ASSUME TypeOK, FinitelyMany, InOrder
  PROVE  /\ IsFiniteSet(Due) /\ IsFiniteSet(Pending) /\ IsFiniteSet(InFlight)
         /\ IsFiniteSet(Refunded) /\ IsFiniteSet(EverStored)
         /\ \A f \in Files : Size[f] \in Nat
         /\ \A q \in Files \X Requests : RefundSize[q] = Size[q[1]] /\ RefundSize[q] \in Nat
  <1>1. /\ Due \subseteq Touched /\ Pending \subseteq Touched
        /\ InFlight \subseteq Touched /\ EverStored \subseteq Touched
    BY DEF InOrder, Due, Pending, InFlight, EverStored, Touched
  <1>2. Refunded \subseteq Made
    BY DEF Refunded, Made
  <1>3. \A f \in Files : Size[f] \in Nat
    BY ConstantsAssumption
  <1>4. \A q \in Files \X Requests : RefundSize[q] = Size[q[1]] /\ q[1] \in Files
    BY DEF RefundSize
  <1>5. IsFiniteSet(Refunded)
    BY <1>2, FS_Subset DEF FinitelyMany
  <1>6. IsFiniteSet(Due) /\ IsFiniteSet(Pending)
    BY <1>1, FS_Subset DEF FinitelyMany
  <1>7. IsFiniteSet(InFlight) /\ IsFiniteSet(EverStored)
    BY <1>1, FS_Subset DEF FinitelyMany
  <1> QED BY <1>3, <1>4, <1>5, <1>6, <1>7
LEMMA BalancedUpload ==
  ASSUME TypeOK, FinitelyMany, InOrder, Balanced, NEW f \in Files, Upload(f)
  PROVE  Balanced'
  <1> DEFINE due == Bytes(Due, Size)
             back == Bytes(Refunded, RefundSize)
             held == Bytes(EverStored, Size)
  <1>0. /\ usage \in Int /\ due \in Nat /\ back \in Nat /\ held \in Nat /\ Size[f] \in Nat
    <2>1. due \in Nat
      BY SumsDefined, BytesNat DEF Due, EverStored
    <2>2. back \in Nat
      BY SumsDefined, BytesNat DEF Refunded
    <2>3. held \in Nat
      BY SumsDefined, BytesNat DEF EverStored
    <2> QED BY <2>1, <2>2, <2>3, SumsDefined DEF TypeOK
  <1>1. usage + due + back >= held
    BY DEF Balanced
  <1>2. back' = back
    <2>1. Refunded' = Refunded
      BY DEF Upload, CheckProfile, CheckUsage, Store, StoreFails, Charge, ChargeFails, Refunded
    <2> QED BY <2>1
  <1>3. CASE CheckProfile(f) \/ CheckUsage(f) \/ StoreFails(f) \/ ChargeFails(f)
    <2>1. UNCHANGED <<usage, status>> /\ Due' = Due
      BY <1>3 DEF TypeOK, InOrder, CheckProfile, CheckUsage, StoreFails, ChargeFails, Goto,
                  EverStored, Due
    <2>2. EverStored' = EverStored
      BY <2>1 DEF EverStored
    <2>3. due' = due /\ held' = held
      BY <2>1, <2>2
    <2> HIDE DEF due, back, held
    <2> SUFFICES (usage + due + back >= held)'
      BY DEF Balanced, due, back, held
    <2> QED BY <1>1, <1>2, <2>1, <2>3
  <1>4. CASE Store(f)
    <2>1. /\ UNCHANGED usage /\ f \notin Due /\ f \notin EverStored
          /\ Due' = Due \cup {f} /\ EverStored' = EverStored \cup {f}
      BY <1>4 DEF TypeOK, InOrder, Store, Goto, Due, EverStored
    <2>2. due' = due + Size[f]
      <3>1. IsFiniteSet(Due) /\ Size[f] \in Nat /\ \A g \in Due : Size[g] \in Nat
        BY SumsDefined DEF Due, EverStored
      <3>2. Bytes(Due \cup {f}, Size) = Bytes(Due, Size) + Size[f]
        BY <2>1, <3>1, BytesAdd
      <3> QED BY <2>1, <3>2
    <2>3. held' = held + Size[f]
      <3>1. IsFiniteSet(EverStored) /\ Size[f] \in Nat /\ \A g \in EverStored : Size[g] \in Nat
        BY SumsDefined DEF EverStored
      <3>2. Bytes(EverStored \cup {f}, Size) = Bytes(EverStored, Size) + Size[f]
        BY <2>1, <3>1, BytesAdd
      <3> QED BY <2>1, <3>2
    <2> HIDE DEF due, back, held
    <2> SUFFICES (usage + due + back >= held)'
      BY DEF Balanced, due, back, held
    <2> QED BY <1>0, <1>1, <1>2, <2>1, <2>2, <2>3
  <1>5. CASE Charge(f)
    <2>1. /\ UNCHANGED status /\ usage' = usage + Size[f] /\ f \in Due
          /\ Due' = Due \ {f}
      BY <1>5 DEF TypeOK, InOrder, Charge, Goto, EverStored, Due
    <2>2. due = due' + Size[f]
      BY <2>1, SumsDefined, BytesRemove DEF Due, EverStored
    <2>3. held' = held
      BY <2>1 DEF EverStored
    <2>4. due' \in Nat
      <3>1. IsFiniteSet(Due') /\ Due' \subseteq Files
        BY <2>1, SumsDefined, FS_RemoveElement DEF Due, EverStored
      <3> QED BY <3>1, SumsDefined, BytesNat
    <2> HIDE DEF due, back, held
    <2> SUFFICES (usage + due + back >= held)'
      BY DEF Balanced, due, back, held
    <2> QED BY <1>0, <1>1, <1>2, <2>1, <2>2, <2>3, <2>4
  <1> QED BY <1>3, <1>4, <1>5 DEF Upload

LEMMA BalancedDelete ==
  ASSUME TypeOK, FinitelyMany, InOrder, Balanced, NEW q \in Files \X Requests, Delete(q)
  PROVE  Balanced'
  <1> DEFINE due == Bytes(Due, Size)
             back == Bytes(Refunded, RefundSize)
             held == Bytes(EverStored, Size)
  <1>0. /\ usage \in Int /\ due \in Nat /\ back \in Nat /\ held \in Nat
        /\ q[1] \in Files /\ Size[q[1]] \in Nat /\ deficit[q] \in Nat
    <2>1. due \in Nat
      BY SumsDefined, BytesNat DEF Due, EverStored
    <2>2. back \in Nat
      BY SumsDefined, BytesNat DEF Refunded
    <2>3. held \in Nat
      BY SumsDefined, BytesNat DEF EverStored
    <2>4. q[1] \in Files
      OBVIOUS
    <2> QED BY <2>1, <2>2, <2>3, <2>4, SumsDefined DEF TypeOK
  <1>1. usage + due + back >= held
    BY DEF Balanced
  <1>2. EverStored' = EverStored
    <2>1. CASE DeleteMark(q)
      BY <1>0, <2>1 DEF TypeOK, InOrder, DeleteMark, Step, EverStored
    <2>2. CASE UNCHANGED status
      BY <2>2 DEF EverStored
    <2> QED BY <2>1, <2>2 DEF Delete, DeleteLoad, Refund, Floor, DeleteFails
  <1>3. due' = due
    <2>1. UNCHANGED pc
      BY DEF Delete, DeleteLoad, DeleteMark, Refund, Floor, DeleteFails
    <2>2. Due' = Due
      BY <1>2, <2>1 DEF Due
    <2> QED BY <2>2
  <1>4. held' = held
    BY <1>2
  <1>5. CASE DeleteLoad(q) \/ DeleteMark(q)
    <2>1. UNCHANGED usage /\ Refunded' = Refunded
      BY <1>5 DEF TypeOK, DeleteLoad, DeleteMark, Step, Refunded
    <2>2. back' = back
      BY <2>1
    <2> HIDE DEF due, back, held
    <2> SUFFICES (usage + due + back >= held)'
      BY DEF Balanced, due, back, held
    <2> QED BY <1>1, <1>3, <1>4, <2>1, <2>2
  <1>6. CASE Refund(q)
    <2>1. /\ usage' = usage - Size[q[1]] /\ q \notin Refunded
          /\ \/ del' = [del EXCEPT ![q] = "floor"]
             \/ del' = [del EXCEPT ![q] = "done"]
      BY <1>6 DEF Refund, Step, Refunded
    <2>2. Refunded' = Refunded \cup {q}
      BY <2>1 DEF TypeOK, Refunded
    <2>3. back' = back + Size[q[1]]
      <3>1. IsFiniteSet(Refunded) /\ \A p \in Refunded : RefundSize[p] \in Nat
        BY SumsDefined DEF Refunded
      <3>2. RefundSize[q] = Size[q[1]] /\ RefundSize[q] \in Nat
        BY SumsDefined
      <3>3. Bytes(Refunded \cup {q}, RefundSize) = Bytes(Refunded, RefundSize) + RefundSize[q]
        BY <2>1, <3>1, <3>2, BytesAdd
      <3> QED BY <2>2, <3>2, <3>3
    <2> HIDE DEF due, back, held
    <2> SUFFICES (usage + due + back >= held)'
      BY DEF Balanced, due, back, held
    <2> QED BY <1>0, <1>1, <1>3, <1>4, <2>1, <2>3
  <1>7. CASE Floor(q)
    <2>1. usage' = usage + deficit[q] /\ Refunded' = Refunded
      BY <1>7 DEF TypeOK, Floor, Step, Refunded
    <2>2. back' = back
      BY <2>1
    <2> HIDE DEF due, back, held
    <2> SUFFICES (usage + due + back >= held)'
      BY DEF Balanced, due, back, held
    <2> QED BY <1>0, <1>1, <1>3, <1>4, <2>1, <2>2
  <1>8. CASE DeleteFails(q)
    <2>1. UNCHANGED usage /\ Refunded' = Refunded
      BY <1>8 DEF TypeOK, DeleteFails, Step, Refunded
    <2>2. back' = back
      BY <2>1
    <2> HIDE DEF due, back, held
    <2> SUFFICES (usage + due + back >= held)'
      BY DEF Balanced, due, back, held
    <2> QED BY <1>1, <1>3, <1>4, <2>1, <2>2
  <1> QED BY <1>5, <1>6, <1>7, <1>8 DEF Delete
LEMMA BalancedStep ==
  ASSUME TypeOK, FinitelyMany, InOrder, Balanced, [Next]_vars
  PROVE  Balanced'
  <1>1. CASE UNCHANGED <<usage, pc, status, del>>
    <2>1. Due' = Due /\ Refunded' = Refunded /\ EverStored' = EverStored
      BY <1>1 DEF Due, Refunded, EverStored
    <2> QED BY <1>1, <2>1 DEF Balanced
  <1> QED BY <1>1, BalancedUpload, BalancedDelete DEF Next, vars, Verify

BooksInv == TypeOK /\ FinitelyMany /\ InOrder /\ Balanced

LEMMA BooksInit == Init => BooksInv
  <1> SUFFICES ASSUME Init PROVE BooksInv
    OBVIOUS
  <1>1. TypeOK
    BY TypeInit
  <1>2. Touched = {} /\ Made = {} /\ Due = {} /\ Refunded = {} /\ EverStored = {}
    BY DEF Init, Touched, Made, Due, Refunded, EverStored
  <1>3. FinitelyMany
    BY <1>2, FS_EmptySet DEF FinitelyMany
  <1>4. InOrder
    BY DEF Init, InOrder
  <1>5. Balanced
    <2>1. Bytes({}, Size) = 0 /\ Bytes({}, RefundSize) = 0
      BY BytesEmpty
    <2> QED BY <1>2, <2>1 DEF Balanced, Init
  <1> QED BY <1>1, <1>3, <1>4, <1>5 DEF BooksInv

LEMMA BooksAlways == Spec => []BooksInv
  <1>1. BooksInv /\ [Next]_vars => BooksInv'
    BY TypeStep, FinitelyManyStep, InOrderStep, BalancedStep DEF BooksInv
  <1> QED BY <1>1, BooksInit, PTL DEF Spec

(* However many uploads and deletes overlap or lose a call, and however     *)
(* often a file is deleted, the total, what was refunded and the files never*)
(* charged cover all that was ever stored.                                  *)
THEOREM RefundsAlwaysAddUp == Spec => []RefundsAddUp
  <1>1. BooksInv => RefundsAddUp
    <2> SUFFICES ASSUME BooksInv, Settled
                 PROVE  usage + Bytes(Refunded, RefundSize) + Bytes(Uncharged, Size)
                           >= Bytes(EverStored, Size)
      BY DEF RefundsAddUp
    <2>1. Due = Uncharged
      BY DEF Settled, Due, Uncharged, EverStored
    <2>2. Bytes(Uncharged, Size) \in Nat
      BY <2>1, SumsDefined, BytesNat DEF BooksInv, Due, EverStored
    <2>3. usage \in Int
      BY DEF BooksInv, TypeOK
    <2>4. Bytes(Refunded, RefundSize) \in Nat
      BY SumsDefined, BytesNat DEF BooksInv, Refunded
    <2> QED BY <2>1, <2>2, <2>3, <2>4 DEF BooksInv, Balanced
  <1> QED BY <1>1, BooksAlways, PTL

(* Where every file is deleted at most once, the refunds of a settled       *)
(* account come to no more than its deleted files.                          *)
LEMMA RefundsOnce ==
  ASSUME BooksInv, Settled, AskedOnce
  PROVE  Bytes(EverStored, Size) >= Bytes(Committed, Size) + Bytes(Refunded, RefundSize)
  <1> DEFINE C == ByteSet(Committed, Size)
             R == ByteSet(Refunded, RefundSize)
             E == ByteSet(EverStored, Size)
             Gone == {f \in Files : status[f] = "deleting"}
             G == ByteSet(Gone, Size)
  <1>1. IsFiniteSet(E)
    BY SumsDefined, ByteSetFinite DEF BooksInv, EverStored
  <1>2. C \subseteq E /\ G \subseteq E
    BY DEF Committed, EverStored, ByteSet
  <1>3. C \cap G = {}
    <2>1. ASSUME NEW x \in C, x \in G PROVE FALSE
      <3>1. PICK f \in Committed : x \in {f} \X (1..Size[f])
        BY <2>1, BytesOf
      <3>2. PICK g \in Gone : x \in {g} \X (1..Size[g])
        BY <2>1, BytesOf
      <3> QED BY <3>1, <3>2 DEF Committed
    <2> QED BY <2>1
  <1>4. IsFiniteSet(C) /\ IsFiniteSet(G)
    BY <1>1, <1>2, FS_Subset
  <1>5. Cardinality(C) + Cardinality(G) <= Cardinality(E)
    <2>1. Cardinality(C \cap G) = 0
      BY <1>3, FS_EmptySet
    <2>2. Cardinality(C) \in Nat /\ Cardinality(G) \in Nat
      BY <1>4, FS_CardinalityType
    <2>3. Cardinality(C \cup G) = Cardinality(C) + Cardinality(G) - Cardinality(C \cap G)
      BY <1>4, FS_Union
    <2>4. Cardinality(C \cup G) <= Cardinality(E)
      BY <1>1, <1>2, FS_Subset
    <2>5. Cardinality(C \cup G) = Cardinality(C) + Cardinality(G)
      BY <2>1, <2>2, <2>3
    <2> QED BY <2>4, <2>5
  <1>6. Cardinality(R) <= Cardinality(G)
    <2> DEFINE at == [x \in R |-> <<x[1][1], x[2]>>]
    <2>1. ASSUME NEW x \in R
          PROVE  \E q \in Refunded : /\ x \in {q} \X (1..Size[q[1]]) /\ q[1] \in Gone
                                     /\ q = <<q[1], q[2]>> /\ q[2] \in Asked(q[1])
      <3>1. PICK q \in Refunded : x \in {q} \X (1..RefundSize[q])
        BY <2>1, BytesOf
      <3>2. /\ q \in Files \X Requests /\ del[q] = "done"
        BY <3>1 DEF Refunded, Settled
      <3>3. q = <<q[1], q[2]>> /\ q[1] \in Files /\ q[2] \in Requests
        BY <3>2
      <3>4. q[1] \in Gone /\ RefundSize[q] = Size[q[1]]
        BY <3>2, <3>3 DEF BooksInv, InOrder, RefundSize
      <3>5. q[2] \in Asked(q[1])
        BY <3>2, <3>3 DEF Asked
      <3> QED BY <3>1, <3>3, <3>4, <3>5
    <2>2. ASSUME NEW x \in R PROVE at[x] \in G
      <3>1. PICK q \in Refunded : x \in {q} \X (1..Size[q[1]]) /\ q[1] \in Gone
        BY <2>1, <2>2
      <3>2. at[x] = <<q[1], x[2]>> /\ x[2] \in 1..Size[q[1]]
        BY <3>1
      <3> HIDE DEF at
      <3> QED BY <3>1, <3>2, BytesOf
    <2>3. ASSUME NEW x \in R, NEW y \in R, at[x] = at[y] PROVE x = y
      <3>1. PICK p \in Refunded : /\ x \in {p} \X (1..Size[p[1]]) /\ p[1] \in Gone
                                  /\ p = <<p[1], p[2]>> /\ p[2] \in Asked(p[1])
        BY <2>1
      <3>2. PICK q \in Refunded : /\ y \in {q} \X (1..Size[q[1]]) /\ q[1] \in Gone
                                  /\ q = <<q[1], q[2]>> /\ q[2] \in Asked(q[1])
        BY <2>1
      <3>3. x = <<p, x[2]>> /\ y = <<q, y[2]>>
        BY <3>1, <3>2
      <3>4. p[1] = q[1] /\ x[2] = y[2]
        BY <2>3, <3>3
      <3>5. p[2] = q[2]
        BY <3>1, <3>2, <3>4 DEF AskedOnce
      <3> QED BY <3>1, <3>2, <3>3, <3>4, <3>5
    <2>4. at \in Injection(R, G)
      <3>1. at \in [R -> G]
        BY <2>2
      <3> HIDE DEF at, R, G
      <3> QED BY <2>3, <3>1 DEF Injection, IsInjective
    <2> HIDE DEF at, R, G
    <2> QED BY <1>4, <2>4, FS_Injection
  <1>7. Cardinality(R) \in Nat
    <2>1. IsFiniteSet(R)
      BY SumsDefined, ByteSetFinite DEF BooksInv, Refunded
    <2> QED BY <2>1, FS_CardinalityType
  <1>8. Cardinality(C) \in Nat /\ Cardinality(G) \in Nat /\ Cardinality(E) \in Nat
    BY <1>1, <1>4, FS_CardinalityType
  <1>9. Cardinality(E) >= Cardinality(C) + Cardinality(R)
    <2> HIDE DEF C, R, E, G
    <2> QED BY <1>5, <1>6, <1>7, <1>8
  <1> QED BY <1>9 DEF Bytes

(* An account that deletes no file twice is never charged for less than it  *)
(* stores, lost charges aside, once its requests have settled, whatever     *)
(* overlapped before.                                                       *)
THEOREM NeverUnderchargedHolds == Spec => []NeverUndercharged
  <1>1. BooksInv /\ RefundsAddUp => NeverUndercharged
    <2> SUFFICES ASSUME BooksInv, RefundsAddUp, Settled, AskedOnce
                 PROVE  usage + Bytes(Uncharged, Size) >= Bytes(Committed, Size)
      BY DEF NeverUndercharged
    <2>1. Bytes(EverStored, Size) >= Bytes(Committed, Size) + Bytes(Refunded, RefundSize)
      BY RefundsOnce
    <2>2. usage + Bytes(Refunded, RefundSize) + Bytes(Uncharged, Size)
             >= Bytes(EverStored, Size)
      BY DEF RefundsAddUp
    <2>3. Bytes(Uncharged, Size) \in Nat
      <3>1. Due = Uncharged
        BY DEF Settled, Due, Uncharged, EverStored
      <3> QED BY <3>1, SumsDefined, BytesNat DEF BooksInv, Due, EverStored
    <2>4. usage \in Int
      BY DEF BooksInv, TypeOK
    <2>5. Bytes(Refunded, RefundSize) \in Nat
      BY SumsDefined, BytesNat DEF BooksInv, Refunded
    <2>6. Bytes(EverStored, Size) \in Nat
      BY SumsDefined, BytesNat DEF BooksInv, EverStored
    <2>7. Bytes(Committed, Size) \in Nat
      <3>1. Committed \subseteq EverStored
        BY DEF Committed, EverStored
      <3>2. IsFiniteSet(Committed)
        BY <3>1, SumsDefined, FS_Subset DEF BooksInv
      <3> QED BY <3>2, SumsDefined, BytesNat DEF BooksInv, Committed
    <2> QED BY <2>1, <2>2, <2>3, <2>4, <2>5, <2>6, <2>7
  <1> QED BY <1>1, BooksAlways, RefundsAlwaysAddUp, PTL
(* More uploads at a time, a larger bound.                                  *)
LEMMA TimesMonotone ==
  ASSUME NEW i \in Nat, NEW j \in Nat, NEW m \in Nat, i <= j
  PROVE  i * m <= j * m
  <1>1. j - i \in Nat /\ j = i + (j - i)
    OBVIOUS
  <1>2. j * m = i * m + (j - i) * m
    BY <1>1
  <1>3. (j - i) * m \in Nat
    BY <1>1
  <1> QED BY <1>2, <1>3

-----------------------------------------------------------------------------

LEMMA InFlightStep ==
  ASSUME TypeOK, FinitelyMany, InOrder, Cardinality(InFlight) <= Parallel, [Next]_vars
  PROVE  Cardinality(InFlight') <= Parallel
  <1>1. IsFiniteSet(InFlight) /\ Cardinality(InFlight) \in Nat
    BY SumsDefined, FS_CardinalityType
  <1>2. ASSUME NEW f \in Files, CheckProfile(f) PROVE Cardinality(InFlight') <= Parallel
    <2>1. Cardinality(InFlight) < Parallel /\ Parallel \in Nat
      BY <1>2, ConstantsAssumption DEF CheckProfile
    <2>2. InFlight' = InFlight \cup {f} /\ f \notin InFlight
      BY <1>2 DEF TypeOK, CheckProfile, Goto, InFlight
    <2>3. Cardinality(InFlight \cup {f}) = Cardinality(InFlight) + 1
      BY <1>1, <2>2, FS_AddElement
    <2>4. Cardinality(InFlight) + 1 <= Parallel
      BY <1>1, <2>1
    <2> QED BY <2>2, <2>3, <2>4
  <1>3. ASSUME InFlight' \subseteq InFlight PROVE Cardinality(InFlight') <= Parallel
    <2>1. Cardinality(InFlight') <= Cardinality(InFlight) /\ IsFiniteSet(InFlight')
      BY <1>1, <1>3, FS_Subset
    <2>2. Cardinality(InFlight') \in Nat
      BY <2>1, FS_CardinalityType
    <2> QED BY <1>1, <2>1, <2>2, ConstantsAssumption
  <1>4. ASSUME NEW f \in Files, Upload(f), ~CheckProfile(f) PROVE InFlight' \subseteq InFlight
    BY <1>4 DEF TypeOK, Upload, CheckUsage, Store, StoreFails, Charge, ChargeFails, Goto,
                InFlight
  <1>5. ASSUME UNCHANGED pc PROVE InFlight' \subseteq InFlight
    BY <1>5 DEF InFlight
  <1>6. ASSUME NEW q \in Files \X Requests, Delete(q) PROVE UNCHANGED pc
    BY <1>6 DEF Delete, DeleteLoad, DeleteMark, Refund, Floor, DeleteFails
  <1> QED BY <1>2, <1>3, <1>4, <1>5, <1>6 DEF Next, vars, Verify

(* An account that was verified or had a delete stays so.                   *)
LEMMA UntouchedStep ==
  ASSUME TypeOK, [Next]_vars, Untouched'
  PROVE  /\ Untouched
         /\ UNCHANGED <<usage, pc>> \/ \E f \in Files : Upload(f)
  <1>1. ASSUME NEW q \in Files \X Requests, Delete(q) PROVE FALSE
    <2>1. /\ q[1] \in Files /\ q[2] \in Requests /\ q = <<q[1], q[2]>>
      OBVIOUS
    <2>2. del'[q] # "idle"
      BY <1>1 DEF TypeOK, Delete, DeleteLoad, DeleteMark, Refund, Floor, DeleteFails, Step
    <2>3. q[2] \in Asked(q[1])'
      BY <2>1, <2>2 DEF Asked
    <2> QED BY <2>1, <2>3 DEF Untouched
  <1>2. UNCHANGED del
    BY <1>1 DEF Next, vars, Verify, Upload, CheckProfile, CheckUsage, Store, StoreFails,
                Charge, ChargeFails
  <1>3. \A f \in Files : Asked(f) = Asked(f)'
    BY <1>2 DEF Asked
  <1>4. ~verified
    <2>1. ~verified'
      BY DEF Untouched
    <2>2. UNCHANGED verified \/ verified' = TRUE
      BY <1>1 DEF Next, vars, Verify, Upload, CheckProfile, CheckUsage, Store, StoreFails,
                  Charge, ChargeFails
    <2> QED BY <2>1, <2>2
  <1>5. UNCHANGED <<usage, pc>> \/ \E f \in Files : Upload(f)
    BY <1>1 DEF Next, vars, Verify
  <1> QED BY <1>3, <1>4, <1>5 DEF Untouched

LEMMA WithinBatchStep ==
  ASSUME TypeOK, FinitelyMany, InOrder, WithinBatch, [Next]_vars
  PROVE  WithinBatch'
  <1> DEFINE pend == Bytes(Pending, Size)
             small == \A g \in Pending : Size[g] <= MaxFileSize
             limit == Cap + (Parallel - 1) * MaxFileSize
  <1>1. Cardinality(InFlight') <= Parallel
    BY InFlightStep DEF WithinBatch
  <1> SUFFICES ASSUME Untouched' PROVE small' /\ usage' + pend' <= limit
    BY <1>1 DEF WithinBatch
  <1>2. ~verified /\ small /\ usage + pend <= limit
    BY UntouchedStep DEF WithinBatch, Untouched
  <1>3. Cap \in Nat /\ MaxFileSize \in Nat /\ Parallel \in Nat \ {0} /\ usage \in Int
    BY ConstantsAssumption DEF TypeOK
  <1>4. limit \in Nat
    <2>1. (Parallel - 1) \in Nat
      BY <1>3
    <2>2. (Parallel - 1) * MaxFileSize \in Nat
      BY <1>3, <2>1
    <2> QED BY <1>3, <2>2
  <1>5. pend \in Nat
    BY SumsDefined, BytesNat DEF Pending
  <1>6. CASE UNCHANGED <<usage, pc>>
    <2>1. Pending' = Pending
      BY <1>6 DEF Pending
    <2>2. pend' = pend /\ (small' <=> small)
      BY <2>1
    <2> HIDE DEF pend, small, limit
    <2> QED BY <1>2, <1>6, <2>2
  <1>7. ASSUME NEW f \in Files, Upload(f) PROVE small' /\ usage' + pend' <= limit
    <2>0. Size[f] \in Nat
      BY SumsDefined
    <2>1. CASE CheckProfile(f)
      <3>1. UNCHANGED usage /\ Pending' = Pending
        BY <1>2, <2>1 DEF TypeOK, CheckProfile, Goto, Pending
      <3>2. pend' = pend /\ (small' <=> small)
        BY <3>1
      <3> HIDE DEF pend, small, limit
      <3> QED BY <1>2, <3>1, <3>2
    <2>2. CASE Store(f)
      <3>1. UNCHANGED usage /\ Pending' = Pending
        BY <2>2 DEF TypeOK, Store, Goto, Pending
      <3>2. pend' = pend /\ (small' <=> small)
        BY <3>1
      <3> HIDE DEF pend, small, limit
      <3> QED BY <1>2, <3>1, <3>2
    <2>3. CASE CheckUsage(f) /\ f \notin Pending'
      <3>1. UNCHANGED usage /\ Pending' = Pending
        BY <2>3 DEF TypeOK, CheckUsage, Goto, Pending
      <3>2. pend' = pend /\ (small' <=> small)
        BY <3>1
      <3> HIDE DEF pend, small, limit
      <3> QED BY <1>2, <3>1, <3>2
    <2>4. CASE CheckUsage(f) /\ f \in Pending'
      <3>1. /\ UNCHANGED usage /\ f \notin Pending /\ Pending' = Pending \cup {f}
            /\ f \in InFlight /\ Size[f] <= MaxFileSize /\ usage + Size[f] <= Cap
        BY <2>4 DEF TypeOK, CheckUsage, Goto, Pending, InFlight
      <3>2. pend' = pend + Size[f]
        <4>1. IsFiniteSet(Pending) /\ \A g \in Pending : Size[g] \in Nat
          BY SumsDefined DEF Pending
        <4>2. Bytes(Pending \cup {f}, Size) = Bytes(Pending, Size) + Size[f]
          BY <2>0, <3>1, <4>1, BytesAdd
        <4> QED BY <3>1, <4>2
      <3>3. small'
        BY <1>2, <3>1
      <3>4. pend <= Cardinality(Pending) * MaxFileSize
        <4>1. IsFiniteSet(Pending) /\ \A g \in Pending : Size[g] \in Nat /\ Size[g] <= MaxFileSize
          BY <1>2, SumsDefined DEF Pending
        <4> QED BY <1>3, <4>1, BytesAtMost
      <3>5. Cardinality(Pending) \in Nat /\ Cardinality(Pending) <= Parallel - 1
        <4>1. IsFiniteSet(InFlight) /\ Cardinality(InFlight) \in Nat
          BY SumsDefined, FS_CardinalityType
        <4>2. /\ IsFiniteSet(InFlight \ {f})
              /\ Cardinality(InFlight \ {f}) = Cardinality(InFlight) - 1
          BY <3>1, <4>1, FS_RemoveElement
        <4>3. Pending \subseteq InFlight \ {f}
          BY <3>1 DEF Pending, InFlight
        <4>4. IsFiniteSet(Pending) /\ Cardinality(Pending) <= Cardinality(InFlight \ {f})
          BY <4>2, <4>3, FS_Subset
        <4>5. Cardinality(Pending) \in Nat
          BY <4>4, FS_CardinalityType
        <4> QED BY <1>3, <4>1, <4>2, <4>4, <4>5 DEF WithinBatch
      <3>6. Cardinality(Pending) * MaxFileSize <= (Parallel - 1) * MaxFileSize
        BY <1>3, <3>5, TimesMonotone
      <3> HIDE DEF pend, small
      <3>7. Cardinality(Pending) * MaxFileSize \in Nat /\ (Parallel - 1) * MaxFileSize \in Nat
        BY <1>3, <3>5
      <3> QED BY <1>3, <1>5, <2>0, <3>1, <3>2, <3>3, <3>4, <3>6, <3>7
    <2>5. CASE StoreFails(f) \/ Charge(f) \/ ChargeFails(f)
      <3>1. f \in Pending /\ Pending' = Pending \ {f} /\ usage' \in {usage, usage + Size[f]}
        BY <2>5 DEF TypeOK, StoreFails, Charge, ChargeFails, Goto, Pending
      <3>2. pend = pend' + Size[f]
        BY <3>1, SumsDefined, BytesRemove DEF Pending
      <3>3. small'
        BY <1>2, <3>1
      <3>4. pend' \in Nat
        <4>1. IsFiniteSet(Pending') /\ Pending' \subseteq Files
          BY <3>1, SumsDefined, FS_RemoveElement DEF Pending
        <4> QED BY <4>1, SumsDefined, BytesNat
      <3> HIDE DEF pend, small, limit
      <3>5. CASE usage' = usage
        <4>1. usage + pend' <= usage + pend
          BY <1>3, <2>0, <3>2, <3>4
        <4>2. usage + pend' \in Int /\ usage + pend \in Int
          BY <1>3, <1>5, <3>4
        <4>3. usage + pend' <= limit
          BY <1>2, <1>4, <4>1, <4>2
        <4> QED BY <3>3, <3>5, <4>3
      <3>6. CASE usage' = usage + Size[f]
        BY <1>2, <1>3, <1>4, <2>0, <3>2, <3>3, <3>4, <3>6
      <3> QED BY <3>1, <3>5, <3>6
    <2> QED BY <1>7, <2>1, <2>2, <2>3, <2>4, <2>5 DEF Upload
  <1> QED BY <1>6, <1>7, UntouchedStep

(* Whatever the files, sizes, caps and number of uploads at a time: an      *)
(* unverified account that only uploads exceeds its cap by at most one      *)
(* largest file for each other upload it may run.                           *)
THEOREM OvershootIsBounded == Spec => []OvershootBounded
  <1>1. Init => WithinBatch
    <2> SUFFICES ASSUME Init PROVE WithinBatch
      OBVIOUS
    <2>1. InFlight = {} /\ Pending = {} /\ usage = 0
      BY DEF Init, InFlight, Pending
    <2>2. Cardinality({}) = 0 /\ Bytes({}, Size) = 0
      BY FS_EmptySet, BytesEmpty
    <2>3. Cap \in Nat /\ MaxFileSize \in Nat /\ Parallel \in Nat \ {0}
      BY ConstantsAssumption
    <2>4. 0 * MaxFileSize <= (Parallel - 1) * MaxFileSize
      BY <2>3, TimesMonotone
    <2>5. (Parallel - 1) * MaxFileSize \in Int /\ 0 * MaxFileSize = 0
      BY <2>3
    <2> QED BY <2>1, <2>2, <2>3, <2>4, <2>5 DEF WithinBatch
  <1>2. BooksInv /\ WithinBatch /\ [Next]_vars => WithinBatch'
    BY WithinBatchStep DEF BooksInv
  <1>3. BooksInv /\ WithinBatch => OvershootBounded
    <2> SUFFICES ASSUME BooksInv, WithinBatch, Untouched
                 PROVE  usage <= Cap + (Parallel - 1) * MaxFileSize
      BY DEF OvershootBounded, Untouched
    <2>1. Bytes(Pending, Size) \in Nat
      BY SumsDefined, BytesNat DEF BooksInv, Pending
    <2>2. usage \in Int /\ Cap + (Parallel - 1) * MaxFileSize \in Int
      BY ConstantsAssumption DEF BooksInv, TypeOK
    <2> QED BY <2>1, <2>2 DEF WithinBatch
  <1> QED BY <1>1, <1>2, <1>3, BooksAlways, PTL DEF Spec
=============================================================================
