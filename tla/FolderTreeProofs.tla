-------------------------- MODULE FolderTreeProofs --------------------------
(****************************************************************************)
(* Theorems about FolderTree, for any folders, files and clients.           *)
(****************************************************************************)
EXTENDS FolderTree, FiniteSetTheorems, TLAPS

Requests == {Idle} \union TargetRequest \union MoveRequest \union CreateRequest
                   \union PlaceRequest \union DeleteRequest

TypeTree ==
    /\ parent \in [Folders -> Places \union {None}]
    /\ \A f \in Rows : parent[f] \in Parents
    /\ deleted \subseteq Rows
    /\ where \in [Files -> Parents]
    /\ status \in [Files -> {"none", "committed", "deleting"}]
    /\ late \subseteq Files
    /\ raced \in BOOLEAN

LEMMA TypeParts ==
  /\ TypeOK <=> TypeTree /\ req \in [Clients -> Requests]
  /\ TypeOK' <=> TypeTree' /\ req' \in [Clients -> Requests']
  BY DEF TypeOK, TypeTree, Requests

(* The step a request has come to tells of which kind it is.                *)
LEMMA Kinds ==
  ASSUME TypeOK, NEW c \in Clients
  PROVE  /\ At(c, "target") => req[c] \in TargetRequest
         /\ req[c].at \in {"walk", "move"} => req[c] \in MoveRequest
         /\ At(c, "insert") => req[c] \in CreateRequest
         /\ At(c, "place") => req[c] \in PlaceRequest
         /\ Deleting(c) => req[c] \in DeleteRequest
  <1>1. req[c] \in Requests
    BY DEF TypeOK, Requests
  <1>2. CASE req[c] = Idle
    BY <1>2 DEF Idle, At, Deleting
  <1>3. CASE req[c] \in MoveRequest
    BY <1>3 DEF MoveRequest, At, Deleting
  <1>4. CASE req[c] \in CreateRequest
    BY <1>4 DEF CreateRequest, At, Deleting
  <1>5. CASE req[c] \in PlaceRequest
    BY <1>5 DEF PlaceRequest, At, Deleting
  <1>6. CASE req[c] \in DeleteRequest
    BY <1>6 DEF DeleteRequest, At, Deleting
  <1>7. CASE req[c] \in TargetRequest
    BY <1>7 DEF TargetRequest, At, Deleting
  <1> QED BY <1>1, <1>2, <1>3, <1>4, <1>5, <1>6, <1>7 DEF Requests

(* What a request has looked up stays good when rows are added.             *)
LEMMA RequestsGrow ==
  ASSUME Rows \subseteq Rows'
  PROVE  Requests \subseteq Requests'
  <1>1. Parents \subseteq Parents'
    BY DEF Parents
  <1>2. Seq(Rows) \subseteq Seq(Rows')
    OBVIOUS
  <1>3. TargetRequest \subseteq TargetRequest'
    BY DEF TargetRequest
  <1>4. MoveRequest \subseteq MoveRequest'
    BY <1>1 DEF MoveRequest
  <1>5. CreateRequest \subseteq CreateRequest'
    BY <1>1 DEF CreateRequest
  <1>6. PlaceRequest \subseteq PlaceRequest'
    BY <1>1 DEF PlaceRequest
  <1>7. DeleteRequest \subseteq DeleteRequest'
    BY <1>2 DEF DeleteRequest
  <1> QED BY <1>3, <1>4, <1>5, <1>6, <1>7 DEF Requests

LEMMA GotoType ==
  ASSUME TypeOK, NEW c \in Clients, NEW r \in Requests, Goto(c, r),
         Rows \subseteq Rows'
  PROVE  req' \in [Clients -> Requests']
  <1>1. req' \in [Clients -> Requests]
    BY DEF TypeOK, Goto, Requests
  <1> QED BY <1>1, RequestsGrow

LEMMA EndType ==
  ASSUME TypeOK, NEW c \in Clients, End(c), Rows \subseteq Rows'
  PROVE  req' \in [Clients -> Requests']
  BY GotoType DEF End, Requests

(* A step that leaves the rows of the database alone.                       *)
LEMMA LookType ==
  ASSUME TypeOK, NEW c \in Clients, NEW r \in Requests, Goto(c, r),
         UNCHANGED <<tree, late>>, raced' \in BOOLEAN
  PROVE  TypeOK'
  <1>1. Rows' = Rows /\ Parents' = Parents
    BY DEF tree, Rows, Parents
  <1>2. TypeTree'
    BY <1>1, TypeParts DEF TypeTree, tree
  <1> QED BY <1>1, <1>2, GotoType, TypeParts

LEMMA TypeMove ==
  ASSUME TypeOK, NEW c \in Clients, MoveStep(c)
  PROVE  TypeOK'
  <1>0. Idle \in Requests /\ raced \in BOOLEAN
    BY DEF Requests, TypeOK
  <1>1. CASE MoveLoad(c)
    <2> DEFINE r(f, to) == [at |-> IF to = Root THEN "move" ELSE "target",
                            folder |-> f, to |-> to, cur |-> to, seen |-> {}]
    <2>1. PICK f \in Folders, to \in Places : Live(f) /\ Goto(c, r(f, to))
      BY <1>1 DEF MoveLoad, Start, Goto
    <2>2. f \in Rows
      BY <2>1 DEF Live, Rows
    <2>3. CASE to = Root
      <3>1. r(f, to) \in MoveRequest
        BY <2>2, <2>3 DEF MoveRequest, Parents
      <3> QED BY <1>0, <1>1, <2>1, <3>1, LookType DEF MoveLoad, Requests
    <2>4. CASE to # Root
      <3>1. /\ to \in Folders
            /\ r(f, to) = [at |-> "target", folder |-> f, to |-> to,
                           cur |-> to, seen |-> {}]
        BY <2>4 DEF Places
      <3>2. r(f, to) \in TargetRequest
        BY <2>2, <3>1 DEF TargetRequest
      <3> QED BY <1>0, <1>1, <2>1, <3>2, LookType DEF MoveLoad, Requests
    <2> QED BY <2>3, <2>4
  <1>2. CASE MoveTarget(c)
    <2>1. req[c] \in TargetRequest
      BY <1>2, Kinds DEF MoveTarget
    <2>2. CASE Live(req[c].to)
      <3>1. [req[c] EXCEPT !.at = "walk"] \in MoveRequest
        BY <2>1, <2>2 DEF TargetRequest, MoveRequest, Live, Rows, Parents
      <3> QED BY <1>0, <1>2, <2>2, <3>1, LookType DEF MoveTarget, Requests
    <2> QED BY <1>0, <1>2, <2>2, LookType DEF MoveTarget, End
  <1>3. CASE MoveAscend(c)
    <2>1. req[c] \in MoveRequest /\ req[c].cur \in Folders
      BY <1>3, Kinds DEF MoveAscend, At
    <2>2. req[c].cur \in Rows
      BY <2>1, ConstantsAssumption DEF MoveRequest, Parents
    <2>3. parent[req[c].cur] \in Parents
      BY <2>2 DEF TypeOK
    <2>4. [req[c] EXCEPT !.cur = parent[req[c].cur],
                         !.seen = @ \union {req[c].cur}] \in MoveRequest
      BY <2>1, <2>2, <2>3 DEF MoveRequest
    <2> QED BY <1>0, <1>3, <2>4, LookType DEF MoveAscend, Requests
  <1>4. CASE MoveReject(c)
    BY <1>0, <1>4, LookType DEF MoveReject, End
  <1>5. CASE MoveAccept(c)
    <2>1. [req[c] EXCEPT !.at = "move"] \in MoveRequest
      BY <1>5, Kinds DEF MoveAccept, At, MoveRequest
    <2> QED BY <1>0, <1>5, <2>1, LookType DEF MoveAccept, Requests
  <1>6. CASE MoveWrite(c)
    <2>1. req[c].folder \in Rows /\ req[c].to \in Parents
      BY <1>6, Kinds DEF MoveWrite, At, MoveRequest
    <2>2. /\ parent' = [parent EXCEPT ![req[c].folder] = req[c].to]
          /\ UNCHANGED <<deleted, where, status, late>>
          /\ raced' \in BOOLEAN
      BY <1>0, <1>6 DEF MoveWrite
    <2>3. parent' \in [Folders -> Places \union {None}]
      BY <2>1, <2>2 DEF TypeOK, Parents, Places, Rows
    <2>4. Rows' = Rows /\ Parents' = Parents
      BY <2>1, <2>2, ConstantsAssumption DEF TypeOK, Parents, Places, Rows
    <2>5. \A f \in Rows' : parent'[f] \in Parents'
      BY <2>1, <2>2, <2>4 DEF TypeOK, Rows
    <2>6. TypeTree'
      BY <2>2, <2>3, <2>4, <2>5 DEF TypeTree, TypeOK
    <2> QED BY <1>6, <2>4, <2>6, EndType, TypeParts DEF MoveWrite
  <1> QED BY <1>1, <1>2, <1>3, <1>4, <1>5, <1>6 DEF MoveStep

LEMMA TypeCreate ==
  ASSUME TypeOK, NEW c \in Clients, CreateLoad(c) \/ CreateInsert(c)
  PROVE  TypeOK'
  <1>0. raced \in BOOLEAN
    BY DEF TypeOK
  <1>1. CASE CreateLoad(c)
    <2>1. PICK to \in Places :
            (to # Root => Live(to)) /\ Goto(c, [at |-> "insert", to |-> to])
      BY <1>1 DEF CreateLoad, Start, Goto
    <2>2. [at |-> "insert", to |-> to] \in CreateRequest
      BY <2>1 DEF CreateRequest, Live, Parents, Rows, Places
    <2> QED BY <1>0, <1>1, <2>1, <2>2, LookType DEF CreateLoad, Requests
  <1>2. CASE CreateInsert(c)
    <2>1. req[c].to \in Parents
      BY <1>2, Kinds DEF CreateInsert, At, CreateRequest
    <2>2. PICK f \in Folders : /\ parent[f] = None
                               /\ parent' = [parent EXCEPT ![f] = req[c].to]
      BY <1>2 DEF CreateInsert
    <2>3. UNCHANGED <<deleted, where, status, late>> /\ raced' \in BOOLEAN
      BY <1>0, <1>2 DEF CreateInsert
    <2>4. parent' \in [Folders -> Places \union {None}]
      BY <2>1, <2>2 DEF TypeOK, Parents, Places, Rows
    <2>5. Rows' = Rows \union {f} /\ f \notin Rows
      BY <2>1, <2>2, ConstantsAssumption DEF TypeOK, Parents, Places, Rows
    <2>6. Parents \subseteq Parents'
      BY <2>5 DEF Parents
    <2>7. \A g \in Rows' : parent'[g] \in Parents'
      BY <2>1, <2>2, <2>5, <2>6 DEF TypeOK, Rows
    <2>8. TypeTree'
      BY <2>3, <2>4, <2>5, <2>6, <2>7 DEF TypeTree, TypeOK
    <2> QED BY <1>2, <2>5, <2>8, EndType, TypeParts DEF CreateInsert
  <1> QED BY <1>1, <1>2

LEMMA TypePlace ==
  ASSUME TypeOK, NEW c \in Clients, PlaceLoad(c) \/ PlaceWrite(c)
  PROVE  TypeOK'
  <1>0. raced \in BOOLEAN
    BY DEF TypeOK
  <1>1. CASE PlaceLoad(c)
    <2>1. PICK x \in Files, to \in Places :
            /\ to # Root => Live(to)
            /\ Goto(c, [at |-> "place", file |-> x, to |-> to])
      BY <1>1 DEF PlaceLoad, Start, Goto
    <2>2. [at |-> "place", file |-> x, to |-> to] \in PlaceRequest
      BY <2>1 DEF PlaceRequest, Live, Parents, Rows, Places
    <2> QED BY <1>0, <1>1, <2>1, <2>2, LookType DEF PlaceLoad, Requests
  <1>2. CASE PlaceWrite(c)
    <2>1. req[c].file \in Files /\ req[c].to \in Parents
      BY <1>2, Kinds DEF PlaceWrite, At, PlaceRequest
    <2>2. Rows' = Rows /\ Parents' = Parents
      BY <1>2 DEF PlaceWrite, Rows, Parents
    <2>3. TypeTree'
      BY <1>0, <1>2, <2>1, <2>2 DEF PlaceWrite, TypeTree, TypeOK
    <2> QED BY <1>2, <2>2, <2>3, EndType, TypeParts DEF PlaceWrite
  <1> QED BY <1>1, <1>2

(* A listing names each of its folders once.                                *)
LEMMA ListingType ==
  ASSUME NEW nodes \in SUBSET Folders, NEW found \in SetToSeqs(nodes)
  PROVE  found \in Seq(nodes)
  <1>1. IsFiniteSet(nodes)
    BY ConstantsAssumption, FS_Subset
  <1>2. Cardinality(nodes) \in Nat
    BY <1>1, FS_CardinalityType
  <1>3. found \in [1 .. Cardinality(nodes) -> nodes]
    BY DEF SetToSeqs
  <1> QED BY <1>2, <1>3

(* ... and leaves none out: distinct names fill as many places.             *)
LEMMA ListingAll ==
  ASSUME NEW nodes \in SUBSET Folders, NEW found \in SetToSeqs(nodes)
  PROVE  \A f \in nodes : \E i \in DOMAIN found : found[i] = f
  <1> DEFINE D == 1 .. Cardinality(nodes)
  <1>1. IsFiniteSet(nodes) /\ Cardinality(nodes) \in Nat
    BY ConstantsAssumption, FS_Subset, FS_CardinalityType
  <1>2. Cardinality(D) = Cardinality(nodes)
    BY <1>1, FS_Interval
  <1> HIDE DEF D
  <1>3. found \in [D -> nodes] /\ \A i, j \in D : i # j => found[i] # found[j]
    BY DEF SetToSeqs, D
  <1>4. found \in Injection(D, nodes)
    BY <1>3 DEF Injection, IsInjective
  <1>5. found \in Surjection(D, nodes)
    BY <1>1, <1>2, <1>4, FS_Injection
  <1> QED BY <1>3, <1>5 DEF Surjection

LEMMA TypeDelete ==
  ASSUME TypeOK, NEW c \in Clients, DeleteStep(c)
  PROVE  TypeOK'
  <1>0. Idle \in Requests /\ raced \in BOOLEAN
    BY DEF Requests, TypeOK
  <1>1. CASE DeleteLoad(c)
    <2> DEFINE r(f) == [at |-> "collect", nodes |-> <<f>>, scanned |-> 0,
                        files |-> {}, file |-> None]
    <2>1. PICK f \in Folders : Live(f) /\ Goto(c, r(f))
      BY <1>1 DEF DeleteLoad, Start, Goto
    <2>2. f \in Rows
      BY <2>1 DEF Live, Rows
    <2>3. r(f) \in DeleteRequest
      BY <2>2 DEF DeleteRequest
    <2> QED BY <1>0, <1>1, <2>1, <2>3, LookType DEF DeleteLoad, Requests
  <1>2. CASE DeleteCollect(c)
    <2>1. req[c] \in DeleteRequest /\ req[c].scanned < Len(req[c].nodes)
      BY <1>2, Kinds DEF DeleteCollect, At, Deleting
    <2> DEFINE nodes == req[c].nodes
               next == nodes[req[c].scanned + 1]
               children == {f \in Folders : parent[f] = next /\ f \notin deleted}
               r(found) == [req[c] EXCEPT !.nodes = nodes \o found, !.scanned = @ + 1]
    <2>2. PICK found \in SetToSeqs(children \ ToSet(nodes)) : Goto(c, r(found))
      BY <1>2 DEF DeleteCollect
    <2>3. nodes \in Seq(Rows) /\ nodes # <<>> /\ req[c].scanned \in Nat
      BY <2>1 DEF DeleteRequest
    <2>4. next \in Rows
      BY <2>1, <2>3
    <2>5. children \subseteq Rows
      BY <2>4, ConstantsAssumption DEF Rows, Places
    <2>6. found \in Seq(Rows)
      <3> DEFINE new == children \ ToSet(nodes)
      <3>1. new \in SUBSET Folders /\ new \subseteq Rows
        BY <2>5 DEF Rows
      <3> HIDE DEF new
      <3>2. found \in Seq(new)
        BY <2>2, <3>1, ListingType DEF new
      <3> QED BY <3>1, <3>2
    <2>7. nodes \o found \in Seq(Rows) \ {<<>>}
      BY <2>3, <2>6
    <2>8. r(found) \in DeleteRequest
      <3> HIDE DEF nodes
      <3>1. req[c].scanned + 1 \in Nat
        BY <2>3
      <3> QED BY <2>1, <2>7, <3>1 DEF DeleteRequest
    <2>9. r(found) \in Requests
      BY <2>8 DEF Requests
    <2>10. UNCHANGED <<tree, late, raced>>
      BY <1>2 DEF DeleteCollect
    <2> HIDE DEF r
    <2> QED BY <1>0, <2>2, <2>9, <2>10, LookType
  <1>3. CASE DeleteList(c)
    <2> DEFINE r == [req[c] EXCEPT !.at = "files", !.scanned = 0,
                       !.files = {x \in Files : Committed(x) /\ where[x] = Node(c)}]
    <2>1. req[c] \in DeleteRequest
      BY <1>3, Kinds DEF DeleteList, At, Deleting
    <2>2. r \in DeleteRequest
      BY <2>1 DEF DeleteRequest
    <2> QED BY <1>0, <1>3, <2>2, LookType DEF DeleteList, Requests
  <1>4. CASE DeleteFileLoad(c)
    <2> DEFINE r(x) == [req[c] EXCEPT !.at = "mark", !.file = x, !.files = @ \ {x}]
    <2>1. req[c] \in DeleteRequest
      BY <1>4, Kinds DEF DeleteFileLoad, At, Deleting
    <2>2. PICK x \in req[c].files : Goto(c, r(x))
      BY <1>4 DEF DeleteFileLoad
    <2>3. r(x) \in DeleteRequest
      BY <2>1, <2>2 DEF DeleteRequest
    <2> QED BY <1>0, <1>4, <2>2, <2>3, LookType DEF DeleteFileLoad, Requests
  <1>5. CASE DeleteFileMark(c)
    <2> DEFINE r == [req[c] EXCEPT !.at = "files", !.file = None]
    <2>1. req[c] \in DeleteRequest
      BY <1>5, Kinds DEF DeleteFileMark, At, Deleting
    <2>2. r \in Requests
      BY <2>1 DEF DeleteRequest, Requests
    <2>3. Rows' = Rows /\ Parents' = Parents
      BY <1>5 DEF DeleteFileMark, Rows, Parents
    <2>4. TypeTree'
      BY <1>5, <2>3 DEF DeleteFileMark, TypeTree, TypeOK
    <2> QED BY <1>5, <2>2, <2>3, <2>4, GotoType, TypeParts DEF DeleteFileMark
  <1>6. CASE DeleteNotFound(c)
    BY <1>0, <1>6, LookType DEF DeleteNotFound, End
  <1>7. CASE DeleteStamp(c)
    <2>1. req[c] \in DeleteRequest
      BY <1>7, Kinds DEF DeleteStamp, At, Deleting
    <2>2. req[c].nodes \in Seq(Rows) /\ req[c].nodes # <<>>
      BY <2>1 DEF DeleteRequest
    <2>3. Node(c) \in Rows
      BY <2>2 DEF Node
    <2>4. Rows' = Rows /\ Parents' = Parents
      BY <1>7 DEF DeleteStamp, Rows, Parents
    <2>5. TypeTree'
      BY <1>7, <2>3, <2>4 DEF DeleteStamp, TypeTree, TypeOK
    <2>6. CASE Len(req[c].nodes) = 1
      BY <1>7, <2>4, <2>5, <2>6, EndType, TypeParts DEF DeleteStamp
    <2>7. CASE Len(req[c].nodes) # 1
      <3> DEFINE r == [req[c] EXCEPT !.at = "sweep", !.nodes = Tail(@)]
      <3>1. Tail(req[c].nodes) \in Seq(Rows) \ {<<>>}
        <4> DEFINE nodes == req[c].nodes
        <4>1. nodes \in Seq(Rows) /\ nodes # <<>> /\ Len(nodes) # 1
          BY <2>2, <2>7
        <4> HIDE DEF nodes
        <4>2. Len(nodes) \in Nat /\ Len(nodes) # 0
          BY <4>1
        <4>3. Tail(nodes) \in Seq(Rows) /\ Len(Tail(nodes)) = Len(nodes) - 1
          BY <4>1
        <4>4. Len(Tail(nodes)) # Len(<<>>)
          BY <4>1, <4>2, <4>3
        <4> QED BY <4>3, <4>4 DEF nodes
      <3>2. r \in DeleteRequest
        BY <2>1, <3>1 DEF DeleteRequest
      <3>3. r \in Requests
        BY <3>2 DEF Requests
      <3> QED BY <1>7, <2>4, <2>5, <2>7, <3>3, GotoType, TypeParts DEF DeleteStamp
    <2> QED BY <2>6, <2>7
  <1>8. CASE DeleteFails(c)
    BY <1>0, <1>8, LookType DEF DeleteFails, End
  <1> QED BY <1>1, <1>2, <1>3, <1>4, <1>5, <1>6, <1>7, <1>8 DEF DeleteStep

LEMMA RemoveType ==
  ASSUME TypeOK, NEW x \in Files, RemoveFile(x)
  PROVE  TypeOK'
  <1>1. Rows' = Rows /\ Parents' = Parents
    BY DEF RemoveFile, Rows, Parents
  <1>2. TypeTree'
    BY <1>1, TypeParts DEF RemoveFile, TypeTree
  <1>3. req' \in [Clients -> Requests']
    BY <1>1, TypeParts, RequestsGrow DEF RemoveFile
  <1> QED BY <1>2, <1>3, TypeParts

LEMMA UnchangedType ==
  ASSUME TypeOK, UNCHANGED vars
  PROVE  TypeOK'
  <1>1. Rows' = Rows /\ Parents' = Parents
    BY DEF vars, tree, Rows, Parents
  <1>2. TypeTree'
    BY <1>1, TypeParts DEF TypeTree, vars, tree
  <1>3. req' \in [Clients -> Requests']
    BY <1>1, TypeParts, RequestsGrow DEF vars
  <1> QED BY <1>2, <1>3, TypeParts

(* The state stays well formed: no request writes to a row that is not      *)
(* there, under a parent that is not there.                                 *)
THEOREM TypeCorrect == Spec => []TypeOK
  <1>1. Init => TypeOK
    <2> SUFFICES ASSUME Init PROVE TypeOK
      OBVIOUS
    <2>1. req \in [Clients -> Requests]
      BY DEF Init, Requests
    <2>2. TypeTree
      BY DEF Init, TypeTree
    <2> QED BY <2>1, <2>2, TypeParts
  <1>2. TypeOK /\ [Next]_vars => TypeOK'
    <2> SUFFICES ASSUME TypeOK, [Next]_vars PROVE TypeOK'
      OBVIOUS
    <2>1. CASE UNCHANGED vars
      BY <2>1, UnchangedType
    <2>2. ASSUME NEW x \in Files, RemoveFile(x) PROVE TypeOK'
      BY <2>2, RemoveType
    <2> QED BY <2>1, <2>2, TypeMove, TypeCreate, TypePlace, TypeDelete DEF Next
  <1> QED BY <1>1, <1>2, PTL DEF Spec

-----------------------------------------------------------------------------
(****************************************************************************)
(* A tree moved by one client at a time stays a tree.                       *)
(****************************************************************************)

(* A walk has seen the new parent and its ancestors up to cur, and not the  *)
(* folder to be moved; when it ends it has seen all of them.                *)
Walked(c) ==
    req[c].at \in {"walk", "move"} =>
        LET top == IF At(c, "walk") THEN req[c].cur ELSE Root
        IN  /\ req[c].folder \notin req[c].seen
            /\ req[c].to \in req[c].seen \union {top}
            /\ \A f \in req[c].seen : parent[f] \in req[c].seen \union {top}

Moving(c) == req[c].at \in {"target", "walk", "move"}

TreeInv ==
    /\ TypeOK
    /\ Acyclic
    /\ \A c \in Clients : Walked(c)
    /\ \A c \in Clients : Moving(c) => c \in Movers

(* A new folder has no children: it closes no cycle.                        *)
LEMMA InsertAcyclic ==
  ASSUME TypeOK, Acyclic, NEW f \in Folders \ Rows, NEW to \in Parents,
         parent' = [parent EXCEPT ![f] = to]
  PROVE  Acyclic'
  <1> SUFFICES ASSUME NEW nodes \in SUBSET Folders, Cyclic(nodes)' PROVE FALSE
    BY DEF Acyclic
  <1>1. \A g \in Folders : g # f => parent'[g] = parent[g]
    BY DEF TypeOK
  <1>2. \A g \in nodes : parent'[g] \in nodes
    BY DEF Cyclic
  <1>3. CASE f \notin nodes
    <2>1. Cyclic(nodes)
      BY <1>1, <1>2, <1>3 DEF Cyclic
    <2> QED BY <2>1 DEF Acyclic
  <1>4. CASE f \in nodes
    <2>1. parent'[f] = to
      BY DEF TypeOK
    <2>2. to \in nodes \ {f}
      BY <1>2, <1>4, <2>1, ConstantsAssumption DEF Parents
    <2>3. ASSUME NEW g \in nodes \ {f} PROVE parent[g] \in nodes \ {f}
      <3>1. parent[g] \in nodes
        BY <1>1, <1>2
      <3>2. g \in Rows
        BY <3>1, ConstantsAssumption DEF Rows, Places
      <3>3. parent[g] # f
        BY <3>2, ConstantsAssumption DEF TypeOK, Parents
      <3> QED BY <3>1, <3>3
    <2>4. Cyclic(nodes \ {f})
      BY <2>2, <2>3 DEF Cyclic
    <2> QED BY <2>4 DEF Acyclic
  <1> QED BY <1>3, <1>4

(* Nor does a move to where the folder is not among the ancestors.          *)
LEMMA MoveAcyclic ==
  ASSUME TypeOK, Acyclic, NEW c \in Clients, At(c, "move"), Walked(c),
         parent' = [parent EXCEPT ![req[c].folder] = req[c].to]
  PROVE  Acyclic'
  <1> DEFINE seen == req[c].seen
             to == req[c].to
             folder == req[c].folder
  <1>1. folder \in Folders /\ seen \subseteq Folders
    BY Kinds DEF At, MoveRequest, Rows
  <1>2. /\ folder \notin seen /\ to \in seen \union {Root}
        /\ \A f \in seen : parent[f] \in seen \union {Root}
    BY DEF Walked, At
  <1>3. \A g \in Folders : parent'[g] = IF g = folder THEN to ELSE parent[g]
    BY <1>1 DEF TypeOK
  <1> SUFFICES ASSUME NEW nodes \in SUBSET Folders, Cyclic(nodes)' PROVE FALSE
    BY DEF Acyclic
  <1>4. \A g \in nodes : parent'[g] \in nodes
    BY DEF Cyclic
  <1> HIDE DEF seen, to, folder
  <1>5. CASE folder \notin nodes
    <2>1. Cyclic(nodes)
      BY <1>3, <1>4, <1>5 DEF Cyclic
    <2> QED BY <2>1 DEF Acyclic
  <1>6. CASE folder \in nodes
    <2>1. to \in nodes \intersect seen
      BY <1>2, <1>3, <1>4, <1>6, ConstantsAssumption
    <2>2. \A g \in nodes \intersect seen : parent[g] \in nodes \intersect seen
      BY <1>2, <1>3, <1>4, ConstantsAssumption
    <2>3. Cyclic(nodes \intersect seen)
      BY <2>1, <2>2 DEF Cyclic
    <2> QED BY <2>3 DEF Acyclic
  <1> QED BY <1>5, <1>6

LEMMA TreeMove ==
  ASSUME \A m, n \in Movers : m = n, TreeInv, NEW c \in Clients, MoveStep(c)
  PROVE  TreeInv'
  <1> USE DEF TreeInv
  <1>1. TypeOK'
    BY TypeMove
  <1>2. \A k \in Clients : k # c => req'[k] = req[k]
    BY DEF TypeOK, MoveStep, MoveLoad, MoveTarget, MoveAscend, MoveReject,
           MoveAccept, MoveWrite, Start, Goto, End
  <1>3. c \in Movers
    BY DEF MoveStep, MoveLoad, MoveTarget, MoveAscend, MoveReject,
           MoveAccept, MoveWrite, Moving, At
  <1>4. \A k \in Clients : k # c => ~Moving(k) /\ ~Moving(k)'
    BY <1>2, <1>3 DEF Moving
  <1>5. \A k \in Clients : k # c => Walked(k)'
    BY <1>4 DEF Walked, Moving
  <1>6. \A k \in Clients : Moving(k)' => k \in Movers
    BY <1>3, <1>4
  <1> SUFFICES Acyclic' /\ Walked(c)'
    BY <1>1, <1>5, <1>6
  <1>7. ASSUME UNCHANGED tree PROVE Acyclic'
    BY <1>7 DEF tree, Acyclic, Cyclic
  <1>8. ASSUME End(c) PROVE Walked(c)'
    <2>1. req'[c] = Idle
      BY <1>8 DEF TypeOK, End, Goto
    <2> QED BY <2>1 DEF Walked, Idle
  <1>9. ASSUME NEW r, Goto(c, r) PROVE req'[c] = r
    BY <1>9 DEF TypeOK, Goto
  <1>10. CASE MoveLoad(c)
    <2> DEFINE r(f, to) == [at |-> IF to = Root THEN "move" ELSE "target",
                            folder |-> f, to |-> to, cur |-> to, seen |-> {}]
    <2>1. PICK f \in Folders, to \in Places : Goto(c, r(f, to))
      BY <1>10 DEF MoveLoad, Start, Goto
    <2>2. req'[c] = r(f, to)
      BY <1>9, <2>1
    <2>3. Walked(c)'
      BY <2>2 DEF Walked, At
    <2> QED BY <1>7, <1>10, <2>3 DEF MoveLoad
  <1>11. CASE MoveTarget(c)
    <2>1. req[c] \in TargetRequest
      BY <1>11, Kinds DEF MoveTarget
    <2>2. CASE Live(req[c].to)
      <3>1. req'[c] = [req[c] EXCEPT !.at = "walk"]
        BY <1>9, <1>11, <2>2 DEF MoveTarget
      <3>2. Walked(c)'
        BY <2>1, <3>1 DEF Walked, At, TargetRequest
      <3> QED BY <1>7, <1>11, <3>2 DEF MoveTarget
    <2> QED BY <1>7, <1>8, <1>11, <2>2 DEF MoveTarget
  <1>12. CASE MoveAscend(c)
    <2>1. req[c] \in MoveRequest
      BY <1>12, Kinds DEF MoveAscend, At
    <2>2. req'[c] = [req[c] EXCEPT !.cur = parent[req[c].cur],
                                   !.seen = @ \union {req[c].cur}]
      BY <1>9, <1>12 DEF MoveAscend
    <2>3. /\ At(c, "walk") /\ parent' = parent
          /\ req[c].cur # req[c].folder
      BY <1>12 DEF MoveAscend, tree
    <2>4. /\ req'[c].at = "walk"
          /\ req'[c].folder = req[c].folder
          /\ req'[c].to = req[c].to
          /\ req'[c].cur = parent[req[c].cur]
          /\ req'[c].seen = req[c].seen \union {req[c].cur}
      BY <2>1, <2>2, <2>3 DEF MoveRequest, At
    <2>5. Walked(c)'
      BY <2>3, <2>4 DEF Walked, At
    <2> QED BY <1>7, <1>12, <2>5 DEF MoveAscend
  <1>13. CASE MoveReject(c)
    BY <1>7, <1>8, <1>13 DEF MoveReject
  <1>14. CASE MoveAccept(c)
    <2>1. req[c] \in MoveRequest
      BY <1>14, Kinds DEF MoveAccept, At
    <2>2. req'[c] = [req[c] EXCEPT !.at = "move"]
      BY <1>9, <1>14 DEF MoveAccept
    <2>3. /\ At(c, "walk") /\ parent' = parent
          /\ req[c].cur \in req[c].seen \union {Root}
      BY <1>14 DEF MoveAccept, tree
    <2>4. req[c].cur \notin req[c].seen
      <3> SUFFICES ASSUME req[c].cur \in req[c].seen PROVE FALSE
        OBVIOUS
      <3>1. req[c].seen \in SUBSET Folders
        BY <2>1 DEF MoveRequest, Rows
      <3>2. Cyclic(req[c].seen)
        BY <2>3 DEF Walked, At, Cyclic
      <3> QED BY <3>1, <3>2 DEF Acyclic
    <2>5. /\ req'[c].at = "move"
          /\ req'[c].folder = req[c].folder
          /\ req'[c].to = req[c].to
          /\ req'[c].seen = req[c].seen
      BY <2>1, <2>2 DEF MoveRequest
    <2>6. Walked(c)'
      BY <2>3, <2>4, <2>5 DEF Walked, At
    <2> QED BY <1>7, <1>14, <2>6 DEF MoveAccept
  <1>15. CASE MoveWrite(c)
    BY <1>8, <1>15, MoveAcyclic DEF MoveWrite
  <1> QED BY <1>10, <1>11, <1>12, <1>13, <1>14, <1>15 DEF MoveStep

(* The steps of the other requests leave moves and folders' places alone.   *)
LEMMA TreeLook ==
  ASSUME TreeInv, TypeOK', parent' = parent,
         \A k \in Clients : Moving(k)' => req'[k] = req[k]
  PROVE  TreeInv'
  <1>1. Acyclic'
    BY DEF TreeInv, Acyclic, Cyclic
  <1>2. \A k \in Clients : Moving(k)' => k \in Movers /\ Walked(k)'
    BY DEF TreeInv, Moving, Walked, At
  <1> QED BY <1>1, <1>2 DEF TreeInv, Walked, Moving

LEMMA TreeOther ==
  ASSUME TreeInv, NEW c \in Clients,
         \/ CreateLoad(c) \/ CreateInsert(c)
         \/ PlaceLoad(c) \/ PlaceWrite(c) \/ DeleteStep(c)
  PROVE  TreeInv'
  <1>0. TypeOK /\ TypeOK'
    BY TypeCreate, TypePlace, TypeDelete DEF TreeInv
  <1>1. ASSUME NEW r, Goto(c, r)
        PROVE  \A k \in Clients : req'[k] = IF k = c THEN r ELSE req[k]
    BY <1>0, <1>1 DEF TypeOK, Goto
  <1>2. ASSUME End(c) PROVE \A k \in Clients : Moving(k)' => req'[k] = req[k]
    BY <1>1, <1>2 DEF End, Moving, Idle
  <1>3. CASE CreateLoad(c)
    <2>1. PICK to \in Places : Goto(c, [at |-> "insert", to |-> to])
      BY <1>3 DEF CreateLoad, Start, Goto
    <2> QED BY <1>0, <1>1, <1>3, <2>1, TreeLook DEF CreateLoad, Moving, tree
  <1>4. CASE CreateInsert(c)
    <2>1. req[c].to \in Parents
      BY <1>0, <1>4, Kinds DEF CreateInsert, At, CreateRequest
    <2>2. PICK f \in Folders \ Rows : parent' = [parent EXCEPT ![f] = req[c].to]
      BY <1>4 DEF CreateInsert, Rows
    <2>3. Acyclic'
      BY <2>1, <2>2, InsertAcyclic DEF TreeInv
    <2>4. ASSUME NEW k \in Clients, Moving(k)' PROVE k \in Movers /\ Walked(k)'
      <3>1. req'[k] = req[k]
        BY <1>2, <1>4, <2>4 DEF CreateInsert
      <3>2. k \in Movers /\ Walked(k)
        BY <2>4, <3>1 DEF TreeInv, Moving
      <3>3. CASE req[k].at \in {"walk", "move"}
        <4>1. req[k].seen \subseteq Rows
          BY <1>0, <3>3, Kinds DEF MoveRequest
        <4>2. \A g \in req[k].seen : parent'[g] = parent[g]
          BY <1>0, <2>2, <4>1 DEF TypeOK, Rows
        <4> QED BY <3>1, <3>2, <4>2 DEF Walked, At
      <3> QED BY <3>1, <3>2, <3>3 DEF Walked
    <2> QED BY <1>0, <2>3, <2>4 DEF TreeInv, Walked, Moving
  <1>5. CASE PlaceLoad(c)
    <2>1. PICK x \in Files, to \in Places :
            Goto(c, [at |-> "place", file |-> x, to |-> to])
      BY <1>5 DEF PlaceLoad, Start, Goto
    <2> QED BY <1>0, <1>1, <1>5, <2>1, TreeLook DEF PlaceLoad, Moving, tree
  <1>6. CASE PlaceWrite(c)
    BY <1>0, <1>2, <1>6, TreeLook DEF PlaceWrite
  <1>7. CASE DeleteStep(c)
    <2>1. parent' = parent
      BY <1>7 DEF DeleteStep, DeleteLoad, DeleteCollect, DeleteList, DeleteFileLoad,
                  DeleteFileMark, DeleteNotFound, DeleteStamp, DeleteFails, tree
    <2>2. \A k \in Clients : k # c => req'[k] = req[k]
      BY <1>0, <1>7
         DEF TypeOK, DeleteStep, DeleteLoad, DeleteCollect, DeleteList,
             DeleteFileLoad, DeleteFileMark, DeleteNotFound, DeleteStamp,
             DeleteFails, Start, Goto, End
    <2>3. ~Moving(c)'
      <3> DEFINE node(found) == [req[c] EXCEPT !.nodes = @ \o found, !.scanned = @ + 1]
                 list == [req[c] EXCEPT !.at = "files", !.scanned = 0,
                            !.files = {x \in Files : Committed(x) /\ where[x] = Node(c)}]
                 load(x) == [req[c] EXCEPT !.at = "mark", !.file = x, !.files = @ \ {x}]
                 mark == [req[c] EXCEPT !.at = "files", !.file = None]
                 stamp == [req[c] EXCEPT !.at = "sweep", !.nodes = Tail(@)]
      <3>0. Deleting(c) => req[c] \in DeleteRequest
        BY <1>0, Kinds
      <3>1. CASE DeleteLoad(c)
        <4>1. PICK f \in Folders : Goto(c, [at |-> "collect", nodes |-> <<f>>,
                                scanned |-> 0, files |-> {}, file |-> None])
          BY <3>1 DEF DeleteLoad, Start, Goto
        <4>2. req'[c].at = "collect"
          BY <1>0, <4>1 DEF Goto, TypeOK
        <4> QED BY <4>2 DEF Moving
      <3>2. CASE DeleteCollect(c)
        <4>1. Deleting(c) /\ At(c, "collect")
          BY <3>2 DEF DeleteCollect, Deleting, At
        <4>2. \E found : req'[c] = node(found)
          BY <1>0, <3>2, <4>1 DEF DeleteCollect, Goto, TypeOK
        <4>3. \A found : node(found).at = req[c].at
          BY <3>0, <4>1 DEF DeleteRequest
        <4> HIDE DEF node
        <4> QED BY <4>1, <4>2, <4>3 DEF At, Moving
      <3>3. CASE DeleteList(c)
        <4>1. Deleting(c) /\ req'[c] = list
          BY <1>0, <3>3 DEF DeleteList, Deleting, At, Goto, TypeOK
        <4>2. list.at = "files"
          BY <3>0, <4>1 DEF DeleteRequest
        <4> QED BY <4>1, <4>2 DEF Moving
      <3>4. CASE DeleteFileLoad(c)
        <4>1. Deleting(c) /\ \E x : req'[c] = load(x)
          BY <1>0, <3>4 DEF DeleteFileLoad, Deleting, At, Goto, TypeOK
        <4>2. \A x : load(x).at = "mark"
          BY <3>0, <4>1 DEF DeleteRequest
        <4> QED BY <4>1, <4>2 DEF Moving
      <3>5. CASE DeleteFileMark(c)
        <4>1. Deleting(c) /\ req'[c] = mark
          BY <1>0, <3>5 DEF DeleteFileMark, Deleting, At, Goto, TypeOK
        <4>2. mark.at = "files"
          BY <3>0, <4>1 DEF DeleteRequest
        <4> QED BY <4>1, <4>2 DEF Moving
      <3>6. CASE DeleteStamp(c)
        <4>1. Deleting(c) /\ (req'[c] = Idle \/ req'[c] = stamp)
          BY <1>0, <3>6 DEF DeleteStamp, Deleting, At, Goto, End, TypeOK
        <4>2. stamp.at = "sweep"
          BY <3>0, <4>1 DEF DeleteRequest
        <4>3. Idle.at = "idle"
          BY DEF Idle
        <4> HIDE DEF stamp
        <4> QED BY <4>1, <4>2, <4>3 DEF Moving
      <3>7. CASE DeleteNotFound(c) \/ DeleteFails(c)
        BY <1>1, <3>7 DEF DeleteNotFound, DeleteFails, End, Idle, Moving
      <3> QED BY <1>7, <3>1, <3>2, <3>3, <3>4, <3>5, <3>6, <3>7 DEF DeleteStep
    <2> QED BY <1>0, <2>1, <2>2, <2>3, TreeLook
  <1> QED BY <1>3, <1>4, <1>5, <1>6, <1>7

(* As long as one client alone moves folders, whatever the others create    *)
(* and delete meanwhile, no folder ever becomes its own ancestor: what      *)
(* _would_create_cycle rejects is enough.                                   *)
THEOREM OneMoverAcyclic ==
  ASSUME \A m, n \in Movers : m = n
  PROVE  Spec => []Acyclic
  <1>1. Init => TreeInv
    <2> SUFFICES ASSUME Init PROVE TreeInv
      OBVIOUS
    <2>1. req \in [Clients -> Requests]
      BY DEF Init, Requests
    <2>2. TypeTree
      BY DEF Init, TypeTree
    <2>3. Acyclic /\ \A c \in Clients : req[c].at = "idle"
      BY DEF Init, Idle
    <2> QED BY <2>1, <2>2, <2>3, TypeParts DEF TreeInv, Walked, Moving
  <1>2. TreeInv /\ [Next]_vars => TreeInv'
    <2> SUFFICES ASSUME TreeInv, [Next]_vars PROVE TreeInv'
      OBVIOUS
    <2>1. CASE UNCHANGED vars
      BY <2>1, TreeLook, UnchangedType DEF vars, tree, TreeInv
    <2>2. ASSUME NEW x \in Files, RemoveFile(x) PROVE TreeInv'
      BY <2>2, TreeLook, RemoveType DEF RemoveFile, TreeInv
    <2> QED BY <2>1, <2>2, TreeMove, TreeOther DEF Next
  <1>3. TreeInv => Acyclic
    BY DEF TreeInv
  <1> QED BY <1>1, <1>2, <1>3, PTL DEF Spec

-----------------------------------------------------------------------------
(****************************************************************************)
(* What a cascade leaves behind in a folder came after the listing.         *)
(****************************************************************************)

(* A file in the folder a cascade is emptying is on its list, is the one it *)
(* marks next, or came late.                                                *)
Handed(c) ==
    req[c].at \in {"files", "mark"} =>
        \A x \in Files : Committed(x) /\ where[x] = Node(c) =>
            \/ x \in req[c].files \union late
            \/ At(c, "mark") /\ x = req[c].file

StrandInv ==
    /\ TypeOK
    /\ StrandedOnlyLate
    /\ \A c \in Clients : Handed(c)

(* Steps that neither place a file, nor list, mark or let go of one.        *)
LEMMA StrandLook ==
  ASSUME StrandInv, TypeOK', UNCHANGED <<deleted, where, late>>,
         \A x \in Files : Committed(x)' => Committed(x),
         \A k \in Clients : req'[k].at \in {"files", "mark"} => req'[k] = req[k]
  PROVE  StrandInv'
  <1>1. StrandedOnlyLate'
    BY DEF StrandInv, StrandedOnlyLate
  <1>2. ASSUME NEW k \in Clients PROVE Handed(k)'
    BY DEF StrandInv, Handed, Node, At
  <1> QED BY <1>1, <1>2 DEF StrandInv

(* A request of another kind is no cascade, before and after its step.      *)
LEMMA NoCascade ==
  ASSUME TypeOK, TypeOK', NEW c \in Clients,
         MoveStep(c) \/ CreateLoad(c) \/ CreateInsert(c) \/ PlaceLoad(c) \/ PlaceWrite(c)
  PROVE  ~Deleting(c) /\ ~Deleting(c)' /\ \A k \in Clients : k # c => req'[k] = req[k]
  <1>0. TypeOK
    OBVIOUS
  <1> USE DEF Start, Goto, End
  <1>1. \A k \in Clients : k # c => req'[k] = req[k]
    BY <1>0 DEF TypeOK, MoveStep, MoveLoad, MoveTarget, MoveAscend, MoveReject,
                MoveAccept, MoveWrite, CreateLoad, CreateInsert, PlaceLoad, PlaceWrite
  <1>2. ~Deleting(c)
    BY DEF Deleting, At, MoveStep, MoveLoad, MoveTarget, MoveAscend, MoveReject,
           MoveAccept, MoveWrite, CreateLoad, CreateInsert, PlaceLoad, PlaceWrite
  <1>3. req'[c].at \notin {"collect", "sweep", "files", "mark"}
    <2>1. Idle.at = "idle"
      BY DEF Idle
    <2>2. CASE MoveLoad(c)
      <3>1. PICK f \in Folders, to \in Places :
              req'[c] = [at |-> IF to = Root THEN "move" ELSE "target",
                         folder |-> f, to |-> to, cur |-> to, seen |-> {}]
        BY <1>0, <2>2 DEF MoveLoad, TypeOK
      <3> QED BY <3>1
    <2>3. CASE MoveTarget(c) \/ MoveAscend(c) \/ MoveAccept(c)
      <3>1. /\ req[c] \in TargetRequest \union MoveRequest
            /\ req[c].at \in {"target", "walk"}
        BY <1>0, <2>3, Kinds DEF MoveTarget, MoveAscend, MoveAccept, At
      <3> DEFINE r(step) == [req[c] EXCEPT !.at = step]
                 up == [req[c] EXCEPT !.cur = parent[req[c].cur],
                                      !.seen = @ \union {req[c].cur}]
      <3>2. req'[c] \in {Idle, r("walk"), r("move"), up}
        BY <1>0, <2>3 DEF MoveTarget, MoveAscend, MoveAccept, TypeOK
      <3>3. /\ \A step : r(step).at = step
            /\ up.at = req[c].at
        BY <3>1 DEF TargetRequest, MoveRequest
      <3> HIDE DEF r, up
      <3> QED BY <2>1, <3>1, <3>2, <3>3
    <2>4. CASE MoveReject(c) \/ MoveWrite(c) \/ CreateInsert(c) \/ PlaceWrite(c)
      BY <1>0, <2>1, <2>4 DEF MoveReject, MoveWrite, CreateInsert, PlaceWrite, TypeOK
    <2>5. CASE CreateLoad(c)
      <3>1. PICK to \in Places : req'[c] = [at |-> "insert", to |-> to]
        BY <1>0, <2>5 DEF CreateLoad, TypeOK
      <3> QED BY <3>1
    <2>6. CASE PlaceLoad(c)
      <3>1. PICK x \in Files, to \in Places :
              req'[c] = [at |-> "place", file |-> x, to |-> to]
        BY <1>0, <2>6 DEF PlaceLoad, TypeOK
      <3> QED BY <3>1
    <2> QED BY <2>2, <2>3, <2>4, <2>5, <2>6 DEF MoveStep
  <1> QED BY <1>1, <1>2, <1>3 DEF Deleting

LEMMA StrandOther ==
  ASSUME StrandInv, NEW c \in Clients,
         MoveStep(c) \/ CreateLoad(c) \/ CreateInsert(c) \/ PlaceLoad(c)
  PROVE  StrandInv'
  <1>0. TypeOK /\ TypeOK'
    BY TypeMove, TypeCreate, TypePlace DEF StrandInv
  <1> USE DEF Start, Goto, End
  <1>1. /\ UNCHANGED <<deleted, where, status, late>>
        /\ \A k \in Clients : k # c => req'[k] = req[k]
    BY <1>0 DEF TypeOK, tree, MoveStep, MoveLoad, MoveTarget, MoveAscend, MoveReject,
                MoveAccept, MoveWrite, CreateLoad, CreateInsert, PlaceLoad
  <1>2. req'[c].at \notin {"files", "mark"}
    BY <1>0, NoCascade DEF Deleting
  <1> QED BY <1>0, <1>1, <1>2, StrandLook DEF Committed

LEMMA StrandPlace ==
  ASSUME StrandInv, NEW c \in Clients, PlaceWrite(c)
  PROVE  StrandInv'
  <1>0. TypeOK /\ TypeOK'
    BY TypePlace DEF StrandInv
  <1> DEFINE x == req[c].file
             to == req[c].to
  <1>1. x \in Files
    BY <1>0, Kinds DEF PlaceWrite, PlaceRequest
  <1>2. /\ where' = [where EXCEPT ![x] = to] /\ deleted' = deleted
        /\ late' = IF to \in deleted \/ Emptying(to)
                   THEN late \union {x} ELSE late \ {x}
        /\ \A y \in Files : y # x => status'[y] = status[y]
    BY <1>0, <1>1 DEF PlaceWrite, TypeOK
  <1>3. \A k \in Clients : req'[k] = IF k = c THEN Idle ELSE req[k]
    BY <1>0 DEF PlaceWrite, End, Goto, TypeOK
  <1>4. \A y \in Files : where'[y] = IF y = x THEN to ELSE where[y]
    BY <1>0, <1>1, <1>2 DEF TypeOK
  <1> HIDE DEF x, to
  <1>5. StrandedOnlyLate'
    BY <1>2, <1>4 DEF StrandInv, StrandedOnlyLate, Committed
  <1>6. ASSUME NEW k \in Clients PROVE Handed(k)'
    <2>1. CASE k = c
      BY <1>3, <2>1 DEF Handed, Idle
    <2>2. CASE k # c
      <3> SUFFICES ASSUME req[k].at \in {"files", "mark"}, NEW y \in Files,
                          Committed(y)', where'[y] = Node(k)
                   PROVE  y \in req[k].files \union late' \/ (At(k, "mark") /\ y = req[k].file)
        BY <1>3, <2>2 DEF Handed, Node, At
      <3>1. CASE y = x
        BY <1>2, <1>4, <3>1 DEF Emptying
      <3>2. CASE y # x
        <4>1. Committed(y) /\ where[y] = Node(k)
          BY <1>2, <1>4, <3>2 DEF Committed
        <4>2. y \in req[k].files \union late \/ (At(k, "mark") /\ y = req[k].file)
          BY <4>1 DEF StrandInv, Handed
        <4> QED BY <1>2, <3>2, <4>2
      <3> QED BY <3>1, <3>2
    <2> QED BY <2>1, <2>2
  <1> QED BY <1>0, <1>5, <1>6 DEF StrandInv

LEMMA StrandDelete ==
  ASSUME StrandInv, NEW c \in Clients, DeleteStep(c)
  PROVE  StrandInv'
  <1>0. TypeOK /\ TypeOK'
    BY TypeDelete DEF StrandInv
  <1> USE DEF Start, Goto, End
  <1>1. /\ UNCHANGED <<where, late>>
        /\ \A k \in Clients : k # c => req'[k] = req[k]
        /\ \A x \in Files : Committed(x)' => Committed(x)
    BY <1>0 DEF TypeOK, Committed, tree, DeleteStep, DeleteLoad, DeleteCollect,
                DeleteList, DeleteFileLoad, DeleteFileMark, DeleteNotFound,
                DeleteStamp, DeleteFails
  <1>2. \A k \in Clients : k # c => Handed(k)'
    BY <1>1 DEF StrandInv, Handed, Node, At
  <1>3. ASSUME deleted' = deleted PROVE StrandedOnlyLate'
    BY <1>1, <1>3 DEF StrandInv, StrandedOnlyLate
  <1>4. Deleting(c) => req[c] \in DeleteRequest
    BY <1>0, Kinds
  <1> SUFFICES StrandedOnlyLate' /\ Handed(c)'
    BY <1>0, <1>2 DEF StrandInv
  <1>5. CASE DeleteLoad(c)
    <2>1. PICK f \in Folders : req'[c] = [at |-> "collect", nodes |-> <<f>>,
                                  scanned |-> 0, files |-> {}, file |-> None]
      BY <1>0, <1>5 DEF DeleteLoad, TypeOK
    <2> QED BY <1>3, <1>5, <2>1 DEF DeleteLoad, tree, Handed
  <1>6. CASE DeleteCollect(c)
    <2> DEFINE r(found) == [req[c] EXCEPT !.nodes = @ \o found, !.scanned = @ + 1]
    <2>1. Deleting(c) /\ At(c, "collect") /\ \E found : req'[c] = r(found)
      BY <1>0, <1>6 DEF DeleteCollect, Deleting, At, TypeOK
    <2>2. \A found : r(found).at = "collect"
      BY <1>4, <2>1 DEF DeleteRequest, At
    <2> HIDE DEF r
    <2>3. req'[c].at = "collect"
      BY <2>1, <2>2
    <2> QED BY <1>3, <1>6, <2>3 DEF DeleteCollect, tree, Handed
  <1>7. CASE DeleteList(c)
    <2> DEFINE here == {x \in Files : Committed(x) /\ where[x] = Node(c)}
               r == [req[c] EXCEPT !.at = "files", !.scanned = 0, !.files = here]
    <2>1. Deleting(c) /\ req'[c] = r /\ UNCHANGED <<tree, late>>
      BY <1>0, <1>7 DEF DeleteList, Deleting, At, TypeOK
    <2>2. r.nodes = req[c].nodes /\ r.files = here
      BY <1>4, <2>1 DEF DeleteRequest
    <2> HIDE DEF r
    <2>3. Handed(c)'
      BY <2>1, <2>2 DEF Handed, Node, Committed, tree
    <2> QED BY <1>3, <2>1, <2>3 DEF tree
  <1>8. CASE DeleteFileLoad(c)
    <2> DEFINE r(x) == [req[c] EXCEPT !.at = "mark", !.file = x, !.files = @ \ {x}]
    <2>1. Deleting(c) /\ At(c, "files") /\ UNCHANGED <<tree, late>>
      BY <1>8 DEF DeleteFileLoad, Deleting, At
    <2>2. PICK x \in req[c].files : req'[c] = r(x)
      BY <1>0, <1>8 DEF DeleteFileLoad, TypeOK
    <2>3. /\ r(x).nodes = req[c].nodes /\ r(x).files = req[c].files \ {x}
          /\ r(x).file = x /\ r(x).at = "mark"
      BY <1>4, <2>1 DEF DeleteRequest
    <2> HIDE DEF r
    <2>4. Handed(c)'
      BY <2>1, <2>2, <2>3 DEF StrandInv, Handed, Node, Committed, tree, At
    <2> QED BY <1>3, <2>1, <2>4 DEF tree
  <1>9. CASE DeleteFileMark(c)
    <2> DEFINE r == [req[c] EXCEPT !.at = "files", !.file = None]
    <2>1. /\ Deleting(c) /\ At(c, "mark") /\ UNCHANGED <<deleted, where, late>>
          /\ req'[c] = r
      BY <1>0, <1>9 DEF DeleteFileMark, Deleting, At, TypeOK
    <2>2. r.nodes = req[c].nodes /\ r.files = req[c].files /\ r.at = "files"
      BY <1>4, <2>1 DEF DeleteRequest
    <2>3. status'[req[c].file] # "committed" \/ req[c].file \notin Files
      BY <1>0, <1>9 DEF DeleteFileMark, Committed, TypeOK
    <2> HIDE DEF r
    <2>4. Handed(c)'
      BY <1>1, <2>1, <2>2, <2>3 DEF StrandInv, Handed, Node, At, Committed
    <2> QED BY <1>3, <2>1, <2>4
  <1>10. CASE DeleteNotFound(c) \/ DeleteFails(c)
    <2>1. req'[c] = Idle /\ deleted' = deleted
      BY <1>0, <1>10 DEF DeleteNotFound, DeleteFails, TypeOK, tree
    <2> QED BY <1>3, <2>1 DEF Handed, Idle
  <1>11. CASE DeleteStamp(c)
    <2> DEFINE r == [req[c] EXCEPT !.at = "sweep", !.nodes = Tail(@)]
    <2>1. /\ Deleting(c) /\ At(c, "files") /\ req[c].files = {}
          /\ deleted' = deleted \union {Node(c)}
          /\ req'[c] = Idle \/ req'[c] = r
      BY <1>0, <1>11 DEF DeleteStamp, Deleting, At, TypeOK
    <2>2. r.at = "sweep" /\ Idle.at = "idle"
      BY <1>4, <2>1 DEF DeleteRequest, Idle
    <2> HIDE DEF r
    <2>3. Handed(c)'
      BY <2>1, <2>2 DEF Handed
    <2>4. StrandedOnlyLate'
      BY <1>1, <2>1 DEF StrandInv, StrandedOnlyLate, Handed, At
    <2> QED BY <2>3, <2>4
  <1> QED BY <1>5, <1>6, <1>7, <1>8, <1>9, <1>10, <1>11 DEF DeleteStep

LEMMA StrandInit == Init => StrandInv
  <1> SUFFICES ASSUME Init PROVE StrandInv
    OBVIOUS
  <1>1. req \in [Clients -> Requests]
    BY DEF Init, Requests
  <1>2. TypeTree
    BY DEF Init, TypeTree
  <1>3. deleted = {} /\ \A c \in Clients : req[c].at = "idle"
    BY DEF Init, Idle
  <1> QED BY <1>1, <1>2, <1>3, TypeParts DEF StrandInv, StrandedOnlyLate, Handed

LEMMA StrandStep == StrandInv /\ [Next]_vars => StrandInv'
  <1> SUFFICES ASSUME StrandInv, [Next]_vars PROVE StrandInv'
    OBVIOUS
  <1>1. CASE UNCHANGED vars
    BY <1>1, StrandLook, UnchangedType DEF vars, tree, StrandInv, Committed
  <1>2. ASSUME NEW x \in Files, RemoveFile(x) PROVE StrandInv'
    <2>1. \A y \in Files : Committed(y)' => Committed(y)
      BY <1>2 DEF RemoveFile, Committed, StrandInv, TypeOK
    <2> QED BY <1>2, <2>1, StrandLook, RemoveType DEF RemoveFile, StrandInv
  <1> QED BY <1>1, <1>2, StrandOther, StrandPlace, StrandDelete DEF Next

(* However requests overlap and wherever a cascade is cut short, a file     *)
(* still readable inside a deleted folder was put there after the cascade   *)
(* had listed the folder.                                                   *)
THEOREM FoldersEmptied == Spec => []StrandedOnlyLate
  <1>1. StrandInv => StrandedOnlyLate
    BY DEF StrandInv
  <1> QED BY <1>1, StrandInit, StrandStep, PTL DEF Spec

-----------------------------------------------------------------------------
(* Cascades that are left alone.                                            *)

Listed(c) == ToSet(req[c].nodes)

(* The live children of a folder are on the list of the cascade.            *)
Kept(c, node) == \A f \in Folders : Live(f) /\ parent[f] = node => f \in Listed(c)

(* A cascade keeps the children of all folders it has scanned.              *)
Covered(c) ==
    /\ At(c, "collect") =>
          /\ req[c].scanned <= Len(req[c].nodes)
          /\ \A i \in 1 .. req[c].scanned : Kept(c, req[c].nodes[i])
    /\ req[c].at \in {"sweep", "files", "mark"} => \A n \in Listed(c) : Kept(c, n)

(* A live folder under a deleted one is still to be deleted by somebody.    *)
Followed ==
    \A f \in Folders : Live(f) /\ parent[f] \in deleted =>
        \E c \in Clients : Deleting(c) /\ f \in Listed(c)

CascadeInv ==
    /\ StrandInv
    /\ ~raced => late = {} /\ Followed /\ \A c \in Clients : Covered(c)

(* Steps that leave the tree of folders and the cascades alone.             *)
LEMMA CascadeLook ==
  ASSUME CascadeInv, StrandInv', UNCHANGED <<parent, deleted>>,
         ~raced' => ~raced /\ late' \subseteq late,
         \A k \in Clients : req'[k] = req[k] \/ (~Deleting(k) /\ ~Deleting(k)')
  PROVE  CascadeInv'
  <1> SUFFICES ASSUME ~raced' PROVE late' = {} /\ Followed' /\ \A k \in Clients : Covered(k)'
    BY DEF CascadeInv
  <1>1. late' = {}
    BY DEF CascadeInv
  <1>2. Followed'
    BY DEF CascadeInv, Followed, Live, Deleting, Listed
  <1>3. ASSUME NEW k \in Clients PROVE Covered(k)'
    <2>1. CASE req'[k] = req[k]
      BY <2>1 DEF CascadeInv, Covered, Kept, Listed, Live, At
    <2>2. CASE ~Deleting(k)'
      BY <2>2 DEF Covered, Deleting, At
    <2> QED BY <2>1, <2>2
  <1> QED BY <1>1, <1>2, <1>3

(* With no cascade under way, nothing live is under a deleted folder, and   *)
(* a write to a live place leaves it so.                                    *)
LEMMA CascadeWrite ==
  ASSUME CascadeInv, NEW c \in Clients, MoveWrite(c) \/ CreateInsert(c)
  PROVE  CascadeInv'
  <1>0. TypeOK /\ TypeOK' /\ StrandInv'
    <2>1. TypeOK /\ StrandInv /\ (MoveStep(c) \/ CreateInsert(c))
      BY DEF CascadeInv, StrandInv, MoveStep
    <2>2. StrandInv'
      BY <2>1, StrandOther
    <2> QED BY <2>1, <2>2 DEF StrandInv
  <1> SUFFICES ASSUME ~raced' PROVE late' = {} /\ Followed' /\ \A k \in Clients : Covered(k)'
    BY <1>0 DEF CascadeInv
  <1>1. /\ ~raced /\ ~Races(req[c].to)
        /\ late' = late /\ deleted' = deleted
    BY DEF MoveWrite, CreateInsert
  <1>2. \A k \in Clients : ~Deleting(k) /\ ~Deleting(k)'
    <2>1. \A k \in Clients : ~Deleting(k)
      BY <1>1 DEF Races
    <2>2. ~Deleting(c)' /\ \A k \in Clients : k # c => req'[k] = req[k]
      BY <1>0, NoCascade DEF MoveStep
    <2> QED BY <2>1, <2>2 DEF Deleting
  <1>3. \A f \in Folders : Live(f) => parent[f] \notin deleted
    BY <1>1, <1>2 DEF CascadeInv, Followed
  <1>4. \A f \in Folders : parent'[f] = parent[f] \/ parent'[f] = req[c].to
    BY <1>0 DEF MoveWrite, CreateInsert, TypeOK
  <1>5. req[c].to \notin deleted
    BY <1>1 DEF Races
  <1>6. None \notin deleted
    BY <1>0, ConstantsAssumption DEF TypeOK, Rows, Places
  <1>7. Followed'
    <2> SUFFICES ASSUME NEW f \in Folders, Live(f)' PROVE parent'[f] \notin deleted
      BY <1>1 DEF Followed
    <2> QED BY <1>1, <1>3, <1>4, <1>5, <1>6 DEF Live
  <1>8. \A k \in Clients : Covered(k)'
    BY <1>2 DEF Covered, Deleting, At
  <1> QED BY <1>1, <1>7, <1>8 DEF CascadeInv


(* What becomes of a cascade's request in each of its steps.                *)
LEMMA CascadeRequest ==
  ASSUME TypeOK, TypeOK', NEW c \in Clients, DeleteStep(c), ~raced'
  PROVE  LET q == req[c]
             r == req'[c]
         IN \/ /\ ~Deleting(c) /\ deleted' = deleted
               /\ r.at = "collect" /\ r.scanned = 0 /\ r.nodes \in Seq(Folders)
            \/ /\ q.at = "collect" /\ r.at = "collect" /\ deleted' = deleted
               /\ q.nodes \in Seq(Folders) /\ q.scanned \in Nat /\ q.scanned < Len(q.nodes)
               /\ r.scanned = q.scanned + 1
               /\ \E found \in Seq(Folders) :
                     /\ r.nodes = q.nodes \o found
                     /\ \A f \in Folders : Live(f) /\ parent[f] = q.nodes[q.scanned + 1] =>
                           f \in ToSet(q.nodes) \/ \E i \in DOMAIN found : found[i] = f
            \/ /\ \/ q.at = "collect" /\ q.scanned = Len(q.nodes)
                  \/ q.at \in {"sweep", "files", "mark"}
               /\ r.at \in {"files", "mark"} /\ r.nodes = q.nodes /\ deleted' = deleted
               /\ q.nodes \in Seq(Folders)
            \/ /\ q.at = "files" /\ q.nodes \in Seq(Folders) /\ q.nodes # <<>>
               /\ deleted' = deleted \union {Head(q.nodes)}
               /\ \/ Len(q.nodes) = 1 /\ r = Idle
                  \/ r.at = "sweep" /\ r.nodes = Tail(q.nodes)
  <1> DEFINE q == req[c]
             r == req'[c]
  <1> USE DEF Start, Goto, End
  <1>1. Deleting(c) => q \in DeleteRequest
    BY Kinds
  <1>2. Deleting(c) => q.nodes \in Seq(Folders) /\ q.nodes # <<>> /\ q.scanned \in Nat
    <2>1. Seq(Rows) \subseteq Seq(Folders)
      BY DEF Rows
    <2> QED BY <1>1, <2>1 DEF DeleteRequest
  <1>3. CASE DeleteLoad(c)
    <2>1. PICK f \in Folders : r = [at |-> "collect", nodes |-> <<f>>,
                                    scanned |-> 0, files |-> {}, file |-> None]
      BY <1>3 DEF DeleteLoad, TypeOK
    <2>2. ~Deleting(c) /\ deleted' = deleted
      BY <1>3 DEF DeleteLoad, At, Deleting, tree
    <2>3. r.at = "collect" /\ r.scanned = 0 /\ r.nodes \in Seq(Folders)
      BY <2>1
    <2> QED BY <2>2, <2>3
  <1>4. CASE DeleteCollect(c)
    <2> DEFINE next == q.nodes[q.scanned + 1]
               children == {f \in Folders : parent[f] = next /\ f \notin deleted}
               new == children \ ToSet(q.nodes)
               e(found) == [q EXCEPT !.nodes = q.nodes \o found, !.scanned = @ + 1]
    <2>1. /\ Deleting(c) /\ q.at = "collect" /\ q.scanned < Len(q.nodes)
          /\ deleted' = deleted
      BY <1>4 DEF DeleteCollect, At, Deleting, tree
    <2>2. PICK found \in SetToSeqs(new) : r = e(found)
      BY <1>4 DEF DeleteCollect, TypeOK
    <2>3. r.at = "collect" /\ r.scanned = q.scanned + 1 /\ r.nodes = q.nodes \o found
      BY <1>1, <2>1, <2>2 DEF DeleteRequest
    <2>4. found \in Seq(new) /\ \A f \in new : \E i \in DOMAIN found : found[i] = f
      BY ListingType, ListingAll
    <2>5. found \in Seq(Folders)
      BY <2>4
    <2>6. \A f \in Folders : Live(f) /\ parent[f] = next => f \in ToSet(q.nodes) \/ f \in new
      BY DEF Live
    <2> HIDE DEF new, next, e
    <2>7. \A f \in Folders : Live(f) /\ parent[f] = next =>
             f \in ToSet(q.nodes) \/ \E i \in DOMAIN found : found[i] = f
      BY <2>4, <2>6
    <2> QED BY <1>2, <2>1, <2>3, <2>5, <2>7 DEF next
  <1>5. CASE DeleteList(c)
    <2> DEFINE here == {x \in Files : Committed(x) /\ where[x] = Node(c)}
    <2>1. /\ r = [q EXCEPT !.at = "files", !.scanned = 0, !.files = here]
          /\ deleted' = deleted
      BY <1>5 DEF DeleteList, TypeOK, tree
    <2>2. (q.at = "collect" /\ q.scanned = Len(q.nodes)) \/ q.at = "sweep"
      BY <1>5 DEF DeleteList, At
    <2>3. r.at = "files" /\ r.nodes = q.nodes
      BY <1>1, <2>1, <2>2 DEF DeleteRequest, Deleting
    <2> QED BY <1>2, <2>1, <2>2, <2>3 DEF Deleting
  <1>6. CASE DeleteFileLoad(c)
    <2>1. PICK x \in q.files : r = [q EXCEPT !.at = "mark", !.file = x, !.files = @ \ {x}]
      BY <1>6 DEF DeleteFileLoad, TypeOK
    <2>2. q.at = "files" /\ deleted' = deleted
      BY <1>6 DEF DeleteFileLoad, At, tree
    <2>3. r.at = "mark" /\ r.nodes = q.nodes
      BY <1>1, <2>1, <2>2 DEF DeleteRequest, Deleting
    <2> QED BY <1>2, <2>2, <2>3 DEF Deleting
  <1>7. CASE DeleteFileMark(c)
    <2>1. /\ r = [q EXCEPT !.at = "files", !.file = None]
          /\ q.at = "mark" /\ deleted' = deleted
      BY <1>7 DEF DeleteFileMark, TypeOK, At
    <2>2. r.at = "files" /\ r.nodes = q.nodes
      BY <1>1, <2>1 DEF DeleteRequest, Deleting
    <2> QED BY <1>2, <2>1, <2>2 DEF Deleting
  <1>8. CASE DeleteStamp(c)
    <2>1. /\ q.at = "files" /\ deleted' = deleted \union {Head(q.nodes)}
          /\ \/ Len(q.nodes) = 1 /\ r = Idle
             \/ r = [q EXCEPT !.at = "sweep", !.nodes = Tail(@)]
      BY <1>8 DEF DeleteStamp, TypeOK, At, Node
    <2>2. [q EXCEPT !.at = "sweep", !.nodes = Tail(@)].at = "sweep"
          /\ [q EXCEPT !.at = "sweep", !.nodes = Tail(@)].nodes = Tail(q.nodes)
      BY <1>1, <2>1 DEF DeleteRequest, Deleting
    <2> QED BY <1>2, <2>1, <2>2 DEF Deleting
  <1>9. ~DeleteNotFound(c) /\ ~DeleteFails(c)
    BY DEF DeleteNotFound, DeleteFails
  <1> QED BY <1>3, <1>4, <1>5, <1>6, <1>7, <1>8, <1>9 DEF DeleteStep


LEMMA CascadeDelete ==
  ASSUME CascadeInv, NEW c \in Clients, DeleteStep(c)
  PROVE  CascadeInv'
  <1>0. TypeOK /\ TypeOK' /\ StrandInv /\ StrandInv'
    <2>1. StrandInv /\ StrandInv'
      BY StrandDelete DEF CascadeInv
    <2> QED BY <2>1 DEF StrandInv
  <1> SUFFICES ASSUME ~raced' PROVE late' = {} /\ Followed' /\ \A k \in Clients : Covered(k)'
    BY <1>0 DEF CascadeInv
  <1>1. /\ ~raced /\ late' = late /\ parent' = parent
        /\ \A k \in Clients : k # c => req'[k] = req[k]
    BY <1>0 DEF DeleteStep, DeleteLoad, DeleteCollect, DeleteList, DeleteFileLoad,
                DeleteFileMark, DeleteNotFound, DeleteStamp, DeleteFails, Start, Goto,
                End, tree, TypeOK
  <1>2. late' = {} /\ Followed /\ \A k \in Clients : Covered(k)
    BY <1>1 DEF CascadeInv
  <1> DEFINE q == req[c]
             r == req'[c]
  <1> SUFFICES Followed' /\ Covered(c)' /\ deleted \subseteq deleted'
    BY <1>1, <1>2 DEF Covered, Kept, Listed, Live, At
  <1>3. ASSUME deleted' = deleted, Deleting(c) => Deleting(c)' /\ Listed(c) \subseteq Listed(c)'
        PROVE  Followed'
    BY <1>1, <1>2, <1>3 DEF Followed, Live, Listed, Deleting
  <1>4. CASE /\ ~Deleting(c) /\ deleted' = deleted
             /\ r.at = "collect" /\ r.scanned = 0 /\ r.nodes \in Seq(Folders)
    BY <1>3, <1>4 DEF Covered, At
  <1>5. CASE /\ q.at = "collect" /\ r.at = "collect" /\ deleted' = deleted
             /\ q.nodes \in Seq(Folders) /\ q.scanned \in Nat /\ q.scanned < Len(q.nodes)
             /\ r.scanned = q.scanned + 1
             /\ \E found \in Seq(Folders) :
                   /\ r.nodes = q.nodes \o found
                   /\ \A f \in Folders : Live(f) /\ parent[f] = q.nodes[q.scanned + 1] =>
                         f \in ToSet(q.nodes) \/ \E i \in DOMAIN found : found[i] = f
    <2>1. PICK found \in Seq(Folders) :
                   /\ r.nodes = q.nodes \o found
                   /\ \A f \in Folders : Live(f) /\ parent[f] = q.nodes[q.scanned + 1] =>
                         f \in ToSet(q.nodes) \/ \E i \in DOMAIN found : found[i] = f
      BY <1>5
    <2>2. /\ Len(r.nodes) >= Len(q.nodes) /\ Len(q.nodes) \in Nat /\ Len(r.nodes) \in Nat
          /\ DOMAIN q.nodes = 1 .. Len(q.nodes) /\ DOMAIN r.nodes = 1 .. Len(r.nodes)
          /\ \A i \in 1 .. Len(q.nodes) : r.nodes[i] = q.nodes[i]
          /\ \A i \in DOMAIN found : \E j \in DOMAIN r.nodes : r.nodes[j] = found[i]
      <3> DEFINE u == q.nodes
      <3>1. u \in Seq(Folders)
        BY <1>5
      <3> HIDE DEF u
      <3>2. /\ Len(u \o found) = Len(u) + Len(found) /\ DOMAIN u = 1 .. Len(u)
            /\ DOMAIN (u \o found) = 1 .. Len(u) + Len(found)
            /\ Len(u) \in Nat /\ Len(found) \in Nat /\ DOMAIN found = 1 .. Len(found)
            /\ \A i \in 1 .. Len(u) : (u \o found)[i] = u[i]
            /\ \A i \in 1 .. Len(found) : (u \o found)[Len(u) + i] = found[i]
        BY <3>1
      <3>3. ASSUME NEW i \in 1 .. Len(found)
            PROVE  \E j \in 1 .. Len(u) + Len(found) : (u \o found)[j] = found[i]
        <4>1. Len(u) + i \in 1 .. Len(u) + Len(found)
          BY <3>2
        <4> QED BY <3>2, <4>1
      <3>4. r.nodes = u \o found
        BY <2>1 DEF u
      <3>5. u = q.nodes
        BY DEF u
      <3>6. /\ Len(r.nodes) = Len(u) + Len(found) /\ DOMAIN r.nodes = 1 .. Len(u) + Len(found)
            /\ \A i \in 1 .. Len(u) : r.nodes[i] = u[i]
            /\ \A i \in 1 .. Len(found) : \E j \in DOMAIN r.nodes : r.nodes[j] = found[i]
        BY <3>2, <3>3, <3>4, Zenon
      <3>7. Len(u) + Len(found) \in Nat /\ Len(u) + Len(found) >= Len(u)
        BY <3>2
      <3> QED BY <3>2, <3>5, <3>6, <3>7, Zenon
    <2>3. Listed(c) \subseteq Listed(c)' /\ \A i \in DOMAIN found : found[i] \in Listed(c)'
      <3>1. /\ Listed(c) = {q.nodes[i] : i \in DOMAIN q.nodes}
            /\ Listed(c)' = {r.nodes[i] : i \in DOMAIN r.nodes}
        BY DEF Listed, ToSet
      <3>2. ASSUME NEW i \in DOMAIN q.nodes PROVE q.nodes[i] \in Listed(c)'
        <4>1. i \in DOMAIN r.nodes /\ r.nodes[i] = q.nodes[i]
          BY <2>2
        <4> QED BY <3>1, <4>1
      <3>3. ASSUME NEW i \in DOMAIN found PROVE found[i] \in Listed(c)'
        <4>1. PICK k \in DOMAIN r.nodes : r.nodes[k] = found[i]
          BY <2>2
        <4> QED BY <3>1, <4>1
      <3> QED BY <3>1, <3>2, <3>3
    <2>4. ASSUME NEW i \in 1 .. r.scanned, NEW f \in Folders, Live(f), parent[f] = r.nodes[i]
          PROVE  f \in Listed(c)'
      <3>1. i \in 1 .. Len(q.nodes) /\ r.nodes[i] = q.nodes[i]
        BY <1>5, <2>2
      <3>2. CASE i \in 1 .. q.scanned
        BY <1>2, <1>5, <2>3, <2>4, <3>1, <3>2 DEF Covered, Kept, At
      <3>3. CASE i = q.scanned + 1
        BY <2>1, <2>3, <2>4, <3>1, <3>3 DEF Listed
      <3>4. q.scanned \in Nat /\ r.scanned = q.scanned + 1
        BY <1>5
      <3>5. i \in 1 .. q.scanned \/ i = q.scanned + 1
        BY <2>4, <3>4
      <3> QED BY <3>2, <3>3, <3>5, Zenon
    <2>5. Covered(c)'
      <3>1. r.scanned <= Len(r.nodes)
        BY <1>5, <2>2
      <3> QED BY <1>1, <1>5, <2>4, <3>1 DEF Covered, Kept, Live, At
    <2> QED BY <1>3, <1>5, <2>3, <2>5 DEF Deleting
  <1>6. CASE /\ \/ q.at = "collect" /\ q.scanned = Len(q.nodes)
                \/ q.at \in {"sweep", "files", "mark"}
             /\ r.at \in {"files", "mark"} /\ r.nodes = q.nodes /\ deleted' = deleted
             /\ q.nodes \in Seq(Folders)
    <2>1. \A n \in Listed(c) : Kept(c, n)
      BY <1>2, <1>6 DEF Covered, Listed, ToSet, At
    <2>2. Listed(c)' = Listed(c)
      BY <1>6 DEF Listed
    <2>3. Covered(c)'
      BY <1>1, <1>6, <2>1, <2>2 DEF Covered, Kept, Live, At
    <2> QED BY <1>3, <1>6, <2>2, <2>3 DEF Deleting
  <1>7. CASE /\ q.at = "files" /\ q.nodes \in Seq(Folders) /\ q.nodes # <<>>
             /\ deleted' = deleted \union {Head(q.nodes)}
             /\ \/ Len(q.nodes) = 1 /\ r = Idle
                \/ r.at = "sweep" /\ r.nodes = Tail(q.nodes)
    <2>1. \A n \in Listed(c) : Kept(c, n)
      BY <1>2, <1>7 DEF Covered, At
    <2>2. \A f : f \in Listed(c) =>
             f = Head(q.nodes) \/ (Len(q.nodes) # 1 /\ f \in ToSet(Tail(q.nodes)))
      <3> DEFINE u == q.nodes
      <3>1. u \in Seq(Folders) /\ u # <<>>
        BY <1>7
      <3>2. ASSUME NEW f, f \in Listed(c) PROVE \E i \in 1 .. Len(u) : u[i] = f
        BY <3>1, <3>2 DEF Listed, ToSet
      <3> HIDE DEF u
      <3>3. ASSUME NEW i \in 1 .. Len(u), i # 1 PROVE Len(u) # 1 /\ u[i] \in ToSet(Tail(u))
        <4>1. /\ Len(u) \in Nat /\ DOMAIN Tail(u) = 1 .. (Len(u) - 1)
              /\ \A k \in 1 .. (Len(u) - 1) : Tail(u)[k] = u[k + 1]
          BY <3>1
        <4>2. Len(u) # 1 /\ i - 1 \in 1 .. (Len(u) - 1) /\ (i - 1) + 1 = i
          <5>1. Len(u) \in Nat /\ i \in Int /\ 1 <= i /\ i <= Len(u)
            BY <4>1
          <5> QED BY <3>3, <5>1
        <4>3. Tail(u)[i - 1] = u[i]
          BY <4>1, <4>2
        <4> QED BY <4>1, <4>2, <4>3 DEF ToSet
      <3>4. u[1] = Head(u)
        BY <3>1
      <3>5. u = q.nodes
        BY DEF u
      <3> QED BY <3>2, <3>3, <3>4, <3>5
    <2>3. ToSet(Tail(q.nodes)) \subseteq Listed(c) /\ Head(q.nodes) \in Listed(c)
      BY <1>7 DEF Listed, ToSet
    <2>4. \A f : Live(f)' => Live(f) /\ f # Head(q.nodes)
      BY <1>1, <1>7 DEF Live
    <2>5. \A f : Live(f)' /\ f \in Listed(c) => Deleting(c)' /\ f \in Listed(c)'
      BY <1>7, <2>2, <2>4 DEF Deleting, Listed
    <2>6. Covered(c)'
      <3>1. CASE r = Idle
        BY <3>1 DEF Covered, At, Idle
      <3>2. CASE r.at = "sweep" /\ r.nodes = Tail(q.nodes)
        <4>1. Listed(c)' \subseteq Listed(c)
          BY <2>3, <3>2 DEF Listed
        <4>2. ASSUME NEW n \in Listed(c)', NEW f \in Folders, Live(f)', parent'[f] = n
              PROVE  f \in Listed(c)'
          BY <1>1, <2>1, <2>4, <2>5, <4>1, <4>2 DEF Kept
        <4> QED BY <3>2, <4>2 DEF Covered, Kept, At
      <3> QED BY <1>7, <3>1, <3>2
    <2>7. Followed'
      <3> SUFFICES ASSUME NEW f \in Folders, Live(f)', parent'[f] \in deleted'
                   PROVE  \E k \in Clients : Deleting(k)' /\ f \in Listed(k)'
        BY DEF Followed
      <3>1. CASE parent[f] \in deleted
        <4>1. PICK k \in Clients : Deleting(k) /\ f \in Listed(k)
          BY <1>2, <2>4, <3>1 DEF Followed
        <4>2. CASE k = c
          BY <2>5, <4>1, <4>2
        <4>3. CASE k # c
          BY <1>1, <4>1, <4>3 DEF Deleting, Listed
        <4> QED BY <4>2, <4>3
      <3>2. CASE parent[f] = Head(q.nodes)
        BY <2>1, <2>3, <2>4, <2>5, <3>2 DEF Kept
      <3> QED BY <1>1, <1>7, <3>1, <3>2
    <2> QED BY <1>7, <2>6, <2>7
  <1> QED BY <1>0, <1>4, <1>5, <1>6, <1>7, CascadeRequest

(* When no cascade was cut short and no write met one, nothing live is left *)
(* under a deleted folder once all cascades have ended, however many        *)
(* overlapped: what one has deleted, none of the others needs to find.      *)
THEOREM CascadesLeaveNothing == Spec => []CascadesComplete
  <1>1. Init => CascadeInv
    <2> SUFFICES ASSUME Init PROVE CascadeInv
      OBVIOUS
    <2>1. StrandInv
      BY StrandInit
    <2>2. deleted = {} /\ late = {} /\ \A c \in Clients : req[c].at = "idle"
      BY DEF Init, Idle
    <2> QED BY <2>1, <2>2 DEF CascadeInv, Followed, Covered, At
  <1>2. CascadeInv /\ [Next]_vars => CascadeInv'
    <2> SUFFICES ASSUME CascadeInv, [Next]_vars PROVE CascadeInv'
      OBVIOUS
    <2>0. StrandInv /\ StrandInv' /\ TypeOK /\ TypeOK'
      <3>1. StrandInv /\ StrandInv'
        BY StrandStep DEF CascadeInv
      <3> QED BY <3>1 DEF StrandInv
    <2>1. CASE UNCHANGED vars \/ \E x \in Files : RemoveFile(x)
      BY <2>0, <2>1, CascadeLook DEF vars, tree, RemoveFile
    <2>2. ASSUME NEW c \in Clients, MoveStep(c) \/ CreateLoad(c) \/ PlaceLoad(c), ~MoveWrite(c)
          PROVE  CascadeInv'
      <3>1. UNCHANGED <<parent, deleted, late, raced>>
        BY <2>2 DEF MoveStep, MoveLoad, MoveTarget, MoveAscend, MoveReject, MoveAccept,
                    CreateLoad, PlaceLoad, tree
      <3>2. \A k \in Clients : req'[k] = req[k] \/ (~Deleting(k) /\ ~Deleting(k)')
        BY <2>0, <2>2, NoCascade
      <3> QED BY <2>0, <3>1, <3>2, CascadeLook
    <2>3. ASSUME NEW c \in Clients, PlaceWrite(c) PROVE CascadeInv'
      <3>1. \A k \in Clients : req'[k] = req[k] \/ (~Deleting(k) /\ ~Deleting(k)')
        BY <2>0, <2>3, NoCascade
      <3>2. ~raced' => ~raced /\ late' \subseteq late
        BY <2>3 DEF PlaceWrite, Races, Emptying, Deleting
      <3>3. UNCHANGED <<parent, deleted>>
        BY <2>3 DEF PlaceWrite
      <3> QED BY <2>0, <3>1, <3>2, <3>3, CascadeLook
    <2> QED BY <2>1, <2>2, <2>3, CascadeWrite, CascadeDelete DEF Next
  <1>3. CascadeInv => CascadesComplete
    BY DEF CascadeInv, CascadesComplete, StrandInv, StrandedOnlyLate, Followed
  <1> QED BY <1>1, <1>2, <1>3, PTL DEF Spec

=============================================================================
